----------------------------- MODULE PollHealth -----------------------------
(***************************************************************************)
(* The poll of one machine whose profile keeps a monitor session, and what *)
(* the rest of the integration takes from it (coordinator.py): which       *)
(* failed polls are ridden out, when commands are refused to a machine the *)
(* cloud cannot reach, and when the machine's status is shown.             *)
(*                                                                         *)
(* Time passes in ticks.  Every time stamp of the code is kept as the age  *)
(* it would have; an age stops counting once it is past every comparison   *)
(* that reads it.                                                          *)
(***************************************************************************)
EXTENDS Naturals

CONSTANTS
  Scan,        \* DEFAULT_SCAN_INTERVAL
  Keepalive,   \* MONITOR_KEEPALIVE_INTERVAL
  ReachMax,    \* REACHABILITY_MAX_AGE
  MonitorMax,  \* MONITOR_MAX_AGE
  CallMax,     \* how long a read may take, its retries and backoffs included
  WriteMax,    \* how long the keepalive's POST may take
  Tolerance    \* TRANSIENT_FAILURE_TOLERANCE

ASSUME IntervalAssumption ==
  /\ {Scan, Keepalive, ReachMax, MonitorMax, CallMax, WriteMax, Tolerance}
       \subseteq Nat
  /\ Keepalive < Scan

VARIABLES
  stage,         \* the call the poll awaits, or idle
  callAge,       \* how long it has been out
  listing,       \* what the device list says of the machine, once answered
  timer,         \* time since the last poll ended
  wanted,        \* a refresh has been requested
  scheduled,     \* the poll in progress was started by the timer
  hasData,       \* self.data is not None
  failures,      \* _consecutive_failures
  success,       \* last_update_success, what entities take for available
  shown,         \* the state Machine Status last wrote
  status,        \* device.connection_status
  statusAge,     \* age of _device_seen_at
  keepAge,       \* age of _last_monitor_session_at
  keepFailures,  \* _keepalive_failures, as none or some
  monitor,       \* self.monitor: a status, a parse error or {}
  stamped,       \* monitor_updated_at is not None
  monitorAge,    \* its age
  online,        \* the cloud reports the machine connected
  blobAge,       \* age of the monitor blob in the cloud
  asked,         \* a keepalive the machine has not answered yet
  lastOnline,    \* history: time since the cloud last reported it connected
  lastOffline,   \* history: time since the cloud last reported it offline
  wedged         \* history: a keepalive was lost, or a blob unusable

calls == <<stage, callAge, listing, timer, wanted, scheduled>>
snapshot == <<hasData, failures, success, shown>>
reach == <<status, statusAge>>
keepalive == <<keepAge, keepFailures>>
published == <<monitor, stamped, monitorAge>>
cloud == <<online, blobAge, asked>>
history == <<lastOnline, lastOffline, wedged>>
vars == <<calls, snapshot, reach, keepalive, published, cloud, history>>

\* What normalize_connection_status returns; "unknown" stands for every
\* value it does not know.
Statuses == {"online", "offline", "unknown"}

\* Bounds past which an age stops counting.
StatusCap == ReachMax + 1
KeepCap == Scan + 1
HistoryCap == ReachMax + CallMax + 1
MonitorCap == MonitorMax + Scan + CallMax + 1
FailureCap == Tolerance + 1

Older(age, cap) == IF age < cap THEN age + 1 ELSE cap

\* The values each part of the poll's state may take.
TypeOK ==
  /\ stage \in {"idle", "properties", "devices", "keepalive"}
  /\ callAge \in Nat
  /\ listing \in Statuses \cup {"none", "absent"}
  /\ timer \in 0..Scan
  /\ wanted \in BOOLEAN
  /\ scheduled \in BOOLEAN
  /\ hasData \in BOOLEAN
  /\ failures \in 0..FailureCap
  /\ success \in BOOLEAN
  /\ shown \in {"status", "unknown", "unavailable"}
  /\ status \in Statuses
  /\ statusAge \in 0..StatusCap
  /\ keepAge \in 0..KeepCap
  /\ keepFailures \in 0..1
  /\ monitor \in {"status", "garbled", "blank"}
  /\ stamped \in BOOLEAN
  /\ monitorAge \in 0..MonitorCap
  /\ online \in BOOLEAN
  /\ blobAge \in 0..MonitorCap
  /\ asked \in BOOLEAN
  /\ lastOnline \in 0..HistoryCap
  /\ lastOffline \in 0..HistoryCap
  /\ wedged \in BOOLEAN

-----------------------------------------------------------------------------
(* What others read. *)

\* Mutant of Current: a frozen status is trusted for ever.
AlwaysCurrent == TRUE

\* reachability_is_current.
Current == statusAge <= ReachMax

\* _ensure_machine_reachable raises.
Refuses == status = "offline" /\ Current

\* Mutant of Stale: the age is not looked at.
NeverStale(stamp, age) == FALSE

\* monitor_is_stale: without a time stamp there is no evidence of silence.
Stale(stamp, age) == stamp /\ age > MonitorMax

\* native_value of Machine Status, written whenever a poll ends well.
Displayed == IF monitor = "status" /\ ~Stale(stamped, monitorAge)
             THEN "status" ELSE "unknown"

-----------------------------------------------------------------------------
(* The poll: _async_update_data and _fetch_once. *)

\* Home Assistant starts a poll when the interval is over since the last one
\* ended, or on request.
StartPoll ==
  /\ stage = "idle"
  /\ timer = Scan \/ wanted
  /\ stage' = "properties"
  /\ callAge' = 0
  /\ timer' = 0
  /\ scheduled' = (timer = Scan)
  /\ wanted' = FALSE
  /\ UNCHANGED <<listing, snapshot, reach, keepalive, published, cloud,
                 history>>

\* _update_monitor.  A blob that does not decode still brings its stamp; with
\* no blob at all the old stamp stays.
ReadMonitor(blob, stamp) ==
  /\ monitor' = blob
  /\ stamped' = IF blob = "blank" THEN stamped ELSE stamp
  /\ monitorAge' = IF blob = "blank" \/ ~stamp THEN monitorAge ELSE blobAge
  /\ wedged' = (wedged \/ blob # "status" \/ ~stamp)

PropertiesDone ==
  /\ stage = "properties"
  /\ \E blob \in {"status", "garbled", "blank"}, stamp \in BOOLEAN :
       ReadMonitor(blob, stamp)
  /\ stage' = "devices"
  /\ callAge' = 0
  /\ UNCHANGED <<listing, timer, wanted, scheduled, snapshot, reach, keepalive, cloud,
                 lastOnline, lastOffline>>

\* The cloud puts the device list together while the call is out.  A machine
\* may be missing from it, or come with a status nobody knows.
CloudLists ==
  /\ stage = "devices"
  /\ listing = "none"
  /\ listing' \in {IF online THEN "online" ELSE "offline", "unknown", "absent"}
  /\ UNCHANGED <<stage, callAge, timer, wanted, scheduled, snapshot, reach,
                 keepalive, published, cloud, history>>

\* Mutant of SeenNow: the stamp moves although the machine was not listed.
SeenAnyway == TRUE

\* The device record is replaced, and stamped, only if it is in the list.
SeenNow == listing # "absent"

\* Mutant of StatusSeen: whatever the list says is taken for the record.
ListingTaken == listing

StatusSeen == IF listing = "absent" THEN status ELSE listing

\* Mutant of Due: the interval equals the scan's.
DueAfterScan == keepAge > Scan

\* The rate limit of _refresh_monitor_session.
Due == keepAge >= Keepalive

\* The timer starts over when a poll ends, well or not.
EndPoll ==
  /\ stage' = "idle"
  /\ callAge' = 0
  /\ listing' = "none"
  /\ scheduled' = FALSE
  /\ UNCHANGED <<timer, wanted>>

\* The poll ends well: its properties become self.data.
Succeed ==
  /\ EndPoll
  /\ hasData' = TRUE
  /\ failures' = 0
  /\ success' = TRUE
  /\ shown' = Displayed

DevicesDone ==
  /\ stage = "devices"
  /\ listing # "none"
  /\ status' = StatusSeen
  /\ statusAge' = IF SeenNow THEN 0 ELSE statusAge
  /\ \/ /\ Due
        /\ stage' = "keepalive"
        /\ callAge' = 0
        /\ listing' = "none"
        /\ UNCHANGED <<timer, wanted, scheduled, snapshot>>
     \/ ~Due /\ Succeed
  /\ UNCHANGED <<keepalive, published, cloud, history>>

\* The stamp is the time before the POST.
KeepaliveDone ==
  /\ stage = "keepalive"
  /\ keepAge' = IF callAge < KeepCap THEN callAge ELSE KeepCap
  /\ keepFailures' = 0
  /\ asked' = TRUE
  /\ Succeed
  /\ UNCHANGED <<reach, published, online, blobAge, history>>

\* The poll goes on, and the clock of the keepalive stays.
KeepaliveFails ==
  /\ stage = "keepalive"
  /\ keepFailures' = 1
  /\ wedged' = TRUE
  /\ Succeed
  /\ UNCHANGED <<reach, keepAge, published, cloud, lastOnline, lastOffline>>

\* Mutant of RidesOut: one failure too many is served from the snapshot.
RidesOutMore(n) == n <= Tolerance + 1 /\ hasData

\* The n-th failure in a row is ridden out.
RidesOut(n) == n <= Tolerance /\ hasData

\* A read fails once its retries are used up.  What the poll did before it
\* failed stays.
PollFails ==
  /\ stage \in {"properties", "devices"}
  /\ hasData
  /\ EndPoll
  /\ failures' = Older(failures, FailureCap)
  /\ success' = RidesOut(failures + 1)
  /\ shown' = IF RidesOut(failures + 1) THEN Displayed ELSE "unavailable"
  /\ UNCHANGED <<hasData, reach, keepalive, published, cloud, history>>

\* The first refresh is never ridden out: setup fails, and is tried again
\* with a device that was just listed and a coordinator that knows nothing.
SetupFails ==
  /\ stage \in {"properties", "devices"}
  /\ ~hasData
  /\ stage' = "properties"
  /\ callAge' = 0
  /\ listing' = "none"
  /\ status' = IF online THEN "online" ELSE "offline"
  /\ statusAge' = 0
  /\ monitor' = "blank"
  /\ stamped' = FALSE
  /\ UNCHANGED <<timer, wanted, scheduled, snapshot, keepalive, monitorAge,
                 cloud, history>>

-----------------------------------------------------------------------------
(* Commands, the machine, and time. *)

\* A command passes the preflight, is written, and asks for a refresh.
CommandSent ==
  /\ hasData
  /\ ~Refuses
  /\ ~wanted
  /\ wanted' = TRUE
  /\ UNCHANGED <<stage, callAge, listing, timer, scheduled, snapshot, reach,
                 keepalive, published, cloud, history>>

\* The machine answers a keepalive with a fresh blob.
MachinePublishes ==
  /\ asked
  /\ asked' = FALSE
  /\ blobAge' = 0
  /\ UNCHANGED <<calls, snapshot, reach, keepalive, published, online, history>>

\* The machine drops off the cloud, or comes back.
ConnectionChanges ==
  /\ online' = ~online
  /\ lastOnline' = 0
  /\ lastOffline' = 0
  /\ UNCHANGED <<calls, snapshot, reach, keepalive, published, blobAge, asked,
                 wedged>>

\* No call outlasts its time out, and no scheduled poll is late.  A keepalive
\* that a whole tick leaves unanswered was lost on the machine.
Tick ==
  /\ stage = "idle" => timer < Scan
  /\ stage \in {"properties", "devices"} => callAge < CallMax
  /\ stage = "keepalive" => callAge < WriteMax
  /\ timer' = IF stage = "idle" THEN timer + 1 ELSE timer
  /\ callAge' = IF stage = "idle" THEN callAge ELSE callAge + 1
  /\ statusAge' = Older(statusAge, StatusCap)
  /\ keepAge' = Older(keepAge, KeepCap)
  /\ monitorAge' = Older(monitorAge, MonitorCap)
  /\ blobAge' = Older(blobAge, MonitorCap)
  /\ lastOnline' = IF online THEN 0 ELSE Older(lastOnline, HistoryCap)
  /\ lastOffline' = IF online THEN Older(lastOffline, HistoryCap) ELSE 0
  /\ wedged' = (wedged \/ asked)
  /\ UNCHANGED <<stage, listing, wanted, scheduled, snapshot, status,
                 keepFailures, monitor, stamped, online, asked>>

-----------------------------------------------------------------------------

\* A coordinator in its first refresh, with a device that was just listed and
\* a monitor blob of any age in the cloud.
Init ==
  /\ stage = "properties"
  /\ callAge = 0
  /\ listing = "none"
  /\ timer = 0
  /\ wanted = FALSE
  /\ scheduled = FALSE
  /\ hasData = FALSE
  /\ failures = 0
  /\ success = FALSE
  /\ shown = "unavailable"
  /\ online \in BOOLEAN
  /\ status = IF online THEN "online" ELSE "offline"
  /\ statusAge = 0
  /\ keepAge = KeepCap
  /\ keepFailures = 0
  /\ monitor = "blank"
  /\ stamped = FALSE
  /\ monitorAge = 0
  /\ blobAge \in {0, MonitorCap}
  /\ asked = FALSE
  /\ lastOnline = IF online THEN 0 ELSE HistoryCap
  /\ lastOffline = IF online THEN HistoryCap ELSE 0
  /\ wedged = FALSE

PollStep ==
  \/ StartPoll
  \/ PropertiesDone
  \/ CloudLists
  \/ DevicesDone
  \/ KeepaliveDone
  \/ KeepaliveFails
  \/ PollFails
  \/ SetupFails

Next ==
  \/ PollStep
  \/ CommandSent
  \/ MachinePublishes
  \/ ConnectionChanges
  \/ Tick

Spec == Init /\ [][Next]_vars

-----------------------------------------------------------------------------
(* Safety. *)

\* A command is refused only if the cloud did report the machine offline at
\* some time in the last REACHABILITY_MAX_AGE and one call: whatever failed,
\* was late or was missing since, no older Offline can block a command
\* (_ensure_machine_reachable).
RefusalJustified == Refuses => lastOffline <= ReachMax + CallMax

\* A command passes on a recent and known status only if the cloud did report
\* the machine connected about then: no Offline of the last listing is lost.
PassJustified ==
  Current /\ ~Refuses /\ status # "unknown"
    => lastOnline <= ReachMax + CallMax

\* Machine Status never asserts a status whose blob is older than
\* MONITOR_MAX_AGE and the wait for the next reading, although its state is
\* only written when a poll ends (monitor_is_stale).
ShownRecent ==
  shown = "status" /\ stamped /\ stage \in {"idle", "properties"}
    => monitorAge <= MonitorMax + Scan + CallMax

\* Entities turn unavailable only after more than TRANSIENT_FAILURE_TOLERANCE
\* failures in a row, and never stay available beyond that.
AvailabilityBounded == hasData => (success <=> failures <= Tolerance)

\* Every poll the timer starts carries a keepalive unless a read fails, for
\* refreshes on request cannot push it out of its rhythm: the interval is
\* below the scan's, and the timer starts over when a poll ends.
ScheduledPollAsks ==
  [][scheduled /\ stage = "devices" => stage' # "idle" \/ failures' > 0]_vars

\* "It must clear a poll, the retry budget and a tolerated run of transient
\* failures without ever flapping" (MONITOR_MAX_AGE): with the machine
\* answering every keepalive, the shown status does not lapse into unknown.
NoFlap ==
  [][~wedged' /\ success' /\ shown = "status" => shown' # "unknown"]_vars
=============================================================================
