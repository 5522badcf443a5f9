---------------------------- MODULE CloudSession ----------------------------
(***************************************************************************)
(* The cloud session an ECAM machine demands before it executes a command: *)
(* DelonghiCoordinator's session cache, the command path that warms it up, *)
(* the poll that watches it, and unload (coordinator.py).                  *)
(*                                                                         *)
(* asyncio interleaves coroutines only at awaits, so an action is the code *)
(* between two awaits of one coroutine.  Every await on the cloud is two   *)
(* actions: the cloud answers, and the coroutine resumes later on an       *)
(* answer that may be stale by then.                                       *)
(*                                                                         *)
(* The clock is kept as the age of _last_connect_at, in the three classes  *)
(* _session_is_fresh tells apart.                                          *)
(***************************************************************************)

CONSTANTS
  Commands,     \* command calls (wake, standby, profile); each is made once
  Wakes,        \* those that are wakes: a SESSION REFRESH frame may go first
  AppIds,       \* the cloud app ids that can hold the machine's session
  Default,      \* INTEGRATION_CLOUD_APP_ID, the constant of last resort
  Signatures,   \* ids that frames of the official app can teach
  ForeignIds,   \* ids that clients other than this integration register
  Free,         \* app_id 0: no session is held
  NoId,         \* None: no app id known, or the read failed
  Pending,      \* no answer yet
  Accepted,     \* the cloud took the POST
  NoTask        \* None, for task handles and for the connect lock

ASSUME IdAssumption ==
  /\ Default \in AppIds
  /\ Signatures \subseteq AppIds
  /\ ForeignIds \subseteq AppIds
  /\ {Free, NoId, Pending, Accepted} \cap AppIds = {}
  /\ Free \notin {NoId, Pending, Accepted}
  /\ NoId \notin {Pending, Accepted}
  /\ Pending # Accepted

ASSUME CommandAssumption ==
  /\ Wakes \subseteq Commands
  /\ NoTask \notin Commands

VARIABLES
  deviceAppId,       \* _device_app_id
  integrationAppId,  \* _integration_app_id
  connectAge,        \* age of _last_connect_at
  sessionConfirmed,  \* _session_confirmed
  coldTask,          \* _session_cold_task, the handle
  lockHolder,        \* _session_connect_lock
  tasks,             \* commands that run as a background task
  cancelling,        \* the task a CancelledError is on its way to
  unloaded,          \* async_shutdown has run
  data,              \* the app id in self.data, the last published poll
  poll,              \* the poll in progress: its stage and the app id it read
  pc,                \* where each command is
  reply,             \* the cloud's answer to the call a command awaits
  posted,            \* the id a command's handshake POSTs, while it lasts
  tail,              \* the session tail of the frame a command is writing
  holder,            \* the app id the machine reports
  registering,       \* the last id POSTed that the machine has not taken up
  held               \* history: every id the machine has ever reported

session == <<deviceAppId, integrationAppId, connectAge, sessionConfirmed>>
tasking == <<coldTask, lockHolder, tasks, cancelling, unloaded>>
polling == <<data, poll>>
command == <<pc, reply, posted, tail>>
cloud == <<holder, registering, held>>
vars == <<session, tasking, polling, command, cloud>>

Reads == AppIds \cup {Free, NoId}
Ages == {"settling", "warm", "cold"}

\* Under the connect lock.
Handshaking == {"probing", "surveying", "posting", "confirming"}
\* Awaiting a direct GET of app_id.
Fetching == {"reading", "probing", "surveying", "confirming"}
Writing == {"nudging", "writing"}
Ended == {"refused", "ignored", "skipped", "unconfirmed", "failed",
          "cancelled", "sent"}
Stages == {"idle", "queued"} \cup Fetching \cup Handshaking \cup Writing
            \cup Ended

\* The values each part of the coordinator's session state may take.
TypeOK ==
  /\ deviceAppId \in Signatures \cup {NoId}
  /\ integrationAppId \in AppIds
  /\ connectAge \in Ages
  /\ sessionConfirmed \in BOOLEAN
  /\ coldTask \in Commands \cup {NoTask}
  /\ lockHolder \in Commands \cup {NoTask}
  /\ tasks \subseteq Commands
  /\ cancelling \in Commands \cup {NoTask}
  /\ unloaded \in BOOLEAN
  /\ data \in Reads
  /\ poll \in [stage : {"idle", "answered", "applied"}, appId : Reads]
  /\ pc \in [Commands -> Stages]
  /\ reply \in [Commands -> Reads \cup {Pending, Accepted}]
  /\ posted \in [Commands -> AppIds \cup {NoId}]
  /\ tail \in [Commands -> AppIds \cup {NoId}]
  /\ holder \in AppIds \cup {Free}
  /\ registering \in AppIds \cup {NoId}
  /\ held \subseteq AppIds

-----------------------------------------------------------------------------
(* The session cache. *)

\* Mutant of OwnIdFor: no constant to fall back on.
NoFallback(d) == d

\* _own_app_id, for a machine id of d.
OwnIdFor(d) == IF d = NoId THEN Default ELSE d
OwnAppId == OwnIdFor(deviceAppId)

\* _revert_foreign_app_id_if_session_clear: what a reading of a leaves of
\* _integration_app_id, and of _last_connect_at.
IdAfterRead(a) == IF a \in {NoId, Free} THEN OwnAppId ELSE integrationAppId

\* Mutant of AgeAfterRead: the clock of the foreign session is kept.
AgeKept(a) == connectAge

AgeAfterRead(a) ==
  IF IdAfterRead(a) # integrationAppId THEN "cold" ELSE connectAge

\* _session_is_fresh(a), for our id and the age of the last connect.
Fresh(a, id, age) ==
  \/ age = "settling"
  \/ age = "warm" /\ a \in {NoId, id}

\* The id of another client, to be ridden instead of fought.
Adoptable(a) == a \in AppIds \ {integrationAppId}

-----------------------------------------------------------------------------
(* How a command ends, and how it writes. *)

\* Mutant of EndTask: a path on which the handle is not given back.
HandleKept(c) == tasks' = tasks \ {c} /\ UNCHANGED coldTask

\* The task's finally clause clears the handle, whoever it names by then.
EndTask(c) ==
  /\ tasks' = tasks \ {c}
  /\ coldTask' = IF c \in tasks THEN NoTask ELSE coldTask

End(c, outcome) ==
  /\ pc' = [pc EXCEPT ![c] = outcome]
  /\ tail' = [tail EXCEPT ![c] = NoId]
  /\ EndTask(c)

\* send_fn: the tail is taken from _integration_app_id (id) when the frame is
\* built.  A wake that finds the monitor in standby nudges the machine first.
StartSend(c, id) ==
  /\ \/ pc' = [pc EXCEPT ![c] = "writing"]
     \/ c \in Wakes /\ pc' = [pc EXCEPT ![c] = "nudging"]
  /\ tail' = [tail EXCEPT ![c] = id]

\* The end of _cold_connect_then: reachability again, then the write.  The
\* refusal is swallowed with every other exception.
SendFromTask(c, id) ==
  \/ StartSend(c, id) /\ UNCHANGED <<coldTask, tasks>>
  \/ End(c, "failed")

-----------------------------------------------------------------------------
(* The command path, in the caller's coroutine. *)

\* Calls come at any time: a service call that has looked up several machines
\* may reach this one after its entry has been unloaded.

\* _ensure_machine_reachable raises before anything else happens.
PressRefused(c) ==
  /\ pc[c] = "idle"
  /\ pc' = [pc EXCEPT ![c] = "refused"]
  /\ UNCHANGED <<session, tasking, polling, reply, posted, tail, cloud>>

AdoptAndSend(c, a) ==
  /\ Adoptable(a)
  /\ integrationAppId' = a
  /\ connectAge' = "settling"
  /\ StartSend(c, a)
  /\ UNCHANGED <<coldTask, tasks>>

SendWarm(c, a) ==
  /\ ~Adoptable(a)
  /\ Fresh(a, IdAfterRead(a), AgeAfterRead(a))
  /\ integrationAppId' = IdAfterRead(a)
  /\ connectAge' = AgeAfterRead(a)
  /\ StartSend(c, IdAfterRead(a))
  /\ UNCHANGED <<coldTask, tasks>>

\* Mutant of ConnectRunning: every command gets its own task.
NeverRunning == FALSE

ConnectRunning == coldTask # NoTask

IgnoreDuplicate(c, a) ==
  /\ ~Adoptable(a)
  /\ ~Fresh(a, IdAfterRead(a), AgeAfterRead(a))
  /\ ConnectRunning
  /\ integrationAppId' = IdAfterRead(a)
  /\ connectAge' = AgeAfterRead(a)
  /\ pc' = [pc EXCEPT ![c] = "ignored"]
  /\ UNCHANGED <<coldTask, tasks, tail>>

ScheduleColdConnect(c, a) ==
  /\ ~Adoptable(a)
  /\ ~Fresh(a, IdAfterRead(a), AgeAfterRead(a))
  /\ ~ConnectRunning
  /\ integrationAppId' = IdAfterRead(a)
  /\ connectAge' = AgeAfterRead(a)
  /\ coldTask' = c
  /\ tasks' = tasks \cup {c}
  /\ pc' = [pc EXCEPT ![c] = "queued"]
  /\ UNCHANGED tail

\* _with_cloud_session once app_id is known to be a.
Decide(c, a) ==
  /\ \/ AdoptAndSend(c, a)
     \/ SendWarm(c, a)
     \/ IgnoreDuplicate(c, a)
     \/ ScheduleColdConnect(c, a)
  /\ UNCHANGED <<deviceAppId, sessionConfirmed, lockHolder, cancelling,
                 unloaded, polling, posted, cloud>>

\* The last poll answers _read_app_id ...
PressOnSnapshot(c) ==
  /\ pc[c] = "idle"
  /\ data # NoId
  /\ Decide(c, data)
  /\ UNCHANGED reply

\* ... or else a direct GET does.
PressAndRead(c) ==
  /\ pc[c] = "idle"
  /\ data = NoId
  /\ pc' = [pc EXCEPT ![c] = "reading"]
  /\ UNCHANGED <<session, tasking, polling, reply, posted, tail, cloud>>

ReadDone(c) ==
  /\ pc[c] = "reading"
  /\ reply[c] # Pending
  /\ reply' = [reply EXCEPT ![c] = Pending]
  /\ Decide(c, reply[c])

-----------------------------------------------------------------------------
(* _cold_connect_then, in a background task. *)

\* A coroutine that a CancelledError is on its way to does not resume again.
Resumes(c) == c # cancelling

\* Mutant of LockFree: no connect lock.
NoLock == TRUE

LockFree == lockHolder = NoTask

\* The lock, and the checks that follow it without an await.
AcquireLock(c) ==
  /\ pc[c] = "queued"
  /\ Resumes(c)
  /\ LockFree
  /\ \/ /\ connectAge = "cold"
        /\ pc' = [pc EXCEPT ![c] = "surveying"]
        /\ lockHolder' = c
        /\ UNCHANGED <<coldTask, tasks, tail>>
     \/ /\ connectAge # "cold"
        /\ ~sessionConfirmed
        /\ pc' = [pc EXCEPT ![c] = "probing"]
        /\ lockHolder' = c
        /\ UNCHANGED <<coldTask, tasks, tail>>
     \/ /\ connectAge # "cold"
        /\ sessionConfirmed
        /\ SendFromTask(c, integrationAppId)
        /\ UNCHANGED lockHolder
  /\ UNCHANGED <<session, cancelling, unloaded, polling, reply, posted, cloud>>

\* The warm cache is unconfirmed: the command goes out only if the machine
\* holds our id, and is dropped otherwise.
ProbeDone(c) ==
  /\ pc[c] = "probing"
  /\ Resumes(c)
  /\ reply[c] # Pending
  /\ reply' = [reply EXCEPT ![c] = Pending]
  /\ lockHolder' = NoTask
  /\ \/ reply[c] = integrationAppId /\ SendFromTask(c, integrationAppId)
     \/ /\ reply[c] # integrationAppId
        /\ End(c, "skipped")
  /\ UNCHANGED <<session, cancelling, unloaded, polling, posted, cloud>>

\* The live reading before the POST, and _post_cloud_session up to its await.
SurveyDone(c) ==
  /\ pc[c] = "surveying"
  /\ Resumes(c)
  /\ reply[c] # Pending
  /\ reply' = [reply EXCEPT ![c] = Pending]
  /\ integrationAppId' = IdAfterRead(reply[c])
  /\ connectAge' = AgeAfterRead(reply[c])
  /\ posted' = [posted EXCEPT ![c] = IdAfterRead(reply[c])]
  /\ pc' = [pc EXCEPT ![c] = "posting"]
  /\ UNCHANGED <<deviceAppId, sessionConfirmed, tasking, polling, tail, cloud>>

\* The settle sleep and the first poll of _wait_for_session_confirmed.
PostDone(c) ==
  /\ pc[c] = "posting"
  /\ Resumes(c)
  /\ reply[c] = Accepted
  /\ reply' = [reply EXCEPT ![c] = Pending]
  /\ pc' = [pc EXCEPT ![c] = "confirming"]
  /\ UNCHANGED <<session, tasking, polling, posted, tail, cloud>>

\* Mutant of Wanted: wait for our present id.
WantedNow(c) == integrationAppId

\* want_app_id.
Wanted(c) == posted[c]

\* Mutant of Confirms: a matching wait always confirms our session.
AlwaysConfirms(c) == TRUE

Confirms(c) == Wanted(c) = integrationAppId

\* The machine reports the id that was POSTed.  Ours may have moved since.
ConfirmMatches(c) ==
  /\ pc[c] = "confirming"
  /\ Resumes(c)
  /\ reply[c] = Wanted(c)
  /\ reply' = [reply EXCEPT ![c] = Pending]
  /\ sessionConfirmed' = Confirms(c)
  /\ connectAge' = "settling"
  /\ lockHolder' = NoTask
  /\ posted' = [posted EXCEPT ![c] = NoId]
  /\ SendFromTask(c, integrationAppId)
  /\ UNCHANGED <<deviceAppId, integrationAppId, cancelling, unloaded, polling,
                 cloud>>

ConfirmPollsAgain(c) ==
  /\ pc[c] = "confirming"
  /\ Resumes(c)
  /\ reply[c] \notin {Pending, Wanted(c)}
  /\ reply' = [reply EXCEPT ![c] = Pending]
  /\ UNCHANGED <<session, tasking, polling, pc, posted, tail, cloud>>

\* Mutant of DeadlinePasses: the deadline needs an answer to run out on.
DeadlineNeedsAnswer(c) == reply[c] \in AppIds \ {Wanted(c)}

\* CONNECT_CONFIRM_TIMEOUT may run out on any turn of the loop that does not
\* match.
DeadlinePasses(c) == reply[c] # Wanted(c)

ConfirmTimesOut(c) ==
  /\ pc[c] = "confirming"
  /\ Resumes(c)
  /\ DeadlinePasses(c)
  /\ reply' = [reply EXCEPT ![c] = Pending]
  /\ sessionConfirmed' = FALSE
  /\ lockHolder' = NoTask
  /\ posted' = [posted EXCEPT ![c] = NoId]
  /\ End(c, "unconfirmed")
  /\ UNCHANGED <<deviceAppId, integrationAppId, connectAge, cancelling,
                 unloaded, polling, cloud>>

-----------------------------------------------------------------------------
(* What either kind of coroutine does once it writes. *)

\* The wake frame is built after the nudge and the refresh that follows it.
NudgeDone(c) ==
  /\ pc[c] = "nudging"
  /\ Resumes(c)
  /\ pc' = [pc EXCEPT ![c] = "writing"]
  /\ tail' = [tail EXCEPT ![c] = integrationAppId]
  /\ UNCHANGED <<session, tasking, polling, reply, posted, cloud>>

WriteDone(c) ==
  /\ pc[c] = "writing"
  /\ Resumes(c)
  /\ End(c, "sent")
  /\ UNCHANGED <<session, lockHolder, cancelling, unloaded, polling, reply,
                 posted, cloud>>

ReleaseLock(c) == lockHolder' = IF lockHolder = c THEN NoTask ELSE lockHolder

\* Mutant of CallFails: what fails is done again, a write included.
CallFailsAgain(c) ==
  /\ pc[c] \in Fetching \cup Handshaking \cup Writing
  /\ Resumes(c)
  /\ reply' = [reply EXCEPT ![c] = Pending]
  /\ ReleaseLock(c)
  /\ posted' = [posted EXCEPT ![c] = NoId]
  /\ pc' = [pc EXCEPT ![c] = "idle"]
  /\ EndTask(c)
  /\ UNCHANGED <<session, tail, cancelling, unloaded, polling, cloud>>

\* A cloud call raises: into the caller, or into the task's except clause.
\* The cloud may have acted on it all the same.
CallFails(c) ==
  /\ pc[c] \in Fetching \cup Handshaking \cup Writing
  /\ Resumes(c)
  /\ reply' = [reply EXCEPT ![c] = Pending]
  /\ ReleaseLock(c)
  /\ posted' = [posted EXCEPT ![c] = NoId]
  /\ End(c, "failed")
  /\ UNCHANGED <<session, cancelling, unloaded, polling, cloud>>

-----------------------------------------------------------------------------
(* The poll. *)

NoPoll == [stage |-> "idle", appId |-> NoId]

\* The properties come back; a blank or missing datapoint reads as None.
PollAnswered ==
  /\ poll.stage = "idle"
  /\ ~unloaded
  /\ \E a \in {holder, NoId} : poll' = [stage |-> "answered", appId |-> a]
  /\ UNCHANGED <<session, tasking, data, command, cloud>>

\* Mutant of PollFindsFree: only a missing app id counts as released.
PollFindsNone == poll.appId = NoId

PollFindsFree == poll.appId = Free

\* _sniff_app_traffic, then _update_session_from_props.  A frame learned on
\* this poll may change the machine's id, d is what the frames say after it.
PollApplies(d) ==
  LET own == OwnIdFor(d)
      rebinds == own # OwnAppId /\ integrationAppId = OwnAppId
      id == IF rebinds THEN own ELSE integrationAppId
      reverts == PollFindsFree /\ id # own
  IN  /\ poll.stage = "answered"
      /\ poll' = [poll EXCEPT !.stage = "applied"]
      /\ deviceAppId' = d
      /\ integrationAppId' = IF reverts THEN own ELSE id
      /\ connectAge' = IF rebinds \/ reverts THEN "cold" ELSE connectAge
      /\ sessionConfirmed' = (poll.appId = id)
      /\ UNCHANGED <<tasking, data, command, cloud>>

\* After the device list and the keepalive, the poll becomes self.data.
PollPublishes ==
  /\ poll.stage = "applied"
  /\ data' = poll.appId
  /\ poll' = NoPoll
  /\ UNCHANGED <<session, tasking, command, cloud>>

\* A call of the poll fails: the last snapshot stays, and so does what the
\* poll did to the session.
PollFails ==
  /\ poll.stage # "idle"
  /\ poll' = NoPoll
  /\ UNCHANGED <<session, tasking, data, command, cloud>>

-----------------------------------------------------------------------------
(* Unload. *)

\* async_shutdown.
Shutdown ==
  /\ ~unloaded
  /\ unloaded' = TRUE
  /\ cancelling' = coldTask
  /\ coldTask' = NoTask
  /\ connectAge' = "cold"
  /\ integrationAppId' = OwnAppId
  /\ UNCHANGED <<deviceAppId, sessionConfirmed, lockHolder, tasks, polling,
                 command, cloud>>

\* The CancelledError reaches the task: the lock and the handle are cleared.
CancelLands(c) ==
  /\ cancelling = c
  /\ cancelling' = NoTask
  /\ reply' = [reply EXCEPT ![c] = Pending]
  /\ ReleaseLock(c)
  /\ posted' = [posted EXCEPT ![c] = NoId]
  /\ End(c, "cancelled")
  /\ UNCHANGED <<session, unloaded, polling, cloud>>

-----------------------------------------------------------------------------
(* The cloud, the machine behind it, and the clock. *)

\* A direct GET of app_id is answered, with None when it fails.
CloudAnswers(c) ==
  /\ pc[c] \in Fetching
  /\ reply[c] = Pending
  /\ \E a \in {holder, NoId} : reply' = [reply EXCEPT ![c] = a]
  /\ UNCHANGED <<session, tasking, polling, pc, posted, tail, cloud>>

CloudAcceptsPost(c) ==
  /\ pc[c] = "posting"
  /\ reply[c] = Pending
  /\ reply' = [reply EXCEPT ![c] = Accepted]
  /\ registering' = posted[c]
  /\ UNCHANGED <<session, tasking, polling, pc, posted, tail, holder, held>>

\* The machine takes up the id that was POSTed, some time later or never.
MachineRegisters ==
  /\ registering # NoId
  /\ holder' = registering
  /\ held' = held \cup {registering}
  /\ registering' = NoId
  /\ UNCHANGED <<session, tasking, polling, command>>

\* Another client (the official app) registers its own session.
ForeignConnects(a) ==
  /\ holder # a
  /\ holder' = a
  /\ held' = held \cup {a}
  /\ UNCHANGED <<session, tasking, polling, command, registering>>

\* The session times out in the machine, or its client lets go of it.
SessionReleased ==
  /\ holder # Free
  /\ holder' = Free
  /\ UNCHANGED <<session, tasking, polling, command, registering, held>>

\* CONNECT_SETTLE_DELAY, then CONNECT_REFRESH_INTERVAL run out.
SessionAges ==
  /\ connectAge # "cold"
  /\ connectAge' = IF connectAge = "settling" THEN "warm" ELSE "cold"
  /\ UNCHANGED <<deviceAppId, integrationAppId, sessionConfirmed, tasking,
                 polling, command, cloud>>

-----------------------------------------------------------------------------

\* The coordinator at the end of setup: learned frames restored, the first
\* poll published, whoever held the session before.
Init ==
  /\ deviceAppId \in Signatures \cup {NoId}
  /\ integrationAppId = OwnAppId
  /\ connectAge = "cold"
  /\ holder \in ForeignIds \cup {OwnAppId, Free}
  /\ data \in {holder, NoId}
  /\ sessionConfirmed = (data = OwnAppId)
  /\ poll = NoPoll
  /\ coldTask = NoTask
  /\ lockHolder = NoTask
  /\ tasks = {}
  /\ cancelling = NoTask
  /\ unloaded = FALSE
  /\ pc = [c \in Commands |-> "idle"]
  /\ reply = [c \in Commands |-> Pending]
  /\ posted = [c \in Commands |-> NoId]
  /\ tail = [c \in Commands |-> NoId]
  /\ registering = NoId
  /\ held = {holder} \ {Free}

\* What a command's own coroutine does.
CommandStep(c) ==
  \/ ReadDone(c)
  \/ AcquireLock(c)
  \/ ProbeDone(c)
  \/ SurveyDone(c)
  \/ PostDone(c)
  \/ ConfirmMatches(c)
  \/ ConfirmPollsAgain(c)
  \/ ConfirmTimesOut(c)
  \/ NudgeDone(c)
  \/ WriteDone(c)
  \/ CallFails(c)
  \/ CancelLands(c)

\* What the poll loop does.
PollStep ==
  \/ PollAnswered
  \/ \E d \in Signatures \cup {NoId} : PollApplies(d)
  \/ PollPublishes
  \/ PollFails

Next ==
  \/ \E c \in Commands :
       \/ PressRefused(c)
       \/ PressOnSnapshot(c)
       \/ PressAndRead(c)
       \/ CommandStep(c)
       \/ CloudAnswers(c)
       \/ CloudAcceptsPost(c)
  \/ PollStep
  \/ Shutdown
  \/ MachineRegisters
  \/ \E a \in ForeignIds : ForeignConnects(a)
  \/ SessionReleased
  \/ SessionAges

Spec == Init /\ [][Next]_vars

-----------------------------------------------------------------------------
(* Fairness: a coroutine whose await is answered runs on, every cloud call *)
(* is answered or times out, the confirm loop is bounded by its deadline,  *)
(* and the poll comes round: every now and then it reads the app id, and   *)
(* succeeds with what it read.                                             *)

ReadsId == PollAnswered /\ poll'.appId # NoId
AppliesId == poll.appId # NoId /\ \E d \in Signatures \cup {NoId} : PollApplies(d)
PublishesId == poll.appId # NoId /\ PollPublishes

CommandFairness ==
  \A c \in Commands :
    /\ WF_vars(CommandStep(c))
    /\ WF_vars(ConfirmTimesOut(c))
    /\ WF_vars(CloudAnswers(c))
    /\ WF_vars(CloudAcceptsPost(c))

PollFairness ==
  /\ WF_vars(PollStep)
  /\ SF_vars(ReadsId)
  /\ SF_vars(AppliesId)
  /\ SF_vars(PublishesId)

FairSpec == Spec /\ CommandFairness /\ PollFairness

-----------------------------------------------------------------------------
(* Safety. *)

\* At most one command is between taking and releasing the connect lock, even
\* when unload has clobbered the task handle and several tasks are alive: two
\* handshakes would POST over each other (_cold_connect_then).
HandshakeExclusive ==
  \A c, d \in Commands :
    pc[c] \in Handshaking /\ pc[d] \in Handshaking => c = d

\* Until unload the handle names the one background task alive, so the check
\* for a running task in _with_cloud_session is never fooled, and no task
\* survives a shutdown that cancels the handle's (async_shutdown).
ColdTaskTracked == ~unloaded => tasks \subseteq {coldTask}

\* While the cache vouches for our session (warm and confirmed, which sends
\* without asking the machine), the id we use is one the machine has reported.
\* Nothing checks this: the flag, the clock and the id are written apart by
\* the poll, by handshakes and by commands that adopt.
TrustedSessionWasHeld ==
  connectAge # "cold" /\ sessionConfirmed => integrationAppId \in held

\* A frame is built: the first of a command, or the wake that follows a nudge.
BuildsFrame(c) == pc'[c] \in Writing /\ pc'[c] # pc[c]

\* A frame built while the session counts as confirmed carries an id the
\* machine has reported, whichever of the five ways the command took (adoption,
\* warm cache, confirmed wait, probe, handshake), and so does the wake frame,
\* whose tail is read anew after the nudge.  The one exception: a command that
\* finds the session clear, or unload, restores our own id and stops the clock
\* but leaves _session_confirmed set, and a wake under way takes that id
\* unasked (_revert_foreign_app_id_if_session_clear, async_send_wake).
FrameRidesReportedId ==
  [][\A c \in Commands :
       BuildsFrame(c) /\ sessionConfirmed'
         => \/ tail'[c] \in held
            \/ pc[c] = "nudging" /\ connectAge = "cold" /\ tail'[c] = OwnAppId
    ]_vars

\* A handshake ends in a write only if the machine took up the very id that
\* was POSTed, whatever the poll taught the coordinator meanwhile
\* (_wait_for_session_confirmed and its want_app_id).
ConfirmedOnMachine ==
  [][\A c \in Commands :
       pc[c] = "confirming" /\ BuildsFrame(c) => posted[c] \in held]_vars

-----------------------------------------------------------------------------
(* The abstract specification. *)

PhaseOf(stage) ==
  CASE stage = "idle" -> "new"
    [] stage \in {"reading", "queued"} -> "open"
    [] stage \in Handshaking -> "connecting"
    [] stage \in Writing -> "writing"
    [] OTHER -> "closed"

Gate == INSTANCE CommandGate WITH
          phase <- [c \in Commands |-> PhaseOf(pc[c])]

\* The session protocol implements the gate: each call is let in once and
\* writes at most once, and handshakes exclude one another, before and after
\* unload.
GateSpec == Gate!Spec

-----------------------------------------------------------------------------
(* Liveness. *)

\* Every command that is pressed comes to an end: no await, lock or confirm
\* loop holds it for ever.
EveryCommandEnds ==
  \A c \in Commands : pc[c] # "idle" ~> pc[c] \in Ended

\* The handle of a cold connect is given back, so commands are not ignored
\* for ever on account of one.
ColdConnectEnds == coldTask # NoTask ~> coldTask = NoTask

\* Once the machine stays free, a foreign id is given up for good, although
\* commands may go on adopting it from a stale snapshot for a while
\* (_update_session_from_props, _with_cloud_session).
ForeignIdGivenUp ==
  []~unloaded /\ <>[](holder = Free) => <>[](integrationAppId = OwnAppId)

-----------------------------------------------------------------------------
(* What the repository says of the command path and the code does not do. *)

\* "No command is ever dropped", "commands pressed during a cold connect are
\* queued, not dropped": no command is turned away over a running connect.
NoCommandIgnored == \A c \in Commands : pc[c] # "ignored"

\* "we never POST a foreign session": what a handshake POSTs is our own id.
OnlyOwnIdPosted ==
  [][\A c \in Commands :
       pc[c] # "posting" /\ pc'[c] = "posting" => posted'[c] = OwnAppId]_vars
=============================================================================
