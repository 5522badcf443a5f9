-------------------------- MODULE PollHealthProofs --------------------------
(***************************************************************************)
(* Proofs, for every choice of intervals, that a command is refused, and   *)
(* passes, only on what the cloud recently said, that availability follows *)
(* the failures in a row, that a shown status is recent, and that every    *)
(* scheduled poll carries a keepalive.                                     *)
(***************************************************************************)
EXTENDS PollHealth, TLAPS

\* Every interval is a natural number.
LEMMA Intervals ==
  /\ Scan \in Nat /\ Keepalive \in Nat /\ ReachMax \in Nat
  /\ MonitorMax \in Nat /\ CallMax \in Nat /\ WriteMax \in Nat
  /\ Tolerance \in Nat /\ Keepalive < Scan
  BY IntervalAssumption

USE Intervals
USE DEF StatusCap, KeepCap, HistoryCap, MonitorCap, FailureCap

\* An age that grows stays below its cap.
LEMMA OlderType ==
  ASSUME NEW cap \in Nat, NEW age \in 0..cap
  PROVE  Older(age, cap) \in 0..cap
  BY DEF Older

-----------------------------------------------------------------------------
(* Type correctness. *)

\* The poll ends without leaving its types.
LEMMA SucceedType ==
  ASSUME TypeOK, Succeed
  PROVE  /\ stage' \in {"idle"} /\ callAge' \in Nat /\ listing' \in {"none"}
         /\ timer' \in 0..Scan /\ wanted' \in BOOLEAN /\ scheduled' \in BOOLEAN
         /\ hasData' \in BOOLEAN /\ failures' \in 0..FailureCap
         /\ success' \in BOOLEAN
         /\ shown' \in {"status", "unknown", "unavailable"}
<1>1. 0 \in 0..FailureCap /\ 0 \in Nat
  OBVIOUS
<1>2. Displayed \in {"status", "unknown", "unavailable"}
  BY DEF Displayed
<1> QED BY <1>1, <1>2, Zenon DEF TypeOK, Succeed, EndPoll

\* Every step keeps the types.
LEMMA TypeNext == TypeOK /\ [Next]_vars => TypeOK'
<1> SUFFICES ASSUME TypeOK, [Next]_vars PROVE TypeOK'
  OBVIOUS
<1> USE DEF calls, snapshot, reach, keepalive, published, cloud, history
<1>1. CASE StartPoll
  <2>1. timer' \in 0..Scan /\ callAge' \in Nat
    BY <1>1 DEF StartPoll
  <2>2. scheduled' \in BOOLEAN
    BY <1>1, Zenon DEF StartPoll
  <2> QED BY <1>1, <2>1, <2>2, ZenonT(60) DEF TypeOK, StartPoll
<1>2. CASE PropertiesDone
  <2>1. PICK blob \in {"status", "garbled", "blank"}, stamp \in BOOLEAN :
          ReadMonitor(blob, stamp)
    BY <1>2 DEF PropertiesDone
  <2>2. monitor' \in {"status", "garbled", "blank"} /\ stamped' \in BOOLEAN
    BY <2>1, Zenon DEF ReadMonitor, TypeOK
  <2>3. monitorAge' \in 0..MonitorCap
    BY <2>1 DEF ReadMonitor, TypeOK
  <2>4. wedged' \in BOOLEAN
    BY <2>1, Zenon DEF ReadMonitor
  <2>5. callAge' \in Nat /\ stage' \in {"idle", "properties", "devices", "keepalive"}
    BY <1>2 DEF PropertiesDone
  <2> QED BY <1>2, <2>2, <2>3, <2>4, <2>5, ZenonT(60) DEF TypeOK, PropertiesDone
<1>3. CASE CloudLists
  <2>1. listing' \in Statuses \cup {"none", "absent"}
    BY <1>3 DEF CloudLists, Statuses
  <2> QED BY <1>3, <2>1, ZenonT(60) DEF TypeOK, CloudLists
<1>4. CASE DevicesDone
  <2>1. status' \in Statuses /\ statusAge' \in 0..StatusCap
    BY <1>4 DEF TypeOK, DevicesDone, StatusSeen, Statuses
  <2>2. CASE Succeed
    BY <1>4, <2>1, <2>2, SucceedType DEF TypeOK, DevicesDone
  <2>3. CASE ~Succeed
    BY <1>4, <2>1, <2>3 DEF TypeOK, DevicesDone
  <2> QED BY <2>2, <2>3
<1>5. CASE KeepaliveDone
  BY <1>5, SucceedType DEF TypeOK, KeepaliveDone
<1>6. CASE KeepaliveFails
  BY <1>6, SucceedType DEF TypeOK, KeepaliveFails
<1>7. CASE PollFails
  <2>1. failures' \in 0..FailureCap
    BY <1>7, OlderType DEF TypeOK, PollFails
  <2>2. success' \in BOOLEAN
    BY <1>7, Zenon DEF PollFails, RidesOut
  <2>3. shown' \in {"status", "unknown", "unavailable"}
    BY <1>7 DEF PollFails, Displayed
  <2>4. callAge' \in Nat
    BY <1>7 DEF PollFails, EndPoll
  <2> QED BY <1>7, <2>1, <2>2, <2>3, <2>4, ZenonT(60) DEF TypeOK, PollFails, EndPoll
<1>8. CASE SetupFails
  <2>1. callAge' \in Nat /\ statusAge' \in 0..StatusCap
    BY <1>8 DEF SetupFails
  <2>2. status' \in Statuses
    BY <1>8 DEF SetupFails, Statuses
  <2> QED BY <1>8, <2>1, <2>2, ZenonT(60) DEF TypeOK, SetupFails
<1>9. CASE CommandSent
  BY <1>9 DEF TypeOK, CommandSent
<1>10. CASE MachinePublishes
  <2>1. blobAge' \in 0..MonitorCap
    BY <1>10 DEF MachinePublishes
  <2>2. UNCHANGED <<calls, snapshot, reach, keepalive, published, online, history>>
    BY <1>10 DEF MachinePublishes
  <2>3. asked' \in BOOLEAN
    BY <1>10, Zenon DEF MachinePublishes
  <2> QED BY <2>1, <2>2, <2>3 DEF TypeOK
<1>11. CASE ConnectionChanges
  BY <1>11 DEF TypeOK, ConnectionChanges
<1>12. CASE Tick
  <2>1. /\ statusAge' \in 0..StatusCap /\ keepAge' \in 0..KeepCap
        /\ monitorAge' \in 0..MonitorCap /\ blobAge' \in 0..MonitorCap
        /\ lastOnline' \in 0..HistoryCap /\ lastOffline' \in 0..HistoryCap
    BY <1>12 DEF TypeOK, Tick, Older
  <2>2. timer' \in 0..Scan /\ callAge' \in Nat
    BY <1>12 DEF TypeOK, Tick
  <2> QED BY <1>12, <2>1, <2>2 DEF TypeOK, Tick
<1>13. CASE UNCHANGED vars
  BY <1>13 DEF TypeOK, vars
<1> QED BY <1>1, <1>2, <1>3, <1>4, <1>5, <1>6, <1>7, <1>8, <1>9, <1>10,
           <1>11, <1>12, <1>13 DEF Next, PollStep

\* The poll keeps its types, whatever the intervals.
THEOREM TypeCorrect == Spec => []TypeOK
<1>1. Init => TypeOK
  <2> SUFFICES ASSUME Init PROVE TypeOK
    OBVIOUS
  <2>1. /\ 0 \in Nat /\ 0 \in 0..Scan /\ 0 \in 0..FailureCap /\ 0 \in 0..1
        /\ 0 \in 0..StatusCap /\ 0 \in 0..MonitorCap /\ 0 \in 0..HistoryCap
        /\ KeepCap \in 0..KeepCap /\ MonitorCap \in 0..MonitorCap
        /\ HistoryCap \in 0..HistoryCap
    OBVIOUS
  <2>2. status \in Statuses
    BY DEF Init, Statuses
  <2>3. /\ blobAge \in 0..MonitorCap
        /\ lastOnline \in 0..HistoryCap /\ lastOffline \in 0..HistoryCap
    BY <2>1, Zenon DEF Init
  <2> QED BY <2>1, <2>2, <2>3, Zenon DEF Init, TypeOK
<1> QED BY <1>1, TypeNext, PTL DEF Spec

-----------------------------------------------------------------------------
(* Availability. *)

\* Entities are available exactly while no more than the tolerated number of
\* polls have failed in a row.
THEOREM Available == Spec => []AvailabilityBounded
<1>1. Init => AvailabilityBounded
  BY DEF Init, AvailabilityBounded
<1>2. TypeOK /\ AvailabilityBounded /\ [Next]_vars => AvailabilityBounded'
  <2> SUFFICES ASSUME TypeOK, AvailabilityBounded, [Next]_vars
               PROVE  AvailabilityBounded'
    OBVIOUS
  <2>1. CASE UNCHANGED snapshot
    BY <2>1 DEF AvailabilityBounded, snapshot
  <2>2. CASE Succeed
    BY <2>2 DEF AvailabilityBounded, Succeed
  <2>3. CASE PollFails
    <3>1. success' = RidesOut(failures + 1) /\ hasData /\ hasData' = hasData
      BY <2>3 DEF PollFails
    <3>2. failures' <= Tolerance <=> failures + 1 <= Tolerance
      BY <2>3 DEF PollFails, Older, TypeOK
    <3> QED BY <3>1, <3>2, Zenon DEF AvailabilityBounded, RidesOut
  <2> QED
    BY <2>1, <2>2, <2>3 DEF Next, PollStep, StartPoll, PropertiesDone,
       CloudLists, DevicesDone, KeepaliveDone, KeepaliveFails, SetupFails,
       CommandSent, MachinePublishes, ConnectionChanges, Tick, vars
<1> QED BY <1>1, <1>2, TypeCorrect, PTL DEF Spec

-----------------------------------------------------------------------------
(* The preflight. *)

\* No call outlasts its time out.
CallsInTime == stage \in {"properties", "devices"} => callAge <= CallMax

\* A status is as old as its stamp and one call at most, and the list that
\* brings it no older than the call.
StatusWitnessed ==
  /\ stage # "devices" => listing = "none"
  /\ online => lastOnline = 0
  /\ ~online => lastOffline = 0
  /\ status = "online" => lastOnline <= statusAge + CallMax
  /\ status = "offline" => lastOffline <= statusAge + CallMax
  /\ stage = "devices" /\ listing = "online" => lastOnline <= callAge
  /\ stage = "devices" /\ listing = "offline" => lastOffline <= callAge

ReachInv == CallsInTime /\ StatusWitnessed

\* Every step keeps calls in time.
LEMMA CallsNext == TypeOK /\ CallsInTime /\ [Next]_vars => CallsInTime'
<1> SUFFICES ASSUME TypeOK, CallsInTime, [Next]_vars PROVE CallsInTime'
  OBVIOUS
<1>1. CASE callAge' = 0
  BY <1>1 DEF CallsInTime
<1>2. CASE UNCHANGED <<stage, callAge>>
  BY <1>2 DEF CallsInTime
<1>3. CASE Tick
  BY <1>3 DEF CallsInTime, Tick, TypeOK
<1> QED
  BY <1>1, <1>2, <1>3 DEF Next, PollStep, StartPoll, PropertiesDone,
     CloudLists, DevicesDone, Succeed, EndPoll, KeepaliveDone, KeepaliveFails,
     PollFails, SetupFails, CommandSent, MachinePublishes, ConnectionChanges,
     vars, calls

\* Time passes: what was said grows no older than its stamp.
LEMMA WitnessTick ==
  ASSUME TypeOK, CallsInTime, StatusWitnessed, Tick PROVE StatusWitnessed'
<1>1. status' = status /\ listing' = listing /\ stage' = stage /\ online' = online
  BY DEF Tick
<1>2. /\ online => lastOnline' = 0
      /\ ~online => lastOffline' = 0
      /\ lastOnline' <= lastOnline + 1 /\ lastOffline' <= lastOffline + 1
  BY DEF Tick, Older, TypeOK
<1>3. /\ lastOnline' <= HistoryCap /\ lastOffline' <= HistoryCap
      /\ lastOnline' \in Nat /\ lastOffline' \in Nat
  BY DEF Tick, Older, TypeOK
<1>4. statusAge' = statusAge + 1 \/ statusAge' = StatusCap
  BY DEF Tick, Older, TypeOK
<1>5. stage = "devices" => callAge' = callAge + 1
  BY DEF Tick
<1>6. status = "online" => lastOnline' <= statusAge' + CallMax
  BY <1>2, <1>3, <1>4 DEF StatusWitnessed, TypeOK
<1>7. status = "offline" => lastOffline' <= statusAge' + CallMax
  BY <1>2, <1>3, <1>4 DEF StatusWitnessed, TypeOK
<1>8. stage = "devices" /\ listing = "online" => lastOnline' <= callAge'
  BY <1>2, <1>3, <1>5 DEF StatusWitnessed, TypeOK
<1>9. stage = "devices" /\ listing = "offline" => lastOffline' <= callAge'
  BY <1>2, <1>3, <1>5 DEF StatusWitnessed, TypeOK
<1> QED BY <1>1, <1>2, <1>6, <1>7, <1>8, <1>9 DEF StatusWitnessed

\* Every step keeps a status as old as its stamp.
LEMMA WitnessNext ==
  TypeOK /\ ReachInv /\ [Next]_vars => StatusWitnessed'
<1> SUFFICES ASSUME TypeOK, CallsInTime, StatusWitnessed, [Next]_vars
             PROVE  StatusWitnessed'
  BY DEF ReachInv
<1> USE DEF calls, snapshot, reach, keepalive, published, cloud, history
<1>1. CASE StartPoll
  BY <1>1 DEF StatusWitnessed, StartPoll
<1>2. CASE PropertiesDone
  <2>1. /\ UNCHANGED <<online, lastOnline, lastOffline, status, statusAge>>
        /\ listing' = "none"
    BY <1>2 DEF StatusWitnessed, PropertiesDone
  <2> QED BY <2>1 DEF StatusWitnessed
<1>3. CASE CloudLists
  BY <1>3 DEF StatusWitnessed, CloudLists, TypeOK
<1>4. CASE DevicesDone
  <2>1. listing' = "none"
    BY <1>4 DEF DevicesDone, Succeed, EndPoll
  <2>2. UNCHANGED <<online, lastOnline, lastOffline>>
    BY <1>4 DEF DevicesDone
  <2>3. CASE listing = "absent"
    BY <1>4, <2>1, <2>2, <2>3
       DEF StatusWitnessed, DevicesDone, StatusSeen, SeenNow
  <2>4. CASE listing # "absent"
    <3>1. status' = listing /\ statusAge' = 0 /\ callAge <= CallMax
      BY <1>4, <2>4 DEF DevicesDone, StatusSeen, SeenNow, CallsInTime
    <3>2. /\ listing = "online" => lastOnline <= CallMax
          /\ listing = "offline" => lastOffline <= CallMax
      BY <1>4, <3>1 DEF StatusWitnessed, DevicesDone, TypeOK
    <3> QED BY <2>1, <2>2, <3>1, <3>2 DEF StatusWitnessed, TypeOK
  <2> QED BY <2>3, <2>4
<1>5. CASE KeepaliveDone
  BY <1>5 DEF StatusWitnessed, KeepaliveDone, Succeed, EndPoll
<1>6. CASE KeepaliveFails
  BY <1>6 DEF StatusWitnessed, KeepaliveFails, Succeed, EndPoll
<1>7. CASE PollFails
  BY <1>7 DEF StatusWitnessed, PollFails, EndPoll
<1>8. CASE SetupFails
  BY <1>8 DEF StatusWitnessed, SetupFails, TypeOK
<1>9. CASE CommandSent
  BY <1>9 DEF StatusWitnessed, CommandSent
<1>10. CASE MachinePublishes
  BY <1>10 DEF StatusWitnessed, MachinePublishes
<1>11. CASE ConnectionChanges
  BY <1>11 DEF StatusWitnessed, ConnectionChanges, TypeOK
<1>12. CASE Tick
  BY <1>12, WitnessTick
<1>13. CASE UNCHANGED vars
  BY <1>13 DEF StatusWitnessed, vars
<1> QED BY <1>1, <1>2, <1>3, <1>4, <1>5, <1>6, <1>7, <1>8, <1>9, <1>10,
           <1>11, <1>12, <1>13 DEF Next, PollStep

\* The invariant of the preflight holds throughout.
LEMMA ReachHolds == Spec => [](TypeOK /\ ReachInv)
<1>1. Init => ReachInv
  BY DEF Init, ReachInv, CallsInTime, StatusWitnessed
<1>2. TypeOK /\ ReachInv /\ [Next]_vars => ReachInv'
  BY CallsNext, WitnessNext DEF ReachInv
<1> QED BY <1>1, <1>2, TypeCorrect, PTL DEF Spec

\* No command is refused on an Offline older than REACHABILITY_MAX_AGE and one
\* call.
THEOREM Refusal == Spec => []RefusalJustified
<1>1. TypeOK /\ ReachInv => RefusalJustified
  BY DEF TypeOK, ReachInv, StatusWitnessed, RefusalJustified, Refuses, Current
<1> QED BY <1>1, ReachHolds, PTL

\* No command passes on a recent status unless the cloud recently reported
\* the machine connected.
THEOREM Pass == Spec => []PassJustified
<1>1. TypeOK /\ ReachInv => PassJustified
  BY DEF TypeOK, ReachInv, StatusWitnessed, PassJustified, Refuses, Current,
         Statuses
<1> QED BY <1>1, ReachHolds, PTL

-----------------------------------------------------------------------------
(* The keepalive. *)

\* A poll the timer started finds the last keepalive at least a scan ago.
Rhythm ==
  /\ stage # "idle" => timer = 0
  /\ timer <= keepAge
  /\ scheduled /\ stage # "idle" => keepAge >= Scan

\* Every step keeps the rhythm.
LEMMA RhythmNext == TypeOK /\ Rhythm /\ [Next]_vars => Rhythm'
<1> SUFFICES ASSUME TypeOK, Rhythm, [Next]_vars PROVE Rhythm'
  OBVIOUS
<1> USE DEF calls, keepalive
<1>1. CASE UNCHANGED <<stage, timer, keepAge, scheduled>>
  BY <1>1 DEF Rhythm
<1>2. CASE StartPoll
  <2>1. timer' = 0 /\ keepAge' = keepAge /\ 0 <= keepAge
    BY <1>2 DEF StartPoll, TypeOK
  <2>2. scheduled' => keepAge >= Scan
    <3>1. scheduled' <=> timer = Scan
      BY <1>2, Zenon DEF StartPoll
    <3> QED BY <3>1 DEF Rhythm, TypeOK
  <2> QED BY <2>1, <2>2 DEF Rhythm
<1>3. CASE PropertiesDone \/ DevicesDone \/ PollFails \/ SetupFails
  BY <1>3 DEF Rhythm, PropertiesDone, DevicesDone, Succeed, EndPoll, PollFails,
              SetupFails, TypeOK
<1>4. CASE KeepaliveDone \/ KeepaliveFails
  BY <1>4 DEF Rhythm, KeepaliveDone, KeepaliveFails, Succeed, EndPoll, TypeOK
<1>5. CASE Tick
  BY <1>5 DEF Rhythm, Tick, Older, TypeOK
<1> QED
  BY <1>1, <1>2, <1>3, <1>4, <1>5 DEF Next, PollStep, CloudLists, CommandSent,
     MachinePublishes, ConnectionChanges, vars

\* Every scheduled poll that reads what it came for asks the machine to
\* publish.
THEOREM Asks == Spec => ScheduledPollAsks
<1>1. Init => Rhythm
  BY DEF Init, Rhythm
<1>2. TypeOK /\ Rhythm /\ [Next]_vars
        => [scheduled /\ stage = "devices" => stage' # "idle" \/ failures' > 0]_vars
  <2> SUFFICES ASSUME TypeOK, Rhythm, Next, scheduled, stage = "devices"
               PROVE  stage' # "idle" \/ failures' > 0
    OBVIOUS
  <2>1. Due
    BY DEF Rhythm, Due, TypeOK
  <2>2. CASE DevicesDone
    BY <2>1, <2>2 DEF DevicesDone
  <2>3. CASE PollFails
    BY <2>3 DEF PollFails, Older, TypeOK
  <2>4. CASE stage' # "idle"
    BY <2>4
  <2> QED
    BY <2>2, <2>3, <2>4 DEF Next, PollStep, StartPoll, PropertiesDone,
       CloudLists, KeepaliveDone, KeepaliveFails, SetupFails, CommandSent,
       MachinePublishes, ConnectionChanges, Tick, calls
<1> QED BY <1>1, <1>2, RhythmNext, TypeCorrect, PTL DEF Spec, ScheduledPollAsks

-----------------------------------------------------------------------------
(* What Machine Status shows. *)

\* The age of the shown status, as the wait for the next poll and its first
\* call go on.
ShownInv ==
  /\ ~hasData => shown = "unavailable"
  /\ stage = "idle" /\ shown = "status" /\ stamped
       => monitorAge <= MonitorMax + timer
  /\ stage = "properties" /\ shown = "status" /\ stamped
       => monitorAge <= MonitorMax + Scan + callAge

\* A status that is written is no older than MONITOR_MAX_AGE.
LEMMA DisplayedRecent ==
  Displayed = "status" /\ stamped => ~(monitorAge > MonitorMax)
  BY DEF Displayed, Stale

\* Every step keeps the age of the shown status in bounds.
LEMMA ShownNext == TypeOK /\ ShownInv /\ [Next]_vars => ShownInv'
<1> SUFFICES ASSUME TypeOK, ShownInv, [Next]_vars PROVE ShownInv'
  OBVIOUS
<1> USE DEF calls, snapshot, published
<1>1. CASE UNCHANGED <<stage, callAge, timer, hasData, shown, stamped, monitorAge>>
  BY <1>1 DEF ShownInv
<1>2. CASE StartPoll
  BY <1>2 DEF ShownInv, StartPoll, TypeOK
<1>3. CASE PropertiesDone
  BY <1>3 DEF ShownInv, PropertiesDone
<1>4. CASE Succeed /\ UNCHANGED published
  BY <1>4, DisplayedRecent DEF ShownInv, Succeed, EndPoll, TypeOK
<1>5. CASE DevicesDone /\ ~Succeed
  BY <1>5 DEF ShownInv, DevicesDone
<1>6. CASE PollFails
  BY <1>6, DisplayedRecent DEF ShownInv, PollFails, EndPoll, TypeOK
<1>7. CASE SetupFails
  BY <1>7 DEF ShownInv, SetupFails
<1>8. CASE Tick
  BY <1>8 DEF ShownInv, Tick, Older, TypeOK
<1> QED
  BY <1>1, <1>2, <1>3, <1>4, <1>5, <1>6, <1>7, <1>8 DEF Next, PollStep,
     CloudLists, DevicesDone, KeepaliveDone, KeepaliveFails, CommandSent,
     MachinePublishes, ConnectionChanges, vars

\* A shown status is no older than MONITOR_MAX_AGE and the wait for the next
\* reading.
THEOREM Shown == Spec => []ShownRecent
<1>1. Init => ShownInv
  BY DEF Init, ShownInv
<1>2. TypeOK /\ CallsInTime /\ ShownInv => ShownRecent
  BY DEF TypeOK, CallsInTime, ShownInv, ShownRecent
<1>3. ReachInv => CallsInTime
  BY DEF ReachInv
<1> QED BY <1>1, <1>2, <1>3, ShownNext, ReachHolds, TypeCorrect, PTL DEF Spec
=============================================================================
