------------------------- MODULE CloudSessionProofs -------------------------
(***************************************************************************)
(* Proofs, for every set of commands and of app ids, of the safety of the  *)
(* cloud session.  The inductive invariant is IInv: types, the owner of    *)
(* the connect lock, and where every app id in flight comes from.          *)
(***************************************************************************)
EXTENDS CloudSession, TLAPS

USE IdAssumption, CommandAssumption

\* A command in a handshake owns the connect lock.
LockOwned == \A c \in Commands : pc[c] \in Handshaking => lockHolder = c

\* Every app id that was read was reported by the machine.
ReadsWereHeld ==
  /\ holder \in held \cup {Free}
  /\ data \in held \cup {Free, NoId}
  /\ poll.appId \in held \cup {Free, NoId}
  /\ \A c \in Commands :
       reply[c] \in held \cup {Free, NoId, Pending, Accepted}

\* A handshake past its survey has an id to wait for.
PostedKnown ==
  \A c \in Commands : pc[c] \in {"posting", "confirming"} => posted[c] \in AppIds

\* The task handle, and a cancellation, are of commands that were made.
TasksPressed == \A c \in Commands : c \in {coldTask, cancelling} => pc[c] # "idle"

\* A confirmed id was reported by the machine, or is our own, put back on a
\* stopped clock by a revert or by unload.
ReportedOrRestored ==
  sessionConfirmed =>
    \/ integrationAppId \in held
    \/ connectAge = "cold" /\ integrationAppId = OwnAppId

IInv ==
  /\ TypeOK
  /\ TasksPressed
  /\ LockOwned
  /\ ColdTaskTracked
  /\ ReadsWereHeld
  /\ PostedKnown
  /\ ReportedOrRestored

-----------------------------------------------------------------------------
(* What the shared parts of the actions do to the types. *)

\* Our own id is an app id, whatever was learned.
LEMMA OwnIdType == ASSUME NEW d \in Signatures \cup {NoId}
                   PROVE  OwnIdFor(d) \in AppIds
  BY DEF OwnIdFor

\* A reading leaves an app id in _integration_app_id.
LEMMA IdAfterReadType == ASSUME TypeOK, NEW a PROVE IdAfterRead(a) \in AppIds
  BY OwnIdType DEF TypeOK, IdAfterRead, OwnAppId

\* A command that ends keeps its types.
LEMMA EndType ==
  ASSUME TypeOK, NEW c \in Commands, NEW outcome \in Ended, End(c, outcome)
  PROVE  /\ pc' \in [Commands -> Stages]
         /\ tail' \in [Commands -> AppIds \cup {NoId}]
         /\ tasks' \subseteq Commands
         /\ coldTask' \in Commands \cup {NoTask}
  BY DEF TypeOK, End, EndTask, Stages

\* A command that starts to write keeps its types.
LEMMA StartSendType ==
  ASSUME TypeOK, NEW c \in Commands, NEW id \in AppIds, StartSend(c, id)
  PROVE  /\ pc' \in [Commands -> Stages]
         /\ tail' \in [Commands -> AppIds \cup {NoId}]
  BY DEF TypeOK, StartSend, Stages, Writing

\* A task that sends, or is refused at the last moment, keeps its types.
LEMMA SendFromTaskType ==
  ASSUME TypeOK, NEW c \in Commands, SendFromTask(c, integrationAppId)
  PROVE  /\ pc' \in [Commands -> Stages]
         /\ tail' \in [Commands -> AppIds \cup {NoId}]
         /\ tasks' \subseteq Commands
         /\ coldTask' \in Commands \cup {NoTask}
<1>1. CASE StartSend(c, integrationAppId) /\ UNCHANGED <<coldTask, tasks>>
  BY <1>1, StartSendType DEF TypeOK
<1>2. CASE End(c, "failed")
  BY <1>2, EndType DEF Ended
<1> QED BY <1>1, <1>2 DEF SendFromTask

\* The four ways on from a known app id keep their types.
LEMMA DecideType ==
  ASSUME TypeOK, NEW c \in Commands, NEW a, Decide(c, a)
  PROVE  /\ integrationAppId' \in AppIds
         /\ connectAge' \in Ages
         /\ pc' \in [Commands -> Stages]
         /\ tail' \in [Commands -> AppIds \cup {NoId}]
         /\ tasks' \subseteq Commands
         /\ coldTask' \in Commands \cup {NoTask}
<1>. IdAfterRead(a) \in AppIds /\ AgeAfterRead(a) \in Ages
  BY IdAfterReadType DEF AgeAfterRead, TypeOK, Ages
<1>1. CASE AdoptAndSend(c, a)
  BY <1>1, StartSendType DEF AdoptAndSend, Adoptable, TypeOK, Ages
<1>2. CASE SendWarm(c, a)
  BY <1>2, StartSendType DEF SendWarm, TypeOK
<1>3. CASE IgnoreDuplicate(c, a)
  BY <1>3 DEF IgnoreDuplicate, TypeOK, Stages, Ended
<1>4. CASE ScheduleColdConnect(c, a)
  BY <1>4 DEF ScheduleColdConnect, TypeOK, Stages
<1> QED BY <1>1, <1>2, <1>3, <1>4 DEF Decide

-----------------------------------------------------------------------------
(* Type correctness. *)

\* The types hold when a coordinator is set up.
LEMMA TypeInit == Init => TypeOK
<1> SUFFICES ASSUME Init PROVE TypeOK
  OBVIOUS
<1>1. OwnAppId \in AppIds
  BY OwnIdType DEF Init, OwnAppId
<1>2. sessionConfirmed \in BOOLEAN
  BY DEF Init
<1>3. holder \in AppIds \cup {Free} /\ data \in Reads
  BY <1>1 DEF Init, Reads
<1>4. poll \in [stage : {"idle", "answered", "applied"}, appId : Reads]
  BY DEF Init, NoPoll, Reads
<1>5. /\ pc \in [Commands -> Stages]
      /\ reply \in [Commands -> Reads \cup {Pending, Accepted}]
      /\ posted \in [Commands -> AppIds \cup {NoId}]
      /\ tail \in [Commands -> AppIds \cup {NoId}]
  BY DEF Init, Stages
<1>6. held \subseteq AppIds
  BY <1>3 DEF Init
<1> QED BY <1>1, <1>2, <1>3, <1>4, <1>5, <1>6 DEF Init, TypeOK, Ages

\* What a command's coroutine does keeps the types.
LEMMA TypeCommandStep ==
  ASSUME TypeOK, NEW c \in Commands, CommandStep(c)
  PROVE  TypeOK'
<1> USE DEF session, tasking, polling, command, cloud
<1>1. CASE ReadDone(c)
  BY <1>1, DecideType DEF ReadDone, Decide, TypeOK
<1>2. CASE AcquireLock(c)
  BY <1>2, SendFromTaskType DEF AcquireLock, TypeOK, Stages, Handshaking
<1>3. CASE ProbeDone(c)
  BY <1>3, SendFromTaskType, EndType DEF ProbeDone, TypeOK, Ended
<1>4. CASE SurveyDone(c)
  BY <1>4, IdAfterReadType
     DEF SurveyDone, AgeAfterRead, TypeOK, Stages, Handshaking, Ages
<1>5. CASE PostDone(c)
  BY <1>5 DEF PostDone, TypeOK, Stages, Handshaking
<1>6. CASE ConfirmMatches(c)
  BY <1>6, SendFromTaskType DEF ConfirmMatches, Confirms, TypeOK, Ages
<1>7. CASE ConfirmPollsAgain(c)
  BY <1>7 DEF ConfirmPollsAgain, TypeOK
<1>8. CASE ConfirmTimesOut(c)
  BY <1>8, EndType DEF ConfirmTimesOut, TypeOK, Ended
<1>9. CASE NudgeDone(c)
  BY <1>9 DEF NudgeDone, TypeOK, Stages, Writing
<1>10. CASE WriteDone(c)
  BY <1>10, EndType DEF WriteDone, TypeOK, Ended
<1>11. CASE CallFails(c)
  BY <1>11, EndType DEF CallFails, ReleaseLock, TypeOK, Ended
<1>12. CASE CancelLands(c)
  BY <1>12, EndType DEF CancelLands, ReleaseLock, TypeOK, Ended
<1> QED BY <1>1, <1>2, <1>3, <1>4, <1>5, <1>6, <1>7, <1>8, <1>9, <1>10,
           <1>11, <1>12 DEF CommandStep

\* Every step keeps the types.
LEMMA TypeNext == TypeOK /\ [Next]_vars => TypeOK'
<1> SUFFICES ASSUME TypeOK, [Next]_vars PROVE TypeOK'
  OBVIOUS
<1> USE DEF session, tasking, polling, command, cloud
<1>1. ASSUME NEW c \in Commands, PressRefused(c) PROVE TypeOK'
  BY <1>1 DEF PressRefused, TypeOK, Stages, Ended
<1>2. ASSUME NEW c \in Commands, PressOnSnapshot(c) PROVE TypeOK'
  BY <1>2, DecideType DEF PressOnSnapshot, Decide, TypeOK
<1>3. ASSUME NEW c \in Commands, PressAndRead(c) PROVE TypeOK'
  BY <1>3 DEF PressAndRead, TypeOK, Stages, Fetching
<1>4. ASSUME NEW c \in Commands, CommandStep(c) PROVE TypeOK'
  BY <1>4, TypeCommandStep
<1>5. ASSUME NEW c \in Commands, CloudAnswers(c) PROVE TypeOK'
  BY <1>5 DEF CloudAnswers, TypeOK, Reads
<1>6. ASSUME NEW c \in Commands, CloudAcceptsPost(c) PROVE TypeOK'
  BY <1>6 DEF CloudAcceptsPost, TypeOK
<1>7. CASE PollAnswered
  BY <1>7 DEF PollAnswered, TypeOK, Reads
<1>8. ASSUME NEW d \in Signatures \cup {NoId}, PollApplies(d) PROVE TypeOK'
  <2>1. OwnIdFor(d) \in AppIds
    BY OwnIdType
  <2>2. poll' \in [stage : {"idle", "answered", "applied"}, appId : Reads]
    BY <1>8 DEF PollApplies, TypeOK
  <2> QED BY <1>8, <2>1, <2>2 DEF PollApplies, TypeOK, Ages
<1>9. CASE PollPublishes
  BY <1>9 DEF PollPublishes, NoPoll, TypeOK, Reads
<1>10. CASE PollFails
  BY <1>10 DEF PollFails, NoPoll, TypeOK, Reads
<1>11. CASE Shutdown
  BY <1>11, OwnIdType DEF Shutdown, OwnAppId, TypeOK, Ages
<1>12. CASE MachineRegisters
  BY <1>12 DEF MachineRegisters, TypeOK
<1>13. ASSUME NEW a \in ForeignIds, ForeignConnects(a) PROVE TypeOK'
  BY <1>13 DEF ForeignConnects, TypeOK
<1>14. CASE SessionReleased
  BY <1>14 DEF SessionReleased, TypeOK
<1>15. CASE SessionAges
  BY <1>15 DEF SessionAges, TypeOK, Ages
<1>16. CASE UNCHANGED vars
  BY <1>16 DEF vars, TypeOK
<1> QED BY <1>1, <1>2, <1>3, <1>4, <1>5, <1>6, <1>7, <1>8, <1>9, <1>10,
           <1>11, <1>12, <1>13, <1>14, <1>15, <1>16 DEF Next, PollStep

\* Every variable keeps its type, whatever the ids and the commands.
THEOREM TypeCorrect == Spec => []TypeOK
  BY TypeInit, TypeNext, PTL DEF Spec

-----------------------------------------------------------------------------
(* The connect lock. *)

\* After a command ends or starts to write, it is in no handshake, and the
\* other commands are where they were.
LEMMA LeavesHandshake ==
  ASSUME TypeOK, NEW c \in Commands,
         \/ SendFromTask(c, integrationAppId)
         \/ \E outcome \in Ended : End(c, outcome)
  PROVE  /\ pc'[c] \in Writing \cup Ended
         /\ pc'[c] \notin Handshaking
         /\ \A d \in Commands \ {c} : pc'[d] = pc[d]
  BY DEF TypeOK, SendFromTask, StartSend, End, Handshaking, Writing, Ended

\* No command enters or leaves a handshake in its caller's coroutine.
LEMMA LockDecide ==
  ASSUME TypeOK, LockOwned, NEW c \in Commands, NEW a, Decide(c, a)
  PROVE  LockOwned'
  BY DEF Decide, AdoptAndSend, SendWarm, IgnoreDuplicate, ScheduleColdConnect,
         StartSend, LockOwned, Handshaking, TypeOK

\* A command's coroutine enters a handshake only with the lock free, and gives
\* the lock back as it leaves.
LEMMA LockCommandStep ==
  ASSUME TypeOK, LockOwned, NEW c \in Commands, CommandStep(c)
  PROVE  LockOwned'
<1> USE DEF session, tasking, polling, command, cloud
<1>1. CASE ReadDone(c)
  BY <1>1, LockDecide DEF ReadDone
<1>2. CASE AcquireLock(c)
  <2>. \A d \in Commands : pc[d] \notin Handshaking
    BY <1>2 DEF AcquireLock, LockFree, LockOwned
  <2>1. CASE lockHolder' = c /\ \E q \in Stages : pc' = [pc EXCEPT ![c] = q]
    BY <2>1 DEF LockOwned, TypeOK
  <2>2. CASE SendFromTask(c, integrationAppId)
    BY <2>2, LeavesHandshake DEF LockOwned
  <2> QED BY <1>2, <2>1, <2>2 DEF AcquireLock, Stages, Handshaking
<1>3. CASE ProbeDone(c)
  <2>1. lockHolder = c
    BY <1>3 DEF ProbeDone, LockOwned, Handshaking
  <2> QED BY <1>3, <2>1, LeavesHandshake DEF ProbeDone, LockOwned, Ended
<1>4. CASE SurveyDone(c)
  BY <1>4 DEF SurveyDone, LockOwned, Handshaking, TypeOK
<1>5. CASE PostDone(c)
  BY <1>5 DEF PostDone, LockOwned, Handshaking, TypeOK
<1>6. CASE ConfirmMatches(c)
  <2>1. lockHolder = c
    BY <1>6 DEF ConfirmMatches, LockOwned, Handshaking
  <2> QED BY <1>6, <2>1, LeavesHandshake DEF ConfirmMatches, LockOwned
<1>7. CASE ConfirmPollsAgain(c)
  BY <1>7 DEF ConfirmPollsAgain, LockOwned
<1>8. CASE ConfirmTimesOut(c)
  <2>1. lockHolder = c
    BY <1>8 DEF ConfirmTimesOut, LockOwned, Handshaking
  <2> QED BY <1>8, <2>1, LeavesHandshake DEF ConfirmTimesOut, LockOwned, Ended
<1>9. CASE NudgeDone(c)
  BY <1>9 DEF NudgeDone, LockOwned, Handshaking, TypeOK
<1>10. CASE WriteDone(c)
  BY <1>10, LeavesHandshake DEF WriteDone, LockOwned, Ended
<1>11. CASE CallFails(c)
  BY <1>11, LeavesHandshake DEF CallFails, ReleaseLock, LockOwned, Ended
<1>12. CASE CancelLands(c)
  BY <1>12, LeavesHandshake DEF CancelLands, ReleaseLock, LockOwned, Ended
<1> QED BY <1>1, <1>2, <1>3, <1>4, <1>5, <1>6, <1>7, <1>8, <1>9, <1>10,
           <1>11, <1>12 DEF CommandStep

\* Every step keeps the lock with the command in the handshake.
LEMMA LockNext == TypeOK /\ LockOwned /\ [Next]_vars => LockOwned'
<1> SUFFICES ASSUME TypeOK, LockOwned, [Next]_vars PROVE LockOwned'
  OBVIOUS
<1> USE DEF session, tasking, polling, command, cloud
<1>1. ASSUME NEW c \in Commands,
             PressRefused(c) \/ PressOnSnapshot(c) \/ PressAndRead(c)
      PROVE  LockOwned'
  BY <1>1, LockDecide
     DEF PressRefused, PressOnSnapshot, PressAndRead, LockOwned, Handshaking,
         TypeOK
<1>2. ASSUME NEW c \in Commands, CommandStep(c) PROVE LockOwned'
  BY <1>2, LockCommandStep
<1>3. CASE UNCHANGED <<pc, lockHolder>>
  BY <1>3 DEF LockOwned
<1>4. ASSUME NEW c \in Commands, CloudAnswers(c) \/ CloudAcceptsPost(c)
      PROVE  UNCHANGED <<pc, lockHolder>>
  BY <1>4 DEF CloudAnswers, CloudAcceptsPost
<1>5. CASE PollStep \/ Shutdown
  BY <1>3, <1>5
     DEF PollStep, PollAnswered, PollApplies, PollPublishes, PollFails, Shutdown
<1>6. CASE \/ MachineRegisters \/ SessionReleased \/ SessionAges
           \/ \E a \in ForeignIds : ForeignConnects(a)
  BY <1>3, <1>6
     DEF MachineRegisters, SessionReleased, SessionAges, ForeignConnects
<1>7. CASE UNCHANGED vars
  BY <1>3, <1>7 DEF vars
<1> QED BY <1>1, <1>2, <1>3, <1>4, <1>5, <1>6, <1>7 DEF Next

\* No two commands are in a handshake at once, however many tasks unload has
\* let slip.
THEOREM Exclusive == Spec => []HandshakeExclusive
<1>1. Init => LockOwned
  BY DEF Init, LockOwned, Handshaking
<1>2. LockOwned => HandshakeExclusive
  BY DEF LockOwned, HandshakeExclusive
<1> QED BY <1>1, <1>2, LockNext, TypeCorrect, PTL DEF Spec

-----------------------------------------------------------------------------
(* The task handle. *)

\* A task that ends takes itself out of the handle.
LEMMA HandleEnds ==
  ASSUME TypeOK, ColdTaskTracked, NEW c \in Commands, EndTask(c), ~unloaded
  PROVE  tasks' \subseteq {coldTask'}
  BY DEF TypeOK, ColdTaskTracked, EndTask

\* So does one that sends or is refused.
LEMMA HandleSends ==
  ASSUME TypeOK, ColdTaskTracked, NEW c \in Commands,
         SendFromTask(c, integrationAppId), ~unloaded
  PROVE  tasks' \subseteq {coldTask'}
  BY HandleEnds DEF ColdTaskTracked, SendFromTask, End

\* A new task is started only beside none.
LEMMA HandleDecides ==
  ASSUME TypeOK, ColdTaskTracked, NEW c \in Commands, NEW a, Decide(c, a)
  PROVE  ColdTaskTracked'
<1>1. CASE UNCHANGED <<coldTask, tasks>>
  BY <1>1 DEF Decide, ColdTaskTracked
<1>2. CASE ScheduleColdConnect(c, a)
  BY <1>2 DEF Decide, ScheduleColdConnect, ConnectRunning, ColdTaskTracked,
              TypeOK
<1> QED BY <1>1, <1>2 DEF Decide, AdoptAndSend, SendWarm, IgnoreDuplicate

\* A command's coroutine keeps the handle on the only task.
LEMMA HandleCommandStep ==
  ASSUME TypeOK, ColdTaskTracked, NEW c \in Commands, CommandStep(c)
  PROVE  ColdTaskTracked'
<1> USE DEF session, tasking, polling, command, cloud
<1>1. CASE ReadDone(c)
  BY <1>1, HandleDecides DEF ReadDone
<1>2. CASE AcquireLock(c) \/ ProbeDone(c) \/ ConfirmMatches(c)
  BY <1>2, HandleSends, HandleEnds
     DEF AcquireLock, ProbeDone, ConfirmMatches, End, ColdTaskTracked
<1>3. CASE ConfirmTimesOut(c) \/ WriteDone(c) \/ CallFails(c) \/ CancelLands(c)
  BY <1>3, HandleEnds
     DEF ConfirmTimesOut, WriteDone, CallFails, CancelLands, End,
         ColdTaskTracked
<1>4. CASE SurveyDone(c) \/ PostDone(c) \/ ConfirmPollsAgain(c) \/ NudgeDone(c)
  BY <1>4 DEF SurveyDone, PostDone, ConfirmPollsAgain, NudgeDone,
              ColdTaskTracked
<1> QED BY <1>1, <1>2, <1>3, <1>4 DEF CommandStep

\* Every step does, unload apart, after which nothing is claimed.
LEMMA HandleNext == TypeOK /\ ColdTaskTracked /\ [Next]_vars => ColdTaskTracked'
<1> SUFFICES ASSUME TypeOK, ColdTaskTracked, [Next]_vars PROVE ColdTaskTracked'
  OBVIOUS
<1> USE DEF session, tasking, polling, command, cloud
<1>1. ASSUME NEW c \in Commands, PressOnSnapshot(c) PROVE ColdTaskTracked'
  BY <1>1, HandleDecides DEF PressOnSnapshot
<1>2. ASSUME NEW c \in Commands, CommandStep(c) PROVE ColdTaskTracked'
  BY <1>2, HandleCommandStep
<1>3. CASE Shutdown
  BY <1>3 DEF Shutdown, ColdTaskTracked
<1>4. CASE UNCHANGED tasking
  BY <1>4 DEF ColdTaskTracked
<1>5. ASSUME NEW c \in Commands,
             \/ PressRefused(c) \/ PressAndRead(c)
             \/ CloudAnswers(c) \/ CloudAcceptsPost(c)
      PROVE  UNCHANGED tasking
  BY <1>5 DEF PressRefused, PressAndRead, CloudAnswers, CloudAcceptsPost
<1>6. CASE PollStep
  BY <1>4, <1>6
     DEF PollStep, PollAnswered, PollApplies, PollPublishes, PollFails
<1>7. CASE \/ MachineRegisters \/ SessionReleased \/ SessionAges
           \/ \E a \in ForeignIds : ForeignConnects(a)
  BY <1>4, <1>7
     DEF MachineRegisters, SessionReleased, SessionAges, ForeignConnects
<1>8. CASE UNCHANGED vars
  BY <1>4, <1>8 DEF vars
<1> QED BY <1>1, <1>2, <1>3, <1>4, <1>5, <1>6, <1>7, <1>8 DEF Next

\* The check for a running connect sees the only task there is.
THEOREM TaskTracked == Spec => []ColdTaskTracked
<1>1. Init => ColdTaskTracked
  BY DEF Init, ColdTaskTracked
<1> QED BY <1>1, HandleNext, TypeCorrect, PTL DEF Spec

\* The handle and a cancellation stay with commands that were made.
LEMMA PressedNext == TypeOK /\ TasksPressed /\ [Next]_vars => TasksPressed'
<1> SUFFICES ASSUME TypeOK, TasksPressed, [Next]_vars PROVE TasksPressed'
  OBVIOUS
<1> USE DEF session, tasking, polling, command, cloud
<1>1. ASSUME NEW c \in Commands, NEW q \in Stages \ {"idle"},
             pc' = pc \/ pc' = [pc EXCEPT ![c] = q],
             coldTask' \in {coldTask, NoTask},
             cancelling' \in {cancelling, NoTask}
      PROVE  TasksPressed'
  BY <1>1 DEF TasksPressed, TypeOK
<1>2. ASSUME NEW c \in Commands, NEW a, Decide(c, a) PROVE TasksPressed'
  <2>1. CASE ScheduleColdConnect(c, a)
    BY <1>2, <2>1 DEF Decide, ScheduleColdConnect, TasksPressed, TypeOK
  <2>2. CASE AdoptAndSend(c, a) \/ SendWarm(c, a) \/ IgnoreDuplicate(c, a)
    BY <1>1, <1>2, <2>2
       DEF Decide, AdoptAndSend, SendWarm, IgnoreDuplicate, StartSend, Stages,
           Writing, Ended
  <2> QED BY <1>2, <2>1, <2>2 DEF Decide
<1>3. ASSUME NEW c \in Commands,
             PressRefused(c) \/ PressOnSnapshot(c) \/ PressAndRead(c)
      PROVE  TasksPressed'
  BY <1>1, <1>2, <1>3
     DEF PressRefused, PressOnSnapshot, PressAndRead, Stages, Fetching, Ended
<1>4. ASSUME NEW c \in Commands, SendFromTask(c, integrationAppId),
             UNCHANGED cancelling
      PROVE  TasksPressed'
  BY <1>1, <1>4
     DEF SendFromTask, StartSend, End, EndTask, Stages, Writing, Ended
<1>5. ASSUME NEW c \in Commands, NEW outcome \in Ended, End(c, outcome),
             cancelling' \in {cancelling, NoTask}
      PROVE  TasksPressed'
  <2>1. outcome \in Stages \ {"idle"}
    BY DEF Stages, Ended
  <2> QED BY <1>1, <1>5, <2>1 DEF End, EndTask
<1>6. ASSUME NEW c \in Commands, CommandStep(c) PROVE TasksPressed'
  <2>1. CASE ReadDone(c)
    BY <1>2, <2>1 DEF ReadDone
  <2>2. CASE AcquireLock(c)
    BY <1>1, <1>4, <2>2 DEF AcquireLock, Stages, Fetching
  <2>3. CASE ProbeDone(c) \/ ConfirmMatches(c)
    BY <1>4, <1>5, <2>3 DEF ProbeDone, ConfirmMatches, Ended
  <2>4. CASE ConfirmTimesOut(c) \/ WriteDone(c) \/ CallFails(c) \/ CancelLands(c)
    BY <1>5, <2>4 DEF ConfirmTimesOut, WriteDone, CallFails, CancelLands, Ended
  <2>5. CASE SurveyDone(c) \/ PostDone(c) \/ ConfirmPollsAgain(c) \/ NudgeDone(c)
    BY <1>1, <2>5
       DEF SurveyDone, PostDone, ConfirmPollsAgain, NudgeDone, Stages,
           Handshaking, Writing
  <2> QED BY <1>6, <2>1, <2>2, <2>3, <2>4, <2>5 DEF CommandStep
<1>7. CASE UNCHANGED <<pc, coldTask, cancelling>>
  BY <1>7 DEF TasksPressed
<1>8. ASSUME NEW c \in Commands, CloudAnswers(c) \/ CloudAcceptsPost(c)
      PROVE  UNCHANGED <<pc, coldTask, cancelling>>
  BY <1>8 DEF CloudAnswers, CloudAcceptsPost
<1>9. CASE PollStep
  BY <1>7, <1>9
     DEF PollStep, PollAnswered, PollApplies, PollPublishes, PollFails
<1>10. CASE Shutdown
  BY <1>10 DEF Shutdown, TasksPressed
<1>11. CASE \/ MachineRegisters \/ SessionReleased \/ SessionAges
            \/ \E a \in ForeignIds : ForeignConnects(a)
  BY <1>7, <1>11
     DEF MachineRegisters, SessionReleased, SessionAges, ForeignConnects
<1>12. CASE UNCHANGED vars
  BY <1>7, <1>12 DEF vars
<1> QED BY <1>3, <1>6, <1>7, <1>8, <1>9, <1>10, <1>11, <1>12 DEF Next

-----------------------------------------------------------------------------
(* Where app ids come from. *)

\* No step takes an id out of the history.
LEMMA HeldGrows == TypeOK /\ [Next]_vars => held \subseteq held'
<1> SUFFICES ASSUME TypeOK, [Next]_vars PROVE held \subseteq held'
  OBVIOUS
<1>1. CASE MachineRegisters \/ \E a \in ForeignIds : ForeignConnects(a)
  BY <1>1 DEF MachineRegisters, ForeignConnects
<1>2. CASE UNCHANGED held
  BY <1>2
<1> USE DEF session, tasking, polling, command, cloud
<1>3. ASSUME NEW c \in Commands,
             \/ PressRefused(c) \/ PressOnSnapshot(c) \/ PressAndRead(c)
             \/ CommandStep(c) \/ CloudAnswers(c) \/ CloudAcceptsPost(c)
      PROVE  UNCHANGED held
  BY <1>3
     DEF PressRefused, PressOnSnapshot, PressAndRead, CommandStep, Decide,
         CloudAnswers, CloudAcceptsPost, ReadDone, AcquireLock, ProbeDone,
         SurveyDone, PostDone, ConfirmMatches, ConfirmPollsAgain,
         ConfirmTimesOut, NudgeDone, WriteDone, CallFails, CancelLands
<1>4. CASE PollStep \/ Shutdown \/ SessionReleased \/ SessionAges
  BY <1>2, <1>4
     DEF PollStep, PollAnswered, PollApplies, PollPublishes, PollFails,
         Shutdown, SessionReleased, SessionAges
<1>5. CASE UNCHANGED vars
  BY <1>2, <1>5 DEF vars
<1> QED BY <1>1, <1>2, <1>3, <1>4, <1>5 DEF Next

\* Every answer, snapshot and poll goes back to a report of the machine.
LEMMA ReadsNext == TypeOK /\ ReadsWereHeld /\ [Next]_vars => ReadsWereHeld'
<1> SUFFICES ASSUME TypeOK, ReadsWereHeld, [Next]_vars PROVE ReadsWereHeld'
  OBVIOUS
<1> USE DEF session, tasking, polling, command, cloud
<1>0. held \subseteq held'
  BY HeldGrows
<1>1. CASE UNCHANGED <<holder, data, poll, reply>>
  BY <1>0, <1>1 DEF ReadsWereHeld
<1>2. CASE /\ UNCHANGED <<holder, data, poll>>
           /\ \E c \in Commands : reply' = [reply EXCEPT ![c] = Pending]
  BY <1>0, <1>2 DEF ReadsWereHeld, TypeOK
<1>3. ASSUME NEW c \in Commands,
             PressRefused(c) \/ PressOnSnapshot(c) \/ PressAndRead(c)
      PROVE  UNCHANGED <<holder, data, poll, reply>>
  BY <1>3 DEF PressRefused, PressOnSnapshot, PressAndRead, Decide
<1>4. ASSUME NEW c \in Commands, CommandStep(c) PROVE ReadsWereHeld'
  <2>1. CASE AcquireLock(c) \/ NudgeDone(c) \/ WriteDone(c)
    BY <1>1, <2>1 DEF AcquireLock, NudgeDone, WriteDone
  <2>2. CASE \/ ReadDone(c) \/ ProbeDone(c) \/ SurveyDone(c) \/ PostDone(c)
             \/ ConfirmMatches(c) \/ ConfirmPollsAgain(c)
    BY <1>2, <2>2
       DEF ReadDone, Decide, ProbeDone, SurveyDone, PostDone, ConfirmMatches,
           ConfirmPollsAgain
  <2>3. CASE ConfirmTimesOut(c) \/ CallFails(c) \/ CancelLands(c)
    BY <1>2, <2>3 DEF ConfirmTimesOut, CallFails, CancelLands
  <2> QED BY <1>4, <2>1, <2>2, <2>3 DEF CommandStep
<1>5. ASSUME NEW c \in Commands, CloudAnswers(c) PROVE ReadsWereHeld'
  BY <1>0, <1>5 DEF CloudAnswers, ReadsWereHeld, TypeOK
<1>6. ASSUME NEW c \in Commands, CloudAcceptsPost(c) PROVE ReadsWereHeld'
  BY <1>0, <1>6 DEF CloudAcceptsPost, ReadsWereHeld, TypeOK
<1>7. CASE PollStep
  <2>1. poll'.appId \in held \cup {Free, NoId}
    <3>1. CASE PollAnswered
      BY <3>1 DEF PollAnswered, ReadsWereHeld
    <3>2. ASSUME NEW d \in Signatures \cup {NoId}, PollApplies(d)
          PROVE  poll'.appId \in held \cup {Free, NoId}
      BY <3>2 DEF PollApplies, ReadsWereHeld, TypeOK
    <3>3. CASE PollPublishes \/ PollFails
      BY <3>3 DEF PollPublishes, PollFails, NoPoll
    <3> QED BY <1>7, <3>1, <3>2, <3>3 DEF PollStep
  <2>2. data' \in held \cup {Free, NoId}
    BY <1>7 DEF PollStep, PollAnswered, PollApplies, PollPublishes, PollFails,
                ReadsWereHeld
  <2>3. UNCHANGED <<holder, reply>>
    BY <1>7 DEF PollStep, PollAnswered, PollApplies, PollPublishes, PollFails
  <2> QED BY <1>0, <2>1, <2>2, <2>3 DEF ReadsWereHeld
<1>8. CASE Shutdown \/ SessionAges
  BY <1>1, <1>8 DEF Shutdown, SessionAges
<1>9. CASE \/ MachineRegisters \/ SessionReleased
           \/ \E a \in ForeignIds : ForeignConnects(a)
  BY <1>0, <1>9
     DEF MachineRegisters, SessionReleased, ForeignConnects, ReadsWereHeld
<1>10. CASE UNCHANGED vars
  BY <1>1, <1>10 DEF vars
<1> QED BY <1>1, <1>3, <1>4, <1>5, <1>6, <1>7, <1>8, <1>9, <1>10 DEF Next

\* A handshake keeps its posted id until it ends.
LEMMA PostedNext == TypeOK /\ PostedKnown /\ [Next]_vars => PostedKnown'
<1> SUFFICES ASSUME TypeOK, PostedKnown, [Next]_vars PROVE PostedKnown'
  OBVIOUS
<1> USE DEF session, tasking, polling, command, cloud
<1>1. CASE UNCHANGED <<pc, posted>>
  BY <1>1 DEF PostedKnown
<1>2. ASSUME NEW c \in Commands, NEW q \in Stages \ {"posting", "confirming"},
             pc' = [pc EXCEPT ![c] = q],
             posted' = posted \/ posted' = [posted EXCEPT ![c] = NoId]
      PROVE  PostedKnown'
  BY <1>2 DEF PostedKnown, TypeOK
<1>3. ASSUME NEW c \in Commands,
             SendFromTask(c, integrationAppId) \/ StartSend(c, integrationAppId),
             posted' = posted \/ posted' = [posted EXCEPT ![c] = NoId]
      PROVE  PostedKnown'
  BY <1>2, <1>3 DEF SendFromTask, StartSend, End, Stages, Writing, Ended
<1>4. ASSUME NEW c \in Commands, NEW a, Decide(c, a) PROVE PostedKnown'
  BY <1>2, <1>4
     DEF Decide, AdoptAndSend, SendWarm, IgnoreDuplicate, ScheduleColdConnect,
         StartSend, Stages, Writing, Ended
<1>5. ASSUME NEW c \in Commands,
             PressRefused(c) \/ PressOnSnapshot(c) \/ PressAndRead(c)
      PROVE  PostedKnown'
  BY <1>2, <1>4, <1>5
     DEF PressRefused, PressOnSnapshot, PressAndRead, Stages, Fetching, Ended
<1>6. ASSUME NEW c \in Commands, CommandStep(c) PROVE PostedKnown'
  <2>1. CASE ReadDone(c)
    BY <1>4, <2>1 DEF ReadDone
  <2>2. CASE AcquireLock(c)
    BY <1>2, <1>3, <2>2 DEF AcquireLock, Stages, Fetching
  <2>3. CASE ProbeDone(c)
    BY <1>2, <1>3, <2>3 DEF ProbeDone, End, Stages, Ended
  <2>4. CASE SurveyDone(c)
    BY <2>4, IdAfterReadType DEF SurveyDone, PostedKnown, TypeOK
  <2>5. CASE PostDone(c)
    BY <2>5 DEF PostDone, PostedKnown, TypeOK
  <2>6. CASE ConfirmMatches(c)
    BY <1>3, <2>6 DEF ConfirmMatches
  <2>7. CASE ConfirmPollsAgain(c)
    BY <1>1, <2>7 DEF ConfirmPollsAgain
  <2>8. CASE NudgeDone(c)
    BY <1>2, <2>8 DEF NudgeDone, Stages, Writing
  <2>9. CASE ConfirmTimesOut(c) \/ WriteDone(c) \/ CallFails(c) \/ CancelLands(c)
    BY <1>2, <2>9
       DEF ConfirmTimesOut, WriteDone, CallFails, CancelLands, End, Stages, Ended
  <2> QED BY <1>6, <2>1, <2>2, <2>3, <2>4, <2>5, <2>6, <2>7, <2>8, <2>9
          DEF CommandStep
<1>7. ASSUME NEW c \in Commands, CloudAnswers(c) \/ CloudAcceptsPost(c)
      PROVE  UNCHANGED <<pc, posted>>
  BY <1>7 DEF CloudAnswers, CloudAcceptsPost
<1>8. CASE PollStep \/ Shutdown
  BY <1>1, <1>8
     DEF PollStep, PollAnswered, PollApplies, PollPublishes, PollFails, Shutdown
<1>9. CASE \/ MachineRegisters \/ SessionReleased \/ SessionAges
           \/ \E a \in ForeignIds : ForeignConnects(a)
  BY <1>1, <1>9
     DEF MachineRegisters, SessionReleased, SessionAges, ForeignConnects
<1>10. CASE UNCHANGED vars
  BY <1>1, <1>10 DEF vars
<1> QED BY <1>1, <1>5, <1>6, <1>7, <1>8, <1>9, <1>10 DEF Next

-----------------------------------------------------------------------------
(* The session that is trusted without asking. *)

\* What a command decides on a reading leaves a reported id, or our own.
LEMMA TrustDecides ==
  ASSUME TypeOK, ReportedOrRestored, NEW c \in Commands,
         NEW a \in held \cup {Free, NoId, Pending, Accepted}, Decide(c, a)
  PROVE  ReportedOrRestored'
<1>0. UNCHANGED <<OwnAppId, sessionConfirmed, held>>
  BY DEF Decide, OwnAppId, cloud
<1>1. CASE AdoptAndSend(c, a)
  <2>1. integrationAppId' \in held
    BY <1>1 DEF AdoptAndSend, Adoptable
  <2> QED BY <1>0, <2>1 DEF ReportedOrRestored
<1>2. CASE /\ integrationAppId' = IdAfterRead(a)
           /\ connectAge' = AgeAfterRead(a)
  <2>1. CASE IdAfterRead(a) = integrationAppId
    BY <1>0, <1>2, <2>1 DEF AgeAfterRead, ReportedOrRestored
  <2>2. CASE IdAfterRead(a) # integrationAppId
    <3>1. IdAfterRead(a) = OwnAppId /\ AgeAfterRead(a) = "cold"
      BY <2>2 DEF IdAfterRead, AgeAfterRead
    <3> QED BY <1>0, <1>2, <3>1 DEF ReportedOrRestored
  <2> QED BY <2>1, <2>2
<1> QED BY <1>1, <1>2
        DEF Decide, SendWarm, IgnoreDuplicate, ScheduleColdConnect

\* Every step that confirms the session leaves it on a reported id, and every
\* step that takes such an id away restores our own and stops the clock.
LEMMA TrustNext ==
  TypeOK /\ ReadsWereHeld /\ ReportedOrRestored /\ [Next]_vars
    => ReportedOrRestored'
<1> SUFFICES ASSUME TypeOK, ReadsWereHeld, ReportedOrRestored, [Next]_vars
             PROVE  ReportedOrRestored'
  OBVIOUS
<1> USE DEF session, tasking, polling, command, cloud
<1>0. held \subseteq held'
  BY HeldGrows
<1>1. CASE UNCHANGED session
  BY <1>0, <1>1 DEF ReportedOrRestored, OwnAppId
<1>2. ASSUME NEW c \in Commands,
             \/ PressRefused(c) \/ PressAndRead(c)
             \/ CloudAnswers(c) \/ CloudAcceptsPost(c)
      PROVE  UNCHANGED session
  BY <1>2 DEF PressRefused, PressAndRead, CloudAnswers, CloudAcceptsPost
<1>3. ASSUME NEW c \in Commands, PressOnSnapshot(c)
      PROVE  ReportedOrRestored'
  BY <1>3, TrustDecides DEF PressOnSnapshot, ReadsWereHeld
<1>4. ASSUME NEW c \in Commands, CommandStep(c) PROVE ReportedOrRestored'
  <2>1. CASE ReadDone(c)
    BY <2>1, TrustDecides DEF ReadDone, ReadsWereHeld
  <2>2. CASE SurveyDone(c)
    <3>1. /\ UNCHANGED <<OwnAppId, sessionConfirmed, held>>
          /\ integrationAppId' = IdAfterRead(reply[c])
          /\ connectAge' = AgeAfterRead(reply[c])
      BY <2>2 DEF SurveyDone, OwnAppId
    <3>2. CASE integrationAppId' = integrationAppId
      BY <3>1, <3>2 DEF AgeAfterRead, ReportedOrRestored
    <3>3. CASE integrationAppId' # integrationAppId
      <4>1. integrationAppId' = OwnAppId /\ connectAge' = "cold"
        BY <3>1, <3>3 DEF IdAfterRead, AgeAfterRead
      <4> QED BY <3>1, <4>1 DEF ReportedOrRestored
    <3> QED BY <3>2, <3>3
  <2>3. CASE ConfirmMatches(c)
    <3>. SUFFICES ASSUME sessionConfirmed' PROVE integrationAppId' \in held'
      BY DEF ReportedOrRestored
    <3>1. reply[c] = integrationAppId
      BY <2>3 DEF ConfirmMatches, Confirms, Wanted
    <3>2. integrationAppId \in held
      BY <3>1 DEF ReadsWereHeld, TypeOK
    <3> QED BY <1>0, <2>3, <3>2 DEF ConfirmMatches
  <2>4. CASE ConfirmTimesOut(c)
    BY <2>4 DEF ConfirmTimesOut, ReportedOrRestored
  <2>5. CASE \/ AcquireLock(c) \/ ProbeDone(c) \/ PostDone(c)
             \/ ConfirmPollsAgain(c) \/ NudgeDone(c) \/ WriteDone(c)
             \/ CallFails(c) \/ CancelLands(c)
    BY <1>1, <2>5
       DEF AcquireLock, ProbeDone, PostDone, ConfirmPollsAgain, NudgeDone,
           WriteDone, CallFails, CancelLands
  <2> QED BY <1>4, <2>1, <2>2, <2>3, <2>4, <2>5 DEF CommandStep
<1>5. CASE PollStep
  <2>1. ASSUME NEW d \in Signatures \cup {NoId}, PollApplies(d)
        PROVE  ReportedOrRestored'
    <3> DEFINE own == OwnIdFor(d)
               rebinds == own # OwnAppId /\ integrationAppId = OwnAppId
               id == IF rebinds THEN own ELSE integrationAppId
    <3>. SUFFICES ASSUME sessionConfirmed' PROVE integrationAppId' \in held'
      BY DEF ReportedOrRestored
    <3>1. poll.appId = id /\ id \in AppIds
      BY <2>1, OwnIdType DEF PollApplies, TypeOK
    <3>2. ~PollFindsFree
      BY <3>1 DEF PollFindsFree
    <3>3. integrationAppId' = poll.appId
      BY <2>1, <3>1, <3>2 DEF PollApplies
    <3> QED BY <1>0, <3>1, <3>3 DEF ReadsWereHeld
  <2>2. CASE PollAnswered \/ PollPublishes \/ PollFails
    BY <1>1, <2>2 DEF PollAnswered, PollPublishes, PollFails
  <2> QED BY <1>5, <2>1, <2>2 DEF PollStep
<1>6. CASE Shutdown \/ SessionAges
  <2>1. CASE Shutdown
    BY <2>1 DEF Shutdown, ReportedOrRestored, OwnAppId
  <2>2. CASE SessionAges
    <3>1. /\ connectAge # "cold"
          /\ UNCHANGED <<integrationAppId, sessionConfirmed, held>>
      BY <2>2 DEF SessionAges
    <3> QED BY <3>1 DEF ReportedOrRestored
  <2> QED BY <1>6, <2>1, <2>2
<1>7. CASE \/ MachineRegisters \/ SessionReleased
           \/ \E a \in ForeignIds : ForeignConnects(a)
  BY <1>1, <1>7 DEF MachineRegisters, SessionReleased, ForeignConnects
<1>8. CASE UNCHANGED vars
  BY <1>1, <1>8 DEF vars
<1> QED BY <1>1, <1>2, <1>3, <1>4, <1>5, <1>6, <1>7, <1>8 DEF Next

\* The invariant holds when a coordinator is set up.
LEMMA InitIInv == Init => IInv
<1> SUFFICES ASSUME Init PROVE IInv
  OBVIOUS
<1>1. TypeOK
  BY TypeInit
<1>2. LockOwned /\ PostedKnown
  BY DEF Init, LockOwned, PostedKnown, Handshaking
<1>3. ColdTaskTracked /\ ReportedOrRestored /\ TasksPressed
  BY DEF Init, ColdTaskTracked, ReportedOrRestored, TasksPressed
<1>4. ReadsWereHeld
  BY DEF Init, NoPoll, ReadsWereHeld
<1> QED BY <1>1, <1>2, <1>3, <1>4 DEF IInv

\* The invariant is inductive.
LEMMA NextIInv == IInv /\ [Next]_vars => IInv'
  BY TypeNext, PressedNext, LockNext, HandleNext, ReadsNext, PostedNext, TrustNext DEF IInv

\* The inductive invariant holds throughout: types, the owner of the lock, the
\* task handle, and where the ids in flight come from.
THEOREM Inductive == Spec => []IInv
  BY InitIInv, NextIInv, PTL DEF Spec

\* A session trusted without asking carries an id the machine has reported.
THEOREM Trusted == Spec => []TrustedSessionWasHeld
<1>1. IInv => TrustedSessionWasHeld
  BY DEF IInv, ReportedOrRestored, TrustedSessionWasHeld
<1> QED BY <1>1, Inductive, PTL

-----------------------------------------------------------------------------
(* What may be written. *)

\* The writes a decision starts.
LEMMA DecidedTail ==
  ASSUME IInv, NEW c \in Commands,
         NEW a \in held \cup {Free, NoId, Pending, Accepted}, Decide(c, a),
         pc'[c] \in Writing, sessionConfirmed'
  PROVE  tail'[c] \in held
<1> USE DEF IInv
<1>0. UNCHANGED <<sessionConfirmed, held>>
  BY DEF Decide, cloud
<1>1. CASE AdoptAndSend(c, a)
  BY <1>1 DEF AdoptAndSend, Adoptable, StartSend, TypeOK
<1>2. CASE SendWarm(c, a)
  <2>1. tail'[c] = IdAfterRead(a) /\ AgeAfterRead(a) # "cold"
    BY <1>2 DEF SendWarm, StartSend, Fresh, TypeOK
  <2>2. IdAfterRead(a) = integrationAppId /\ connectAge # "cold"
    BY <2>1 DEF AgeAfterRead
  <2> QED BY <1>0, <2>1, <2>2 DEF ReportedOrRestored
<1>3. CASE IgnoreDuplicate(c, a) \/ ScheduleColdConnect(c, a)
  BY <1>3 DEF IgnoreDuplicate, ScheduleColdConnect, TypeOK, Writing
<1> QED BY <1>1, <1>2, <1>3 DEF Decide

\* The writes a task starts with an id that is held.
LEMMA TaskTail ==
  ASSUME TypeOK, NEW c \in Commands, SendFromTask(c, integrationAppId),
         pc'[c] \in Writing
  PROVE  tail'[c] = integrationAppId
  BY DEF TypeOK, SendFromTask, StartSend, End, Writing

\* A frame built under a confirmed session carries a reported id, or is the
\* second one of a wake and carries our own, restored on a stopped clock.
LEMMA TailStep ==
  ASSUME IInv, [Next]_vars, NEW c \in Commands, BuildsFrame(c),
         sessionConfirmed'
  PROVE  \/ tail'[c] \in held
         \/ pc[c] = "nudging" /\ connectAge = "cold" /\ tail'[c] = OwnAppId
<1> USE DEF session, tasking, polling, command, cloud, IInv
<1>1. CASE PressOnSnapshot(c)
  BY <1>1, DecidedTail DEF PressOnSnapshot, BuildsFrame, ReadsWereHeld
<1>2. CASE ReadDone(c)
  BY <1>2, DecidedTail DEF ReadDone, BuildsFrame, ReadsWereHeld
<1>3. CASE AcquireLock(c)
  <2>1. tail'[c] = integrationAppId /\ connectAge # "cold"
    <3>1. pc'[c] \in Writing
      BY DEF BuildsFrame
    <3>2. pc'[c] \notin {"surveying", "probing"}
      BY <3>1 DEF Writing
    <3> QED BY <1>3, <3>1, <3>2, TaskTail DEF AcquireLock, TypeOK
  <2> QED BY <1>3, <2>1 DEF AcquireLock, ReportedOrRestored
<1>4. CASE ProbeDone(c)
  <2>1. pc'[c] # "skipped"
    BY DEF BuildsFrame, Writing
  <2>2. reply[c] = integrationAppId /\ SendFromTask(c, integrationAppId)
    BY <1>4, <2>1 DEF ProbeDone, End, TypeOK
  <2>3. tail'[c] = reply[c]
    BY <2>2, TaskTail DEF BuildsFrame
  <2> QED BY <2>2, <2>3 DEF ReadsWereHeld, TypeOK
<1>5. CASE ConfirmMatches(c)
  <2>1. reply[c] = integrationAppId
    BY <1>5 DEF ConfirmMatches, Confirms, Wanted
  <2>2. tail'[c] = reply[c]
    BY <1>5, <2>1, TaskTail DEF ConfirmMatches, BuildsFrame
  <2> QED BY <2>1, <2>2 DEF ReadsWereHeld, TypeOK
<1>6. CASE UNCHANGED pc
  BY <1>6 DEF BuildsFrame
<1>7. CASE \/ PressRefused(c) \/ PressAndRead(c) \/ SurveyDone(c)
           \/ PostDone(c) \/ ConfirmPollsAgain(c) \/ ConfirmTimesOut(c)
           \/ WriteDone(c) \/ CallFails(c) \/ CancelLands(c)
           \/ CloudAnswers(c) \/ CloudAcceptsPost(c)
  BY <1>7, ZenonT(60)
     DEF PressRefused, PressAndRead, SurveyDone, PostDone, ConfirmPollsAgain,
         ConfirmTimesOut, WriteDone, CallFails, CancelLands,
         CloudAnswers, CloudAcceptsPost, End, BuildsFrame, Writing, TypeOK
<1>8. CASE \/ PollStep \/ Shutdown \/ MachineRegisters \/ SessionReleased
           \/ SessionAges \/ \E a \in ForeignIds : ForeignConnects(a)
  BY <1>6, <1>8
     DEF PollStep, PollAnswered, PollApplies, PollPublishes, PollFails,
         Shutdown, MachineRegisters, SessionReleased, SessionAges,
         ForeignConnects
<1>9. ASSUME NEW d \in Commands \ {c},
             \/ PressRefused(d) \/ PressOnSnapshot(d) \/ PressAndRead(d)
             \/ CommandStep(d) \/ CloudAnswers(d) \/ CloudAcceptsPost(d)
      PROVE  FALSE
  <2>1. pc'[c] = pc[c]
    BY <1>9, ZenonT(60)
       DEF PressRefused, PressOnSnapshot, PressAndRead, CommandStep, Decide,
           AdoptAndSend, SendWarm, IgnoreDuplicate, ScheduleColdConnect,
           CloudAnswers, CloudAcceptsPost, ReadDone, AcquireLock, ProbeDone,
           SurveyDone, PostDone, ConfirmMatches, ConfirmPollsAgain,
           ConfirmTimesOut, NudgeDone, WriteDone, CallFails, CancelLands,
           SendFromTask, StartSend, End, TypeOK
  <2> QED BY <2>1 DEF BuildsFrame
<1>10. CASE UNCHANGED vars
  BY <1>6, <1>10 DEF vars
<1>11. CASE NudgeDone(c)
  <2>1. /\ pc[c] = "nudging" /\ tail'[c] = integrationAppId
        /\ UNCHANGED sessionConfirmed
    BY <1>11 DEF NudgeDone, TypeOK
  <2> QED BY <2>1 DEF ReportedOrRestored
<1> QED BY <1>1, <1>2, <1>3, <1>4, <1>5, <1>7, <1>8, <1>9, <1>10, <1>11
        DEF Next, CommandStep

\* Every frame built on a confirmed session carries an id the machine has
\* reported, but for a wake's second frame after our own id was restored.
THEOREM FrameRides == Spec => FrameRidesReportedId
<1>1. IInv /\ [Next]_vars =>
        [\A c \in Commands :
           BuildsFrame(c) /\ sessionConfirmed'
             => \/ tail'[c] \in held
                \/ pc[c] = "nudging" /\ connectAge = "cold" /\ tail'[c] = OwnAppId
        ]_vars
  BY TailStep
<1> QED BY <1>1, Inductive, PTL DEF Spec, FrameRidesReportedId

-----------------------------------------------------------------------------
(* The wait for a POST. *)

\* Only a matching wait takes a command from confirming to writing.
LEMMA ConfirmStep ==
  ASSUME IInv, [Next]_vars, NEW c \in Commands, pc[c] = "confirming",
         BuildsFrame(c)
  PROVE  posted[c] \in held
<1> USE DEF session, tasking, polling, command, cloud, IInv
<1>1. pc'[c] \in Writing
  BY DEF BuildsFrame
<1>2. CASE ConfirmMatches(c)
  BY <1>2 DEF ConfirmMatches, Wanted, PostedKnown, ReadsWereHeld, TypeOK
<1>3. CASE ConfirmPollsAgain(c) \/ ConfirmTimesOut(c) \/ CallFails(c)
             \/ CancelLands(c) \/ CloudAnswers(c)
  BY <1>1, <1>3
     DEF ConfirmPollsAgain, ConfirmTimesOut, CallFails, CancelLands,
         CloudAnswers, End, Writing, TypeOK
<1>4. CASE \/ PressRefused(c) \/ PressOnSnapshot(c) \/ PressAndRead(c)
           \/ ReadDone(c) \/ AcquireLock(c) \/ ProbeDone(c) \/ SurveyDone(c)
           \/ PostDone(c) \/ NudgeDone(c) \/ WriteDone(c) \/ CloudAcceptsPost(c)
  BY <1>4
     DEF PressRefused, PressOnSnapshot, PressAndRead, ReadDone,
         AcquireLock, ProbeDone, SurveyDone, PostDone, NudgeDone, WriteDone,
         CloudAcceptsPost
<1>5. ASSUME NEW d \in Commands \ {c},
             \/ PressRefused(d) \/ PressOnSnapshot(d) \/ PressAndRead(d)
             \/ CommandStep(d) \/ CloudAnswers(d) \/ CloudAcceptsPost(d)
      PROVE  pc'[c] = pc[c]
  BY <1>5
     DEF PressRefused, PressOnSnapshot, PressAndRead, CommandStep, Decide,
         AdoptAndSend, SendWarm, IgnoreDuplicate, ScheduleColdConnect,
         CloudAnswers, CloudAcceptsPost, ReadDone, AcquireLock, ProbeDone,
         SurveyDone, PostDone, ConfirmMatches, ConfirmPollsAgain,
         ConfirmTimesOut, NudgeDone, WriteDone, CallFails, CancelLands,
         SendFromTask, StartSend, End, TypeOK
<1>6. CASE \/ PollStep \/ Shutdown \/ MachineRegisters \/ SessionReleased
           \/ SessionAges \/ \E a \in ForeignIds : ForeignConnects(a)
           \/ UNCHANGED vars
  BY <1>1, <1>6
     DEF PollStep, PollAnswered, PollApplies, PollPublishes, PollFails,
         Shutdown, MachineRegisters, SessionReleased, SessionAges,
         ForeignConnects, vars, Writing
<1> QED BY <1>1, <1>2, <1>3, <1>4, <1>5, <1>6 DEF Next, CommandStep, Writing

\* A handshake writes only once the machine has reported the id it POSTed.
THEOREM ConfirmedPost == Spec => ConfirmedOnMachine
<1>1. IInv /\ [Next]_vars =>
        [\A c \in Commands :
           pc[c] = "confirming" /\ BuildsFrame(c) => posted[c] \in held]_vars
  BY ConfirmStep
<1> QED BY <1>1, Inductive, PTL DEF Spec, ConfirmedOnMachine

-----------------------------------------------------------------------------
(* The refinement of CommandGate. *)

\* The phase of a stage, stage by stage.
LEMMA Phases ==
  /\ PhaseOf("idle") = "new"
  /\ \A q \in {"reading", "queued"} : PhaseOf(q) = "open"
  /\ \A q \in Handshaking : PhaseOf(q) = "connecting"
  /\ \A q \in Writing : PhaseOf(q) = "writing"
  /\ \A q \in Ended : PhaseOf(q) = "closed"
  /\ \A q \in Stages : PhaseOf(q) = "connecting" => q \in Handshaking
  BY DEF PhaseOf, Handshaking, Writing, Ended, Stages, Fetching

\* The edges of CommandGate, between the phases of stages p and q.
Edge(p, q) ==
  \/ PhaseOf(p) = PhaseOf(q)
  \/ /\ PhaseOf(p) = "new"
     /\ PhaseOf(q) \in {"open", "writing", "closed"}
  \/ /\ PhaseOf(p) = "open"
     /\ PhaseOf(q) = "connecting"
     /\ \A d \in Commands : pc[d] \notin Handshaking
  \/ PhaseOf(p) \in {"open", "connecting"} /\ PhaseOf(q) = "writing"
  \/ PhaseOf(p) \in {"open", "connecting", "writing"} /\ PhaseOf(q) = "closed"

\* A command that moves along an edge makes a step of the gate, or none.
LEMMA GateMoves ==
  ASSUME TypeOK, NEW c \in Commands, NEW q \in Stages,
         pc' = [pc EXCEPT ![c] = q], Edge(pc[c], q)
  PROVE  [Gate!Next]_(Gate!gate)
<1> DEFINE phase == [d \in Commands |-> PhaseOf(pc[d])]
<1>1. phase' = [phase EXCEPT ![c] = PhaseOf(q)]
  BY DEF TypeOK
<1>2. phase[c] = PhaseOf(pc[c])
  OBVIOUS
<1>3. CASE PhaseOf(pc[c]) = PhaseOf(q)
  <2>1. phase' = phase
    BY <1>1, <1>3
  <2> QED BY <2>1 DEF Gate!gate
<1>4. CASE /\ PhaseOf(pc[c]) = "new"
           /\ PhaseOf(q) \in {"open", "writing", "closed"}
  BY <1>1, <1>2, <1>4 DEF Gate!Next, Gate!LetIn, Gate!Move
<1>5. CASE /\ PhaseOf(pc[c]) = "open"
           /\ PhaseOf(q) = "connecting"
           /\ \A d \in Commands : pc[d] \notin Handshaking
  <2>1. \A d \in Commands : phase[d] # "connecting"
    BY <1>5, Phases DEF TypeOK
  <2> QED BY <1>1, <1>2, <1>5, <2>1 DEF Gate!Next, Gate!Connect, Gate!Move
<1>6. CASE /\ PhaseOf(pc[c]) \in {"open", "connecting"}
           /\ PhaseOf(q) = "writing"
  BY <1>1, <1>2, <1>6 DEF Gate!Next, Gate!Write, Gate!Move
<1>7. CASE /\ PhaseOf(pc[c]) \in {"open", "connecting", "writing"}
           /\ PhaseOf(q) = "closed"
  BY <1>1, <1>2, <1>7 DEF Gate!Next, Gate!Close, Gate!Move
<1> QED BY <1>3, <1>4, <1>5, <1>6, <1>7 DEF Edge

\* A decision is taken in phase new, on the snapshot, or open.
LEMMA GateDecides ==
  ASSUME TypeOK, NEW c \in Commands, NEW a, Decide(c, a),
         pc[c] \in {"idle", "reading"}
  PROVE  [Gate!Next]_(Gate!gate)
<1>1. PICK q \in {"writing", "nudging", "ignored", "queued"} :
        pc' = [pc EXCEPT ![c] = q]
  BY DEF Decide, AdoptAndSend, SendWarm, IgnoreDuplicate,
         ScheduleColdConnect, StartSend
<1>2. q \in Stages
  BY DEF Decide, Stages, Writing, Ended
<1>3. Edge(pc[c], q)
  BY Phases DEF Edge, Writing, Ended
<1> QED BY <1>1, <1>2, <1>3, GateMoves

\* A task ends or starts to write.
LEMMA GateSends ==
  ASSUME TypeOK, NEW c \in Commands, SendFromTask(c, integrationAppId),
         pc[c] \in {"queued"} \cup Handshaking
  PROVE  [Gate!Next]_(Gate!gate)
<1>1. PICK q \in {"writing", "nudging", "failed"} : pc' = [pc EXCEPT ![c] = q]
  BY DEF SendFromTask, StartSend, End
<1>2. q \in Stages
  BY DEF Stages, Writing, Ended
<1>3. Edge(pc[c], q)
  BY Phases DEF Edge, Writing, Ended
<1> QED BY <1>1, <1>2, <1>3, GateMoves

\* A command that is under way ends.
LEMMA GateEnds ==
  ASSUME TypeOK, NEW c \in Commands, NEW outcome \in Ended, End(c, outcome),
         pc[c] # "idle"
  PROVE  [Gate!Next]_(Gate!gate)
<1>1. outcome \in Stages
  BY DEF Stages
<1>2. Edge(pc[c], outcome)
  BY Phases DEF Edge, TypeOK, Stages, Fetching, Handshaking
<1> QED BY <1>1, <1>2, GateMoves DEF End

\* What a command's coroutine does is a step of the gate, or none.
LEMMA GateCommandStep ==
  ASSUME IInv, NEW c \in Commands, CommandStep(c)
  PROVE  [Gate!Next]_(Gate!gate)
<1> USE DEF IInv, session, tasking, polling, command, cloud
<1>0. CASE UNCHANGED pc
  BY <1>0 DEF Gate!gate
<1>1. CASE ReadDone(c)
  BY <1>1, GateDecides DEF ReadDone
<1>2. CASE AcquireLock(c)
  <2>1. CASE SendFromTask(c, integrationAppId)
    BY <1>2, <2>1, GateSends DEF AcquireLock
  <2>2. ASSUME NEW q \in {"surveying", "probing"}, pc' = [pc EXCEPT ![c] = q]
        PROVE  [Gate!Next]_(Gate!gate)
    <3>1. \A d \in Commands : pc[d] \notin Handshaking
      BY <1>2 DEF AcquireLock, LockFree, LockOwned
    <3>2. q \in Stages /\ q \in Handshaking
      BY DEF Stages, Handshaking
    <3>3. Edge(pc[c], q)
      BY <1>2, <3>1, <3>2, Phases DEF Edge, AcquireLock
    <3> QED BY <1>2, <2>2, <3>2, <3>3, GateMoves DEF AcquireLock
  <2> QED BY <1>2, <2>1, <2>2 DEF AcquireLock
<1>3. CASE ProbeDone(c) \/ ConfirmMatches(c)
  BY <1>3, GateSends, GateEnds DEF ProbeDone, ConfirmMatches, Handshaking, Ended
<1>4. CASE SurveyDone(c) \/ PostDone(c)
  <2>1. PICK q \in {"posting", "confirming"} : pc' = [pc EXCEPT ![c] = q]
    BY <1>4 DEF SurveyDone, PostDone
  <2>2. q \in Stages /\ q \in Handshaking /\ pc[c] \in Handshaking
    BY <1>4 DEF SurveyDone, PostDone, Stages, Handshaking
  <2>3. Edge(pc[c], q)
    BY <2>2, Phases DEF Edge
  <2> QED BY <1>4, <2>1, <2>2, <2>3, GateMoves DEF SurveyDone, PostDone
<1>5. CASE ConfirmPollsAgain(c)
  BY <1>0, <1>5 DEF ConfirmPollsAgain
<1>6. CASE NudgeDone(c)
  <2>1. Edge(pc[c], "writing") /\ "writing" \in Stages
    BY <1>6, Phases DEF NudgeDone, Edge, Writing, Stages
  <2> QED BY <1>6, <2>1, GateMoves DEF NudgeDone
<1>7. CASE ConfirmTimesOut(c) \/ WriteDone(c) \/ CallFails(c)
  BY <1>7, GateEnds
     DEF ConfirmTimesOut, WriteDone, CallFails, Ended, Fetching, Handshaking,
         Writing
<1>8. CASE CancelLands(c)
  BY <1>8, GateEnds DEF CancelLands, TasksPressed, Ended
<1> QED BY <1>1, <1>2, <1>3, <1>4, <1>5, <1>6, <1>7, <1>8 DEF CommandStep

\* Every step maps to a step of the gate or to a stutter.
LEMMA GateStep == IInv /\ [Next]_vars => [Gate!Next]_(Gate!gate)
<1> SUFFICES ASSUME IInv, [Next]_vars PROVE [Gate!Next]_(Gate!gate)
  OBVIOUS
<1> USE DEF IInv, session, tasking, polling, command, cloud
<1>0. CASE UNCHANGED pc
  BY <1>0 DEF Gate!gate
<1>1. ASSUME NEW c \in Commands, NEW q \in {"refused", "reading"}, pc[c] = "idle",
             pc' = [pc EXCEPT ![c] = q]
      PROVE  [Gate!Next]_(Gate!gate)
  <2>1. Edge(pc[c], q) /\ q \in Stages
    BY <1>1, Phases DEF Edge, Stages, Fetching, Ended
  <2> QED BY <1>1, <2>1, GateMoves
<1>2. ASSUME NEW c \in Commands, PressRefused(c) \/ PressAndRead(c)
      PROVE  [Gate!Next]_(Gate!gate)
  BY <1>1, <1>2 DEF PressRefused, PressAndRead
<1>3. ASSUME NEW c \in Commands, PressOnSnapshot(c)
      PROVE  [Gate!Next]_(Gate!gate)
  BY <1>3, GateDecides DEF PressOnSnapshot
<1>4. ASSUME NEW c \in Commands, CommandStep(c) PROVE [Gate!Next]_(Gate!gate)
  BY <1>4, GateCommandStep
<1>5. ASSUME NEW c \in Commands, CloudAnswers(c) \/ CloudAcceptsPost(c)
      PROVE  UNCHANGED pc
  BY <1>5 DEF CloudAnswers, CloudAcceptsPost
<1>6. CASE PollStep
  BY <1>0, <1>6
     DEF PollStep, PollAnswered, PollApplies, PollPublishes, PollFails
<1>7. CASE Shutdown
  BY <1>0, <1>7 DEF Shutdown
<1>8. CASE \/ MachineRegisters \/ SessionReleased \/ SessionAges
           \/ \E a \in ForeignIds : ForeignConnects(a)
  BY <1>0, <1>8
     DEF MachineRegisters, SessionReleased, SessionAges, ForeignConnects
<1>9. CASE UNCHANGED vars
  BY <1>0, <1>9 DEF vars
<1> QED BY <1>0, <1>2, <1>3, <1>4, <1>5, <1>6, <1>7, <1>8, <1>9 DEF Next

\* The session protocol implements the gate of CommandGate.
THEOREM Refinement == Spec => GateSpec
<1>1. Init => Gate!Init
  BY Phases DEF Init, Gate!Init
<1> QED BY <1>1, GateStep, Inductive, PTL DEF Spec, GateSpec, Gate!Spec
=============================================================================
