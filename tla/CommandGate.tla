---------------------------- MODULE CommandGate ----------------------------
(***************************************************************************)
(* What the command path of a coordinator promises its callers, with the   *)
(* session protocol left out: every call is let in once, writes at most    *)
(* once and is closed for good, and at most one call at a time registers a *)
(* session.  A call may be dropped at any point.  CloudSession implements  *)
(* this.                                                                   *)
(***************************************************************************)
CONSTANT Commands

VARIABLE phase  \* the phase each call is in

gate == <<phase>>

Phases == {"new", "open", "connecting", "writing", "closed"}

Init == phase = [c \in Commands |-> "new"]

\* From phase p to phase q.
Move(c, p, q) ==
  /\ phase[c] = p
  /\ phase' = [phase EXCEPT ![c] = q]

LetIn(c) == \E q \in {"open", "writing", "closed"} : Move(c, "new", q)

Connect(c) ==
  /\ \A d \in Commands : phase[d] # "connecting"
  /\ Move(c, "open", "connecting")

Write(c) == \E p \in {"open", "connecting"} : Move(c, p, "writing")

Close(c) == \E p \in {"open", "connecting", "writing"} : Move(c, p, "closed")

Next == \E c \in Commands : LetIn(c) \/ Connect(c) \/ Write(c) \/ Close(c)

Spec == Init /\ [][Next]_gate
=============================================================================
