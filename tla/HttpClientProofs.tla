-------------------------- MODULE HttpClientProofs --------------------------
(***************************************************************************)
(* Proofs, for any number of calls, time outs and retries, that the first  *)
(* request of a call bears a token that has not expired, that a command is *)
(* carried out once at most, and that lost answers become CloudErrors.     *)
(***************************************************************************)
EXTENDS HttpClient, FiniteSetTheorems, TLAPS

\* The types of the constants, and the margin that covers a slow sign-in.
LEMMA Times ==
  /\ Timeout \in Nat \ {0} /\ Backoff \in Nat /\ Retries \in Nat
  /\ Margin \in Nat /\ Timeout <= Margin
  /\ Lifetime \in Nat /\ Timeout <= Lifetime
  /\ None \notin Nat
  BY TimeAssumption

-----------------------------------------------------------------------------
(* The inductive invariant. *)

\* Types alone, without the bounds that follow from the control.
Typed ==
  /\ kind \in [Calls -> Kinds]
  /\ pc \in [Calls -> {"idle"} \cup Running \cup Ended]
  /\ sent \in [Calls -> Nat]
  /\ wait \in [Calls -> Nat] /\ age \in [Calls -> Nat]
  /\ issued \in [Calls -> Nat \cup {None}]
  /\ acted \in [Calls -> SUBSET Nat]
  /\ token \in Nat \cup {None}
  /\ expiry \in 0..Lifetime

\* How many requests a call has sent at each stage.
SentInv(c) ==
  /\ sent[c] <= Retries + 1
  /\ kind[c] = "write" => sent[c] <= 1
  /\ pc[c] = "pause" => kind[c] # "write" /\ sent[c] <= Retries
  /\ pc[c] \in SigningIn => sent[c] = 0
  /\ pc[c] \in {"request", "pause"} => sent[c] >= 1
  /\ acted[c] \subseteq 1..sent[c]

\* A token under way is no older than the wait for it, and none is under way
\* before it is asked for.
SignInInv(c) ==
  /\ pc[c] \in SigningIn => wait[c] <= Timeout
  /\ pc[c] \in {"login", "jwt"} => issued[c] = None
  /\ issued[c] # None => issued[c] <= Timeout
  /\ pc[c] = "sso" /\ issued[c] # None => issued[c] <= wait[c]

\* How a call may end once a request is out.
LostInv(c) ==
  \/ pc[c] = "AuthError"
  \/ pc[c] = "network" /\ kind[c] # "write"
  \/ pc[c] = "malformed" /\ kind[c] = "session"
  => sent[c] = 0

\* What the client believes is left of the token's life runs ahead of what is
\* left by Timeout at most: the answer to the sign-in was that late.
TokenInv ==
  /\ token # None => token <= TokenCap
  /\ expiry > 0 => token # None /\ token + expiry <= Lifetime + Timeout

IInv ==
  /\ Typed
  /\ \A c \in Calls : SentInv(c) /\ SignInInv(c) /\ LostInv(c)
  /\ TokenInv

-----------------------------------------------------------------------------

\* Nothing has happened yet.
LEMMA InitInv == Init => IInv
  BY Times DEF Init, IInv, Typed, SentInv, SignInInv, LostInv, TokenInv, Kinds,
     Running, SigningIn, Ended

\* Types are kept.
LEMMA TypedNext == IInv /\ [Next]_vars => Typed'
<1> SUFFICES ASSUME IInv, [Next]_vars PROVE Typed'
  OBVIOUS
<1> USE Times DEF IInv, Typed, Goes
<1> USE DEF Kinds, Running, SigningIn, Ended
<1>1. ASSUME NEW c \in Calls, NEW k \in Kinds, Start(c, k) PROVE Typed'
  <2>1. CASE k = "signin" \/ Expired
    BY <1>1, <2>1 DEF Start, login
  <2>2. CASE ~(k = "signin" \/ Expired)
    BY <1>1, <2>2 DEF Start, login
  <2> QED BY <2>1, <2>2
<1>2. ASSUME NEW c \in Calls, SignInGoesOn(c) PROVE Typed'
  BY <1>2 DEF SignInGoesOn, login
<1>3. ASSUME NEW c \in Calls, CloudIssues(c) PROVE Typed'
  BY <1>3 DEF CloudIssues, login
<1>4. ASSUME NEW c \in Calls, SignInDone(c) PROVE Typed'
  BY <1>4 DEF SignInDone
<1>5. ASSUME NEW c \in Calls, SignInFails(c) PROVE Typed'
  BY <1>5 DEF SignInFails, login
<1>6. ASSUME NEW c \in Calls, CloudActs(c) PROVE Typed'
  BY <1>6 DEF CloudActs, login
<1>7. ASSUME NEW c \in Calls, Answered(c) PROVE Typed'
  BY <1>7 DEF Answered, login
<1>8. ASSUME NEW c \in Calls, Refused(c) PROVE Typed'
  BY <1>8 DEF Refused, login
<1>9. ASSUME NEW c \in Calls, AttemptFails(c) PROVE Typed'
  BY <1>9 DEF AttemptFails, Escape, login
<1>10. ASSUME NEW c \in Calls, PauseEnds(c) PROVE Typed'
  BY <1>10 DEF PauseEnds, login
<1>11. CASE Tick
  BY <1>11 DEF Tick, Older
<1>12. CASE UNCHANGED vars
  BY <1>12 DEF vars, call, login
<1> QED BY <1>1, <1>2, <1>3, <1>4, <1>5, <1>6, <1>7, <1>8, <1>9, <1>10, <1>11,
           <1>12 DEF Next
\* Attempts are counted to Retries + 1, and to one for a command.
LEMMA SentNext == IInv /\ [Next]_vars => \A d \in Calls : SentInv(d)'
<1> SUFFICES ASSUME IInv, [Next]_vars PROVE \A d \in Calls : SentInv(d)'
  OBVIOUS
<1> USE Times DEF IInv, Typed, Goes, SentInv
<1> USE DEF Kinds, Running, SigningIn, Ended
<1>1. ASSUME NEW c \in Calls, NEW k \in Kinds, Start(c, k) PROVE \A d \in Calls : SentInv(d)'
  <2>1. CASE k = "signin" \/ Expired
    BY <1>1, <2>1 DEF Start, login
  <2>2. CASE ~(k = "signin" \/ Expired)
    BY <1>1, <2>2 DEF Start, login
  <2> QED BY <2>1, <2>2
<1>2. ASSUME NEW c \in Calls, SignInGoesOn(c) PROVE \A d \in Calls : SentInv(d)'
  BY <1>2 DEF SignInGoesOn, login
<1>3. ASSUME NEW c \in Calls, CloudIssues(c) PROVE \A d \in Calls : SentInv(d)'
  BY <1>3 DEF CloudIssues, login
<1>4. ASSUME NEW c \in Calls, SignInDone(c) PROVE \A d \in Calls : SentInv(d)'
  BY <1>4 DEF SignInDone, login
<1>5. ASSUME NEW c \in Calls, SignInFails(c) PROVE \A d \in Calls : SentInv(d)'
  BY <1>5 DEF SignInFails, login
<1>6. ASSUME NEW c \in Calls, CloudActs(c) PROVE \A d \in Calls : SentInv(d)'
  BY <1>6 DEF CloudActs, login, Writes
<1>7. ASSUME NEW c \in Calls, Answered(c) PROVE \A d \in Calls : SentInv(d)'
  BY <1>7 DEF Answered, login, Writes
<1>8. ASSUME NEW c \in Calls, Refused(c) PROVE \A d \in Calls : SentInv(d)'
  BY <1>8 DEF Refused, login
<1>9. ASSUME NEW c \in Calls, AttemptFails(c) PROVE \A d \in Calls : SentInv(d)'
  BY <1>9 DEF AttemptFails, login, Retried, Escape
<1>10. ASSUME NEW c \in Calls, PauseEnds(c) PROVE \A d \in Calls : SentInv(d)'
  BY <1>10 DEF PauseEnds, login
<1>11. CASE Tick
  BY <1>11 DEF Tick, Older
<1>12. CASE UNCHANGED vars
  BY <1>12 DEF vars, call, login
<1> QED BY <1>1, <1>2, <1>3, <1>4, <1>5, <1>6, <1>7, <1>8, <1>9, <1>10, <1>11,
           <1>12 DEF Next

\* A sign-in and the token it waits for stay within Timeout.
LEMMA SignInNext == IInv /\ [Next]_vars => \A d \in Calls : SignInInv(d)'
<1> SUFFICES ASSUME IInv, [Next]_vars PROVE \A d \in Calls : SignInInv(d)'
  OBVIOUS
<1> USE Times DEF IInv, Typed, Goes, SignInInv
<1> USE DEF Kinds, Running, SigningIn, Ended
<1>1. ASSUME NEW c \in Calls, NEW k \in Kinds, Start(c, k) PROVE \A d \in Calls : SignInInv(d)'
  <2>1. CASE k = "signin" \/ Expired
    BY <1>1, <2>1 DEF Start, login
  <2>2. CASE ~(k = "signin" \/ Expired)
    BY <1>1, <2>2 DEF Start, login
  <2> QED BY <2>1, <2>2
<1>2. ASSUME NEW c \in Calls, SignInGoesOn(c) PROVE \A d \in Calls : SignInInv(d)'
  BY <1>2 DEF SignInGoesOn, login
<1>3. ASSUME NEW c \in Calls, CloudIssues(c) PROVE \A d \in Calls : SignInInv(d)'
  BY <1>3 DEF CloudIssues, login
<1>4. ASSUME NEW c \in Calls, SignInDone(c) PROVE \A d \in Calls : SignInInv(d)'
  BY <1>4 DEF SignInDone, login
<1>5. ASSUME NEW c \in Calls, SignInFails(c) PROVE \A d \in Calls : SignInInv(d)'
  BY <1>5 DEF SignInFails, login
<1>6. ASSUME NEW c \in Calls, CloudActs(c) PROVE \A d \in Calls : SignInInv(d)'
  BY <1>6 DEF CloudActs, login, Writes
<1>7. ASSUME NEW c \in Calls, Answered(c) PROVE \A d \in Calls : SignInInv(d)'
  BY <1>7 DEF Answered, login, Writes
<1>8. ASSUME NEW c \in Calls, Refused(c) PROVE \A d \in Calls : SignInInv(d)'
  BY <1>8 DEF Refused, login
<1>9. ASSUME NEW c \in Calls, AttemptFails(c) PROVE \A d \in Calls : SignInInv(d)'
  BY <1>9 DEF AttemptFails, login, Retried, Escape
<1>10. ASSUME NEW c \in Calls, PauseEnds(c) PROVE \A d \in Calls : SignInInv(d)'
  BY <1>10 DEF PauseEnds, login
<1>11. CASE Tick
  BY <1>11 DEF Tick, Older, Limit
<1>12. CASE UNCHANGED vars
  BY <1>12 DEF vars, call, login
<1> QED BY <1>1, <1>2, <1>3, <1>4, <1>5, <1>6, <1>7, <1>8, <1>9, <1>10, <1>11,
           <1>12 DEF Next

\* Only commands and sign-ins let a lost answer escape, and a call that signs in
\* has sent nothing yet.
LEMMA LostNext == IInv /\ [Next]_vars => \A d \in Calls : LostInv(d)'
<1> SUFFICES ASSUME IInv, [Next]_vars PROVE \A d \in Calls : LostInv(d)'
  OBVIOUS
<1> USE Times DEF IInv, Typed, Goes, LostInv, SentInv
<1> USE DEF Kinds, Running, SigningIn, Ended
<1>1. ASSUME NEW c \in Calls, NEW k \in Kinds, Start(c, k) PROVE \A d \in Calls : LostInv(d)'
  <2>1. CASE k = "signin" \/ Expired
    BY <1>1, <2>1 DEF Start, login
  <2>2. CASE ~(k = "signin" \/ Expired)
    BY <1>1, <2>2 DEF Start, login
  <2> QED BY <2>1, <2>2
<1>2. ASSUME NEW c \in Calls, SignInGoesOn(c) PROVE \A d \in Calls : LostInv(d)'
  BY <1>2 DEF SignInGoesOn, login
<1>3. ASSUME NEW c \in Calls, CloudIssues(c) PROVE \A d \in Calls : LostInv(d)'
  BY <1>3 DEF CloudIssues, login
<1>4. ASSUME NEW c \in Calls, SignInDone(c) PROVE \A d \in Calls : LostInv(d)'
  BY <1>4 DEF SignInDone, login
<1>5. ASSUME NEW c \in Calls, SignInFails(c) PROVE \A d \in Calls : LostInv(d)'
  BY <1>5 DEF SignInFails, login
<1>6. ASSUME NEW c \in Calls, CloudActs(c) PROVE \A d \in Calls : LostInv(d)'
  BY <1>6 DEF CloudActs, login, Writes
<1>7. ASSUME NEW c \in Calls, Answered(c) PROVE \A d \in Calls : LostInv(d)'
  BY <1>7 DEF Answered, login, Writes
<1>8. ASSUME NEW c \in Calls, Refused(c) PROVE \A d \in Calls : LostInv(d)'
  BY <1>8 DEF Refused, login
<1>9. ASSUME NEW c \in Calls, AttemptFails(c) PROVE \A d \in Calls : LostInv(d)'
  BY <1>9 DEF AttemptFails, login, Retried, Escape
<1>10. ASSUME NEW c \in Calls, PauseEnds(c) PROVE \A d \in Calls : LostInv(d)'
  BY <1>10 DEF PauseEnds, login
<1>11. CASE Tick
  BY <1>11 DEF Tick, Older
<1>12. CASE UNCHANGED vars
  BY <1>12 DEF vars, call, login
<1> QED BY <1>1, <1>2, <1>3, <1>4, <1>5, <1>6, <1>7, <1>8, <1>9, <1>10, <1>11,
           <1>12 DEF Next

\* The belief about the token stays within Timeout of the truth.
LEMMA TokenNext == IInv /\ [Next]_vars => TokenInv'
<1> SUFFICES ASSUME IInv, [Next]_vars PROVE TokenInv'
  OBVIOUS
<1> USE Times DEF IInv, Typed, Goes, TokenInv, TokenCap, SignInInv
<1> USE DEF Kinds, Running, SigningIn, Ended
<1>1. ASSUME NEW c \in Calls, NEW k \in Kinds, Start(c, k) PROVE TokenInv'
  <2>1. CASE k = "signin" \/ Expired
    BY <1>1, <2>1 DEF Start, login
  <2>2. CASE ~(k = "signin" \/ Expired)
    BY <1>1, <2>2 DEF Start, login
  <2> QED BY <2>1, <2>2
<1>2. ASSUME NEW c \in Calls, SignInGoesOn(c) PROVE TokenInv'
  BY <1>2 DEF SignInGoesOn, login
<1>3. ASSUME NEW c \in Calls, CloudIssues(c) PROVE TokenInv'
  BY <1>3 DEF CloudIssues, login
<1>4. ASSUME NEW c \in Calls, SignInDone(c) PROVE TokenInv'
  BY <1>4 DEF SignInDone, login
<1>5. ASSUME NEW c \in Calls, SignInFails(c) PROVE TokenInv'
  BY <1>5 DEF SignInFails, login
<1>6. ASSUME NEW c \in Calls, CloudActs(c) PROVE TokenInv'
  BY <1>6 DEF CloudActs, login, Writes
<1>7. ASSUME NEW c \in Calls, Answered(c) PROVE TokenInv'
  BY <1>7 DEF Answered, login, Writes
<1>8. ASSUME NEW c \in Calls, Refused(c) PROVE TokenInv'
  BY <1>8 DEF Refused, login
<1>9. ASSUME NEW c \in Calls, AttemptFails(c) PROVE TokenInv'
  BY <1>9 DEF AttemptFails, login, Retried, Escape
<1>10. ASSUME NEW c \in Calls, PauseEnds(c) PROVE TokenInv'
  BY <1>10 DEF PauseEnds, login
<1>11. CASE Tick
  BY <1>11 DEF Tick, Older
<1>12. CASE UNCHANGED vars
  BY <1>12 DEF vars, call, login
<1> QED BY <1>1, <1>2, <1>3, <1>4, <1>5, <1>6, <1>7, <1>8, <1>9, <1>10, <1>11,
           <1>12 DEF Next

\* Every step keeps the invariant.
LEMMA InvNext == IInv /\ [Next]_vars => IInv'
  BY TypedNext, SentNext, SignInNext, LostNext, TokenNext DEF IInv

\* The strengthened invariant the theorems below rest on.
THEOREM Inductive == Spec => []IInv
<1> QED BY InitInv, InvNext, PTL DEF Spec

\* Every variable keeps its type: tokens under way are at most Timeout old, and
\* no call sends more than Retries + 1 requests.
THEOREM TypeCorrect == Spec => []TypeOK
<1>1. IInv => TypeOK
  BY Times DEF IInv, Typed, SentInv, SignInInv, TokenInv, TypeOK, TokenCap
<1> QED BY <1>1, Inductive, PTL

-----------------------------------------------------------------------------
(* Safety. *)

\* The first request of a call bears a token that has not expired, for any
\* Margin that is no less than Timeout.
THEOREM Honoured == Spec => SentTokenHonoured
<1> DEFINE Good(c) == pc'[c] = "request" /\ pc[c] # "request" /\ sent'[c] = 1 =>
                       token' # None /\ token' <= Lifetime
<1>1. IInv /\ [Next]_vars => \A d \in Calls : Good(d)
  <2> SUFFICES ASSUME IInv, [Next]_vars, NEW d \in Calls PROVE Good(d)
    OBVIOUS
  <2> USE Times DEF IInv, Typed, Goes, Kinds, Running, SigningIn, Ended
  <2>1. ASSUME NEW c \in Calls, NEW k \in Kinds, Start(c, k) PROVE Good(d)
    <3>1. CASE k = "signin" \/ Expired
      BY <2>1, <3>1 DEF Start
    <3>2. CASE ~(k = "signin" \/ Expired)
      BY <2>1, <3>2 DEF Start, login, Expired, TokenInv
    <3> QED BY <3>1, <3>2
  <2>2. ASSUME NEW c \in Calls, SignInGoesOn(c) PROVE Good(d)
    BY <2>2 DEF SignInGoesOn
  <2>3. ASSUME NEW c \in Calls, CloudIssues(c) PROVE Good(d)
    BY <2>3 DEF CloudIssues
  <2>4. ASSUME NEW c \in Calls, SignInDone(c) PROVE Good(d)
    BY <2>4 DEF SignInDone, SignInInv
  <2>5. ASSUME NEW c \in Calls, SignInFails(c) PROVE Good(d)
    BY <2>5 DEF SignInFails
  <2>6. ASSUME NEW c \in Calls, CloudActs(c) PROVE Good(d)
    BY <2>6 DEF CloudActs
  <2>7. ASSUME NEW c \in Calls, Answered(c) PROVE Good(d)
    BY <2>7 DEF Answered
  <2>8. ASSUME NEW c \in Calls, Refused(c) PROVE Good(d)
    BY <2>8 DEF Refused
  <2>9. ASSUME NEW c \in Calls, AttemptFails(c) PROVE Good(d)
    BY <2>9 DEF AttemptFails, Retried, Escape
  <2>10. ASSUME NEW c \in Calls, PauseEnds(c) PROVE Good(d)
    BY <2>10 DEF PauseEnds, SentInv
  <2>11. CASE Tick
    BY <2>11 DEF Tick
  <2>12. CASE UNCHANGED vars
    BY <2>12 DEF vars, call
  <2> QED BY <2>1, <2>2, <2>3, <2>4, <2>5, <2>6, <2>7, <2>8, <2>9, <2>10, <2>11,
             <2>12 DEF Next
<1>2. IInv /\ [Next]_vars =>
        [\A c \in Calls :
           pc'[c] = "request" /\ pc[c] # "request" /\ sent'[c] = 1 =>
             token' # None /\ token' <= Lifetime]_vars
  BY <1>1
<1> HIDE DEF Good
<1> QED BY <1>2, Inductive, PTL DEF Spec, SentTokenHonoured

\* A command is carried out once at most, a session registered Retries + 1
\* times at most, however late the cloud acts.
THEOREM ActedOnce == Spec => []ActedAtMost
<1>1. IInv => ActedAtMost
  <2> SUFFICES ASSUME IInv, NEW c \in Calls
               PROVE  Cardinality(acted[c])
                        <= (IF kind[c] = "write" THEN 1 ELSE Retries + 1)
    BY DEF ActedAtMost
  <2> DEFINE n == IF kind[c] = "write" THEN 1 ELSE Retries + 1
  <2>1. n \in Nat /\ n > 0 /\ acted[c] \subseteq 1..n
    BY Times DEF IInv, Typed, SentInv
  <2>2. IsFiniteSet(1..n) /\ Cardinality(1..n) = n
    BY <2>1, FS_Interval
  <2>3. Cardinality(acted[c]) <= Cardinality(1..n)
    BY <2>1, <2>2, FS_Subset
  <2> QED BY <2>2, <2>3
<1> QED BY <1>1, Inductive, PTL

\* Once a request is out, a lost answer ends a call with CloudError, unless it
\* is a command's; other errors are of calls that have sent nothing.
THEOREM LostCaught == Spec => []LostAnswersAreCloudErrors
<1>1. IInv => LostAnswersAreCloudErrors
  BY DEF IInv, Typed, SentInv, LostInv, LostAnswersAreCloudErrors
<1> QED BY <1>1, Inductive, PTL
-----------------------------------------------------------------------------
(* How long a call lasts. *)

\* Twice the pauses before the n-th attempt, without a division.
Pauses(n) == Backoff * (n * (n - 1))

\* The n-th pause lengthens the pauses by Backoff * n.
LEMMA PausesGrow ==
  ASSUME NEW n \in Nat
  PROVE  Pauses(n + 1) = Pauses(n) + 2 * (Backoff * n)
  BY Times DEF Pauses

\* Multiplying by a natural number keeps the order.
LEMMA Product ==
  ASSUME NEW a \in Nat, NEW b \in Nat, NEW k \in Nat, a <= b
  PROVE  k * a <= k * b
<1>1. b - a \in Nat /\ b = a + (b - a)
  OBVIOUS
<1>2. k * b = k * a + k * (b - a)
  BY <1>1
<1>3. k * (b - a) \in Nat /\ k * a \in Nat
  BY <1>1
<1> QED BY <1>2, <1>3

\* More attempts pause no less.
LEMMA PausesBounded ==
  ASSUME NEW n \in Nat, n > 0, n <= Retries + 1
  PROVE  /\ Pauses(n) \in Nat /\ Pauses(Retries + 1) \in Nat
         /\ Pauses(n) <= Pauses(Retries + 1)
<1> DEFINE r == Retries + 1
<1>1. r \in Nat /\ r - 1 \in Nat /\ n - 1 \in Nat /\ n <= r /\ n - 1 <= r - 1
  BY Times
<1>2. n * (n - 1) <= n * (r - 1)
  BY <1>1, Product
<1>3. (r - 1) * n <= (r - 1) * r
  BY <1>1, Product
<1>4. n * (n - 1) \in Nat /\ r * (r - 1) \in Nat
  BY <1>1
<1>5. n * (r - 1) = (r - 1) * n /\ r * (r - 1) = (r - 1) * r
  BY <1>1
<1>6. n * (n - 1) <= r * (r - 1)
  BY <1>1, <1>2, <1>3, <1>4, <1>5
<1>7. Backoff * (n * (n - 1)) <= Backoff * (r * (r - 1))
  BY <1>4, <1>6, Product, Times
<1> QED BY <1>4, <1>7, Times DEF Pauses

\* Half of the pauses is what Longest counts.
LEMMA LongestTwice ==
  ASSUME NEW a \in Nat,
         2 * a <= 6 * Timeout + 2 * ((Retries + 1) * Timeout) + Pauses(Retries + 1)
  PROVE  a <= Longest
<1> DEFINE t == (Retries + 1) * Timeout
           p == Backoff * Retries * (Retries + 1)
<1>1. t \in Nat /\ p \in Nat
  BY Times
<1>2. Pauses(Retries + 1) = p
  BY Times DEF Pauses
<1>3. Longest = 3 * Timeout + t + (p \div 2)
  BY DEF Longest
<1> HIDE DEF t, p
<1>4. 2 * a <= 6 * Timeout + 2 * t + p
  BY <1>2 DEF t
<1> QED BY <1>1, <1>3, <1>4, Times

\* How long a call has lasted at a stage, with n requests sent.
Stage(p, n, a, w) ==
  /\ p = "login" => a <= w
  /\ p = "jwt" => a <= Timeout + w
  /\ p = "sso" => a <= 2 * Timeout + w
  /\ p = "request" =>
       2 * a <= 6 * Timeout + 2 * ((n - 1) * Timeout) + Pauses(n) + 2 * w
  /\ p = "pause" => 2 * a <= 6 * Timeout + 2 * (n * Timeout) + Pauses(n) + 2 * w
  /\ p \in SigningIn \cup {"request"} => w <= Timeout
  /\ p = "pause" => w <= Backoff * n

\* Where a call stands bounds how long it has lasted.
AgeInv(c) == Stage(pc[c], sent[c], age[c], wait[c]) /\ age[c] <= Longest

\* No stage outlasts Longest.
LEMMA StageInTime ==
  ASSUME NEW p \in Running, NEW n \in Nat, NEW a \in Nat, NEW w \in Nat,
         Stage(p, n, a, w),
         p \in {"request", "pause"} => n > 0, n <= Retries + 1,
         p = "pause" => n <= Retries
  PROVE  a <= Longest
<1>1. CASE p \in SigningIn
  <2>1. Pauses(Retries + 1) \in Nat
    BY PausesBounded, Times DEF Pauses
  <2>2. (Retries + 1) * Timeout \in Nat /\ a <= 3 * Timeout
    BY <1>1, Times DEF Stage, SigningIn
  <2> QED BY <2>1, <2>2, LongestTwice, Times
<1>2. CASE p = "request"
  <2>1. /\ Pauses(n) \in Nat /\ Pauses(Retries + 1) \in Nat
        /\ Pauses(n) <= Pauses(Retries + 1)
    BY <1>2, PausesBounded
  <2>2. Timeout * n <= Timeout * (Retries + 1)
    BY Product, Times
  <2>3. /\ n * Timeout \in Nat /\ (n - 1) * Timeout = n * Timeout - Timeout
        /\ n * Timeout <= (Retries + 1) * Timeout
        /\ (Retries + 1) * Timeout \in Nat
    BY <2>2, Times
  <2>4. 2 * a <= 6 * Timeout + 2 * ((n - 1) * Timeout) + Pauses(n) + 2 * w
        /\ w <= Timeout
    BY <1>2 DEF Stage
  <2>5. 2 * a <= 6 * Timeout + 2 * ((Retries + 1) * Timeout) + Pauses(Retries + 1)
    BY <2>1, <2>3, <2>4, Times
  <2> QED BY <2>5, LongestTwice
<1>3. CASE p = "pause"
  <2>1. n + 1 \in Nat /\ n + 1 > 0 /\ n + 1 <= Retries + 1
    BY <1>3, Times
  <2>2. /\ Pauses(n + 1) \in Nat /\ Pauses(Retries + 1) \in Nat
        /\ Pauses(n + 1) <= Pauses(Retries + 1)
    BY <2>1, PausesBounded
  <2>3. Pauses(n + 1) = Pauses(n) + 2 * (Backoff * n)
    BY PausesGrow
  <2>4. Timeout * n <= Timeout * (Retries + 1)
    BY Product, Times
  <2>5. /\ n * Timeout \in Nat /\ n * Timeout <= (Retries + 1) * Timeout
        /\ (Retries + 1) * Timeout \in Nat /\ Backoff * n \in Nat
    BY <2>4, Times
  <2>6. 2 * a <= 6 * Timeout + 2 * (n * Timeout) + Pauses(n) + 2 * w
        /\ w <= Backoff * n
    BY <1>3 DEF Stage
  <2>7. Pauses(n) \in Nat
    BY <1>3, PausesBounded, Times
  <2>8. 2 * a <= 6 * Timeout + 2 * ((Retries + 1) * Timeout) + Pauses(Retries + 1)
    BY <2>2, <2>3, <2>5, <2>6, <2>7, Times
  <2> QED BY <2>8, LongestTwice
<1> QED BY <1>1, <1>2, <1>3 DEF Running

\* Every step keeps each call in time for its stage.
LEMMA StageNext ==
  IInv /\ (\A d \in Calls : AgeInv(d)) /\ [Next]_vars =>
    \A d \in Calls : /\ Stage(pc[d], sent[d], age[d], wait[d])'
                     /\ pc'[d] \notin Running => age'[d] <= Longest
<1> SUFFICES ASSUME IInv, \A d \in Calls : AgeInv(d), [Next]_vars, NEW d \in Calls
             PROVE  /\ Stage(pc[d], sent[d], age[d], wait[d])'
                    /\ pc'[d] \notin Running => age'[d] <= Longest
  OBVIOUS
<1>0. /\ Stage(pc[d], sent[d], age[d], wait[d]) /\ age[d] <= Longest
      /\ SentInv(d) /\ sent[d] \in Nat /\ age[d] \in Nat /\ wait[d] \in Nat
      /\ kind \in [Calls -> Kinds]
  BY DEF IInv, Typed, AgeInv
<1>01. 0 <= Longest /\ Pauses(1) = 0 /\ Longest \in Nat /\ Pauses(sent[d]) \in Int
  BY <1>0, Times DEF Pauses, Longest
<1> DEFINE Same == /\ pc'[d] = pc[d] /\ sent'[d] = sent[d]
                   /\ age'[d] = age[d] /\ wait'[d] = wait[d]
           Goal == /\ Stage(pc'[d], sent'[d], age'[d], wait'[d])
                   /\ pc'[d] \notin Running => age'[d] <= Longest
<1>s. ASSUME Same PROVE Goal
  BY <1>0, <1>s
<1>g. ASSUME NEW c \in Calls, NEW p, NEW n, Goes(c, p, n), c # d, age'[d] = age[d]
      PROVE Same
  BY <1>g DEF Goes, IInv, Typed
<1>h. ASSUME NEW p, NEW n, Goes(d, p, n)
      PROVE  pc'[d] = p /\ sent'[d] = n /\ wait'[d] = 0
  BY <1>h DEF Goes, IInv, Typed
<1>1. ASSUME NEW c \in Calls, NEW k \in Kinds, Start(c, k) PROVE Goal
  <2>1. age'[c] = 0 /\ (c # d => age'[d] = age[d])
    BY <1>1 DEF Start, IInv, Typed
  <2>2. Goes(c, "login", 0) \/ Goes(c, "request", 1)
    BY <1>1 DEF Start
  <2>3. CASE c = d
    BY <1>h, <2>1, <2>2, <2>3, <1>01, Times DEF Stage, SigningIn
  <2> QED BY <1>g, <1>s, <2>1, <2>2, <2>3
<1>2. ASSUME NEW c \in Calls, SignInGoesOn(c) PROVE Goal
  <2>1. age' = age
    BY <1>2 DEF SignInGoesOn
  <2>2. CASE c = d /\ pc[d] = "login" /\ Goes(d, "jwt", 0)
    BY <1>h, <2>1, <2>2, <1>0, Times DEF Stage, SigningIn
  <2>3. CASE c = d /\ pc[d] = "jwt" /\ Goes(d, "sso", 0)
    BY <1>h, <2>1, <2>3, <1>0, Times DEF Stage, SigningIn
  <2>4. CASE c # d
    BY <1>g, <1>s, <1>2, <2>1, <2>4 DEF SignInGoesOn
  <2> QED BY <1>2, <2>2, <2>3, <2>4 DEF SignInGoesOn
<1>3. ASSUME NEW c \in Calls, CloudIssues(c) PROVE Goal
  BY <1>3, <1>s DEF CloudIssues
<1>4. ASSUME NEW c \in Calls, SignInDone(c) PROVE Goal
  <2>1. age' = age
    BY <1>4 DEF SignInDone
  <2>2. Goes(c, "ok", 0) \/ Goes(c, "request", 1)
    BY <1>4 DEF SignInDone
  <2>3. CASE c = d
    BY <1>h, <2>1, <2>2, <2>3, <1>0, <1>01, <1>4, Times
       DEF Stage, SigningIn, SignInDone
  <2> QED BY <1>g, <1>s, <2>1, <2>2, <2>3
<1>5. ASSUME NEW c \in Calls, SignInFails(c) PROVE Goal
  <2>1. age' = age
    BY <1>5 DEF SignInFails
  <2>2. PICK p, n : Goes(c, p, n) /\ p \in {"AuthError", "network", "malformed"}
    BY <1>5, Zenon DEF SignInFails
  <2>3. CASE c = d
    BY <1>h, <2>1, <2>2, <2>3, <1>0, Times DEF Stage, SigningIn
  <2> QED BY <1>g, <1>s, <2>1, <2>2, <2>3
<1>6. ASSUME NEW c \in Calls, CloudActs(c) PROVE Goal
  BY <1>6, <1>s DEF CloudActs
<1>7. ASSUME NEW c \in Calls, Answered(c) PROVE Goal
  <2>1. age' = age
    BY <1>7 DEF Answered
  <2>2. PICK p, n : Goes(c, p, n) /\ p = "ok"
    BY <1>7, Zenon DEF Answered
  <2>3. CASE c = d
    BY <1>h, <2>1, <2>2, <2>3, <1>0, Times DEF Stage, SigningIn
  <2> QED BY <1>g, <1>s, <2>1, <2>2, <2>3
<1>8. ASSUME NEW c \in Calls, Refused(c) PROVE Goal
  <2>1. age' = age
    BY <1>8 DEF Refused
  <2>2. PICK p, n : Goes(c, p, n) /\ p \in {"CloudError", "malformed"}
    BY <1>8, Zenon DEF Refused
  <2>3. CASE c = d
    BY <1>h, <2>1, <2>2, <2>3, <1>0, Times DEF Stage, SigningIn
  <2> QED BY <1>g, <1>s, <2>1, <2>2, <2>3
<1>9. ASSUME NEW c \in Calls, AttemptFails(c) PROVE Goal
  <2>1. age' = age /\ pc[c] = "request"
    BY <1>9 DEF AttemptFails
  <2>2. PICK p : Goes(c, p, sent[c]) /\ p \in {"pause", "network", "CloudError"}
    BY <1>9, Zenon DEF AttemptFails, Escape
  <2>3. CASE c = d
    <3>1. (sent[d] - 1) * Timeout = sent[d] * Timeout - Timeout
      BY <1>0, Times
    <3>2. sent[d] * Timeout \in Nat /\ Backoff * sent[d] \in Nat
      BY <1>0, Times
    <3>3. 2 * age[d] <= 6 * Timeout + 2 * (sent[d] * Timeout) + Pauses(sent[d])
      BY <2>1, <2>3, <1>0, <1>01, <3>1, <3>2, Times DEF Stage
    <3>4. /\ pc'[d] = p /\ sent'[d] = sent[d] /\ wait'[d] = 0
          /\ age'[d] = age[d]
      BY <1>h, <2>1, <2>2, <2>3
    <3>5. CASE p = "pause"
      BY <3>2, <3>3, <3>4, <3>5, <1>0, <1>01, Times DEF Stage, SigningIn, Running
    <3>6. CASE p # "pause"
      BY <2>2, <3>4, <3>6, <1>0, Times DEF Stage, SigningIn, Running
    <3> QED BY <3>5, <3>6
  <2> QED BY <1>g, <1>s, <2>1, <2>2, <2>3
<1>10. ASSUME NEW c \in Calls, PauseEnds(c) PROVE Goal
  <2>1. age' = age /\ pc[c] = "pause" /\ Goes(c, "request", sent[c] + 1)
    BY <1>10 DEF PauseEnds
  <2>2. CASE c = d
    <3>1. Pauses(sent[d] + 1) = Pauses(sent[d]) + 2 * (Backoff * sent[d])
      BY <1>0, PausesGrow
    <3>2. Pauses(sent[d] + 1) \in Int /\ sent[d] * Timeout \in Nat
          /\ Backoff * sent[d] \in Nat
      BY <1>0, Times DEF Pauses
    <3>3. 2 * age[d] <= 6 * Timeout + 2 * (sent[d] * Timeout) + Pauses(sent[d] + 1)
      BY <2>1, <2>2, <1>0, <1>01, <3>1, <3>2, Times DEF Stage
    <3>4. (sent[d] + 1) - 1 = sent[d]
      BY <1>0
    <3>5. /\ pc'[d] = "request" /\ sent'[d] = sent[d] + 1 /\ wait'[d] = 0
          /\ age'[d] = age[d]
      BY <1>h, <2>1, <2>2
    <3> QED BY <3>2, <3>3, <3>4, <3>5, <1>0, Times DEF Stage, SigningIn, Running
  <2> QED BY <1>g, <1>s, <2>1, <2>2
<1>11. CASE Tick
  <2>1. pc'[d] = pc[d] /\ sent'[d] = sent[d]
    BY <1>11 DEF Tick
  <2>2. CASE pc[d] \in Running
    <3>1. age'[d] = age[d] + 1 /\ wait'[d] = wait[d] + 1 /\ wait[d] < Limit(d)
      BY <1>11, <2>2 DEF Tick, Older
    <3>2. Backoff * sent[d] \in Nat /\ (sent[d] - 1) * Timeout \in Int
          /\ sent[d] * Timeout \in Nat
      BY <1>0, Times
    <3> QED BY <2>1, <2>2, <3>1, <3>2, <1>0, <1>01, Times
            DEF Stage, Limit, Running, SigningIn
  <2>3. CASE pc[d] \notin Running
    BY <1>11, <1>s, <2>1, <2>3 DEF Tick, Older
  <2> QED BY <2>2, <2>3
<1>12. CASE UNCHANGED vars
  BY <1>12, <1>s DEF vars, call
<1>13. Goal
  BY <1>1, <1>2, <1>3, <1>4, <1>5, <1>6, <1>7, <1>8, <1>9, <1>10, <1>11, <1>12
     DEF Next
<1> QED BY <1>13

\* However the cloud stalls, a call comes back within Longest.
THEOREM InTime == Spec => []CallBounded
<1> DEFINE Aged == \A c \in Calls : AgeInv(c)
<1>1. Init => Aged
  <2>1. 0 <= Longest /\ Pauses(0) = 0
    BY Times DEF Longest, Pauses
  <2> QED BY <2>1, Times DEF Init, AgeInv, Stage, SigningIn
<1>2. IInv /\ Aged /\ [Next]_vars => IInv' /\ Aged'
  <2> SUFFICES ASSUME IInv, Aged, [Next]_vars PROVE IInv' /\ Aged'
    OBVIOUS
  <2>2. IInv'
    BY InvNext
  <2> SUFFICES ASSUME NEW d \in Calls PROVE AgeInv(d)'
    BY <2>2
  <2>1. /\ Stage(pc[d], sent[d], age[d], wait[d])'
        /\ pc'[d] \notin Running => age'[d] <= Longest
    BY StageNext
  <2>3. /\ sent'[d] \in Nat /\ age'[d] \in Nat /\ wait'[d] \in Nat
        /\ SentInv(d)'
    BY <2>2 DEF IInv, Typed
  <2>4. CASE pc'[d] \in Running
    <3>1. age'[d] <= Longest
      BY <2>1, <2>3, <2>4, StageInTime DEF SentInv
    <3> QED BY <2>1, <3>1 DEF AgeInv
  <2> QED BY <2>1, <2>4 DEF AgeInv
<1>3. Aged => CallBounded
  BY DEF AgeInv, CallBounded
<1> HIDE DEF Aged
<1> QED BY <1>1, <1>2, <1>3, InitInv, PTL DEF Spec
=============================================================================
