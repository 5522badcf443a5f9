------------------------------ MODULE HttpClient -----------------------------
(***************************************************************************)
(* The client of the Ayla cloud (ayla_client.py), which every coordinator  *)
(* of an entry shares: one access token, renewed by the call that finds it *)
(* about to expire, and requests that are tried again while the cloud      *)
(* answers with gateway errors or not at all.  A call is one coroutine;    *)
(* others run whenever it awaits an answer or pauses.  The cloud may carry *)
(* a request out although its answer is lost, even when nobody waits for   *)
(* it any more.                                                            *)
(***************************************************************************)
EXTENDS Naturals, FiniteSets

CONSTANTS
  Calls,     \* calls that may run at once
  Timeout,   \* CLOUD_HTTP_TIMEOUT
  Backoff,   \* CLOUD_HTTP_RETRY_BACKOFF
  Retries,   \* CLOUD_HTTP_RETRY_COUNT
  Margin,    \* how long before its expiry a token is renewed
  Lifetime,  \* expires_in
  None

ASSUME TimeAssumption ==
  /\ Timeout \in Nat \ {0} /\ Backoff \in Nat /\ Retries \in Nat
  /\ Margin \in Nat /\ Timeout <= Margin
  /\ Lifetime \in Nat /\ Timeout <= Lifetime
  /\ None \notin Nat

VARIABLES
  kind,    \* what a call asks for
  pc,      \* what it awaits, or how it ended
  sent,    \* requests it has sent
  wait,    \* how long this await has lasted
  age,     \* how long the call has lasted
  issued,  \* the age of the token that the cloud issues to its sign-in
  acted,   \* those of its requests that the cloud has carried out
  token,   \* the age of _access_token
  expiry   \* what is left until _expires_at

call == <<kind, pc, sent, wait, age, issued, acted>>
login == <<token, expiry>>
vars == <<call, login>>

\* Reads are async_get_properties, async_get_devices and
\* async_get_property_resilient; session is async_post_cloud_session, write
\* async_set_property_value, and signin a plain async_authenticate.
Kinds == {"read", "session", "write", "signin"}
Writes == {"session", "write"}
SigningIn == {"login", "jwt", "sso"}
Running == SigningIn \cup {"request", "pause"}
\* CloudError and AuthError are the client's own errors; a lost or late answer
\* may also escape as it is (network), and so may the failure to read one that
\* is malformed.
Ended == {"ok", "CloudError", "AuthError", "network", "malformed"}

\* The longest that a call can last: the three requests of a sign-in, every
\* attempt, and the pauses between them.
Longest == 3 * Timeout + (Retries + 1) * Timeout
           + (Backoff * Retries * (Retries + 1)) \div 2

\* The age of a token is counted up to here.
TokenCap == Lifetime + 1

\* The values each part of the state may take.
TypeOK ==
  /\ kind \in [Calls -> Kinds]
  /\ pc \in [Calls -> {"idle"} \cup Running \cup Ended]
  /\ sent \in [Calls -> 0..(Retries + 1)]
  /\ wait \in [Calls -> Nat] /\ age \in [Calls -> Nat]
  /\ issued \in [Calls -> 0..Timeout \cup {None}]
  /\ acted \in [Calls -> SUBSET (1..(Retries + 1))]
  /\ token \in 0..TokenCap \cup {None}
  /\ expiry \in 0..Lifetime

\* Call c goes to a stage, where it has sent n requests.
Goes(c, stage, n) ==
  /\ pc' = [pc EXCEPT ![c] = stage]
  /\ wait' = [wait EXCEPT ![c] = 0]
  /\ sent' = [sent EXCEPT ![c] = n]

-----------------------------------------------------------------------------
(* Signing in. *)

\* Mutant of Expired: a token is used up to the end of its life.
ExpiredAtEnd == token = None \/ expiry = 0

\* async_ensure_auth.
Expired == token = None \/ expiry < Margin

\* A call begins.
Start(c, k) ==
  /\ pc[c] \notin Running
  /\ kind' = [kind EXCEPT ![c] = k]
  /\ age' = [age EXCEPT ![c] = 0]
  /\ issued' = [issued EXCEPT ![c] = None]
  /\ acted' = [acted EXCEPT ![c] = {}]
  /\ IF k = "signin" \/ Expired THEN Goes(c, "login", 0) ELSE Goes(c, "request", 1)
  /\ UNCHANGED login

\* _gigya_login_and_jwt: the login, then the JWT.
SignInGoesOn(c) ==
  /\ \/ pc[c] = "login" /\ Goes(c, "jwt", 0)
     \/ pc[c] = "jwt" /\ Goes(c, "sso", 0)
  /\ UNCHANGED <<kind, age, issued, acted, login>>

\* The cloud issues a token: its life begins.
CloudIssues(c) ==
  /\ pc[c] = "sso" /\ issued[c] = None
  /\ issued' = [issued EXCEPT ![c] = 0]
  /\ UNCHANGED <<kind, pc, sent, wait, age, acted, login>>

\* _ayla_sso_sign_in: the token replaces the one that is there, even one issued
\* later to another call, and _expires_at counts from the answer.
SignInDone(c) ==
  /\ pc[c] = "sso" /\ issued[c] # None
  /\ token' = issued[c]
  /\ expiry' = Lifetime
  /\ IF kind[c] = "signin" THEN Goes(c, "ok", 0) ELSE Goes(c, "request", 1)
  /\ UNCHANGED <<kind, age, issued, acted>>

\* An answer that refuses is an AuthError; one that is lost, late or malformed
\* is caught by nobody, and not tried again.
SignInFails(c) ==
  /\ pc[c] \in SigningIn
  /\ \E error \in {"AuthError", "network", "malformed"} : Goes(c, error, 0)
  /\ UNCHANGED <<kind, age, issued, acted, login>>

-----------------------------------------------------------------------------
(* Requests. *)

\* The cloud carries a request out, soon or late.
CloudActs(c) ==
  /\ kind[c] \in Writes
  /\ \E n \in 1..sent[c] \ acted[c] : acted' = [acted EXCEPT ![c] = @ \cup {n}]
  /\ UNCHANGED <<kind, pc, sent, wait, age, issued, login>>

\* The answer says it is done.
Answered(c) ==
  /\ pc[c] = "request"
  /\ kind[c] \in Writes => sent[c] \in acted[c]
  /\ Goes(c, "ok", sent[c])
  /\ UNCHANGED <<kind, age, issued, acted, login>>

\* The status is neither good nor transient, which for a write includes the
\* transient ones; or a good status comes with no JSON.  A write raises then
\* what the parser raises, and so do reads that find another shape of JSON.
Refused(c) ==
  /\ pc[c] = "request"
  /\ \/ Goes(c, "CloudError", sent[c])
     \/ kind[c] # "session" /\ Goes(c, "malformed", sent[c])
  /\ UNCHANGED <<kind, age, issued, acted, login>>

\* Mutants of Retried: commands too are tried again; one attempt too many.
RetriedWrites(c) == sent[c] <= Retries
RetriedOnceMore(c) == kind[c] # "write" /\ sent[c] <= Retries + 1

\* Everything that goes through _request_json is tried again, writes are not.
Retried(c) == kind[c] # "write" /\ sent[c] <= Retries

\* Mutant of Escape: TimeoutError is not caught.
EscapeRaw(c) == "network"

\* How a lost answer ends a call that is not tried again.
Escape(c) == IF kind[c] = "write" THEN "network" ELSE "CloudError"

\* The answer is lost or late, or a gateway answers with 429, 502, 503 or 504.
AttemptFails(c) ==
  /\ pc[c] = "request"
  /\ IF Retried(c) THEN Goes(c, "pause", sent[c]) ELSE Goes(c, Escape(c), sent[c])
  /\ UNCHANGED <<kind, age, issued, acted, login>>

\* The next attempt, with the token that is there now.
PauseEnds(c) ==
  /\ pc[c] = "pause"
  /\ wait[c] = Backoff * sent[c]
  /\ Goes(c, "request", sent[c] + 1)
  /\ UNCHANGED <<kind, age, issued, acted, login>>

-----------------------------------------------------------------------------
(* Time. *)

Limit(c) == IF pc[c] = "pause" THEN Backoff * sent[c] ELSE Timeout

Older(c, a) == IF pc[c] \in Running THEN a + 1 ELSE a

\* Awaits do not outlast their limits.
Tick ==
  /\ \A c \in Calls : pc[c] \in Running => wait[c] < Limit(c)
  /\ wait' = [c \in Calls |-> Older(c, wait[c])]
  /\ age' = [c \in Calls |-> Older(c, age[c])]
  /\ issued' = [c \in Calls |-> IF pc[c] = "sso" /\ issued[c] # None
                                THEN issued[c] + 1 ELSE issued[c]]
  /\ token' = IF token = None \/ token = TokenCap THEN token ELSE token + 1
  /\ expiry' = IF expiry = 0 THEN 0 ELSE expiry - 1
  /\ UNCHANGED <<kind, pc, sent, acted>>

Init ==
  /\ kind = [c \in Calls |-> "read"]
  /\ pc = [c \in Calls |-> "idle"]
  /\ sent = [c \in Calls |-> 0]
  /\ wait = [c \in Calls |-> 0]
  /\ age = [c \in Calls |-> 0]
  /\ issued = [c \in Calls |-> None]
  /\ acted = [c \in Calls |-> {}]
  /\ token = None
  /\ expiry = 0

Next ==
  \/ \E c \in Calls :
       \/ \E k \in Kinds : Start(c, k)
       \/ SignInGoesOn(c) \/ CloudIssues(c) \/ SignInDone(c) \/ SignInFails(c)
       \/ CloudActs(c) \/ Answered(c) \/ Refused(c) \/ AttemptFails(c)
       \/ PauseEnds(c)
  \/ Tick

Spec == Init /\ [][Next]_vars

-----------------------------------------------------------------------------
(* Safety. *)

\* The first request of a call bears a token that has not expired, although
\* _expires_at counts from the answer of the sign-in, not from the issue of the
\* token, and other calls replace the token meanwhile.
SentTokenHonoured ==
  [][\A c \in Calls :
       pc'[c] = "request" /\ pc[c] # "request" /\ sent'[c] = 1 =>
         token' # None /\ token' <= Lifetime]_vars

\* A command reaches the machine once at most ("a blind POST retry there could
\* brew two coffees"), a session is registered Retries + 1 times at most.
ActedAtMost ==
  \A c \in Calls :
    Cardinality(acted[c]) <= (IF kind[c] = "write" THEN 1 ELSE Retries + 1)

\* However the cloud stalls, a call comes back in time.
CallBounded == \A c \in Calls : age[c] <= Longest

\* Once a request is out, a lost or late answer ends a call of _request_json
\* with CloudError, which its callers expect.  What a sign-in lets through (its
\* answer lost, unreadable or a refusal) ends only calls of which the cloud has
\* carried out nothing, and will carry out nothing: none of their requests is
\* out.  A write's own lost answer, and datapoints of another shape, escape raw.
LostAnswersAreCloudErrors ==
  \A c \in Calls :
    \/ pc[c] = "AuthError"
    \/ pc[c] = "network" /\ kind[c] # "write"
    \/ pc[c] = "malformed" /\ kind[c] = "session"
    => sent[c] = 0 /\ acted[c] = {}
=============================================================================
