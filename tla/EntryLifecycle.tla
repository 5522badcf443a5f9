--------------------------- MODULE EntryLifecycle ---------------------------
(***************************************************************************)
(* Config entries of the integration (__init__.py): one is set up, its     *)
(* coordinators published in hass.data, unloaded, set up again or removed, *)
(* while service calls look their machines up there and send to one after  *)
(* another.  Every entry is handled by Home Assistant, one step at a time; *)
(* entries and calls interleave wherever the code awaits.                  *)
(***************************************************************************)
EXTENDS ServiceTargets

CONSTANTS
  Entries,
  Account,        \* the machines that an entry's account may list
  CloudMachines,  \* those whose profile has uses_cloud_session
  Calls,          \* service calls that may run at once
  Targets         \* the targets a call may carry

ASSUME AccountAssumption == \A e \in Entries : Account[e] \subseteq Machines

VARIABLES
  state,      \* Home Assistant's state of an entry, and where its handler is
  coords,     \* the machines an entry has coordinators for
  published,  \* hass.data[DOMAIN]: the entries in the order they were put there
  services,   \* the three services are registered
  closed,     \* coordinators that have been shut down
  loaded,     \* history: the entry has been loaded since Home Assistant started
  goal,       \* the coordinators a call sends to, one after another
  done,       \* how many of them it has tried
  errors,     \* the failures among them, in order
  outcome,    \* how a call stands
  raised      \* what it raises: nothing or one failure

entries == <<state, coords, published, services, closed, loaded>>
calls == <<goal, done, errors, outcome, raised>>
vars == <<entries, calls>>

\* absent: not added, or deleted; ghost: deleted after an unload that failed.
\* retry: setup raised ConfigEntryNotReady, error: something else; stuck: the
\* platforms did not unload.
Unlisted == {"absent", "ghost"}
Idle == {"absent", "unloaded", "retry", "error"}
Running == {"forwarding", "loaded", "unloading"}
States == Unlisted \cup Idle \cup Running \cup {"setup", "stopping", "stuck"}

Coordinators == Entries \X Machines

\* The values each part of the state may take: a coordinator for a machine is
\* one of the account's, an entry is published once, and an error is that of a
\* coordinator which has been tried.
TypeOK ==
  /\ state \in [Entries -> States]
  /\ coords \in [Entries -> SUBSET Machines]
  /\ \A e \in Entries : coords[e] \subseteq Account[e]
  /\ published \in Seq(Entries) /\ IsInjective(published)
  /\ services \in BOOLEAN
  /\ closed \subseteq Coordinators
  /\ loaded \in [Entries -> BOOLEAN]
  /\ goal \in [Calls -> Seq(Coordinators)]
  /\ \A k \in Calls : done[k] \in 0..Len(goal[k])
  /\ errors \in [Calls -> Seq(Coordinators)]
  /\ outcome \in [Calls -> {"none", "sending", "refused", "tried"}]
  /\ raised \in [Calls -> Seq(Coordinators)]

-----------------------------------------------------------------------------
(* Setting up. *)

\* Home Assistant calls async_setup_entry: for an entry just added, at a
\* retry, or because the user reloads or enables it.
SetUp(e) ==
  /\ state[e] \in Idle
  /\ state' = [state EXCEPT ![e] = "setup"]
  /\ coords' = [coords EXCEPT ![e] = {}]
  /\ closed' = {c \in closed : c[1] # e}
  /\ UNCHANGED <<published, services, loaded, calls>>

\* The account lists no machine, the cloud or a first refresh fails, or
\* something else is raised: what was created is dropped.
SetUpFails(e) ==
  /\ state[e] = "setup"
  /\ \E s \in {"retry", "error"} : state' = [state EXCEPT ![e] = s]
  /\ coords' = [coords EXCEPT ![e] = {}]
  /\ UNCHANGED <<published, services, closed, loaded, calls>>

\* The coordinator of a machine has loaded its frames and refreshed.
Creates(e, m) ==
  /\ state[e] = "setup" /\ m \in Account[e] \ coords[e]
  /\ coords' = [coords EXCEPT ![e] = @ \cup {m}]

\* Mutant of CoordinatorReady: the entry is published with every coordinator.
CoordinatorReadyEach(e) ==
  /\ \E m \in Account[e] : Creates(e, m)
  /\ published' = Append(published, e)
  /\ \/ state' = [state EXCEPT ![e] = "forwarding"]
     \/ coords'[e] # Account[e] /\ UNCHANGED state
  /\ UNCHANGED <<services, closed, loaded, calls>>

\* After the last of the machines that the cloud lists, all the coordinators
\* are published and the platforms set up.
CoordinatorReady(e) ==
  /\ \E m \in Account[e] : Creates(e, m)
  /\ \/ /\ published' = Append(published, e)
        /\ state' = [state EXCEPT ![e] = "forwarding"]
     \/ coords'[e] # Account[e] /\ UNCHANGED <<published, state>>
  /\ UNCHANGED <<services, closed, loaded, calls>>

\* The platforms are set up: _register_services.
Forwarded(e) ==
  /\ state[e] = "forwarding"
  /\ state' = [state EXCEPT ![e] = "loaded"]
  /\ loaded' = [loaded EXCEPT ![e] = TRUE]
  /\ services' = TRUE
  /\ UNCHANGED <<coords, published, closed, calls>>

\* hass.data[DOMAIN].pop(entry.entry_id).
Pops(e) ==
  \E i \in DOMAIN published :
    published[i] = e /\ published' = RemoveAt(published, i)

\* Mutant of ForwardFails: the coordinators stay published.
ForwardFailsPublished(e) ==
  /\ state[e] = "forwarding"
  /\ \E s \in {"retry", "error"} : state' = [state EXCEPT ![e] = s]
  /\ coords' = [coords EXCEPT ![e] = {}]
  /\ UNCHANGED <<published, services, closed, loaded, calls>>

\* A platform raises.
ForwardFails(e) ==
  /\ state[e] = "forwarding"
  /\ \E s \in {"retry", "error"} : state' = [state EXCEPT ![e] = s]
  /\ coords' = [coords EXCEPT ![e] = {}]
  /\ Pops(e)
  /\ UNCHANGED <<services, closed, loaded, calls>>

-----------------------------------------------------------------------------
(* Unloading and removal. *)

Unload(e) ==
  /\ state[e] = "loaded"
  /\ state' = [state EXCEPT ![e] = "unloading"]
  /\ UNCHANGED <<coords, published, services, closed, loaded, calls>>

\* The platforms do not unload: the entry works on until it is deleted or
\* Home Assistant restarts.
UnloadFails(e) ==
  /\ state[e] = "unloading"
  /\ state' = [state EXCEPT ![e] = "stuck"]
  /\ UNCHANGED <<coords, published, services, closed, loaded, calls>>

\* The coordinators of e that async_shutdown still has to be called on.
Open(e) == {m \in coords[e] \cap CloudMachines : <<e, m>> \notin closed}

\* async_unload_entry goes on to the next coordinator, or is done.
ShutsNextDown(e) ==
  \/ /\ \E m \in Open(e) : closed' = closed \cup {<<e, m>>}
     /\ state' = [state EXCEPT ![e] = "stopping"]
     /\ UNCHANGED coords
  \/ /\ Open(e) = {}
     /\ state' = [state EXCEPT ![e] = "unloaded"]
     /\ coords' = [coords EXCEPT ![e] = {}]
     /\ UNCHANGED closed

\* Mutant of PlatformsUnloaded: the coordinators are popped by nobody.
PlatformsUnloadedOnly(e) ==
  /\ state[e] = "unloading"
  /\ ShutsNextDown(e)
  /\ UNCHANGED <<published, services, loaded, calls>>

\* The list is popped before the first coordinator is shut down.
PlatformsUnloaded(e) ==
  /\ state[e] = "unloading"
  /\ Pops(e)
  /\ ShutsNextDown(e)
  /\ UNCHANGED <<services, loaded, calls>>

\* One async_shutdown has returned.
ShutdownGoesOn(e) ==
  /\ state[e] = "stopping"
  /\ ShutsNextDown(e)
  /\ UNCHANGED <<published, services, loaded, calls>>

\* Mutant of Delete: the services go with any entry.
DeleteAnyway(e) ==
  /\ state[e] \in {"unloaded", "retry", "error", "stuck"}
  /\ state' = [state EXCEPT ![e] = IF @ = "stuck" THEN "ghost" ELSE "absent"]
  /\ loaded' = [loaded EXCEPT ![e] = FALSE]
  /\ services' = FALSE
  /\ UNCHANGED <<coords, published, closed, calls>>

\* The user deletes the entry; async_remove_entry looks for others.
Delete(e) ==
  /\ state[e] \in {"unloaded", "retry", "error", "stuck"}
  /\ state' = [state EXCEPT ![e] = IF @ = "stuck" THEN "ghost" ELSE "absent"]
  /\ loaded' = [loaded EXCEPT ![e] = FALSE]
  /\ services' = (services /\ \E x \in Entries \ {e} : state[x] \notin Unlisted)
  /\ UNCHANGED <<coords, published, closed, calls>>

-----------------------------------------------------------------------------
(* Service calls. *)

\* Where the first published entry stands that has a coordinator for machine
\* m; 0 if none has.
Holding(m) == SelectInSeq(published, LAMBDA e : m \in coords[e])

\* _all_coordinators: each machine that is set up, with the coordinator of the
\* entry that was published first.
AllCoordinators ==
  [m \in {x \in Machines : Holding(x) # 0} |-> <<published[Holding(m)], m>>]

\* A service is called and looks up its machines.
Call(k) ==
  /\ services
  /\ outcome[k] # "sending"
  /\ LET known == AllCoordinators
     IN \E resolved \in {Resolve(known, target) : target \in Targets} :
          /\ goal' = [goal EXCEPT ![k] = resolved.targets]
          /\ outcome' = [outcome EXCEPT ![k] =
               IF resolved.error = None THEN "sending" ELSE "refused"]
  /\ done' = [done EXCEPT ![k] = 0]
  /\ errors' = [errors EXCEPT ![k] = <<>>]
  /\ raised' = [raised EXCEPT ![k] = <<>>]
  /\ UNCHANGED entries

\* A call ends, and raises the first of its failures.
Ends(k) ==
  /\ outcome' = [outcome EXCEPT ![k] = "tried"]
  /\ raised' = [raised EXCEPT ![k] =
       IF errors'[k] = <<>> THEN <<>> ELSE <<Head(errors'[k])>>]

\* One machine has the command, or its failure is noted.
Tries(k, failed) ==
  /\ outcome[k] = "sending"
  /\ done' = [done EXCEPT ![k] = @ + 1]
  /\ errors' = [errors EXCEPT ![k] = IF failed THEN Append(@, goal[k][done[k] + 1]) ELSE @]

\* Mutant of SendEnds: the first failure ends the call.
SendEndsAtFailure(k) ==
  /\ \E failed \in BOOLEAN :
       /\ Tries(k, failed)
       /\ IF failed \/ done'[k] = Len(goal[k]) THEN Ends(k) ELSE UNCHANGED <<outcome, raised>>
  /\ UNCHANGED <<entries, goal>>

\* async_send_to_each.
SendEnds(k) ==
  /\ \E failed \in BOOLEAN : Tries(k, failed)
  /\ IF done'[k] = Len(goal[k]) THEN Ends(k) ELSE UNCHANGED <<outcome, raised>>
  /\ UNCHANGED <<entries, goal>>

\* Home Assistant restarts: hass.data and the services are gone, the entries
\* are there to be set up.
Restart ==
  /\ state' = [e \in Entries |-> IF state[e] \in Unlisted THEN "absent" ELSE "unloaded"]
  /\ coords' = [e \in Entries |-> {}]
  /\ published' = <<>> /\ services' = FALSE /\ closed' = {}
  /\ loaded' = [e \in Entries |-> FALSE]
  /\ goal' = [k \in Calls |-> <<>>] /\ errors' = [k \in Calls |-> <<>>]
  /\ done' = [k \in Calls |-> 0] /\ outcome' = [k \in Calls |-> "none"]
  /\ raised' = [k \in Calls |-> <<>>]

Init ==
  /\ state = [e \in Entries |-> "absent"]
  /\ coords = [e \in Entries |-> {}]
  /\ published = <<>>
  /\ services = FALSE
  /\ closed = {}
  /\ loaded = [e \in Entries |-> FALSE]
  /\ goal = [k \in Calls |-> <<>>]
  /\ done = [k \in Calls |-> 0]
  /\ errors = [k \in Calls |-> <<>>]
  /\ outcome = [k \in Calls |-> "none"]
  /\ raised = [k \in Calls |-> <<>>]

Next ==
  \/ \E e \in Entries :
       \/ SetUp(e) \/ SetUpFails(e) \/ CoordinatorReady(e)
       \/ Forwarded(e) \/ ForwardFails(e)
       \/ Unload(e) \/ UnloadFails(e) \/ PlatformsUnloaded(e) \/ ShutdownGoesOn(e)
       \/ Delete(e)
  \/ \E k \in Calls : Call(k) \/ SendEnds(k)
  \/ Restart

Spec == Init /\ [][Next]_vars

-----------------------------------------------------------------------------
(* Safety. *)

\* What hass.data holds are the entries that are set up ("the ghosts would be
\* counted as machines by every later service call"); one whose platforms did
\* not unload stays there, even when it is deleted.
NoGhosts ==
  \A e \in Entries :
    e \in ToSet(published) <=> state[e] \in Running \cup {"stuck", "ghost"}

\* While an entry that has once been loaded exists, its services do, through
\* reloads, failed ones too, and through the deletion of other entries
\* ("automations failed with Service not found").
ServicesHeld ==
  \A e \in Entries : loaded[e] => services

\* A call does not look up a coordinator that has been shut down ("a call
\* landing during the await would otherwise reach a coordinator whose session
\* is already closed").
LooksUpOpen ==
  [][\A k \in Calls :
       outcome[k] # "sending" /\ outcome'[k] = "sending" =>
         ToSet(goal'[k]) \cap closed = {}]_vars

\* Whatever the entries are doing, a call with this target would be refused
\* exactly when it must be, and reach what it means otherwise, each machine
\* once even when two entries hold it.
TargetsExact ==
  LET known == AllCoordinators
      present == {m \in Machines : \E e \in ToSet(published) : m \in coords[e]}
  IN \A target \in Targets : Exact(known, present, target)

\* A call that has ended tried every machine, and reports its first failure
\* ("one machine failing must not swallow the others").
AllTried ==
  \A k \in Calls : outcome[k] = "tried" =>
    /\ done[k] = Len(goal[k])
    /\ raised[k] = <<>> <=> errors[k] = <<>>
    /\ \A i \in DOMAIN goal[k] :
         raised[k] = <<goal[k][i]>> =>
           \A j \in 1..(i - 1) : goal[k][j] \notin ToSet(errors[k])
=============================================================================
