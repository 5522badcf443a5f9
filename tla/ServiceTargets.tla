--------------------------- MODULE ServiceTargets ---------------------------
(***************************************************************************)
(* Which machines a service call is for (_resolve_targets of __init__.py). *)
(* The devices, the entities and the areas of Home Assistant's registries  *)
(* are constants: a call reads them at one moment.                         *)
(***************************************************************************)
EXTENDS Naturals, Sequences, FiniteSets, SequencesExt

CONSTANTS
  Machines,     \* DSNs
  DeviceIds,    \* the device ids a call may carry, sorted: a sequence
  Identifiers,  \* the DSNs of a device, sorted; none of another's device
  AreaOfDevice,
  Entities,
  DeviceOf,     \* the device of an entity
  AreaOf,       \* the area of an entity, where it overrides its device's
  None

\* The device registry has one device for a DSN.
ASSUME IdentifierAssumption ==
  \A d, x \in ToSet(DeviceIds) :
    ToSet(Identifiers[d]) \cap ToSet(Identifiers[x]) # {} => d = x

\* The ids are those of a set; what is listed of a device is finite.
ASSUME DeviceAssumption ==
  /\ IsFiniteSet(Machines)
  /\ DeviceIds \in Seq(ToSet(DeviceIds)) /\ IsInjective(DeviceIds)
  /\ \A d \in ToSet(DeviceIds) : Identifiers[d] \in Seq(ToSet(Identifiers[d]))

Errors == {"no_machine_configured", "target_required", "machine_unavailable",
           "target_not_a_machine", "target_matched_no_machine"}

ASSUME NoError == None \notin Errors

\* What a call carries in its target: floors and labels are accepted, and
\* expanded by nobody.
NamesNothing(target) ==
  /\ target.devices = {} /\ target.entities = {} /\ target.areas = {}
  /\ ~target.floorOrLabel

\* _named_devices.
NamedDevices(target) ==
  target.devices
  \cup {DeviceOf[x] : x \in target.entities \cap Entities}
  \cup {d \in ToSet(DeviceIds) : AreaOfDevice[d] \in target.areas}
  \cup {DeviceOf[x] : x \in {y \in Entities : AreaOf[y] \in target.areas}}

\* Where the first DSN of a device stands that is among the known ones; 0 if
\* none is.
FirstKnown(known, d) == SelectInSeq(Identifiers[d], LAMBDA m : m \in DOMAIN known)

\* Mutant of Objection: a machine that is not set up is passed over.
ObjectionToForeign(known, target, d) ==
  IF Identifiers[d] = <<>> /\ d \in target.devices THEN "target_not_a_machine" ELSE None

\* Why a device that is named brings the whole call down.
Objection(known, target, d) ==
  CASE FirstKnown(known, d) # 0 -> None
    [] FirstKnown(known, d) = 0 /\ Identifiers[d] # <<>> -> "machine_unavailable"
    [] Identifiers[d] = <<>> /\ d \in target.devices -> "target_not_a_machine"
    [] OTHER -> None

Refusal(error) == [error |-> error, targets |-> <<>>]
Accepted(targets) == [error |-> None, targets |-> targets]

\* The numbers of a finite set, in their order.
InOrder(S) ==
  CHOOSE s \in [1..Cardinality(S) -> S] :
    \A i, j \in 1..Cardinality(S) : i < j => s[i] < s[j]

\* The coordinators a call is for, or the error it is refused with; known
\* gives the coordinator of each machine that is set up.  The devices that are
\* named are gone through in their order; a device is the machine of its first
\* DSN that is known, and no two devices share a DSN.
Resolve(known, target) ==
  LET named == {i \in DOMAIN DeviceIds : DeviceIds[i] \in NamedDevices(target)}
      objecting == {i \in named : Objection(known, target, DeviceIds[i]) # None}
      ours == {i \in named : FirstKnown(known, DeviceIds[i]) # 0}
      order == InOrder(ours)
      machine(d) == Identifiers[d][FirstKnown(known, d)]
  IN CASE DOMAIN known = {} -> Refusal("no_machine_configured")
       [] DOMAIN known # {} /\ NamesNothing(target) ->
            IF Cardinality(DOMAIN known) = 1
            THEN Accepted(<<known[CHOOSE m \in DOMAIN known : TRUE]>>)
            ELSE Refusal("target_required")
       [] OTHER ->
            CASE objecting # {} ->
                   Refusal(Objection(known, target, DeviceIds[Min(objecting)]))
              [] objecting = {} /\ ours = {} ->
                   Refusal("target_matched_no_machine")
              [] OTHER ->
                   Accepted([i \in DOMAIN order |-> known[machine(DeviceIds[order[i]])]])

-----------------------------------------------------------------------------
(* What a target means to the user who gave it. *)

Means(target, d) ==
  \/ d \in target.devices
  \/ AreaOfDevice[d] \in target.areas
  \/ \E x \in Entities :
       DeviceOf[x] = d /\ (x \in target.entities \/ AreaOf[x] \in target.areas)

\* A call must be refused if it is ambiguous, names a machine that is not
\* there, names something outright that is no machine, or matches nothing.
MustRefuse(present, target) ==
  IF NamesNothing(target) THEN Cardinality(present) # 1
  ELSE \/ \E d \in ToSet(DeviceIds) :
            /\ Means(target, d)
            /\ ToSet(Identifiers[d]) \cap present = {}
            /\ Identifiers[d] # <<>> \/ d \in target.devices
       \/ \A d \in ToSet(DeviceIds) :
            Means(target, d) => ToSet(Identifiers[d]) \cap present = {}

\* What a call that is accepted must reach: the lone machine, or one machine
\* of every device it means that has any, and nothing else.
Reaches(present, target, machines) ==
  IF NamesNothing(target) THEN machines = present
  ELSE /\ \A m \in machines :
            \E d \in ToSet(DeviceIds) : Means(target, d) /\ m \in ToSet(Identifiers[d])
       /\ \A d \in ToSet(DeviceIds) :
            Means(target, d) => Cardinality(ToSet(Identifiers[d]) \cap machines)
                                  = IF Identifiers[d] = <<>> THEN 0 ELSE 1

\* A call with this target is refused exactly when it must be, and reaches what
\* it means otherwise, each machine once.
Exact(known, present, target) ==
  LET resolved == Resolve(known, target)
      machines == {c[2] : c \in ToSet(resolved.targets)}
  IN IF MustRefuse(present, target) THEN resolved.error # None
     ELSE /\ resolved.error = None
          /\ Len(resolved.targets) = Cardinality(machines)
          /\ Reaches(present, target, machines)
=============================================================================
