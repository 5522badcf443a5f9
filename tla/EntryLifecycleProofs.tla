------------------------ MODULE EntryLifecycleProofs ------------------------
(***************************************************************************)
(* Proofs, for any entries, accounts and registries, that hass.data holds  *)
(* the entries that are set up and no others, that the services stay while *)
(* an entry that has been loaded exists, that a call reaches what its      *)
(* target means and nothing that is shut down, and that it reports the     *)
(* first of its failures.                                                  *)
(***************************************************************************)
EXTENDS EntryLifecycle, SequenceTheorems, FiniteSetTheorems, WellFoundedInduction, TLAPS

\* What the proofs need of the types: the part of TypeOK about the entries.
Typed ==
  /\ state \in [Entries -> States]
  /\ published \in Seq(Entries) /\ IsInjective(published)
  /\ services \in BOOLEAN
  /\ \A c \in closed : c[1] \in Entries
  /\ loaded \in [Entries -> BOOLEAN]

\* An entry that has been loaded and deleted counts as loaded no more.
LoadedListed == \A e \in Entries : loaded[e] => state[e] \notin Unlisted

\* A coordinator that has been shut down is one of an entry being unloaded, or
\* not yet set up again.
ClosedStopped == \A c \in closed : state[c[1]] \in {"stopping", "unloaded", "absent"}

IInv == Typed /\ NoGhosts /\ ServicesHeld /\ LoadedListed /\ ClosedStopped

\* The part of TypeOK about the coordinators.
CoordsTyped ==
  /\ coords \in [Entries -> SUBSET Machines]
  /\ \A e \in Entries : coords[e] \subseteq Account[e]
  /\ closed \subseteq Coordinators

\* What is published is open: no coordinator that a call may look up has been
\* shut down ("Popped BEFORE the shutdown, not after").
PublishedOpen == \A c \in closed : c[1] \notin ToSet(published)

-----------------------------------------------------------------------------
(* Numbers and their order. *)

\* The numbers are well founded.
LEMMA NatFounded == IsWellFoundedOn({ss \in Nat \X Nat : ss[1] < ss[2]}, Nat)
BY NatLessThanWellFounded DEF OpToRel

\* Every set of numbers has a least one.
LEMMA LeastNat ==
  ASSUME NEW S, S \subseteq Nat, S # {}
  PROVE  /\ Min(S) \in S
         /\ \A n \in S : Min(S) <= n
<1> DEFINE R == {ss \in Nat \X Nat : ss[1] < ss[2]}
<1>1. IsWellFoundedOn(R, Nat)
  BY NatFounded
<1>2. \A m, n \in Nat : <<m, n>> \in R <=> m < n
  OBVIOUS
<1> HIDE DEF R
<1>3. PICK m \in S : \A n \in S : ~(<<n, m>> \in R)
  BY <1>1, WFMin
<1>4. ASSUME NEW n \in S PROVE m <= n
  <2>1. m \in Nat /\ n \in Nat
    OBVIOUS
  <2>2. ~(n < m)
    BY <1>2, <1>3, <2>1, Zenon
  <2> QED BY <2>1, <2>2
<1> QED BY <1>4 DEF Min

\* A set of numbers from 1 to n can be put in order.
LEMMA InOrderIs ==
  ASSUME NEW n \in Nat, NEW S \in SUBSET (1..n)
  PROVE  /\ Cardinality(S) \in Nat /\ IsFiniteSet(S)
         /\ InOrder(S) \in [1..Cardinality(S) -> S]
         /\ \A i, j \in 1..Cardinality(S) : i < j => InOrder(S)[i] < InOrder(S)[j]
         /\ \A i, j \in 1..Cardinality(S) : InOrder(S)[i] = InOrder(S)[j] => i = j
         /\ \A x \in S : \E i \in 1..Cardinality(S) : InOrder(S)[i] = x
<1> DEFINE c == Cardinality(S)
           below(x) == {y \in S : y <= x}
           rank == [x \in S |-> Cardinality(below(x))]
<1>0. S \subseteq Nat /\ \A x \in S : x \in 1..n
  OBVIOUS
<1>1. IsFiniteSet(S) /\ c \in Nat
  <2>1. IsFiniteSet(1..n)
    BY FS_Interval
  <2>2. IsFiniteSet(S)
    BY <2>1, FS_Subset
  <2> QED BY <2>2, FS_CardinalityType
<1>2. ASSUME NEW x \in S
      PROVE  /\ below(x) \in SUBSET S /\ IsFiniteSet(below(x))
             /\ rank[x] \in 1..c
  <2>1. below(x) \in SUBSET S /\ below(x) # {}
    BY <1>0
  <2>2. IsFiniteSet(below(x)) /\ Cardinality(below(x)) <= c
    BY <1>1, <2>1, FS_Subset
  <2>3. Cardinality(below(x)) \in Nat /\ Cardinality(below(x)) # 0
    BY <2>1, <2>2, FS_CardinalityType, FS_EmptySet
  <2> HIDE DEF below
  <2> QED BY <1>1, <2>1, <2>2, <2>3
<1>3. ASSUME NEW x \in S, NEW y \in S, x < y PROVE rank[x] < rank[y]
  <2>1. below(x) \in SUBSET below(y) /\ y \in below(y) /\ y \notin below(x)
    <3>1. x \in Nat /\ y \in Nat /\ \A z \in S : z \in Nat
      BY <1>0
    <3>2. \A z \in S : z <= x => z <= y
      BY <1>3, <3>1
    <3>3. ~(y <= x) /\ y <= y
      BY <1>3, <3>1
    <3> QED BY <3>2, <3>3, Zenon
  <2>2. IsFiniteSet(below(y)) /\ IsFiniteSet(below(x))
    BY <1>2
  <2>3. rank[x] = Cardinality(below(x)) /\ rank[y] = Cardinality(below(y))
    OBVIOUS
  <2> HIDE DEF below, rank
  <2>4. Cardinality(below(x)) <= Cardinality(below(y))
    BY <2>1, <2>2, FS_Subset
  <2>6. Cardinality(below(y)) # Cardinality(below(x))
    <3>1. Cardinality(below(y)) = Cardinality(below(x)) => below(y) = below(x)
      BY <2>1, <2>2, FS_Subset
    <3> QED BY <2>1, <3>1
  <2>5. rank[x] \in Nat /\ rank[y] \in Nat
    BY <1>1, <1>2
  <2> QED BY <2>3, <2>4, <2>5, <2>6
<1>4. ASSUME NEW x \in S, NEW y \in S, rank[x] = rank[y] PROVE x = y
  <2>1. ~(x < y) /\ ~(y < x) /\ x \in Nat /\ y \in Nat
    <3>1. rank[x] \in Nat /\ rank[y] \in Nat
      BY <1>2
    <3> HIDE DEF rank
    <3> QED BY <1>0, <1>3, <1>4, <3>1
  <2> QED BY <2>1
<1>5. rank \in Surjection(S, 1..c)
  <2>1. rank \in [S -> 1..c]
    BY <1>2
  <2>2. rank \in Injection(S, 1..c)
    <3> HIDE DEF rank
    <3> QED BY <1>4, <2>1 DEF Injection, IsInjective
  <2>3. IsFiniteSet(1..c) /\ Cardinality(1..c) = c
    <3> HIDE DEF c
    <3> QED BY <1>1, FS_Interval
  <2> HIDE DEF rank
  <2> QED BY <2>2, <2>3, FS_Injection
<1> HIDE DEF rank
<1> DEFINE s == [i \in 1..c |-> CHOOSE x \in S : rank[x] = i]
<1>6. \A i \in 1..c : s[i] \in S /\ rank[s[i]] = i
  BY <1>5 DEF Surjection
<1>7. s \in [1..c -> S] /\ \A i, j \in 1..c : i < j => s[i] < s[j]
  <2>1. s \in [1..c -> S]
    BY <1>6
  <2> HIDE DEF s
  <2>2. ASSUME NEW i \in 1..c, NEW j \in 1..c, i < j PROVE s[i] < s[j]
    <3>1. s[i] \in Nat /\ s[j] \in Nat /\ s[i] \in S /\ s[j] \in S
      BY <1>0, <1>6
    <3>2. rank[s[i]] = i /\ rank[s[j]] = j /\ i \in Nat /\ j \in Nat
      BY <1>1, <1>6
    <3>3. s[j] < s[i] => j < i
      BY <1>3, <3>1, <3>2
    <3> QED BY <2>2, <3>1, <3>2, <3>3
  <2> QED BY <2>1, <2>2
<1> DEFINE o == InOrder(S)
<1>8. o \in [1..c -> S] /\ \A i, j \in 1..c : i < j => o[i] < o[j]
  <2> HIDE DEF s
  <2> QED BY <1>7 DEF InOrder
<1> HIDE DEF o
<1>9. ASSUME NEW i \in 1..c, NEW j \in 1..c, o[i] = o[j] PROVE i = j
  <2>1. i \in Nat /\ j \in Nat /\ o[i] \in Nat /\ o[j] \in Nat
    <3>1. i \in Nat /\ j \in Nat
      BY <1>1
    <3>2. o[i] \in S /\ o[j] \in S
      BY <1>8
    <3> QED BY <1>0, <3>1, <3>2
  <2>2. ~(i < j) /\ ~(j < i)
    BY <1>8, <1>9, <2>1
  <2> QED BY <2>1, <2>2
<1>10. o \in Surjection(1..c, S)
  <2>1. o \in Injection(1..c, S)
    BY <1>8, <1>9 DEF Injection, IsInjective
  <2>2. Cardinality(1..c) = Cardinality(S)
    <3>1. Cardinality(1..c) = c
      <4> HIDE DEF c
      <4> QED BY <1>1, FS_Interval
    <3> QED BY <3>1
  <2> HIDE DEF c
  <2> QED BY <1>1, <2>1, <2>2, FS_Injection
<1>11. \A x \in S : \E i \in 1..c : o[i] = x
  BY <1>10 DEF Surjection
<1> QED BY <1>1, <1>8, <1>9, <1>11 DEF o

-----------------------------------------------------------------------------
(* What a call resolves to. *)

\* A device that is named is one that the target means.
LEMMA NamedMeans ==
  ASSUME NEW target, NEW d \in ToSet(DeviceIds)
  PROVE  d \in NamedDevices(target) <=> Means(target, d)
BY DEF NamedDevices, Means

\* The machine of a device is the first of its DSNs that is known.
LEMMA FirstKnownIs ==
  ASSUME NEW known, NEW d \in ToSet(DeviceIds)
  PROVE  /\ FirstKnown(known, d) = 0 <=> ToSet(Identifiers[d]) \cap DOMAIN known = {}
         /\ FirstKnown(known, d) # 0 =>
              Identifiers[d][FirstKnown(known, d)] \in ToSet(Identifiers[d]) \cap DOMAIN known
<1> DEFINE s == Identifiers[d]
           I == {i \in 1..Len(s) : s[i] \in DOMAIN known}
<1>1. FirstKnown(known, d) = IF I # {} THEN Min(I) ELSE 0
  BY DEF FirstKnown, SelectInSeq
<1>2. Len(s) \in Nat /\ DOMAIN s = 1..Len(s)
  BY DeviceAssumption
<1>3. I \subseteq Nat /\ 0 \notin I
  BY <1>2
<1>4. I # {} => Min(I) \in I
  <2> HIDE DEF I
  <2> QED BY <1>3, LeastNat
<1>5. I # {} <=> ToSet(s) \cap DOMAIN known # {}
  BY <1>2 DEF ToSet
<1>6. \A i \in I : s[i] \in ToSet(s) \cap DOMAIN known
  BY <1>2 DEF ToSet
<1> HIDE DEF I
<1> QED BY <1>1, <1>3, <1>4, <1>5, <1>6

\* known gives every machine a coordinator of its own.
Keyed(known) == \A m \in DOMAIN known : known[m][2] = m

Ours(known, target) ==
  {i \in DOMAIN DeviceIds :
     DeviceIds[i] \in NamedDevices(target) /\ FirstKnown(known, DeviceIds[i]) # 0}

Machine(known, d) == Identifiers[d][FirstKnown(known, d)]

Picked(known, target) ==
  [i \in DOMAIN InOrder(Ours(known, target)) |->
     known[Machine(known, DeviceIds[InOrder(Ours(known, target))[i]])]]

\* One machine is picked of every device that is named and has any, each once.
LEMMA PickedIs ==
  ASSUME NEW known, Keyed(known), NEW target
  PROVE  LET t == Picked(known, target)
             ours == Ours(known, target)
             machines == {c[2] : c \in ToSet(t)}
         IN /\ t \in Seq({known[m] : m \in DOMAIN known})
            /\ IsInjective(t)
            /\ Len(t) = Cardinality(machines)
            /\ ours = {} <=> t = <<>>
            /\ \A i \in ours : Machine(known, DeviceIds[i]) \in machines
            /\ \A m \in machines : \E i \in ours : m = Machine(known, DeviceIds[i])
<1> DEFINE t == Picked(known, target)
           ours == Ours(known, target)
           machines == {c[2] : c \in ToSet(t)}
           order == InOrder(ours)
           n == Cardinality(ours)
           mach(i) == Machine(known, DeviceIds[i])
<1>1. /\ DOMAIN DeviceIds = 1..Len(DeviceIds) /\ Len(DeviceIds) \in Nat
      /\ \A i, j \in DOMAIN DeviceIds : DeviceIds[i] = DeviceIds[j] => i = j
      /\ \A i \in DOMAIN DeviceIds : DeviceIds[i] \in ToSet(DeviceIds)
  BY DeviceAssumption DEF IsInjective, ToSet
<1>2. ours \in SUBSET (1..Len(DeviceIds))
  BY <1>1 DEF Ours
<1>3. /\ n \in Nat /\ DOMAIN order = 1..n
      /\ \A i \in 1..n : order[i] \in ours
      /\ \A i, j \in 1..n : order[i] = order[j] => i = j
      /\ \A x \in ours : \E i \in 1..n : order[i] = x
  <2> HIDE DEF ours
  <2>1. order \in [1..n -> ours]
    BY <1>1, <1>2, InOrderIs
  <2> QED BY <1>1, <1>2, <2>1, InOrderIs
<1>4. \A i \in ours : /\ mach(i) \in ToSet(Identifiers[DeviceIds[i]])
                      /\ mach(i) \in DOMAIN known
                      /\ known[mach(i)][2] = mach(i)
                      /\ i \in DOMAIN DeviceIds
  BY <1>1, FirstKnownIs DEF Ours, Machine, Keyed
<1>5. ASSUME NEW i \in ours, NEW j \in ours, mach(i) = mach(j) PROVE i = j
  <2>1. DeviceIds[i] \in ToSet(DeviceIds) /\ DeviceIds[j] \in ToSet(DeviceIds)
    BY <1>1, <1>4
  <2>2. mach(i) \in ToSet(Identifiers[DeviceIds[i]]) \cap ToSet(Identifiers[DeviceIds[j]])
    BY <1>4, <1>5
  <2>3. DeviceIds[i] = DeviceIds[j]
    <3> HIDE DEF mach
    <3> QED BY <2>1, <2>2, IdentifierAssumption
  <2> QED BY <1>1, <1>4, <2>3
<1>6. /\ DOMAIN t = 1..n
      /\ \A i \in 1..n : t[i] = known[mach(order[i])]
      /\ t = [i \in 1..n |-> t[i]]
  BY <1>3 DEF Picked
<1> HIDE DEF t, ours, order, mach
<1>7. \A i \in 1..n : t[i][2] = mach(order[i]) /\ t[i] \in {known[m] : m \in DOMAIN known}
  BY <1>3, <1>4, <1>6
<1>8. \A i, j \in 1..n : t[i][2] = t[j][2] => i = j
  BY <1>3, <1>5, <1>7
<1>9. t \in Seq({known[m] : m \in DOMAIN known}) /\ Len(t) = n
  <2> HIDE DEF n
  <2> QED BY <1>3, <1>6, <1>7
<1>10. IsInjective(t)
  BY <1>6, <1>8 DEF IsInjective
<1>11. machines = {t[i][2] : i \in 1..n}
  BY <1>6 DEF ToSet
<1> HIDE DEF machines
<1>12. Len(t) = Cardinality(machines)
  <2> DEFINE f == [i \in 1..n |-> t[i][2]]
  <2>1. f \in Bijection(1..n, machines)
    <3>1. f \in [1..n -> machines]
      BY <1>11
    <3>2. \A m \in machines : \E i \in 1..n : f[i] = m
      BY <1>11
    <3>3. \A i, j \in 1..n : f[i] = f[j] => i = j
      BY <1>8
    <3> HIDE DEF f
    <3> QED BY <3>1, <3>2, <3>3 DEF Bijection, Injection, Surjection, IsInjective
  <2>2. ExistsBijection(1..n, machines)
    BY <2>1 DEF ExistsBijection
  <2> HIDE DEF n
  <2> QED BY <1>3, <1>9, <2>2, FS_CountingElements
<1>13. ours = {} <=> t = <<>>
  <2>1. ours = {} <=> n = 0
    <3>1. ours = {} => n = 0
      BY FS_EmptySet
    <3>2. ours # {} => n # 0
      <4> HIDE DEF n
      <4> QED BY <1>3
    <3> QED BY <3>1, <3>2
  <2> HIDE DEF n
  <2>2. t = <<>> <=> Len(t) = 0
    BY <1>9
  <2> QED BY <1>3, <1>9, <2>1, <2>2
<1>14. \A i \in ours : mach(i) \in machines
  BY <1>3, <1>7, <1>11
<1>15. \A m \in machines : \E i \in ours : m = mach(i)
  BY <1>3, <1>7, <1>11
<1> QED BY <1>9, <1>10, <1>12, <1>13, <1>14, <1>15 DEF t, ours, machines, mach

\* Every step of the list of a call names another coordinator that is known;
\* a call that is not refused has one.
Drawn(known, resolved) ==
  /\ resolved.targets \in Seq({known[m] : m \in DOMAIN known})
  /\ IsInjective(resolved.targets)
  /\ resolved.error = None => resolved.targets # <<>>

\* Nothing is resolved when a call is refused.
LEMMA Refused ==
  ASSUME NEW known, NEW error, error # None
  PROVE  Drawn(known, Refusal(error))
<1>1. <<>> \in Seq({known[m] : m \in DOMAIN known}) /\ DOMAIN <<>> = {}
  OBVIOUS
<1> QED BY <1>1 DEF Drawn, Refusal, IsInjective

\* The three ways in which a call is answered that names nothing.
LEMMA ResolveNothing ==
  ASSUME NEW known, Keyed(known), NEW target,
         DOMAIN known = {} \/ NamesNothing(target), IsFiniteSet(DOMAIN known)
  PROVE  /\ Exact(known, DOMAIN known, target)
         /\ Drawn(known, Resolve(known, target))
<1> DEFINE r == Resolve(known, target)
           P == DOMAIN known
<1>1. CASE P = {}
  <2>1. r = Refusal("no_machine_configured")
    BY <1>1 DEF Resolve
  <2>2. r.error # None /\ Drawn(known, r)
    BY <2>1, NoError, Refused DEF Refusal, Errors
  <2>3. MustRefuse(P, target)
    <3>1. Cardinality(P) # 1
      BY <1>1, FS_EmptySet
    <3>2. \A d : ToSet(Identifiers[d]) \cap P = {}
      BY <1>1
    <3> QED BY <3>1, <3>2 DEF MustRefuse
  <2> QED BY <2>2, <2>3 DEF Exact
<1>2. CASE P # {} /\ NamesNothing(target) /\ Cardinality(P) # 1
  <2>1. r = Refusal("target_required")
    BY <1>2 DEF Resolve
  <2>2. r.error # None /\ Drawn(known, r)
    BY <2>1, NoError, Refused DEF Refusal, Errors
  <2>3. MustRefuse(P, target)
    BY <1>2 DEF MustRefuse
  <2> QED BY <2>2, <2>3 DEF Exact
<1>3. CASE P # {} /\ NamesNothing(target) /\ Cardinality(P) = 1
  <2>1. PICK x : P = {x}
    BY <1>3, FS_Singleton
  <2> DEFINE m == CHOOSE y \in P : TRUE
  <2>2. m = x /\ x \in P
    BY <2>1
  <2>3. r = Accepted(<<known[m]>>)
    BY <1>3 DEF Resolve
  <2> HIDE DEF m, P
  <2>4. r.error = None /\ r.targets = <<known[x]>>
    BY <2>2, <2>3 DEF Accepted
  <2> HIDE DEF r
  <2>5. known[x][2] = x
    BY <2>2 DEF P, Keyed
  <2>6. ToSet(r.targets) = {known[x]} /\ Len(r.targets) = 1
    BY <2>4 DEF ToSet
  <2>7. {c[2] : c \in ToSet(r.targets)} = {x}
    BY <2>5, <2>6
  <2>8. ~MustRefuse(P, target)
    BY <1>3 DEF MustRefuse
  <2>9. Reaches(P, target, {x})
    BY <1>3, <2>1 DEF Reaches
  <2>10. Cardinality({x}) = 1
    BY FS_Singleton
  <2>11. Exact(known, P, target)
    BY <2>4, <2>6, <2>7, <2>8, <2>9, <2>10, Zenon DEF Exact, r
  <2>12. Drawn(known, r)
    <3>1. <<known[x]>> \in Seq({known[y] : y \in P}) /\ <<known[x]>> # <<>>
      BY <2>2
    <3>2. IsInjective(<<known[x]>>)
      BY DEF IsInjective
    <3> QED BY <2>4, <3>1, <3>2 DEF Drawn, P
  <2> QED BY <2>11, <2>12 DEF r, P
<1> QED BY <1>1, <1>2, <1>3

\* A device that has DSNs none of which is known, or has none and is named
\* itself, stands in the way.
LEMMA ObjectionIs ==
  ASSUME NEW known, NEW target, NEW d \in ToSet(DeviceIds)
  PROVE  Objection(known, target, d) # None <=>
           /\ ToSet(Identifiers[d]) \cap DOMAIN known = {}
           /\ Identifiers[d] # <<>> \/ d \in target.devices
<1>1. FirstKnown(known, d) = 0 <=> ToSet(Identifiers[d]) \cap DOMAIN known = {}
  BY FirstKnownIs
<1>2. None # "machine_unavailable" /\ None # "target_not_a_machine"
  BY NoError DEF Errors
<1>3. CASE FirstKnown(known, d) # 0
  <2>1. Identifiers[d] # <<>>
    BY <1>1, <1>3 DEF ToSet
  <2>2. Objection(known, target, d) = None
    BY <1>3, <2>1 DEF Objection
  <2> QED BY <1>1, <1>3, <2>2
<1>4. CASE FirstKnown(known, d) = 0 /\ Identifiers[d] # <<>>
  <2>1. Objection(known, target, d) = "machine_unavailable"
    BY <1>4 DEF Objection
  <2> QED BY <1>1, <1>2, <1>4, <2>1
<1>5. CASE FirstKnown(known, d) = 0 /\ Identifiers[d] = <<>>
  <2>1. Objection(known, target, d)
          = IF d \in target.devices THEN "target_not_a_machine" ELSE None
    BY <1>5 DEF Objection
  <2> QED BY <1>1, <1>2, <1>5, <2>1
<1> QED BY <1>3, <1>4, <1>5

\* A call that names something is refused exactly when it must be, and draws
\* one machine of every device that has any.
LEMMA ResolveNamed ==
  ASSUME NEW known, Keyed(known), NEW target,
         DOMAIN known # {}, ~NamesNothing(target)
  PROVE  /\ Exact(known, DOMAIN known, target)
         /\ Drawn(known, Resolve(known, target))
<1> DEFINE r == Resolve(known, target)
           P == DOMAIN known
           named == {i \in DOMAIN DeviceIds : DeviceIds[i] \in NamedDevices(target)}
           objecting == {i \in named : Objection(known, target, DeviceIds[i]) # None}
           ours == Ours(known, target)
           t == Picked(known, target)
           machines == {c[2] : c \in ToSet(t)}
<1>1. /\ DOMAIN DeviceIds = 1..Len(DeviceIds) /\ Len(DeviceIds) \in Nat
      /\ \A i \in DOMAIN DeviceIds : DeviceIds[i] \in ToSet(DeviceIds)
      /\ \A d \in ToSet(DeviceIds) : \E i \in DOMAIN DeviceIds : DeviceIds[i] = d
  BY DeviceAssumption DEF ToSet
<1>2. objecting # {} <=>
        \E d \in ToSet(DeviceIds) : /\ Means(target, d)
                                    /\ ToSet(Identifiers[d]) \cap P = {}
                                    /\ Identifiers[d] # <<>> \/ d \in target.devices
  BY <1>1, NamedMeans, ObjectionIs
<1>3. ours = {} <=> \A d \in ToSet(DeviceIds) : Means(target, d) => ToSet(Identifiers[d]) \cap P = {}
  BY <1>1, NamedMeans, FirstKnownIs DEF Ours
<1>4. MustRefuse(P, target) <=> objecting # {} \/ ours = {}
  BY <1>2, <1>3, Zenon DEF MustRefuse
<1>5. /\ objecting # {} => r = Refusal(Objection(known, target, DeviceIds[Min(objecting)]))
      /\ objecting = {} /\ ours = {} => r = Refusal("target_matched_no_machine")
      /\ objecting = {} /\ ours # {} => r = Accepted(t)
  BY DEF Resolve, Ours, Picked, Machine
<1>6. CASE objecting # {}
  <2>1. Min(objecting) \in objecting
    <3>1. objecting \subseteq Nat
      BY <1>1
    <3> HIDE DEF objecting
    <3> QED BY <1>6, <3>1, LeastNat
  <2>2. Objection(known, target, DeviceIds[Min(objecting)]) # None
    BY <2>1
  <2> HIDE DEF objecting
  <2>3. r.error # None /\ Drawn(known, r)
    BY <1>5, <1>6, <2>2, Refused DEF Refusal
  <2> QED BY <1>4, <1>6, <2>3 DEF Exact
<1>7. CASE objecting = {} /\ ours = {}
  <2> HIDE DEF objecting, ours
  <2>1. r = Refusal("target_matched_no_machine")
    BY <1>5, <1>7
  <2>2. r.error # None /\ Drawn(known, r)
    BY <2>1, NoError, Refused DEF Refusal, Errors
  <2> QED BY <1>4, <1>7, <2>2 DEF Exact
<1>8. CASE objecting = {} /\ ours # {}
  <2>1. /\ t \in Seq({known[m] : m \in DOMAIN known}) /\ IsInjective(t) /\ t # <<>>
        /\ Len(t) = Cardinality(machines)
        /\ \A i \in ours : Machine(known, DeviceIds[i]) \in machines
        /\ \A m \in machines : \E i \in ours : m = Machine(known, DeviceIds[i])
    BY <1>8, PickedIs
  <2> HIDE DEF objecting, t, machines
  <2>2. r.error = None /\ r.targets = t
    BY <1>5, <1>8 DEF Accepted
  <2>3. ASSUME NEW i \in ours
        PROVE  /\ DeviceIds[i] \in ToSet(DeviceIds) /\ Means(target, DeviceIds[i])
               /\ Machine(known, DeviceIds[i]) \in ToSet(Identifiers[DeviceIds[i]])
    BY <1>1, NamedMeans, FirstKnownIs DEF Ours, Machine
  <2>4. ASSUME NEW m \in machines
        PROVE  \E d \in ToSet(DeviceIds) : Means(target, d) /\ m \in ToSet(Identifiers[d])
    BY <2>1, <2>3
  <2>5. ASSUME NEW d \in ToSet(DeviceIds), Means(target, d)
        PROVE  Cardinality(ToSet(Identifiers[d]) \cap machines)
                 = IF Identifiers[d] = <<>> THEN 0 ELSE 1
    <3>1. PICK i \in DOMAIN DeviceIds : DeviceIds[i] = d
      BY <1>1
    <3>2. CASE Identifiers[d] = <<>>
      <4>1. ToSet(Identifiers[d]) = {}
        BY <3>2 DEF ToSet
      <4> QED BY <3>2, <4>1, FS_EmptySet
    <3>3. CASE Identifiers[d] # <<>>
      <4>1. ToSet(Identifiers[d]) \cap P # {}
        BY <1>2, <1>8, <2>5, <3>3
      <4>2. i \in ours
        BY <2>5, <3>1, <4>1, NamedMeans, FirstKnownIs DEF Ours
      <4>3. \A m \in machines : m \in ToSet(Identifiers[d]) => m = Machine(known, d)
        <5> SUFFICES ASSUME NEW m \in machines, m \in ToSet(Identifiers[d])
                     PROVE  m = Machine(known, d)
          OBVIOUS
        <5>1. PICK j \in ours : m = Machine(known, DeviceIds[j])
          BY <2>1
        <5>2. m \in ToSet(Identifiers[DeviceIds[j]]) \cap ToSet(Identifiers[d])
          BY <2>3, <5>1
        <5>3. DeviceIds[j] = d
          BY <2>3, <5>2, IdentifierAssumption
        <5> QED BY <5>1, <5>3
      <4>4. Machine(known, d) \in ToSet(Identifiers[d]) \cap machines
        BY <2>1, <2>3, <3>1, <4>2
      <4>5. ToSet(Identifiers[d]) \cap machines = {Machine(known, d)}
        BY <4>3, <4>4
      <4> QED BY <3>3, <4>5, FS_Singleton
    <3> QED BY <3>2, <3>3
  <2>6. Reaches(P, target, machines)
    BY <2>4, <2>5, Zenon DEF Reaches
  <2>7. ~MustRefuse(P, target)
    BY <1>4, <1>8
  <2>8. Exact(known, P, target)
    BY <2>1, <2>2, <2>6, <2>7, Zenon DEF Exact, machines
  <2>9. Drawn(known, r)
    BY <2>1, <2>2, Zenon DEF Drawn
  <2> QED BY <2>8, <2>9
<1> QED BY <1>6, <1>7, <1>8

-----------------------------------------------------------------------------
(* Popping and publishing an entry. *)

\* An entry is added at the end of hass.data, unless it is there.
LEMMA AppendPublished ==
  ASSUME NEW s \in Seq(Entries), IsInjective(s), NEW e \in Entries, e \notin ToSet(s)
  PROVE  /\ Append(s, e) \in Seq(Entries)
         /\ IsInjective(Append(s, e))
         /\ ToSet(Append(s, e)) = ToSet(s) \cup {e}
<1> DEFINE t == Append(s, e)
<1>1. /\ t \in Seq(Entries) /\ Len(t) = Len(s) + 1 /\ Len(s) \in Nat
      /\ DOMAIN s = 1..Len(s) /\ DOMAIN t = 1..(Len(s) + 1)
      /\ \A i \in 1..Len(s) : t[i] = s[i]
      /\ t[Len(s) + 1] = e
  OBVIOUS
<1> HIDE DEF t
<1>2. IsInjective(t)
  <2>1. \A a, b \in 1..Len(s) : s[a] = s[b] => a = b
    BY <1>1 DEF IsInjective
  <2>2. \A a \in 1..Len(s) : t[a] # e
    BY <1>1 DEF ToSet
  <2>3. \A a \in 1..(Len(s) + 1) : a \in 1..Len(s) \/ a = Len(s) + 1
    BY <1>1
  <2>4. \A a, b \in 1..(Len(s) + 1) : t[a] = t[b] => a = b
    BY <1>1, <2>1, <2>2, <2>3
  <2> QED BY <1>1, <2>4 DEF IsInjective
<1>3. ToSet(t) = ToSet(s) \cup {e}
  <2>1. \A a \in 1..Len(s) : a \in 1..(Len(s) + 1)
    BY <1>1
  <2>2. \A a \in 1..(Len(s) + 1) : a \in 1..Len(s) \/ a = Len(s) + 1
    BY <1>1
  <2>3. Len(s) + 1 \in 1..(Len(s) + 1)
    BY <1>1
  <2> QED BY <1>1, <2>1, <2>2, <2>3 DEF ToSet
<1> QED BY <1>1, <1>2, <1>3 DEF t

\* An entry is popped from hass.data, from wherever it stands.
LEMMA PopPublished ==
  ASSUME NEW s \in Seq(Entries), IsInjective(s), NEW i \in DOMAIN s
  PROVE  /\ RemoveAt(s, i) \in Seq(Entries)
         /\ IsInjective(RemoveAt(s, i))
         /\ ToSet(RemoveAt(s, i)) = ToSet(s) \ {s[i]}
<1> DEFINE t == RemoveAt(s, i)
<1>0. Len(s) \in Nat /\ DOMAIN s = 1..Len(s) /\ i \in 1..Len(s)
  OBVIOUS
<1>1. /\ t \in Seq(Entries) /\ Len(t) = Len(s) - 1 /\ DOMAIN t = 1..(Len(s) - 1)
      /\ \A j \in 1..(Len(s) - 1) : t[j] = IF j < i THEN s[j] ELSE s[j + 1]
  <2> DEFINE left == SubSeq(s, 1, i - 1)
  <2> DEFINE right == SubSeq(s, i + 1, Len(s))
  <2>1. /\ left \in Seq(Entries) /\ Len(left) = i - 1
        /\ \A j \in 1..(i - 1) : left[j] = s[j]
    BY <1>0
  <2>2. /\ right \in Seq(Entries) /\ Len(right) = Len(s) - i
        /\ \A j \in 1..(Len(s) - i) : right[j] = s[i + j]
    BY <1>0
  <2>3. t = left \o right
    BY DEF RemoveAt
  <2> HIDE DEF left, right, t
  <2>4. /\ left \o right \in Seq(Entries)
        /\ Len(left \o right) = Len(left) + Len(right)
        /\ \A j \in 1..(Len(left) + Len(right)) :
             (left \o right)[j] = IF j <= Len(left) THEN left[j] ELSE right[j - Len(left)]
    BY <2>1, <2>2, ConcatProperties
  <2>5. ASSUME NEW j \in 1..(Len(s) - 1) PROVE t[j] = IF j < i THEN s[j] ELSE s[j + 1]
    <3>1. CASE j < i
      <4>1. /\ j \in 1..(i - 1) /\ j <= Len(left)
            /\ j \in 1..(Len(left) + Len(right))
        BY <1>0, <2>1, <2>2, <3>1
      <4>2. t[j] = left[j] /\ left[j] = s[j]
        BY <2>1, <2>3, <2>4, <4>1
      <4> QED BY <3>1, <4>2
    <3>2. CASE ~(j < i)
      <4> DEFINE k == j - (i - 1)
      <4>1. /\ k \in 1..(Len(s) - i) /\ ~(j <= Len(left)) /\ i + k = j + 1
            /\ j \in 1..(Len(left) + Len(right)) /\ j - Len(left) = k
        BY <1>0, <2>1, <2>2, <3>2
      <4> HIDE DEF k
      <4>2. t[j] = right[k] /\ right[k] = s[j + 1]
        BY <2>2, <2>3, <2>4, <4>1
      <4> QED BY <3>2, <4>2
    <3> QED BY <3>1, <3>2
  <2>6. t \in Seq(Entries) /\ Len(t) = Len(s) - 1
    <3>1. t \in Seq(Entries) /\ Len(t) = Len(left) + Len(right)
      BY <2>3, <2>4, Zenon
    <3>2. Len(left) + Len(right) = Len(s) - 1
      BY <1>0, <2>1, <2>2
    <3> QED BY <3>1, <3>2
  <2>7. DOMAIN t = 1..(Len(s) - 1)
    BY <2>6
  <2> QED BY <2>5, <2>6, <2>7
<1> HIDE DEF t
<1>2. IsInjective(t)
  <2>1. \A a, b \in 1..Len(s) : s[a] = s[b] => a = b
    BY <1>0 DEF IsInjective
  <2>2. SUFFICES ASSUME NEW a \in 1..(Len(s) - 1), NEW b \in 1..(Len(s) - 1), t[a] = t[b]
                 PROVE  a = b
    BY <1>1 DEF IsInjective
  <2>3. a \in 1..Len(s) /\ a + 1 \in 1..Len(s) /\ b \in 1..Len(s) /\ b + 1 \in 1..Len(s)
    BY <1>0, <2>2
  <2>4. CASE a < i /\ b < i
    <3>1. s[a] = s[b]
      BY <1>1, <2>2, <2>4
    <3> QED BY <2>1, <2>3, <3>1
  <2>5. CASE a < i /\ ~(b < i)
    <3>1. s[a] = s[b + 1]
      BY <1>1, <2>2, <2>5
    <3>2. a = b + 1
      BY <2>1, <2>3, <3>1
    <3> QED BY <1>0, <2>2, <2>5, <3>2
  <2>6. CASE ~(a < i) /\ b < i
    <3>1. s[a + 1] = s[b]
      BY <1>1, <2>2, <2>6
    <3>2. a + 1 = b
      BY <2>1, <2>3, <3>1
    <3> QED BY <1>0, <2>2, <2>6, <3>2
  <2>7. CASE ~(a < i) /\ ~(b < i)
    <3>1. s[a + 1] = s[b + 1]
      BY <1>1, <2>2, <2>7
    <3>2. a + 1 = b + 1
      BY <2>1, <2>3, <3>1
    <3> QED BY <2>2, <3>2
  <2> QED BY <2>4, <2>5, <2>6, <2>7
<1>3. ASSUME NEW x \in ToSet(t) PROVE x \in ToSet(s) \ {s[i]}
  <2>1. PICK a \in 1..(Len(s) - 1) : x = t[a]
    BY <1>1, <1>3 DEF ToSet
  <2>2. PICK b \in 1..Len(s) : b # i /\ x = s[b]
    <3>1. CASE a < i
      <4>1. a \in 1..Len(s) /\ x = s[a] /\ a # i
        BY <1>0, <1>1, <2>1, <3>1
      <4> QED BY <4>1
    <3>2. CASE ~(a < i)
      <4>1. a + 1 \in 1..Len(s) /\ x = s[a + 1] /\ a + 1 # i
        BY <1>0, <1>1, <2>1, <3>2
      <4> QED BY <4>1
    <3> QED BY <3>1, <3>2
  <2>3. x \in ToSet(s)
    BY <1>0, <2>2 DEF ToSet
  <2>4. x # s[i]
    BY <1>0, <2>2 DEF IsInjective
  <2> QED BY <2>3, <2>4
<1>4. ASSUME NEW x \in ToSet(s) \ {s[i]} PROVE x \in ToSet(t)
  <2>1. PICK j \in 1..Len(s) : x = s[j]
    BY <1>0, <1>4 DEF ToSet
  <2>2. CASE j < i
    BY <1>0, <1>1, <2>1, <2>2 DEF ToSet
  <2>3. CASE j > i
    <3>1. j - 1 \in 1..(Len(s) - 1) /\ t[j - 1] = s[j]
      BY <1>0, <1>1, <2>1, <2>3
    <3> QED BY <1>1, <2>1, <3>1 DEF ToSet
  <2> QED BY <1>0, <1>4, <2>1, <2>2, <2>3
<1> QED BY <1>1, <1>2, <1>3, <1>4 DEF t

-----------------------------------------------------------------------------
(* The inductive invariant. *)

\* No entry has been added.
LEMMA InitInv == Init => IInv
<1> SUFFICES ASSUME Init PROVE IInv
  OBVIOUS
<1>1. published = <<>> /\ published \in Seq(Entries) /\ DOMAIN published = {}
  BY DEF Init
<1>2. Typed
  BY <1>1 DEF Init, Typed, IsInjective, States, Unlisted, Idle, Running
<1>3. NoGhosts
  BY <1>1 DEF Init, NoGhosts, ToSet, Running
<1>4. ServicesHeld /\ LoadedListed /\ ClosedStopped
  BY DEF Init, ServicesHeld, LoadedListed, ClosedStopped
<1> QED BY <1>2, <1>3, <1>4 DEF IInv

\* What an entry's own step does to the invariant when hass.data changes with
\* it, or need not.
LEMMA StateMoves ==
  ASSUME IInv, NEW e \in Entries, NEW s \in States,
         state' = [state EXCEPT ![e] = s],
         published' \in Seq(Entries), IsInjective(published'),
         \A x \in Entries \ {e} : x \in ToSet(published') <=> x \in ToSet(published),
         e \in ToSet(published') <=> s \in Running \cup {"stuck", "ghost"}
  PROVE  NoGhosts' /\ state' \in [Entries -> States]
<1>1. /\ state'[e] = s /\ state' \in [Entries -> States]
      /\ \A x \in Entries \ {e} : state'[x] = state[x]
  BY DEF IInv, Typed
<1>2. NoGhosts'
  BY <1>1 DEF IInv, NoGhosts
<1> QED BY <1>1, <1>2

\* Steps of an entry that leave hass.data alone.
LEMMA QuietNext ==
  ASSUME IInv, NEW e \in Entries,
         SetUp(e) \/ SetUpFails(e) \/ Forwarded(e) \/ Unload(e) \/ UnloadFails(e) \/ Delete(e)
  PROVE  IInv'
<1>0. /\ published' = published /\ published' \in Seq(Entries) /\ IsInjective(published')
      /\ ToSet(published') = ToSet(published)
  BY DEF IInv, Typed, SetUp, SetUpFails, Forwarded, Unload, UnloadFails, Delete
<1>1. PICK s \in States :
        /\ state' = [state EXCEPT ![e] = s]
        /\ e \in ToSet(published) <=> s \in Running \cup {"stuck", "ghost"}
        /\ \/ SetUp(e) /\ s = "setup"
           \/ SetUpFails(e) /\ s \in {"retry", "error"} /\ state[e] = "setup"
           \/ Forwarded(e) /\ s = "loaded" /\ state[e] = "forwarding"
           \/ Unload(e) /\ s = "unloading" /\ state[e] = "loaded"
           \/ UnloadFails(e) /\ s = "stuck" /\ state[e] = "unloading"
           \/ Delete(e) /\ s = (IF state[e] = "stuck" THEN "ghost" ELSE "absent")
  <2> USE DEF IInv, Typed, NoGhosts, States, Unlisted, Idle, Running
  <2>1. CASE SetUp(e)
    BY <2>1 DEF SetUp
  <2>2. CASE SetUpFails(e)
    BY <2>2 DEF SetUpFails
  <2>3. CASE Forwarded(e)
    BY <2>3 DEF Forwarded
  <2>4. CASE Unload(e)
    BY <2>4 DEF Unload
  <2>5. CASE UnloadFails(e)
    BY <2>5 DEF UnloadFails
  <2>6. CASE Delete(e)
    BY <2>6 DEF Delete
  <2> QED BY <2>1, <2>2, <2>3, <2>4, <2>5, <2>6
<1>2. NoGhosts' /\ state' \in [Entries -> States]
  BY <1>0, <1>1, StateMoves
<1>3. /\ state'[e] = s /\ \A x \in Entries \ {e} : state'[x] = state[x]
  BY <1>1 DEF IInv, Typed
<1>4. Typed'
  BY <1>0, <1>1, <1>2 DEF IInv, Typed, SetUp, SetUpFails, Forwarded, Unload, UnloadFails, Delete
<1>5. ServicesHeld' /\ LoadedListed'
  <2>1. CASE Forwarded(e)
    BY <1>1, <1>3, <2>1 DEF IInv, Typed, ServicesHeld, LoadedListed, Forwarded, Unlisted
  <2>2. CASE Delete(e)
    BY <1>1, <1>3, <2>2 DEF IInv, Typed, ServicesHeld, LoadedListed, Delete
  <2>3. CASE SetUp(e) \/ SetUpFails(e) \/ Unload(e) \/ UnloadFails(e)
    BY <1>1, <1>3, <2>3 DEF IInv, Typed, ServicesHeld, LoadedListed, SetUp, SetUpFails,
       Forwarded, Unload, UnloadFails, Delete, Unlisted
  <2> QED BY <2>1, <2>2, <2>3
<1>6. ClosedStopped'
  <2>1. CASE SetUp(e)
    BY <1>3, <2>1 DEF IInv, Typed, ClosedStopped, SetUp
  <2>2. CASE ~SetUp(e)
    BY <1>1, <1>3, <2>2 DEF IInv, Typed, ClosedStopped, SetUpFails, Forwarded,
       Unload, UnloadFails, Delete
  <2> QED BY <2>1, <2>2
<1> QED BY <1>2, <1>4, <1>5, <1>6 DEF IInv

\* Steps of an entry that publish or pop it, or shut its coordinators down.
LEMMA PublishingNext ==
  ASSUME IInv, NEW e \in Entries,
         CoordinatorReady(e) \/ ForwardFails(e) \/ PlatformsUnloaded(e) \/ ShutdownGoesOn(e)
  PROVE  IInv'
<1>1. PICK s \in States :
        /\ state' = [state EXCEPT ![e] = s]
        /\ \/ CoordinatorReady(e) /\ state[e] = "setup" /\ s \in {"setup", "forwarding"}
              /\ published' = IF s = "setup" THEN published ELSE Append(published, e)
           \/ ForwardFails(e) /\ state[e] = "forwarding" /\ s \in {"retry", "error"} /\ Pops(e)
           \/ PlatformsUnloaded(e) /\ state[e] = "unloading" /\ s \in {"stopping", "unloaded"}
              /\ Pops(e)
           \/ ShutdownGoesOn(e) /\ state[e] = "stopping" /\ s \in {"stopping", "unloaded"}
              /\ published' = published
  <2> USE DEF IInv, Typed, States, Unlisted, Idle, Running
  <2>1. CASE CoordinatorReady(e)
    <3>1. state[e] = "setup" /\ state = [state EXCEPT ![e] = "setup"]
      BY <2>1 DEF CoordinatorReady, Creates
    <3> QED BY <2>1, <3>1 DEF CoordinatorReady
  <2>2. CASE ForwardFails(e)
    BY <2>2 DEF ForwardFails
  <2>3. CASE PlatformsUnloaded(e)
    BY <2>3 DEF PlatformsUnloaded, ShutsNextDown
  <2>4. CASE ShutdownGoesOn(e)
    BY <2>4 DEF ShutdownGoesOn, ShutsNextDown
  <2> QED BY <2>1, <2>2, <2>3, <2>4
<1>2. /\ published' \in Seq(Entries) /\ IsInjective(published')
      /\ \A x \in Entries \ {e} : x \in ToSet(published') <=> x \in ToSet(published)
      /\ e \in ToSet(published') <=> s \in Running \cup {"stuck", "ghost"}
  <2>0. /\ published \in Seq(Entries) /\ IsInjective(published)
        /\ e \in ToSet(published) <=> state[e] \in Running \cup {"stuck", "ghost"}
    BY DEF IInv, Typed, NoGhosts
  <2>1. CASE published' = published /\ state[e] \in {"setup", "stopping"}
                /\ s \in {"setup", "stopping", "unloaded"}
    BY <2>0, <2>1 DEF Running
  <2>2. CASE published' = Append(published, e) /\ state[e] = "setup" /\ s = "forwarding"
    <3>1. e \notin ToSet(published)
      BY <2>0, <2>2 DEF Running
    <3>2. /\ published' \in Seq(Entries) /\ IsInjective(published')
          /\ ToSet(published') = ToSet(published) \cup {e}
      BY <2>0, <2>2, <3>1, AppendPublished
    <3> QED BY <2>2, <3>2 DEF Running
  <2>3. CASE Pops(e) /\ s \in {"retry", "error", "stopping", "unloaded"}
    <3>1. PICK i \in DOMAIN published :
            published[i] = e /\ published' = RemoveAt(published, i)
      BY <2>3 DEF Pops
    <3>2. /\ published' \in Seq(Entries) /\ IsInjective(published')
          /\ ToSet(published') = ToSet(published) \ {e}
      BY <2>0, <3>1, PopPublished
    <3> QED BY <2>3, <3>2 DEF Running
  <2> QED BY <1>1, <2>1, <2>2, <2>3
<1>3. NoGhosts' /\ state' \in [Entries -> States]
  BY <1>1, <1>2, StateMoves
<1>4. /\ state'[e] = s /\ \A x \in Entries \ {e} : state'[x] = state[x]
  BY <1>1 DEF IInv, Typed
<1>5. /\ services' = services /\ loaded' = loaded
      /\ \/ closed' = closed
         \/ /\ \E m \in Open(e) : closed' = closed \cup {<<e, m>>}
            /\ s = "stopping"
  <2>1. CASE CoordinatorReady(e)
    BY <2>1 DEF CoordinatorReady
  <2>2. CASE ForwardFails(e)
    BY <2>2 DEF ForwardFails
  <2>3. CASE PlatformsUnloaded(e)
    BY <1>4, <2>3 DEF PlatformsUnloaded, ShutsNextDown, IInv, Typed
  <2>4. CASE ShutdownGoesOn(e)
    BY <1>4, <2>4 DEF ShutdownGoesOn, ShutsNextDown, IInv, Typed
  <2> QED BY <2>1, <2>2, <2>3, <2>4
<1>6. \A c \in closed' : c[1] \in Entries
  BY <1>5 DEF IInv, Typed
<1>7. Typed'
  BY <1>2, <1>3, <1>5, <1>6 DEF IInv, Typed
<1>8. ServicesHeld' /\ LoadedListed'
  <2>1. s \notin Unlisted
    BY <1>1 DEF Unlisted
  <2> QED BY <1>4, <1>5, <2>1 DEF IInv, ServicesHeld, LoadedListed
<1>9. ClosedStopped'
  <2> SUFFICES ASSUME NEW c \in closed' PROVE state'[c[1]] \in {"stopping", "unloaded", "absent"}
    BY DEF ClosedStopped
  <2>1. CASE c[1] = e
    <3>1. s \in {"stopping", "unloaded"} \/ c \in closed
      BY <1>5
    <3>2. c \in closed => s \in {"stopping", "unloaded"}
      BY <1>1, <2>1 DEF IInv, ClosedStopped
    <3> QED BY <1>4, <2>1, <3>1, <3>2
  <2>2. CASE c[1] # e
    <3>1. c \in closed /\ c[1] \in Entries
      BY <1>5, <2>2 DEF IInv, Typed
    <3> QED BY <1>4, <2>2, <3>1 DEF IInv, ClosedStopped
  <2> QED BY <2>1, <2>2
<1> QED BY <1>3, <1>7, <1>8, <1>9 DEF IInv

\* A restart starts over; calls do not touch the entries.
LEMMA InvNext == IInv /\ [Next]_vars => IInv'
<1> SUFFICES ASSUME IInv, [Next]_vars PROVE IInv'
  OBVIOUS
<1>1. CASE UNCHANGED vars \/ \E k \in Calls : Call(k) \/ SendEnds(k)
  <2>1. UNCHANGED entries
    BY <1>1 DEF vars, Call, SendEnds
  <2> QED BY <2>1 DEF entries, IInv, Typed, NoGhosts, ServicesHeld, LoadedListed, ClosedStopped
<1>2. CASE Restart
  <2>1. published' = <<>> /\ published' \in Seq(Entries) /\ DOMAIN published' = {}
    BY <1>2 DEF Restart
  <2>2. \A e \in Entries : state'[e] \in {"absent", "unloaded"}
    BY <1>2 DEF Restart
  <2>3. Typed'
    BY <1>2, <2>1 DEF Restart, Typed, IsInjective, States, Unlisted, Idle, Running
  <2>4. NoGhosts'
    BY <2>1, <2>2 DEF NoGhosts, ToSet, Running
  <2>5. ServicesHeld' /\ LoadedListed' /\ ClosedStopped'
    BY <1>2 DEF Restart, ServicesHeld, LoadedListed, ClosedStopped
  <2> QED BY <2>3, <2>4, <2>5 DEF IInv
<1>3. ASSUME NEW e \in Entries,
             \/ SetUp(e) \/ SetUpFails(e) \/ CoordinatorReady(e) \/ Forwarded(e)
             \/ ForwardFails(e) \/ Unload(e) \/ UnloadFails(e) \/ PlatformsUnloaded(e)
             \/ ShutdownGoesOn(e) \/ Delete(e)
      PROVE  IInv'
  BY <1>3, QuietNext, PublishingNext
<1> QED BY <1>1, <1>2, <1>3 DEF Next

-----------------------------------------------------------------------------

\* What is published, loaded and shut down fits the states of the entries.
THEOREM Inductive == Spec => []IInv
<1>1. Init => IInv
  BY InitInv
<1>2. IInv /\ [Next]_vars => IInv'
  BY InvNext
<1> QED BY <1>1, <1>2, PTL DEF Spec

\* hass.data holds the entries that are set up, and no others.
THEOREM Published == Spec => []NoGhosts
<1>1. IInv => NoGhosts
  BY DEF IInv
<1> QED BY <1>1, Inductive, PTL

\* The services stay while an entry that has been loaded exists.
THEOREM ServicesStay == Spec => []ServicesHeld
<1>1. IInv => ServicesHeld
  BY DEF IInv
<1> QED BY <1>1, Inductive, PTL

\* What is being shut down has been popped.
LEMMA OpenWhenPublished == IInv => PublishedOpen
<1> SUFFICES ASSUME IInv, NEW c \in closed PROVE c[1] \notin ToSet(published)
  BY DEF PublishedOpen
<1>1. c[1] \in Entries /\ state[c[1]] \notin Running \cup {"stuck", "ghost"}
  BY DEF IInv, Typed, ClosedStopped, Running
<1> QED BY <1>1 DEF IInv, NoGhosts

\* No coordinator that is published has been shut down.
THEOREM Opened == Spec => []PublishedOpen
BY OpenWhenPublished, Inductive, PTL

-----------------------------------------------------------------------------
(* The coordinators. *)

\* An entry's coordinators are those of machines of its account.
LEMMA CoordsNext == Typed /\ CoordsTyped /\ [Next]_vars => CoordsTyped'
<1> SUFFICES ASSUME Typed, CoordsTyped, [Next]_vars PROVE CoordsTyped'
  OBVIOUS
<1>1. ASSUME NEW e \in Entries, NEW S, S \subseteq Account[e],
             coords' = [coords EXCEPT ![e] = S]
      PROVE  /\ coords' \in [Entries -> SUBSET Machines]
             /\ \A x \in Entries : coords'[x] \subseteq Account[x]
  <2>1. S \in SUBSET Machines
    BY <1>1, AccountAssumption
  <2> QED BY <1>1, <2>1 DEF CoordsTyped
<1>2. CASE UNCHANGED <<coords, closed>>
  BY <1>2 DEF CoordsTyped
<1>3. CASE Restart
  BY <1>3 DEF Restart, CoordsTyped
<1>4. ASSUME NEW e \in Entries, SetUp(e) PROVE CoordsTyped'
  BY <1>1, <1>4 DEF SetUp, CoordsTyped
<1>5. ASSUME NEW e \in Entries, SetUpFails(e) \/ ForwardFails(e) PROVE CoordsTyped'
  BY <1>1, <1>5 DEF SetUpFails, ForwardFails, CoordsTyped
<1>6. ASSUME NEW e \in Entries, CoordinatorReady(e) PROVE CoordsTyped'
  <2>1. PICK m \in Account[e] : coords' = [coords EXCEPT ![e] = coords[e] \cup {m}]
    BY <1>6 DEF CoordinatorReady, Creates
  <2>2. coords[e] \cup {m} \subseteq Account[e]
    BY DEF CoordsTyped
  <2> QED BY <1>1, <1>6, <2>1, <2>2 DEF CoordinatorReady, CoordsTyped
<1>7. ASSUME NEW e \in Entries, PlatformsUnloaded(e) \/ ShutdownGoesOn(e) PROVE CoordsTyped'
  <2>1. ShutsNextDown(e)
    BY <1>7 DEF PlatformsUnloaded, ShutdownGoesOn
  <2>2. CASE /\ \E m \in Open(e) : closed' = closed \cup {<<e, m>>}
             /\ UNCHANGED coords
    BY <2>2 DEF CoordsTyped, Open, Coordinators
  <2>3. CASE coords' = [coords EXCEPT ![e] = {}] /\ UNCHANGED closed
    BY <1>1, <2>3 DEF CoordsTyped
  <2> QED BY <2>1, <2>2, <2>3 DEF ShutsNextDown
<1>8. ASSUME NEW e \in Entries, Forwarded(e) \/ Unload(e) \/ UnloadFails(e) \/ Delete(e)
      PROVE  UNCHANGED <<coords, closed>>
  BY <1>8 DEF Forwarded, Unload, UnloadFails, Delete
<1>9. (\E k \in Calls : Call(k) \/ SendEnds(k)) => UNCHANGED <<coords, closed>>
  BY DEF Call, SendEnds, entries
<1>10. UNCHANGED vars => UNCHANGED <<coords, closed>>
  BY DEF vars, entries
<1> QED BY <1>2, <1>3, <1>4, <1>5, <1>6, <1>7, <1>8, <1>9, <1>10 DEF Next

\* The machines that are set up.
Present == {m \in Machines : \E e \in ToSet(published) : m \in coords[e]}

\* A machine is looked up in the first published entry that has a coordinator
\* for it.
LEMMA HoldingIs ==
  ASSUME published \in Seq(Entries), NEW m
  PROVE  /\ Holding(m) # 0 <=> \E e \in ToSet(published) : m \in coords[e]
         /\ Holding(m) # 0 => /\ published[Holding(m)] \in ToSet(published)
                              /\ m \in coords[published[Holding(m)]]
<1> DEFINE I == {i \in 1..Len(published) : m \in coords[published[i]]}
<1>1. Holding(m) = IF I # {} THEN Min(I) ELSE 0
  BY DEF Holding, SelectInSeq
<1>2. Len(published) \in Nat /\ DOMAIN published = 1..Len(published)
  OBVIOUS
<1>3. I \subseteq Nat /\ 0 \notin I
  BY <1>2
<1>4. I # {} => Min(I) \in I
  <2> HIDE DEF I
  <2> QED BY <1>3, LeastNat
<1>5. I # {} <=> \E e \in ToSet(published) : m \in coords[e]
  BY <1>2 DEF ToSet
<1>6. \A i \in I : published[i] \in ToSet(published) /\ m \in coords[published[i]]
  BY <1>2 DEF ToSet
<1> HIDE DEF I
<1> QED BY <1>1, <1>3, <1>4, <1>5, <1>6

\* What a call looks up: the machines that are set up, each with a coordinator
\* of an entry that is published.
LEMMA KnownIs ==
  ASSUME Typed, CoordsTyped
  PROVE  /\ DOMAIN AllCoordinators = Present
         /\ IsFiniteSet(Present)
         /\ \A m \in Present : /\ AllCoordinators[m][2] = m
                               /\ AllCoordinators[m][1] \in ToSet(published)
                               /\ AllCoordinators[m] \in Coordinators
<1>1. published \in Seq(Entries) /\ \A e \in ToSet(published) : e \in Entries
  BY DEF Typed, ToSet
<1>2. \A m \in Machines : Holding(m) # 0 <=> m \in Present
  BY <1>1, HoldingIs DEF Present
<1>3. DOMAIN AllCoordinators = Present
  BY <1>2 DEF AllCoordinators, Present
<1>4. IsFiniteSet(Present)
  <2>1. Present \in SUBSET Machines
    BY DEF Present
  <2> QED BY <2>1, DeviceAssumption, FS_Subset
<1>5. ASSUME NEW m \in Present
      PROVE  /\ AllCoordinators[m] = <<published[Holding(m)], m>>
             /\ published[Holding(m)] \in ToSet(published)
             /\ m \in Machines
  <2>1. m \in Machines /\ Holding(m) # 0
    BY <1>2 DEF Present
  <2> QED BY <1>1, <2>1, HoldingIs DEF AllCoordinators
<1>6. ASSUME NEW m \in Present
      PROVE  /\ AllCoordinators[m][2] = m
             /\ AllCoordinators[m][1] \in ToSet(published)
             /\ AllCoordinators[m] \in Coordinators
  <2> DEFINE e == published[Holding(m)]
  <2>1. AllCoordinators[m] = <<e, m>> /\ e \in ToSet(published) /\ m \in Machines
    BY <1>5
  <2> HIDE DEF e
  <2>2. e \in Entries
    BY <1>1, <2>1
  <2> QED BY <2>1, <2>2 DEF Coordinators
<1> QED BY <1>3, <1>4, <1>6

\* Whatever a call names, it is answered exactly.
LEMMA ResolveIs ==
  ASSUME Typed, CoordsTyped, NEW target
  PROVE  /\ Exact(AllCoordinators, Present, target)
         /\ Drawn(AllCoordinators, Resolve(AllCoordinators, target))
<1> DEFINE known == AllCoordinators
<1>1. DOMAIN known = Present /\ IsFiniteSet(DOMAIN known) /\ Keyed(known)
  BY KnownIs DEF Keyed
<1> HIDE DEF known
<1>2. Exact(known, DOMAIN known, target) /\ Drawn(known, Resolve(known, target))
  <2>1. CASE DOMAIN known = {} \/ NamesNothing(target)
    BY <1>1, <2>1, ResolveNothing, Zenon
  <2>2. CASE DOMAIN known # {} /\ ~NamesNothing(target)
    BY <1>1, <2>2, ResolveNamed, Zenon
  <2> QED BY <2>1, <2>2
<1>4. Exact(known, Present, target) /\ Drawn(known, Resolve(known, target))
  BY <1>1, <1>2, Zenon
<1> QED BY <1>4 DEF known

\* What a call draws are coordinators of published entries.
LEMMA DrawnIs ==
  ASSUME Typed, CoordsTyped, NEW resolved, Drawn(AllCoordinators, resolved)
  PROVE  /\ resolved.targets \in Seq(Coordinators) /\ IsInjective(resolved.targets)
         /\ \A c \in ToSet(resolved.targets) : c[1] \in ToSet(published)
<1> DEFINE S == {AllCoordinators[m] : m \in DOMAIN AllCoordinators}
           t == resolved.targets
<1>1. \A c \in S : c \in Coordinators /\ c[1] \in ToSet(published)
  BY KnownIs
<1>2. t \in Seq(S) /\ IsInjective(t)
  BY DEF Drawn
<1> HIDE DEF S, t
<1>3. t \in [1..Len(t) -> S] /\ Len(t) \in Nat
  BY <1>2
<1>4. t \in Seq(Coordinators)
  BY <1>1, <1>3
<1>5. \A c \in ToSet(t) : c \in S
  BY <1>3 DEF ToSet
<1> QED BY <1>1, <1>2, <1>4, <1>5 DEF t

-----------------------------------------------------------------------------
(* Service calls. *)

\* A call's list names each coordinator once, and is not at its end while the
\* call is sending.
CallTyped(g, d, stage, exception) ==
  /\ g \in Seq(Coordinators) /\ IsInjective(g)
  /\ d \in 0..Len(g)
  /\ stage \in {"none", "sending", "refused", "tried"}
  /\ stage = "sending" => d # Len(g)
  /\ exception \in Seq(Coordinators)

\* The errors are those of machines that have been tried, the first of them
\* being the first machine that failed; what a call raises is its error.
Tallied(g, d, errs, stage, exception) ==
  /\ d \in Nat
  /\ errs \in Seq({g[j] : j \in 1..d})
  /\ errs # <<>> =>
       \E i \in 1..d : /\ errs[1] = g[i]
                       /\ \A n \in 1..Len(errs) : \E j \in i..d : errs[n] = g[j]
  /\ stage = "tried" =>
       /\ d = Len(g)
       /\ exception = IF errs = <<>> THEN <<>> ELSE <<errs[1]>>

CallsInv ==
  /\ goal \in [Calls -> Seq(Coordinators)] /\ done \in [Calls -> Nat]
  /\ errors \in [Calls -> Seq(Coordinators)]
  /\ outcome \in [Calls -> {"none", "sending", "refused", "tried"}]
  /\ raised \in [Calls -> Seq(Coordinators)]
  /\ \A k \in Calls : /\ CallTyped(goal[k], done[k], outcome[k], raised[k])
                     /\ Tallied(goal[k], done[k], errors[k], outcome[k], raised[k])

\* A call that has tried nothing has no errors.
LEMMA TalliedFirst ==
  ASSUME NEW g, NEW stage, stage # "tried"
  PROVE  Tallied(g, 0, <<>>, stage, <<>>)
BY DEF Tallied

\* One more machine is tried, and fails or does not.
LEMMA TalliedNext ==
  ASSUME NEW g, NEW d, NEW errs, NEW stage, NEW exception, NEW raises,
         NEW failed \in BOOLEAN, Tallied(g, d, errs, stage, exception)
  PROVE  LET after == IF failed THEN Append(errs, g[d + 1]) ELSE errs
         IN /\ Tallied(g, d + 1, after, "sending", raises)
            /\ d + 1 = Len(g) =>
                 Tallied(g, d + 1, after, "tried",
                         IF after = <<>> THEN <<>> ELSE <<Head(after)>>)
<1> DEFINE after == IF failed THEN Append(errs, g[d + 1]) ELSE errs
           tried == {g[j] : j \in 1..(d + 1)}
<1>1. d \in Nat /\ errs \in Seq({g[j] : j \in 1..d})
  BY DEF Tallied
<1>2. errs \in Seq(tried) /\ g[d + 1] \in tried
  <2>1. {g[j] : j \in 1..d} \subseteq tried
    BY <1>1
  <2>2. d + 1 \in 1..(d + 1)
    BY <1>1
  <2>3. errs \in [1..Len(errs) -> tried] /\ Len(errs) \in Nat
    BY <1>1, <2>1
  <2> QED BY <2>2, <2>3
<1>3. after \in Seq(tried)
  BY <1>2
<1>4. /\ failed => Len(after) = Len(errs) + 1 /\ after[Len(errs) + 1] = g[d + 1]
      /\ \A n \in 1..Len(errs) : after[n] = errs[n]
      /\ ~failed => after = errs
      /\ Len(errs) \in Nat
  BY <1>2
<1>5. ASSUME after # <<>>
      PROVE  \E i \in 1..(d + 1) : /\ after[1] = g[i]
                                   /\ \A n \in 1..Len(after) : \E j \in i..(d + 1) : after[n] = g[j]
  <2>1. CASE errs = <<>>
    <3>1. failed /\ Len(after) = 1 /\ after[1] = g[d + 1]
      BY <1>4, <1>5, <2>1
    <3>2. d + 1 \in 1..(d + 1) /\ d + 1 \in (d + 1)..(d + 1)
      BY <1>1
    <3>3. \A n \in 1..Len(after) : n = 1
      BY <3>1
    <3> QED BY <3>1, <3>2, <3>3
  <2>2. CASE errs # <<>>
    <3>1. PICK i \in 1..d : /\ errs[1] = g[i]
                            /\ \A n \in 1..Len(errs) : \E j \in i..d : errs[n] = g[j]
      BY <2>2 DEF Tallied
    <3>2. /\ i \in 1..(d + 1) /\ d + 1 \in i..(d + 1)
          /\ \A j \in i..d : j \in i..(d + 1)
      BY <1>1
    <3>3. 1 \in 1..Len(errs)
      BY <1>2, <2>2
    <3>4. after[1] = g[i]
      BY <1>4, <3>1, <3>3
    <3>5. \A n \in 1..Len(errs) : \E j \in i..(d + 1) : after[n] = g[j]
      BY <1>4, <3>1, <3>2
    <3>6. \A n \in 1..Len(after) : n \in 1..Len(errs) \/ (failed /\ n = Len(errs) + 1)
      BY <1>4
    <3>7. \A n \in 1..Len(after) : \E j \in i..(d + 1) : after[n] = g[j]
      BY <1>4, <3>2, <3>5, <3>6
    <3> QED BY <3>2, <3>4, <3>7
  <2> QED BY <2>1, <2>2
<1>6. after # <<>> => Head(after) = after[1]
  BY <1>3
<1>7. d + 1 \in Nat
  BY <1>1
<1> HIDE DEF after
<1>8. Tallied(g, d + 1, after, "sending", raises)
  BY <1>3, <1>5, <1>7 DEF Tallied
<1>9. d + 1 = Len(g) =>
        Tallied(g, d + 1, after, "tried", IF after = <<>> THEN <<>> ELSE <<Head(after)>>)
  BY <1>3, <1>5, <1>6, <1>7 DEF Tallied
<1> QED BY <1>8, <1>9 DEF after

\* A call that has looked up a list has tried none of it.
LEMMA TypedFirst ==
  ASSUME NEW g \in Seq(Coordinators), IsInjective(g),
         NEW stage \in {"none", "sending", "refused"}, stage = "sending" => g # <<>>
  PROVE  CallTyped(g, 0, stage, <<>>)
<1>1. Len(g) \in Nat /\ (g # <<>> => Len(g) # 0) /\ <<>> \in Seq(Coordinators)
  OBVIOUS
<1> QED BY <1>1 DEF CallTyped

\* No list at all.
LEMMA TypedNone == CallTyped(<<>>, 0, "none", <<>>)
<1>1. <<>> \in Seq(Coordinators) /\ DOMAIN <<>> = {}
  OBVIOUS
<1> QED BY <1>1, TypedFirst DEF IsInjective

\* The errors are coordinators.
LEMMA TypedErrors ==
  ASSUME NEW g, NEW d, NEW errs, NEW stage, NEW exception,
         CallTyped(g, d, stage, exception), Tallied(g, d, errs, stage, exception)
  PROVE  errs \in Seq(Coordinators)
<1> DEFINE S == {g[j] : j \in 1..d}
<1>1. g \in Seq(Coordinators) /\ d \in 0..Len(g) /\ errs \in Seq(S)
  BY DEF CallTyped, Tallied
<1>2. S \subseteq Coordinators
  BY <1>1
<1> HIDE DEF S
<1>3. errs \in [1..Len(errs) -> S] /\ Len(errs) \in Nat
  BY <1>1
<1> QED BY <1>2, <1>3

\* Every call keeps its tally, whatever is looked up and whatever fails.
LEMMA CallsNext == Typed /\ CoordsTyped /\ CallsInv /\ [Next]_vars => CallsInv'
<1> SUFFICES ASSUME Typed, CoordsTyped, CallsInv, [Next]_vars PROVE CallsInv'
  OBVIOUS
<1>1. CASE UNCHANGED calls
  BY <1>1 DEF calls, CallsInv
<1>2. CASE Restart
  <2>1. \A k \in Calls : Tallied(<<>>, 0, <<>>, "none", <<>>)
    BY TalliedFirst
  <2>2. <<>> \in Seq(Coordinators)
    OBVIOUS
  <2> QED BY <1>2, <2>1, <2>2, TypedNone DEF Restart, CallsInv
<1>3. ASSUME NEW k \in Calls, Call(k) PROVE CallsInv'
  <2>1. PICK g, stage :
          /\ g \in Seq(Coordinators) /\ IsInjective(g)
          /\ stage \in {"sending", "refused"} /\ (stage = "sending" => g # <<>>)
          /\ goal' = [goal EXCEPT ![k] = g] /\ outcome' = [outcome EXCEPT ![k] = stage]
    <3>1. PICK r \in {Resolve(AllCoordinators, target) : target \in Targets} :
            /\ goal' = [goal EXCEPT ![k] = r.targets]
            /\ outcome' = [outcome EXCEPT ![k] = IF r.error = None THEN "sending" ELSE "refused"]
      BY <1>3 DEF Call
    <3> DEFINE stage == IF r.error = None THEN "sending" ELSE "refused"
    <3>2. Drawn(AllCoordinators, r)
      BY ResolveIs
    <3>3. goal' = [goal EXCEPT ![k] = r.targets] /\ outcome' = [outcome EXCEPT ![k] = stage]
      BY <3>1
    <3>4. r.targets \in Seq(Coordinators) /\ IsInjective(r.targets)
      BY <3>2, DrawnIs
    <3>5. stage \in {"sending", "refused"} /\ (stage = "sending" => r.targets # <<>>)
      BY <3>2 DEF Drawn
    <3> HIDE DEF stage
    <3> QED BY <3>3, <3>4, <3>5
  <2>2. /\ done' = [done EXCEPT ![k] = 0] /\ errors' = [errors EXCEPT ![k] = <<>>]
        /\ raised' = [raised EXCEPT ![k] = <<>>]
    BY <1>3 DEF Call
  <2>3. Tallied(g, 0, <<>>, stage, <<>>)
    BY <2>1, TalliedFirst
  <2>5. CallTyped(g, 0, stage, <<>>)
    BY <2>1, TypedFirst
  <2>4. <<>> \in Seq(Coordinators)
    OBVIOUS
  <2> QED BY <2>1, <2>2, <2>3, <2>4, <2>5 DEF CallsInv
<1>4. ASSUME NEW k \in Calls, SendEnds(k) PROVE CallsInv'
  <2>1. PICK failed \in BOOLEAN : Tries(k, failed)
    BY <1>4 DEF SendEnds
  <2> DEFINE after == IF failed THEN Append(errors[k], goal[k][done[k] + 1]) ELSE errors[k]
  <2>2. /\ outcome[k] = "sending"
        /\ done' = [done EXCEPT ![k] = done[k] + 1]
        /\ errors' = [errors EXCEPT ![k] = after]
        /\ goal' = goal
    BY <1>4, <2>1 DEF Tries, SendEnds
  <2>3. /\ Tallied(goal[k], done[k] + 1, after, "sending", raised[k])
        /\ done[k] + 1 = Len(goal[k]) =>
             Tallied(goal[k], done[k] + 1, after, "tried",
                     IF after = <<>> THEN <<>> ELSE <<Head(after)>>)
    BY TalliedNext DEF CallsInv
  <2>8. after \in Seq(Coordinators)
    <3>1. errors[k] \in Seq(Coordinators)
      BY TypedErrors DEF CallsInv
    <3>2. goal[k][done[k] + 1] \in Coordinators
      BY <2>2 DEF CallsInv, CallTyped
    <3> QED BY <3>1, <3>2
  <2> HIDE DEF after
  <2>4. done'[k] = done[k] + 1 /\ errors'[k] = after
    BY <2>2 DEF CallsInv
  <2>7. /\ goal[k] \in Seq(Coordinators) /\ IsInjective(goal[k])
        /\ done[k] + 1 \in 0..Len(goal[k])
        /\ raised[k] \in Seq(Coordinators)
    BY <2>2 DEF CallsInv, CallTyped
  <2>5. CASE done[k] + 1 = Len(goal[k])
    <3>1. /\ outcome' = [outcome EXCEPT ![k] = "tried"]
          /\ raised' = [raised EXCEPT ![k] = IF after = <<>> THEN <<>> ELSE <<Head(after)>>]
      BY <1>4, <2>2, <2>4, <2>5 DEF SendEnds, Ends
    <3> DEFINE exception == IF after = <<>> THEN <<>> ELSE <<Head(after)>>
    <3>2. CallTyped(goal[k], done[k] + 1, "tried", exception)
      <4>1. after # <<>> => Head(after) \in Coordinators
        BY <2>8
      <4>2. exception \in Seq(Coordinators)
        BY <4>1
      <4> HIDE DEF exception
      <4> QED BY <2>7, <4>2 DEF CallTyped
    <3>3. exception \in Seq(Coordinators) /\ done[k] + 1 \in Nat
      BY <2>7, <3>2 DEF CallTyped
    <3> HIDE DEF exception
    <3> QED BY <2>2, <2>3, <2>5, <2>8, <3>1, <3>2, <3>3 DEF CallsInv, exception
  <2>6. CASE done[k] + 1 # Len(goal[k])
    <3>1. UNCHANGED <<outcome, raised>>
      BY <1>4, <2>2, <2>4, <2>6 DEF SendEnds
    <3>2. CallTyped(goal[k], done[k] + 1, "sending", raised[k])
      BY <2>6, <2>7 DEF CallTyped
    <3>3. done[k] + 1 \in Nat
      BY <2>7
    <3> QED BY <2>2, <2>3, <2>8, <3>1, <3>2, <3>3 DEF CallsInv
  <2> QED BY <2>5, <2>6
<1>5. (\E e \in Entries :
         \/ SetUp(e) \/ SetUpFails(e) \/ CoordinatorReady(e) \/ Forwarded(e)
         \/ ForwardFails(e) \/ Unload(e) \/ UnloadFails(e) \/ PlatformsUnloaded(e)
         \/ ShutdownGoesOn(e) \/ Delete(e)) => UNCHANGED calls
  BY DEF SetUp, SetUpFails, CoordinatorReady, Forwarded, ForwardFails, Unload,
         UnloadFails, PlatformsUnloaded, ShutdownGoesOn, Delete
<1>6. UNCHANGED vars => UNCHANGED calls
  BY DEF vars
<1> QED BY <1>1, <1>2, <1>3, <1>4, <1>5, <1>6 DEF Next

\* The values each part of the state takes, and all that is proved of it.
Strong == IInv /\ CoordsTyped /\ CallsInv

\* Entries, coordinators and calls stay what they are together.
THEOREM StrongInductive == Spec => []Strong
<1>1. Init => Strong
  <2>1. Tallied(<<>>, 0, <<>>, "none", <<>>)
    BY TalliedFirst
  <2>2. Init => CallsInv
    <3>1. <<>> \in Seq(Coordinators)
      OBVIOUS
    <3> QED BY <2>1, <3>1, TypedNone DEF Init, CallsInv
  <2>3. Init => CoordsTyped
    BY DEF Init, CoordsTyped
  <2> QED BY <2>2, <2>3, InitInv DEF Strong
<1>2. Strong /\ [Next]_vars => Strong'
  BY InvNext, CoordsNext, CallsNext DEF Strong, IInv
<1> QED BY <1>1, <1>2, PTL DEF Spec

\* The types.
THEOREM Types == Spec => []TypeOK
<1>1. Strong => TypeOK
  <2> SUFFICES ASSUME Strong PROVE TypeOK
    OBVIOUS
  <2>1. \A k \in Calls : done[k] \in 0..Len(goal[k])
    BY DEF Strong, CallsInv, CallTyped
  <2> QED BY <2>1 DEF Strong, IInv, Typed, CoordsTyped, CallsInv, TypeOK
<1> QED BY <1>1, StrongInductive, PTL

\* A call is refused or reaches what it means, whatever the entries are doing.
THEOREM Targeted == Spec => []TargetsExact
<1>1. Strong => TargetsExact
  BY ResolveIs, Zenon DEF Strong, IInv, TargetsExact, Present
<1> QED BY <1>1, StrongInductive, PTL

\* No coordinator that a call looks up has been shut down.
THEOREM LookedUpOpen == Spec => LooksUpOpen
<1> DEFINE Looks == \A k \in Calls :
             outcome[k] # "sending" /\ outcome'[k] = "sending" =>
               ToSet(goal'[k]) \cap closed = {}
<1>1. Strong /\ [Next]_vars => Looks
  <2> SUFFICES ASSUME Strong, [Next]_vars, NEW k \in Calls,
                      outcome[k] # "sending", outcome'[k] = "sending"
               PROVE  ToSet(goal'[k]) \cap closed = {}
    OBVIOUS
  <2>1. Call(k)
    <3>1. outcome' # outcome
      OBVIOUS
    <3>2. PICK j \in Calls : Call(j) \/ SendEnds(j)
      <4>1. ~(UNCHANGED vars) /\ ~Restart
        BY <3>1 DEF vars, calls, Restart
      <4>2. (\E e \in Entries :
               \/ SetUp(e) \/ SetUpFails(e) \/ CoordinatorReady(e) \/ Forwarded(e)
               \/ ForwardFails(e) \/ Unload(e) \/ UnloadFails(e) \/ PlatformsUnloaded(e)
               \/ ShutdownGoesOn(e) \/ Delete(e)) => UNCHANGED calls
        BY DEF SetUp, SetUpFails, CoordinatorReady, Forwarded, ForwardFails, Unload,
               UnloadFails, PlatformsUnloaded, ShutdownGoesOn, Delete
      <4> QED BY <3>1, <4>1, <4>2 DEF Next, calls
    <3>3. CASE SendEnds(j)
      <4>1. outcome' = outcome \/ outcome' = [outcome EXCEPT ![j] = "tried"]
        BY <3>3 DEF SendEnds, Ends
      <4>2. DOMAIN outcome = Calls
        BY DEF Strong, CallsInv
      <4> QED BY <4>1, <4>2
    <3>4. CASE Call(j)
      <4>1. \E value : outcome' = [outcome EXCEPT ![j] = value]
        BY <3>4 DEF Call
      <4>2. j = k
        BY <4>1 DEF Strong, CallsInv
      <4> QED BY <3>4, <4>2
    <3> QED BY <3>2, <3>3, <3>4
  <2>2. PICK r \in {Resolve(AllCoordinators, target) : target \in Targets} :
          goal' = [goal EXCEPT ![k] = r.targets]
    BY <2>1 DEF Call
  <2>3. Drawn(AllCoordinators, r)
    BY ResolveIs DEF Strong, IInv
  <2>4. goal'[k] = r.targets
    BY <2>2 DEF Strong, CallsInv
  <2>5. \A c \in ToSet(r.targets) : c[1] \in ToSet(published)
    BY <2>3, DrawnIs DEF Strong, IInv
  <2>6. \A c \in closed : c[1] \notin ToSet(published)
    BY OpenWhenPublished DEF Strong, PublishedOpen
  <2> QED BY <2>4, <2>5, <2>6
<1> QED BY <1>1, StrongInductive, PTL DEF Spec, LooksUpOpen

\* A call that has ended tried every machine on its list and reports the first
\* failure and no other.
THEOREM FirstFailureReported == Spec => []AllTried
<1>1. CallsInv => AllTried
  <2> SUFFICES ASSUME CallsInv, NEW k \in Calls, outcome[k] = "tried"
               PROVE  /\ done[k] = Len(goal[k])
                      /\ raised[k] = <<>> <=> errors[k] = <<>>
                      /\ \A i \in DOMAIN goal[k] :
                           raised[k] = <<goal[k][i]>> =>
                             \A j \in 1..(i - 1) : goal[k][j] \notin ToSet(errors[k])
    BY DEF AllTried
  <2> DEFINE g == goal[k]
             errs == errors[k]
             L == Len(g)
  <2>1. /\ done[k] = L /\ errs \in Seq({g[j] : j \in 1..done[k]})
        /\ raised[k] = IF errs = <<>> THEN <<>> ELSE <<errs[1]>>
        /\ errs # <<>> =>
             \E i \in 1..L : /\ errs[1] = g[i]
                             /\ \A n \in 1..Len(errs) : \E j \in i..L : errs[n] = g[j]
    <3>1. Tallied(g, done[k], errs, "tried", raised[k])
      BY DEF CallsInv
    <3> HIDE DEF g, errs
    <3>2. done[k] = Len(g)
      BY <3>1 DEF Tallied
    <3>3. Tallied(g, Len(g), errs, "tried", raised[k])
      BY <3>1, <3>2
    <3> QED BY <3>2, <3>3 DEF Tallied
  <2>2. L \in Nat /\ DOMAIN g = 1..L /\ \A a, b \in 1..L : g[a] = g[b] => a = b
    BY DEF CallsInv, CallTyped, IsInjective
  <2>3. DOMAIN errs = 1..Len(errs)
    BY <2>1
  <2>4. ASSUME NEW i \in 1..L, raised[k] = <<g[i]>>, NEW j \in 1..(i - 1)
        PROVE  g[j] \notin ToSet(errs)
    <3>1. errs # <<>> /\ errs[1] = g[i]
      BY <2>1, <2>4
    <3>2. \A n \in 1..Len(errs) : \E h \in i..L : errs[n] = g[h]
      BY <2>1, <2>2, <3>1
    <3>3. j \in 1..L /\ j < i /\ \A h \in i..L : h \in 1..L /\ h # j
      BY <2>2, <2>4
    <3>4. \A n \in 1..Len(errs) : errs[n] # g[j]
      BY <2>2, <3>2, <3>3
    <3> QED BY <2>3, <3>4 DEF ToSet
  <2>5. raised[k] = <<>> <=> errs = <<>>
    <3>1. \A x : <<x>> # <<>>
      OBVIOUS
    <3> QED BY <2>1, <3>1
  <2>6. done[k] = L
    BY <2>1
  <2> HIDE DEF errs, L
  <2> QED BY <2>2, <2>4, <2>5, <2>6 DEF errs, L
<1>2. Strong => AllTried
  BY <1>1 DEF Strong
<1> QED BY <1>2, StrongInductive, PTL
=============================================================================
