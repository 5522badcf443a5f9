-------------------------------- MODULE Blobs -------------------------------
(***************************************************************************)
(* The machine's recipe datapoints and the catalogue that catalog.py reads *)
(* out of them.                                                            *)
(*                                                                         *)
(* A datapoint is a machine blob or None.  What decode_blob establishes of *)
(* a blob is its family, its shape (whole; cut, when it declares more      *)
(* bytes than it has; corrupt, when its CRC does not fit) and its payload, *)
(* as far as there is any.  Families that say nothing of drinks or         *)
(* profiles are live.  A name in a name blob is one element of the         *)
(* payload, Blank when the machine left its cell empty.                    *)
(***************************************************************************)
EXTENDS Integers, Sequences, FiniteSets

CONSTANTS
  Names,  \* names of the datapoints, in their order
  None,
  Blank

ASSUME NameAssumption == Names \subseteq Nat

Families == {"descriptor", "recipe", "priority", "profiles"}

-----------------------------------------------------------------------------
(* The parameter walk. *)

\* Tags of two bytes; all others have one.
Wide == {1, 9, 15}

Width(tag) == IF tag \in Wide THEN 2 ELSE 1

\* The unsigned value of the w bytes from position i on.
ValueAt(payload, i, w) ==
  IF w = 1 THEN payload[i] ELSE 256 * payload[i] + payload[i + 1]

\* A tag that comes again later keeps what it says there.
Enter(entries, tag, values) ==
  [t \in DOMAIN entries \cup {tag} |-> IF t \in DOMAIN entries THEN entries[t] ELSE values]

\* Where the field at i ends, and its k values.
FieldEnd(payload, k, i) == i + 1 + k * Width(payload[i])
FieldValues(payload, k, i) ==
  LET w == Width(payload[i])
  IN [n \in 1..k |-> ValueAt(payload, i + 1 + (n - 1) * w, w)]

\* Mutant of Walk: what is left over is dropped.
WalkPartly(payload, k) ==
  LET end == Len(payload) + 1
      from[i \in 1..end] ==
        IF i = end \/ FieldEnd(payload, k, i) > end THEN [t \in {} |-> None]
        ELSE Enter(from[FieldEnd(payload, k, i)], payload[i], FieldValues(payload, k, i))
  IN from[1]

\* parse_tlv (k = 1) and parse_triples (k = 3): each tag is followed by k
\* values; a tag that comes again replaces the earlier one; a payload that is
\* not consumed to its last byte gives nothing.
Walk(payload, k) ==
  LET end == Len(payload) + 1
      from[i \in 1..end] ==
        IF i = end THEN [t \in {} |-> None]
        ELSE LET next == FieldEnd(payload, k, i)
                 rest == IF next > end THEN None ELSE from[next]
             IN IF rest = None THEN None ELSE Enter(rest, payload[i], FieldValues(payload, k, i))
  IN from[1]

\* The grammar that the walk is meant for: payload is cut into fields, each a
\* tag and k values of the tag's width.  cuts holds where they start, and the end.
IsCut(payload, k, cuts) ==
  /\ {1, Len(payload) + 1} \subseteq cuts
  /\ \A i \in cuts : i <= Len(payload) =>
       LET next == i + 1 + k * Width(payload[i])
       IN next \in cuts /\ \A j \in cuts : i < j => next <= j

-----------------------------------------------------------------------------
(* The blobs of a poll. *)

Stripped(value) == [value EXCEPT !.padded = FALSE]

\* Mutant of Read: only the drinks' own datapoints are looked at.
ReadDrinks(props) ==
  {n \in Names : props[n] # None /\ props[n].family \in {"descriptor", "priority", "profiles"}}

\* Datapoints of the catalogue's families, readable or not (blob_family).
Read(props) == {n \in Names : props[n] # None /\ props[n].family \in Families}

\* catalog_fingerprint.
Fingerprint(props) == {<<n, Stripped(props[n])>> : n \in Read(props)}

\* Bytes that a payload needs to be filed (_MIN_PAYLOAD).
Header(family) == IF family \in {"descriptor", "priority"} THEN 1 ELSE 2

Whole(props, family) ==
  {n \in Names : /\ props[n] # None
                 /\ props[n].family = family
                 /\ props[n].shape = "whole"
                 /\ Len(props[n].payload) >= Header(family)}

\* The payloads of a family that passed every gate.
Payloads(props, family) == [n \in Whole(props, family) |-> props[n].payload]

\* A descriptor that has been cut still proves that the drink exists.
CutDrinks(props) ==
  {props[n].payload[1] :
     n \in {m \in Names : /\ props[m] # None
                          /\ props[m].family = "descriptor"
                          /\ props[m].shape = "cut"
                          /\ props[m].payload # <<>>}}

-----------------------------------------------------------------------------
(* The catalogue.  Blobs are taken in the order of their names, so that of   *)
(* several that say the same thing the last one counts.                      *)

Latest(S) == CHOOSE n \in S : \A m \in S : m <= n

\* What a recipe says after its profile and drink, a descriptor after its drink.
Params(payload) == Walk(SubSeq(payload, 3, Len(payload)), 1)
Triples(payload) == Walk(Tail(payload), 3)

\* A descriptor that cannot be parsed leaves the ranges of an earlier one.
Ranges(descriptors, b) ==
  LET parsed == {n \in DOMAIN descriptors :
                   descriptors[n][1] = b /\ Triples(descriptors[n]) # None}
  IN IF parsed = {} THEN [t \in {} |-> None]
     ELSE Triples(descriptors[Latest(parsed)])

\* Per profile, the parameters the drink has in it.
Profiles(recipes, b) ==
  LET parsed == {n \in DOMAIN recipes :
                   recipes[n][2] = b /\ Params(recipes[n]) # None}
      of(p) == {n \in parsed : recipes[n][1] = p}
  IN [p \in {recipes[n][1] : n \in parsed} |-> Params(recipes[Latest(of(p))])]

\* Per profile, its ordered short list.
PriorityLists(lists) ==
  LET of(p) == {n \in DOMAIN lists : lists[n][1] = p}
  IN [p \in {lists[n][1] : n \in DOMAIN lists} |-> Tail(lists[Latest(of(p))])]

\* decode_slot_cells: the slots from the first to the last that have a cell.
Cells(payload) ==
  LET held == {i \in 3..Len(payload) : payload[1] + i - 3 <= payload[2]}
  IN [s \in {payload[1] + i - 3 : i \in held} |-> payload[s - payload[1] + 3]]

\* What the machine says of drink b, with the signals that _finalize derives.
Entry(descriptors, recipes, lists, cut, b) ==
  LET ranges == Ranges(descriptors, b)
      profiles == Profiles(recipes, b)
      listed == {p \in DOMAIN lists : \E i \in DOMAIN lists[p] : lists[p][i] = b}
      told(t) == {p \in DOMAIN profiles : t \in DOMAIN profiles[p]}
      pours(p) == \E t \in {1, 9, 15} \cap DOMAIN profiles[p] : profiles[p][t] # <<0>>
      tags == UNION {DOMAIN profiles[p] : p \in DOMAIN profiles}
  IN [declared |-> b \in cut \/ \E n \in DOMAIN descriptors : descriptors[n][1] = b,
      truncated |-> b \in cut,
      ranges |-> ranges,
      profiles |-> profiles,
      in_priority_list |-> IF DOMAIN lists = {} THEN None ELSE listed # {},
      priority_position |->
        [p \in listed |-> Latest({i \in DOMAIN lists[p] : lists[p][i] = b})],
      defined |-> IF b \in 230..235 /\ DOMAIN profiles # {}
                  THEN \E p \in DOMAIN profiles : pours(p) ELSE None,
      profiles_differ |->
        \E t \in tags, p, q \in DOMAIN profiles :
          \/ p \in told(t) /\ q \notin told(t)
          \/ {p, q} \subseteq told(t) /\ profiles[p][t] # profiles[q][t],
      off_default |->
        IF DOMAIN ranges = {} \/ DOMAIN profiles = {} THEN None
        ELSE [t \in {r \in DOMAIN ranges : told(r) # {}} |->
                \E p \in told(t) : profiles[p][t] # <<ranges[t][2]>>]]

\* The ids of everything that is mentioned.
Mentioned(descriptors, recipes, lists, cut) ==
  cut \cup {descriptors[n][1] : n \in DOMAIN descriptors}
      \cup {recipes[n][2] : n \in DOMAIN recipes}
      \cup UNION {{lists[p][i] : i \in DOMAIN lists[p]} : p \in DOMAIN lists}

Catalogue(descriptors, recipes, lists, cells, cut) ==
  [beverages |-> [b \in Mentioned(descriptors, recipes, lists, cut) |->
                    Entry(descriptors, recipes, lists, cut, b)],
   priority_lists |-> lists,
   cells |-> cells]

\* The cells of the profile blobs; a slot keeps the last name that was no blank.
ProfileCells(blobs) ==
  LET holding(s) == {n \in DOMAIN blobs : s \in DOMAIN Cells(blobs[n])}
      naming(s) == {n \in holding(s) : Cells(blobs[n])[s] # Blank}
  IN [s \in UNION {DOMAIN Cells(blobs[n]) : n \in DOMAIN blobs} |->
        IF naming(s) = {} THEN Blank ELSE Cells(blobs[Latest(naming(s))])[s]]

\* build_catalog.
Build(props) ==
  Catalogue(Payloads(props, "descriptor"), Payloads(props, "recipe"),
            PriorityLists(Payloads(props, "priority")),
            ProfileCells(Payloads(props, "profiles")), CutDrinks(props))

Empty(catalog) == DOMAIN catalog.beverages = {}

-----------------------------------------------------------------------------
(* What the rest of the integration asks of the catalogue. *)

\* catalog_beverage_ids: a drink that is only listed is not declared.
Declared(catalog) ==
  IF catalog = None THEN {}
  ELSE {b \in DOMAIN catalog.beverages : catalog.beverages[b].declared}

\* catalog_profile_slots: whatever names a profile.
Witnessed(catalog) ==
  {s \in DOMAIN catalog.cells : catalog.cells[s] # Blank}
  \cup (UNION {DOMAIN catalog.beverages[b].profiles : b \in DOMAIN catalog.beverages})
  \cup DOMAIN catalog.priority_lists

\* catalog_profile_labels: the slots the display offers, which are those that
\* have a cell if there is any.
Offered(catalog) ==
  IF catalog = None THEN {}
  ELSE IF DOMAIN catalog.cells # {} THEN DOMAIN catalog.cells ELSE Witnessed(catalog)
=============================================================================
