------------------------ MODULE FrameLearningProofs -------------------------
(***************************************************************************)
(* Proofs, for any number of coordinators, entries, drinks and writes and  *)
(* a ring of any size, that a coordinator learns only what others wrote,   *)
(* that the machine's id follows what is learned, and that a restart gives *)
(* it back.                                                                *)
(***************************************************************************)
EXTENDS FrameLearning, FiniteSetTheorems, TLAPS

Values == Posts \cup {Relic, None}
Authors == Coords \cup {"app", "earlier", "nobody"}
Post == [by : Authors, state : {"unwritten", "flying", "landed"},
         kind : Kinds, tail : Tails, padded : BOOLEAN]

\* What stands in the tables, in the store, on the channel or in a memory has
\* been on the channel.
Seen(p) == p # None => post[p].state = "landed"

AllSeen ==
  /\ Seen(channel)
  /\ \A s \in Slots : Seen(disk[s])
  /\ \A c \in Coords : reading[c] # "idle" => Seen(reading[c])
  /\ \A c \in Coords : Seen(first[c])
  /\ \A c \in Coords, s \in Slots : Seen(learned[c][s])

\* Only living coordinators poll.
Polling == \A c \in Coords : reading[c] # "idle" => c \in Alive

\* The store holds drinks under their own keys; its power-on may be anything.
StoreHoldsDrinks == \A b \in Brews : disk[b] # None => post[disk[b]].kind = b

\* A coordinator that has the store to itself has in it what it learned, or a
\* save due; what is promised to the next one is there.
StoreFollows ==
  /\ \A c \in Alive \ apart :
       /\ Alive = {c}
       /\ \A d \in Coords : pending[d] => d = c
       /\ ~pending[c] => Sanitised(disk) = learned[c]
  /\ kept # None => /\ Alive = {}
                    /\ \A d \in Coords : ~pending[d]
                    /\ Sanitised(disk) = kept

\* What was on the channel at the first look does not come back once something
\* else has been seen there.
FirstIsPast ==
  \A c \in Coords :
    /\ marker[c] = None <=> first[c] = None
    /\ first[c] # None /\ marker[c] # first[c] => reading[c] # first[c] /\ channel # first[c]
    /\ first[c] # None /\ reading[c] \notin {"idle", None, first[c]} => channel # first[c]

\* The ring holds the end of what was sent.
EndOf(ring, o) ==
  /\ Len(ring) = IF Len(o) < RingSize THEN Len(o) ELSE RingSize
  /\ \A n \in 1..Len(ring) : ring[n] = o[Len(o) - Len(ring) + n]

\* What c sent, when the writes are those of f, are all its writes, once each.
SentOnce(c, o, f) ==
  /\ \A m, n \in 1..Len(o) : o[m] = o[n] => m = n
  /\ \A n \in 1..Len(o) : f[o[n]].state # "unwritten"
  /\ \A p \in Posts : f[p].by = c => \E n \in 1..Len(o) : o[n] = p

RingIsEnd ==
  \A c \in Coords : EndOf(sent[c], order[c]) /\ SentOnce(c, order[c], post)

IInv ==
  /\ TypeOK
  /\ AllSeen
  /\ Polling
  /\ StoreHoldsDrinks
  /\ SlotsHoldTheirKind
  /\ IdFollowsFrames
  /\ StoreFollows
  /\ FirstIsPast
  /\ RingIsEnd

-----------------------------------------------------------------------------
(* Types. *)

\* The type of the state, in parts that can be cited.
LEMMA Parts ==
  ASSUME TypeOK
  PROVE  /\ life \in [Coords -> {"absent", "loaded", "up", "gone"}]
         /\ learned \in [Coords -> [Slots -> Values]]
         /\ id \in [Coords -> Tails]
         /\ post \in [Posts \cup {Relic} -> Post]
         /\ channel \in Values /\ disk \in [Slots -> Values]
         /\ reading \in [Coords -> Values \cup {"idle"}]
         /\ marker \in [Coords -> Values] /\ first \in [Coords -> Values]
         /\ pending \in [Coords -> BOOLEAN]
BY DEF TypeOK, Tables, Values, Post, Authors

\* The tail that a slot gives.
LEMMA TailType ==
  ASSUME TypeOK, NEW p \in Values
  PROVE  TailOf(p) \in Tails
<1>1. p # None => p \in Posts \cup {Relic}
  BY DEF Values
<1>2. p # None => post[p].tail \in Tails
  BY <1>1, Parts DEF Post
<1> QED BY <1>2 DEF TailOf, Tails

\* A machine's signature is a tail.
LEMMA SignatureType ==
  ASSUME TypeOK, NEW t \in Tables
  PROVE  Signature(t) \in Tails
<1> DEFINE signing == {b \in Brews : TailOf(t[b]) # "none"}
<1>1. \A s \in Slots : TailOf(t[s]) \in Tails
  BY TailType DEF Tables, Values
<1>2. signing # {} => (CHOOSE b \in signing : TRUE) \in Slots
  BY DEF Slots
<1>3. "none" \in Tails /\ "wake" \in Slots
  BY DEF Tails, Slots
<1> QED BY <1>1, <1>2, <1>3 DEF Signature

\* Nothing is put into the tables by their sanitising.
LEMMA SanitisedType == \A t \in Tables : Sanitised(t) \in Tables
BY DEF Sanitised, Tables, Slots

\* No tables are tables.
LEMMA NoTablesType == NoTables \in Tables
BY DEF NoTables, Tables

\* What a coordinator may write is a frame.
LEMMA CommandsType ==
  ASSUME TypeOK, NEW c \in Coords
  PROVE  Commands(c) \subseteq [kind : Kinds, tail : Tails, padded : BOOLEAN]
<1>1. OwnTail(c) \in Tails
  BY Parts DEF OwnTail, Tails
<1>2. \A b \in Brews : TailOf(learned[c][b]) \in Tails
  BY TailType, Parts DEF Slots
<1>3. {"wake", "other"} \subseteq Kinds /\ Brews \subseteq Kinds /\ Slots \subseteq Kinds
  BY DEF Kinds, Slots
<1>4. {"machine", "none"} \subseteq Tails
  BY DEF Tails
<1> DEFINE all == [kind : Kinds, tail : Tails, padded : BOOLEAN]
           replays == {b \in Brews : learned[c][b] # None}
<1>5. Frames({"wake"}, {OwnTail(c), "machine"}, {FALSE}) \subseteq all
  BY <1>1, <1>3, <1>4 DEF Frames
<1>6. \A b \in replays : Frames({b}, {TailOf(learned[c][b])}, {FALSE}) \subseteq all
  BY <1>2, <1>3 DEF Frames
<1>7. (UNION {Frames({b}, {TailOf(learned[c][b])}, {FALSE}) : b \in replays}) \subseteq all
  BY <1>6
<1>8. Frames({"other"}, {"none"}, {FALSE}) \subseteq all
  BY <1>3, <1>4 DEF Frames
<1>9. Frames(Slots, {"machine"}, BOOLEAN) \subseteq all
  BY <1>3, <1>4 DEF Frames
<1> QED BY <1>5, <1>7, <1>8, <1>9 DEF Commands

\* The ring of sent values is bounded.
LEMMA RecordedType ==
  ASSUME NEW ring \in Seq(Posts), Len(ring) <= RingSize, NEW p \in Posts
  PROVE  Recorded(ring, p) \in Seq(Posts) /\ Len(Recorded(ring, p)) <= RingSize
<1>1. CASE Len(ring) < RingSize
  BY <1>1, RingAssumption, SMT DEF Recorded
<1>2. CASE Len(ring) = RingSize
  <2>1. Recorded(ring, p) = Append(SubSeq(ring, 2, RingSize), p)
    BY <1>2, RingAssumption DEF Recorded
  <2>2. SubSeq(ring, 2, RingSize) \in Seq(Posts) /\ Len(SubSeq(ring, 2, RingSize)) = RingSize - 1
    BY <1>2, RingAssumption, SMT
  <2> QED BY <2>1, <2>2, RingAssumption, SMT
<1> QED BY <1>1, <1>2, RingAssumption, SMT

\* No coordinator, and nothing learned or sent.
LEMMA TypeInit == Init => TypeOK
<1> SUFFICES ASSUME Init PROVE TypeOK
  OBVIOUS
<1>1. /\ life \in [Coords -> {"absent", "loaded", "up", "gone"}]
      /\ sent \in [Coords -> Seq(Posts)] /\ order \in [Coords -> Seq(Posts)]
      /\ pending \in [Coords -> BOOLEAN] /\ apart \subseteq Coords
  BY DEF Init
<1>2. \A c \in Coords : Len(sent[c]) <= RingSize
  BY RingAssumption DEF Init
<1>3. learned \in [Coords -> Tables] /\ kept \in Tables \cup {None}
  BY NoTablesType DEF Init
<1>4. disk \in Tables /\ channel \in Posts \cup {Relic, None}
  BY NoTablesType DEF Init, Tables, NoTables
<1>5. /\ marker \in [Coords -> Posts \cup {Relic, None}]
      /\ first \in [Coords -> Posts \cup {Relic, None}]
      /\ reading \in [Coords -> Posts \cup {Relic, None, "idle"}]
      /\ id \in [Coords -> Tails]
  BY DEF Init, Tails
<1>6. post \in [Posts \cup {Relic} -> Post]
  BY DEF Init, Post, Authors, Kinds, Slots, Tails
<1> QED BY <1>1, <1>2, <1>3, <1>4, <1>5, <1>6 DEF TypeOK, Post, Authors

\* A coordinator starts with tables.
LEMMA StartsType ==
  ASSUME TypeOK, NEW c \in Coords, NEW t \in Tables, Starts(c, t), apart' \subseteq Coords
  PROVE  TypeOK'
<1>1. life' \in [Coords -> {"absent", "loaded", "up", "gone"}] /\ learned' \in [Coords -> Tables]
  BY DEF TypeOK, Starts
<1>2. id' \in [Coords -> Tails]
  BY SignatureType DEF TypeOK, Starts, IdAfterLoad
<1>3. kept' \in Tables \cup {None}
  BY DEF Starts
<1> QED BY <1>1, <1>2, <1>3 DEF TypeOK, Starts

\* What is promised are tables.
LEMMA PromisedType ==
  ASSUME TypeOK, NEW C \in SUBSET Coords, NEW saved, C # {}
  PROVE  Promised(C, saved) \in Tables \cup {None}
<1>1. (CHOOSE c \in C : TRUE) \in Coords
  OBVIOUS
<1> QED BY <1>1 DEF Promised, TypeOK

\* Coordinators leave.
LEMMA LeaveType ==
  ASSUME TypeOK, NEW C \in SUBSET Coords, NEW saved, Leave(C, saved),
         pending' \in [Coords -> BOOLEAN], disk' \in Tables
  PROVE  TypeOK'
<1>1. life' \in [Coords -> {"absent", "loaded", "up", "gone"}]
  BY DEF TypeOK, Leave
<1>2. learned' \in [Coords -> Tables]
  BY NoTablesType DEF TypeOK, Leave, Reset
<1>3. /\ id' \in [Coords -> Tails] /\ marker' \in [Coords -> Posts \cup {Relic, None}]
      /\ reading' \in [Coords -> Posts \cup {Relic, None, "idle"}]
      /\ first' \in [Coords -> Posts \cup {Relic, None}]
  BY DEF TypeOK, Leave, Reset, Tails
<1>4. sent' \in [Coords -> Seq(Posts)] /\ order' \in [Coords -> Seq(Posts)]
  BY DEF TypeOK, Leave, Reset
<1>5. \A c \in Coords : Len(sent'[c]) <= RingSize
  BY RingAssumption DEF TypeOK, Leave, Reset
<1>6. post' \in [Posts \cup {Relic} -> Post]
  <2>1. DOMAIN post = Posts \cup {Relic}
    BY DEF TypeOK
  <2>2. \A r \in Post : [r EXCEPT !.by = "earlier"] \in Post
    BY DEF Post, Authors
  <2>3. \A p \in Posts \cup {Relic} : post[p] \in Post
    BY Parts
  <2> QED BY <2>1, <2>2, <2>3 DEF Leave
<1>7. kept' \in Tables \cup {None} /\ apart' \subseteq Coords /\ channel' = channel
  BY PromisedType DEF Leave, TypeOK
<1> QED BY <1>1, <1>2, <1>3, <1>4, <1>5, <1>6, <1>7 DEF TypeOK, Post, Authors

\* The sniffer is done with what a poll found.
LEMMA FinishType ==
  ASSUME TypeOK, NEW c \in Coords, Finish(c),
         learned' \in [Coords -> Tables], id' \in [Coords -> Tails],
         pending' \in [Coords -> BOOLEAN]
  PROVE  TypeOK'
<1>1. /\ life' \in [Coords -> {"absent", "loaded", "up", "gone"}]
      /\ reading' \in [Coords -> Posts \cup {Relic, None, "idle"}]
  BY DEF TypeOK, Finish
<1>2. marker' \in [Coords -> Posts \cup {Relic, None}] /\ first' \in [Coords -> Posts \cup {Relic, None}]
  BY DEF TypeOK, Finish
<1> QED BY <1>1, <1>2 DEF TypeOK, Finish

\* The state keeps its type with every step.
LEMMA TypeNext == TypeOK /\ [Next]_vars => TypeOK'
<1> SUFFICES ASSUME TypeOK, [Next]_vars PROVE TypeOK'
  OBVIOUS
<1>1. ASSUME NEW c \in Coords, Load(c) PROVE TypeOK'
  <2>1. Sanitised(disk) \in Tables /\ apart' \subseteq Coords
    BY <1>1, SanitisedType DEF TypeOK, Load, Alive
  <2> QED BY <1>1, <2>1, StartsType DEF Load
<1>2. ASSUME NEW c \in Coords, LoadFails(c) PROVE TypeOK'
  <2>1. apart' \subseteq Coords
    BY <1>2 DEF TypeOK, LoadFails, Alive
  <2> QED BY <1>2, <2>1, StartsType, NoTablesType DEF LoadFails
<1>3. ASSUME NEW c \in Coords, Unload(c) PROVE TypeOK'
  <2>1. {c} \in SUBSET Coords /\ pending' \in [Coords -> BOOLEAN] /\ disk' \in Tables
    BY <1>3 DEF TypeOK, Unload
  <2> QED BY <1>3, <2>1, LeaveType DEF Unload
<1>4. CASE Shutdown
  <2>1. Alive \in SUBSET Coords /\ pending' \in [Coords -> BOOLEAN] /\ disk' \in Tables
    BY <1>4 DEF TypeOK, Shutdown, Alive
  <2> QED BY <1>4, <2>1, LeaveType DEF Shutdown
<1>5. CASE Crash
  <2>1. Alive \in SUBSET Coords /\ pending' \in [Coords -> BOOLEAN] /\ disk' \in Tables
    BY <1>5 DEF TypeOK, Crash, Alive
  <2>2. Leave(Alive, FALSE)
    BY <1>5 DEF Crash
  <2> QED BY <2>1, <2>2, LeaveType, Zenon
<1>6. ASSUME NEW c \in Coords, Save(c) PROVE TypeOK'
  <2>1. learned' \in [Coords -> Tables] /\ life' \in [Coords -> {"absent", "loaded", "up", "gone"}]
    <3>1. CASE life[c] = "gone"
      <4>1. learned' = [learned EXCEPT ![c] = NoTables] /\ life' = [life EXCEPT ![c] = "absent"]
        BY <1>6, <3>1 DEF Save
      <4>2. learned' \in [Coords -> Tables]
        BY <4>1, NoTablesType DEF TypeOK
      <4> QED BY <4>1, <4>2 DEF TypeOK
    <3>2. CASE life[c] # "gone"
      BY <1>6, <3>2 DEF TypeOK, Save
    <3> QED BY <3>1, <3>2
  <2>2. disk' \in Tables /\ pending' \in [Coords -> BOOLEAN]
    BY <1>6 DEF TypeOK, Save
  <2> QED BY <1>6, <2>1, <2>2 DEF TypeOK, Save, history
<1>7. ASSUME NEW c \in Coords, Fetch(c) PROVE TypeOK'
  <2>1. reading' \in [Coords -> Posts \cup {Relic, None, "idle"}]
    BY <1>7 DEF TypeOK, Fetch
  <2> QED BY <1>7, <2>1 DEF TypeOK, Fetch, history
<1>8. ASSUME NEW c \in Coords, FetchFails(c) PROVE TypeOK'
  <2>1. reading' \in [Coords -> Posts \cup {Relic, None, "idle"}]
    BY <1>8 DEF TypeOK, FetchFails
  <2> QED BY <1>8, <2>1 DEF TypeOK, FetchFails, history
<1>9. ASSUME NEW c \in Coords, Pass(c) PROVE TypeOK'
  <2>1. learned' \in [Coords -> Tables] /\ id' \in [Coords -> Tails] /\ pending' \in [Coords -> BOOLEAN]
    BY <1>9 DEF TypeOK, Pass
  <2> QED BY <1>9, <2>1, FinishType DEF Pass
<1>10. ASSUME NEW c \in Coords, NEW p \in Posts, Learn(c, p) PROVE TypeOK'
  <2>1. learned'[c] \in Tables /\ learned' \in [Coords -> Tables]
    <3>1. [learned[c] EXCEPT ![post[p].kind] = p] \in Tables
      BY DEF TypeOK, Tables
    <3> QED BY <1>10, <3>1 DEF TypeOK, Learn
  <2>2. id' \in [Coords -> Tails]
    BY <1>10, <2>1, SignatureType DEF TypeOK, Learn, Refreshed
  <2>3. pending' \in [Coords -> BOOLEAN]
    BY <1>10 DEF TypeOK, Learn, Due
  <2> QED BY <1>10, <2>1, <2>2, <2>3, FinishType DEF Learn
<1>11. ASSUME NEW c \in Coords, NEW p \in Posts, Send(c, p) PROVE TypeOK'
  <2>1. PICK f \in Commands(c) :
          post' = [post EXCEPT ![p] = [by |-> c, state |-> "flying", kind |-> f.kind,
                                       tail |-> f.tail, padded |-> f.padded]]
    BY <1>11 DEF Send
  <2>2. [by |-> c, state |-> "flying", kind |-> f.kind, tail |-> f.tail, padded |-> f.padded] \in Post
    BY <2>1, CommandsType DEF Post, Authors
  <2>3. post' \in [Posts \cup {Relic} -> Post]
    BY <2>1, <2>2, Parts
  <2>4. /\ sent' \in [Coords -> Seq(Posts)]
        /\ \A d \in Coords : Len(sent'[d]) <= RingSize
    BY <1>11, RecordedType DEF TypeOK, Send
  <2>5. order' \in [Coords -> Seq(Posts)]
    <3>1. Append(order[c], p) \in Seq(Posts) /\ order \in [Coords -> Seq(Posts)]
      BY DEF TypeOK
    <3>2. order' = [order EXCEPT ![c] = Append(order[c], p)]
      BY <1>11 DEF Send
    <3> QED BY <3>1, <3>2
  <2>6. UNCHANGED <<life, learned, id, marker, reading, pending, channel, disk, first, apart, kept>>
    BY <1>11 DEF Send
  <2> QED BY <2>3, <2>4, <2>5, <2>6 DEF TypeOK, Post, Authors
<1>12. ASSUME NEW p \in Posts, Land(p) PROVE TypeOK'
  <2>1. [post[p] EXCEPT !.state = "landed"] \in Post
    BY Parts DEF Post
  <2>2. post' = [post EXCEPT ![p] = [post[p] EXCEPT !.state = "landed"]]
    BY <1>12 DEF Land
  <2>3. post' \in [Posts \cup {Relic} -> Post]
    BY <2>1, <2>2, Parts
  <2> QED BY <1>12, <2>3 DEF TypeOK, Land, perCoord, history, Post, Authors
<1>13. ASSUME NEW p \in Posts, AppWrites(p) PROVE TypeOK'
  <2>1. PICK kind \in Kinds :
          post' = [post EXCEPT ![p] = [by |-> "app", state |-> "landed", kind |-> kind,
                                       tail |-> "machine", padded |-> FALSE]]
    BY <1>13 DEF AppWrites
  <2>2. post' \in [Posts \cup {Relic} -> Post]
    BY <2>1, Parts DEF Post, Authors, Tails
  <2> QED BY <1>13, <2>2 DEF TypeOK, AppWrites, perCoord, history, Post, Authors
<1>14. CASE UNCHANGED vars
  BY <1>14 DEF TypeOK, vars, perCoord, history
<1> QED
  BY <1>1, <1>2, <1>3, <1>4, <1>5, <1>6, <1>7, <1>8, <1>9, <1>10, <1>11, <1>12, <1>13, <1>14
  DEF Next

\* Every part of the state keeps its type, for any number of coordinators,
\* writes and drinks, and the ring its bound.
THEOREM Types == Spec => []TypeOK
BY TypeInit, TypeNext, PTL DEF Spec

-----------------------------------------------------------------------------
(* What has been on the channel. *)

\* A write that has landed stays as it is; only its author may be forgotten.
LEMMA LandedStays ==
  ASSUME TypeOK, [Next]_vars, NEW p \in Posts \cup {Relic}, post[p].state = "landed"
  PROVE  /\ post'[p].state = "landed"
         /\ post'[p].kind = post[p].kind
         /\ post'[p].tail = post[p].tail
<1>1. DOMAIN post = Posts \cup {Relic} /\ post[p] \in Post
  BY Parts
<1>2. CASE UNCHANGED post
  BY <1>2
<1>3. ASSUME NEW C, NEW saved, Leave(C, saved) PROVE
        /\ post'[p].state = "landed"
        /\ post'[p].kind = post[p].kind
        /\ post'[p].tail = post[p].tail
  <2>1. post'[p] = IF post[p].by \in C THEN [post[p] EXCEPT !.by = "earlier"] ELSE post[p]
    BY <1>1, <1>3 DEF Leave
  <2> QED BY <1>1, <2>1 DEF Post
<1>4. ASSUME NEW c \in Coords, NEW q \in Posts, Send(c, q) PROVE post'[p] = post[p]
  <2>1. q # p
    BY <1>4 DEF Send
  <2> QED BY <1>1, <1>4, <2>1 DEF Send
<1>5. ASSUME NEW q \in Posts, AppWrites(q) PROVE post'[p] = post[p]
  <2>1. q # p
    BY <1>5 DEF AppWrites
  <2> QED BY <1>1, <1>5, <2>1 DEF AppWrites
<1>6. ASSUME NEW q \in Posts, Land(q) PROVE post'[p] = post[p]
  <2>1. q # p
    BY <1>6 DEF Land
  <2> QED BY <1>1, <1>6, <2>1 DEF Land
<1>7. \A c \in Coords :
        /\ Load(c) \/ LoadFails(c) \/ Save(c) \/ Fetch(c) \/ FetchFails(c) \/ Pass(c) => UNCHANGED post
        /\ \A q \in Posts : Learn(c, q) => UNCHANGED post
  BY DEF Load, LoadFails, Starts, Save, Fetch, FetchFails, Pass, Learn, Finish
<1>8. UNCHANGED vars => UNCHANGED post
  BY DEF vars
<1> QED
  BY <1>2, <1>3, <1>4, <1>5, <1>6, <1>7, <1>8 DEF Next, Unload, Shutdown, Crash

\* So does what has been seen.
LEMMA SeenStays ==
  ASSUME TypeOK, [Next]_vars, NEW p \in Values, Seen(p)
  PROVE  Seen(p)'
BY LandedStays DEF Seen, Values

\* Nothing moves from one place to another that was not seen at the first.
LEMMA SeenNext == TypeOK /\ AllSeen /\ [Next]_vars => AllSeen'
<1> SUFFICES ASSUME TypeOK, AllSeen, [Next]_vars PROVE AllSeen'
  OBVIOUS
<1> DEFINE Kept(p) == p # None => post'[p].state = "landed"
<1>1. \A p \in Values : Seen(p) => Kept(p)
  BY SeenStays DEF Seen
<1>2. /\ Kept(None) /\ Kept(channel)
      /\ \A s \in Slots : Kept(disk[s])
      /\ \A c \in Coords : /\ reading[c] # "idle" => Kept(reading[c])
                           /\ Kept(first[c])
                           /\ \A s \in Slots : Kept(learned[c][s])
  <2>1. Kept(None)
    OBVIOUS
  <2> QED BY <1>1, <2>1, Parts DEF AllSeen
<1> SUFFICES /\ Kept(channel')
             /\ \A s \in Slots : Kept(disk'[s])
             /\ \A c \in Coords : /\ reading'[c] # "idle" => Kept(reading'[c])
                                  /\ Kept(first'[c])
                                  /\ \A s \in Slots : Kept(learned'[c][s])
  BY DEF AllSeen, Seen
<1> HIDE DEF Kept
<1> USE Parts
<1>3. ASSUME NEW c \in Coords, NEW t, \A s \in Slots : Kept(t[s]), Starts(c, t)
      PROVE  /\ UNCHANGED <<channel, disk, reading, first>>
             /\ \A d \in Coords, s \in Slots : Kept(learned'[d][s])
  BY <1>2, <1>3 DEF Starts
<1>4. \A c \in Coords : Load(c) => Starts(c, Sanitised(disk))
  BY DEF Load
<1>5. \A s \in Slots : Kept(Sanitised(disk)[s]) /\ Kept(NoTables[s])
  BY <1>2 DEF Sanitised, NoTables
<1>6. ASSUME NEW C, NEW saved, Leave(C, saved)
      PROVE  /\ UNCHANGED channel
             /\ \A c \in Coords : /\ reading'[c] # "idle" => Kept(reading'[c])
                                  /\ Kept(first'[c])
                                  /\ \A s \in Slots : Kept(learned'[c][s])
  BY <1>2, <1>6 DEF Leave, Reset, NoTables
<1>7. ASSUME NEW c \in Coords, Save(c)
      PROVE  /\ UNCHANGED <<channel, reading, first>>
             /\ \A s \in Slots : Kept(disk'[s])
             /\ \A d \in Coords, s \in Slots : Kept(learned'[d][s])
  <2>1. UNCHANGED <<channel, reading, first>> /\ disk' = learned[c]
    BY <1>7 DEF Save, history
  <2>2. learned' = learned \/ learned' = [learned EXCEPT ![c] = NoTables]
    BY <1>7 DEF Save
  <2> QED BY <1>2, <2>1, <2>2 DEF NoTables
<1>8. ASSUME NEW c \in Coords, Finish(c)
      PROVE  /\ UNCHANGED <<channel, disk>>
             /\ \A d \in Coords : /\ reading'[d] # "idle" => Kept(reading'[d])
                                  /\ Kept(first'[d])
  BY <1>2, <1>8 DEF Finish
<1>9. ASSUME NEW c \in Coords, NEW p \in Posts, Learn(c, p)
      PROVE  \A d \in Coords, s \in Slots : Kept(learned'[d][s])
  <2>1. reading[c] = p /\ p # "idle" /\ learned' = [learned EXCEPT ![c][post[p].kind] = p]
    BY <1>9, MarkerAssumption DEF Learn, Teaches
  <2>2. Kept(p)
    BY <1>2, <2>1
  <2> QED BY <1>2, <2>1, <2>2
<1>10. ASSUME NEW c \in Coords, Fetch(c) \/ FetchFails(c)
       PROVE  /\ UNCHANGED <<channel, disk, learned, first>>
              /\ \A d \in Coords : reading'[d] # "idle" => Kept(reading'[d])
  BY <1>2, <1>10 DEF Fetch, FetchFails, history
<1>11. ASSUME NEW p \in Posts, Land(p) \/ AppWrites(p)
       PROVE  /\ UNCHANGED <<disk, learned, first, reading>>
              /\ Kept(channel')
  <2>1. post'[p].state = "landed"
    <3>1. Land(p) => post'[p] = [post[p] EXCEPT !.state = "landed"]
      BY DEF Land
    <3>2. \A r \in Post : [r EXCEPT !.state = "landed"].state = "landed"
      BY DEF Post
    <3>3. post[p] \in Post
      OBVIOUS
    <3>4. AppWrites(p) => post'[p].state = "landed"
      BY DEF AppWrites
    <3> QED BY <1>11, <3>1, <3>2, <3>3, <3>4
  <2> QED BY <1>11, <2>1 DEF Land, AppWrites, perCoord, history, Kept
<1>12. \A c \in Coords, p \in Posts : Send(c, p) => UNCHANGED <<channel, disk, learned, first, reading>>
  BY DEF Send
<1>13. \A c \in Coords : Pass(c) => Finish(c) /\ UNCHANGED learned
  BY DEF Pass
<1>14. UNCHANGED vars => UNCHANGED <<channel, disk, learned, first, reading>>
  BY DEF vars, perCoord, history
<1>15. ASSUME Shutdown PROVE \A s \in Slots : Kept(disk'[s])
  BY <1>2, <1>15 DEF Shutdown
<1>16. CASE \E c \in Coords : Load(c) \/ LoadFails(c)
  BY <1>2, <1>3, <1>4, <1>5, <1>16 DEF LoadFails
<1>17. CASE (\E c \in Coords : Unload(c)) \/ Shutdown \/ Crash
  BY <1>2, <1>6, <1>15, <1>17 DEF Unload, Shutdown, Crash
<1>18. CASE \E c \in Coords : Save(c) \/ Fetch(c) \/ FetchFails(c)
  BY <1>2, <1>7, <1>10, <1>18
<1>19. CASE \E c \in Coords : Pass(c) \/ \E p \in Posts : Learn(c, p)
  BY <1>2, <1>8, <1>9, <1>13, <1>19 DEF Learn
<1>20. CASE \E p \in Posts : Land(p) \/ AppWrites(p) \/ \E c \in Coords : Send(c, p)
  BY <1>2, <1>11, <1>12, <1>20
<1>21. CASE UNCHANGED vars
  BY <1>2, <1>14, <1>21
<1> QED BY <1>16, <1>17, <1>18, <1>19, <1>20, <1>21 DEF Next

\* To begin with, what is on the channel or in the store is the app's.
LEMMA SeenInit == Init => AllSeen
<1> SUFFICES ASSUME Init PROVE AllSeen
  OBVIOUS
<1>1. post[Relic].state = "landed"
  BY DEF Init
<1> QED BY <1>1 DEF Init, AllSeen, Seen, NoTables

-----------------------------------------------------------------------------
(* What the tables hold. *)

\* To begin with nothing is learned, and the store holds no drink.
LEMMA HeldInit == Init => StoreHoldsDrinks /\ SlotsHoldTheirKind
<1> SUFFICES ASSUME Init PROVE StoreHoldsDrinks /\ SlotsHoldTheirKind
  OBVIOUS
<1>1. \A b \in Brews : disk[b] = None
  <2>1. \A b \in Brews : b \in Slots /\ b # "wake"
    BY MarkerAssumption DEF Slots
  <2>2. \A t \in {NoTables, [NoTables EXCEPT !["wake"] = Relic]}, b \in Brews : t[b] = None
    BY <2>1 DEF NoTables
  <2> QED BY <2>2 DEF Init
<1>2. \A c \in Coords, s \in Slots : learned[c][s] = None
  BY DEF Init, NoTables
<1> QED BY <1>1, <1>2 DEF StoreHoldsDrinks, SlotsHoldTheirKind

\* What is sanitised holds each kind under its own key.
LEMMA SanitisedHolds ==
  ASSUME TypeOK, NEW t \in Tables, \A b \in Brews : t[b] # None => post[t[b]].kind = b
  PROVE  \A s \in Slots : Sanitised(t)[s] # None => post[Sanitised(t)[s]].kind = s
BY MarkerAssumption DEF Sanitised, Tables, Slots

\* Neither a capture, a load nor a save puts a frame under a wrong key.
LEMMA HeldNext ==
  ASSUME TypeOK, AllSeen, StoreHoldsDrinks, SlotsHoldTheirKind, [Next]_vars
  PROVE  StoreHoldsDrinks' /\ SlotsHoldTheirKind'
<1> DEFINE Kept(p, s) == p # None => post'[p].kind = s
<1>1. \A p \in Values, s \in Slots :
        Seen(p) /\ (p # None => post[p].kind = s) => Kept(p, s)
  BY LandedStays DEF Seen, Values
<1>2. /\ \A s \in Slots : Kept(None, s)
      /\ \A b \in Brews : Kept(disk[b], b)
      /\ \A c \in Coords, s \in Slots : Kept(learned[c][s], s)
  <2>1. \A s \in Slots : Kept(None, s)
    OBVIOUS
  <2>2. \A b \in Brews : Kept(disk[b], b)
    BY <1>1, Parts DEF AllSeen, StoreHoldsDrinks, Slots
  <2>3. ASSUME NEW c \in Coords, NEW s \in Slots PROVE Kept(learned[c][s], s)
    <3>1. learned[c][s] \in Values /\ Seen(learned[c][s])
      BY Parts DEF AllSeen
    <3>2. learned[c][s] # None => post[learned[c][s]].kind = s
      BY DEF SlotsHoldTheirKind
    <3> QED BY <1>1, <3>1, <3>2, Zenon
  <2> QED BY <2>1, <2>2, <2>3
<1>3. \A s \in Slots : Kept(Sanitised(disk)[s], s)
  <2>1. \A s \in Slots : Sanitised(disk)[s] # None => post[Sanitised(disk)[s]].kind = s
    BY SanitisedHolds DEF StoreHoldsDrinks, TypeOK
  <2>2. \A s \in Slots : Seen(Sanitised(disk)[s]) /\ Sanitised(disk)[s] \in Values
    BY SanitisedType, Parts DEF AllSeen, Sanitised, Seen, TypeOK, Tables, Values
  <2> QED BY <1>1, <2>1, <2>2
<1> SUFFICES /\ \A b \in Brews : Kept(disk'[b], b)
             /\ \A c \in Coords, s \in Slots : Kept(learned'[c][s], s)
  BY DEF StoreHoldsDrinks, SlotsHoldTheirKind
<1>4. ASSUME NEW c \in Coords, NEW p \in Posts, Learn(c, p)
      PROVE  Kept(p, post[p].kind)
  <2>1. Seen(p)
    BY <1>4, MarkerAssumption DEF Learn, Teaches, AllSeen
  <2> QED BY <1>1, <2>1, <1>4 DEF Learn, Teaches, Values
<1> HIDE DEF Kept
<1> USE Parts
<1>5. ASSUME NEW c \in Coords, NEW t, \A s \in Slots : Kept(t[s], s), Starts(c, t)
      PROVE  UNCHANGED disk /\ \A d \in Coords, s \in Slots : Kept(learned'[d][s], s)
  BY <1>2, <1>5 DEF Starts
<1>6. \A c \in Coords : Load(c) => Starts(c, Sanitised(disk))
  BY DEF Load
<1>7. ASSUME NEW C, NEW saved, Leave(C, saved)
      PROVE  \A c \in Coords, s \in Slots : Kept(learned'[c][s], s)
  BY <1>2, <1>7 DEF Leave, Reset, NoTables
<1>8. ASSUME NEW c \in Coords, Save(c)
      PROVE  /\ \A b \in Brews : Kept(disk'[b], b)
             /\ \A d \in Coords, s \in Slots : Kept(learned'[d][s], s)
  <2>1. disk' = learned[c]
    BY <1>8 DEF Save
  <2>2. learned' = learned \/ learned' = [learned EXCEPT ![c] = NoTables]
    BY <1>8 DEF Save
  <2>3. \A b \in Brews : Kept(disk'[b], b)
    BY <1>2, <2>1 DEF Slots
  <2>4. \A d \in Coords, s \in Slots : Kept(learned'[d][s], s)
    BY <1>2, <2>2 DEF NoTables
  <2> QED BY <2>3, <2>4
<1>9. ASSUME NEW c \in Coords, NEW p \in Posts, Learn(c, p)
      PROVE  UNCHANGED disk /\ \A d \in Coords, s \in Slots : Kept(learned'[d][s], s)
  <2>1. learned' = [learned EXCEPT ![c][post[p].kind] = p] /\ UNCHANGED disk
    BY <1>9 DEF Learn, Finish
  <2> QED BY <1>2, <1>4, <1>9, <2>1
<1>10. ASSUME Shutdown PROVE \A b \in Brews : Kept(disk'[b], b)
  BY <1>2, <1>10 DEF Shutdown, Slots
<1>11. /\ \A c \in Coords : Fetch(c) \/ FetchFails(c) \/ Pass(c) => UNCHANGED <<disk, learned>>
       /\ \A c \in Coords, p \in Posts : Send(c, p) => UNCHANGED <<disk, learned>>
       /\ \A p \in Posts : Land(p) \/ AppWrites(p) => UNCHANGED <<disk, learned>>
       /\ UNCHANGED vars => UNCHANGED <<disk, learned>>
  BY DEF Fetch, FetchFails, Pass, Finish, Send, Land, AppWrites, vars, perCoord, history
<1>12. CASE \E c \in Coords : Load(c) \/ LoadFails(c)
  <2>1. \A s \in Slots : Kept(NoTables[s], s)
    BY <1>2 DEF NoTables
  <2> QED BY <1>2, <1>3, <1>5, <1>6, <1>12, <2>1 DEF LoadFails
<1>13. CASE (\E c \in Coords : Unload(c)) \/ Shutdown \/ Crash
  BY <1>2, <1>7, <1>10, <1>13 DEF Unload, Shutdown, Crash
<1>14. CASE \E c \in Coords : Save(c)
  BY <1>8, <1>14
<1>15. CASE \E c \in Coords, p \in Posts : Learn(c, p)
  BY <1>2, <1>9, <1>15
<1>16. CASE \/ UNCHANGED vars
            \/ \E c \in Coords : Fetch(c) \/ FetchFails(c) \/ Pass(c)
            \/ \E p \in Posts : Land(p) \/ AppWrites(p) \/ \E c \in Coords : Send(c, p)
  BY <1>2, <1>11, <1>16
<1> QED BY <1>12, <1>13, <1>14, <1>15, <1>16 DEF Next

\* No frame of another kind is ever replayed for a power-on, a start or a stop.
THEOREM KindsHeld == Spec => []SlotsHoldTheirKind
<1> DEFINE I == TypeOK /\ AllSeen /\ StoreHoldsDrinks /\ SlotsHoldTheirKind
<1>1. Init => I
  BY TypeInit, SeenInit, HeldInit
<1>2. I /\ [Next]_vars => I'
  BY TypeNext, SeenNext, HeldNext
<1>3. I => SlotsHoldTheirKind
  OBVIOUS
<1> QED BY <1>1, <1>2, <1>3, PTL DEF Spec

-----------------------------------------------------------------------------
(* Who lives. *)

\* Nobody polls to begin with.
LEMMA PollingInit == Init => Polling
BY DEF Init, Polling

\* Those that leave are no longer alive, and the others stay as they are.
LEMMA LeaveAlive ==
  ASSUME TypeOK, NEW C \in SUBSET Coords, NEW saved, Leave(C, saved)
  PROVE  /\ Alive' = Alive \ C
         /\ \A c \in Alive' : /\ learned'[c] = learned[c] /\ id'[c] = id[c]
                              /\ reading'[c] = reading[c] /\ life'[c] = life[c]
         /\ \A c \in C : reading'[c] = "idle"
<1> DEFINE due == {c \in Coords : pending'[c]}
           left == {c \in Coords \ due : c \in C \/ life[c] = "gone"}
<1>1. \A c \in Coords :
        /\ life'[c] = IF c \in left THEN "absent" ELSE IF c \in C THEN "gone" ELSE life[c]
        /\ learned'[c] = IF c \in left THEN NoTables ELSE learned[c]
        /\ id'[c] = IF c \in C THEN "none" ELSE id[c]
        /\ reading'[c] = IF c \in C THEN "idle" ELSE reading[c]
  BY DEF Leave, Reset
<1>2. \A c \in left : c \in C \/ c \notin Alive
  BY DEF Alive
<1>3. Alive' = {c \in Coords : life'[c] \in {"loaded", "up"}}
  BY DEF Alive
<1> HIDE DEF left
<1>4. Alive' = Alive \ C
  BY <1>1, <1>2, <1>3 DEF Alive
<1> QED BY <1>1, <1>2, <1>4 DEF Alive

\* What each step does to who lives.
LEMMA AliveNext ==
  ASSUME TypeOK, Polling
  PROVE  /\ \A c \in Coords : \A t : Starts(c, t) => Alive' = Alive \cup {c} /\ c \notin Alive
         /\ \A c \in Coords : Save(c) => Alive' = Alive
         /\ \A c \in Coords : Finish(c) => Alive' = Alive /\ c \in Alive
         /\ \A c \in Coords : Fetch(c) \/ FetchFails(c) => Alive' = Alive /\ c \in Alive
         /\ \A c \in Coords, p \in Posts : Send(c, p) => Alive' = Alive
         /\ \A p \in Posts : Land(p) \/ AppWrites(p) => Alive' = Alive
         /\ UNCHANGED vars => Alive' = Alive
<1> USE Parts
<1>1. ASSUME NEW c \in Coords, NEW t, Starts(c, t) PROVE Alive' = Alive \cup {c} /\ c \notin Alive
  BY <1>1 DEF Starts, Alive
<1>2. ASSUME NEW c \in Coords, Save(c) PROVE Alive' = Alive
  <2>1. life' = life \/ (life[c] = "gone" /\ life' = [life EXCEPT ![c] = "absent"])
    BY <1>2 DEF Save
  <2> QED BY <2>1 DEF Alive
<1>3. ASSUME NEW c \in Coords, Finish(c) PROVE Alive' = Alive /\ c \in Alive
  BY <1>3 DEF Finish, Alive, Polling
<1>4. ASSUME NEW c \in Coords, Fetch(c) \/ FetchFails(c) PROVE Alive' = Alive /\ c \in Alive
  BY <1>4 DEF Fetch, FetchFails, Alive
<1>5. ASSUME NEW c \in Coords, NEW p \in Posts, Send(c, p) PROVE Alive' = Alive
  BY <1>5 DEF Send, Alive
<1>6. ASSUME NEW p \in Posts, Land(p) \/ AppWrites(p) PROVE Alive' = Alive
  BY <1>6 DEF Land, AppWrites, Alive, perCoord
<1>7. UNCHANGED vars => Alive' = Alive
  BY DEF vars, perCoord, Alive
<1> QED BY <1>1, <1>2, <1>3, <1>4, <1>5, <1>6, <1>7

\* A poll ends with its coordinator.
LEMMA PollingNext == TypeOK /\ Polling /\ [Next]_vars => Polling'
<1> SUFFICES ASSUME TypeOK, Polling, [Next]_vars PROVE Polling'
  OBVIOUS
<1> USE Parts
<1> SUFFICES \A c \in Coords : reading'[c] # "idle" => c \in Alive'
  BY DEF Polling
<1>1. ASSUME NEW C \in SUBSET Coords, NEW saved, Leave(C, saved)
      PROVE  \A c \in Coords : reading'[c] # "idle" => c \in Alive'
  <2>1. Alive' = Alive \ C
    BY <1>1, LeaveAlive
  <2>2. \A c \in Coords : reading'[c] # "idle" => c \notin C /\ reading[c] # "idle"
    BY <1>1 DEF Leave, Reset
  <2> QED BY <2>1, <2>2 DEF Polling
<1>2. {Alive} \cup {{c} : c \in Coords} \subseteq SUBSET Coords
  BY DEF Alive
<1>3. CASE (\E c \in Coords : Unload(c)) \/ Shutdown \/ Crash
  BY <1>1, <1>2, <1>3 DEF Unload, Shutdown, Crash
<1>4. CASE \E c \in Coords : Load(c) \/ LoadFails(c)
  BY <1>4, AliveNext DEF Load, LoadFails, Starts, Polling
<1>5. CASE \E c \in Coords : Save(c)
  <2>1. reading' = reading
    BY <1>5 DEF Save
  <2> QED BY <1>5, <2>1, AliveNext DEF Polling
<1>6. CASE \E c \in Coords : Pass(c) \/ \E p \in Posts : Learn(c, p)
  BY <1>6, AliveNext DEF Pass, Learn, Finish, Polling
<1>7. CASE \E c \in Coords : Fetch(c) \/ FetchFails(c)
  BY <1>7, AliveNext DEF Fetch, FetchFails, Polling
<1>8. CASE \/ UNCHANGED vars
           \/ \E p \in Posts : Land(p) \/ AppWrites(p) \/ \E c \in Coords : Send(c, p)
  <2>1. reading' = reading
    BY <1>8 DEF vars, perCoord, Land, AppWrites, Send
  <2> QED BY <1>8, <2>1, AliveNext DEF Polling
<1> QED BY <1>3, <1>4, <1>5, <1>6, <1>7, <1>8 DEF Next

-----------------------------------------------------------------------------
(* The machine's id. *)

Any(S) == CHOOSE b \in S : TRUE

\* The signature that tables give when the writes are those of f.
SignatureIn(f, tables) ==
  LET tail(p) == IF p = None THEN "none" ELSE f[p].tail
      signing == {b \in Brews : tail(tables[b]) # "none"}
  IN IF tail(tables["wake"]) # "none" THEN tail(tables["wake"])
     ELSE IF signing # {} THEN tail(tables[Any(signing)])
     ELSE "none"

\* It is the one the coordinator derives.
LEMMA SignatureNow == \A t : Signature(t) = SignatureIn(post, t)
BY DEF Signature, SignatureIn, Any, TailOf

\* Frames that are on the channel keep their tails, so tables keep the
\* signature they give.
LEMMA SignatureStays ==
  ASSUME TypeOK, [Next]_vars, NEW t \in Tables, \A s \in Slots : Seen(t[s])
  PROVE  SignatureIn(post', t) = Signature(t)
<1> DEFINE tail(p) == IF p = None THEN "none" ELSE post[p].tail
           after(p) == IF p = None THEN "none" ELSE post'[p].tail
           signing == {b \in Brews : tail(t[b]) # "none"}
           signed == {b \in Brews : after(t[b]) # "none"}
<1>1. \A s \in Slots : after(t[s]) = tail(t[s])
  <2> SUFFICES ASSUME NEW s \in Slots, t[s] # None PROVE post'[t[s]].tail = post[t[s]].tail
    OBVIOUS
  <2> QED BY LandedStays DEF Tables, Seen
<1>2. "wake" \in Slots /\ Brews \subseteq Slots
  BY DEF Slots
<1>3. signed = signing
  BY <1>1, <1>2
<1>4. signing # {} => Any(signing) \in Brews
  BY DEF Any
<1>5. SignatureIn(post, t) = IF tail(t["wake"]) # "none" THEN tail(t["wake"])
                             ELSE IF signing # {} THEN tail(t[Any(signing)]) ELSE "none"
  BY DEF SignatureIn
<1>6. SignatureIn(post', t) = IF after(t["wake"]) # "none" THEN after(t["wake"])
                              ELSE IF signed # {} THEN after(t[Any(signed)]) ELSE "none"
  BY DEF SignatureIn
<1> HIDE DEF tail, after, signing, signed
<1>7. SignatureIn(post', t) = SignatureIn(post, t)
  BY <1>1, <1>2, <1>3, <1>4, <1>5, <1>6
<1> QED BY <1>7, SignatureNow

\* A coordinator's id is the signature of what it has learned, by a capture, a
\* load and a load that drops the wake frame alike.
LEMMA IdNext ==
  ASSUME TypeOK, AllSeen, Polling, IdFollowsFrames, [Next]_vars
  PROVE  IdFollowsFrames'
<1> USE Parts
<1> DEFINE Right(c) == id'[c] = SignatureIn(post', learned'[c])
<1> SUFFICES \A c \in Alive' : Right(c)
  BY DEF IdFollowsFrames, Signature, SignatureIn, Any, TailOf
<1>1. \A t \in Tables : (\A s \in Slots : Seen(t[s])) => SignatureIn(post', t) = Signature(t)
  BY SignatureStays
<1>2. \A c \in Alive : learned'[c] = learned[c] /\ id'[c] = id[c] => Right(c)
  <2> SUFFICES ASSUME NEW c \in Alive, learned'[c] = learned[c], id'[c] = id[c]
               PROVE  Right(c)
    OBVIOUS
  <2>1. c \in Coords /\ learned[c] \in Tables
    BY DEF Alive, TypeOK
  <2>2. \A s \in Slots : Seen(learned[c][s])
    BY <2>1 DEF AllSeen
  <2> QED BY <1>1, <2>1, <2>2 DEF IdFollowsFrames
<1>3. ASSUME NEW c \in Coords, NEW t \in Tables, \A s \in Slots : Seen(t[s]), Starts(c, t)
      PROVE  \A d \in Alive' : Right(d)
  <2>1. Alive' = Alive \cup {c} /\ c \notin Alive
    BY <1>3, AliveNext
  <2>2. learned'[c] = t /\ id'[c] = Signature(t)
    BY <1>3 DEF Starts, IdAfterLoad
  <2>3. Right(c)
    BY <1>1, <1>3, <2>2
  <2>4. \A d \in Alive : learned'[d] = learned[d] /\ id'[d] = id[d]
    BY <1>3, <2>1 DEF Starts, Alive
  <2> QED BY <1>2, <2>1, <2>3, <2>4
<1>4. ASSUME NEW c \in Coords, Load(c) PROVE \A d \in Alive' : Right(d)
  <2>1. Sanitised(disk) \in Tables
    BY SanitisedType DEF TypeOK
  <2>2. \A s \in Slots : Seen(Sanitised(disk)[s])
    BY DEF Sanitised, AllSeen, Seen, TypeOK, Tables
  <2> QED BY <1>3, <1>4, <2>1, <2>2 DEF Load
<1>5. ASSUME NEW c \in Coords, LoadFails(c) PROVE \A d \in Alive' : Right(d)
  <2>1. \A s \in Slots : Seen(NoTables[s])
    BY DEF NoTables, Seen
  <2> QED BY <1>3, <1>5, <2>1, NoTablesType DEF LoadFails
<1>6. ASSUME NEW C \in SUBSET Coords, NEW saved, Leave(C, saved)
      PROVE  \A c \in Alive' : Right(c)
  BY <1>2, <1>6, LeaveAlive
<1>7. ASSUME NEW c \in Coords, NEW p \in Posts, Learn(c, p)
      PROVE  \A d \in Alive' : Right(d)
  <2>1. Alive' = Alive /\ c \in Alive
    BY <1>7, AliveNext DEF Learn
  <2>2. learned' = [learned EXCEPT ![c][post[p].kind] = p]
    BY <1>7 DEF Learn
  <2>3. id' = [id EXCEPT ![c] = Signature(learned'[c])]
    BY <1>7 DEF Learn, Refreshed
  <2>4. Seen(p)
    BY <1>7, MarkerAssumption DEF Learn, Teaches, AllSeen
  <2>5. learned'[c] \in Tables
    BY TypeNext DEF TypeOK
  <2>6. \A s \in Slots : Seen(learned'[c][s])
    BY <2>2, <2>4 DEF AllSeen
  <2>7. Right(c)
    BY <1>1, <2>3, <2>5, <2>6
  <2>8. \A d \in Alive : d # c => learned'[d] = learned[d] /\ id'[d] = id[d]
    BY <2>2, <2>3 DEF Alive
  <2> QED BY <1>2, <2>1, <2>7, <2>8
<1> HIDE DEF Right
<1>8. {Alive} \cup {{c} : c \in Coords} \subseteq SUBSET Coords
  BY DEF Alive
<1>9. CASE (\E c \in Coords : Unload(c)) \/ Shutdown \/ Crash
  BY <1>6, <1>8, <1>9 DEF Unload, Shutdown, Crash
<1>10. CASE \E c \in Coords : Save(c)
  <2>1. PICK c \in Coords : Save(c)
    BY <1>10
  <2>2. id' = id /\ (learned' = learned \/ (life[c] = "gone" /\ learned' = [learned EXCEPT ![c] = NoTables]))
    BY <2>1 DEF Save
  <2>3. \A d \in Alive : learned'[d] = learned[d]
    BY <2>2 DEF Alive
  <2> QED BY <1>2, <2>1, <2>2, <2>3, AliveNext
<1>11. CASE \E c \in Coords : Fetch(c) \/ FetchFails(c) \/ Pass(c)
  <2>1. UNCHANGED <<learned, id>> /\ Alive' = Alive
    BY <1>11, AliveNext DEF Fetch, FetchFails, Pass
  <2> QED BY <1>2, <2>1
<1>12. CASE \/ UNCHANGED vars
            \/ \E p \in Posts : Land(p) \/ AppWrites(p) \/ \E c \in Coords : Send(c, p)
  <2>1. Alive' = Alive
    BY <1>12, AliveNext
  <2>2. UNCHANGED <<learned, id>>
    BY <1>12 DEF vars, perCoord, Land, AppWrites, Send
  <2> QED BY <1>2, <2>1, <2>2
<1> QED BY <1>4, <1>5, <1>7, <1>9, <1>10, <1>11, <1>12 DEF Next

\* At all times the machine's id is the signature that what the coordinator
\* has learned gives.
THEOREM IdFollows == Spec => []IdFollowsFrames
<1> DEFINE I == TypeOK /\ AllSeen /\ Polling /\ IdFollowsFrames
<1>1. Init => I
  <2>1. Init => Alive = {}
    BY DEF Init, Alive
  <2> QED BY <2>1, TypeInit, SeenInit, PollingInit DEF IdFollowsFrames
<1>2. I /\ [Next]_vars => I'
  BY TypeNext, SeenNext, PollingNext, IdNext
<1>3. I => IdFollowsFrames
  OBVIOUS
<1> QED BY <1>1, <1>2, <1>3, PTL DEF Spec

-----------------------------------------------------------------------------
(* The store. *)

\* What a load makes of stored tables when the writes are those of f.
SanitisedIn(f, tables) ==
  IF tables["wake"] # None /\ f[tables["wake"]].kind # "wake"
  THEN [tables EXCEPT !["wake"] = None] ELSE tables

\* Frames that are on the channel stay power-ons, or something else.
LEMMA SanitisedStays ==
  ASSUME TypeOK, [Next]_vars, NEW t \in Tables, \A s \in Slots : Seen(t[s])
  PROVE  SanitisedIn(post', t) = Sanitised(t)
<1>1. t["wake"] # None => post'[t["wake"]].kind = post[t["wake"]].kind
  BY LandedStays DEF Tables, Slots, Seen
<1> QED BY <1>1 DEF SanitisedIn, Sanitised

\* What is kept by kind is loaded as it is.
LEMMA SanitisedSame ==
  ASSUME NEW t \in Tables, \A s \in Slots : t[s] # None => post[t[s]].kind = s
  PROVE  Sanitised(t) = t
BY DEF Sanitised, Slots

\* To begin with nobody lives, and nothing is promised.
LEMMA StoreInit == Init => StoreFollows
BY DEF Init, StoreFollows, Alive

\* The store and the tables of a coordinator that has it to itself go apart
\* only until the save that is due.
LEMMA StoreNext ==
  ASSUME TypeOK, AllSeen, Polling, SlotsHoldTheirKind, StoreFollows, [Next]_vars
  PROVE  StoreFollows'
<1> USE Parts
<1> DEFINE Loaded(t) == SanitisedIn(post', t)
           Own1 == \A c \in Alive' \ apart' :
                     /\ Alive' = {c}
                     /\ \A d \in Coords : pending'[d] => d = c
                     /\ ~pending'[c] => Loaded(disk') = learned'[c]
           Kept1 == kept' # None => /\ Alive' = {}
                                    /\ \A d \in Coords : ~pending'[d]
                                    /\ Loaded(disk') = kept'
<1> SUFFICES Own1 /\ Kept1
  BY DEF StoreFollows, Sanitised, SanitisedIn
<1>1. Loaded(disk) = Sanitised(disk)
  BY SanitisedStays DEF TypeOK, AllSeen
<1>2. \A c \in Coords : Loaded(learned[c]) = learned[c]
  <2> SUFFICES ASSUME NEW c \in Coords PROVE Loaded(learned[c]) = learned[c]
    OBVIOUS
  <2>1. learned[c] \in Tables /\ \A s \in Slots : Seen(learned[c][s])
    BY DEF TypeOK, AllSeen
  <2>2. Loaded(learned[c]) = Sanitised(learned[c])
    BY <2>1, SanitisedStays
  <2>3. Sanitised(learned[c]) = learned[c]
    BY <2>1, SanitisedSame DEF SlotsHoldTheirKind
  <2> QED BY <2>2, <2>3
<1> HIDE DEF Loaded
<1>3. /\ \A c \in Alive \ apart : /\ Alive = {c}
                                  /\ \A d \in Coords : pending[d] => d = c
                                  /\ ~pending[c] => Sanitised(disk) = learned[c]
      /\ kept # None => /\ Alive = {}
                        /\ \A d \in Coords : ~pending[d]
                        /\ Sanitised(disk) = kept
      /\ Alive \subseteq Coords
  BY DEF StoreFollows, Alive
<1>4. ASSUME NEW c \in Coords, Load(c) PROVE Own1 /\ Kept1
  <2>1. Alive' = Alive \cup {c} /\ kept' = None /\ UNCHANGED <<pending, disk>>
        /\ learned'[c] = Sanitised(disk)
    BY <1>4, AliveNext DEF Load, Starts
  <2>2. CASE Alive = {} /\ \A d \in Coords : ~pending[d]
    BY <1>1, <2>1, <2>2
  <2>3. CASE apart' = apart \cup Alive \cup {c}
    BY <2>1, <2>3
  <2> QED BY <1>4, <2>2, <2>3 DEF Load
<1>5. ASSUME NEW c \in Coords, LoadFails(c) PROVE Own1 /\ Kept1
  BY <1>5, AliveNext DEF LoadFails, Starts
<1>6. ASSUME NEW C \in SUBSET Alive, NEW saved \in BOOLEAN, Leave(C, saved)
      PROVE  /\ Own1
             /\ kept' # None => \E c \in Alive \ apart :
                  /\ Alive' = {} /\ kept' = learned[c]
                  /\ \A d \in Coords : pending[d] => saved /\ d = c
  <2>1. Alive' = Alive \ C /\ apart' = apart \ C /\ C # {}
    BY <1>3, <1>6, LeaveAlive DEF Leave
  <2>2. \A c \in Alive \ apart : c \in C
    BY <1>3, <2>1
  <2>3. Own1
    BY <2>1, <2>2
  <2>4. ASSUME kept' # None
        PROVE  \E c \in Alive \ apart :
                  /\ Alive' = {} /\ kept' = learned[c]
                  /\ \A d \in Coords : pending[d] => saved /\ d = c
    <3>1. PICK c \in C : C = {c} /\ c \notin apart /\ \A d \in Coords : pending[d] => saved /\ d = c
      BY <1>6, <2>4 DEF Leave, Promised
    <3>2. kept' = learned[CHOOSE x \in C : TRUE]
      BY <1>6, <2>4 DEF Leave, Promised
    <3>3. (CHOOSE x \in C : TRUE) \in C
      BY <2>1
    <3>4. kept' = learned[c] /\ Alive = {c}
      BY <1>3, <3>1, <3>2, <3>3
    <3> QED BY <2>1, <3>1, <3>4
  <2> QED BY <2>3, <2>4
<1>7. ASSUME NEW c \in Coords, Unload(c) PROVE Own1 /\ Kept1
  <2>1. {c} \in SUBSET Alive /\ Leave({c}, FALSE) /\ UNCHANGED <<pending, disk>>
    BY <1>7 DEF Unload
  <2> QED BY <1>1, <1>3, <1>6, <2>1
<1>8. ASSUME Crash PROVE Own1 /\ Kept1
  <2>1. Alive \in SUBSET Alive /\ Leave(Alive, FALSE) /\ UNCHANGED disk
        /\ \A d \in Coords : ~pending'[d]
    BY <1>8 DEF Crash
  <2> QED BY <1>1, <1>3, <1>6, <2>1
<1>9. ASSUME Shutdown PROVE Own1 /\ Kept1
  <2>1. /\ Alive \in SUBSET Alive /\ Leave(Alive, TRUE) /\ \A d \in Coords : ~pending'[d]
        /\ \/ \E d \in Coords : pending[d] /\ disk' = learned[d]
           \/ (\A d \in Coords : ~pending[d]) /\ disk' = disk
    BY <1>9 DEF Shutdown
  <2> QED BY <1>1, <1>2, <1>3, <1>6, <2>1
<1>10. ASSUME NEW c \in Coords, Save(c) PROVE Own1 /\ Kept1
  <2>1. /\ pending[c] /\ disk' = learned[c] /\ pending' = [pending EXCEPT ![c] = FALSE]
        /\ UNCHANGED <<apart, kept>> /\ Alive' = Alive
        /\ life[c] # "gone" => learned' = learned
    BY <1>10, AliveNext DEF Save, history
  <2>2. \A d \in Alive \ apart : d = c /\ life[c] # "gone"
    BY <1>3, <2>1 DEF Alive
  <2>3. Own1
    BY <1>2, <1>3, <2>1, <2>2
  <2> QED BY <1>3, <2>1, <2>3
<1>11. ASSUME NEW c \in Coords, NEW p \in Posts, Learn(c, p) PROVE Own1 /\ Kept1
  <2>1. Alive' = Alive /\ c \in Alive /\ UNCHANGED <<apart, kept>>
        /\ pending' = [pending EXCEPT ![c] = TRUE]
    BY <1>11, AliveNext DEF Learn, Finish, Due
  <2>2. kept = None
    BY <1>3, <2>1
  <2>3. Own1
    BY <1>3, <2>1
  <2> QED BY <2>1, <2>2, <2>3
<1>12. ASSUME Alive' = Alive, UNCHANGED <<learned, pending, disk, apart, kept>> PROVE Own1 /\ Kept1
  BY <1>1, <1>3, <1>12
<1>13. CASE \E c \in Coords : Fetch(c) \/ FetchFails(c) \/ Pass(c)
  <2>1. Alive' = Alive /\ UNCHANGED <<learned, pending, disk, apart, kept>>
    BY <1>13, AliveNext DEF Fetch, FetchFails, Pass, Finish, history
  <2> QED BY <1>12, <2>1
<1>14. CASE \/ UNCHANGED vars
            \/ \E p \in Posts : Land(p) \/ AppWrites(p) \/ \E c \in Coords : Send(c, p)
  <2>1. Alive' = Alive
    BY <1>14, AliveNext
  <2>2. UNCHANGED <<learned, pending, disk, apart, kept>>
    BY <1>14 DEF vars, perCoord, history, Land, AppWrites, Send
  <2> QED BY <1>12, <2>1, <2>2
<1> HIDE DEF Own1, Kept1
<1> QED BY <1>4, <1>5, <1>7, <1>8, <1>9, <1>10, <1>11, <1>13, <1>14 DEF Next

\* A restart or reload gives back what was learned, whenever it was promised.
THEOREM Restart == Spec => RestartKeepsLearned
<1> DEFINE I == /\ TypeOK /\ AllSeen /\ Polling
                /\ StoreHoldsDrinks /\ SlotsHoldTheirKind /\ StoreFollows
           Back == \A c \in Coords : Load(c) /\ kept # None => learned'[c] = kept
<1>1. Init => I
  BY TypeInit, SeenInit, PollingInit, HeldInit, StoreInit
<1>2. I /\ [Next]_vars => I'
  BY TypeNext, SeenNext, PollingNext, HeldNext, StoreNext
<1>3. I => Back
  <2> SUFFICES ASSUME I, NEW c \in Coords, Load(c), kept # None PROVE learned'[c] = kept
    OBVIOUS
  <2>1. learned'[c] = Sanitised(disk)
    BY Parts DEF Load, Starts
  <2> QED BY <2>1 DEF StoreFollows
<1>4. I /\ [Next]_vars => [Back]_vars
  BY <1>3
<1>5. Spec => [][Back]_vars
  BY <1>1, <1>2, <1>4, PTL DEF Spec
<1> QED BY <1>5 DEF RestartKeepsLearned

-----------------------------------------------------------------------------
(* The first look. *)

\* To begin with nobody has looked.
LEMMA FirstInit == Init => FirstIsPast
BY DEF Init, FirstIsPast

\* What a coordinator found at its first look is not found again once the
\* channel held something else.
LEMMA FirstNext ==
  ASSUME TypeOK, AllSeen, FirstIsPast, [Next]_vars
  PROVE  FirstIsPast'
<1> USE Parts
<1> DEFINE Past(c) ==
      /\ marker'[c] = None <=> first'[c] = None
      /\ first'[c] # None /\ marker'[c] # first'[c] => reading'[c] # first'[c] /\ channel' # first'[c]
      /\ first'[c] # None /\ reading'[c] \notin {"idle", None, first'[c]} => channel' # first'[c]
<1> SUFFICES \A c \in Coords : Past(c)
  BY DEF FirstIsPast
<1>1. \A c \in Coords :
        (UNCHANGED channel /\ marker'[c] = marker[c] /\ first'[c] = first[c] /\ reading'[c] = reading[c])
        => Past(c)
  BY DEF FirstIsPast
<1>2. \A c \in Coords : first[c] # "idle"
  BY MarkerAssumption DEF Values
<1>3. ASSUME NEW C, NEW saved, Leave(C, saved) PROVE \A c \in Coords : Past(c)
  <2>1. UNCHANGED channel
        /\ \A c \in Coords :
             /\ c \notin C => marker'[c] = marker[c] /\ first'[c] = first[c] /\ reading'[c] = reading[c]
             /\ c \in C => marker'[c] = None /\ first'[c] = None
    BY <1>3 DEF Leave, Reset
  <2>2. \A c \in C \cap Coords : Past(c)
    BY <2>1
  <2> QED BY <1>1, <2>1, <2>2
<1>4. ASSUME NEW c \in Coords, Fetch(c) \/ FetchFails(c) PROVE \A d \in Coords : Past(d)
  <2>1. UNCHANGED <<channel, marker, first>> /\ \A d \in Coords \ {c} : reading'[d] = reading[d]
    BY <1>4 DEF Fetch, FetchFails, history
  <2>2. reading'[c] = channel \/ reading'[c] = "idle"
    BY <1>4 DEF Fetch, FetchFails
  <2>3. Past(c)
    BY <1>2, <2>1, <2>2 DEF FirstIsPast
  <2> QED BY <1>1, <2>1, <2>3
<1>5. ASSUME NEW c \in Coords, Finish(c) PROVE \A d \in Coords : Past(d)
  <2>1. /\ reading[c] # "idle" /\ reading'[c] = "idle" /\ UNCHANGED channel
        /\ marker'[c] = IF reading[c] = None THEN marker[c] ELSE reading[c]
        /\ first'[c] = IF marker[c] = None THEN reading[c] ELSE first[c]
        /\ \A d \in Coords \ {c} : marker'[d] = marker[d] /\ first'[d] = first[d] /\ reading'[d] = reading[d]
    BY <1>5 DEF Finish
  <2>2. Past(c)
    BY <1>2, <2>1 DEF FirstIsPast
  <2> QED BY <1>1, <2>1, <2>2
<1>6. ASSUME NEW p \in Posts, Land(p) \/ AppWrites(p) PROVE \A d \in Coords : Past(d)
  <2>1. post[p].state # "landed"
    BY <1>6 DEF Land, AppWrites
  <2>2. channel' = p /\ UNCHANGED <<marker, first, reading>>
    BY <1>6 DEF Land, AppWrites, perCoord, history
  <2>3. \A d \in Coords : first[d] # p
    BY <2>1, MarkerAssumption DEF AllSeen, Seen
  <2> QED BY <2>2, <2>3 DEF FirstIsPast
<1>7. CASE \/ \E c \in Coords : Load(c) \/ LoadFails(c) \/ Save(c)
           \/ \E c \in Coords, p \in Posts : Send(c, p)
           \/ UNCHANGED vars
  <2>1. UNCHANGED <<channel, marker, first, reading>>
    BY <1>7 DEF Load, LoadFails, Starts, Save, Send, history, perCoord, vars
  <2> QED BY <1>1, <2>1
<1> HIDE DEF Past
<1> QED BY <1>3, <1>4, <1>5, <1>6, <1>7 DEF Next, Unload, Shutdown, Crash, Learn, Pass

-----------------------------------------------------------------------------
(* The ring of sent values. *)

\* The ring is the end of all that was sent.
LEMMA RingAppend ==
  ASSUME NEW o \in Seq(Posts), NEW s \in Seq(Posts), NEW p \in Posts, EndOf(s, o)
  PROVE  EndOf(Recorded(s, p), Append(o, p))
<1> DEFINE L == Len(o)
           R == Recorded(s, p)
<1>0. /\ Len(s) = IF Len(o) < RingSize THEN Len(o) ELSE RingSize
      /\ \A n \in 1..Len(s) : s[n] = o[Len(o) - Len(s) + n]
  BY DEF EndOf
<1>1. L \in Nat /\ Len(s) \in Nat /\ RingSize \in Nat /\ RingSize > 0
  BY RingAssumption
<1> SUFFICES EndOf(R, Append(o, p))
  OBVIOUS
<1> SUFFICES /\ Len(R) = IF L + 1 < RingSize THEN L + 1 ELSE RingSize
             /\ \A n \in 1..Len(R) : R[n] = Append(o, p)[L + 1 - Len(R) + n]
  <2>1. Len(Append(o, p)) = L + 1
    OBVIOUS
  <2> HIDE DEF R
  <2> QED BY <2>1 DEF EndOf
<1>2. CASE L < RingSize
  <2>1. R = Append(s, p) /\ Len(R) = L + 1 /\ Len(s) = L
    BY <1>0, <1>1, <1>2 DEF Recorded
  <2>2. \A n \in 1..L + 1 : R[n] = Append(o, p)[n]
    BY <1>0, <1>1, <1>2, <2>1
  <2> QED BY <1>1, <1>2, <2>1, <2>2
<1>3. CASE ~(L < RingSize)
  <2>1. R = Append(SubSeq(s, 2, RingSize), p) /\ Len(s) = RingSize
    BY <1>0, <1>1, <1>3 DEF Recorded
  <2>2. /\ SubSeq(s, 2, RingSize) \in Seq(Posts) /\ Len(SubSeq(s, 2, RingSize)) = RingSize - 1
        /\ \A n \in 1..RingSize - 1 : SubSeq(s, 2, RingSize)[n] = s[n + 1]
    BY <1>1, <2>1
  <2>3. /\ Len(R) = RingSize /\ R[RingSize] = p
        /\ \A n \in 1..RingSize - 1 : R[n] = s[n + 1]
    BY <1>1, <2>1, <2>2
  <2>4. \A n \in 1..RingSize - 1 : s[n + 1] = o[L - RingSize + (n + 1)]
    <3>1. \A k \in 1..RingSize : s[k] = o[L - RingSize + k]
      BY <1>0, <2>1
    <3>2. \A n \in 1..RingSize - 1 : n + 1 \in 1..RingSize
      BY <1>1
    <3> QED BY <3>1, <3>2
  <2>5. /\ Append(o, p)[L + 1] = p
        /\ \A n \in 1..RingSize - 1 :
             Append(o, p)[L + 1 - RingSize + n] = o[L - RingSize + (n + 1)]
    BY <1>1, <1>3
  <2>6. ASSUME NEW n \in 1..RingSize PROVE R[n] = Append(o, p)[L + 1 - RingSize + n]
    <3>1. CASE n = RingSize
      <4>1. L + 1 - RingSize + n = L + 1
        BY <1>1, <3>1
      <4> QED BY <2>3, <2>5, <3>1, <4>1
    <3>2. CASE n # RingSize
      <4>1. n \in 1..RingSize - 1
        BY <1>1, <3>2
      <4> QED BY <2>3, <2>4, <2>5, <4>1
    <3> QED BY <3>1, <3>2
  <2>7. ~(L + 1 < RingSize)
    BY <1>1, <1>3
  <2>8. Len(R) = RingSize
    BY <2>3
  <2> HIDE DEF R
  <2>9. \A n \in 1..Len(R) : R[n] = Append(o, p)[L + 1 - Len(R) + n]
    BY <2>6, <2>8
  <2> QED BY <2>7, <2>8, <2>9 DEF R
<1> QED BY <1>2, <1>3

\* To begin with nothing has been sent.
LEMMA RingInit == Init => RingIsEnd
<1> SUFFICES ASSUME Init PROVE RingIsEnd
  OBVIOUS
<1>1. \A c \in Coords : sent[c] = <<>> /\ order[c] = <<>>
  BY Zenon DEF Init
<1>2. Len(<<>>) = 0 /\ 1..0 = {}
  OBVIOUS
<1>3. \A c \in Coords, p \in Posts : post[p].by # c
  BY MarkerAssumption DEF Init
<1>4. EndOf(<<>>, <<>>)
  BY <1>2, RingAssumption DEF EndOf
<1>5. \A c \in Coords : SentOnce(c, <<>>, post)
  BY <1>2, <1>3, Zenon DEF SentOnce
<1> QED BY <1>1, <1>4, <1>5, Zenon DEF RingIsEnd

\* What was sent once is not forgotten when writes are taken, or their authors
\* are.
LEMMA SentStays ==
  ASSUME NEW c \in Coords, NEW o \in Seq(Posts), NEW f, NEW g, SentOnce(c, o, f),
         \A p \in Posts : /\ g[p].by = c => f[p].by = c
                          /\ f[p].state # "unwritten" => g[p].state # "unwritten"
  PROVE  SentOnce(c, o, g)
<1>1. \A n \in 1..Len(o) : o[n] \in Posts
  OBVIOUS
<1> QED BY <1>1 DEF SentOnce

\* A new write is sent.
LEMMA SentAppend ==
  ASSUME NEW c \in Coords, NEW o \in Seq(Posts), NEW p \in Posts, NEW f, NEW g,
         SentOnce(c, o, f), f[p].state = "unwritten", g[p].state # "unwritten",
         \A q \in Posts \ {p} : g[q] = f[q]
  PROVE  SentOnce(c, Append(o, p), g)
<1> DEFINE L == Len(o)
           a == Append(o, p)
<1>1. /\ L \in Nat /\ Len(a) = L + 1 /\ a[L + 1] = p
      /\ \A n \in 1..L : a[n] = o[n] /\ o[n] \in Posts
  OBVIOUS
<1>2. /\ \A m, n \in 1..L : o[m] = o[n] => m = n
      /\ \A n \in 1..L : f[o[n]].state # "unwritten"
      /\ \A q \in Posts : f[q].by = c => \E n \in 1..L : o[n] = q
  BY DEF SentOnce
<1> HIDE DEF a, L
<1>3. \A n \in 1..L + 1 : n \in 1..L \/ n = L + 1
  BY <1>1
<1>4. \A n \in 1..L : o[n] # p
  BY <1>2
<1>5. \A m, n \in 1..L + 1 : a[m] = a[n] => m = n
  BY <1>1, <1>2, <1>3, <1>4
<1>6. \A n \in 1..L + 1 : g[a[n]].state # "unwritten"
  <2>1. \A n \in 1..L : g[o[n]].state # "unwritten"
    BY <1>1, <1>2, <1>4
  <2> QED BY <1>1, <1>3, <2>1
<1>7. ASSUME NEW q \in Posts, g[q].by = c PROVE \E n \in 1..L + 1 : a[n] = q
  <2>1. L + 1 \in 1..L + 1 /\ \A n \in 1..L : n \in 1..L + 1
    BY <1>1
  <2>2. q # p => f[q].by = c
    BY <1>7
  <2> QED BY <1>1, <1>2, <2>1, <2>2
<1>8. SentOnce(c, a, g)
  BY <1>1, <1>5, <1>6, <1>7 DEF SentOnce
<1> QED BY <1>8 DEF a

\* The ring and what was sent grow by the same write, which is a new one.
LEMMA RingSend ==
  ASSUME TypeOK, RingIsEnd, NEW c \in Coords, NEW p \in Posts, Send(c, p)
  PROVE  EndOf(sent'[c], order'[c]) /\ SentOnce(c, order'[c], post')
<1>1. order[c] \in Seq(Posts) /\ sent[c] \in Seq(Posts)
  BY DEF TypeOK
<1>2. order'[c] = Append(order[c], p) /\ sent'[c] = Recorded(sent[c], p)
  BY DEF TypeOK, Send
<1>3. post[p].state = "unwritten" /\ post'[p].state = "flying"
      /\ \A q \in Posts \ {p} : post'[q] = post[q]
  BY Parts DEF Send
<1>4. EndOf(Recorded(sent[c], p), Append(order[c], p))
  BY <1>1, RingAppend DEF RingIsEnd
<1>5. SentOnce(c, Append(order[c], p), post')
  <2>1. SentOnce(c, order[c], post) /\ post'[p].state # "unwritten"
    BY <1>3 DEF RingIsEnd
  <2> QED BY <1>1, <1>3, <2>1, SentAppend
<1> QED BY <1>2, <1>4, <1>5

\* The ring stays the end of what was sent, and every write of a coordinator
\* that lives is in what it sent.
LEMMA RingNext ==
  ASSUME TypeOK, RingIsEnd, [Next]_vars
  PROVE  RingIsEnd'
<1> USE Parts
<1> DEFINE Ring(c) == EndOf(sent'[c], order'[c]) /\ SentOnce(c, order'[c], post')
      Same(c) ==
      /\ sent'[c] = sent[c] /\ order'[c] = order[c]
      /\ \A p \in Posts : /\ post'[p].by = c => post[p].by = c
                          /\ post[p].state # "unwritten" => post'[p].state # "unwritten"
<1> SUFFICES \A c \in Coords : Ring(c)
  BY DEF RingIsEnd
<1>1. ASSUME NEW c \in Coords, Same(c) PROVE Ring(c)
  <2>1. SentOnce(c, order[c], post) /\ order[c] \in Seq(Posts) /\ EndOf(sent[c], order[c])
    BY DEF RingIsEnd, TypeOK
  <2>2. SentOnce(c, order[c], post')
    BY <1>1, <2>1, SentStays
  <2> QED BY <1>1, <2>1, <2>2
<1>2. \A c \in Coords, p \in Posts : Send(c, p) => Ring(c)
  BY RingSend
<1>3. ASSUME NEW C, NEW saved, Leave(C, saved) PROVE \A c \in Coords : Ring(c)
  <2>1. \A c \in Coords : IF c \in C THEN sent'[c] = <<>> /\ order'[c] = <<>>
                          ELSE sent'[c] = sent[c] /\ order'[c] = order[c]
    BY <1>3 DEF Leave, Reset
  <2>2. \A p \in Posts : /\ post'[p].by = IF post[p].by \in C THEN "earlier" ELSE post[p].by
                         /\ post'[p].state = post[p].state
    <3> SUFFICES ASSUME NEW p \in Posts
                 PROVE  /\ post'[p].by = IF post[p].by \in C THEN "earlier" ELSE post[p].by
                        /\ post'[p].state = post[p].state
      OBVIOUS
    <3>1. post'[p] = IF post[p].by \in C THEN [post[p] EXCEPT !.by = "earlier"] ELSE post[p]
      BY <1>3 DEF Leave
    <3>2. \A r \in Post : /\ [r EXCEPT !.by = "earlier"].by = "earlier"
                          /\ [r EXCEPT !.by = "earlier"].state = r.state
      BY DEF Post
    <3> QED BY <3>1, <3>2
  <2>3. ASSUME NEW c \in Coords, c \in C PROVE Ring(c)
    <3>1. \A p \in Posts : post'[p].by # c
      BY <2>2, <2>3, MarkerAssumption
    <3>2. sent'[c] = <<>> /\ order'[c] = <<>>
      BY <2>1, <2>3
    <3>3. Len(<<>>) = 0 /\ 1..0 = {}
      OBVIOUS
    <3> QED BY <3>1, <3>2, <3>3, RingAssumption DEF EndOf, SentOnce
  <2>4. ASSUME NEW c \in Coords, c \notin C PROVE Same(c)
    <3>1. c # "earlier"
      BY MarkerAssumption
    <3> QED BY <2>1, <2>2, <2>4, <3>1
  <2> QED BY <1>1, <2>3, <2>4
<1>4. ASSUME NEW c \in Coords, NEW p \in Posts, Send(c, p)
      PROVE  \A d \in Coords \ {c} : Same(d)
  <2>1. \A d \in Coords \ {c} : sent'[d] = sent[d] /\ order'[d] = order[d]
    BY <1>4 DEF Send, TypeOK
  <2>2. post'[p].by = c /\ post'[p].state = "flying" /\ \A q \in Posts \ {p} : post'[q] = post[q]
    BY <1>4 DEF Send
  <2> QED BY <2>1, <2>2
<1>5. ASSUME NEW p \in Posts, Land(p) PROVE \A d \in Coords : Same(d)
  <2>1. post' = [post EXCEPT ![p] = [post[p] EXCEPT !.state = "landed"]]
    BY <1>5 DEF Land
  <2>2. \A r \in Post : /\ [r EXCEPT !.state = "landed"].by = r.by
                        /\ [r EXCEPT !.state = "landed"].state = "landed"
    BY DEF Post
  <2>3. post'[p].by = post[p].by /\ post'[p].state = "landed"
        /\ \A q \in Posts \ {p} : post'[q] = post[q]
    BY <2>1, <2>2
  <2> QED BY <1>5, <2>3 DEF Land, perCoord, history
<1>6. ASSUME NEW p \in Posts, AppWrites(p) PROVE \A d \in Coords : Same(d)
  <2>1. post'[p].by = "app" /\ post'[p].state = "landed"
        /\ \A q \in Posts \ {p} : post'[q] = post[q]
    BY <1>6 DEF AppWrites
  <2>2. "app" \notin Coords
    BY MarkerAssumption
  <2> QED BY <1>6, <2>1, <2>2 DEF AppWrites, perCoord, history
<1>7. CASE \/ \E c \in Coords : \/ Load(c) \/ LoadFails(c) \/ Save(c)
                                \/ Fetch(c) \/ FetchFails(c) \/ Pass(c)
           \/ \E c \in Coords, p \in Posts : Learn(c, p)
           \/ UNCHANGED vars
  <2>1. UNCHANGED <<sent, order, post>>
    BY <1>7 DEF Load, LoadFails, Starts, Save, Fetch, FetchFails, Pass, Learn, Finish,
                vars, perCoord, history
  <2> QED BY <1>1, <2>1
<1> HIDE DEF Ring, Same
<1>8. CASE (\E c \in Coords : Unload(c)) \/ Shutdown \/ Crash
  BY <1>3, <1>8 DEF Unload, Shutdown, Crash
<1>9. CASE \E c \in Coords, p \in Posts : Send(c, p)
  BY <1>1, <1>2, <1>4, <1>9
<1>10. CASE \E p \in Posts : Land(p) \/ AppWrites(p)
  BY <1>1, <1>5, <1>6, <1>10
<1> QED BY <1>7, <1>8, <1>9, <1>10 DEF Next

-----------------------------------------------------------------------------
(* Captures. *)

\* A write that is no longer in the ring has at least RingSize others after it.
LEMMA SentAfter ==
  ASSUME TypeOK, RingIsEnd, NEW c \in Coords, NEW p \in Posts, post[p].by = c,
         \A n \in DOMAIN sent[c] : sent[c][n] # p
  PROVE  SentSince(c, p) >= RingSize
<1> DEFINE o == order[c]
           L == Len(o)
           S == Len(sent[c])
<1>1. /\ o \in Seq(Posts) /\ sent[c] \in Seq(Posts) /\ L \in Nat /\ S \in Nat
      /\ RingSize \in Nat /\ RingSize > 0
      /\ DOMAIN o = 1..L /\ DOMAIN sent[c] = 1..S
      /\ \A n \in 1..L : o[n] \in Posts
  BY RingAssumption DEF TypeOK
<1>2. /\ S = IF L < RingSize THEN L ELSE RingSize
      /\ \A n \in 1..S : sent[c][n] = o[L - S + n]
  BY DEF RingIsEnd, EndOf
<1>3. /\ \A m, n \in 1..L : o[m] = o[n] => m = n
      /\ \E m \in 1..L : o[m] = p
  BY DEF RingIsEnd, SentOnce
<1>4. PICK m \in 1..L : o[m] = p
  BY <1>3
<1>5. SentSince(c, p) = Cardinality({q \in Posts :
        \E i, j \in 1..L : o[i] = p /\ o[j] = q /\ i < j})
  BY <1>1 DEF SentSince
<1> HIDE DEF o, L, S
<1>6. m <= L - S
  <2> SUFFICES ASSUME m > L - S PROVE FALSE
    BY <1>1, <1>4
  <2>1. m - (L - S) \in 1..S /\ L - S + (m - (L - S)) = m
    BY <1>1, <1>2, <1>4
  <2>2. sent[c][m - (L - S)] = p
    BY <1>2, <1>4, <2>1
  <2> QED BY <1>1, <2>1, <2>2
<1>7. S = RingSize /\ L - m >= RingSize
  BY <1>1, <1>2, <1>4, <1>6
<1> DEFINE since == {q \in Posts : \E i, j \in 1..L : o[i] = p /\ o[j] = q /\ i < j}
           f == [n \in m + 1..L |-> o[n]]
<1>8. \A n \in m + 1..L : n \in 1..L /\ m < n
  BY <1>1, <1>4
<1>9. f \in [m + 1..L -> since]
  BY <1>1, <1>4, <1>8
<1>10. \A i, j \in m + 1..L : f[i] = f[j] => i = j
  BY <1>3, <1>8
<1>11. \A q \in since : \E n \in m + 1..L : f[n] = q
  <2> SUFFICES ASSUME NEW q \in Posts, NEW i \in 1..L, NEW j \in 1..L,
                      o[i] = p, o[j] = q, i < j
               PROVE  \E n \in m + 1..L : f[n] = q
    OBVIOUS
  <2>1. i = m
    BY <1>3, <1>4
  <2>2. j \in m + 1..L
    BY <1>1, <1>4, <2>1
  <2> QED BY <2>2
<1> HIDE DEF since, f
<1>12. f \in Bijection(m + 1..L, since)
  BY <1>9, <1>10, <1>11 DEF Bijection, Injection, Surjection, IsInjective
<1>13. Cardinality(since) = Cardinality(m + 1..L)
  <2>1. IsFiniteSet(m + 1..L)
    BY <1>1, <1>4, FS_Interval
  <2>2. ExistsBijection(m + 1..L, since)
    BY <1>12 DEF ExistsBijection
  <2> QED BY <2>1, <2>2, FS_Bijection
<1>14. Cardinality(m + 1..L) = L - m
  <2>1. m + 1 \in Int /\ L \in Int
    BY <1>1, <1>4
  <2>2. Cardinality(m + 1..L) = IF m + 1 > L THEN 0 ELSE L - (m + 1) + 1
    BY <2>1, FS_Interval
  <2> QED BY <1>1, <1>4, <1>7, <2>2
<1> QED BY <1>5, <1>7, <1>13, <1>14 DEF since

\* What a coordinator that lives on has learned changes only by its captures.
LEMMA LearnedBy ==
  ASSUME TypeOK, Polling, [Next]_vars, NEW c \in Alive, c \in Alive', learned'[c] # learned[c]
  PROVE  \E p \in Posts : Learn(c, p)
<1> USE Parts
<1>0. c \in Coords
  BY DEF Alive
<1>1. ASSUME NEW d \in Coords, Load(d) \/ LoadFails(d) PROVE learned'[c] = learned[c]
  <2>1. c # d
    BY <1>1 DEF Load, LoadFails, Starts, Alive
  <2>2. \A t : Starts(d, t) => learned' = [learned EXCEPT ![d] = t]
    BY DEF Starts
  <2>3. PICK t : learned' = [learned EXCEPT ![d] = t]
    BY <1>1, <2>2 DEF Load, LoadFails
  <2> QED BY <1>0, <2>1, <2>3
<1>2. ASSUME NEW C \in SUBSET Coords, NEW saved, Leave(C, saved) PROVE learned'[c] = learned[c]
  BY <1>2, LeaveAlive
<1>3. {Alive} \cup {{d} : d \in Coords} \subseteq SUBSET Coords
  BY DEF Alive
<1>4. ASSUME NEW d \in Coords, Save(d) PROVE learned'[c] = learned[c]
  <2>1. learned' = learned \/ (life[d] = "gone" /\ learned' = [learned EXCEPT ![d] = NoTables])
    BY <1>4 DEF Save
  <2> QED BY <2>1 DEF Alive
<1>5. ASSUME NEW d \in Coords, NEW p \in Posts, Learn(d, p) PROVE d = c
  BY <1>0, <1>5 DEF Learn
<1>6. /\ \A d \in Coords : Fetch(d) \/ FetchFails(d) \/ Pass(d) => UNCHANGED learned
      /\ \A d \in Coords, p \in Posts : Send(d, p) => UNCHANGED learned
      /\ \A p \in Posts : Land(p) \/ AppWrites(p) => UNCHANGED learned
      /\ UNCHANGED vars => UNCHANGED learned
  BY DEF Fetch, FetchFails, Pass, Send, Land, AppWrites, perCoord, vars
<1>7. ~((\E d \in Coords : Unload(d)) \/ Shutdown \/ Crash)
  BY <1>2, <1>3 DEF Unload, Shutdown, Crash
<1> QED BY <1>1, <1>4, <1>5, <1>6, <1>7 DEF Next

\* A coordinator never takes what was on the channel at its first look, nor a
\* frame of its own that its ring still holds, for a command of somebody else.
THEOREM LearnsOthers == Spec => LearnsFromOthers
<1> DEFINE I == TypeOK /\ AllSeen /\ Polling /\ FirstIsPast /\ RingIsEnd
           Foreign == \A c \in Coords, p \in Posts :
             learned'[c] # learned[c] /\ c \in Alive \cap Alive' /\ reading[c] = p =>
               /\ p # first'[c]
               /\ post[p].by = c => post[p].padded \/ SentSince(c, p) >= RingSize
<1>1. Init => I
  BY TypeInit, SeenInit, PollingInit, FirstInit, RingInit
<1>2. I /\ [Next]_vars => I'
  BY TypeNext, SeenNext, PollingNext, FirstNext, RingNext
<1>3. I /\ [Next]_vars => Foreign
  <2> SUFFICES ASSUME I, [Next]_vars, NEW c \in Coords, NEW p \in Posts,
                      learned'[c] # learned[c], c \in Alive, c \in Alive', reading[c] = p
               PROVE  /\ p # first'[c]
                      /\ post[p].by = c => post[p].padded \/ SentSince(c, p) >= RingSize
    OBVIOUS
  <2>1. \E q \in Posts : Learn(c, q)
    BY LearnedBy
  <2>2. Learn(c, p)
    BY <2>1 DEF Learn, Teaches
  <2>3. marker[c] # None /\ reading[c] # marker[c] /\ ~Own(c, p) /\ first'[c] = first[c]
    BY <2>2, Parts DEF Learn, Teaches, Fresh, Finish
  <2>4. p # first[c]
    BY <2>3 DEF FirstIsPast
  <2>5. ASSUME post[p].by = c, ~post[p].padded PROVE SentSince(c, p) >= RingSize
    BY <2>3, <2>5, SentAfter DEF Own
  <2>6. post[p].padded \in BOOLEAN
    BY Parts DEF Post
  <2> QED BY <2>3, <2>4, <2>5, <2>6
<1>4. I /\ [Next]_vars => [Foreign]_vars
  BY <1>3
<1>5. Spec => [][Foreign]_vars
  BY <1>1, <1>2, <1>4, PTL DEF Spec
<1> QED BY <1>5 DEF LearnsFromOthers

\* The invariant that the proofs rest on, which the other theorems use in parts.
THEOREM Inductive == Spec => []IInv
<1>1. Init => IInv
  <2>1. Init => IdFollowsFrames
    BY DEF Init, Alive, IdFollowsFrames
  <2> QED BY <2>1, TypeInit, SeenInit, PollingInit, HeldInit, StoreInit, FirstInit, RingInit
          DEF IInv
<1>2. IInv /\ [Next]_vars => IInv'
  BY TypeNext, SeenNext, PollingNext, HeldNext, IdNext, StoreNext, FirstNext, RingNext DEF IInv
<1> QED BY <1>1, <1>2, PTL DEF Spec
=============================================================================
