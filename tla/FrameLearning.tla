---------------------------- MODULE FrameLearning ---------------------------
(***************************************************************************)
(* How a coordinator learns frames from the command channel (the sniffer   *)
(* of coordinator.py), keeps them across restarts and derives the          *)
(* machine's cloud id from them.                                           *)
(*                                                                         *)
(* The channel is one datapoint that holds the last value written to it by *)
(* anybody.  A post is one write to it; what the official app writes is on *)
(* the channel at once, what a coordinator writes flies for a while.  A    *)
(* coordinator lives from the setup of an entry to its unload; with two    *)
(* entries for one machine two of them live at once.  What dies with a     *)
(* coordinator is reset, so that the same name serves for another.         *)
(***************************************************************************)
EXTENDS Naturals, Sequences, FiniteSets

CONSTANTS
  Coords,    \* coordinators of the machine, one per setup of an entry
  Posts,     \* writes to the command channel, by anybody
  Brews,     \* keys of the learned tables: a drink, and start or stop
  Relic,     \* the frame an older version stored as the wake frame
  None,
  RingSize,  \* maxlen of _sent_values
  Entries    \* entries that hold this machine

ASSUME MarkerAssumption ==
  /\ None \notin Posts \cup {Relic} /\ Relic \notin Posts
  /\ "idle" \notin Posts \cup {Relic, None}
  /\ {"app", "earlier", "nobody"} \cap Coords = {}
  /\ {"wake", "other"} \cap Brews = {}
ASSUME RingAssumption == RingSize \in Nat \ {0} /\ Entries \in Nat \ {0}

VARIABLES
  life,     \* per coordinator: absent, loaded, up, or gone with a save due
  learned,  \* learned_wake_frame and the tables of start and stop frames
  id,       \* _device_app_id
  sent,     \* _sent_values
  marker,   \* _last_cmd_marker
  reading,  \* what the poll in progress found on the channel, or idle
  pending,  \* a debounced save is due
  post,     \* every write: its author, state and frame
  channel,  \* the last value of the command datapoint
  disk,     \* the store
  order,    \* history: all that a coordinator sent
  first,    \* history: what it found at its first look
  apart,    \* history: those whose tables and the store went apart
  kept      \* history: the frames the next load has to give back

perCoord == <<life, learned, id, sent, marker, reading, pending>>
history == <<order, first, apart, kept>>
vars == <<perCoord, post, channel, disk, history>>

\* Only power-ons and known drinks are learned; session refreshes, standbys,
\* profile switches and what does not decode are other.
Slots == {"wake"} \cup Brews
Kinds == Slots \cup {"other"}
Tails == {"machine", "fallback", "none"}
Tables == [Slots -> Posts \cup {Relic, None}]
NoTables == [s \in Slots |-> None]

\* The values each part of the state may take.
TypeOK ==
  /\ life \in [Coords -> {"absent", "loaded", "up", "gone"}]
  /\ learned \in [Coords -> Tables]
  /\ id \in [Coords -> Tails]
  /\ sent \in [Coords -> Seq(Posts)]
  /\ \A c \in Coords : Len(sent[c]) <= RingSize
  /\ marker \in [Coords -> Posts \cup {Relic, None}]
  /\ reading \in [Coords -> Posts \cup {Relic, None, "idle"}]
  /\ pending \in [Coords -> BOOLEAN]
  /\ post \in [Posts \cup {Relic} ->
                 [by : Coords \cup {"app", "earlier", "nobody"},
                  state : {"unwritten", "flying", "landed"},
                  kind : Kinds, tail : Tails, padded : BOOLEAN]]
  /\ channel \in Posts \cup {Relic, None}
  /\ disk \in Tables
  /\ order \in [Coords -> Seq(Posts)]
  /\ first \in [Coords -> Posts \cup {Relic, None}]
  /\ apart \subseteq Coords
  /\ kept \in Tables \cup {None}

Alive == {c \in Coords : life[c] \in {"loaded", "up"}}

-----------------------------------------------------------------------------
(* What the learned frames give. *)

TailOf(p) == IF p = None THEN "none" ELSE post[p].tail

\* _learned_device_signature: the wake frame is asked first, then the others
\* in the order they were learned in, which is left open here.
Signature(tables) ==
  LET signing == {b \in Brews : TailOf(tables[b]) # "none"}
  IN IF TailOf(tables["wake"]) # "none" THEN TailOf(tables["wake"])
     ELSE IF signing # {} THEN TailOf(tables[CHOOSE b \in signing : TRUE])
     ELSE "none"

\* Mutant of Sanitised: what is stored is taken as it is.
AsStored(tables) == tables

\* A stored wake frame that is no power-on is dropped when it is loaded.
Sanitised(tables) ==
  IF tables["wake"] # None /\ post[tables["wake"]].kind # "wake"
  THEN [tables EXCEPT !["wake"] = None] ELSE tables

\* Mutant of IdAfterLoad: the id is derived only from new captures.
NoIdAfterLoad(tables) == "none"

IdAfterLoad(tables) == Signature(tables)

-----------------------------------------------------------------------------
(* The life of a coordinator. *)

Starts(c, tables) ==
  /\ life[c] = "absent"
  /\ Cardinality(Alive) < Entries
  /\ life' = [life EXCEPT ![c] = "loaded"]
  /\ learned' = [learned EXCEPT ![c] = tables]
  /\ id' = [id EXCEPT ![c] = IdAfterLoad(tables)]
  /\ kept' = None
  /\ UNCHANGED <<sent, marker, reading, pending, post, channel, disk, order,
                 first>>

\* Setup, with async_load_learned.
Load(c) ==
  /\ Starts(c, Sanitised(disk))
  /\ apart' = IF Alive = {} /\ \A d \in Coords : ~pending[d]
              THEN apart ELSE apart \cup Alive \cup {c}

\* The store cannot be read: setup goes on with nothing learned.
LoadFails(c) ==
  /\ Starts(c, NoTables)
  /\ apart' = apart \cup Alive \cup {c}

\* What those that leave have to leave behind: nothing is promised of two at
\* once, or while a save is due that is not made now.
Promised(C, saved) ==
  IF \E c \in C : C = {c} /\ c \notin apart
                 /\ \A d \in Coords : pending[d] => saved /\ d = c
  THEN learned[CHOOSE c \in C : TRUE] ELSE None

Reset(f, C, value) == [c \in Coords |-> IF c \in C THEN value ELSE f[c]]

\* Its memory goes, except for the frames that a save is still to write.
Leave(C, saved) ==
  /\ C # {}
  /\ LET due == {c \in Coords : pending'[c]}
         left == {c \in Coords \ due : c \in C \/ life[c] = "gone"}
     IN /\ life' = [c \in Coords |-> IF c \in left THEN "absent"
                                    ELSE IF c \in C THEN "gone" ELSE life[c]]
        /\ learned' = Reset(learned, left, NoTables)
  /\ id' = Reset(id, C, "none")
  /\ sent' = Reset(sent, C, <<>>)
  /\ marker' = Reset(marker, C, None)
  /\ reading' = Reset(reading, C, "idle")
  /\ order' = Reset(order, C, <<>>)
  /\ first' = Reset(first, C, None)
  /\ post' = [p \in DOMAIN post |-> IF post[p].by \in C
                 THEN [post[p] EXCEPT !.by = "earlier"] ELSE post[p]]
  /\ apart' = apart \ C
  /\ kept' = Promised(C, saved)
  /\ UNCHANGED channel

\* The entry is unloaded, for a reload or for good, or its first refresh fails
\* and the setup ends.  A save that is due is still made; a poll in progress
\* ends.
Unload(c) ==
  /\ c \in Alive
  /\ UNCHANGED <<pending, disk>>
  /\ Leave({c}, FALSE)

\* Home Assistant stops, and makes the saves that are due.
Shutdown ==
  /\ pending' = [c \in Coords |-> FALSE]
  /\ Leave(Alive, TRUE)
  /\ \/ \E c \in Coords : pending[c] /\ disk' = learned[c]
     \/ (\A c \in Coords : ~pending[c]) /\ UNCHANGED disk

\* It dies, and the saves that are due are lost.
Crash ==
  /\ pending' = [c \in Coords |-> FALSE]
  /\ Leave(Alive, FALSE)
  /\ UNCHANGED disk

\* The debounced save fires, after an unload too.
Save(c) ==
  /\ pending[c]
  /\ disk' = learned[c]
  /\ pending' = [pending EXCEPT ![c] = FALSE]
  /\ IF life[c] = "gone"
     THEN /\ life' = [life EXCEPT ![c] = "absent"]
          /\ learned' = [learned EXCEPT ![c] = NoTables]
     ELSE UNCHANGED <<life, learned>>
  /\ UNCHANGED <<id, sent, marker, reading, post, channel, history>>

-----------------------------------------------------------------------------
(* Writes. *)

Frames(kinds, tails, padding) ==
  [kind : kinds, tail : tails, padded : padding]

\* The tail of a frame that names a session: the own id, or the one of the
\* official app while it is adopted.
OwnTail(c) == IF id[c] # "none" THEN id[c] ELSE "fallback"

\* What a coordinator may write: power-ons it builds, learned frames it
\* replays, frames that are never learned, and raw values, which may have
\* white space around them.
Commands(c) ==
  Frames({"wake"}, {OwnTail(c), "machine"}, {FALSE})
  \cup (UNION {Frames({b}, {TailOf(learned[c][b])}, {FALSE}) :
                b \in {k \in Brews : learned[c][k] # None}})
  \cup Frames({"other"}, {"none"}, {FALSE})
  \cup Frames(Slots, {"machine"}, BOOLEAN)

\* Mutant of Recorded: the ring is not bounded.
RecordedAll(ring, p) == Append(ring, p)

\* Mutant of Recorded: the ring is one short.
RecordedShort(ring, p) ==
  IF Len(ring) < RingSize - 1 THEN Append(ring, p)
  ELSE Append(SubSeq(ring, 2, Len(ring)), p)

\* _record_sent.
Recorded(ring, p) ==
  IF Len(ring) < RingSize THEN Append(ring, p) ELSE Append(SubSeq(ring, 2, RingSize), p)

\* The value is recorded before the write is on its way.
Send(c, p) ==
  /\ life[c] = "up"
  /\ post[p].state = "unwritten"
  /\ \E f \in Commands(c) :
       post' = [post EXCEPT ![p] = [by |-> c, state |-> "flying", kind |-> f.kind,
                                    tail |-> f.tail, padded |-> f.padded]]
  /\ sent' = [sent EXCEPT ![c] = Recorded(sent[c], p)]
  /\ order' = [order EXCEPT ![c] = Append(order[c], p)]
  /\ UNCHANGED <<life, learned, id, marker, reading, pending, channel, disk,
                 first, apart, kept>>

\* The cloud takes a write, whatever its author hears of it.  A write that is
\* lost flies for ever.
Land(p) ==
  /\ post[p].state = "flying"
  /\ post' = [post EXCEPT ![p].state = "landed"]
  /\ channel' = p
  /\ UNCHANGED <<perCoord, disk, history>>

\* The official app sends a command; its frames carry the machine's signature.
AppWrites(p) ==
  /\ post[p].state = "unwritten"
  /\ \E kind \in Kinds :
       post' = [post EXCEPT ![p] = [by |-> "app", state |-> "landed", kind |-> kind,
                                    tail |-> "machine", padded |-> FALSE]]
  /\ channel' = p
  /\ UNCHANGED <<perCoord, disk, history>>

-----------------------------------------------------------------------------
(* The poll and the sniffer. *)

\* The cloud answers the poll with the channel as it is now.
Fetch(c) ==
  /\ c \in Alive
  /\ reading[c] = "idle"
  /\ reading' = [reading EXCEPT ![c] = channel]
  /\ UNCHANGED <<life, learned, id, sent, marker, pending, post, channel, disk,
                 history>>

\* The answer is lost.
FetchFails(c) ==
  /\ life[c] = "up"
  /\ reading[c] # "idle"
  /\ reading' = [reading EXCEPT ![c] = "idle"]
  /\ UNCHANGED <<life, learned, id, sent, marker, pending, post, channel, disk,
                 history>>

\* Mutant of Own: recorded and sniffed values differ by their white space.
OwnPaddedToo(c, p) == \E n \in DOMAIN sent[c] : n > 1 /\ sent[c][n] = p

\* The sniffed value is stripped; the recorded one is as it was sent.
Own(c, p) == ~post[p].padded /\ \E n \in DOMAIN sent[c] : sent[c][n] = p

\* Mutant of Fresh: what was there at startup is taken for a capture.
FreshAtOnce(c) == reading[c] \notin {None, marker[c]}

\* The first value seen is never a capture.
Fresh(c) == reading[c] \notin {None, marker[c]} /\ marker[c] # None

\* _maybe_learn_frame: the slot a captured frame belongs to.
Teaches(c, p) ==
  /\ Fresh(c)
  /\ p = reading[c]
  /\ ~Own(c, p)
  /\ post[p].kind \in Slots
  /\ learned[c][post[p].kind] # p

Finish(c) ==
  /\ reading[c] # "idle"
  /\ reading' = [reading EXCEPT ![c] = "idle"]
  /\ life' = [life EXCEPT ![c] = "up"]
  /\ marker' = IF reading[c] = None THEN marker
               ELSE [marker EXCEPT ![c] = reading[c]]
  /\ first' = IF marker[c] = None THEN [first EXCEPT ![c] = reading[c]] ELSE first
  /\ UNCHANGED <<sent, post, channel, disk, order, apart, kept>>

\* Mutant of Refreshed: a learned drink does not renew the id.
RefreshedByWake(c, tables) ==
  IF tables["wake"] = learned[c]["wake"] THEN id[c] ELSE Signature(tables)

\* _refresh_device_app_id after a capture.
Refreshed(c, tables) == Signature(tables)

\* Mutant of Due: only a wake is saved.
DueForWake(c, p) == pending[c] \/ post[p].kind = "wake"

Due(c, p) == TRUE

\* The poll finds a frame of somebody else and learns it.
Learn(c, p) ==
  /\ Teaches(c, p)
  /\ Finish(c)
  /\ learned' = [learned EXCEPT ![c][post[p].kind] = p]
  /\ id' = [id EXCEPT ![c] = Refreshed(c, learned'[c])]
  /\ pending' = [pending EXCEPT ![c] = Due(c, p)]

\* The poll finds nothing to learn.
Pass(c) ==
  /\ \A p \in Posts \cup {Relic} : ~Teaches(c, p)
  /\ Finish(c)
  /\ UNCHANGED <<learned, id, pending>>

-----------------------------------------------------------------------------

\* No coordinator lives; the channel may hold a frame of the app, and the
\* store what an older version took for a power-on.
Init ==
  /\ life = [c \in Coords |-> "absent"]
  /\ learned = [c \in Coords |-> NoTables]
  /\ id = [c \in Coords |-> "none"]
  /\ sent = [c \in Coords |-> <<>>]
  /\ marker = [c \in Coords |-> None]
  /\ reading = [c \in Coords |-> "idle"]
  /\ pending = [c \in Coords |-> FALSE]
  /\ \E kind \in {"wake", "other"} :
       post = [p \in Posts \cup {Relic} |->
                 IF p = Relic
                 THEN [by |-> "app", state |-> "landed", kind |-> kind,
                       tail |-> "machine", padded |-> FALSE]
                 ELSE [by |-> "nobody", state |-> "unwritten", kind |-> "other",
                       tail |-> "none", padded |-> FALSE]]
  /\ channel \in {Relic, None}
  /\ disk \in {NoTables, [NoTables EXCEPT !["wake"] = Relic]}
  /\ order = [c \in Coords |-> <<>>]
  /\ first = [c \in Coords |-> None]
  /\ apart = {}
  /\ kept = None

Next ==
  \/ \E c \in Coords : Load(c) \/ LoadFails(c) \/ Unload(c) \/ Save(c)
                       \/ Fetch(c) \/ FetchFails(c) \/ Pass(c)
  \/ \E c \in Coords, p \in Posts : Send(c, p) \/ Learn(c, p)
  \/ \E p \in Posts : Land(p) \/ AppWrites(p)
  \/ Shutdown
  \/ Crash

Spec == Init /\ [][Next]_vars

-----------------------------------------------------------------------------
(* Safety. *)

\* How many writes a coordinator recorded after p.
SentSince(c, p) == Cardinality({q \in Posts :
  \E m, n \in DOMAIN order[c] : order[c][m] = p /\ order[c][n] = q /\ m < n})

\* A coordinator learns a frame of its own only if it was a raw value with
\* white space around it, or if it wrote RingSize others since: neither a
\* slow write nor a poll that overtakes it makes it take its own frame for the
\* app's.  And nothing that was on the channel at its first look is learned.
LearnsFromOthers ==
  [][\A c \in Coords, p \in Posts :
       learned'[c] # learned[c] /\ c \in Alive \cap Alive' /\ reading[c] = p =>
         /\ p # first'[c]
         /\ post[p].by = c => post[p].padded \/ SentSince(c, p) >= RingSize]_vars

\* The machine's id is at all times the one its learned frames give, after
\* captures, loads, and the wake frame that a load drops (issue #15).
IdFollowsFrames == \A c \in Alive : id[c] = Signature(learned[c])

\* No packet that merely refreshes a session is kept as the power-on frame,
\* whatever older versions stored, and no stop is replayed for a start.
SlotsHoldTheirKind ==
  \A c \in Coords, s \in Slots :
    learned[c][s] # None => post[learned[c][s]].kind = s

\* A restart or reload gives back what was learned, unless a save was due at
\* a crash or a reload, or two coordinators shared the store
\* (_learned_storage_data).
RestartKeepsLearned ==
  [][\A c \in Coords : Load(c) /\ kept # None => learned'[c] = kept]_vars

\* "Frames matching what this integration would emit itself are still
\* ignored", and the machine's id is its own signature, "not the fallback":
\* no coordinator takes the constant for the machine's id.
KnownIdIsMachines == \A c \in Coords : id[c] # "fallback"
=============================================================================
