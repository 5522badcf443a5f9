---------------------------- MODULE DrinkCommands ---------------------------
(***************************************************************************)
(* From the machine's datapoints to the frame of a drink: the coordinator  *)
(* of a machine that learns from the official app keeps a catalogue of     *)
(* what the machine offers, learns the frames the app writes for it, and   *)
(* replays or builds the frames of its own commands.                       *)
(*                                                                         *)
(* It begins after the first refresh.  Who wrote the last command is known *)
(* (FrameLearning is about that).  Of the session only its id is kept: the *)
(* integration's own, which follows what has been learned, or that of      *)
(* another client, ridden for a while.  When it may move, and what it      *)
(* takes to send under it, is CloudSession's part.                         *)
(***************************************************************************)
EXTENDS Blobs, Frames

CONSTANTS
  Contents,   \* per datapoint, what it may hold
  AppFrames,  \* what the official app writes
  Ids,        \* drinks that are asked for or brewed
  Builtin,    \* those of BEVERAGES
  Slots,      \* profiles that are asked for
  FallbackId, \* the constant session id
  ForeignIds, \* session ids that the machine may report
  Now         \* time of day, as a frame has it

\* What the recipe datapoints may hold.
Values == UNION {Contents[n] : n \in Names}
AllProps == [Names -> Values]

ASSUME ContentAssumption ==
  \A v \in Values :
    v = None \/ v \in [family : Families \cup {"live"}, shape : {"whole", "cut", "corrupt"},
                       payload : Seq(0..255 \cup {Blank}), padded : BOOLEAN]
ASSUME NoneAssumption ==
  \A p \in AllProps : Build(p) # None /\ Fingerprint(p) # None
ASSUME FrameAssumption ==
  /\ NoFrame \notin AppFrames
  /\ AppFrames \subseteq Seq(0..255)
  /\ \A f \in AppFrames :
       /\ Brew(f) => f[5] \in Ids
       /\ SignatureIn(f) # NoFrame => SignatureIn(f) \in [1..4 -> 0..Base - 1]
ASSUME SessionAssumption == FallbackId \in Int /\ ForeignIds \subseteq Int
ASSUME NowAssumption == Now \in Seq(0..255) /\ Len(Now) = 4

VARIABLES
  props,        \* the recipe datapoints, as the cloud has them
  catalog,      \* catalog
  fingerprint,  \* _catalog_fingerprint
  command,      \* the command datapoint: its value, who wrote it, what was asked
  marker,       \* _last_cmd_marker: none, or the last write is seen or new
  wake,         \* learned_wake_frame
  start,        \* learned_start_frames
  stop,         \* learned_stop_frames
  integrationAppId,  \* _integration_app_id
  adopted            \* history: that id was adopted, and is not our own

learned == <<wake, start, stop>>
session == <<integrationAppId, adopted>>
vars == <<props, catalog, fingerprint, command, marker, learned, session>>

Start == 1
Stop == 2

\* What somebody may ask for.
Drink(id, action) == [kind |-> "drink", params |-> <<id, action>>]
PowerAsk(params) == [kind |-> "power", params |-> params]
ProfileAsk(slot) == [kind |-> "profile", params |-> <<slot>>]
Nothing == [kind |-> "nothing", params |-> <<>>]
Asks == {Drink(id, action) : id \in Ids, action \in {Start, Stop}}
        \cup {PowerAsk(params) : params \in {Wake, Standby, Refresh}}
        \cup {ProfileAsk(slot) : slot \in Slots} \cup {Nothing}

\* A frame of the app, or none yet.
Kept == AppFrames \cup {NoFrame}

\* The values each part of the state may take; what is learned was written by
\* the app, under the drink and the action it belongs to.
TypeOK ==
  /\ props \in AllProps
  /\ catalog = None <=> fingerprint = None
  /\ catalog # None => ~Empty(catalog)
  /\ command.by \in {"nobody", "app", "integration"}
  /\ command.asked \in Asks
  /\ command.by # "integration" => command.value \in Kept
  /\ marker \in {"none", "seen", "new"}
  /\ wake \in Kept
  /\ wake # NoFrame => PowersOn(wake)
  /\ start \in [Ids -> Kept]
  /\ stop \in [Ids -> Kept]
  /\ \A id \in Ids :
       /\ start[id] # NoFrame => start[id][5] = id /\ start[id][6] # Stop
       /\ stop[id] # NoFrame => stop[id][5] = id /\ stop[id][6] = Stop
  /\ integrationAppId \in Int /\ adopted \in BOOLEAN

-----------------------------------------------------------------------------
(* The session's id. *)

\* It names a session; zero does not.
Signs(frame) == frame # NoFrame /\ SignatureIn(frame) \notin {NoFrame, <<0, 0, 0, 0>>}

\* _learned_device_signature: power-on, starts, stops, whichever signs first.  A
\* machine has one signature, so that among the starts the order is no matter.
Signature ==
  LET starts == {start[id] : id \in {i \in Ids : Signs(start[i])}}
      stops == {stop[id] : id \in {i \in Ids : Signs(stop[i])}}
  IN IF Signs(wake) THEN SignatureIn(wake)
     ELSE IF starts # {} THEN SignatureIn(CHOOSE f \in starts : TRUE)
     ELSE IF stops # {} THEN SignatureIn(CHOOSE f \in stops : TRUE)
     ELSE NoFrame

\* _own_app_id.
OwnId == IF Signature = NoFrame THEN FallbackId ELSE IdOf(Signature)

\* Mutant of Rebound: the session is not bound to the id that was learned.
NotRebound == integrationAppId

\* _refresh_device_app_id, after what this step learns: an id of our own
\* becomes the new one, an adopted one stays.
Rebound == IF integrationAppId = OwnId THEN OwnId' ELSE integrationAppId

\* What a poll makes of the session's id: it is rebound when something has been
\* learned, and given up for our own if the machine reports no session.
FollowSession ==
  /\ integrationAppId' \in {Rebound, OwnId'}
  /\ adopted' = (adopted /\ integrationAppId' # OwnId')

\* A command, before it writes or without ever writing, adopts the id that the
\* machine reports, or gives an adopted one up.
SessionMoves(id) ==
  /\ integrationAppId' = id
  /\ adopted' = (id # OwnId)
  /\ UNCHANGED <<props, catalog, fingerprint, command, marker, learned>>

-----------------------------------------------------------------------------
(* The poll. *)

\* Nothing that the catalogue is made of has changed.
Current(key) == key = fingerprint /\ catalog # None

\* _update_catalog.
UpdateCatalog ==
  LET key == Fingerprint(props)
      built == Build(props)
  IN IF Current(key) \/ Empty(built) THEN UNCHANGED <<catalog, fingerprint>>
     ELSE catalog' = built /\ fingerprint' = key

\* Mutant of KnownNow: the gate looks at the catalogue of the poll before.
KnownBefore == Builtin \cup Declared(catalog)

\* What may be learned: the catalogue has been updated by now.
KnownNow == Builtin \cup Declared(catalog')

\* Mutant of Captured: own commands are captured too.
CapturedAny == marker = "new"

\* The poll shows a command of the app that it has not shown before.
Captured == marker = "new" /\ command.by = "app"

Stopping(frame) == frame[6] = Stop

\* _capture_channel and _maybe_learn_frame.
Sniff ==
  LET frame == command.value
      drink == Captured /\ Learnable(frame, KnownNow)
  IN /\ marker' = IF frame = NoFrame THEN marker ELSE "seen"
     /\ wake' = IF Captured /\ PowersOn(frame) THEN frame ELSE wake
     /\ start' = IF drink /\ ~Stopping(frame)
                 THEN [start EXCEPT ![frame[5]] = frame] ELSE start
     /\ stop' = IF drink /\ Stopping(frame)
                THEN [stop EXCEPT ![frame[5]] = frame] ELSE stop

\* _fetch_once: the catalogue first, so that a drink that turns up in this
\* poll can be learned in it.
Poll ==
  /\ UpdateCatalog
  /\ Sniff
  /\ FollowSession
  /\ UNCHANGED <<props, command>>

\* The entry is set up again: its new coordinator has the learned frames and
\* the id they give, and its first refresh builds a catalogue and takes note of
\* the last command.
Reload ==
  /\ LET built == Build(props)
     IN IF Empty(built) THEN catalog' = None /\ fingerprint' = None
        ELSE catalog' = built /\ fingerprint' = Fingerprint(props)
  /\ marker' = IF command.value = NoFrame THEN "none" ELSE "seen"
  /\ integrationAppId' = OwnId
  /\ adopted' = FALSE
  /\ UNCHANGED <<props, command, learned>>

-----------------------------------------------------------------------------
(* The cloud. *)

\* The machine, or the app through it, writes a recipe datapoint; it may
\* arrive damaged or be gone.
DatapointChanges(n) ==
  /\ \E v \in Contents[n] : props' = [props EXCEPT ![n] = v]
  /\ UNCHANGED <<catalog, fingerprint, command, marker, learned, session>>

Written(value, by, asked) ==
  /\ command' = [value |-> value, by |-> by, asked |-> asked]
  /\ marker' = IF marker = "none" THEN "none" ELSE "new"
  /\ UNCHANGED <<props, catalog, fingerprint, learned, session>>

AppWrites(frame) == Written(frame, "app", Nothing)

-----------------------------------------------------------------------------
(* Commands. *)

\* Mutant of Table: stops are kept with the starts.
OneTable(action) == start

Table(action) == IF action = Stop THEN stop ELSE start

\* async_send_beverage: the learned frame, or a frame that at least is right
\* for another model.
BeverageValue(id, action) ==
  IF Table(action)[id] # NoFrame THEN Replay(Table(action)[id], Now)
  ELSE BeverageFrame(id, action, Now)

SendBeverage(id, action) ==
  Written(BeverageValue(id, action), "integration", Drink(id, action))

\* Wakes, the refresh that may go before one, and standbys.
SendPower(params) ==
  Written(PowerFrame(params, Now, TailOf(integrationAppId)), "integration", PowerAsk(params))

\* async_send_profile: a profile that is not offered is refused, unless none is.
SendProfile(slot) ==
  /\ Offered(catalog) # {} => slot \in Offered(catalog)
  /\ Written(ProfileFrame(slot, Now, TailOf(integrationAppId)), "integration", ProfileAsk(slot))

-----------------------------------------------------------------------------

\* The first refresh has been made; nothing has been learned.
Init ==
  /\ props \in {p \in AllProps : \A n \in Names : p[n] \in Contents[n]}
  /\ catalog = IF Empty(Build(props)) THEN None ELSE Build(props)
  /\ fingerprint = IF Empty(Build(props)) THEN None ELSE Fingerprint(props)
  /\ \/ /\ command = [value |-> NoFrame, by |-> "nobody", asked |-> Nothing]
        /\ marker = "none"
     \/ /\ \E f \in AppFrames : command = [value |-> f, by |-> "app", asked |-> Nothing]
        /\ marker = "seen"
  /\ wake = NoFrame
  /\ start = [id \in Ids |-> NoFrame]
  /\ stop = [id \in Ids |-> NoFrame]
  /\ integrationAppId = OwnId
  /\ adopted = FALSE

Next ==
  \/ Poll
  \/ Reload
  \/ \E n \in Names : DatapointChanges(n)
  \/ \E f \in AppFrames : AppWrites(f)
  \/ \E id \in Ids, action \in {Start, Stop} : SendBeverage(id, action)
  \/ \E params \in {Wake, Standby, Refresh} : SendPower(params)
  \/ \E slot \in Slots : SendProfile(slot)
  \/ \E id \in ForeignIds \cup {OwnId} : id # integrationAppId /\ SessionMoves(id)

Spec == Init /\ [][Next]_vars

-----------------------------------------------------------------------------
(* Safety. *)

\* When the fingerprint says that nothing has changed, the catalogue is the
\* one that would be built now: what is read past the fingerprint never
\* freezes it.
CacheTransparent == Current(Fingerprint(props)) => catalog = Build(props)

\* The catalogue that a poll goes by, whatever is cached.
Seen == IF Empty(Build(props)) THEN catalog ELSE Build(props)

\* A drink that the app brews is learned by the poll that shows it, if the
\* integration knows the drink or the machine declares it, be it in that same
\* poll for the first time, and unless the frame is none but the integration's.
DrinkLearned ==
  [][Captured /\ Poll /\ Learnable(command.value, Builtin \cup Declared(Seen)) =>
       Table(command.value[6])'[command.value[5]] = command.value]_vars

\* What is written is what was asked for, whichever frames it was made of: the
\* machine can check and read it, no start is a stop, and its time is now
\* wherever a frame has one.
CommandAsAsked ==
  command.by = "integration" =>
    LET read == Decode(command.value)
        asked == command.asked
    IN /\ read.crc_valid
       /\ IF asked.kind = "drink"
          THEN /\ read.type = "beverage"
               /\ read.params[1] = asked.params[1]
               /\ read.params[2] = Stop <=> asked.params[2] = Stop
          ELSE read.type = asked.kind /\ read.params = asked.params
       /\ Timed(command.value) =>
            Slice(command.value, FrameLength(command.value), FrameLength(command.value) + 4) = Now

\* Once a frame with the machine's signature has been learned, what names a
\* session names the machine's own, digit for digit, unless it rides the
\* session of another client: the id that frames are built with has followed
\* what was learned, through adoptions, releases and reloads (issue #15).
TailIsSignature ==
  [][command' # command /\ command'.by = "integration" /\ Signature # NoFrame
       /\ ~adopted /\ command'.asked.kind \in {"power", "profile"} =>
     SignatureIn(command'.value) = Signature]_vars
=============================================================================
