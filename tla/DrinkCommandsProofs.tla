------------------------ MODULE DrinkCommandsProofs -------------------------
(***************************************************************************)
(* That the fingerprint loses nothing the catalogue is made of, so that    *)
(* the cached catalogue is the current one; that what the app brews is     *)
(* therefore learned by the poll that shows it; and that what is sent out  *)
(* of learned and built frames is what was asked for, under the machine's  *)
(* own id once that is known.                                              *)
(***************************************************************************)
EXTENDS DrinkCommands, FramesProofs

USE DEF Kept

\* What stands in a datapoint.
Blob == [family : Families \cup {"live"}, shape : {"whole", "cut", "corrupt"},
         payload : Seq(0..255 \cup {Blank}), padded : BOOLEAN]

\* The cached catalogue was built from the datapoints whose fingerprint is kept.
Cached ==
  /\ props \in AllProps
  /\ catalog # None => \E p \in AllProps : fingerprint = Fingerprint(p) /\ catalog = Build(p)

\* What the app wrote is a frame, and what has been learned of it is intact.
Sound ==
  /\ command.by = "app" => command.value \in AppFrames
  /\ \A id \in Ids :
       /\ start[id] # NoFrame => Brew(start[id]) /\ Intact(start[id])
       /\ stop[id] # NoFrame => Brew(stop[id]) /\ Intact(stop[id])

\* What is learned are frames of the app.
LearnedTyped ==
  /\ wake \in Kept
  /\ start \in [Ids -> Kept]
  /\ stop \in [Ids -> Kept]

\* An id that was not adopted is our own, as it follows from what is learned.
OwnUnlessAdopted == ~adopted => integrationAppId = OwnId

\* A value is what was asked for; CommandAsAsked says so of own commands.
AsAsked(value, asked) ==
  /\ Intact(value)
  /\ IF asked.kind = "drink"
     THEN /\ Decode(value).type = "beverage"
          /\ Decode(value).params[1] = asked.params[1]
          /\ Decode(value).params[2] = Stop <=> asked.params[2] = Stop
     ELSE Decode(value).type = asked.kind /\ Decode(value).params = asked.params
  /\ Timed(value) => Stamped(value, Now)

Asked == command.by = "integration" => AsAsked(command.value, command.asked)

-----------------------------------------------------------------------------

\* A value that stripping leaves the same has the same family, shape, payload.
LEMMA StrippedKeeps ==
  ASSUME NEW v \in Blob, NEW w \in Blob, Stripped(v) = Stripped(w)
  PROVE  v.family = w.family /\ v.shape = w.shape /\ v.payload = w.payload
<1>1. \A x \in Blob : /\ Stripped(x).family = x.family
                      /\ Stripped(x).shape = x.shape
                      /\ Stripped(x).payload = x.payload
  BY DEF Stripped, Blob
<1> QED BY <1>1

\* Equal fingerprints come from datapoints that are equal wherever the
\* catalogue looks.
LEMMA FingerprintDetermines ==
  ASSUME NEW p \in AllProps, NEW q \in AllProps, Fingerprint(p) = Fingerprint(q)
  PROVE  \A n \in Names : p[n] # None /\ p[n].family \in Families =>
           /\ q[n] # None
           /\ q[n].family = p[n].family
           /\ q[n].shape = p[n].shape
           /\ q[n].payload = p[n].payload
<1> SUFFICES ASSUME NEW n \in Names, p[n] # None, p[n].family \in Families
    PROVE /\ q[n] # None
          /\ q[n].family = p[n].family
          /\ q[n].shape = p[n].shape
          /\ q[n].payload = p[n].payload
  OBVIOUS
<1>1. n \in Read(p)
  BY DEF Read
<1>2. <<n, Stripped(p[n])>> \in Fingerprint(q)
  BY <1>1 DEF Fingerprint
<1>3. PICK m \in Read(q) : <<n, Stripped(p[n])>> = <<m, Stripped(q[m])>>
  BY <1>2 DEF Fingerprint
<1>4. n = m /\ Stripped(p[n]) = Stripped(q[n])
  BY <1>3
<1>5. n \in Read(q)
  BY <1>3, <1>4
<1>6. q[n] # None
  BY <1>5 DEF Read
<1>7. p[n] \in Blob /\ q[n] \in Blob
  <2>1. p[n] \in Values /\ q[n] \in Values
    BY DEF AllProps
  <2> QED BY <1>6, <2>1, ContentAssumption DEF Blob
<1> QED BY <1>4, <1>6, <1>7, StrippedKeeps

\* Hence the catalogue is a function of the fingerprint.
LEMMA BuildByFingerprint ==
  ASSUME NEW p \in AllProps, NEW q \in AllProps, Fingerprint(p) = Fingerprint(q)
  PROVE  Build(p) = Build(q)
<1>1. \A n \in Names : p[n] # None /\ p[n].family \in Families =>
        q[n] # None /\ q[n].family = p[n].family /\ q[n].shape = p[n].shape
          /\ q[n].payload = p[n].payload
  BY FingerprintDetermines
<1>2. \A n \in Names : q[n] # None /\ q[n].family \in Families =>
        p[n] # None /\ p[n].family = q[n].family /\ p[n].shape = q[n].shape
          /\ p[n].payload = q[n].payload
  BY FingerprintDetermines
<1>3. \A f \in Families : Payloads(p, f) = Payloads(q, f)
  <2> SUFFICES ASSUME NEW f \in Families PROVE Payloads(p, f) = Payloads(q, f)
    OBVIOUS
  <2>1. Whole(p, f) = Whole(q, f)
    BY <1>1, <1>2, ZenonT(40) DEF Whole
  <2>2. \A n \in Whole(p, f) : p[n].payload = q[n].payload
    BY <1>1, Zenon DEF Whole
  <2> QED BY <2>1, <2>2, Zenon DEF Payloads
<1>4. CutDrinks(p) = CutDrinks(q)
  <2> DEFINE cut(r) == {n \in Names : /\ r[n] # None
                                      /\ r[n].family = "descriptor"
                                      /\ r[n].shape = "cut"
                                      /\ r[n].payload # <<>>}
  <2>1. "descriptor" \in Families
    BY DEF Families
  <2>2. cut(p) = cut(q)
    BY <1>1, <1>2, <2>1, Zenon
  <2>3. \A n \in cut(p) : p[n].payload[1] = q[n].payload[1]
    BY <1>1, <2>1, Zenon
  <2>4. CutDrinks(p) = {p[n].payload[1] : n \in cut(p)}
        /\ CutDrinks(q) = {q[n].payload[1] : n \in cut(q)}
    BY Zenon DEF CutDrinks
  <2> HIDE DEF cut
  <2>5. {p[n].payload[1] : n \in cut(p)} = {q[n].payload[1] : n \in cut(p)}
    BY <2>3, Zenon
  <2> QED BY <2>2, <2>4, <2>5, Zenon
<1>5. {"descriptor", "recipe", "priority", "profiles"} \subseteq Families
  BY DEF Families
<1> QED BY <1>3, <1>4, <1>5, Zenon DEF Build

-----------------------------------------------------------------------------
(* The cache. *)

\* A poll or a reload keeps what it has or builds from what it sees.
LEMMA CachedInit == Init => Cached
<1> SUFFICES ASSUME Init PROVE Cached
  OBVIOUS
<1>1. props \in AllProps
  BY DEF Init, AllProps, Values
<1>2. CASE Empty(Build(props))
  BY <1>1, <1>2 DEF Init, Cached
<1>3. CASE ~Empty(Build(props))
  BY <1>1, <1>3 DEF Init, Cached
<1> QED BY <1>2, <1>3

\* No other step touches what is cached.
LEMMA CachedNext == Cached /\ [Next]_vars => Cached'
<1> SUFFICES ASSUME Cached, [Next]_vars PROVE Cached'
  OBVIOUS
<1> USE DEF Cached
<1>1. CASE Poll
  <2>1. props' = props /\ UpdateCatalog
    BY <1>1 DEF Poll
  <2>2. CASE UNCHANGED <<catalog, fingerprint>>
    BY <2>1, <2>2
  <2>3. CASE catalog' = Build(props) /\ fingerprint' = Fingerprint(props)
    BY <2>1, <2>3
  <2> QED BY <2>1, <2>2, <2>3 DEF UpdateCatalog
<1>2. CASE Reload
  <2>1. props' = props
    BY <1>2 DEF Reload
  <2>2. \/ catalog' = None
        \/ catalog' = Build(props) /\ fingerprint' = Fingerprint(props)
    BY <1>2 DEF Reload
  <2> QED BY <2>1, <2>2
<1>3. ASSUME NEW n \in Names, DatapointChanges(n) PROVE Cached'
  <2>1. PICK v \in Contents[n] : props' = [props EXCEPT ![n] = v]
    BY <1>3 DEF DatapointChanges
  <2>2. props' \in AllProps
    BY <2>1 DEF AllProps, Values
  <2>3. UNCHANGED <<catalog, fingerprint>>
    BY <1>3 DEF DatapointChanges
  <2> QED BY <2>2, <2>3
<1>4. ASSUME NEW value, NEW by, NEW asked, Written(value, by, asked) PROVE Cached'
  BY <1>4 DEF Written
<1>5. CASE UNCHANGED vars
  BY <1>5 DEF vars
<1>6. ASSUME NEW id, SessionMoves(id) PROVE Cached'
  BY <1>6 DEF SessionMoves
<1> QED
  BY <1>1, <1>2, <1>3, <1>4, <1>5, <1>6
  DEF Next, AppWrites, SendBeverage, SendPower, SendProfile

\* What is cached under the fingerprint of the present datapoints is what would
\* be built from them.
LEMMA CachedIsCurrent == Cached => CacheTransparent
<1> SUFFICES ASSUME Cached, Current(Fingerprint(props)) PROVE catalog = Build(props)
  BY DEF CacheTransparent
<1>1. PICK p \in AllProps : fingerprint = Fingerprint(p) /\ catalog = Build(p)
  BY DEF Cached, Current
<1>2. Fingerprint(props) = Fingerprint(p)
  BY <1>1 DEF Current
<1> QED BY <1>1, <1>2, BuildByFingerprint DEF Cached

\* Whatever the datapoints hold and however they change, no catalogue is kept
\* that a poll would build anew.
THEOREM CacheIsTransparent == Spec => []CacheTransparent
<1>1. Spec => []Cached
  BY CachedInit, CachedNext, PTL DEF Spec
<1> QED BY <1>1, CachedIsCurrent, PTL

-----------------------------------------------------------------------------
(* What is learned. *)

\* A signature that has been learned is one of a session.
LEMMA SignatureIsQuad ==
  ASSUME LearnedTyped, Signature # NoFrame
  PROVE  Signature \in Quads /\ Signature # <<0, 0, 0, 0>>
<1>1. ASSUME NEW f \in AppFrames \cup {NoFrame}, Signs(f)
      PROVE  SignatureIn(f) \in Quads /\ SignatureIn(f) # <<0, 0, 0, 0>>
  BY <1>1, FrameAssumption DEF Signs, Quads
<1> DEFINE starts == {start[id] : id \in {i \in Ids : Signs(start[i])}}
           stops == {stop[id] : id \in {i \in Ids : Signs(stop[i])}}
<1>2. wake \in AppFrames \cup {NoFrame}
  BY DEF LearnedTyped
<1>3. \A f \in starts : f \in AppFrames \cup {NoFrame} /\ Signs(f)
  BY DEF LearnedTyped
<1>4. \A f \in stops : f \in AppFrames \cup {NoFrame} /\ Signs(f)
  BY DEF LearnedTyped
<1>5. Signature = IF Signs(wake) THEN SignatureIn(wake)
                  ELSE IF starts # {} THEN SignatureIn(CHOOSE f \in starts : TRUE)
                  ELSE IF stops # {} THEN SignatureIn(CHOOSE f \in stops : TRUE)
                  ELSE NoFrame
  BY Zenon DEF Signature
<1> HIDE DEF starts, stops
<1>6. CASE Signs(wake)
  BY <1>1, <1>2, <1>5, <1>6
<1>7. CASE ~Signs(wake) /\ starts # {}
  <2>1. (CHOOSE f \in starts : TRUE) \in starts
    BY <1>7
  <2> QED BY <1>1, <1>3, <1>5, <1>7, <2>1
<1>8. CASE ~Signs(wake) /\ starts = {} /\ stops # {}
  <2>1. (CHOOSE f \in stops : TRUE) \in stops
    BY <1>8
  <2> QED BY <1>1, <1>4, <1>5, <1>8, <2>1
<1> QED BY <1>5, <1>6, <1>7, <1>8

\* Our own id is a number: the constant, or what a signature is as an id.
LEMMA OwnIdType == LearnedTyped => OwnId \in Int
<1> SUFFICES ASSUME LearnedTyped PROVE OwnId \in Int
  OBVIOUS
<1>1. CASE Signature = NoFrame
  BY <1>1, SessionAssumption DEF OwnId
<1>2. CASE Signature # NoFrame
  <2>1. Signature \in Quads /\ Signature # <<0, 0, 0, 0>>
    BY <1>2, SignatureIsQuad
  <2>2. \A n \in 1..4 : Signature[n] \in Int
    BY <2>1, BaseAssumption DEF Quads
  <2>3. OwnId = ((Signed(Signature[1]) * Base + Signature[2]) * Base + Signature[3]) * Base
                + Signature[4]
    BY <1>2, <2>1, Zenon DEF OwnId, IdOf
  <2>4. Signed(Signature[1]) \in Int /\ Base \in Int
    BY <2>2, BaseAssumption DEF Signed
  <2> QED BY <2>2, <2>3, <2>4
<1> QED BY <1>1, <1>2

\* And so it is after any step that keeps what is learned in its slots.
LEMMA OwnIdTypeNext == LearnedTyped' => (OwnId \in Int)'
  BY OwnIdType, PTL

\* Nothing has been learned when the first refresh has been made.
LEMMA TypeInit == Init => TypeOK
<1> SUFFICES ASSUME Init PROVE TypeOK
  OBVIOUS
<1>1. /\ props \in AllProps
      /\ start = [id \in Ids |-> NoFrame] /\ stop = [id \in Ids |-> NoFrame] /\ wake = NoFrame
  BY DEF Init
<1>2. /\ catalog = None <=> fingerprint = None
      /\ catalog # None => ~Empty(catalog)
  BY <1>1, NoneAssumption DEF Init
<1>3. /\ command.by \in {"nobody", "app", "integration"}
      /\ command.asked \in Asks
      /\ command.by # "integration" => command.value \in AppFrames \cup {NoFrame}
      /\ marker \in {"none", "seen", "new"}
  BY DEF Init, Asks
<1>4. integrationAppId \in Int /\ adopted \in BOOLEAN
  <2>1. LearnedTyped
    BY <1>1 DEF LearnedTyped
  <2> QED BY <2>1, OwnIdType DEF Init
<1> QED BY <1>1, <1>2, <1>3, <1>4 DEF TypeOK

\* So that nothing learned can be unsound.
LEMMA SoundInit == Init => Sound
BY DEF Init, Sound

\* What a poll learns goes to the slot of its drink and its action.
\* Commands of the integration carry no frame of the app.
LEMMA TypeNext == TypeOK /\ [Next]_vars => TypeOK'
<1> SUFFICES ASSUME TypeOK, [Next]_vars PROVE TypeOK'
  OBVIOUS
<1>1. CASE Poll
  <2>1. /\ catalog' = None <=> fingerprint' = None
        /\ catalog' # None => ~Empty(catalog')
    BY <1>1, NoneAssumption DEF TypeOK, Poll, UpdateCatalog
  <2>2. marker' \in {"none", "seen", "new"}
    BY <1>1 DEF TypeOK, Poll, Sniff
  <2>3. Captured => command.value \in AppFrames \cup {NoFrame}
    BY DEF TypeOK, Captured
  <2>4. wake' \in AppFrames \cup {NoFrame} /\ (wake' # NoFrame => PowersOn(wake'))
    BY <1>1, <2>3 DEF TypeOK, Poll, Sniff
  <2>5. /\ start' \in [Ids -> AppFrames \cup {NoFrame}]
        /\ \A id \in Ids : start'[id] # NoFrame => start'[id][5] = id /\ start'[id][6] # Stop
    BY <1>1, <2>3 DEF TypeOK, Poll, Sniff, Stopping
  <2>6. /\ stop' \in [Ids -> AppFrames \cup {NoFrame}]
        /\ \A id \in Ids : stop'[id] # NoFrame => stop'[id][5] = id /\ stop'[id][6] = Stop
    BY <1>1, <2>3 DEF TypeOK, Poll, Sniff, Stopping
  <2>7. OwnId' \in Int
    BY <2>4, <2>5, <2>6, OwnIdTypeNext DEF LearnedTyped
  <2>8. integrationAppId' \in Int /\ adopted' \in BOOLEAN
    BY <1>1, <2>7 DEF TypeOK, Poll, FollowSession, Rebound
  <2> QED BY <1>1, <2>1, <2>2, <2>4, <2>5, <2>6, <2>8 DEF TypeOK, Poll
<1>2. CASE Reload
  <2>1. /\ catalog' = None <=> fingerprint' = None
        /\ catalog' # None => ~Empty(catalog')
    BY <1>2, NoneAssumption DEF TypeOK, Reload
  <2>2. marker' \in {"none", "seen", "new"}
    BY <1>2 DEF Reload
  <2>3. integrationAppId' \in Int /\ adopted' \in BOOLEAN
    <3>1. OwnId \in Int
      BY OwnIdType DEF TypeOK, LearnedTyped
    <3> QED BY <1>2, <3>1 DEF Reload
  <2> QED BY <1>2, <2>1, <2>2, <2>3 DEF TypeOK, Reload, learned
<1>3. ASSUME NEW n \in Names, DatapointChanges(n) PROVE TypeOK'
  <2>1. PICK v \in Contents[n] : props' = [props EXCEPT ![n] = v]
    BY <1>3 DEF DatapointChanges
  <2>2. props' \in AllProps
    BY <2>1 DEF TypeOK, AllProps, Values
  <2> QED BY <1>3, <2>2 DEF TypeOK, DatapointChanges, learned, session
<1>4. ASSUME NEW value, NEW by \in {"app", "integration"}, NEW asked \in Asks,
             by = "app" => value \in AppFrames, Written(value, by, asked)
      PROVE  TypeOK'
  <2>1. command'.by = by /\ command'.asked = asked /\ command'.value = value
    BY <1>4 DEF Written
  <2>2. marker' \in {"none", "seen", "new"}
    BY <1>4 DEF Written
  <2> QED BY <1>4, <2>1, <2>2 DEF TypeOK, Written, learned, session
<1>5. CASE UNCHANGED vars
  BY <1>5 DEF TypeOK, vars, learned, session
<1>6. ASSUME NEW f \in AppFrames, AppWrites(f) PROVE TypeOK'
  BY <1>4, <1>6 DEF AppWrites, Asks
<1>7. ASSUME NEW i \in Ids, NEW a \in {Start, Stop}, SendBeverage(i, a) PROVE TypeOK'
  <2>1. Drink(i, a) \in {Drink(id, action) : id \in Ids, action \in {Start, Stop}}
    BY <1>7
  <2>2. Drink(i, a) \in Asks
    BY <2>1 DEF Asks
  <2> QED BY <1>4, <1>7, <2>2 DEF SendBeverage
<1>8. ASSUME NEW p \in {Wake, Standby, Refresh}, SendPower(p) PROVE TypeOK'
  <2>1. PowerAsk(p) \in {PowerAsk(params) : params \in {Wake, Standby, Refresh}}
    BY <1>8
  <2>2. PowerAsk(p) \in Asks
    BY <2>1 DEF Asks
  <2> QED BY <1>4, <1>8, <2>2 DEF SendPower
<1>9. ASSUME NEW slot \in Slots, SendProfile(slot) PROVE TypeOK'
  <2>1. ProfileAsk(slot) \in {ProfileAsk(s) : s \in Slots}
    BY <1>9
  <2>2. ProfileAsk(slot) \in Asks
    BY <2>1 DEF Asks
  <2> QED BY <1>4, <1>9, <2>2 DEF SendProfile
<1>10. ASSUME NEW id \in ForeignIds \cup {OwnId}, SessionMoves(id) PROVE TypeOK'
  <2>1. OwnId \in Int
    BY OwnIdType DEF TypeOK, LearnedTyped
  <2>2. integrationAppId' \in Int /\ adopted' \in BOOLEAN
    BY <1>10, <2>1, SessionAssumption DEF SessionMoves
  <2> QED BY <1>10, <2>2 DEF TypeOK, SessionMoves, learned
<1> QED BY <1>1, <1>2, <1>3, <1>5, <1>6, <1>7, <1>8, <1>9, <1>10 DEF Next

\* The state is what it is said to be, and what is learned stands in the slot
\* of its drink and its action.
THEOREM Types == Spec => []TypeOK
BY TypeInit, TypeNext, PTL DEF Spec

\* Only frames that pass the learn gate, which checks them, are learned.
LEMMA SoundNext == TypeOK /\ Sound /\ [Next]_vars => Sound'
<1> SUFFICES ASSUME TypeOK, Sound, [Next]_vars PROVE Sound'
  OBVIOUS
<1>1. CASE Poll
  <2>1. \A id \in Ids : start'[id] # NoFrame => Brew(start'[id]) /\ Intact(start'[id])
    BY <1>1 DEF TypeOK, Sound, Poll, Sniff, Learnable
  <2>2. \A id \in Ids : stop'[id] # NoFrame => Brew(stop'[id]) /\ Intact(stop'[id])
    BY <1>1 DEF TypeOK, Sound, Poll, Sniff, Learnable
  <2> QED BY <1>1, <2>1, <2>2 DEF Sound, Poll
<1>2. CASE UNCHANGED <<command, start, stop>>
  BY <1>2 DEF Sound
<1>3. ASSUME NEW value, NEW by, NEW asked,
             by = "app" => value \in AppFrames, Written(value, by, asked)
      PROVE  Sound'
  BY <1>3 DEF Sound, Written, learned
<1>4. Reload => UNCHANGED <<command, start, stop>>
  BY DEF Reload, learned
<1>5. \A n \in Names : DatapointChanges(n) => UNCHANGED <<command, start, stop>>
  BY DEF DatapointChanges, learned
<1>6. UNCHANGED vars => UNCHANGED <<command, start, stop>>
  BY DEF vars, learned
<1>7. \A id : SessionMoves(id) => UNCHANGED <<command, start, stop>>
  BY DEF SessionMoves, learned
<1> QED
  BY <1>1, <1>2, <1>3, <1>4, <1>5, <1>6, <1>7
  DEF Next, AppWrites, SendBeverage, SendPower, SendProfile

\* A poll goes by the catalogue that it would build, or by the one that it has
\* if it can build none.
LEMMA PollSees ==
  ASSUME CacheTransparent, Poll
  PROVE  catalog' = Seen
<1>1. CASE Current(Fingerprint(props))
  <2>1. catalog' = catalog /\ catalog = Build(props)
    BY <1>1 DEF CacheTransparent, Poll, UpdateCatalog
  <2> QED BY <2>1 DEF Seen
<1>2. CASE ~Current(Fingerprint(props))
  BY <1>2 DEF Poll, UpdateCatalog, Seen
<1> QED BY <1>1, <1>2

\* Whatever was cached, what the app brews is learned by the poll that shows it
\* if the drink is built in or the machine declares it.
THEOREM LearnedInThatPoll == Spec => DrinkLearned
<1> DEFINE Learns ==
      Captured /\ Poll /\ Learnable(command.value, Builtin \cup Declared(Seen)) =>
        Table(command.value[6])'[command.value[5]] = command.value
<1>1. TypeOK /\ Sound /\ CacheTransparent => Learns
  <2> SUFFICES ASSUME TypeOK, Sound, CacheTransparent, Captured, Poll,
                      Learnable(command.value, Builtin \cup Declared(Seen))
      PROVE  Table(command.value[6])'[command.value[5]] = command.value
    OBVIOUS
  <2> DEFINE f == command.value
  <2>1. Learnable(f, KnownNow)
    BY PollSees, Zenon DEF KnownNow
  <2>2. f[5] \in Ids
    BY <2>1, FrameAssumption DEF Sound, Captured, Learnable
  <2>3. command' = command
    BY DEF Poll
  <2>4. CASE f[6] = Stop
    <3>1. stop' = [stop EXCEPT ![f[5]] = f]
      BY <2>1, <2>4 DEF Poll, Sniff, Stopping
    <3>2. stop'[f[5]] = f
      BY <2>2, <3>1 DEF TypeOK
    <3> QED BY <2>3, <2>4, <3>2 DEF Table
  <2>5. CASE f[6] # Stop
    <3>1. start' = [start EXCEPT ![f[5]] = f]
      BY <2>1, <2>5 DEF Poll, Sniff, Stopping
    <3>2. start'[f[5]] = f
      BY <2>2, <3>1 DEF TypeOK
    <3> QED BY <2>3, <2>5, <3>2 DEF Table
  <2> QED BY <2>4, <2>5
<1>2. Spec => [](TypeOK /\ Sound)
  BY TypeInit, TypeNext, SoundInit, SoundNext, PTL DEF Spec
<1>3. Spec => [][Next]_vars
  BY PTL DEF Spec
<1> QED BY <1>1, <1>2, <1>3, CacheIsTransparent, PTL DEF DrinkLearned

-----------------------------------------------------------------------------
(* What is sent. *)

\* The id that is named is a number, and its tail four bytes.
LEMMA TailIsFour ==
  ASSUME TypeOK
  PROVE  TailOf(integrationAppId) \in Seq(0..255) /\ Four(TailOf(integrationAppId))
<1>1. integrationAppId \in Int
  BY DEF TypeOK
<1>2. \A n \in Int : Digits(n) \in Seq(0..255) /\ Len(Digits(n)) = 4
  BY BaseAssumption DEF Digits
<1>3. Normalize(integrationAppId) \in Int
  BY <1>1, NormalForm, Powers, SMT
<1> QED BY <1>2, <1>3 DEF TailOf, Four

\* A drink, be its frame replayed or built.
LEMMA DrinkAsAsked ==
  ASSUME TypeOK, Sound, NEW id \in Ids, NEW action \in {Start, Stop}
  PROVE  AsAsked(BeverageValue(id, action), Drink(id, action))
<1> DEFINE asked == Drink(id, action)
           value == BeverageValue(id, action)
<1>1. asked.kind = "drink" /\ asked.params[1] = id /\ asked.params[2] = action
  BY DEF Drink
<1>2. Now \in Seq(0..255) /\ Len(Now) = 4
  BY NowAssumption
<1> HIDE DEF asked
<1>3. CASE Table(action)[id] # NoFrame
  <2> DEFINE raw == Table(action)[id]
  <2>1. /\ raw \in Seq(0..255) /\ Brew(raw) /\ Intact(raw)
        /\ raw[5] = id
        /\ raw[6] = Stop <=> action = Stop
    BY <1>3, FrameAssumption DEF TypeOK, Sound, Table
  <2>2. value = Replay(raw, Now)
    BY <1>3 DEF BeverageValue
  <2> HIDE DEF raw, value
  <2>3. Structural(raw) # <<>>
    BY <2>1 DEF Intact
  <2>4. Decode(value) = Decode(raw)
    BY <1>2, <2>1, <2>2, <2>3, ReplayKeeps
  <2>5. Timed(value) => Stamped(value, Now)
    BY <1>2, <2>1, <2>2, <2>3, ReplayStamps
  <2>6. /\ Decode(raw).type = "beverage"
        /\ Decode(raw).params[1] = id
        /\ Decode(raw).params[2] = raw[6]
        /\ Decode(raw).crc_valid = Intact(raw)
        /\ Decode(value).crc_valid = Intact(value)
    BY <2>1 DEF Decode
  <2>7. Intact(value)
    BY <2>1, <2>4, <2>6 DEF Intact
  <2> QED BY <1>1, <2>1, <2>4, <2>5, <2>6, <2>7 DEF AsAsked, asked, value
<1>4. CASE Table(action)[id] = NoFrame
  <2>1. value = BeverageFrame(id, action, Now)
    BY <1>4 DEF BeverageValue
  <2>2. /\ Intact(value)
        /\ Decode(value).type = "beverage"
        /\ Decode(value).params = <<id, action>>
        /\ Stamped(value, Now)
    BY <1>2, <2>1, BuiltDrink DEF Four
  <2> HIDE DEF value
  <2>3. Decode(value).params[1] = id /\ Decode(value).params[2] = action
    BY <2>2
  <2> QED BY <1>1, <2>2, <2>3 DEF AsAsked, asked, value
<1> QED BY <1>3, <1>4

\* Wakes and standbys.
LEMMA PowerAsAsked ==
  ASSUME TypeOK, NEW params \in {Wake, Standby, Refresh}
  PROVE  AsAsked(PowerFrame(params, Now, TailOf(integrationAppId)), PowerAsk(params))
<1> DEFINE value == PowerFrame(params, Now, TailOf(integrationAppId))
<1>1. Now \in Seq(0..255) /\ Four(Now)
  BY NowAssumption DEF Four
<1>2. TailOf(integrationAppId) \in Seq(0..255) /\ Four(TailOf(integrationAppId))
  BY TailIsFour
<1>3. /\ Intact(value)
      /\ Decode(value).type = "power"
      /\ Decode(value).params = <<params[1], params[2]>>
      /\ Stamped(value, Now)
  BY <1>1, <1>2, BuiltPower, ZenonT(40)
<1> HIDE DEF value
<1>4. <<params[1], params[2]>> = params
  BY DEF Wake, Standby, Refresh
<1>5. PowerAsk(params).kind = "power" /\ PowerAsk(params).params = params
  BY DEF PowerAsk
<1> QED BY <1>3, <1>4, <1>5 DEF AsAsked, value

\* Profiles.
LEMMA ProfileAsAsked ==
  ASSUME TypeOK, NEW slot
  PROVE  AsAsked(ProfileFrame(slot, Now, TailOf(integrationAppId)), ProfileAsk(slot))
<1> DEFINE value == ProfileFrame(slot, Now, TailOf(integrationAppId))
<1>1. Now \in Seq(0..255) /\ Four(Now)
  BY NowAssumption DEF Four
<1>2. TailOf(integrationAppId) \in Seq(0..255) /\ Four(TailOf(integrationAppId))
  BY TailIsFour
<1>3. /\ Intact(value)
      /\ Decode(value).type = "profile"
      /\ Decode(value).params = <<slot>>
      /\ Stamped(value, Now)
  BY <1>1, <1>2, BuiltProfile, ZenonT(40)
<1> HIDE DEF value
<1>4. ProfileAsk(slot).kind = "profile" /\ ProfileAsk(slot).params = <<slot>>
  BY DEF ProfileAsk
<1> QED BY <1>3, <1>4 DEF AsAsked, value

\* Each command, whatever has been learned so far, is written as asked.
LEMMA AskedNext == TypeOK /\ Sound /\ Asked /\ [Next]_vars => Asked'
<1> SUFFICES ASSUME TypeOK, Sound, Asked, [Next]_vars PROVE Asked'
  OBVIOUS
<1>1. CASE UNCHANGED command
  <2>1. command' = command
    BY <1>1
  <2> QED BY <2>1, Zenon DEF Asked, AsAsked
<1>2. ASSUME NEW value, NEW by, NEW asked, Written(value, by, asked),
             by = "integration" => AsAsked(value, asked)
      PROVE  Asked'
  <2>1. command'.by = by /\ command'.asked = asked /\ command'.value = value
    BY <1>2 DEF Written
  <2> QED BY <1>2, <2>1, Zenon DEF Asked
<1>3. ASSUME NEW f \in AppFrames, AppWrites(f) PROVE Asked'
  BY <1>2, <1>3 DEF AppWrites
<1>4. ASSUME NEW i \in Ids, NEW a \in {Start, Stop}, SendBeverage(i, a) PROVE Asked'
  BY <1>2, <1>4, DrinkAsAsked, Zenon DEF SendBeverage
<1>5. ASSUME NEW p \in {Wake, Standby, Refresh}, SendPower(p) PROVE Asked'
  BY <1>2, <1>5, PowerAsAsked, Zenon DEF SendPower
<1>6. ASSUME NEW slot \in Slots, SendProfile(slot) PROVE Asked'
  BY <1>2, <1>6, ProfileAsAsked, Zenon DEF SendProfile
<1>7. Poll \/ Reload \/ (\E n \in Names : DatapointChanges(n)) \/ UNCHANGED vars => UNCHANGED command
  BY DEF Poll, Reload, DatapointChanges, vars
<1>8. \A id : SessionMoves(id) => UNCHANGED command
  BY DEF SessionMoves
<1> QED BY <1>1, <1>3, <1>4, <1>5, <1>6, <1>7, <1>8 DEF Next

\* Whatever has been learned, and whichever frame it is made of, what is
\* written is what was asked for, and sound.
THEOREM SentAsAsked == Spec => []CommandAsAsked
<1>1. Init => Asked
  BY DEF Init, Asked
<1>2. Spec => []Asked
  BY <1>1, AskedNext, TypeInit, TypeNext, SoundInit, SoundNext, PTL DEF Spec
<1>3. Asked => CommandAsAsked
  <2>1. Decode(command.value).crc_valid = Intact(command.value)
    BY DEF Decode
  <2> QED BY <2>1 DEF Asked, AsAsked, CommandAsAsked, Stamped
<1> QED BY <1>2, <1>3, PTL

\* Every step that learns rebinds an id of our own, and every other step keeps
\* what our own is.
LEMMA BoundNext == OwnUnlessAdopted /\ [Next]_vars => OwnUnlessAdopted'
<1> SUFFICES ASSUME OwnUnlessAdopted, [Next]_vars PROVE OwnUnlessAdopted'
  OBVIOUS
<1> USE DEF OwnUnlessAdopted
<1>1. UNCHANGED learned => OwnId' = OwnId
  BY DEF learned, OwnId, Signature
<1>2. CASE Poll
  <2>1. /\ integrationAppId' \in {Rebound, OwnId'}
        /\ adopted' = (adopted /\ integrationAppId' # OwnId')
    BY <1>2 DEF Poll, FollowSession
  <2>2. ~adopted => Rebound = OwnId'
    BY DEF Rebound
  <2> QED BY <2>1, <2>2
<1>3. CASE Reload
  BY <1>1, <1>3 DEF Reload
<1>4. ASSUME NEW id, SessionMoves(id) PROVE OwnUnlessAdopted'
  BY <1>1, <1>4 DEF SessionMoves
<1>5. CASE UNCHANGED <<learned, session>>
  BY <1>1, <1>5 DEF session
<1>6. \A n \in Names : DatapointChanges(n) => UNCHANGED <<learned, session>>
  BY DEF DatapointChanges
<1>7. \A value, by, asked : Written(value, by, asked) => UNCHANGED <<learned, session>>
  BY DEF Written
<1>8. UNCHANGED vars => UNCHANGED <<learned, session>>
  BY DEF vars
<1> QED
  BY <1>2, <1>3, <1>4, <1>5, <1>6, <1>7, <1>8
  DEF Next, AppWrites, SendBeverage, SendPower, SendProfile

\* Under the machine's own id, once that is known, digit for digit, whatever
\* sessions of others have been ridden before.
THEOREM SentUnderSignature == Spec => TailIsSignature
<1> DEFINE Signed1 ==
      command' # command /\ command'.by = "integration" /\ Signature # NoFrame
        /\ ~adopted /\ command'.asked.kind \in {"power", "profile"} =>
      SignatureIn(command'.value) = Signature
<1>1. TypeOK /\ OwnUnlessAdopted /\ [Next]_vars => Signed1
  <2> SUFFICES ASSUME TypeOK, OwnUnlessAdopted, ~adopted, Next, command' # command, command'.by = "integration",
                      Signature # NoFrame, command'.asked.kind \in {"power", "profile"}
      PROVE  SignatureIn(command'.value) = Signature
    BY DEF vars
  <2>1. TailOf(integrationAppId) = Signature
    <3>1. Signature \in Quads /\ Signature # <<0, 0, 0, 0>>
      BY SignatureIsQuad DEF TypeOK, LearnedTyped
    <3> QED BY <3>1, TailOfSignature, Zenon DEF OwnId, OwnUnlessAdopted
  <2>2. Now \in Seq(0..255) /\ Four(Now)
    BY NowAssumption DEF Four
  <2>3. TailOf(integrationAppId) \in Seq(0..255) /\ Four(TailOf(integrationAppId))
    BY TailIsFour
  <2>4. ASSUME NEW p, SendPower(p) PROVE SignatureIn(command'.value) = Signature
    <3>1. command'.value = PowerFrame(p, Now, TailOf(integrationAppId))
      BY <2>4 DEF SendPower, Written
    <3>2. SignatureIn(PowerFrame(p, Now, TailOf(integrationAppId))) = TailOf(integrationAppId)
      BY <2>2, <2>3, BuiltPower, Zenon
    <3> QED BY <2>1, <3>1, <3>2, Zenon
  <2>5. ASSUME NEW slot, SendProfile(slot) PROVE SignatureIn(command'.value) = Signature
    <3>1. command'.value = ProfileFrame(slot, Now, TailOf(integrationAppId))
      BY <2>5 DEF SendProfile, Written
    <3>2. SignatureIn(ProfileFrame(slot, Now, TailOf(integrationAppId))) = TailOf(integrationAppId)
      BY <2>2, <2>3, BuiltProfile, Zenon
    <3> QED BY <2>1, <3>1, <3>2, Zenon
  <2>6. \A f \in AppFrames : ~AppWrites(f)
    BY DEF AppWrites, Written
  <2>7. \A i \in Ids, a \in {Start, Stop} : ~SendBeverage(i, a)
    BY DEF SendBeverage, Written, Drink
  <2>8. ~Poll /\ ~Reload /\ \A n \in Names : ~DatapointChanges(n)
    BY DEF Poll, Reload, DatapointChanges
  <2>9. \A id : ~SessionMoves(id)
    BY DEF SessionMoves
  <2> QED BY <2>4, <2>5, <2>6, <2>7, <2>8, <2>9 DEF Next
<1>2. Init => OwnUnlessAdopted
  BY DEF Init, OwnUnlessAdopted
<1> QED BY <1>1, <1>2, BoundNext, TypeInit, TypeNext, PTL DEF Spec, TailIsSignature
=============================================================================
