----------------------------- MODULE BytesProofs ----------------------------
(***************************************************************************)
(* What the parsers and the builders do to any string of bytes: the walk   *)
(* of a payload finds its fields if and only if there are any, a replay is *)
(* read as the frame was, and a session id survives its ways round.        *)
(***************************************************************************)
EXTENDS MCBytes, FramesProofs

\* The input is a string of bytes that is not too long.
Typed == input \in Seq(Bytes) /\ Len(input) <= MaxLength

\* The strings are built byte by byte.
LEMMA TypedAlways == Spec => []Typed
<1>1. Init => Typed
  <2>1. <<>> \in Seq(Bytes) /\ Len(<<>>) = 0
    OBVIOUS
  <2> QED BY <2>1, BytesAssumption DEF Init, Typed
<1>2. Typed /\ [Next]_vars => Typed'
  <2> SUFFICES ASSUME Typed, [Next]_vars PROVE Typed'
    OBVIOUS
  <2>1. CASE input' = input
    BY <2>1 DEF Typed
  <2>2. ASSUME NEW b \in Bytes, input' = Append(input, b), Len(input) < MaxLength
        PROVE  Typed'
    <3>1. Append(input, b) \in Seq(Bytes) /\ Len(Append(input, b)) = Len(input) + 1
      BY DEF Typed
    <3>2. Len(input) \in Nat /\ MaxLength \in Nat
      BY BytesAssumption DEF Typed
    <3> QED BY <2>2, <3>1, <3>2 DEF Typed
  <2> QED BY <2>1, <2>2 DEF Next, vars
<1> QED BY <1>1, <1>2, PTL DEF Spec

\* Digits are bytes.
LEMMA BytesAreBytes == Bytes \subseteq 0..255
BY BytesAssumption, BaseAssumption

\* What is cut out of a sequence.
LEMMA CutOut ==
  ASSUME NEW S, NEW s \in Seq(S), NEW m \in Nat \ {0}, NEW n \in Nat, m <= n + 1, n <= Len(s)
  PROVE  /\ SubSeq(s, m, n) \in Seq(S)
         /\ Len(SubSeq(s, m, n)) = n + 1 - m
         /\ \A i \in 1..n + 1 - m : SubSeq(s, m, n)[i] = s[m + i - 1]
<1>1. \A i \in m..n : s[i] \in S
  BY ElementOfSeq
<1>2. /\ SubSeq(s, m, n) \in Seq(S)
      /\ Len(SubSeq(s, m, n)) = IF m <= n THEN n - m + 1 ELSE 0
      /\ \A i \in 1..n - m + 1 : SubSeq(s, m, n)[i] = s[m + i - 1]
  BY <1>1, SubSeqProperties
<1> QED BY <1>2

\* A sequence is cut in two.
LEMMA CutInTwo ==
  ASSUME NEW S, NEW s \in Seq(S), NEW n \in 0..Len(s)
  PROVE  /\ SubSeq(s, 1, n) \in Seq(S) /\ Len(SubSeq(s, 1, n)) = n
         /\ SubSeq(s, n + 1, Len(s)) \in Seq(S) /\ Len(SubSeq(s, n + 1, Len(s))) = Len(s) - n
<1>1. Len(s) \in Nat /\ n \in Nat /\ n + 1 \in Nat \ {0} /\ n <= Len(s)
  BY LenProperties
<1>2. SubSeq(s, 1, n) \in Seq(S) /\ Len(SubSeq(s, 1, n)) = n + 1 - 1
  BY <1>1, CutOut
<1>3. /\ SubSeq(s, n + 1, Len(s)) \in Seq(S)
      /\ Len(SubSeq(s, n + 1, Len(s))) = Len(s) + 1 - (n + 1)
  BY <1>1, CutOut
<1> QED BY <1>1, <1>2, <1>3

\* The first four of a sequence are replaced.
LEMMA FourReplaced ==
  ASSUME NEW S, NEW s \in Seq(S), Len(s) >= 4, NEW t \in Seq(S), Len(t) = 4
  PROVE  LET r == t \o SubSeq(s, 5, Len(s))
         IN /\ r \in Seq(S) /\ Len(r) = Len(s)
            /\ \A i \in 1..4 : r[i] = t[i]
            /\ \A i \in 5..Len(s) : r[i] = s[i]
<1> DEFINE u == SubSeq(s, 5, Len(s))
           r == t \o u
<1>1. Len(s) \in Nat
  BY LenProperties
<1>2. /\ u \in Seq(S) /\ Len(u) = Len(s) + 1 - 5
      /\ \A i \in 1..Len(s) + 1 - 5 : u[i] = s[5 + i - 1]
  BY <1>1, CutOut
<1> HIDE DEF u
<1>3. /\ r \in Seq(S) /\ Len(r) = Len(t) + Len(u)
      /\ \A i \in 1..Len(t) + Len(u) : r[i] = IF i <= Len(t) THEN t[i] ELSE u[i - Len(t)]
  BY <1>2, ConcatProperties
<1> HIDE DEF r
<1>4. ASSUME NEW i \in 1..4 PROVE r[i] = t[i]
  <2>1. i \in 1..Len(t) + Len(u) /\ i <= Len(t)
    BY <1>1, <1>2
  <2> QED BY <1>3, <2>1
<1>5. ASSUME NEW i \in 5..Len(s) PROVE r[i] = s[i]
  <2>1. i - 4 \in 1..Len(s) + 1 - 5 /\ 5 + (i - 4) - 1 = i /\ i \in 1..Len(t) + Len(u)
    BY <1>1, <1>2
  <2>2. r[i] = u[i - 4]
    BY <1>3, <2>1
  <2>3. u[i - 4] = s[5 + (i - 4) - 1]
    BY <1>2, <2>1, Zenon
  <2> QED BY <2>1, <2>2, <2>3
<1> QED BY <1>1, <1>2, <1>3, <1>4, <1>5 DEF r, u

\* A sequence over a set is one over a larger set.
LEMMA Wider ==
  ASSUME NEW S, NEW T, S \subseteq T, NEW s \in Seq(S)
  PROVE  s \in Seq(T)
OBVIOUS

-----------------------------------------------------------------------------
(* Ids. *)

\* Zero is nobody's tail.
LEMMA TailOfZero == TailOf(0) = <<0, 0, 0, 0>>
<1>1. Normalize(0) = 0
  <2>1. 0 \in -Half..(Half - 1)
    BY Powers
  <2> QED BY <2>1, InRange
<1>2. Digits(0) = <<0, 0, 0, 0>>
  <2>1. CASE Base = 4
    BY <2>1, SMT DEF Digits
  <2>2. CASE Base = 16
    BY <2>2, SMT DEF Digits
  <2>3. CASE Base = 256
    BY <2>3, SMT DEF Digits
  <2> QED BY <2>1, <2>2, <2>3, BaseAssumption
<1> QED BY <1>1, <1>2 DEF TailOf

\* What is read from a signature is written and reported as the same id.
THEOREM IdsSurvive == Spec => []IdsAgree
<1>1. Typed => IdsAgree
  <2> SUFFICES ASSUME Typed, NEW n \in 0..Len(input) - 4,
                      SubSeq(input, n + 1, n + 4) # <<0, 0, 0, 0>>
               PROVE  LET signature == SubSeq(input, n + 1, n + 4)
                          id == IdOf(signature)
                      IN /\ id # 0
                         /\ TailOf(id) = signature
                         /\ Normalize(id) = id
                         /\ Normalize(id + Modulus) = id
    BY DEF IdsAgree
  <2> DEFINE signature == SubSeq(input, n + 1, n + 4)
             id == IdOf(signature)
  <2>1. signature \in [1..4 -> Bytes]
    <3>1. signature \in Seq(Bytes) /\ Len(signature) = 4
      BY DEF Typed
    <3> HIDE DEF signature
    <3>2. signature \in [1..Len(signature) -> Bytes]
      BY <3>1, LenProperties
    <3> QED BY <3>1, <3>2
  <2>2. signature # <<0, 0, 0, 0>>
    OBVIOUS
  <2> HIDE DEF signature
  <2>3. signature \in Quads /\ signature # NoFrame
    <3>1. signature \in [1..4 -> 0..Base - 1]
      BY <2>1, BytesAssumption
    <3>2. signature \in [1..4 -> 0..255]
      BY <2>1, BytesAreBytes
    <3> QED BY <3>1, <3>2, NothingAssumption DEF Quads
  <2>4. id \in -Half..(Half - 1)
    BY <2>2, <2>3, IdInRange
  <2>5. TailOf(id) = signature
    BY <2>2, <2>3, TailOfSignature
  <2> HIDE DEF id
  <2>6. id # 0
    BY <2>2, <2>5, TailOfZero
  <2>7. Normalize(id) = id
    BY <2>4, InRange
  <2>8. Normalize(id + Modulus) = id
    <3>1. id \in Int
      BY <2>4, Powers
    <3> QED BY <2>7, <3>1, NormalForm
  <2> QED BY <2>5, <2>6, <2>7, <2>8 DEF signature, id
<1> QED BY <1>1, TypedAlways, PTL

-----------------------------------------------------------------------------
(* Replays. *)

\* A frame that begins with the app's command for a drink and goes on with rest.
AppLike(raw, recipe, rest) ==
  LET m == Len(recipe) + 8
  IN /\ raw \in Seq(0..255)
     /\ Len(raw) = m + Len(rest)
     /\ SubSeq(raw, 1, m) = Sealed(<<13, 7 + Len(recipe), 131, 240, 2, 3>> \o recipe)
     /\ \A i \in 1..Len(rest) : raw[m + i] = rest[i]
     /\ Brew(raw) /\ FrameLength(raw) = m /\ Intact(raw)
     /\ Structural(raw) # <<>>

\* The app's command for a drink, with any recipe, taken apart.
LEMMA AppFrameParts ==
  ASSUME NEW recipe \in Seq(0..255), Len(recipe) <= 248, NEW rest \in Seq(0..255)
  PROVE  AppLike(AppFrame(2, 3, recipe, rest), recipe, rest)
<1> DEFINE start == <<13, 7 + Len(recipe), 131, 240, 2, 3>>
           h == start \o recipe
           raw == Sealed(h) \o rest
           m == Len(recipe) + 8
<1>1. AppFrame(2, 3, recipe, rest) = raw
  BY DEF AppFrame
<1>2. start \in Seq(0..255) /\ Len(start) = 6 /\ Len(recipe) \in Nat
  <2> DEFINE length == 7 + Len(recipe)
  <2>1. Len(recipe) \in Nat /\ length \in 0..255
    <3>1. Len(recipe) \in Nat
      BY LenProperties
    <3>2. \A l \in Nat : l <= 248 => 7 + l \in 0..255
      OBVIOUS
    <3> QED BY <3>1, <3>2, Zenon
  <2> HIDE DEF length
  <2>2. <<13, length, 131, 240, 2, 3>> \in Seq(0..255)
    BY <2>1
  <2> QED BY <2>1, <2>2 DEF length
<1>3. start[2] = 7 + Len(recipe) /\ start[3] = 131 /\ start[4] = 240
  OBVIOUS
<1> HIDE DEF start
<1>4. /\ h \in Seq(0..255) /\ Len(h) = Len(recipe) + 6
      /\ \A i \in 1..6 : h[i] = start[i]
  <2> DEFINE B == 0..255
  <2>2. start \in Seq(B) /\ recipe \in Seq(B)
    BY <1>2
  <2> HIDE DEF B
  <2>1. /\ h \in Seq(B) /\ Len(h) = Len(start) + Len(recipe)
        /\ \A i \in 1..Len(start) + Len(recipe) :
             h[i] = IF i <= Len(start) THEN start[i] ELSE recipe[i - Len(start)]
    BY <2>2, ConcatProperties
  <2> HIDE DEF h
  <2> USE DEF B
  <2> QED BY <1>2, <2>1
<1>5. h[2] = 7 + Len(recipe) /\ h[3] = 131 /\ h[4] = 240
  BY <1>3, <1>4
<1> HIDE DEF h
<1>6. Len(h) + 2 = m /\ m \in Nat /\ m >= 8
  BY <1>2, <1>4
<1>7. /\ Len(raw) = Len(h) + 2 + Len(rest)
      /\ \A i \in 1..Len(h) : raw[i] = h[i]
      /\ \A i \in 1..Len(rest) : raw[Len(h) + 2 + i] = rest[i]
      /\ SubSeq(raw, 1, Len(h) + 2) = Sealed(h)
  <2>1. Len(raw) = Len(h) + 2 + Len(rest)
    BY <1>4, SealedParts
  <2>2. \A i \in 1..Len(h) : raw[i] = h[i]
    BY <1>4, SealedParts, Zenon
  <2>3. \A i \in 1..Len(rest) : raw[Len(h) + 2 + i] = rest[i]
    <3>1. h \in Seq(0..255) /\ rest \in Seq(0..255)
      BY <1>4
    <3> QED BY <3>1, SealedRest, Zenon
  <2>4. SubSeq(raw, 1, Len(h) + 2) = Sealed(h)
    BY <1>4, SealedParts, Zenon
  <2> QED BY <2>1, <2>2, <2>3, <2>4
<1>8. raw \in Seq(0..255)
  <2>1. Sealed(h) \in Seq(0..255)
    BY <1>4, SealedIsBytes
  <2> QED BY <2>1
<1>9. Structural(raw) = SubSeq(raw, 1, Len(h) + 2) => Intact(raw)
  BY <1>4, SealedIntact, Zenon
<1> HIDE DEF raw
<1>10. raw[2] = 7 + Len(recipe) /\ raw[3] = 131 /\ raw[4] = 240
  BY <1>2, <1>4, <1>5, <1>7
<1>11. Len(raw) = m + Len(rest) /\ Len(rest) \in Nat
  BY <1>6, <1>7
<1>12. Brew(raw) /\ FrameLength(raw) = m
  BY <1>2, <1>6, <1>10, <1>11 DEF Brew, FrameLength
<1>13. Structural(raw) = SubSeq(raw, 1, m)
  BY <1>6, <1>11, <1>12 DEF Structural
<1>14. Structural(raw) # <<>>
  <2>1. Len(Structural(raw)) = m
    BY <1>6, <1>7, <1>13
  <2> QED BY <1>6, <2>1
<1>15. SubSeq(raw, 1, m) = Sealed(h) /\ \A i \in 1..Len(rest) : raw[m + i] = rest[i]
  BY <1>6, <1>7
<1>16. Intact(raw)
  BY <1>6, <1>9, <1>13
<1> QED BY <1>1, <1>8, <1>11, <1>12, <1>14, <1>15, <1>16 DEF AppLike, h, start

\* A frame with no room for a time is replayed as it is.
LEMMA NoTimeKept ==
  ASSUME NEW raw \in Seq(0..255), NEW stamp, ~Timed(raw)
  PROVE  Replay(raw, stamp) = raw
<1>1. Replay(raw, stamp) = [i \in DOMAIN raw |-> raw[i]]
  BY DEF Replay
<1>2. [i \in DOMAIN raw |-> raw[i]] = raw
  OBVIOUS
<1> QED BY <1>1, <1>2

\* What is renewed in it is the time, if there is one.
LEMMA AppFrameReplayed ==
  ASSUME NEW recipe \in Seq(0..255), Len(recipe) <= 248, NEW rest \in Seq(0..255)
  PROVE  Replay(AppFrame(2, 3, recipe, rest), Stamp)
           = AppFrame(2, 3, recipe, IF Len(rest) < 4 THEN rest
                                    ELSE Stamp \o SubSeq(rest, 5, Len(rest)))
<1> DEFINE kept == IF Len(rest) < 4 THEN rest ELSE Stamp \o SubSeq(rest, 5, Len(rest))
           raw == AppFrame(2, 3, recipe, rest)
           made == AppFrame(2, 3, recipe, kept)
           again == Replay(raw, Stamp)
           m == Len(recipe) + 8
<1>1. /\ kept \in Seq(0..255) /\ Len(kept) = Len(rest)
      /\ Len(rest) < 4 => kept = rest
      /\ Len(rest) >= 4 => /\ \A i \in 1..4 : kept[i] = Stamp[i]
                           /\ \A i \in 5..Len(rest) : kept[i] = rest[i]
  <2>1. CASE Len(rest) < 4
    BY <2>1
  <2>2. CASE Len(rest) >= 4
    <3>1. Stamp \in Seq(0..255) /\ Len(Stamp) = 4
      BY BytesAssumption
    <3>2. kept = Stamp \o SubSeq(rest, 5, Len(rest))
      <4>1. ~(Len(rest) < 4)
        BY <2>2, LenProperties
      <4> QED BY <4>1
    <3>3. /\ kept \in Seq(0..255) /\ Len(kept) = Len(rest)
          /\ \A i \in 1..4 : kept[i] = Stamp[i]
          /\ \A i \in 5..Len(rest) : kept[i] = rest[i]
      BY <2>2, <3>1, <3>2, FourReplaced
    <3> HIDE DEF kept
    <3> QED BY <2>2, <3>3
  <2> QED BY <2>1, <2>2
<1> HIDE DEF kept
<1>2. AppLike(raw, recipe, rest)
  BY AppFrameParts
<1>3. AppLike(made, recipe, kept)
  BY <1>1, AppFrameParts
<1> HIDE DEF raw, made
<1>4. /\ raw \in Seq(0..255) /\ Len(raw) = m + Len(rest)
      /\ \A i \in 1..Len(rest) : raw[m + i] = rest[i]
      /\ Brew(raw) /\ FrameLength(raw) = m
  BY <1>2 DEF AppLike
<1>5. /\ made \in Seq(0..255) /\ Len(made) = m + Len(kept)
       /\ \A i \in 1..Len(kept) : made[m + i] = kept[i]
  BY <1>3 DEF AppLike
<1>6. SubSeq(raw, 1, m) = SubSeq(made, 1, m)
  BY <1>2, <1>3 DEF AppLike
<1>7. /\ again \in Seq(0..255) /\ Len(again) = Len(raw)
      /\ \A i \in 1..Len(raw) : i \notin m + 1..m + 4 => again[i] = raw[i]
      /\ Timed(raw) => \A i \in 1..4 : again[m + i] = Stamp[i]
      /\ ~Timed(raw) => again = raw
  <2>1. Stamp \in Seq(0..255) /\ Len(Stamp) = 4
    BY BytesAssumption
  <2>2. raw \in Seq(0..255) /\ Brew(raw)
    BY <1>4
  <2>3. again \in Seq(0..255) /\ Len(again) = Len(raw)
    BY <2>1, <2>2, ReplayShape, Zenon
  <2>4. /\ \A i \in 1..Len(raw) :
             i \notin FrameLength(raw) + 1..FrameLength(raw) + 4 => again[i] = raw[i]
        /\ Timed(raw) => \A i \in 1..4 : again[FrameLength(raw) + i] = Stamp[i]
    <3> DEFINE length == FrameLength(raw)
    <3>1. \A i \in 1..Len(raw) : i \notin length + 1..length + 4 => again[i] = raw[i]
      BY <2>1, <2>2, ReplayShape, Zenon
    <3>2. Timed(raw) => \A i \in 1..4 : again[length + i] = Stamp[i]
      BY <2>1, <2>2, ReplayShape, Zenon
    <3> QED BY <3>1, <3>2, Zenon
  <2>5. ~Timed(raw) => again = raw
    BY <2>2, NoTimeKept, Zenon
  <2>6. FrameLength(raw) = m
    BY <1>4
  <2> HIDE DEF again, m
  <2> QED BY <2>3, <2>4, <2>5, <2>6
<1> HIDE DEF again
<1>8. m \in Nat /\ m >= 8 /\ Len(rest) \in Nat
  OBVIOUS
<1>9. Timed(raw) <=> Len(rest) >= 4
  BY <1>4, <1>8 DEF Timed
<1> HIDE DEF m
<1>10. \A i \in 1..m : raw[i] = made[i]
  <2>1. \A i \in 1..m : SubSeq(raw, 1, m)[i] = raw[i] /\ SubSeq(made, 1, m)[i] = made[i]
    BY <1>1, <1>4, <1>5, <1>8
  <2> QED BY <1>6, <2>1, Zenon
<1>11. ASSUME NEW i \in 1..Len(rest) PROVE again[m + i] = made[m + i]
  <2>1. m + i \in 1..Len(raw) /\ made[m + i] = kept[i]
    BY <1>1, <1>4, <1>5, <1>8
  <2>2. CASE Len(rest) < 4
    BY <1>1, <1>4, <1>7, <1>8, <1>9, <2>1, <2>2
  <2>3. CASE Len(rest) >= 4 /\ i <= 4
    <3>1. i \in 1..4
      BY <1>8, <2>3
    <3>2. again[m + i] = Stamp[i] /\ kept[i] = Stamp[i]
      BY <1>1, <1>7, <1>9, <2>3, <3>1, Zenon
    <3> QED BY <2>1, <3>2
  <2>4. CASE Len(rest) >= 4 /\ i > 4
    <3>1. m + i \notin m + 1..m + 4 /\ i \in 5..Len(rest)
      BY <1>8, <2>4
    <3> QED BY <1>1, <1>4, <1>7, <2>1, <2>4, <3>1
  <2> QED BY <1>8, <2>2, <2>3, <2>4
<1>12. \A i \in 1..m : again[i] = made[i]
  BY <1>4, <1>7, <1>8, <1>10
<1>13. again = made
  <2>1. Len(again) = Len(made) /\ Len(again) = m + Len(rest)
    BY <1>1, <1>4, <1>5, <1>7
  <2>2. \A i \in 1..Len(again) : again[i] = made[i]
    <3> SUFFICES ASSUME NEW i \in 1..Len(again), ~(i <= m) PROVE again[i] = made[i]
      BY <1>8, <1>12, <2>1
    <3>1. i - m \in 1..Len(rest) /\ m + (i - m) = i
      BY <1>8, <2>1
    <3> QED BY <1>11, <3>1
  <2> QED BY <1>5, <1>7, <2>1, <2>2
<1> QED BY <1>13 DEF raw, made, again, kept

\* Whatever recipe and whatever end the app gives a frame, a replay of it is
\* read as the frame was, and differs from it in the time alone.
THEOREM ReplaysAreFaithful == Spec => []ReplayFaithful
<1>1. Typed => ReplayFaithful
  <2> SUFFICES ASSUME Typed, NEW n \in 0..Len(input)
               PROVE  LET rest == SubSeq(input, n + 1, Len(input))
                          frame == AppFrame(2, 3, SubSeq(input, 1, n), rest)
                          again == Replay(frame, Stamp)
                      IN /\ Intact(frame)
                         /\ Decode(again) = Decode(frame)
                         /\ SignatureIn(again) = SignatureIn(frame)
                         /\ again = AppFrame(2, 3, SubSeq(input, 1, n),
                                             IF Len(rest) < 4 THEN rest
                                             ELSE Stamp \o SubSeq(rest, 5, Len(rest)))
    BY DEF ReplayFaithful
  <2> DEFINE recipe == SubSeq(input, 1, n)
             rest == SubSeq(input, n + 1, Len(input))
             frame == AppFrame(2, 3, recipe, rest)
             again == Replay(frame, Stamp)
  <2>1. input \in Seq(0..255) /\ Len(input) <= 248 /\ Len(input) \in Nat
    <3>1. input \in Seq(0..255)
      <4>1. input \in Seq(Bytes)
        BY DEF Typed
      <4> DEFINE B == 0..255
      <4>2. Bytes \subseteq B
        BY BytesAreBytes
      <4> HIDE DEF B
      <4>3. input \in Seq(B)
        BY <4>1, <4>2, Wider
      <4> QED BY <4>3 DEF B
    <3>2. Len(input) \in Nat
      BY <3>1, LenProperties
    <3> QED BY <3>1, <3>2, BytesAssumption DEF Typed
  <2>2. recipe \in Seq(0..255) /\ Len(recipe) <= 248 /\ rest \in Seq(0..255)
    <3> DEFINE B == 0..255
    <3>1. input \in Seq(B)
      BY <2>1
    <3> HIDE DEF B
    <3>2. recipe \in Seq(B) /\ Len(recipe) = n /\ rest \in Seq(B)
      BY <3>1, CutInTwo
    <3> HIDE DEF recipe, rest
    <3> QED BY <2>1, <3>2 DEF B
  <2> HIDE DEF recipe, rest
  <2>3. AppLike(frame, recipe, rest)
    BY <2>2, AppFrameParts
  <2>5. again = AppFrame(2, 3, recipe, IF Len(rest) < 4 THEN rest
                                       ELSE Stamp \o SubSeq(rest, 5, Len(rest)))
    BY <2>2, AppFrameReplayed
  <2> HIDE DEF frame
  <2>4. frame \in Seq(0..255) /\ Brew(frame) /\ Structural(frame) # <<>> /\ Intact(frame)
    BY <2>3 DEF AppLike
  <2>6. Decode(again) = Decode(frame) /\ SignatureIn(again) = SignatureIn(frame)
    BY <2>4, ReplayKeeps, BytesAssumption
  <2> HIDE DEF again
  <2> QED BY <2>4, <2>5, <2>6 DEF recipe, rest, frame, again
<1> QED BY <1>1, TypedAlways, PTL

-----------------------------------------------------------------------------
(* Walks. *)

\* What the walk makes of the payload from position i on, given what it makes
\* of the later positions.
WalkFrom(payload, k, from, i) ==
  IF i = Len(payload) + 1 THEN [t \in {} |-> None]
  ELSE LET next == FieldEnd(payload, k, i)
           rest == IF next > Len(payload) + 1 THEN None ELSE from[next]
       IN IF rest = None THEN None
          ELSE Enter(rest, payload[i], FieldValues(payload, k, i))

\* from is the walk's function.
Walks(payload, k, from) ==
  \A i \in 1..Len(payload) + 1 : from[i] = WalkFrom(payload, k, from, i)

\* A field is not empty.
LEMMA FieldsGoOn ==
  ASSUME NEW payload, NEW k \in {1, 3}, NEW i \in Nat
  PROVE  FieldEnd(payload, k, i) \in Nat /\ FieldEnd(payload, k, i) > i
<1> DEFINE w == Width(payload[i])
<1>1. w \in {1, 2}
  BY DEF Width
<1>2. FieldEnd(payload, k, i) = i + 1 + k * w
  BY DEF FieldEnd
<1> HIDE DEF w
<1>3. k * w \in Nat
  BY <1>1
<1> QED BY <1>2, <1>3

\* The walk exists: what it makes of a position is settled by the later ones,
\* from the end on.
LEMMA WalkExists ==
  ASSUME NEW payload \in Seq(Bytes), NEW k \in {1, 3}
  PROVE  \E from : Walk(payload, k) = from[1] /\ Walks(payload, k, from)
<1> DEFINE end == Len(payload) + 1
           IsWalk(g, m) == g = [i \in m..end |-> WalkFrom(payload, k, g, i)]
           from == CHOOSE g : IsWalk(g, 1)
<1>1. Walk(payload, k) = from[1]
  BY DEF Walk, WalkFrom
<1>2. Len(payload) \in Nat /\ end \in Nat /\ end = Len(payload) + 1
  BY LenProperties
<1> HIDE DEF end
<1> DEFINE D == {n \in Nat : n < end => \E g : IsWalk(g, end - n)}
<1>3. 0 \in D
  <2> DEFINE nothing == [t \in {} |-> None]
             g == [i \in end..end |-> nothing]
  <2>1. end - 0 = end /\ \A i \in end..end : i = end
    BY <1>2
  <2>2. \A f : WalkFrom(payload, k, f, end) = nothing
    BY <1>2 DEF WalkFrom
  <2> HIDE DEF nothing
  <2>3. IsWalk(g, end)
    BY <2>1, <2>2
  <2> HIDE DEF g, IsWalk
  <2>4. \E x : IsWalk(x, end - 0)
    BY <2>1, <2>3
  <2> QED BY <2>4
<1>4. ASSUME NEW n \in Nat, n \in D PROVE n + 1 \in D
  <2> DEFINE m == end - (n + 1)
  <2> SUFFICES ASSUME n + 1 < end PROVE \E g : IsWalk(g, m)
    OBVIOUS
  <2>1. m \in Nat \ {0} /\ end - n = m + 1 /\ m < end
    BY <1>2
  <2>2. PICK g : IsWalk(g, m + 1)
    <3>1. n < end
      BY <1>2
    <3> QED BY <1>4, <2>1, <3>1
  <2> HIDE DEF m
  <2> DEFINE h == [i \in m..end |-> IF i = m THEN WalkFrom(payload, k, g, m) ELSE g[i]]
  <2>3. \A i \in m + 1..end : g[i] = WalkFrom(payload, k, g, i)
    BY <2>2
  <2>4. ASSUME NEW i \in m..end PROVE WalkFrom(payload, k, h, i) = WalkFrom(payload, k, g, i)
    <3> DEFINE next == FieldEnd(payload, k, i)
    <3>1. next \in Nat /\ next > i /\ i \in Nat
      BY <1>2, <2>1, FieldsGoOn
    <3> HIDE DEF next
    <3>2. ~(next > end) => h[next] = g[next]
      BY <1>2, <2>1, <3>1
    <3> HIDE DEF h
    <3> QED BY <1>2, <3>2 DEF WalkFrom, next
  <2>5. \A i \in m..end : h[i] = WalkFrom(payload, k, g, i)
    BY <1>2, <2>1, <2>3
  <2>6. h = [i \in m..end |-> h[i]]
    OBVIOUS
  <2> HIDE DEF h
  <2>7. IsWalk(h, m)
    BY <2>4, <2>5, <2>6
  <2> HIDE DEF IsWalk
  <2> QED BY <2>7
<1> HIDE DEF D
<1>5. Nat \subseteq D
  BY <1>3, <1>4, UpFromZero
<1>6. \E g : IsWalk(g, 1)
  <2>1. end - 1 \in D /\ end - 1 \in Nat /\ end - 1 < end /\ end - (end - 1) = 1
    BY <1>2, <1>5
  <2> HIDE DEF IsWalk
  <2> QED BY <2>1 DEF D
<1>7. IsWalk(from, 1)
  <2>1. PICK g : IsWalk(g, 1)
    BY <1>6
  <2> HIDE DEF IsWalk
  <2> QED BY <2>1
<1> HIDE DEF from
<1>8. \A i \in 1..end : from[i] = WalkFrom(payload, k, from, i)
  BY <1>7
<1>9. Walks(payload, k, from)
  BY <1>2, <1>8 DEF Walks
<1> QED BY <1>1, <1>9

\* The grammar from position i on.
IsCutFrom(payload, k, i, cuts) ==
  /\ cuts \subseteq i..Len(payload) + 1
  /\ i \in cuts /\ Len(payload) + 1 \in cuts
  /\ \A j \in cuts : j <= Len(payload) =>
       /\ FieldEnd(payload, k, j) \in cuts
       /\ \A m \in cuts : j < m => FieldEnd(payload, k, j) <= m

\* What the fields of a cut say: each tag the values of the last field it begins.
Says(payload, k, cuts, entries) ==
  LET fields == cuts \ {Len(payload) + 1}
  IN /\ DOMAIN entries = {payload[j] : j \in fields}
     /\ entries \in [DOMAIN entries -> [1..k -> Nat]]
     /\ \A t \in DOMAIN entries : \E j \in fields :
          /\ payload[j] = t /\ entries[t] = FieldValues(payload, k, j)
          /\ \A m \in fields : payload[m] = t => m <= j

\* The values of a field lie within the payload.
LEMMA FieldIsNumbers ==
  ASSUME NEW payload \in Seq(Bytes), NEW k \in {1, 3}, NEW i \in 1..Len(payload),
         FieldEnd(payload, k, i) <= Len(payload) + 1
  PROVE  FieldValues(payload, k, i) \in [1..k -> Nat]
<1> DEFINE w == Width(payload[i])
           values == [n \in 1..k |-> ValueAt(payload, i + 1 + (n - 1) * w, w)]
<1>1. Len(payload) \in Nat /\ w \in {1, 2}
  BY LenProperties DEF Width
<1>2. i + 1 + k * w <= Len(payload) + 1
  BY DEF FieldEnd
<1>3. \A j \in 1..Len(payload) : payload[j] \in Nat
  <2>1. \A j \in 1..Len(payload) : payload[j] \in Bytes
    BY ElementOfSeq
  <2>2. Bytes \subseteq Nat
    BY BytesAreBytes
  <2> QED BY <2>1, <2>2
<1>4. FieldValues(payload, k, i) = values
  BY DEF FieldValues
<1> HIDE DEF w
<1>5. ASSUME NEW n \in 1..k PROVE ValueAt(payload, i + 1 + (n - 1) * w, w) \in Nat
  <2>1. CASE w = 1
    <3>1. i + 1 + (n - 1) * 1 \in 1..Len(payload)
      BY <1>1, <1>2, <2>1
    <3> QED BY <1>3, <2>1, <3>1 DEF ValueAt
  <2>2. CASE w = 2
    <3> DEFINE at == i + 1 + (n - 1) * 2
    <3>1. at \in 1..Len(payload) /\ at + 1 \in 1..Len(payload)
      BY <1>1, <1>2, <2>2
    <3> HIDE DEF at
    <3>2. 256 * payload[at] + payload[at + 1] \in Nat
      BY <1>3, <3>1
    <3> QED BY <2>2, <3>2 DEF ValueAt, at
  <2> QED BY <1>1, <2>1, <2>2
<1> QED BY <1>4, <1>5

\* What is said is something.
LEMMA SaidIsSomething ==
  ASSUME NEW payload \in Seq(Bytes), NEW k \in {1, 3}, NEW i \in Nat \ {0}, NEW cuts,
         IsCutFrom(payload, k, i, cuts), NEW entries, Says(payload, k, cuts, entries)
  PROVE  entries # None
<1> DEFINE fields == cuts \ {Len(payload) + 1}
<1>1. fields \subseteq 1..Len(payload)
  <2>1. Len(payload) \in Nat /\ cuts \subseteq i..Len(payload) + 1
    BY LenProperties DEF IsCutFrom
  <2>2. \A j \in i..Len(payload) + 1 : j # Len(payload) + 1 => j \in 1..Len(payload)
    BY <2>1
  <2> QED BY <2>1, <2>2
<1>2. {payload[j] : j \in fields} \in SUBSET Bytes
  BY <1>1, ElementOfSeq
<1> HIDE DEF fields
<1>3. /\ DOMAIN entries \in SUBSET Bytes
      /\ entries \in [DOMAIN entries -> [1..k -> Nat]]
  BY <1>2 DEF Says, fields
<1>4. None \notin [DOMAIN entries -> [1..k -> Nat]]
  <2> DEFINE tags == DOMAIN entries
  <2>1. tags \in SUBSET Bytes
    BY <1>3
  <2> HIDE DEF tags
  <2>2. None \notin [tags -> [1..k -> Nat]]
    BY <2>1, NothingAssumption, Zenon
  <2> QED BY <2>2 DEF tags
<1> QED BY <1>3, <1>4, Zenon

\* At the end nothing is left, and nothing is said.
LEMMA WalkEnds ==
  ASSUME NEW payload \in Seq(Bytes), NEW k \in {1, 3}
  PROVE  LET end == Len(payload) + 1
         IN IsCutFrom(payload, k, end, {end}) /\ Says(payload, k, {end}, [t \in {} |-> None])
<1>1. Len(payload) \in Nat
  BY LenProperties
<1>2. IsCutFrom(payload, k, Len(payload) + 1, {Len(payload) + 1})
  BY <1>1 DEF IsCutFrom
<1>3. Says(payload, k, {Len(payload) + 1}, [t \in {} |-> None])
  BY DEF Says
<1> QED BY <1>2, <1>3

\* A field more before a cut.
LEMMA CutGrows ==
  ASSUME NEW payload \in Seq(Bytes), NEW k \in {1, 3}, NEW i \in 1..Len(payload), NEW cuts,
         IsCutFrom(payload, k, FieldEnd(payload, k, i), cuts)
  PROVE  IsCutFrom(payload, k, i, {i} \cup cuts)
<1> DEFINE next == FieldEnd(payload, k, i)
           all == {i} \cup cuts
<1>1. Len(payload) \in Nat /\ i \in Nat /\ next \in Nat /\ next > i
  BY LenProperties, FieldsGoOn
<1>2. /\ cuts \subseteq next..Len(payload) + 1 /\ next \in cuts /\ Len(payload) + 1 \in cuts
      /\ \A j \in cuts : j <= Len(payload) =>
           /\ FieldEnd(payload, k, j) \in cuts
           /\ \A m \in cuts : j < m => FieldEnd(payload, k, j) <= m
  BY DEF IsCutFrom
<1>3. all \subseteq i..Len(payload) + 1 /\ i \in all /\ Len(payload) + 1 \in all
  BY <1>1, <1>2
<1>4. next \in all /\ \A m \in all : i < m => next <= m
  BY <1>1, <1>2
<1>5. ASSUME NEW j \in cuts, j <= Len(payload)
      PROVE  /\ FieldEnd(payload, k, j) \in all
             /\ \A m \in all : j < m => FieldEnd(payload, k, j) <= m
  <2>1. j \in Nat /\ ~(j < i)
    BY <1>1, <1>2
  <2> QED BY <1>2, <1>5, <2>1
<1> QED BY <1>3, <1>4, <1>5 DEF IsCutFrom

\* And one less.
LEMMA CutShrinks ==
  ASSUME NEW payload \in Seq(Bytes), NEW k \in {1, 3}, NEW i \in 1..Len(payload), NEW cuts,
         IsCutFrom(payload, k, i, cuts)
  PROVE  LET next == FieldEnd(payload, k, i)
         IN next <= Len(payload) + 1 /\ IsCutFrom(payload, k, next, cuts \ {i})
<1> DEFINE next == FieldEnd(payload, k, i)
           less == cuts \ {i}
<1>1. Len(payload) \in Nat /\ i \in Nat /\ i <= Len(payload) /\ next \in Nat /\ next > i
  BY LenProperties, FieldsGoOn
<1>2. /\ cuts \subseteq i..Len(payload) + 1 /\ i \in cuts /\ Len(payload) + 1 \in cuts
      /\ \A j \in cuts : j <= Len(payload) =>
           /\ FieldEnd(payload, k, j) \in cuts
           /\ \A m \in cuts : j < m => FieldEnd(payload, k, j) <= m
  BY DEF IsCutFrom
<1>3. next \in cuts /\ \A m \in cuts : i < m => next <= m
  BY <1>1, <1>2
<1>4. /\ less \subseteq next..Len(payload) + 1
      /\ next \in less /\ Len(payload) + 1 \in less
  BY <1>1, <1>2, <1>3
<1>5. ASSUME NEW j \in less, j <= Len(payload)
      PROVE  /\ FieldEnd(payload, k, j) \in less
             /\ \A m \in less : j < m => FieldEnd(payload, k, j) <= m
  <2>1. j \in Nat /\ j >= i /\ FieldEnd(payload, k, j) > j
    BY <1>1, <1>2, FieldsGoOn
  <2>2. FieldEnd(payload, k, j) # i
    BY <1>1, <2>1, FieldsGoOn
  <2> QED BY <1>2, <1>5, <2>2
<1> QED BY <1>1, <1>3, <1>4, <1>5 DEF IsCutFrom

\* With a field more, its tag is entered unless it comes again.
LEMMA SaysMore ==
  ASSUME NEW payload \in Seq(Bytes), NEW k \in {1, 3}, NEW i \in 1..Len(payload), NEW cuts,
         FieldEnd(payload, k, i) <= Len(payload) + 1,
         IsCutFrom(payload, k, FieldEnd(payload, k, i), cuts),
         NEW rest, Says(payload, k, cuts, rest)
  PROVE  Says(payload, k, {i} \cup cuts, Enter(rest, payload[i], FieldValues(payload, k, i)))
<1> DEFINE next == FieldEnd(payload, k, i)
           end == Len(payload) + 1
           fields == cuts \ {end}
           all == ({i} \cup cuts) \ {end}
           said == FieldValues(payload, k, i)
           entries == Enter(rest, payload[i], said)
<1>1. Len(payload) \in Nat /\ i \in Nat /\ i # end /\ next \in Nat /\ next > i
  BY LenProperties, FieldsGoOn
<1>2. cuts \subseteq next..end
  BY DEF IsCutFrom
<1>3. all = {i} \cup fields /\ \A m \in fields : m \in Nat /\ i < m
  BY <1>1, <1>2
<1>4. said \in [1..k -> Nat]
  BY FieldIsNumbers
<1>5. /\ DOMAIN rest = {payload[j] : j \in fields}
      /\ rest \in [DOMAIN rest -> [1..k -> Nat]]
      /\ \A t \in DOMAIN rest : \E j \in fields :
           /\ payload[j] = t /\ rest[t] = FieldValues(payload, k, j)
           /\ \A m \in fields : payload[m] = t => m <= j
  BY DEF Says
<1>6. /\ entries = [t \in DOMAIN rest \cup {payload[i]} |->
                      IF t \in DOMAIN rest THEN rest[t] ELSE said]
      /\ DOMAIN entries = DOMAIN rest \cup {payload[i]}
  BY DEF Enter
<1> HIDE DEF said, entries, fields, all, next, end
<1>7. DOMAIN entries = {payload[j] : j \in all}
  BY <1>3, <1>5, <1>6
<1>8. entries \in [DOMAIN entries -> [1..k -> Nat]]
  BY <1>4, <1>5, <1>6
<1>9. ASSUME NEW t \in DOMAIN entries
      PROVE  \E j \in all : /\ payload[j] = t /\ entries[t] = FieldValues(payload, k, j)
                            /\ \A m \in all : payload[m] = t => m <= j
  <2>1. CASE t \in DOMAIN rest
    <3>1. PICK j \in fields : /\ payload[j] = t /\ rest[t] = FieldValues(payload, k, j)
                              /\ \A m \in fields : payload[m] = t => m <= j
      BY <1>5, <2>1
    <3>2. entries[t] = rest[t]
      BY <1>6, <2>1
    <3>3. j \in all /\ \A m \in all : payload[m] = t => m <= j
      BY <1>1, <1>3, <3>1
    <3> QED BY <3>1, <3>2, <3>3
  <2>2. CASE t \notin DOMAIN rest
    <3>1. t = payload[i] /\ entries[t] = said
      BY <1>6, <2>2
    <3>2. \A m \in all : payload[m] = t => m <= i
      BY <1>1, <1>3, <1>5, <2>2
    <3>3. i \in all
      BY <1>3
    <3> QED BY <3>1, <3>2, <3>3 DEF said
  <2> QED BY <2>1, <2>2
<1> QED BY <1>7, <1>8, <1>9 DEF Says, entries, said, all, end

\* What the walk makes of a position is nothing if it cannot be cut from there,
\* and what the fields of a cut say otherwise.
Understood(payload, k, from, i) ==
  /\ from[i] # None =>
       \E cuts : IsCutFrom(payload, k, i, cuts) /\ Says(payload, k, cuts, from[i])
  /\ (\E cuts : IsCutFrom(payload, k, i, cuts)) => from[i] # None

\* The end is understood.
LEMMA EndUnderstood ==
  ASSUME NEW payload \in Seq(Bytes), NEW k \in {1, 3}, NEW from, Walks(payload, k, from)
  PROVE  Understood(payload, k, from, Len(payload) + 1)
<1> DEFINE end == Len(payload) + 1
           nothing == [t \in {} |-> None]
<1>1. Len(payload) \in Nat /\ end \in 1..end /\ end \in Nat \ {0}
  <2>1. Len(payload) \in Nat
    BY LenProperties
  <2> QED BY <2>1
<1>2. from[end] = nothing
  BY <1>1 DEF Walks, WalkFrom
<1>3. IsCutFrom(payload, k, end, {end}) /\ Says(payload, k, {end}, nothing)
  BY WalkEnds
<1> HIDE DEF end, nothing
<1>4. nothing # None
  BY <1>1, <1>3, SaidIsSomething
<1>5. Understood(payload, k, from, end)
  BY <1>2, <1>3, <1>4 DEF Understood
<1> QED BY <1>5 DEF end

\* A position is understood if the next one is.
LEMMA OneMoreUnderstood ==
  ASSUME NEW payload \in Seq(Bytes), NEW k \in {1, 3}, NEW from, Walks(payload, k, from),
         NEW i \in 1..Len(payload),
         FieldEnd(payload, k, i) <= Len(payload) + 1 =>
           Understood(payload, k, from, FieldEnd(payload, k, i))
  PROVE  Understood(payload, k, from, i)
<1> DEFINE end == Len(payload) + 1
           next == FieldEnd(payload, k, i)
           entries == Enter(from[next], payload[i], FieldValues(payload, k, i))
<1>1. /\ Len(payload) \in Nat /\ i \in 1..end /\ i # end /\ i \in Nat \ {0}
      /\ next \in Nat /\ end \in Nat
  <2>1. Len(payload) \in Nat
    BY LenProperties
  <2>2. next \in Nat
    BY FieldsGoOn
  <2> QED BY <2>1, <2>2
<1>2. from[i] = LET rest == IF next > end THEN None ELSE from[next]
                IN IF rest = None THEN None
                   ELSE Enter(rest, payload[i], FieldValues(payload, k, i))
  BY <1>1 DEF Walks, WalkFrom
<1>3. CASE next > end
  <2>1. from[i] = None
    BY <1>2, <1>3
  <2>2. ASSUME NEW cuts PROVE ~IsCutFrom(payload, k, i, cuts)
    <3>1. ~(next <= end)
      BY <1>1, <1>3
    <3> QED BY <3>1, CutShrinks
  <2> QED BY <2>1, <2>2 DEF Understood
<1>4. CASE next <= end /\ from[next] = None
  <2>1. from[i] = None
    BY <1>2, <1>4
  <2>2. ASSUME NEW cuts, IsCutFrom(payload, k, i, cuts) PROVE FALSE
    <3>1. IsCutFrom(payload, k, next, cuts \ {i})
      BY <2>2, CutShrinks
    <3> QED BY <1>4, <3>1 DEF Understood
  <2> QED BY <2>1, <2>2 DEF Understood
<1>5. CASE next <= end /\ from[next] # None
  <2>1. from[i] = entries
    <3>1. ~(next > end)
      BY <1>1, <1>5
    <3> QED BY <1>2, <1>5, <3>1
  <2>2. PICK cuts : IsCutFrom(payload, k, next, cuts) /\ Says(payload, k, cuts, from[next])
    BY <1>5 DEF Understood
  <2>3. IsCutFrom(payload, k, i, {i} \cup cuts)
    BY <2>2, CutGrows
  <2>4. Says(payload, k, {i} \cup cuts, entries)
    BY <1>5, <2>2, SaysMore
  <2>5. entries # None
    BY <1>1, <2>3, <2>4, SaidIsSomething
  <2> HIDE DEF entries
  <2> QED BY <2>1, <2>3, <2>4, <2>5 DEF Understood
<1> QED BY <1>1, <1>3, <1>4, <1>5

\* So every position is, and the walk with them.
LEMMA AllUnderstood ==
  ASSUME NEW payload \in Seq(Bytes), NEW k \in {1, 3}, NEW from, Walks(payload, k, from)
  PROVE  Understood(payload, k, from, 1)
<1> DEFINE end == Len(payload) + 1
           Lost == {n \in Nat : n < end /\ ~Understood(payload, k, from, end - n)}
<1>1. Len(payload) \in Nat /\ end \in Nat /\ end = Len(payload) + 1
  BY LenProperties
<1>2. Lost = {}
  <2> SUFFICES ASSUME Lost # {} PROVE FALSE
    OBVIOUS
  <2>1. PICK n \in Lost : \A x \in Lost : n <= x
    BY LeastOf
  <2>2. n \in Nat /\ n < end /\ ~Understood(payload, k, from, end - n)
    BY <2>1
  <2>3. \A x \in Nat : x < n => Understood(payload, k, from, end - x)
    <3> SUFFICES ASSUME NEW x \in Nat, x < n, ~Understood(payload, k, from, end - x)
                 PROVE  FALSE
      OBVIOUS
    <3>1. x \in Lost
      BY <1>1, <2>2
    <3> QED BY <2>1, <2>2, <3>1
  <2> HIDE DEF Lost
  <2>4. n # 0
    <3>1. Understood(payload, k, from, end)
      BY EndUnderstood
    <3>2. end - 0 = end
      BY <1>1
    <3> QED BY <2>2, <3>1, <3>2
  <2> DEFINE i == end - n
             next == FieldEnd(payload, k, i)
  <2>5. i \in 1..Len(payload)
    BY <1>1, <2>2, <2>4
  <2>6. next \in Nat /\ next > i
    BY <2>5, FieldsGoOn
  <2>7. ASSUME next <= end PROVE Understood(payload, k, from, next)
    <3>1. end - next \in Nat /\ end - next < n /\ end - (end - next) = next
      BY <1>1, <2>2, <2>5, <2>6, <2>7
    <3> HIDE DEF next, i
    <3> QED BY <2>3, <3>1
  <2>8. Understood(payload, k, from, i)
    <3> HIDE DEF i
    <3> QED BY <2>5, <2>7, OneMoreUnderstood
  <2> QED BY <2>2, <2>8
<1>3. end - 1 \in Nat /\ end - 1 < end /\ end - (end - 1) = 1
  BY <1>1
<1> HIDE DEF end
<1> QED BY <1>2, <1>3

\* The grammar is the grammar from the first position on.
LEMMA CutFromFirst ==
  ASSUME NEW payload, NEW k, NEW cuts
  PROVE  IsCutFrom(payload, k, 1, cuts)
           <=> cuts \in SUBSET (1..Len(payload) + 1) /\ IsCut(payload, k, cuts)
BY Zenon DEF IsCutFrom, IsCut, FieldEnd

\* The last of a set of positions.
LEMMA LatestIs ==
  ASSUME NEW S, S \subseteq Nat, NEW j \in S, \A m \in S : m <= j
  PROVE  Latest(S) = j
<1>1. \E n \in S : \A m \in S : m <= n
  OBVIOUS
<1>2. Latest(S) \in S /\ \A m \in S : m <= Latest(S)
  BY <1>1 DEF Latest
<1>3. Latest(S) <= j /\ j <= Latest(S) /\ Latest(S) \in Nat /\ j \in Nat
  BY <1>2
<1> QED BY <1>3

\* What a payload means, by its grammar: k values of each tag, from the last
\* field that the tag begins.
Meant(k, cuts, entries) ==
  LET starts(t) == {i \in cuts \ {Len(input) + 1} : input[i] = t}
  IN /\ DOMAIN entries = {input[i] : i \in cuts \ {Len(input) + 1}}
     /\ \A t \in DOMAIN entries, n \in 1..k :
          LET w == IF t \in {1, 9, 15} THEN 2 ELSE 1
              at == Latest(starts(t)) + 1 + (n - 1) * w
          IN entries[t][n] = IF w = 1 THEN input[at]
                             ELSE 256 * input[at] + input[at + 1]

\* It is what its fields say.
LEMMA SaidIsMeant ==
  ASSUME Typed, NEW k \in {1, 3}, NEW cuts, IsCutFrom(input, k, 1, cuts),
         NEW entries, Says(input, k, cuts, entries)
  PROVE  Meant(k, cuts, entries)
<1> DEFINE fields == cuts \ {Len(input) + 1}
           starts(t) == {i \in fields : input[i] = t}
           width(t) == IF t \in {1, 9, 15} THEN 2 ELSE 1
<1>1. fields \subseteq Nat
  <2>1. Len(input) \in Nat
    BY LenProperties DEF Typed
  <2>2. cuts \subseteq 1..Len(input) + 1
    BY Zenon DEF IsCutFrom
  <2>3. \A j \in 1..Len(input) + 1 : j \in Nat
    BY <2>1
  <2> HIDE DEF starts
  <2> QED BY <2>2, <2>3, Zenon
<1>2. ASSUME NEW t \in DOMAIN entries, NEW n \in 1..k
      PROVE  LET at == Latest(starts(t)) + 1 + (n - 1) * width(t)
             IN entries[t][n] = IF width(t) = 1 THEN input[at]
                                ELSE 256 * input[at] + input[at + 1]
  <2>1. PICK j \in fields : /\ input[j] = t /\ entries[t] = FieldValues(input, k, j)
                            /\ \A m \in fields : input[m] = t => m <= j
    BY DEF Says
  <2>2. starts(t) \subseteq Nat /\ j \in starts(t) /\ \A m \in starts(t) : m <= j
    BY <1>1, <2>1
  <2> HIDE DEF starts, fields
  <2>3. Latest(starts(t)) = j
    BY <2>2, LatestIs
  <2>4. width(t) = Width(input[j])
    BY <2>1 DEF Width, Wide
  <2> HIDE DEF width
  <2>5. entries[t][n] = ValueAt(input, j + 1 + (n - 1) * width(t), width(t))
    BY <2>1, <2>4 DEF FieldValues
  <2> QED BY <2>3, <2>5, Zenon DEF ValueAt
<1>3. DOMAIN entries = {input[i] : i \in fields}
  BY DEF Says
<1> QED BY <1>2, <1>3, Zenon DEF Meant

\* A payload is understood exactly if the grammar cuts it to its last byte, and
\* then means what the grammar says, for payloads of any bytes and any length.
THEOREM WalksAreExact == Spec => []WalkExact
<1>1. Typed => WalkExact
  <2> SUFFICES ASSUME Typed, NEW k \in {1, 3}
               PROVE  LET fits == {cuts \in SUBSET (1..Len(input) + 1) : IsCut(input, k, cuts)}
                          params == Walk(input, k)
                      IN IF params = None THEN fits = {}
                         ELSE \E cuts \in fits : Meant(k, cuts, params)
    BY Zenon DEF WalkExact, Meant
  <2>1. input \in Seq(Bytes)
    BY DEF Typed
  <2>2. PICK from : Walk(input, k) = from[1] /\ Walks(input, k, from)
    BY <2>1, WalkExists
  <2>3. Understood(input, k, from, 1)
    BY <2>1, <2>2, AllUnderstood
  <2> DEFINE fits == {cuts \in SUBSET (1..Len(input) + 1) : IsCut(input, k, cuts)}
  <2>4. \A cuts : cuts \in fits <=> IsCutFrom(input, k, 1, cuts)
    BY CutFromFirst
  <2> HIDE DEF fits
  <2>5. CASE from[1] = None
    <3>1. \A cuts : cuts \notin fits
      BY <2>3, <2>4, <2>5 DEF Understood
    <3>2. fits = {}
      BY <3>1
    <3> QED BY <2>2, <2>5, <3>2 DEF fits
  <2>6. CASE from[1] # None
    <3>1. PICK cuts : IsCutFrom(input, k, 1, cuts) /\ Says(input, k, cuts, from[1])
      BY <2>3, <2>6 DEF Understood
    <3>2. Meant(k, cuts, from[1])
      BY <3>1, SaidIsMeant
    <3>3. \E x \in fits : Meant(k, x, from[1])
      BY <2>4, <3>1, <3>2
    <3> QED BY <2>2, <2>6, <3>3 DEF fits
  <2> QED BY <2>5, <2>6
<1> QED BY <1>1, TypedAlways, PTL
=============================================================================
