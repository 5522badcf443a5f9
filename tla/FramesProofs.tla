---------------------------- MODULE FramesProofs ----------------------------
(***************************************************************************)
(* What the conversions and the splices of Frames keep, for every base,    *)
(* id and frame.                                                           *)
(***************************************************************************)
EXTENDS Frames, SequenceTheorems, WellFoundedInduction, TLAPS

\* Four digits, as a signature or a tail has them.
Quads == [1..4 -> 0..Base - 1]

\* As long as a time or an id.
Four(s) == Len(s) = 4

\* The time in raw is stamp.
Stamped(raw, stamp) == Slice(raw, FrameLength(raw), FrameLength(raw) + 4) = stamp

\* r stands in q behind its first m.
Stands(r, q, m) == \A i \in 1..Len(r) : q[m + i] = r[i]

\* The frame's length byte speaks of the head and its CRC.
Fits(raw, h) == FrameLength(raw) = Len(h) + 2

\* The numbers are well founded.
LEMMA NatFounded == IsWellFoundedOn({ss \in Nat \X Nat : ss[1] < ss[2]}, Nat)
BY NatLessThanWellFounded DEF OpToRel

\* Every set of numbers has a least one.
LEMMA LeastOf ==
  ASSUME NEW S, S \subseteq Nat, S # {}
  PROVE  \E m \in S : \A n \in S : m <= n
<1> DEFINE R == {ss \in Nat \X Nat : ss[1] < ss[2]}
<1>1. IsWellFoundedOn(R, Nat)
  BY NatFounded
<1>2. \A m, n \in Nat : <<m, n>> \in R <=> m < n
  OBVIOUS
<1> HIDE DEF R
<1>3. PICK m \in S : \A n \in S : ~(<<n, m>> \in R)
  BY <1>1, WFMin
<1>4. ASSUME NEW n \in S PROVE m <= n
  <2>1. m \in Nat /\ n \in Nat
    OBVIOUS
  <2>2. ~(n < m)
    BY <1>2, <1>3, <2>1
  <2> QED BY <2>1, <2>2
<1> QED BY <1>4

\* What holds of 0 and is handed on holds of every number.
LEMMA UpFromZero ==
  ASSUME NEW S, 0 \in S, \A n \in Nat : n \in S => n + 1 \in S
  PROVE  Nat \subseteq S
<1> DEFINE Out == Nat \ S
<1> SUFFICES ASSUME Out # {} PROVE FALSE
  OBVIOUS
<1>1. PICK m \in Out : \A n \in Out : m <= n
  BY LeastOf
<1>2. m \in Nat /\ m # 0 /\ m - 1 \in Nat /\ (m - 1) + 1 = m
  BY <1>1
<1>3. m - 1 \in S
  BY <1>1, <1>2
<1> QED BY <1>2, <1>3

-----------------------------------------------------------------------------
(* Ids. *)

\* The base is even, and its powers are what they are.
LEMMA Powers ==
  \/ Base = 4 /\ Modulus = 256 /\ Half = 128
  \/ Base = 16 /\ Modulus = 65536 /\ Half = 32768
  \/ Base = 256 /\ Modulus = 4294967296 /\ Half = 2147483648
BY BaseAssumption, SMT DEF Modulus, Half

\* Numbers and their remainders.
LEMMA Small == \A M \in Nat \ {0} : \A n \in 0..M - 1 : n % M = n
BY SMTT(20)

\* A number one modulus below its range has the same remainder.
LEMMA SmallUnder == \A M \in Nat \ {0} : \A n \in 0..M - 1 : (n - M) % M = n
BY SMTT(20)

\* And one modulus above.
LEMMA SmallOver == \A M \in Nat \ {0} : \A n \in 0..M - 1 : (n + M) % M = n
BY SMTT(20)

\* A remainder is always in range, of negative numbers too.
LEMMA Remainder == \A M \in Nat \ {0} : \A n \in Int : n % M \in 0..M - 1
BY SMTT(20)

\* An id in range is its own normal form.
LEMMA InRange == \A id \in -Half..(Half - 1) : Normalize(id) = id
<1> SUFFICES ASSUME NEW id \in -Half..(Half - 1) PROVE Normalize(id) = id
  OBVIOUS
<1>1. Modulus \in Nat \ {0} /\ Half \in Nat \ {0} /\ Modulus = 2 * Half
  BY Powers, SMT
<1>2. Normalize(id) = (((id % Modulus) + Half) % Modulus) - Half
  BY DEF Normalize
<1>3. CASE id >= 0
  <2>1. id % Modulus = id
    BY <1>1, <1>3, Small, SMT
  <2>2. (id + Half) % Modulus = id + Half
    BY <1>1, <1>3, Small, SMT
  <2> QED BY <1>1, <1>2, <2>1, <2>2, SMT
<1>4. CASE id < 0
  <2>1. ((id + Modulus) - Modulus) % Modulus = id + Modulus
    BY <1>1, <1>4, SmallUnder, SMT
  <2>2. id % Modulus = id + Modulus
    BY <1>1, <2>1, SMT
  <2>3. ((id + Half) + Modulus) % Modulus = id + Half
    BY <1>1, <1>4, SmallOver, SMT
  <2>4. (id + Half) + Modulus = (id + Modulus) + Half
    BY <1>1, SMT
  <2> QED BY <1>1, <1>2, <2>2, <2>3, <2>4, SMT
<1> QED BY <1>1, <1>3, <1>4, SMT

\* An id read or written lies in the range of a signed integer and stays what
\* it is when it is normalised again, whether it came signed or unsigned.
THEOREM NormalForm ==
  \A id \in Int : /\ Normalize(id) \in -Half..(Half - 1)
                  /\ Normalize(Normalize(id)) = Normalize(id)
                  /\ Normalize(id + Modulus) = Normalize(id)
<1> SUFFICES ASSUME NEW id \in Int
    PROVE /\ Normalize(id) \in -Half..(Half - 1)
          /\ Normalize(Normalize(id)) = Normalize(id)
          /\ Normalize(id + Modulus) = Normalize(id)
  OBVIOUS
<1>1. Modulus \in Nat \ {0} /\ Half \in Nat \ {0} /\ Modulus = 2 * Half
  BY Powers, SMT
<1>2. Normalize(id) \in -Half..(Half - 1)
  <2>1. id % Modulus \in 0..Modulus - 1
    BY <1>1, Remainder
  <2>2. ((id % Modulus) + Half) % Modulus \in 0..Modulus - 1
    BY <1>1, <2>1, Remainder, SMT
  <2>3. Normalize(id) = (((id % Modulus) + Half) % Modulus) - Half
    BY DEF Normalize
  <2> QED BY <1>1, <2>2, <2>3, SMT
<1>3. (id + Modulus) % Modulus = id % Modulus
  <2>1. (id + 256) % 256 = id % 256
    BY SMT
  <2>2. (id + 65536) % 65536 = id % 65536
    BY SMT
  <2>3. (id + 4294967296) % 4294967296 = id % 4294967296
    BY SMT
  <2> QED BY <2>1, <2>2, <2>3, Powers, SMT
<1> QED BY <1>2, <1>3, InRange DEF Normalize

\* The digits of a number and the number of its digits.
LEMMA DigitsOfSum ==
  ASSUME NEW a \in -(Base \div 2)..(Base - 1), NEW b \in 0..Base - 1,
         NEW c \in 0..Base - 1, NEW d \in 0..Base - 1
  PROVE  Digits(((a * Base + b) * Base + c) * Base + d)
           = <<a % Base, b, c, d>>
<1> DEFINE n == ((a * Base + b) * Base + c) * Base + d
<1>1. CASE Base = 4
  <2>1. n \div 64 = a /\ n \div 16 = 4 * a + b /\ n \div 4 = 16 * a + 4 * b + c /\ n % 4 = d
    BY <1>1, SMTT(30)
  <2>2. (4 * a + b) % 4 = b /\ (16 * a + 4 * b + c) % 4 = c
    BY <1>1, SMTT(30)
  <2> QED BY <1>1, <2>1, <2>2 DEF Digits
<1>2. CASE Base = 16
  <2>1. n \div 4096 = a /\ n \div 256 = 16 * a + b /\ n \div 16 = 256 * a + 16 * b + c /\ n % 16 = d
    BY <1>2, SMTT(30)
  <2>2. (16 * a + b) % 16 = b /\ (256 * a + 16 * b + c) % 16 = c
    BY <1>2, SMTT(30)
  <2> QED BY <1>2, <2>1, <2>2 DEF Digits
<1>3. CASE Base = 256
  <2>1. n \div 16777216 = a /\ n \div 65536 = 256 * a + b /\ n \div 256 = 65536 * a + 256 * b + c /\ n % 256 = d
    BY <1>3, SMTT(30)
  <2>2. (256 * a + b) % 256 = b /\ (65536 * a + 256 * b + c) % 256 = c
    BY <1>3, SMTT(30)
  <2> QED BY <1>3, <2>1, <2>2 DEF Digits
<1> QED BY <1>1, <1>2, <1>3, BaseAssumption

\* One digit more behind a signed number.
LEMMA Widened ==
  \A m \in Nat : \A x \in -m..(m - 1) :
    /\ \A d \in 0..3 : x * 4 + d \in -(4 * m)..(4 * m) - 1
    /\ \A d \in 0..15 : x * 16 + d \in -(16 * m)..(16 * m) - 1
    /\ \A d \in 0..255 : x * 256 + d \in -(256 * m)..(256 * m) - 1
BY SMTT(30)

\* The id that a signature is read as lies in the range of a signed integer,
\* and its digits are the signature.
LEMMA IdInRange ==
  ASSUME NEW s \in Quads, s # NoFrame, s # <<0, 0, 0, 0>>
  PROVE  IdOf(s) \in -Half..(Half - 1) /\ Digits(IdOf(s)) = s
<1> DEFINE a == Signed(s[1])
           id == ((a * Base + s[2]) * Base + s[3]) * Base + s[4]
<1>1. IdOf(s) = id
  BY DEF IdOf
<1>2. s[1] \in 0..Base - 1 /\ s[2] \in 0..Base - 1 /\ s[3] \in 0..Base - 1 /\ s[4] \in 0..Base - 1
  BY DEF Quads
<1>3. a \in -(Base \div 2)..((Base \div 2) - 1) /\ a % Base = s[1]
  BY <1>2, BaseAssumption DEF Signed
<1>4. id \in -Half..(Half - 1)
  <2> DEFINE H == Base \div 2
             x == a * Base + s[2]
             y == x * Base + s[3]
  <2>1. H \in Nat /\ Base \in Nat /\ Base * H \in Nat /\ Base * (Base * H) \in Nat
        /\ Base * (Base * (Base * H)) = Half
    BY BaseAssumption, Powers, SMT
  <2> HIDE DEF a, H
  <2>2. \A m \in Nat : \A z \in -m..(m - 1), d \in 0..Base - 1 :
          z * Base + d \in -(Base * m)..(Base * m) - 1
    BY BaseAssumption, Widened, SMT
  <2>3. x \in -(Base * H)..(Base * H) - 1
    BY <1>2, <1>3, <2>1, <2>2 DEF H
  <2> HIDE DEF x
  <2>4. y \in -(Base * (Base * H))..(Base * (Base * H)) - 1
    BY <1>2, <2>1, <2>2, <2>3
  <2> HIDE DEF y
  <2>5. y * Base + s[4] \in -Half..Half - 1
    BY <1>2, <2>1, <2>2, <2>4
  <2> QED BY <2>5 DEF x, y
<1>5. a \in -(Base \div 2)..(Base - 1)
  BY <1>3, BaseAssumption
<1>6. Digits(id) = <<a % Base, s[2], s[3], s[4]>>
  BY <1>2, <1>5, DigitsOfSum
<1>7. s = <<s[1], s[2], s[3], s[4]>>
  BY DEF Quads
<1> QED BY <1>1, <1>3, <1>4, <1>6, <1>7

\* The tail that is written for the id of a signature is that signature: what
\* this integration sends under the machine's id, the machine takes for its own.
THEOREM TailOfSignature ==
  ASSUME NEW s \in Quads, s # NoFrame, s # <<0, 0, 0, 0>>
  PROVE  TailOf(IdOf(s)) = s
BY IdInRange, InRange DEF TailOf

-----------------------------------------------------------------------------
(* Checksums. *)

\* A number of 16 bits, and an even one.
Word(w) == w \in Nat /\ w < 65536
EvenWord(w) == Word(w) /\ w % 2 = 0

\* A word that is shifted left is even.
LEMMA Doubled == \A w : Word(w) => EvenWord((2 * w) % 65536)
<1>1. \A w \in Nat : w < 32768 => ((2 * w) % 65536) = 2 * w
  BY SMTT(20)
<1>2. \A w \in Nat : w >= 32768 /\ w < 65536 => ((2 * w) % 65536) = (2 * w) - 65536
  BY SMTT(20)
<1>3. \A w \in Nat : w < 65536 => ((2 * w) % 65536) \in Nat /\ ((2 * w) % 65536) < 65536
  BY SMTT(20)
<1>4. \A w \in Nat : w < 65536 => ((2 * w) % 65536) % 2 = 0
  <2>1. \A w \in Nat : (2 * w) % 2 = 0 /\ ((2 * w) - 65536) % 2 = 0
    BY SMTT(20)
  <2> QED BY <1>1, <1>2, <2>1
<1> QED BY <1>3, <1>4 DEF Word, EvenWord

\* A bit above the lowest of an even word is flipped.
LEMMA Flipped ==
  ASSUME NEW w, EvenWord(w), NEW b \in {32, 4096}
  PROVE  EvenWord(IF (w \div b) % 2 = 0 THEN w + b ELSE w - b)
<1>1. \A n \in Nat : n < 65536 =>
        /\ (n \div 32) % 2 = 0 => n + 32 < 65536
        /\ (n \div 32) % 2 # 0 => n >= 32
  BY SMTT(20)
<1>2. \A n \in Nat : n < 65536 =>
        /\ (n \div 4096) % 2 = 0 => n + 4096 < 65536
        /\ (n \div 4096) % 2 # 0 => n >= 4096
  BY SMTT(20)
<1>3. \A n \in Nat : n % 2 = 0 =>
        /\ (n + 32) % 2 = 0 /\ (n - 32) % 2 = 0
        /\ (n + 4096) % 2 = 0 /\ (n - 4096) % 2 = 0
  BY SMTT(20)
<1>4. w \in Nat /\ w < 65536 /\ w % 2 = 0
  BY DEF Word, EvenWord
<1>5. CASE b = 32
  BY <1>1, <1>3, <1>4, <1>5 DEF Word, EvenWord
<1>6. CASE b = 4096
  BY <1>2, <1>3, <1>4, <1>6 DEF Word, EvenWord
<1> QED BY <1>5, <1>6

\* A checksum is a word, whatever it is taken of: the function that runs over
\* the bits exists, and keeps to 16 bits with each of them.
THEOREM CrcIsWord ==
  ASSUME NEW bytes, Len(bytes) \in Nat
  PROVE  Word(Crc16(bytes))
<1> DEFINE bit(i) == (bytes[((i - 1) \div 8) + 1] \div 2^(7 - ((i - 1) % 8))) % 2
           flipped(word, b) == IF (word \div b) % 2 = 0 THEN word + b ELSE word - b
           step(last, i) ==
             IF last \div 32768 = bit(i) THEN (2 * last) % 65536
             ELSE flipped(flipped((2 * last) % 65536, 4096), 32) + 1
           IsCrc(g, m) == g = [i \in 0..m |-> IF i = 0 THEN 7439 ELSE step(g[i - 1], i)]
           end == 8 * Len(bytes)
           c == CHOOSE g : IsCrc(g, end)
<1>1. Crc16(bytes) = c[end]
  BY DEF Crc16
<1>2. end \in Nat
  OBVIOUS
<1>3. ASSUME NEW w, NEW i, Word(w) PROVE Word(step(w, i))
  <2> DEFINE even == (2 * w) % 65536
             u == flipped(even, 4096)
             v == flipped(u, 32)
  <2>1. EvenWord(even)
    BY <1>3, Doubled
  <2> HIDE DEF even
  <2>2. EvenWord(u)
    BY <2>1, Flipped
  <2> HIDE DEF u
  <2>3. EvenWord(v)
    BY <2>2, Flipped
  <2> HIDE DEF v, bit, flipped
  <2>4. Word(v + 1)
    <3>1. \A n \in Nat : n < 65536 /\ n % 2 = 0 => n + 1 < 65536
      BY SMTT(20)
    <3> QED BY <2>3, <3>1 DEF Word, EvenWord
  <2>5. step(w, i) = IF w \div 32768 = bit(i) THEN even ELSE v + 1
    BY DEF even, u, v
  <2>6. Word(even)
    BY <2>1 DEF EvenWord
  <2> HIDE DEF step
  <2> QED BY <2>4, <2>5, <2>6
<1> HIDE DEF step, end
<1>4. \A m \in Nat : \E g : IsCrc(g, m)
  <2> DEFINE D == {m \in Nat : \E g : IsCrc(g, m)}
  <2>1. 0 \in D
    <3>1. IsCrc([i \in 0..0 |-> 7439], 0)
      OBVIOUS
    <3> HIDE DEF IsCrc
    <3>2. \E g : IsCrc(g, 0)
      BY <3>1
    <3> QED BY <3>2
  <2>2. ASSUME NEW m \in Nat, m \in D PROVE m + 1 \in D
    <3>1. PICK g : IsCrc(g, m)
      BY <2>2
    <3> DEFINE h == [i \in 0..m + 1 |-> IF i = m + 1 THEN step(g[m], m + 1) ELSE g[i]]
    <3>2. \A i \in 0..m : g[i] = IF i = 0 THEN 7439 ELSE step(g[i - 1], i)
      BY <3>1
    <3>3. \A i \in 0..m + 1 : h[i] = IF i = 0 THEN 7439 ELSE step(h[i - 1], i)
      BY <3>2
    <3>4. IsCrc(h, m + 1)
      <4>1. h = [i \in 0..m + 1 |-> h[i]]
        OBVIOUS
      <4> HIDE DEF h
      <4> QED BY <3>3, <4>1
    <3> HIDE DEF h, IsCrc
    <3>5. \E x : IsCrc(x, m + 1)
      BY <3>4
    <3> QED BY <3>5
  <2> HIDE DEF D
  <2>3. Nat \subseteq D
    BY <2>1, <2>2, UpFromZero
  <2> HIDE DEF IsCrc
  <2> QED BY <2>3 DEF D
<1>5. IsCrc(c, end)
  <2> HIDE DEF IsCrc
  <2>1. PICK g : IsCrc(g, end)
    BY <1>2, <1>4
  <2> QED BY <2>1
<1> HIDE DEF c
<1>6. \A i \in 0..end : c[i] = IF i = 0 THEN 7439 ELSE step(c[i - 1], i)
  <2> DEFINE f(i) == IF i = 0 THEN 7439 ELSE step(c[i - 1], i)
  <2>1. c = [i \in 0..end |-> f(i)]
    BY <1>5
  <2> HIDE DEF f, IsCrc
  <2>2. \A i \in 0..end : c[i] = f(i)
    BY <2>1
  <2> QED BY <2>2 DEF f
<1> DEFINE W == {m \in Nat : m <= end => Word(c[m])}
<1>7. 0 \in W
  <2>1. c[0] = 7439
    BY <1>2, <1>6
  <2>2. Word(7439)
    BY DEF Word
  <2> QED BY <2>1, <2>2
<1>8. ASSUME NEW m \in Nat, m \in W PROVE m + 1 \in W
  <2> SUFFICES ASSUME m + 1 <= end PROVE Word(c[m + 1])
    OBVIOUS
  <2>1. Word(c[m])
    BY <1>2, <1>8
  <2>2. c[m + 1] = step(c[m], m + 1)
    BY <1>2, <1>6
  <2> QED BY <1>3, <2>1, <2>2
<1> HIDE DEF W
<1>9. Nat \subseteq W
  BY <1>7, <1>8, UpFromZero
<1>10. end \in W
  BY <1>2, <1>9
<1> QED BY <1>1, <1>2, <1>10 DEF W

\* Its two bytes are bytes.
LEMMA CheckIsBytes ==
  ASSUME NEW bytes, Len(bytes) \in Nat
  PROVE  Check(bytes) \in Seq(0..255)
<1>1. \A w \in Nat : w < 65536 => (w \div 256) \in 0..255 /\ (w % 256) \in 0..255
  BY SMTT(20)
<1> DEFINE crc == Crc16(bytes)
<1>2. crc \in Nat /\ crc < 65536
  BY CrcIsWord DEF Word
<1> HIDE DEF crc
<1>3. (crc \div 256) \in 0..255 /\ (crc % 256) \in 0..255
  BY <1>1, <1>2
<1>4. <<crc \div 256, crc % 256>> \in Seq(0..255)
  BY <1>3
<1> QED BY <1>4 DEF Check, crc

\* So what is sealed is a string of bytes if what it is made of is.
LEMMA SealedIsBytes ==
  ASSUME NEW h \in Seq(0..255)
  PROVE  Sealed(h) \in Seq(0..255)
<1> DEFINE c == Check(h)
<1>1. c \in Seq(0..255)
  BY CheckIsBytes
<1> HIDE DEF c
<1>2. h \o c \in Seq(0..255)
  BY <1>1
<1> QED BY <1>2 DEF Sealed, c

-----------------------------------------------------------------------------
(* Replays. *)

\* What is known of a string of bytes.
LEMMA OfBytes ==
  \A q \in Seq(0..255) : /\ Len(q) \in Nat
                         /\ DOMAIN q = 1..Len(q)
                         /\ \A i \in 1..Len(q) : q[i] \in 0..255
<1> SUFFICES ASSUME NEW q \in Seq(0..255)
    PROVE /\ Len(q) \in Nat
          /\ DOMAIN q = 1..Len(q)
          /\ \A i \in 1..Len(q) : q[i] \in 0..255
  OBVIOUS
<1>1. Len(q) \in Nat /\ DOMAIN q = 1..Len(q)
  BY LenProperties
<1>2. \A i \in 1..Len(q) : q[i] \in 0..255
  BY ElementOfSeq
<1> QED BY <1>1, <1>2

\* Strings that agree on a range have the same bytes in it.
LEMMA SamePart ==
  ASSUME NEW q \in Seq(0..255), NEW r \in Seq(0..255), Len(q) = Len(r),
         NEW m \in Nat \ {0}, NEW n \in Int, n <= Len(q),
         \A i \in m..n : q[i] = r[i]
  PROVE  SubSeq(q, m, n) = SubSeq(r, m, n)
BY SMTT(30)

\* A string that stands in another one is cut out of it again.
LEMMA Embedded ==
  ASSUME NEW S, NEW q \in Seq(S), NEW r \in Seq(S), NEW m \in Nat, m + Len(r) <= Len(q),
         \A i \in 1..Len(r) : q[m + i] = r[i]
  PROVE  SubSeq(q, m + 1, m + Len(r)) = r
<1> DEFINE part == SubSeq(q, m + 1, m + Len(r))
<1>1. part \in Seq(S) /\ Len(part) = Len(r)
  BY DEF part
<1>2. \A i \in 1..Len(r) : part[i] = q[m + i]
  BY DEF part
<1> HIDE DEF part
<1>3. part = r
  BY <1>1, <1>2
<1> QED BY <1>3 DEF part

\* The same of four bytes and a slice.
LEMMA Sliced ==
  ASSUME NEW S, NEW q \in Seq(S), NEW r \in Seq(S), NEW m \in Nat, m + 4 <= Len(q),
         Len(r) = 4, \A i \in 1..4 : q[m + i] = r[i]
  PROVE  Slice(q, m, m + 4) = r
<1>1. SubSeq(q, m + 1, m + Len(r)) = r
  BY Embedded
<1>2. (IF m + 4 < Len(q) THEN m + 4 ELSE Len(q)) = m + Len(r)
  OBVIOUS
<1> QED BY <1>1, <1>2, Zenon DEF Slice

\* Replaying rewrites the four bytes of the stamp, if there is room for it.
LEMMA ReplayShape ==
  ASSUME NEW raw \in Seq(0..255), NEW stamp \in Seq(0..255), Len(stamp) = 4, Brew(raw)
  PROVE  /\ Replay(raw, stamp) \in Seq(0..255)
         /\ Len(Replay(raw, stamp)) = Len(raw)
         /\ \A i \in 1..Len(raw) :
              i \notin FrameLength(raw) + 1..FrameLength(raw) + 4 => Replay(raw, stamp)[i] = raw[i]
         /\ Timed(raw) => \A i \in 1..4 : Replay(raw, stamp)[FrameLength(raw) + i] = stamp[i]
<1> DEFINE again == Replay(raw, stamp)
<1>1. /\ Len(raw) \in Nat /\ DOMAIN raw = 1..Len(raw)
      /\ \A i \in 1..Len(raw) : raw[i] \in 0..255
      /\ \A i \in 1..4 : stamp[i] \in 0..255
  BY OfBytes
<1>2. FrameLength(raw) \in Nat \ {0}
  <2>1. raw[2] \in 0..255
    <3>1. Len(raw) >= 8
      BY DEF Brew
    <3> QED BY <1>1, <3>1, SMT
  <2>2. \A n \in 0..255 : n + 1 \in Nat \ {0}
    OBVIOUS
  <2> QED BY <2>1, <2>2, Zenon DEF FrameLength
<1>3. DOMAIN again = 1..Len(raw)
  BY <1>1 DEF Replay
<1>4. \A i \in 1..Len(raw) :
        again[i] = IF Timed(raw) /\ i - FrameLength(raw) \in 1..4
                   THEN stamp[i - FrameLength(raw)] ELSE raw[i]
  BY <1>1 DEF Replay
<1>5. \A i \in 1..Len(raw) : again[i] \in 0..255
  BY <1>1, <1>4
<1>6. again = [i \in 1..Len(raw) |-> again[i]]
  BY <1>1 DEF Replay
<1>7. \A i \in 1..Len(raw) :
        i \notin FrameLength(raw) + 1..FrameLength(raw) + 4 => again[i] = raw[i]
  BY <1>1, <1>2, <1>4
<1>8. ASSUME Timed(raw), NEW i \in 1..4 PROVE again[FrameLength(raw) + i] = stamp[i]
  <2>1. FrameLength(raw) + 4 <= Len(raw)
    BY <1>1, <1>2, <1>8 DEF Timed
  <2>2. FrameLength(raw) + i \in 1..Len(raw) /\ (FrameLength(raw) + i) - FrameLength(raw) = i
    BY <1>1, <1>2, <2>1
  <2> QED BY <1>4, <1>8, <2>2
<1> HIDE DEF again
<1>9. again \in Seq(0..255) /\ Len(again) = Len(raw)
  BY <1>1, <1>5, <1>6
<1> QED BY <1>7, <1>8, <1>9 DEF again

\* A drink's frame that is replayed keeps its length, its whole part through the
\* CRC and what stands behind the stamp: the machine, and whoever looks for a
\* signature, reads in it what they read in the frame that was learned.
THEOREM ReplayKeeps ==
  ASSUME NEW raw \in Seq(0..255), NEW stamp \in Seq(0..255), Len(stamp) = 4,
         Brew(raw), Structural(raw) # <<>>
  PROVE  /\ Replay(raw, stamp) \in Seq(0..255)
         /\ Decode(Replay(raw, stamp)) = Decode(raw)
         /\ SignatureIn(Replay(raw, stamp)) = SignatureIn(raw)
<1> DEFINE again == Replay(raw, stamp)
<1>1. /\ again \in Seq(0..255)
      /\ Len(again) = Len(raw)
      /\ \A i \in 1..Len(raw) : i \notin FrameLength(raw) + 1..FrameLength(raw) + 4 => again[i] = raw[i]
  BY ReplayShape
<1>2. FrameLength(raw) \in 8..Len(raw) /\ Len(raw) >= 8
  BY DEF Structural, Brew
<1> HIDE DEF again
<1>3. \A i \in 1..8 : again[i] = raw[i]
  BY <1>1, <1>2
<1>4. FrameLength(again) = FrameLength(raw)
  BY <1>2, <1>3 DEF FrameLength
<1>5. Brew(again)
  BY <1>1, <1>2, <1>3 DEF Brew
<1>6. Structural(again) = Structural(raw)
  <2>1. SubSeq(again, 1, FrameLength(raw)) = SubSeq(raw, 1, FrameLength(raw))
    BY <1>1, <1>2
  <2> QED BY <1>1, <1>2, <1>4, <1>5, <2>1 DEF Structural
<1>7. Decode(again) = Decode(raw)
  <2>1. Intact(again) = Intact(raw)
    BY <1>6 DEF Intact
  <2>2. again[5] = raw[5] /\ again[6] = raw[6]
    BY <1>3
  <2> QED BY <1>5, <1>6, <2>1, <2>2 DEF Decode
<1>8. SignatureIn(again) = SignatureIn(raw)
  <2>1. Slice(again, FrameLength(raw) + 4, FrameLength(raw) + 8)
          = Slice(raw, FrameLength(raw) + 4, FrameLength(raw) + 8)
    <3>1. \A j \in Int : j <= Len(raw) =>
            SubSeq(again, FrameLength(raw) + 5, j) = SubSeq(raw, FrameLength(raw) + 5, j)
      <4> SUFFICES ASSUME NEW j \in Int, j <= Len(raw)
          PROVE SubSeq(again, FrameLength(raw) + 5, j) = SubSeq(raw, FrameLength(raw) + 5, j)
        OBVIOUS
      <4>1. \A i \in FrameLength(raw) + 5..j : again[i] = raw[i]
        BY <1>1, <1>2
      <4>2. FrameLength(raw) + 5 \in Nat \ {0}
        BY <1>2
      <4> QED BY <1>1, <4>1, <4>2, SamePart
    <3> DEFINE j == IF FrameLength(raw) + 8 < Len(raw) THEN FrameLength(raw) + 8 ELSE Len(raw)
    <3>2. j \in Int /\ j <= Len(raw) /\ FrameLength(raw) + 4 + 1 = FrameLength(raw) + 5
      BY <1>2
    <3>3. /\ Slice(again, FrameLength(raw) + 4, FrameLength(raw) + 8)
               = SubSeq(again, FrameLength(raw) + 4 + 1, j)
          /\ Slice(raw, FrameLength(raw) + 4, FrameLength(raw) + 8)
               = SubSeq(raw, FrameLength(raw) + 4 + 1, j)
      BY <1>1, Zenon DEF Slice
    <3> HIDE DEF j
    <3> QED BY <3>1, <3>2, <3>3
  <2> QED BY <1>1, <1>4, <2>1 DEF SignatureIn
<1> QED BY <1>1, <1>7, <1>8 DEF again

\* What is written over the stamp is what is found there.
LEMMA ReplayStamps ==
  ASSUME NEW raw \in Seq(0..255), NEW stamp \in Seq(0..255), Len(stamp) = 4,
         Brew(raw), Structural(raw) # <<>>, Timed(Replay(raw, stamp))
  PROVE  Stamped(Replay(raw, stamp), stamp)
<1> DEFINE again == Replay(raw, stamp)
<1>1. /\ again \in Seq(0..255)
      /\ Len(again) = Len(raw)
      /\ \A i \in 1..Len(raw) : i \notin FrameLength(raw) + 1..FrameLength(raw) + 4 => again[i] = raw[i]
      /\ Timed(raw) => \A i \in 1..4 : again[FrameLength(raw) + i] = stamp[i]
  BY ReplayShape
<1>2. FrameLength(raw) \in 8..Len(raw) /\ Len(raw) >= 8
  BY DEF Structural, Brew
<1> HIDE DEF again
<1>3. \A i \in 1..8 : again[i] = raw[i]
  BY <1>1, <1>2
<1>4. FrameLength(again) = FrameLength(raw)
  BY <1>2, <1>3 DEF FrameLength
<1>5. Timed(raw) /\ FrameLength(raw) + 4 <= Len(raw)
  BY <1>1, <1>2, <1>4 DEF Timed, again
<1>6. FrameLength(raw) \in Nat /\ FrameLength(raw) + 4 <= Len(again)
      /\ \A i \in 1..4 : again[FrameLength(raw) + i] = stamp[i]
  BY <1>1, <1>2, <1>5
<1>7. Slice(again, FrameLength(raw), FrameLength(raw) + 4) = stamp
  BY <1>1, <1>6, Sliced, Zenon
<1> QED BY <1>4, <1>7, Zenon DEF again, Stamped

-----------------------------------------------------------------------------
(* What is built. *)

\* Where the parts of a frame are found that is sealed and followed by more.
LEMMA SealedParts ==
  ASSUME NEW S, NEW h \in Seq(S), NEW t \in Seq(S)
  PROVE  /\ Len(Sealed(h) \o t) = Len(h) + 2 + Len(t)
         /\ \A i \in 1..Len(h) : (Sealed(h) \o t)[i] = h[i]
         /\ \A i \in 1..Len(t) : (Sealed(h) \o t)[Len(h) + 2 + i] = t[i]
         /\ SubSeq(Sealed(h) \o t, 1, Len(h) + 2) = Sealed(h)
         /\ SubSeq(Sealed(h), 1, Len(h)) = h
         /\ Len(Sealed(h)) = Len(h) + 2
<1> DEFINE X == S \cup {Crc16(h) \div 256, Crc16(h) % 256}
           c == Check(h)
<1>1. c \in Seq(X) /\ Len(c) = 2
  BY DEF Check
<1>2. h \in Seq(X) /\ t \in Seq(X) /\ S \subseteq X
  OBVIOUS
<1> HIDE DEF c, X
<1>3. Sealed(h) = h \o c
  BY DEF Sealed, c
<1>4. h \o c \in Seq(X) /\ Len(h \o c) = Len(h) + 2 /\ \A i \in 1..Len(h) : (h \o c)[i] = h[i]
  <2>1. /\ h \o c \in Seq(X)
        /\ Len(h \o c) = Len(h) + Len(c)
        /\ \A i \in 1..Len(h) + Len(c) : (h \o c)[i] = IF i <= Len(h) THEN h[i] ELSE c[i - Len(h)]
    BY <1>1, <1>2, ConcatProperties
  <2> QED BY <1>1, <1>2, <2>1
<1>5. SubSeq(h \o c, 1, Len(h)) = h
  BY <1>1, <1>2, <1>4
<1>6. /\ Len((h \o c) \o t) = Len(h) + 2 + Len(t)
      /\ \A i \in 1..Len(h) + 2 : ((h \o c) \o t)[i] = (h \o c)[i]
      /\ \A i \in 1..Len(t) : ((h \o c) \o t)[Len(h) + 2 + i] = t[i]
      /\ (h \o c) \o t \in Seq(X)
  <2> DEFINE s == h \o c
  <2>1. s \in Seq(X) /\ Len(s) = Len(h) + 2 /\ Len(h) \in Nat
    BY <1>2, <1>4
  <2> HIDE DEF s
  <2>2. /\ s \o t \in Seq(X) /\ Len(s \o t) = Len(s) + Len(t)
        /\ \A i \in 1..Len(s) + Len(t) : (s \o t)[i] = IF i <= Len(s) THEN s[i] ELSE t[i - Len(s)]
    BY <1>2, <2>1, ConcatProperties
  <2>3. \A i \in 1..Len(h) + 2 : (s \o t)[i] = s[i]
    BY <1>2, <2>1, <2>2
  <2>4. ASSUME NEW i \in 1..Len(t) PROVE (s \o t)[Len(h) + 2 + i] = t[i]
    <3> DEFINE at == Len(h) + 2 + i
    <3>1. at \in 1..Len(s) + Len(t) /\ ~(at <= Len(s)) /\ at - Len(s) = i
      BY <1>2, <2>1
    <3> HIDE DEF at
    <3>2. (s \o t)[at] = t[i]
      BY <2>2, <3>1
    <3> QED BY <3>2 DEF at
  <2> QED BY <2>1, <2>2, <2>3, <2>4 DEF s
<1>7. SubSeq((h \o c) \o t, 1, Len(h) + 2) = h \o c
  BY <1>4, <1>6
<1> QED BY <1>3, <1>4, <1>5, <1>6, <1>7

\* What follows.
LEMMA SealedRest ==
  ASSUME NEW S, NEW h \in Seq(S), NEW t \in Seq(S)
  PROVE  \A i \in 1..Len(t) : (Sealed(h) \o t)[Len(h) + 2 + i] = t[i]
BY SealedParts

\* It is a sequence, whatever a CRC is.
LEMMA SealedIsSeq ==
  ASSUME NEW S, NEW h \in Seq(S), NEW t \in Seq(S)
  PROVE  \E X : S \subseteq X /\ Sealed(h) \o t \in Seq(X)
<1> DEFINE X == S \cup {Crc16(h) \div 256, Crc16(h) % 256}
           c == Check(h)
<1>1. c \in Seq(X)
  BY DEF Check
<1>2. h \in Seq(X) /\ t \in Seq(X) /\ S \subseteq X
  OBVIOUS
<1> HIDE DEF c, X
<1>3. h \o c \in Seq(X)
  BY <1>1, <1>2
<1>4. (h \o c) \o t \in Seq(X)
  BY <1>2, <1>3
<1> QED BY <1>2, <1>4 DEF Sealed, c

\* A frame that is sealed is intact.
LEMMA SealedIntact ==
  ASSUME NEW S, NEW h \in Seq(S), NEW t \in Seq(S),
         Structural(Sealed(h) \o t) = SubSeq(Sealed(h) \o t, 1, Len(h) + 2)
  PROVE  Intact(Sealed(h) \o t)
<1>1. Structural(Sealed(h) \o t) = Sealed(h)
  BY SealedParts, Zenon
<1>2. Len(h) \in Nat
  OBVIOUS
<1>3. Len(Sealed(h)) - 2 = Len(h)
  BY <1>2, SealedParts
<1>4. SubSeq(Sealed(h), 1, Len(Sealed(h)) - 2) = h
  BY <1>3, SealedParts, Zenon
<1>5. Sealed(h) # <<>>
  <2>1. Len(Sealed(h)) # 0
    BY <1>2, SealedParts
  <2> QED BY <2>1
<1> QED BY <1>1, <1>4, <1>5, Zenon DEF Intact


\* Behind the CRC stand the time and, if there is one, the tail.
LEMMA FramedParts ==
  ASSUME NEW S, NEW h \in Seq(S), NEW stamp \in Seq(S), NEW tail \in Seq(S), Four(stamp)
  PROVE  /\ Len(Framed(h, stamp, tail)) = Len(h) + 6 + Len(tail)
         /\ \A i \in 1..Len(h) : Framed(h, stamp, tail)[i] = h[i]
         /\ Stands(stamp, Framed(h, stamp, tail), Len(h) + 2)
         /\ Stands(tail, Framed(h, stamp, tail), Len(h) + 6)
<1> DEFINE t == stamp \o tail
<1>1. t \in Seq(S)
  OBVIOUS
<1>2. /\ Len(t) = 4 + Len(tail)
      /\ \A i \in 1..4 : t[i] = stamp[i]
      /\ \A i \in 1..Len(tail) : t[4 + i] = tail[i]
  <2>1. /\ Len(stamp \o tail) = Len(stamp) + Len(tail)
        /\ \A i \in 1..Len(stamp) + Len(tail) :
             (stamp \o tail)[i] = IF i <= Len(stamp) THEN stamp[i] ELSE tail[i - Len(stamp)]
    BY ConcatProperties
  <2>2. Len(tail) \in Nat
    OBVIOUS
  <2> QED BY <2>1, <2>2 DEF Four
<1>3. Framed(h, stamp, tail) = Sealed(h) \o t
  BY Zenon DEF Framed
<1> HIDE DEF t
<1>4. Len(Sealed(h) \o t) = Len(h) + 2 + Len(t)
  BY <1>1, SealedParts
<1>5. \A i \in 1..Len(h) : (Sealed(h) \o t)[i] = h[i]
  BY <1>1, SealedParts, Zenon
<1>6. \A i \in 1..Len(t) : (Sealed(h) \o t)[Len(h) + 2 + i] = t[i]
  BY <1>1, SealedRest, Zenon
<1> DEFINE raw == Sealed(h) \o t
<1> HIDE DEF raw
<1>7. Len(h) \in Nat /\ Len(tail) \in Nat
  OBVIOUS
<1>8. \A i \in 1..Len(t) : raw[Len(h) + 2 + i] = t[i]
  BY <1>6, Zenon DEF raw
<1>9. \A i \in 1..4 : raw[Len(h) + 2 + i] = stamp[i]
  <2>1. \A i \in 1..4 : i \in 1..Len(t)
    BY <1>2, <1>7
  <2> QED BY <1>2, <1>8, <2>1, Zenon
<1>10. \A i \in 1..Len(tail) : raw[Len(h) + 6 + i] = tail[i]
  <2>1. \A i \in 1..Len(tail) : 4 + i \in 1..Len(t) /\ Len(h) + 6 + i = Len(h) + 2 + (4 + i)
    BY <1>2, <1>7
  <2> QED BY <1>2, <1>8, <2>1, Zenon
<1>11. Len(raw) = Len(h) + 6 + Len(tail)
  BY <1>2, <1>4, <1>7 DEF raw
<1>12. Stands(stamp, raw, Len(h) + 2)
  BY <1>9 DEF Stands, Four
<1>13. Stands(tail, raw, Len(h) + 6)
  BY <1>10, Zenon DEF Stands
<1> QED BY <1>3, <1>5, <1>11, <1>12, <1>13, Zenon DEF raw

\* The same, one by one.
LEMMA FramedLen ==
  ASSUME NEW S, NEW h \in Seq(S), NEW stamp \in Seq(S), NEW tail \in Seq(S), Four(stamp)
  PROVE  Len(Framed(h, stamp, tail)) = Len(h) + 6 + Len(tail)
BY FramedParts

\* The head.
LEMMA FramedHead ==
  ASSUME NEW S, NEW h \in Seq(S), NEW stamp \in Seq(S), NEW tail \in Seq(S), Four(stamp)
  PROVE  \A i \in 1..Len(h) : Framed(h, stamp, tail)[i] = h[i]
BY FramedParts

\* The time.
LEMMA FramedTime ==
  ASSUME NEW S, NEW h \in Seq(S), NEW stamp \in Seq(S), NEW tail \in Seq(S), Four(stamp)
  PROVE  Stands(stamp, Framed(h, stamp, tail), Len(h) + 2)
BY FramedParts

\* The tail.
LEMMA FramedTail ==
  ASSUME NEW S, NEW h \in Seq(S), NEW stamp \in Seq(S), NEW tail \in Seq(S), Four(stamp)
  PROVE  Stands(tail, Framed(h, stamp, tail), Len(h) + 6)
BY FramedParts

\* It is intact if its length byte fits.
LEMMA FramedIntact ==
  ASSUME NEW S, NEW h \in Seq(S), NEW stamp \in Seq(S), NEW tail \in Seq(S),
         Structural(Framed(h, stamp, tail)) = SubSeq(Framed(h, stamp, tail), 1, Len(h) + 2)
  PROVE  Intact(Framed(h, stamp, tail))
<1>1. stamp \o tail \in Seq(S)
  OBVIOUS
<1> QED BY <1>1, SealedIntact, Zenon DEF Framed

\* It is a sequence.
LEMMA FramedIsSeq ==
  ASSUME NEW S, NEW h \in Seq(S), NEW stamp \in Seq(S), NEW tail \in Seq(S)
  PROVE  \E X : S \subseteq X /\ Framed(h, stamp, tail) \in Seq(X)
<1>1. stamp \o tail \in Seq(S)
  OBVIOUS
<1> QED BY <1>1, SealedIsSeq, Zenon DEF Framed

\* Its time and its tail are found if its length byte fits.
LEMMA FramedSlices ==
  ASSUME NEW S, NEW h \in Seq(S), NEW stamp \in Seq(S), NEW tail \in Seq(S), Four(stamp),
         Fits(Framed(h, stamp, tail), h)
  PROVE  /\ Stamped(Framed(h, stamp, tail), stamp)
         /\ ~Four(tail) \/ SignatureIn(Framed(h, stamp, tail)) = tail
<1> DEFINE raw == Framed(h, stamp, tail)
           n == Len(h)
<1>1. /\ Len(raw) = n + 6 + Len(tail)
      /\ \A i \in 1..4 : raw[n + 2 + i] = stamp[i]
      /\ \A i \in 1..Len(tail) : raw[n + 6 + i] = tail[i]
  <2>1. Len(raw) = n + 6 + Len(tail)
    BY FramedLen, Zenon
  <2>2. Stands(stamp, raw, n + 2)
    BY FramedTime, Zenon
  <2>3. Stands(tail, raw, n + 6)
    BY FramedTail, Zenon
  <2> HIDE DEF raw, n
  <2> QED BY <2>1, <2>2, <2>3 DEF Stands, Four
<1>2. PICK X : S \subseteq X /\ raw \in Seq(X)
  BY FramedIsSeq, Zenon
<1>3. FrameLength(raw) = n + 2
  BY DEF Fits
<1>4. n \in Nat /\ Len(tail) \in Nat /\ stamp \in Seq(X) /\ tail \in Seq(X) /\ Len(stamp) = 4
  BY <1>2 DEF Four
<1> HIDE DEF raw, n
<1>5. Slice(raw, n + 2, n + 6) = stamp
  <2> DEFINE m == n + 2
  <2>1. m \in Nat /\ m + 4 <= Len(raw) /\ m + 4 = n + 6
    BY <1>1, <1>4
  <2>2. \A i \in 1..4 : raw[m + i] = stamp[i]
    BY <1>1, Zenon
  <2> HIDE DEF m
  <2>3. Slice(raw, m, m + 4) = stamp
    BY <1>2, <1>4, <2>1, <2>2, Sliced, Zenon
  <2> QED BY <2>1, <2>3, Zenon DEF m
<1>6. ASSUME Four(tail) PROVE SignatureIn(raw) = tail
  <2> DEFINE m == n + 6
  <2>1. m \in Nat /\ m + 4 <= Len(raw) /\ m = FrameLength(raw) + 4
        /\ m + 4 = FrameLength(raw) + 8 /\ ~(Len(raw) < 2)
    BY <1>1, <1>3, <1>4, <1>6 DEF Four
  <2>2. \A i \in 1..4 : raw[m + i] = tail[i]
    <3>1. Len(tail) = 4
      BY <1>6 DEF Four
    <3> QED BY <1>1, <3>1, Zenon
  <2> HIDE DEF m
  <2>3. Slice(raw, m, m + 4) = tail
    BY <1>2, <1>4, <1>6, <2>1, <2>2, Sliced DEF Four
  <2>4. Slice(raw, FrameLength(raw) + 4, FrameLength(raw) + 8) = tail
    BY <2>1, <2>3, Zenon
  <2> QED BY <1>6, <2>1, <2>4 DEF SignatureIn, Four
<1>7. Stamped(raw, stamp)
  <2>1. FrameLength(raw) + 4 = n + 6
    BY <1>3, <1>4
  <2> QED BY <1>3, <1>5, <2>1, Zenon DEF Stamped
<1> QED BY <1>6, <1>7 DEF raw

\* The frame built for a drink is read as that drink.
LEMMA BuiltDrink ==
  ASSUME NEW id, NEW action, NEW stamp \in Seq(0..255), Four(stamp)
  PROVE  /\ Intact(BeverageFrame(id, action, stamp))
         /\ Decode(BeverageFrame(id, action, stamp)).type = "beverage"
         /\ Decode(BeverageFrame(id, action, stamp)).params = <<id, action>>
         /\ Stamped(BeverageFrame(id, action, stamp), stamp)
<1> DEFINE S == 0..255 \cup {id, action}
           h == <<13, 13, 131, 240, id, action, 15, 0, 250, 27, 1, 6>>
           e == <<>>
           raw == Framed(h, stamp, e)
<1>1. BeverageFrame(id, action, stamp) = raw
  BY Zenon DEF BeverageFrame
<1>2. h \in Seq(S) /\ stamp \in Seq(S) /\ e \in Seq(S)
  OBVIOUS
<1>3. Len(h) = 12 /\ h[2] = 13 /\ h[3] = 131 /\ h[4] = 240 /\ h[5] = id /\ h[6] = action
      /\ Len(e) = 0
  OBVIOUS
<1> HIDE DEF h, S, e
<1>4. Len(raw) = Len(h) + 6 + Len(e) /\ \A i \in 1..Len(h) : raw[i] = h[i]
  <2>1. Len(raw) = Len(h) + 6 + Len(e)
    BY <1>2, FramedLen, Zenon
  <2>2. \A i \in 1..Len(h) : raw[i] = h[i]
    BY <1>2, FramedHead, ZenonT(40)
  <2> QED BY <2>1, <2>2
<1>5. Structural(raw) = SubSeq(raw, 1, Len(h) + 2) => Intact(raw)
  BY <1>2, FramedIntact, Zenon
<1>6. Fits(raw, h) => Stamped(raw, stamp)
  BY <1>2, FramedSlices
<1> HIDE DEF raw
<1>7. /\ Len(raw) = 18
      /\ raw[2] = 13 /\ raw[3] = 131 /\ raw[4] = 240 /\ raw[5] = id /\ raw[6] = action
  BY <1>3, <1>4 DEF Four
<1>8. FrameLength(raw) = 14 /\ Brew(raw)
  BY <1>7 DEF FrameLength, Brew
<1>9. Structural(raw) = SubSeq(raw, 1, Len(h) + 2)
  BY <1>3, <1>7, <1>8 DEF Structural
<1>10. Decode(raw).type = "beverage" /\ Decode(raw).params = <<id, action>>
  BY <1>7, <1>8, Zenon DEF Decode
<1>11. Stamped(raw, stamp)
  BY <1>3, <1>6, <1>8 DEF Fits
<1> QED BY <1>1, <1>5, <1>8, <1>9, <1>10, <1>11, Zenon

\* So is the frame for power, and what it names as a session is the tail it was
\* given.
LEMMA BuiltPower ==
  ASSUME NEW params, NEW stamp \in Seq(0..255), Four(stamp),
         NEW tail \in Seq(0..255), Four(tail)
  PROVE  /\ Intact(PowerFrame(params, stamp, tail))
         /\ Decode(PowerFrame(params, stamp, tail)).type = "power"
         /\ Decode(PowerFrame(params, stamp, tail)).params = <<params[1], params[2]>>
         /\ Stamped(PowerFrame(params, stamp, tail), stamp)
         /\ SignatureIn(PowerFrame(params, stamp, tail)) = tail
<1> DEFINE S == 0..255 \cup {params[1], params[2]}
           h == <<13, 7, 132, 15, params[1], params[2]>>
           raw == Framed(h, stamp, tail)
<1>1. PowerFrame(params, stamp, tail) = raw
  BY Zenon DEF PowerFrame
<1>2. h \in Seq(S) /\ stamp \in Seq(S) /\ tail \in Seq(S)
  OBVIOUS
<1>3. Len(h) = 6 /\ h[2] = 7 /\ h[3] = 132 /\ h[4] = 15 /\ h[5] = params[1] /\ h[6] = params[2]
  OBVIOUS
<1> HIDE DEF h, S
<1>4. Len(raw) = Len(h) + 6 + Len(tail) /\ \A i \in 1..Len(h) : raw[i] = h[i]
  <2>1. Len(raw) = Len(h) + 6 + Len(tail)
    BY <1>2, FramedLen, Zenon
  <2>2. \A i \in 1..Len(h) : raw[i] = h[i]
    BY <1>2, FramedHead, ZenonT(40)
  <2> QED BY <2>1, <2>2
<1>5. Structural(raw) = SubSeq(raw, 1, Len(h) + 2) => Intact(raw)
  BY <1>2, FramedIntact, Zenon
<1>6. Fits(raw, h) =>
        Stamped(raw, stamp) /\ SignatureIn(raw) = tail
  <2>1. ASSUME Fits(raw, h) PROVE Stamped(raw, stamp)
    BY <1>2, <2>1, FramedSlices, Zenon
  <2>2. ASSUME Fits(raw, h) PROVE SignatureIn(raw) = tail
    BY <1>2, <2>2, FramedSlices, Zenon
  <2> QED BY <2>1, <2>2
<1> HIDE DEF raw
<1>7. /\ Len(raw) = 16
      /\ raw[2] = 7 /\ raw[3] = 132 /\ raw[4] = 15 /\ raw[5] = params[1] /\ raw[6] = params[2]
  BY <1>3, <1>4 DEF Four
<1>8. FrameLength(raw) = 8 /\ ~Brew(raw) /\ Power(raw)
  BY <1>7 DEF FrameLength, Brew, Power
<1>9. Structural(raw) = SubSeq(raw, 1, Len(h) + 2)
  BY <1>3, <1>8 DEF Structural
<1>10. Decode(raw).type = "power" /\ Decode(raw).params = <<params[1], params[2]>>
  BY <1>7, <1>8, Zenon DEF Decode
<1>11. Stamped(raw, stamp) /\ SignatureIn(raw) = tail
  BY <1>3, <1>6, <1>8 DEF Fits
<1> QED BY <1>1, <1>5, <1>8, <1>9, <1>10, <1>11, Zenon

\* And the frame for a profile.
LEMMA BuiltProfile ==
  ASSUME NEW profile, NEW stamp \in Seq(0..255), Four(stamp),
         NEW tail \in Seq(0..255), Four(tail)
  PROVE  /\ Intact(ProfileFrame(profile, stamp, tail))
         /\ Decode(ProfileFrame(profile, stamp, tail)).type = "profile"
         /\ Decode(ProfileFrame(profile, stamp, tail)).params = <<profile>>
         /\ Stamped(ProfileFrame(profile, stamp, tail), stamp)
         /\ SignatureIn(ProfileFrame(profile, stamp, tail)) = tail
<1> DEFINE S == 0..255 \cup {profile}
           h == <<13, 6, 169, 240, profile>>
           raw == Framed(h, stamp, tail)
<1>1. ProfileFrame(profile, stamp, tail) = raw
  BY Zenon DEF ProfileFrame
<1>2. h \in Seq(S) /\ stamp \in Seq(S) /\ tail \in Seq(S)
  OBVIOUS
<1>3. Len(h) = 5 /\ h[1] = 13 /\ h[2] = 6 /\ h[3] = 169 /\ h[4] = 240 /\ h[5] = profile
  OBVIOUS
<1> HIDE DEF h, S
<1>4. Len(raw) = Len(h) + 6 + Len(tail) /\ \A i \in 1..Len(h) : raw[i] = h[i]
  <2>1. Len(raw) = Len(h) + 6 + Len(tail)
    BY <1>2, FramedLen, Zenon
  <2>2. \A i \in 1..Len(h) : raw[i] = h[i]
    BY <1>2, FramedHead, ZenonT(40)
  <2> QED BY <2>1, <2>2
<1>5. Structural(raw) = SubSeq(raw, 1, Len(h) + 2) => Intact(raw)
  BY <1>2, FramedIntact, Zenon
<1>6. Fits(raw, h) =>
        Stamped(raw, stamp) /\ SignatureIn(raw) = tail
  <2>1. ASSUME Fits(raw, h) PROVE Stamped(raw, stamp)
    BY <1>2, <2>1, FramedSlices, Zenon
  <2>2. ASSUME Fits(raw, h) PROVE SignatureIn(raw) = tail
    BY <1>2, <2>2, FramedSlices, Zenon
  <2> QED BY <2>1, <2>2
<1> HIDE DEF raw
<1>7. /\ Len(raw) = 15
      /\ raw[1] = 13 /\ raw[2] = 6 /\ raw[3] = 169 /\ raw[4] = 240 /\ raw[5] = profile
  BY <1>3, <1>4 DEF Four
<1>8. FrameLength(raw) = 7 /\ ~Brew(raw) /\ ~Power(raw) /\ Profile(raw)
  BY <1>7 DEF FrameLength, Brew, Power, Profile
<1>9. Structural(raw) = SubSeq(raw, 1, Len(h) + 2)
  BY <1>3, <1>8 DEF Structural
<1>10. Decode(raw).type = "profile" /\ Decode(raw).params = <<profile>>
  BY <1>7, <1>8, Zenon DEF Decode
<1>11. Stamped(raw, stamp) /\ SignatureIn(raw) = tail
  BY <1>3, <1>6, <1>8 DEF Fits
<1> QED BY <1>1, <1>5, <1>8, <1>9, <1>10, <1>11, Zenon
=============================================================================
