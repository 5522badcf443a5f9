------------------------------- MODULE MCBytes ------------------------------
(***************************************************************************)
(* Every string of bytes up to a length, given to the parsers.             *)
(***************************************************************************)
EXTENDS Blobs, Frames

CONSTANTS Bytes, MaxLength, Stamp

\* Every byte is a digit of an id, a length fits the length byte of a frame, and
\* a time is four bytes.
ASSUME BytesAssumption ==
  /\ Bytes \subseteq 0..Base - 1
  /\ MaxLength \in 0..248
  /\ Stamp \in Seq(0..255) /\ Len(Stamp) = 4

\* No signature is none, and nothing that is understood is nothing.
ASSUME NothingAssumption ==
  /\ NoFrame \notin [1..4 -> 0..255]
  /\ \A tags \in SUBSET Bytes, k \in {1, 3} : None \notin [tags -> [1..k -> Nat]]

TheStamp == <<9, 9, 9, 9>>

VARIABLE input
vars == <<input>>

Init == input = <<>>
Next == Len(input) < MaxLength /\ \E b \in Bytes : input' = Append(input, b)
Spec == Init /\ [][Next]_vars

-----------------------------------------------------------------------------

\* A payload is understood exactly if the grammar of tags and widths cuts it
\* to its last byte; then each tag has the values of the last field it begins.
\* Values and triples are walked alike.
WalkExact ==
  \A k \in {1, 3} :
    LET fits == {cuts \in SUBSET (1..Len(input) + 1) : IsCut(input, k, cuts)}
        params == Walk(input, k)
    IN IF params = None THEN fits = {}
       ELSE \E cuts \in fits :
         LET starts(t) == {i \in cuts \ {Len(input) + 1} : input[i] = t}
         IN /\ DOMAIN params = {input[i] : i \in cuts \ {Len(input) + 1}}
            /\ \A t \in DOMAIN params, n \in 1..k :
                 LET w == IF t \in {1, 9, 15} THEN 2 ELSE 1
                     at == Latest(starts(t)) + 1 + (n - 1) * w
                 IN params[t][n] = IF w = 1 THEN input[at]
                                   ELSE 256 * input[at] + input[at + 1]

\* The frame of a drink with any recipe and anything behind its CRC is read
\* the same, signature and all, after its stamp has been renewed, and it is
\* renewed in nothing but the stamp; a frame with no room for one is kept.
ReplayFaithful ==
  \A n \in 0..Len(input) :
    LET rest == SubSeq(input, n + 1, Len(input))
        frame == AppFrame(2, 3, SubSeq(input, 1, n), rest)
        again == Replay(frame, Stamp)
    IN /\ Intact(frame)
       /\ Decode(again) = Decode(frame)
       /\ SignatureIn(again) = SignatureIn(frame)
       /\ again = AppFrame(2, 3, SubSeq(input, 1, n),
                           IF Len(rest) < 4 THEN rest
                           ELSE Stamp \o SubSeq(rest, 5, Len(rest)))

\* A session id survives its ways round: read from a signature, written to a
\* tail, reported by the machine as a signed or an unsigned number, it is the
\* same id, and no signature of a session is taken for the free one.
IdsAgree ==
  \A n \in 0..Len(input) - 4 :
    LET signature == SubSeq(input, n + 1, n + 4)
        id == IdOf(signature)
    IN signature # <<0, 0, 0, 0>> =>
         /\ id # 0
         /\ TailOf(id) = signature
         /\ Normalize(id) = id
         /\ Normalize(id + Modulus) = id
=============================================================================
