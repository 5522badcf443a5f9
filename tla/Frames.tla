------------------------------- MODULE Frames -------------------------------
(***************************************************************************)
(* The command frames of command_builder.py as sequences of bytes, and the *)
(* ids of cloud sessions, which travel as signed integers in app_id and as *)
(* four digits in the tail of a frame.                                     *)
(*                                                                         *)
(* A frame is a start byte, the number of bytes that follow it up to the   *)
(* CRC, a family, a body, the CRC, and behind that four bytes of time and  *)
(* perhaps four of signature.  Digits count to Base, which is 256 in the   *)
(* code.                                                                   *)
(***************************************************************************)
EXTENDS Integers, Sequences

CONSTANTS
  Base,      \* of the digits of an id
  NoFrame    \* no frame, signature or id

\* Runs take a smaller base: TLC has no integers of 32 unsigned bits.
ASSUME BaseAssumption == Base \in {4, 16, 256}

-----------------------------------------------------------------------------
(* Session ids. *)

Modulus == Base * Base * Base * Base
Half == Modulus \div 2

\* normalize_signed_app_id.
Normalize(id) == (((id % Modulus) + Half) % Modulus) - Half

Digits(n) == <<(n \div (Base * Base * Base)) % Base, (n \div (Base * Base)) % Base,
               (n \div Base) % Base, n % Base>>

\* _session_id_to_tail_bytes, and integration_app_id_to_bytes in a POST.
TailOf(id) == Digits(Normalize(id))

Signed(digit) == IF digit >= Base \div 2 THEN digit - Base ELSE digit

\* Mutant of IdOf: the id is read as unsigned.
UnsignedId(signature) ==
  IF signature = NoFrame \/ signature = <<0, 0, 0, 0>> THEN NoFrame
  ELSE ((signature[1] * Base + signature[2]) * Base + signature[3]) * Base + signature[4]

\* app_id_from_signature: zero means that nobody holds the session.
IdOf(signature) ==
  IF signature = NoFrame \/ signature = <<0, 0, 0, 0>> THEN NoFrame
  ELSE ((Signed(signature[1]) * Base + signature[2]) * Base + signature[3]) * Base
       + signature[4]

-----------------------------------------------------------------------------
(* Bytes. *)

\* crc16_aug_ccitt, one bit after another: a bit that differs from the one
\* shifted out flips bits 0, 5 and 12.
Crc16(bytes) ==
  LET bit(i) == (bytes[((i - 1) \div 8) + 1] \div 2^(7 - ((i - 1) % 8))) % 2
      flipped(word, b) == IF (word \div b) % 2 = 0 THEN word + b ELSE word - b
      crc[i \in 0..8 * Len(bytes)] ==
        IF i = 0 THEN 7439
        ELSE LET last == crc[i - 1]
                 shifted == (2 * last) % 65536
             IN IF last \div 32768 = bit(i) THEN shifted
                ELSE flipped(flipped(shifted, 4096), 32) + 1
  IN crc[8 * Len(bytes)]

Check(bytes) == <<Crc16(bytes) \div 256, Crc16(bytes) % 256>>

\* raw[i:j]: what there is of it.
Slice(raw, i, j) == SubSeq(raw, i + 1, IF j < Len(raw) THEN j ELSE Len(raw))

\* How many bytes a frame says it has, through its CRC.
FrameLength(raw) == raw[2] + 1

-----------------------------------------------------------------------------
(* Building. *)

Wake == <<2, 1>>
Standby == <<1, 1>>
Refresh == <<3, 2>>

Sealed(bytes) == bytes \o Check(bytes)

\* The time, and perhaps an id, stand behind what is sealed.
Framed(head, stamp, tail) == Sealed(head) \o (stamp \o tail)

\* build_beverage_command with DEFAULT_RECIPE_PARAMS.
BeverageFrame(id, action, stamp) ==
  Framed(<<13, 13, 131, 240, id, action, 15, 0, 250, 27, 1, 6>>, stamp, <<>>)

\* build_power_command: what follows the stamp is the session's id.
PowerFrame(params, stamp, tail) ==
  Framed(<<13, 7, 132, 15, params[1], params[2]>>, stamp, tail)

\* build_profile_command.
ProfileFrame(profile, stamp, tail) ==
  Framed(<<13, 6, 169, 240, profile>>, stamp, tail)

\* The official app's command for a drink: any recipe, and what it appends.
AppFrame(id, action, recipe, rest) ==
  Sealed(<<13, 7 + Len(recipe), 131, 240, id, action>> \o recipe) \o rest

-----------------------------------------------------------------------------
(* Reading. *)

Brew(raw) == Len(raw) >= 8 /\ raw[3] = 131 /\ raw[4] = 240
Power(raw) == Len(raw) >= 12 /\ raw[3] = 132 /\ raw[4] = 15
Profile(raw) == Len(raw) >= 7 /\ raw[1] = 13 /\ raw[3] = 169 /\ raw[4] = 240

\* The part of a frame that is compared and checked; none if the length byte
\* does not fit.
Structural(raw) ==
  IF Brew(raw) THEN IF FrameLength(raw) \in 8..Len(raw)
                    THEN SubSeq(raw, 1, FrameLength(raw)) ELSE <<>>
  ELSE IF Power(raw) THEN SubSeq(raw, 1, 8)
  ELSE IF Profile(raw) THEN SubSeq(raw, 1, 7)
  ELSE <<>>

\* crc_valid.
Intact(raw) ==
  LET body == Structural(raw)
  IN body # <<>> /\ body = Sealed(SubSeq(body, 1, Len(body) - 2))

\* decode_command, as far as anything but a display depends on it.
Decode(raw) ==
  [type |-> IF Brew(raw) THEN "beverage" ELSE IF Power(raw) THEN "power"
            ELSE IF Profile(raw) THEN "profile" ELSE "other",
   params |-> IF Brew(raw) THEN <<raw[5], raw[6]>>
              ELSE IF Power(raw) THEN <<raw[5], raw[6]>>
              ELSE IF Profile(raw) THEN <<raw[5]>> ELSE <<>>,
   crc_valid |-> Intact(raw),
   structural |-> Structural(raw)]

\* matches_integration: only a drink in the shape that the integration builds
\* is compared with what it would build.
OwnDrink(raw) ==
  /\ Brew(raw)
  /\ FrameLength(raw) = 14
  /\ Structural(raw) = SubSeq(BeverageFrame(raw[5], raw[6], <<>>), 1, 14)

\* learnable_beverage_id; known are built in or declared by the machine.
Learnable(raw, known) ==
  Brew(raw) /\ Intact(raw) /\ ~OwnDrink(raw) /\ raw[5] \in known

\* is_wake_power_frame.
PowersOn(raw) == Power(raw) /\ SubSeq(raw, 5, 6) = Wake

\* device_signature_from_frame.
SignatureIn(raw) ==
  IF Len(raw) < 2 THEN NoFrame
  ELSE LET found == Slice(raw, FrameLength(raw) + 4, FrameLength(raw) + 8)
       IN IF Len(found) = 4 THEN found ELSE NoFrame

-----------------------------------------------------------------------------
(* Replaying. *)

Timed(raw) == Len(raw) >= 2 /\ Len(raw) >= FrameLength(raw) + 4

\* Mutant of Replay: the stamp is written where the declared length ends.
ReplayEarly(raw, stamp) ==
  [i \in DOMAIN raw |-> IF Timed(raw) /\ i - raw[2] \in 1..4
                        THEN stamp[i - raw[2]] ELSE raw[i]]

\* replay_with_timestamp.
Replay(raw, stamp) ==
  [i \in DOMAIN raw |-> IF Timed(raw) /\ i - FrameLength(raw) \in 1..4
                        THEN stamp[i - FrameLength(raw)] ELSE raw[i]]
=============================================================================
