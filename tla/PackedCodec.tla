---------------------------- MODULE PackedCodec ----------------------------
(***************************************************************************)
(* The COMP-3 codec of cobol-packed as its batch commands use it: decode   *)
(* the bytes of one field, keep the sign nibble, and rebuild the bytes     *)
(* from the decoded value to verify them.  A byte is a number in 0..255.   *)
(*                                                                         *)
(* A field's shape is a record [digits, signed, mode]; mode is the sign    *)
(* mode "pfd" or "nopfd".  The scale is left out: decoding sets it to the  *)
(* field's own scale and rebuilding finds it there, so nothing is scaled.  *)
(***************************************************************************)
EXTENDS Integers, Sequences, SequencesExt

ExpectedLen(digits) == digits \div 2 + 1

\* The nibbles of a byte slice, the high one of each byte first.
Nibbles(bytes) ==
  [i \in 1 .. 2 * Len(bytes) |->
     LET byte == bytes[(i + 1) \div 2]
     IN  IF i % 2 = 1 THEN byte \div 16 ELSE byte % 16]

\* A field with an even number of digits starts with a nibble of padding.
Pad(shape) == IF shape.digits % 2 = 0 THEN <<0>> ELSE <<>>

DigitNibbles(bytes, shape) ==
  SubSeq(Nibbles(bytes), Len(Pad(shape)) + 1, Len(Pad(shape)) + shape.digits)

SignNibble(bytes) == bytes[Len(bytes)] % 16

\* The sign nibbles each mode reads; a negative one needs a signed field.
Positive(shape) ==
  IF shape.mode = "pfd"
    THEN IF shape.signed THEN {12} ELSE {12, 15}
    ELSE {10, 12, 14, 15}

Negative(shape) ==
  IF ~shape.signed THEN {}
  ELSE IF shape.mode = "pfd" THEN {13} ELSE {11, 13}

\* The number so far, one digit after the other.
ValueOf(digits) ==
  LET accum[i \in 0 .. Len(digits)] ==
        IF i = 0 THEN 0 ELSE accum[i - 1] * 10 + digits[i]
  IN  accum[Len(digits)]

Signed(n, sign, shape) == IF sign \in Negative(shape) THEN -n ELSE n

\* The outcome of decoding: an error code, or the value and its sign.
Outcome(bytes, shape, digits, sign) ==
  LET error(code) == [ok |-> FALSE, code |-> code]
  IN  IF Pad(shape) # <<>> /\ bytes[1] \div 16 # 0 THEN error("E_PADDING")
      ELSE IF \E i \in DOMAIN digits : digits[i] > 9 THEN error("E_DIGIT")
      ELSE IF sign \notin Positive(shape) \cup Negative(shape)
        THEN error("E_SIGN")
      ELSE [ok |-> TRUE, sign |-> sign,
            value |-> Signed(ValueOf(digits), sign, shape)]

DecodePacked(bytes, shape) ==
  IF Len(bytes) # ExpectedLen(shape.digits)
    THEN [ok |-> FALSE, code |-> "E_LENGTH"]
    ELSE Outcome(bytes, shape, DigitNibbles(bytes, shape), SignNibble(bytes))

Pow10(exp) ==
  LET power[k \in 0 .. exp] == IF k = 0 THEN 1 ELSE 10 * power[k - 1]
  IN  power[exp]

Magnitude(n) == IF n < 0 THEN -n ELSE n

\* Mutant: zero is positive.
SignFits_ByValue(sign, shape, value) ==
  IF value < 0 THEN shape.signed /\ sign \in {11, 13}
               ELSE sign \in {10, 12, 14, 15}

\* Whether a sign nibble may be written for a value.  Zero may carry any
\* sign in a signed field.
SignFits(sign, shape, value) ==
  IF value < 0
    THEN shape.signed /\ sign \in {11, 13}
    ELSE \/ sign \in {10, 12, 14, 15}
         \/ shape.signed /\ value = 0 /\ sign \in 10 .. 15

\* The digits of a number, the lowest dropped first: what does not fit in
\* the width is lost.
DigitsOf(n, width) ==
  LET left[k \in 0 .. width] == IF k = 0 THEN n ELSE left[k - 1] \div 10
  IN  [i \in 1 .. width |-> left[width - i] % 10]

InBytes(nibbles) ==
  [i \in 1 .. Len(nibbles) \div 2 |->
     16 * nibbles[2 * i - 1] + nibbles[2 * i]]

Packed(n, sign, shape) ==
  InBytes(Pad(shape) \o DigitsOf(n, shape.digits) \o <<sign>>)

\* The value is encoded again with the sign nibble that was read.
Rebuilt(loss, shape) ==
  IF /\ Magnitude(loss.value) < Pow10(shape.digits)
     /\ loss.value < 0 => shape.signed
     /\ SignFits(loss.sign, shape, loss.value)
    THEN Packed(Magnitude(loss.value), loss.sign, shape)
    ELSE <<>>

Verified(bytes, loss, shape) == loss.ok /\ Rebuilt(loss, shape) = bytes

\* What batch verify asks of a field that decoded.
VerifyPacked(bytes, shape) ==
  Verified(bytes, DecodePacked(bytes, shape), shape)
=============================================================================
