---------------------------- MODULE FieldEncoding ----------------------------
(***************************************************************************)
(* crates/common/src/json.rs: encode_field and decode_field.  A Rust       *)
(* string is its UTF-8 bytes; both functions go over the bytes and push    *)
(* each as a char of its own.                                              *)
(***************************************************************************)
EXTENDS Integers, Sequences, SequencesExt

Byte == 0..255

Percent == 37

(* % \n \r \t | *)
Escaped == {Percent, 10, 13, 9, 124}

Ascii(s) == \A i \in DOMAIN s : s[i] < 128

(* char::from(byte), as UTF-8: the code points above 127 take two bytes. *)
CharBytes(b) == IF b < 128 THEN <<b>> ELSE <<192 + b \div 64, 128 + (b % 64)>>

(* One hexadecimal digit, 0 to 9 and A to F *)
DigitByte(d) == IF d < 10 THEN 48 + d ELSE 55 + d

DigitValue(b) == IF b < 58 THEN b - 48 ELSE b - 55

(* Fault: a percent sign is not escaped itself. *)
EncodeByteRawPercent(b) ==
  IF b \in Escaped \ {Percent}
  THEN <<Percent, DigitByte(b \div 16), DigitByte(b % 16)>>
  ELSE CharBytes(b)

EncodeByte(b) ==
  IF b \in Escaped
  THEN <<Percent, DigitByte(b \div 16), DigitByte(b % 16)>>
  ELSE CharBytes(b)

Encode(s) == FlattenSeq([i \in DOMAIN s |-> EncodeByte(s[i])])

(* Of a field whose escapes are whole; a cut one is None, and RecordFile calls
   its line "broken". *)
Decode(s) ==
  LET from[i \in 1..Len(s) + 1] ==
        IF i > Len(s) THEN <<>>
        ELSE IF s[i] = Percent
             THEN CharBytes(16 * DigitValue(s[i + 1]) + DigitValue(s[i + 2])) \o from[i + 3]
             ELSE CharBytes(s[i]) \o from[i + 1]
  IN from[1]

(* What a field is after it was written and read once. *)
Trip(s) == Decode(Encode(s))

=============================================================================
