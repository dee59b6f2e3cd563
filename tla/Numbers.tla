------------------------------- MODULE Numbers -------------------------------
(***************************************************************************)
(* Numbers in text (ttpkit-utils, num.rs): decode_dec, decode_hex and the  *)
(* two encoders.  A type is the range of its values; a hexadecimal type is *)
(* unsigned and has a number of digits.  Decoders return an Option: the    *)
(* errors carry a message only.                                            *)
(***************************************************************************)
EXTENDS Ascii

I8 == [min |-> -128, max |-> 127]
U8 == [min |-> 0, max |-> 255]
U16 == [min |-> 0, max |-> 65535]
Usize == [min |-> 0, max |-> 100000000]  \* a bound of the model

DecDigits == <<"0", "1", "2", "3", "4", "5", "6", "7", "8", "9">>
LowerHexDigits == <<"0", "1", "2", "3", "4", "5", "6", "7", "8", "9",
                    "a", "b", "c", "d", "e", "f">>
UpperHexDigits == <<"0", "1", "2", "3", "4", "5", "6", "7", "8", "9",
                    "A", "B", "C", "D", "E", "F">>

IsDecDigit(b) == Contains(DecDigits, b)
DecValue(b) == SelectInSeq(DecDigits, LAMBDA d : d = b) - 1

(* atoi::atoi: a digit at a time, with every multiplication and addition   *)
(* checked against the type.                                               *)
InType(type, n) == IF n \in type.min..type.max THEN Some(n) ELSE None
AtoiDigit(type, sign, n, b) ==
    IF n = None THEN None ELSE InType(type, 10 * n[1] + sign * DecValue(b))

Accumulated(type, sign, digits) ==
    LET value[i \in 0..Len(digits)] ==
            IF i = 0 THEN Some(0)
            ELSE AtoiDigit(type, sign, value[i - 1], digits[i])
    IN  value[Len(digits)]

Atoi(src, type) ==
    IF src[1] = "-" THEN Accumulated(type, -1, Tail(src))
                    ELSE Accumulated(type, 1, src)

IsDecimal(src) ==
    /\ src # <<>>
    /\ \A i \in DOMAIN src : (i = 1 /\ src[i] = "-") \/ IsDecDigit(src[i])

DecodeDec(src, type) == IF IsDecimal(src) THEN Atoi(src, type) ELSE None

(* from_str of the unsigned types of the standard library.                 *)
ParseDigits(digits, type) ==
    IF digits = <<>> \/ \E i \in DOMAIN digits : ~IsDecDigit(digits[i])
    THEN None ELSE Atoi(digits, type)
ParseUnsigned(s, type) ==
    ParseDigits(IF s # <<>> /\ s[1] = "+" THEN Tail(s) ELSE s, type)

(* DecEncoder, that is itoa::Buffer::format.                               *)
DecText[n \in Nat] ==
    IF n < 10 THEN <<DecDigits[n + 1]>>
    ELSE Append(DecText[n \div 10], DecDigits[(n % 10) + 1])
EncodeDec(n) == IF n < 0 THEN <<"-">> \o DecText[-n] ELSE DecText[n]

IsHexDigit(b) == Contains(LowerHexDigits, b) \/ Contains(UpperHexDigits, b)
IndexIn(table, b) == SelectInSeq(table, LAMBDA d : d = b)
HexDigitValue(b) ==
    (IF Contains(LowerHexDigits, b) THEN IndexIn(LowerHexDigits, b)
                                    ELSE IndexIn(UpperHexDigits, b)) - 1

(* How many values a type of so many hexadecimal digits has.               *)
HexValues[digits \in Nat] ==
    IF digits = 0 THEN 1 ELSE 16 * HexValues[digits - 1]

(* push_hex_digit of a type of so many digits: nothing may be in the top   *)
(* digit before the shift.                                                 *)
PushHexDigitLate(digits, n, digit) ==
    IF n \div HexValues[digits] # 0 THEN None ELSE Some(16 * n + digit)

PushHexDigit(digits, n, digit) ==
    IF n \div HexValues[digits - 1] # 0 THEN None ELSE Some(16 * n + digit)

PushByteOf(digits, n, b) ==
    IF n = None \/ ~IsHexDigit(b) THEN None
    ELSE PushHexDigit(digits, n[1], HexDigitValue(b))

DecodeHex(src, digits) ==
    LET value[i \in 0..Len(src)] ==
            IF i = 0 THEN Some(0) ELSE PushByteOf(digits, value[i - 1], src[i])
    IN  IF src = <<>> THEN None ELSE value[Len(src)]

(* HexEncoder::encode: the digits are stored from the end of the buffer,   *)
(* which is as long as the widest type; a number that fills it moves the   *)
(* index past its start and back.  The buffer keeps what was encoded       *)
(* before.  PopHexDigit is a turn of the loop, that ends when n is 0.      *)
PopHexDigit(s) ==
    IF s.n = 0 THEN s
    ELSE [buffer |-> [s.buffer EXCEPT ![s.idx] = LowerHexDigits[(s.n % 16) + 1]],
          idx |-> s.idx - 1, n |-> s.n \div 16]

HexStore(buffer, n) ==
    LET after[k \in 0..Len(buffer)] ==
            IF k = 0 THEN [buffer |-> buffer, idx |-> Len(buffer), n |-> n]
            ELSE PopHexDigit(after[k - 1])
    IN  after[Len(buffer)]

HexEncode(buffer, n) ==
    LET last == Len(buffer)
        s == HexStore(buffer, n)
    IN  IF s.idx = last THEN [s.buffer EXCEPT ![last] = "0"] ELSE s.buffer

HexText(buffer, n) ==
    LET last == Len(buffer)
        s == HexStore(buffer, n)
    IN  SubSeq(HexEncode(buffer, n), IF s.idx = last THEN last ELSE s.idx + 1,
               last)

(* A new encoder; its buffer has two digits here, a bound of the model.     *)
NewHexBuffer == <<"0", "0">>
=============================================================================
