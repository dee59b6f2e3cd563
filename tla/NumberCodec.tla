----------------------------- MODULE NumberCodec -----------------------------
(***************************************************************************)
(* The decoders and encoders of num.rs against the numbers that a text     *)
(* stands for: the sum of its digits, each times its power of the base.    *)
(***************************************************************************)
EXTENDS Numbers, CodecInput

(* The number that the first digits of a text stand for.                   *)
HexSums(s) ==
    LET sum[i \in 0..Len(s)] ==
            IF i = 0 THEN 0 ELSE 16 * sum[i - 1] + HexDigitValue(s[i])
    IN  sum
HexSum(s) == HexSums(s)[Len(s)]

DecSums(s) ==
    LET sum[i \in 0..Len(s)] ==
            IF i = 0 THEN 0 ELSE 10 * sum[i - 1] + DecValue(s[i])
    IN  sum
DecSum(s) == DecSums(s)[Len(s)]

HexExact(digits, s) ==
    LET good == s # <<>> /\ \A i \in DOMAIN s : IsHexDigit(s[i])
    IN  DecodeHex(s, digits) = IF good /\ HexSum(s) < HexValues[digits]
                               THEN Some(HexSum(s)) ELSE None

DecExact(type, s) ==
    LET negative == s # <<>> /\ s[1] = "-"
        digits == IF negative THEN Tail(s) ELSE s
        value == IF negative THEN -DecSum(digits) ELSE DecSum(digits)
        good == digits # <<>> /\ \A i \in DOMAIN digits : IsDecDigit(digits[i])
    IN  s = <<"-">> \/
        DecodeDec(s, type) = IF good /\ value \in type.min..type.max
                             THEN Some(value) ELSE None

(* The second number is encoded into the buffer that has held the first.   *)
Encoded(first, second) ==
    LET used == HexEncode(NewHexBuffer, first)
        hex == HexText(used, second)
    IN  /\ DecodeHex(hex, 2) = Some(second)
        /\ Len(hex) > 1 => hex[1] # "0"
        /\ \A n \in {second, -second} \cap (I8.min..I8.max) :
               DecodeDec(EncodeDec(n), I8) = Some(n)

(* A number is read exactly when it is one and fits its type, with the     *)
(* value of its digits, and what an encoder writes, also into a buffer it  *)
(* has used before, is the shortest text that is read as the number.  A    *)
(* lone "-" is left out: what it gives is up to the library.               *)
NumbersExact ==
    /\ topic = "hex" => HexExact(params, text)
    /\ topic = "dec" => DecExact(params, text)
    /\ topic = "encode" => Encoded(params[1], params[2])
=============================================================================
