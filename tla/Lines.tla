------------------------------- MODULE Lines -------------------------------
(***************************************************************************)
(* LineDecoder of ttpkit, as operators: what one turn of the loop in       *)
(* LineDecoder::decode does with the first byte of the data, and what      *)
(* decode_eof does with the rest.  A byte is a string: CR, LF or anything  *)
(* else.  The options are a record of the fields of LineDecoderOptions, a  *)
(* decoder a record of its buffer and of drop_lf.                          *)
(***************************************************************************)
EXTENDS Integers, Sequences

CR == "CR"
LF == "LF"

LineOptions == [cr : BOOLEAN, lf : BOOLEAN, crlf : BOOLEAN,
                require_terminator : BOOLEAN, max_line_length : Nat]

NewDecoder == [buffer |-> <<>>, drop_lf |-> FALSE]

EndsWith(s, t) ==
    Len(t) <= Len(s) /\ SubSeq(s, Len(s) - Len(t) + 1, Len(s)) = t

(* What a turn of the loop yields: the decoder, the number of bytes it has *)
(* taken, the line it returns (a sequence of at most one), and whether it  *)
(* is an error.                                                            *)
Turn(decoder, taken, lines, ok) ==
    [decoder |-> decoder, taken |-> taken, lines |-> lines, ok |-> ok]

(* A byte after a CR that is dropped whatever it is.                       *)
DropAny(d, byte) ==
    Turn(NewDecoder, 1, << SubSeq(d.buffer, 1, Len(d.buffer) - 1) >>, TRUE)

(* The byte after a CR that ended the line: dropped if it is LF, left to   *)
(* the next line (or the next decoder) if it is not.                       *)
DropLf(d, byte) ==
    Turn(NewDecoder, IF byte = LF THEN 1 ELSE 0,
         << SubSeq(d.buffer, 1, Len(d.buffer) - 1) >>, TRUE)

(* The length of the separator that the buffer ends with, 0 if none.       *)
Separator(o, buffer) ==
    IF o.crlf /\ EndsWith(buffer, <<CR, LF>>) THEN 2
    ELSE IF \/ o.cr /\ EndsWith(buffer, <<CR>>)
            \/ o.lf /\ EndsWith(buffer, <<LF>>)
    THEN 1 ELSE 0

PushByte(o, d, byte) ==
    LET buffer == Append(d.buffer, byte)
        n == Separator(o, buffer)
        pending == n = 1 /\ byte = CR /\ o.crlf
    IN  IF n = 0 \/ pending
        THEN Turn([buffer |-> buffer, drop_lf |-> pending], 1, <<>>, TRUE)
        ELSE Turn(NewDecoder, 1,
                  << SubSeq(buffer, 1, Len(buffer) - n) >>, TRUE)

DecodeByte(o, d, byte) ==
    IF d.drop_lf THEN DropLf(d, byte)
    ELSE IF Len(d.buffer) >= o.max_line_length THEN Turn(d, 0, <<>>, FALSE)
    ELSE PushByte(o, d, byte)

(* decode_eof once the data is used up.                                    *)
DecodeEof(o, d) ==
    IF d.buffer = <<>> THEN Turn(d, 0, <<>>, TRUE)
    ELSE IF o.require_terminator THEN Turn(d, 0, <<>>, FALSE)
    ELSE Turn([d EXCEPT !.buffer = <<>>], 0, <<d.buffer>>, TRUE)
=============================================================================
