------------------------------ MODULE LineCodec ------------------------------
(***************************************************************************)
(* LineDecoder against a definition of lines that works on the whole       *)
(* input: at every position the longest separator that starts there, and   *)
(* the first position that has one ends the line.  The decoder sees a byte *)
(* at a time and may leave a CR undecided until it has seen the next.      *)
(***************************************************************************)
EXTENDS Lines, CodecInput

SeparatorAt(o, t, i) ==
    IF o.crlf /\ i < Len(t) /\ t[i] = CR /\ t[i + 1] = LF THEN 2
    ELSE IF (o.cr /\ t[i] = CR) \/ (o.lf /\ t[i] = LF) THEN 1 ELSE 0

(* The line that starts at a position, and the length of its separator,    *)
(* which is 0 if the input ends before it.                                 *)
Line(o, t, start, end) ==
    [line |-> SubSeq(t, start, end - 1), ended |-> end <= Len(t),
     size |-> IF end <= Len(t) THEN SeparatorAt(o, t, end) ELSE 0]

Ends(o, t, start) ==
    {i \in start..Len(t) : SeparatorAt(o, t, i) > 0} \union {Len(t) + 1}

LineAt(o, t, start) ==
    Line(o, t, start, CHOOSE i \in Ends(o, t, start) :
                          \A j \in Ends(o, t, start) : i <= j)

FirstLine(o, t) == LineAt(o, t, 1)

(* The LF of a CR LF is not counted where a lone CR ends a line as well.   *)
TooLong(o, f) ==
    Len(f.line) + (IF o.cr THEN (IF f.size > 0 THEN 1 ELSE 0) ELSE f.size)
        > o.max_line_length

(* The lines from every position on, the last position first.              *)
LinesFrom(o, t) ==
    LET from[start \in 1..Len(t) + 1] ==
            LET f == LineAt(o, t, start)
                others == from[start + Len(f.line) + f.size]
            IN  IF start = Len(t) + 1 THEN [ok |-> TRUE, lines |-> <<>>]
                ELSE IF TooLong(o, f) \/ (~f.ended /\ o.require_terminator)
                THEN [ok |-> FALSE, lines |-> <<>>]
                ELSE [ok |-> others.ok, lines |-> <<f.line>> \o others.lines]
    IN  from

ReferenceLines(o, t) == LinesFrom(o, t)[1]

(* What the callers of the decoder do with a byte: they go on until it is  *)
(* taken or there is an error, and keep the lines that were returned.  A   *)
(* byte that is left once is taken, or an error, the second time.          *)
After(run, turn) ==
    [decoder |-> turn.decoder, ok |-> turn.ok, lines |-> run.lines \o turn.lines]

Feed(o, run, byte) ==
    LET turn == DecodeByte(o, run.decoder, byte)
        next == After(run, turn)
    IN  IF ~run.ok THEN run
        ELSE IF turn.ok /\ turn.taken = 0
        THEN After(next, DecodeByte(o, next.decoder, byte))
        ELSE next

Runs(o, t) ==
    LET run[i \in 0..Len(t)] ==
            IF i = 0 THEN [decoder |-> NewDecoder, ok |-> TRUE, lines |-> <<>>]
            ELSE Feed(o, run[i - 1], t[i])
    IN  run

(* The lines of the whole input, decode_eof included.                      *)
DecodedLines(o, t) ==
    LET run == Runs(o, t)[Len(t)]
        whole == After(run, DecodeEof(o, run.decoder))
    IN  IF run.ok /\ whole.ok THEN [ok |-> TRUE, lines |-> whole.lines]
        ELSE [ok |-> FALSE, lines |-> <<>>]

(* A CR at the end, when CR and CR LF both end a line: the decoder still   *)
(* waits for the LF.                                                       *)
PendingCr(o, t) == o.cr /\ o.crlf /\ t # <<>> /\ t[Len(t)] = CR

LinesAgree ==
    LET d == DecodedLines(params, text)
        r == ReferenceLines(params, text)
    IN  d.ok = r.ok /\ (r.ok => d = r)

(* Whatever the separators, the bytes and the limit, LineDecoder finds     *)
(* exactly the lines of the reference, and fails exactly where a line is   *)
(* too long or lacks the terminator.  Nothing is said of an input whose    *)
(* very last byte is a CR that may be the start of CR LF.                  *)
LinesExact ==
    topic = "lines" /\ ~PendingCr(params, text) => LinesAgree

(* What the documentation says (line.rs:85 and 61): lines are separated by *)
(* CR, LF or CR LF or any combination, so that the lines are those of the  *)
(* reference for every input, and a last line with any of the chosen       *)
(* separators behind it is terminated.                                     *)
LinesAsDocumented ==
    topic = "lines" => LinesAgree
=============================================================================
