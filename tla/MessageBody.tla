---------------------------- MODULE MessageBody ----------------------------
(***************************************************************************)
(* The bodies of the messages of one connection: the sender encodes them   *)
(* (ChunkedStream, or the plain bytes), the network delivers the bytes in  *)
(* pieces of any size and may end at any time, and the body reader decodes *)
(* each body with FramedRead and the decoder of its framing and hands the  *)
(* bytes it has read ahead over to the next one.  The application reads    *)
(* every body with Body::read, up to a limit, beside the reader.  Message  *)
(* headers take no bytes here: body follows body.                          *)
(***************************************************************************)
EXTENDS Lines, SequencesExt

CONSTANTS
    Scripts,       \* the sequences of messages that a sender may send
    MaxLineLength  \* the option max_line_length of the decoder

(* A message: framing is "chunked", "length" or "eof"; items are the pieces*)
(* the body stream yields; form says how the peer writes chunk headers:    *)
(* "plain" is ChunkedStream, the others are other senders; limit is the    *)
(* max_size that the application reads it with, <<n>> or none: <<>>.       *)
Forms == {"plain", "extended", "long", "garbage"}
Framings == {"chunked", "length", "eof"}

(* Bytes are symbols, one at least of every kind that the decoders tell    *)
(* apart; an item has as many of them as one digit can say.                *)
Digits == <<"0", "1", "2", "3">>
Semi == ";"
Symbols == {CR, LF, "0", "1", "2", "3", Semi, "x"}
MessageSet == [framing : Framings, form : Forms, items : Seq(Seq(Symbols)),
               limit : Seq(Nat)]

ASSUME ScriptsAssumption ==
    \A s \in Scripts :
        /\ s \in Seq(MessageSet) /\ s # <<>>
        /\ \A i \in DOMAIN s :
              /\ Len(s[i].limit) <= 1
              /\ \A j \in DOMAIN s[i].items : Len(s[i].items[j]) < Len(Digits)
ASSUME MaxLineAssumption == MaxLineLength \in Nat \ {0}

VARIABLES
    script,    \* the messages of this connection
    smsg,      \* the message the sender is at
    sitem,     \* the item of it that comes next
    wire,      \* every byte sent
    closed,    \* the sending side is closed, or the connection is cut
    k,         \* the message the reader is at
    base,      \* where its decoder started
    avail,     \* the bytes FramedRead has read into its buffer
    pos,       \* the bytes the decoders have taken
    eof,       \* FramedRead has seen the end of the stream
    rpc,       \* control state of FramedRead and the body reader
    state,     \* state of the decoder
    expected,  \* the bytes the decoder expects
    line,      \* the line decoder of a chunked body
    out,       \* the bytes of the current body returned so far
    done,      \* the bodies read to their end
    body       \* what the application has of each body, and its outcome

svars == <<smsg, sitem, wire, closed>>
dvars == <<state, expected, line>>
vars == <<script, svars, k, base, avail, pos, eof, rpc, dvars, out, done, body>>

(***************************************************************************)
(* Encoding                                                                *)
(***************************************************************************)
CrLf == <<CR, LF>>
BodyOf(m) == FlattenSeq(m.items)

ChunkHeaderOf(m, size) ==
    CASE m.form = "plain"    -> << Digits[size + 1] >>
      [] m.form = "extended" -> << Digits[size + 1], Semi, "x" >>
      [] m.form = "long"     -> << Digits[size + 1], Semi, "x", "x" >>
      [] m.form = "garbage"  -> << "x" >>

EncodedItem(m, item) ==
    IF m.framing = "chunked"
    THEN ChunkHeaderOf(m, Len(item)) \o CrLf \o item \o CrLf
    ELSE item

Trailer(m) == IF m.form = "plain" THEN <<>> ELSE << "x" >> \o CrLf

LastChunk(m) ==
    IF m.framing = "chunked"
    THEN << Digits[1] >> \o CrLf \o Trailer(m) \o CrLf
    ELSE <<>>

Encoded(m) ==
    FlattenSeq([i \in DOMAIN m.items |-> EncodedItem(m, m.items[i])])
        \o LastChunk(m)

(* Where the i-th message starts on the wire.                              *)
Offset(i) ==
    Len(FlattenSeq([j \in 1 .. i - 1 |-> Encoded(script[j])]))

(***************************************************************************)
(* The decoder that a message starts with                                  *)
(***************************************************************************)
StateOf(m) == CASE m.framing = "chunked" -> "ChunkHeader"
                [] m.framing = "length"  -> "Fixed"
                [] m.framing = "eof"     -> "Simple"
ExpectedOf(m) == IF m.framing = "length" THEN Len(BodyOf(m)) ELSE 0

Complete == state = "Completed" \/ (state = "Fixed" /\ expected = 0)

LineOpts == [cr |-> FALSE, lf |-> FALSE, crlf |-> TRUE,
             require_terminator |-> FALSE, max_line_length |-> MaxLineLength]

Init ==
    /\ script \in Scripts
    /\ smsg = 1 /\ sitem = 1 /\ wire = <<>> /\ closed = FALSE
    /\ k = 1 /\ base = 0 /\ avail = 0 /\ pos = 0 /\ eof = FALSE
    /\ rpc = "decode"
    /\ state = StateOf(script[1]) /\ expected = ExpectedOf(script[1])
    /\ line = NewDecoder
    /\ out = <<>> /\ done = <<>>
    /\ body = [i \in DOMAIN script |-> [size |-> 0, outcome |-> "reading"]]

(***************************************************************************)
(* The sender                                                              *)
(***************************************************************************)
SendItem ==
    /\ ~closed /\ smsg <= Len(script)
    /\ sitem <= Len(script[smsg].items)
    /\ wire' = wire \o EncodedItem(script[smsg], script[smsg].items[sitem])
    /\ sitem' = sitem + 1
    /\ UNCHANGED <<script, smsg, closed, k, base, avail, pos, eof, rpc, dvars,
                   out, done, body>>

SendLast ==
    /\ ~closed /\ smsg <= Len(script)
    /\ sitem > Len(script[smsg].items)
    /\ wire' = wire \o LastChunk(script[smsg])
    /\ smsg' = smsg + 1 /\ sitem' = 1
    /\ closed' = (script[smsg].framing = "eof")
    /\ UNCHANGED <<script, k, base, avail, pos, eof, rpc, dvars, out, done, body>>

(* The connection ends, in the middle of a body too.                       *)
Cut ==
    /\ ~closed
    /\ closed' = TRUE
    /\ UNCHANGED <<script, smsg, sitem, wire, k, base, avail, pos, eof, rpc,
                   dvars, out, done, body>>

(***************************************************************************)
(* FramedRead: decode until the decoder wants more, then read.             *)
(***************************************************************************)
Read ==
    /\ rpc = "read" /\ ~eof
    /\ \E n \in 1 .. Len(wire) - avail : avail' = avail + n
    /\ rpc' = "decode"
    /\ UNCHANGED <<script, svars, k, base, pos, eof, dvars, out, done, body>>

ReadEof ==
    /\ rpc = "read" /\ ~eof
    /\ closed /\ avail = Len(wire)
    /\ eof' = TRUE
    /\ rpc' = "decode"
    /\ UNCHANGED <<script, svars, k, base, avail, pos, dvars, out, done, body>>

(* The decoder returns nothing and the stream goes on.                     *)
WantMore ==
    /\ rpc = "decode" /\ ~eof
    /\ pos = avail \/ Complete
    /\ rpc' = "read"
    /\ UNCHANGED <<script, svars, k, base, avail, pos, eof, dvars, out, done, body>>

(* decode_eof at the end of the data: the end of a body without a length,  *)
(* or an incomplete body.                                                  *)
EofSimple ==
    /\ rpc = "decode" /\ eof
    /\ pos = avail /\ state = "Simple"
    /\ state' = "Completed"
    /\ UNCHANGED <<script, svars, k, base, avail, pos, eof, rpc, expected, line,
                   out, done, body>>

(* Mutant of EofIncomplete: the end of the stream completes any body.      *)
EofIncompleteAccepted ==
    /\ rpc = "decode" /\ eof
    /\ pos = avail /\ ~Complete /\ state # "Simple"
    /\ state' = "Completed"
    /\ UNCHANGED <<script, svars, k, base, avail, pos, eof, rpc, expected, line,
                   out, done, body>>

EofIncomplete ==
    /\ rpc = "decode" /\ eof
    /\ pos = avail /\ ~Complete /\ state # "Simple"
    /\ rpc' = "lost"
    /\ UNCHANGED <<script, svars, k, base, avail, pos, eof, dvars, out, done, body>>

(***************************************************************************)
(* The decoders                                                            *)
(***************************************************************************)
Decoding(s) == rpc = "decode" /\ pos < avail /\ state = s

(* The application has dropped the body.                                   *)
Dropped(i) == body[i].outcome = "exceeded"

(* The next n bytes are returned and sent to the application; the reader   *)
(* stops if nobody takes them.                                             *)
Deliver(n) ==
    /\ out' = out \o SubSeq(wire, pos + 1, pos + n)
    /\ pos' = pos + n
    /\ rpc' = IF Dropped(k) THEN "leave" ELSE rpc
    /\ UNCHANGED <<script, svars, k, base, avail, eof, line, done, body>>

DecodeSimple ==
    /\ Decoding("Simple")
    /\ Deliver(avail - pos)
    /\ UNCHANGED <<state, expected>>

MinOf(a, b) == IF a < b THEN a ELSE b

DecodeFixed ==
    /\ Decoding("Fixed") /\ expected > 0
    /\ Deliver(MinOf(expected, avail - pos))
    /\ expected' = expected - MinOf(expected, avail - pos)
    /\ UNCHANGED state

(* Mutant of DecodeChunkBody: what a piece has delivered is not taken off. *)
DecodeChunkBodyForgetful ==
    /\ Decoding("ChunkBody")
    /\ Deliver(MinOf(expected, avail - pos))
    /\ UNCHANGED expected
    /\ state' = IF expected <= avail - pos THEN "ChunkBodyDelimiter"
                ELSE "ChunkBody"

(* Mutant of DecodeChunkBody: everything at hand is taken off.             *)
DecodeChunkBodyUnbounded ==
    /\ Decoding("ChunkBody")
    /\ Deliver(MinOf(expected, avail - pos))
    /\ expected' = expected - (avail - pos)
    /\ state' = IF expected' = 0 THEN "ChunkBodyDelimiter" ELSE "ChunkBody"

DecodeChunkBody ==
    /\ Decoding("ChunkBody")
    /\ Deliver(MinOf(expected, avail - pos))
    /\ expected' = expected - MinOf(expected, avail - pos)
    /\ state' = IF expected' = 0 THEN "ChunkBodyDelimiter" ELSE "ChunkBody"

(* A turn of the line decoder in one of the states that read lines.        *)
LineTurn == DecodeByte(LineOpts, line, wire[pos + 1])
TakeTurn(s) ==
    /\ Decoding(s)
    /\ pos' = pos + LineTurn.taken
    /\ line' = LineTurn.decoder
    /\ UNCHANGED <<script, svars, k, base, avail, eof, out, done, body>>
LineStates == {"ChunkHeader", "ChunkBodyDelimiter", "TrailerPart"}

LinePart ==
    /\ \E s \in LineStates : TakeTurn(s)
    /\ LineTurn.ok /\ LineTurn.lines = <<>>
    /\ UNCHANGED <<rpc, state, expected>>

LineTooLong ==
    /\ \E s \in LineStates : TakeTurn(s)
    /\ ~LineTurn.ok
    /\ rpc' = "lost"
    /\ UNCHANGED <<state, expected>>

(* The size of a chunk stands before the first ";" of its header.          *)
HeaderDigits(l) ==
    SubSeq(l, 1, Min({i \in 0 .. Len(l) : i = Len(l) \/ l[i + 1] = Semi}))
IsHex(ds) == ds # <<>> /\ \A i \in DOMAIN ds : ds[i] \in ToSet(Digits)
HexValue(ds) ==
    LET digit(i) == (CHOOSE d \in DOMAIN Digits : Digits[d] = ds[i]) - 1
        value[i \in 0 .. Len(ds)] ==
            IF i = 0 THEN 0 ELSE 16 * value[i - 1] + digit(i)
    IN  value[Len(ds)]

(* Mutant of ChunkHeader: the chunk of size 0 completes the body.          *)
ChunkHeaderNoTrailer ==
    /\ TakeTurn("ChunkHeader")
    /\ LineTurn.lines # <<>> /\ IsHex(HeaderDigits(LineTurn.lines[1]))
    /\ expected' = HexValue(HeaderDigits(LineTurn.lines[1]))
    /\ state' = IF expected' > 0 THEN "ChunkBody" ELSE "Completed"
    /\ UNCHANGED rpc

ChunkHeader ==
    /\ TakeTurn("ChunkHeader")
    /\ LineTurn.lines # <<>> /\ IsHex(HeaderDigits(LineTurn.lines[1]))
    /\ expected' = HexValue(HeaderDigits(LineTurn.lines[1]))
    /\ state' = IF expected' > 0 THEN "ChunkBody" ELSE "TrailerPart"
    /\ UNCHANGED rpc

ChunkHeaderInvalid ==
    /\ TakeTurn("ChunkHeader")
    /\ LineTurn.lines # <<>> /\ ~IsHex(HeaderDigits(LineTurn.lines[1]))
    /\ rpc' = "lost"
    /\ UNCHANGED <<state, expected>>

ChunkBodyDelimiter ==
    /\ TakeTurn("ChunkBodyDelimiter")
    /\ LineTurn.lines # <<>>
    /\ state' = "ChunkHeader"
    /\ UNCHANGED <<rpc, expected>>

(* Mutant of TrailerPart: only the line after a trailer completes it.      *)
TrailerPartStuck ==
    /\ TakeTurn("TrailerPart")
    /\ LineTurn.lines # <<>>
    /\ state' = IF LineTurn.lines[1] # <<>> THEN "Completed" ELSE "TrailerPart"
    /\ UNCHANGED <<rpc, expected>>

TrailerPart ==
    /\ TakeTurn("TrailerPart")
    /\ LineTurn.lines # <<>>
    /\ state' = IF LineTurn.lines[1] = <<>> THEN "Completed" ELSE "TrailerPart"
    /\ UNCHANGED <<rpc, expected>>

(* take_connection: the body is complete and FramedRead has nothing more   *)
(* at hand (a read is pending, or the stream has ended).  What it has read *)
(* ahead is prepended to the connection and read again by the next reader, *)
(* in pieces of any size.                                                  *)
TakeConnection ==
    /\ rpc \in {"read", "leave"} \/ (rpc = "decode" /\ eof)
    /\ Complete
    /\ done' = Append(done, out)
    /\ out' = <<>>
    /\ k' = k + 1
    /\ base' = pos /\ avail' = pos /\ eof' = FALSE
    /\ line' = NewDecoder
    /\ IF k = Len(script)
       THEN rpc' = "idle" /\ UNCHANGED <<state, expected>>
       ELSE /\ rpc' = "decode"
            /\ state' = StateOf(script[k + 1])
            /\ expected' = ExpectedOf(script[k + 1])
    /\ UNCHANGED <<script, svars, pos, body>>

(* take_connection of a body that is not complete: the reader stops when   *)
(* the body is dropped, and the connection cannot be used any more.        *)
LoseConnection ==
    /\ rpc = "leave" \/ (rpc = "read" /\ Dropped(k))
    /\ ~Complete
    /\ rpc' = "lost"
    /\ UNCHANGED <<script, svars, k, base, avail, pos, eof, dvars, out, done, body>>

(***************************************************************************)
(* The application: Body::read with a limit, of every body that it has; it *)
(* drops the body when it returns.  Body::discard counts the same way.     *)
(***************************************************************************)
Exceeds(m, size) == m.limit # <<>> /\ size > m.limit[1]
Arrived(i) == IF i < k THEN done[i] ELSE IF i = k THEN out ELSE <<>>

(* Mutant of BodyRead: the limit is the first size that is too much.       *)
BodyReadEarly(i) ==
    /\ body[i].outcome = "reading" /\ body[i].size < Len(Arrived(i))
    /\ body' = [body EXCEPT ![i] =
           [size |-> Len(Arrived(i)),
            outcome |-> IF Exceeds(script[i], Len(Arrived(i)) + 1) THEN "exceeded"
                        ELSE "reading"]]
    /\ UNCHANGED <<script, svars, k, base, avail, pos, eof, rpc, dvars, out, done>>

(* The pieces that have arrived are taken; whether their sum exceeds the   *)
(* limit does not depend on where one ends.                                *)
BodyRead(i) ==
    /\ body[i].outcome = "reading" /\ body[i].size < Len(Arrived(i))
    /\ body' = [body EXCEPT ![i] =
           [size |-> Len(Arrived(i)),
            outcome |-> IF Exceeds(script[i], Len(Arrived(i))) THEN "exceeded"
                        ELSE "reading"]]
    /\ UNCHANGED <<script, svars, k, base, avail, pos, eof, rpc, dvars, out, done>>

(* The end of the body, or the error that the reader has sent.             *)
BodyReadEnd(i) ==
    /\ body[i].outcome = "reading" /\ body[i].size = Len(Arrived(i))
    /\ i < k \/ (i = k /\ rpc = "lost")
    /\ body' = [body EXCEPT ![i].outcome = IF i < k THEN "ok" ELSE "error"]
    /\ UNCHANGED <<script, svars, k, base, avail, pos, eof, rpc, dvars, out, done>>

Application == \E i \in DOMAIN script : BodyRead(i) \/ BodyReadEnd(i)

Terminated == rpc \in {"idle", "lost"} /\ closed /\ UNCHANGED vars

Decode ==
    \/ DecodeSimple \/ DecodeFixed \/ DecodeChunkBody
    \/ LinePart \/ LineTooLong \/ ChunkHeader \/ ChunkHeaderInvalid
    \/ ChunkBodyDelimiter \/ TrailerPart
Reader ==
    \/ Read \/ ReadEof \/ WantMore \/ EofSimple \/ EofIncomplete
    \/ Decode \/ TakeConnection \/ LoseConnection
Next == SendItem \/ SendLast \/ Cut \/ Reader \/ Application \/ Terminated

(* The sender goes on unless the connection is cut, and the reader and the *)
(* application are polled until they end.                                  *)
Spec == Init /\ [][Next]_vars
FairSpec ==
    /\ Spec /\ WF_vars(SendItem) /\ WF_vars(SendLast)
    /\ WF_vars(Reader) /\ WF_vars(Application)

(***************************************************************************)
(* Properties                                                              *)
(***************************************************************************)

(* Type invariant: ranges of the positions and of the decoder's state.     *)
TypeOK ==
    /\ closed \in BOOLEAN /\ eof \in BOOLEAN
    /\ base <= pos /\ pos <= avail /\ avail <= Len(wire)
    /\ k \in 1 .. Len(script) + 1 /\ Len(done) = k - 1
    /\ rpc \in {"decode", "read", "leave", "idle", "lost"}
    /\ \A i \in DOMAIN script :
         /\ body[i].size \in 0 .. Len(Arrived(i))
         /\ body[i].outcome \in {"reading", "ok", "exceeded", "error"}
    /\ state \in LineStates \cup {"ChunkBody", "Fixed", "Simple", "Completed"}
    /\ expected \in Nat
    /\ state = "ChunkBody" => expected \in 1 .. Len(Digits) - 1
    /\ Len(line.buffer) <= MaxLineLength

(* What a sender keeps to: a chunked body has no empty item, whose         *)
(* encoding is the last chunk, and a body that the end of the stream       *)
(* delimits is the last of its connection.                                 *)
WellSentScript(s) ==
    \A i \in DOMAIN s :
        /\ s[i].framing = "chunked" => \A j \in DOMAIN s[i].items : s[i].items[j] # <<>>
        /\ s[i].framing = "eof" => i = Len(s)

(* What the consumer of a body gets is at all times a prefix of what was   *)
(* sent: no byte of a chunk header, of a delimiter or of the next message, *)
(* however the stream is cut into pieces.                                  *)
PrefixDelivered == k <= Len(script) => IsPrefix(out, BodyOf(script[k]))

(* A body that is delimited by its encoding and that counts as complete is *)
(* the body that was sent: a connection that ends early is an error, never *)
(* a shorter body.  Body::read returns no body above its limit and refuses *)
(* none within it, wherever the stream is cut and whatever the reader has  *)
(* read by the time the limit is exceeded.                                 *)
RoundTrip ==
    /\ \A i \in DOMAIN done :
         script[i].framing # "eof" => done[i] = BodyOf(script[i])
    /\ \A i \in DOMAIN script :
         /\ body[i].outcome = "ok" => ~Exceeds(script[i], Len(done[i]))
         /\ body[i].outcome = "exceeded" =>
              Exceeds(script[i], Len(BodyOf(script[i])))

(* "Once a message body is decoded, the decoder must not consume any more  *)
(* data." (ttpkit/src/body.rs:214): every decoder starts where its message *)
(* does, whatever the one before has read ahead.                           *)
BoundaryExact == k <= Len(script) => base = Offset(k)

(* A body sent in full by a sender that this decoder understands comes out *)
(* of Body::read without a byte of a later message being needed, unless an *)
(* earlier body or this one is refused for its size.                       *)
Delivered ==
    \A i \in 1 .. 2 :
        (i <= Len(script) /\ smsg > i
            /\ \A j \in 1 .. i : script[j].form \in {"plain", "extended"}
            /\ (script[i].framing = "eof" => closed))
        ~> \/ body[i].outcome = "ok"
           \/ \E j \in 1 .. i : body[j].outcome = "exceeded"
=============================================================================
