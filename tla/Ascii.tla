------------------------------- MODULE Ascii -------------------------------
(***************************************************************************)
(* Byte strings as the codecs of ttpkit see them, and the helpers of       *)
(* ttpkit-utils (ascii.rs) on them.  A byte string is a sequence of        *)
(* symbols: one character that the code looks at (":", " ", "CR", a digit  *)
(* that is counted), or a run of characters that the code never takes      *)
(* apart and only compares ("Content-Length").  An Option is a sequence of *)
(* at most one element.                                                    *)
(***************************************************************************)
EXTENDS Integers, SequencesExt

None == <<>>
Some(x) == <<x>>

Whitespace == {" ", "HT", "LF", "FormFeed", "CR"}
IsWhitespace(b) == b \in Whitespace

(* The element at an index that is 0 if there is none.                     *)
ElementAt(s, i) == IF i = 0 THEN None ELSE Some(s[i])

(* What is left from the first byte that is not whitespace.                *)
TrimStart(s) ==
    LET first == SelectInSeq(s, LAMBDA b : ~IsWhitespace(b))
    IN  IF first = 0 THEN <<>> ELSE SubSeq(s, first, Len(s))

TrimEnd(s) == SubSeq(s, 1, SelectLastInSeq(s, LAMBDA b : ~IsWhitespace(b)))

TrimAscii(s) == TrimEnd(TrimStart(s))

(* The parts before and after an index, if it is not 0.                    *)
SplitBy(s, at) ==
    IF at = 0 THEN None
    ELSE Some([start |-> SubSeq(s, 1, at - 1), end |-> SubSeq(s, at + 1, Len(s))])

(* The parts before and after the first separator, if there is one.        *)
SplitOnce(s, separators) ==
    SplitBy(s, SelectInSeq(s, LAMBDA b : b \in separators))

SplitAt(s, byte) == SplitOnce(s, {byte})
SplitAtSpace(s) == SplitOnce(s, Whitespace)

(* slice::split: the parts between the separators, at least one.           *)
AddByte(parts, byte, b) ==
    IF b = byte THEN Append(parts, <<>>)
    ELSE [parts EXCEPT ![Len(parts)] = Append(@, b)]
SplitAll(s, byte) == FoldLeft(LAMBDA parts, b : AddByte(parts, byte, b), << <<>> >>, s)

(* The elements of a list separated by commas, as every reader of such a   *)
(* header field takes them: trimmed, and without the empty ones.           *)
Elements(parts) ==
    SelectSeq([i \in DOMAIN parts |-> TrimAscii(parts[i])], LAMBDA e : e # <<>>)
CommaList(s) == Elements(SplitAll(s, ","))

(* to_ascii_lowercase, for the symbols that occur in two cases.            *)
LowerCase ==
    [A |-> "a", B |-> "b", C |-> "c", D |-> "d", E |-> "e", F |-> "f",
     X |-> "x", Digest |-> "digest", Basic |-> "basic"] @@
    ("Host" :> "host") @@ ("Connection" :> "connection") @@
    ("Content-Length" :> "content-length") @@ ("Chunked" :> "chunked") @@
    ("Transfer-Encoding" :> "transfer-encoding") @@ ("Close" :> "close") @@
    ("Upgrade" :> "upgrade") @@ ("Keep-Alive" :> "keep-alive") @@
    ("Sec-WebSocket-Version" :> "sec-websocket-version") @@
    ("Sec-WebSocket-Key" :> "sec-websocket-key") @@
    ("Sec-WebSocket-Accept" :> "sec-websocket-accept") @@
    ("Sec-WebSocket-Protocol" :> "sec-websocket-protocol") @@
    ("Sec-WebSocket-Extensions" :> "sec-websocket-extensions") @@
    ("WebSocket" :> "websocket") @@ ("Expect" :> "expect")

InLowerCase(b, cases) == IF b \in DOMAIN cases THEN cases[b] ELSE b
LowerByte(b) == InLowerCase(b, LowerCase)
Lower(s) == [i \in DOMAIN s |-> LowerByte(s[i])]

EqIgnoreCase(s, t) == Lower(s) = Lower(t)
=============================================================================
