-------------------------- MODULE MessageBody_proofs --------------------------
(***************************************************************************)
(* Proofs about MessageBody, for every sequence of messages, every limit   *)
(* of a line and every way the network cuts the stream.                    *)
(***************************************************************************)
EXTENDS MessageBody, SequenceFacts

(* The hypothesis of the theorems: every script is one that a sender can   *)
(* encode.  MCMessageBody assumes it of the scripts that it runs; of a     *)
(* script without it, MCEmptyItem shows that RoundTrip is broken.          *)
WellSent == \A s \in Scripts : WellSentScript(s)

(***************************************************************************)
(* The stream of a connection, as the sender cuts it: a message is one     *)
(* piece for each item and one for the end.                                *)
(***************************************************************************)
Bytes == Seq(Symbols)
Pieces(m) == [i \in 1 .. Len(m.items) + 1 |->
                 IF i <= Len(m.items) THEN EncodedItem(m, m.items[i])
                                      ELSE LastChunk(m)]
Encodings(s) == [i \in 1 .. Len(s) |-> Encoded(s[i])]
Stream(s) == FlattenSeq(Encodings(s))

(* What has been sent: whole messages and the first pieces of the next.    *)
SentInv ==
    /\ smsg \in 1 .. Len(script) + 1
    /\ smsg <= Len(script) =>
         /\ sitem \in 1 .. Len(script[smsg].items) + 1
         /\ wire = Ahead(Encodings(script), smsg - 1)
                       \o Ahead(Pieces(script[smsg]), sitem - 1)
    /\ smsg = Len(script) + 1 => wire = Stream(script)

(***************************************************************************)
(* Where the decoder is.                                                   *)
(***************************************************************************)
(* What the decoder has: its state, where it is and what it has returned.  *)
Here == [state |-> state, expected |-> expected, line |-> line, pos |-> pos,
         out |-> out]

(* The line decoder has n bytes of a line and of what ends it.             *)
Partial(text, n) == [buffer |-> SubSeq(text \o CrLf, 1, n), drop_lf |-> FALSE]
InLine(d, start, text) ==
    \E n \in 0 .. Len(text) + 1 : d.line = Partial(text, n) /\ d.pos = start + n
(* The first n bytes of the body have been returned.                       *)
Got(d, m, n) == n \in 0 .. Len(BodyOf(m)) /\ d.out = SubSeq(BodyOf(m), 1, n)

(* The places of a message that starts at o: of piece g, and of its data.  *)
HeaderText(m, g) ==
    IF g <= Len(m.items) THEN ChunkHeaderOf(m, Len(m.items[g])) ELSE << Digits[1] >>
PieceStart(m, o, g) == o + Len(Ahead(Pieces(m), g - 1))
DataStart(m, o, g) == PieceStart(m, o, g) + Len(HeaderText(m, g)) + 2
BodyTo(m, g) == Len(Ahead(m.items, g))

AtHeader(d, m, o) ==
    \E g \in 1 .. Len(m.items) + 1 :
        InLine(d, PieceStart(m, o, g), HeaderText(m, g)) /\ Got(d, m, BodyTo(m, g - 1))
AtData(d, m, o) ==
    \E g \in 1 .. Len(m.items) :
        /\ d.line = NewDecoder
        /\ d.expected \in 1 .. Len(m.items[g])
        /\ d.pos = DataStart(m, o, g) + Len(m.items[g]) - d.expected
        /\ Got(d, m, BodyTo(m, g) - d.expected)
AtDelimiter(d, m, o) ==
    \E g \in 1 .. Len(m.items) :
        /\ InLine(d, DataStart(m, o, g) + Len(m.items[g]), <<>>)
        /\ Got(d, m, BodyTo(m, g))
TrailerStart(m, o) == DataStart(m, o, Len(m.items) + 1)
AtTrailer(d, m, o) ==
    /\ d.out = BodyOf(m)
    /\ \/ m.form # "plain" /\ InLine(d, TrailerStart(m, o), << "x" >>)
       \/ m.form # "plain" /\ InLine(d, TrailerStart(m, o) + 3, <<>>)
       \/ m.form = "plain" /\ InLine(d, TrailerStart(m, o), <<>>)
AtEnd(d, m, o) ==
    d.line = NewDecoder /\ d.out = BodyOf(m) /\ d.pos = o + Len(Encoded(m))

ChunkedAt(d, m, o) ==
    \/ d.state = "ChunkHeader" /\ AtHeader(d, m, o)
    \/ d.state = "ChunkBody" /\ AtData(d, m, o)
    \/ d.state = "ChunkBodyDelimiter" /\ AtDelimiter(d, m, o)
    \/ d.state = "TrailerPart" /\ AtTrailer(d, m, o)
    \/ d.state = "Completed" /\ AtEnd(d, m, o)
FixedAt(d, m, o) ==
    /\ d.state = "Fixed" /\ d.line = NewDecoder
    /\ d.expected \in 0 .. Len(BodyOf(m))
    /\ d.pos = o + Len(BodyOf(m)) - d.expected
    /\ Got(d, m, Len(BodyOf(m)) - d.expected)
SimpleAt(d, m, o) ==
    /\ d.state \in {"Simple", "Completed"} /\ d.line = NewDecoder
    /\ d.pos >= o /\ Got(d, m, d.pos - o)
DecoderAt(d, m, o) ==
    /\ m.framing = "chunked" => ChunkedAt(d, m, o)
    /\ m.framing = "length" => FixedAt(d, m, o)
    /\ m.framing = "eof" => SimpleAt(d, m, o)

(* The decoder is where its message is, unless the connection is lost.     *)
DecodeInv ==
    k <= Len(script) =>
        /\ base = Offset(k)
        /\ rpc # "lost" => DecoderAt(Here, script[k], base)
        /\ \E n \in 0 .. Len(BodyOf(script[k])) : out = SubSeq(BodyOf(script[k]), 1, n)
(* The bodies read to their end.                                           *)
DoneInv ==
    \A i \in 1 .. k - 1 :
        /\ \E n \in 0 .. Len(BodyOf(script[i])) : done[i] = SubSeq(BodyOf(script[i]), 1, n)
        /\ script[i].framing # "eof" => done[i] = BodyOf(script[i])
(* What Body::read has counted so far is within the limit.                 *)
ReadInv ==
    \A i \in DOMAIN script :
        /\ body[i].outcome = "reading" => ~Exceeds(script[i], body[i].size)
        /\ body[i].outcome = "ok" => i < k /\ ~Exceeds(script[i], Len(done[i]))
        /\ body[i].outcome = "exceeded" => Exceeds(script[i], Len(BodyOf(script[i])))
(* Types of what TypeOK leaves out.                                        *)
Outcomes == {"reading", "ok", "exceeded", "error"}
Typed ==
    /\ script \in Scripts
    /\ base \in Nat /\ pos \in Nat /\ avail \in Nat
    /\ base <= pos /\ pos <= avail /\ avail <= Len(wire)
    /\ wire \in Bytes /\ out \in Bytes /\ done \in Seq(Bytes)
    /\ k \in 1 .. Len(script) + 1 /\ Len(done) = k - 1
    /\ rpc \in {"decode", "read", "leave", "idle", "lost"}
    /\ rpc = "idle" <=> k = Len(script) + 1
    /\ body \in [DOMAIN script -> [size : Nat, outcome : Outcomes]]
    /\ \A i \in DOMAIN script : body[i].size <= Len(Arrived(i))
    /\ closed \in BOOLEAN /\ eof \in BOOLEAN
    /\ state \in LineStates \cup {"ChunkBody", "Fixed", "Simple", "Completed"}
    /\ expected \in Nat
    /\ state = "ChunkBody" => expected \in 1 .. Len(Digits) - 1
    /\ Len(line.buffer) <= MaxLineLength
BodyInv == Typed /\ SentInv /\ DecodeInv /\ DoneInv /\ ReadInv
-----------------------------------------------------------------------------
(***************************************************************************)
(* Messages and their pieces.                                              *)
(***************************************************************************)
ShortItems(m) == \A j \in 1 .. Len(m.items) : Len(m.items[j]) \in 0 .. 3

LEMMA Messages ==
    ASSUME NEW s \in Scripts, NEW i \in 1 .. Len(s)
    PROVE  /\ s[i] \in MessageSet /\ ShortItems(s[i])
           /\ s[i].limit \in Seq(Nat) /\ Len(s[i].limit) <= 1
<1>1. s \in Seq(MessageSet) /\ DOMAIN s = 1 .. Len(s)
    BY ScriptsAssumption, LenProperties
<1>2. s[i] \in MessageSet /\ Len(s[i].limit) <= 1
    BY <1>1, ScriptsAssumption, ElementOfSeq
<1>3. s[i].items \in Seq(Bytes) /\ s[i].limit \in Seq(Nat)
    BY <1>2 DEF MessageSet, Bytes
<1>4. ASSUME NEW j \in 1 .. Len(s[i].items) PROVE Len(s[i].items[j]) \in 0 .. 3
  <2>1. j \in DOMAIN s[i].items /\ s[i].items[j] \in Bytes
      BY <1>3, LenProperties, ElementOfSeq
  <2> DEFINE l == Len(s[i].items[j])
             d == Len(Digits)
  <2>2. l < d
      BY <1>1, <2>1, ScriptsAssumption
  <2>3. l \in Nat
      BY <2>1, LenProperties DEF Bytes
  <2>4. d = 4
      BY DEF Digits
  <2> HIDE DEF l, d
  <2>5. l \in 0 .. 3
      BY <2>2, <2>3, <2>4
  <2> QED
      BY <2>5 DEF l
<1> QED
    BY <1>2, <1>3, <1>4 DEF ShortItems

LEMMA ScriptLength ==
    ASSUME NEW s \in Scripts
    PROVE  Len(s) \in Nat \ {0} /\ DOMAIN s = 1 .. Len(s)
<1>1. s \in Seq(MessageSet) /\ s # <<>>
    BY ScriptsAssumption
<1> QED
    BY <1>1, EmptySeq, LenProperties

LEMMA SymbolFacts ==
    /\ CR \in Symbols /\ LF \in Symbols /\ CR # LF
    /\ Semi \in Symbols /\ Semi # LF /\ "x" \in Symbols /\ "x" # LF /\ "x" # Semi
BY DEF Symbols, CR, LF, Semi

LEMMA CrLfFacts ==
    /\ CrLf \in Bytes /\ Len(CrLf) = 2 /\ CrLf[1] = CR /\ CrLf[2] = LF
    /\ <<>> \o CrLf = CrLf
<1>1. \A a, b \in Symbols : <<a, b>> \in Seq(Symbols) /\ Len(<<a, b>>) = 2
    OBVIOUS
<1>2. <<CR, LF>>[1] = CR /\ <<CR, LF>>[2] = LF
    OBVIOUS
<1>3. CrLf \in Seq(Symbols)
    BY <1>1, SymbolFacts DEF CrLf
<1>4. <<>> \o CrLf = CrLf
    BY <1>3, ConcatEmptySeq
<1> QED
    BY <1>1, <1>2, <1>3, <1>4, SymbolFacts DEF CrLf, Bytes

(* A line: bytes without LF, and what ends it.                             *)
IsText(text) ==
    text \in Bytes /\ Len(text) \in Nat /\ \A q \in 1 .. Len(text) : text[q] # LF

LEMMA Line ==
    ASSUME NEW text, IsText(text)
    PROVE  /\ text \o CrLf \in Bytes /\ Len(text \o CrLf) = Len(text) + 2
           /\ \A q \in 1 .. Len(text) : (text \o CrLf)[q] = text[q]
           /\ (text \o CrLf)[Len(text) + 1] = CR
           /\ (text \o CrLf)[Len(text) + 2] = LF
           /\ \A q \in 1 .. Len(text) + 1 : (text \o CrLf)[q] # LF
<1>1. /\ CrLf \in Bytes /\ Len(CrLf) = 2 /\ CrLf[1] = CR /\ CrLf[2] = LF
      /\ CR # LF
    BY CrLfFacts, SymbolFacts
<1> DEFINE c == CrLf
           l == text \o c
<1>2. text \in Seq(Symbols) /\ c \in Seq(Symbols) /\ Len(c) = 2
    BY <1>1 DEF IsText, Bytes
<1>3. c[1] = CR /\ c[2] = LF
    BY <1>1
<1> HIDE DEF c
<1>4. /\ l \in Seq(Symbols) /\ Len(l) = Len(text) + 2
      /\ \A q \in 1 .. Len(text) + 2 :
            l[q] = IF q <= Len(text) THEN text[q] ELSE c[q - Len(text)]
  <2>1. /\ l \in Seq(Symbols) /\ Len(l) = Len(text) + Len(c)
        /\ \A q \in 1 .. Len(text) + Len(c) :
              l[q] = IF q <= Len(text) THEN text[q] ELSE c[q - Len(text)]
      BY <1>2, ConcatProperties
  <2> QED
      BY <1>2, <2>1
<1> HIDE DEF l
<1>5. Len(text) \in Nat /\ \A q \in 1 .. Len(text) : text[q] # LF
    BY DEF IsText
<1>6. /\ \A q \in 1 .. Len(text) : l[q] = text[q]
      /\ l[Len(text) + 1] = CR /\ l[Len(text) + 2] = LF
    BY <1>3, <1>4, <1>5
<1>7. \A q \in 1 .. Len(text) + 1 : l[q] # LF
  <2>1. \A q \in 1 .. Len(text) + 1 : q \in 1 .. Len(text) \/ q = Len(text) + 1
      BY <1>5
  <2> QED
      BY <1>1, <1>5, <1>6, <2>1
<1> QED
    BY <1>4, <1>6, <1>7 DEF l, c, Bytes

LEMMA DigitFacts ==
    ASSUME NEW n \in 0 .. 3
    PROVE  /\ Digits[n + 1] \in Symbols /\ Digits[n + 1] # LF /\ Digits[n + 1] # Semi
           /\ DOMAIN Digits = 1 .. 4 /\ Len(Digits) = 4
<1>1. Digits[1] = "0" /\ Digits[2] = "1" /\ Digits[3] = "2" /\ Digits[4] = "3"
    BY DEF Digits
<1>2. n + 1 = 1 \/ n + 1 = 2 \/ n + 1 = 3 \/ n + 1 = 4
    OBVIOUS
<1>3. Digits[n + 1] = "0" \/ Digits[n + 1] = "1" \/ Digits[n + 1] = "2" \/ Digits[n + 1] = "3"
    BY <1>1, <1>2
<1>4. Digits[n + 1] \in Symbols /\ Digits[n + 1] # LF /\ Digits[n + 1] # Semi
    BY <1>3 DEF Symbols, LF, Semi
<1>5. DOMAIN Digits = 1 .. 4 /\ Len(Digits) = 4
    BY DEF Digits
<1> QED
    BY <1>4, <1>5

IsHeader(t) == IsText(t) /\ Len(t) \in 1 .. 4

LEMMA Texts ==
    ASSUME NEW a \in Symbols, a # LF, NEW b \in Symbols, b # LF,
           NEW c \in Symbols, c # LF
    PROVE  /\ IsText(<<>>) /\ Len(<<>>) = 0
           /\ IsText(<<a>>) /\ Len(<<a>>) = 1
           /\ IsHeader(<<a>>) /\ IsHeader(<<a, b, c>>) /\ IsHeader(<<a, b, c, c>>)
<1>1. /\ <<>> \in Seq(Symbols) /\ <<a>> \in Seq(Symbols)
      /\ <<a, b, c>> \in Seq(Symbols) /\ <<a, b, c, c>> \in Seq(Symbols)
    OBVIOUS
<1>2. /\ Len(<<>>) = 0 /\ Len(<<a>>) = 1
      /\ Len(<<a, b, c>>) = 3 /\ Len(<<a, b, c, c>>) = 4
    OBVIOUS
<1>3. \A q \in 1 .. 1 : <<a>>[q] # LF
    OBVIOUS
<1>4. \A q \in 1 .. 3 : <<a, b, c>>[q] # LF
  <2>1. \A q \in 1 .. 3 : q = 1 \/ q = 2 \/ q = 3
      OBVIOUS
  <2> QED
      BY <2>1
<1>5. \A q \in 1 .. 4 : <<a, b, c, c>>[q] # LF
  <2>1. \A q \in 1 .. 4 : q = 1 \/ q = 2 \/ q = 3 \/ q = 4
      OBVIOUS
  <2> QED
      BY <2>1
<1> QED
    BY <1>1, <1>2, <1>3, <1>4, <1>5 DEF IsText, IsHeader, Bytes

LEMMA HeaderTexts ==
    ASSUME NEW m \in MessageSet, NEW n \in 0 .. 3
    PROVE  IsHeader(ChunkHeaderOf(m, n))
<1> DEFINE d == Digits[n + 1]
<1>1. d \in Symbols /\ d # LF
    BY DigitFacts
<1> HIDE DEF d
<1>2. /\ IsHeader(<<d>>) /\ IsHeader(<<d, Semi, "x">>)
      /\ IsHeader(<<d, Semi, "x", "x">>) /\ IsHeader(<<"x">>)
    BY <1>1, SymbolFacts, Texts
<1>3. m.form \in Forms
    BY DEF MessageSet
<1>4. CASE m.form = "plain"
    BY <1>2, <1>4 DEF ChunkHeaderOf, d
<1>5. CASE m.form = "extended"
    BY <1>2, <1>5 DEF ChunkHeaderOf, d
<1>6. CASE m.form = "long"
    BY <1>2, <1>6 DEF ChunkHeaderOf, d
<1>7. CASE m.form = "garbage"
    BY <1>2, <1>7 DEF ChunkHeaderOf, d
<1> QED
    BY <1>3, <1>4, <1>5, <1>6, <1>7 DEF Forms
-----------------------------------------------------------------------------
(***************************************************************************)
(* The pieces of a message, byte by byte.                                  *)
(***************************************************************************)
LEMMA Concat3 ==
    ASSUME NEW S, NEW a \in Seq(S), NEW b \in Seq(S), NEW c \in Seq(S)
    PROVE  /\ (a \o b) \o c \in Seq(S)
           /\ Len(a) \in Nat /\ Len(b) \in Nat /\ Len(c) \in Nat
           /\ Len((a \o b) \o c) = Len(a) + Len(b) + Len(c)
           /\ \A q \in 1 .. Len(a) : ((a \o b) \o c)[q] = a[q]
           /\ \A q \in 1 .. Len(b) : ((a \o b) \o c)[Len(a) + q] = b[q]
           /\ \A q \in 1 .. Len(c) : ((a \o b) \o c)[Len(a) + Len(b) + q] = c[q]
<1> DEFINE x == a \o b
           y == x \o c
<1>1. Len(a) \in Nat /\ Len(b) \in Nat /\ Len(c) \in Nat
    BY LenProperties
<1>2. /\ x \in Seq(S) /\ Len(x) = Len(a) + Len(b)
      /\ \A i \in 1 .. Len(a) + Len(b) : x[i] = IF i <= Len(a) THEN a[i] ELSE b[i - Len(a)]
    BY ConcatProperties
<1> HIDE DEF x
<1>3. /\ y \in Seq(S) /\ Len(y) = Len(x) + Len(c)
      /\ \A i \in 1 .. Len(x) + Len(c) : y[i] = IF i <= Len(x) THEN x[i] ELSE c[i - Len(x)]
  <2>1. x \in Seq(S)
      BY <1>2
  <2> QED
      BY <2>1, ConcatProperties
<1> HIDE DEF y
<1>4. ASSUME NEW q \in 1 .. Len(a) PROVE y[q] = a[q]
  <2>1. q \in 1 .. Len(a) + Len(b) /\ q \in 1 .. Len(x) + Len(c) /\ q <= Len(x) /\ q <= Len(a)
      BY <1>1, <1>2
  <2> QED
      BY <1>2, <1>3, <2>1
<1>5. ASSUME NEW q \in 1 .. Len(b) PROVE y[Len(a) + q] = b[q]
  <2>1. /\ Len(a) + q \in 1 .. Len(a) + Len(b) /\ Len(a) + q \in 1 .. Len(x) + Len(c)
        /\ Len(a) + q <= Len(x) /\ ~(Len(a) + q <= Len(a)) /\ (Len(a) + q) - Len(a) = q
      BY <1>1, <1>2
  <2> QED
      BY <1>2, <1>3, <2>1
<1>6. ASSUME NEW q \in 1 .. Len(c) PROVE y[Len(a) + Len(b) + q] = c[q]
  <2>1. /\ Len(a) + Len(b) + q \in 1 .. Len(x) + Len(c)
        /\ ~(Len(a) + Len(b) + q <= Len(x)) /\ (Len(a) + Len(b) + q) - Len(x) = q
      BY <1>1, <1>2
  <2> QED
      BY <1>3, <2>1
<1>7. Len(y) = Len(a) + Len(b) + Len(c)
    BY <1>1, <1>2, <1>3
<1> QED
    BY <1>1, <1>3, <1>4, <1>5, <1>6, <1>7 DEF x, y

(* From place a on, a piece has a line and what ends it.                   *)
LineAt(p, a, text) ==
    \A q \in 1 .. Len(text) + 2 : p[a + q] = (text \o CrLf)[q]

(* The piece of an item, and how long the header of its chunk is.          *)
ItemHeader(m, g) == ChunkHeaderOf(m, Len(m.items[g]))
ItemParts(m, g, p, h, i) ==
    /\ p \in Bytes /\ h \in Nat /\ i \in Nat /\ Len(p) = h + 2 + i + 2
    /\ LineAt(p, 0, ItemHeader(m, g))
    /\ \A q \in 1 .. i : p[h + 2 + q] = m.items[g][q]
    /\ LineAt(p, h + 2 + i, <<>>)

LEMMA ItemPiece ==
    ASSUME NEW m \in MessageSet, ShortItems(m), m.framing = "chunked",
           NEW g \in 1 .. Len(m.items)
    PROVE  ItemParts(m, g, EncodedItem(m, m.items[g]), Len(ItemHeader(m, g)), Len(m.items[g]))
<1> DEFINE p == EncodedItem(m, m.items[g])
           h == Len(ItemHeader(m, g))
           i == Len(m.items[g])
           t == ChunkHeaderOf(m, Len(m.items[g]))
           a == t \o CrLf
           b == m.items[g]
           c == CrLf
<1>1. m.items \in Seq(Bytes)
    BY DEF MessageSet, Bytes
<1>2. b \in Bytes /\ i \in 0 .. 3
    BY <1>1, ElementOfSeq DEF ShortItems
<1>3. IsText(t) /\ Len(t) \in 1 .. 4
    BY <1>2, HeaderTexts DEF IsHeader
<1>4. IsText(<<>>) /\ Len(<<>>) = 0
    BY SymbolFacts, Texts
<1>5. <<>> \o CrLf = c /\ c \in Bytes /\ Len(c) = 2
    BY CrLfFacts
<1>6. p = (a \o b) \o c
    BY DEF EncodedItem
<1>7. a \in Bytes /\ Len(a) = Len(t) + 2 /\ Len(t) = h
    BY <1>3, Line DEF ItemHeader
<1> HIDE DEF p, h, i, t, a, b, c
<1>8. a \in Seq(Symbols) /\ b \in Seq(Symbols) /\ c \in Seq(Symbols)
    BY <1>2, <1>5, <1>7 DEF Bytes
<1>9. /\ p \in Seq(Symbols) /\ Len(p) = Len(a) + Len(b) + Len(c)
      /\ \A q \in 1 .. Len(a) : p[q] = a[q]
      /\ \A q \in 1 .. Len(b) : p[Len(a) + q] = b[q]
      /\ \A q \in 1 .. Len(c) : p[Len(a) + Len(b) + q] = c[q]
    BY <1>6, <1>8, Concat3
<1>10. Len(a) = h + 2 /\ Len(b) = i /\ Len(c) = 2 /\ h \in Nat /\ i \in Nat
  <2>1. Len(b) = i
      BY DEF b, i
  <2> QED
      BY <1>2, <1>3, <1>5, <1>7, <2>1
<1>11. LineAt(p, 0, t)
    BY <1>7, <1>9, <1>10 DEF LineAt, a
<1>12. LineAt(p, h + 2 + i, <<>>)
  <2>1. Len(<<>>) + 2 = 2
      BY <1>4
  <2>2. \A q \in 1 .. 2 : p[h + 2 + i + q] = c[q]
      BY <1>9, <1>10
  <2>3. \A q \in 1 .. 2 : p[h + 2 + i + q] = (<<>> \o CrLf)[q]
      BY <1>5, <2>2
  <2> QED
      BY <2>1, <2>3 DEF LineAt
<1>13. t = ItemHeader(m, g) /\ \A q \in 1 .. i : b[q] = m.items[g][q]
    BY DEF t, b, ItemHeader
<1>14. ItemParts(m, g, p, h, i)
  <2>1. Len(p) = h + 2 + i + 2 /\ p \in Bytes
      BY <1>9, <1>10 DEF Bytes
  <2>2. \A q \in 1 .. i : p[h + 2 + q] = m.items[g][q]
      BY <1>9, <1>10, <1>13
  <2> QED
      BY <1>10, <1>11, <1>12, <1>13, <2>1, <2>2 DEF ItemParts
<1> QED
    BY <1>14 DEF p, h, i

LEMMA LastPiece ==
    ASSUME NEW m \in MessageSet, m.framing = "chunked", NEW p, p = LastChunk(m)
    PROVE  /\ p \in Bytes
           /\ LineAt(p, 0, << Digits[1] >>)
           /\ m.form = "plain" => Len(p) = 5 /\ LineAt(p, 3, <<>>)
           /\ m.form # "plain" =>
                Len(p) = 8 /\ LineAt(p, 3, << "x" >>) /\ LineAt(p, 6, <<>>)
<1> DEFINE t == << Digits[1] >>
           x == << "x" >>
           a == t \o CrLf
           c == CrLf
<1>1. IsText(t) /\ Len(t) = 1 /\ IsText(x) /\ Len(x) = 1 /\ IsText(<<>>) /\ Len(<<>>) = 0
  <2>1. \A n \in 0 .. 3 : Digits[n + 1] \in Symbols /\ Digits[n + 1] # LF
      BY DigitFacts
  <2>2. 0 \in 0 .. 3 /\ 0 + 1 = 1
      OBVIOUS
  <2>3. Digits[1] \in Symbols /\ Digits[1] # LF
      BY <2>1, <2>2
  <2> QED
      BY <2>3, SymbolFacts, Texts
<1>2. <<>> \o CrLf = c /\ c \in Bytes /\ Len(c) = 2
    BY CrLfFacts
<1> DEFINE b == Trailer(m)
<1>3. p = (a \o b) \o c
    BY DEF LastChunk
<1>4. a \in Bytes /\ Len(a) = 3
  <2>1. Len(t \o CrLf) = Len(t) + 2 /\ t \o CrLf \in Bytes
      BY <1>1, Line
  <2> QED
      BY <1>1, <2>1
<1> HIDE DEF t, a, c
<1>5. x \o CrLf \in Bytes /\ Len(x \o CrLf) = 3
  <2>1. Len(x \o CrLf) = Len(x) + 2 /\ x \o CrLf \in Bytes
      BY <1>1, Line
  <2> QED
      BY <1>1, <2>1
<1>6. CASE m.form = "plain"
  <2>1. b = <<>> /\ b \in Seq(Symbols) /\ Len(b) = 0
      BY <1>6 DEF Trailer
  <2> HIDE DEF b
  <2>2. a \in Seq(Symbols) /\ c \in Seq(Symbols)
      BY <1>2, <1>4 DEF Bytes
  <2>3. /\ p \in Seq(Symbols) /\ Len(p) = Len(a) + Len(b) + Len(c)
        /\ \A q \in 1 .. Len(a) : p[q] = a[q]
        /\ \A q \in 1 .. Len(c) : p[Len(a) + Len(b) + q] = c[q]
      BY <1>3, <2>1, <2>2, Concat3
  <2>4. LineAt(p, 0, t)
      BY <1>1, <1>4, <2>3 DEF LineAt, a
  <2>5. LineAt(p, 3, <<>>)
      BY <1>1, <1>2, <1>4, <2>1, <2>3 DEF LineAt
  <2>6. Len(p) = 5
      BY <1>2, <1>4, <2>1, <2>3
  <2> QED
      BY <1>6, <2>3, <2>4, <2>5, <2>6 DEF Bytes, t
<1>7. CASE m.form # "plain"
  <2>1. b = x \o CrLf
      BY <1>7 DEF Trailer
  <2> HIDE DEF x
  <2>2. a \in Seq(Symbols) /\ b \in Seq(Symbols) /\ c \in Seq(Symbols) /\ Len(b) = 3
      BY <1>2, <1>4, <1>5, <2>1 DEF Bytes
  <2> HIDE DEF b
  <2>8. a \in Seq(Symbols) /\ b \in Seq(Symbols) /\ c \in Seq(Symbols)
      BY <2>2
  <2>3. /\ p \in Seq(Symbols) /\ Len(p) = Len(a) + Len(b) + Len(c)
        /\ \A q \in 1 .. Len(a) : p[q] = a[q]
        /\ \A q \in 1 .. Len(b) : p[Len(a) + q] = b[q]
        /\ \A q \in 1 .. Len(c) : p[Len(a) + Len(b) + q] = c[q]
      BY <1>3, <2>8, Concat3
  <2>4. LineAt(p, 0, t)
      BY <1>1, <1>4, <2>3 DEF LineAt, a
  <2>5. LineAt(p, 3, x)
    <3>1. Len(x) + 2 = 3
        BY <1>1
    <3>2. \A q \in 1 .. 3 : p[3 + q] = b[q]
        BY <1>4, <2>2, <2>3
    <3>3. \A q \in 1 .. Len(x) + 2 : p[3 + q] = (x \o CrLf)[q]
        BY <2>1, <3>1, <3>2
    <3> QED
        BY <3>3 DEF LineAt
  <2>6. LineAt(p, 6, <<>>)
      BY <1>1, <1>2, <1>4, <2>2, <2>3 DEF LineAt
  <2>7. Len(p) = 8
      BY <1>2, <1>4, <2>2, <2>3
  <2> QED
      BY <1>7, <2>3, <2>4, <2>5, <2>6, <2>7 DEF Bytes, t, x
<1> QED
    BY <1>6, <1>7

(* A message is its pieces, one after the other.                           *)
LEMMA MessagePieces ==
    ASSUME NEW m \in MessageSet, ShortItems(m)
    PROVE  /\ m.items \in Seq(Bytes) /\ Len(m.items) \in Nat
           /\ Pieces(m) \in Seq(Bytes) /\ Len(Pieces(m)) = Len(m.items) + 1
           /\ \A g \in 1 .. Len(m.items) : Pieces(m)[g] = EncodedItem(m, m.items[g])
           /\ Pieces(m)[Len(m.items) + 1] = LastChunk(m)
           /\ Encoded(m) = FlattenSeq(Pieces(m)) /\ Encoded(m) \in Bytes
           /\ BodyOf(m) \in Bytes
           /\ m.framing # "chunked" => Encoded(m) = BodyOf(m)
<1> DEFINE l == Len(m.items)
           h == [i \in 1 .. l |-> EncodedItem(m, m.items[i])]
           f == Pieces(m)
<1>1. m.items \in Seq(Bytes)
    BY DEF MessageSet, Bytes
<1>2. l \in Nat /\ DOMAIN m.items = 1 .. l
    BY <1>1, LenProperties
<1>3. ASSUME NEW g \in 1 .. l PROVE m.items[g] \in Bytes /\ EncodedItem(m, m.items[g]) \in Bytes
  <2>1. m.items[g] \in Bytes
      BY <1>1, ElementOfSeq
  <2>2. CASE m.framing = "chunked"
      BY <2>1, <2>2, ItemPiece DEF ItemParts
  <2>3. CASE m.framing # "chunked"
      BY <2>1, <2>3 DEF EncodedItem
  <2> QED
      BY <2>1, <2>2, <2>3
<1>4. LastChunk(m) \in Bytes
  <2>1. CASE m.framing = "chunked"
      BY <2>1, LastPiece
  <2>2. CASE m.framing # "chunked"
      BY <2>2 DEF LastChunk, Bytes
  <2> QED
      BY <2>1, <2>2
<1>5. /\ f = [i \in 1 .. l + 1 |-> IF i <= l THEN EncodedItem(m, m.items[i]) ELSE LastChunk(m)]
      /\ \A g \in 1 .. l : f[g] = EncodedItem(m, m.items[g])
      /\ f[l + 1] = LastChunk(m)
  <2>1. l + 1 \in 1 .. l + 1 /\ ~(l + 1 <= l)
      BY <1>2
  <2>2. \A g \in 1 .. l : g \in 1 .. l + 1 /\ g <= l
      BY <1>2
  <2> QED
      BY <2>1, <2>2 DEF Pieces
<1> HIDE DEF f
<1> DEFINE Q == Bytes
<1>6. Closed(Q)
    BY SeqClosed DEF Bytes
<1> HIDE DEF Q
<1>7. h \in [1 .. l -> Q] /\ f \in [1 .. l + 1 -> Q]
    BY <1>2, <1>3, <1>4, <1>5 DEF Q
<1>8. \A i \in 1 .. l : f[i] = h[i]
    BY <1>5
<1>9. Encoded(m) = FlattenSeq(h) \o LastChunk(m)
    BY <1>2 DEF Encoded
<1> HIDE DEF h
<1>10. FlattenSeq(f) = FlattenSeq(h) \o f[l + 1]
    BY <1>2, <1>6, <1>7, <1>8, FlattenExtend
<1>11. Encoded(m) = FlattenSeq(f)
    BY <1>5, <1>9, <1>10
<1>12. f \in Seq(Q) /\ Len(f) = l + 1
    BY <1>2, <1>7
<1>13. FlattenSeq(f) \in Q /\ FlattenSeq(m.items) \in Q
  <2>1. m.items \in Seq(Q)
      BY <1>1 DEF Q
  <2> QED
      BY <1>6, <1>12, <2>1, FlattenType
<1>14. ASSUME m.framing # "chunked" PROVE Encoded(m) = BodyOf(m)
  <2>1. h = m.items
    <3>1. \A i \in 1 .. l : h[i] = m.items[i]
        BY <1>14 DEF h, EncodedItem
    <3>2. m.items \in Seq(Q) /\ h \in Seq(Q) /\ Len(h) = l
      <4>1. h \in Seq(Q) /\ Len(h) = l
          BY <1>2, <1>7
      <4> QED
          BY <1>1, <4>1 DEF Q
    <3> QED
        BY <3>1, <3>2, SeqEqual
  <2>2. FlattenSeq(h) \o <<>> = FlattenSeq(h)
      BY <1>6, <1>13, <2>1 DEF Closed
  <2>3. LastChunk(m) = <<>>
      BY <1>14 DEF LastChunk
  <2> QED
      BY <1>9, <2>1, <2>2, <2>3 DEF BodyOf
<1> QED
    BY <1>1, <1>2, <1>5, <1>11, <1>12, <1>13, <1>14 DEF f, Q, BodyOf
-----------------------------------------------------------------------------
(***************************************************************************)
(* The stream of a script, and the bytes on the wire.                      *)
(***************************************************************************)
LEMMA EncodingsOf ==
    ASSUME NEW s \in Scripts
    PROVE  /\ Encodings(s) \in Seq(Seq(Symbols)) /\ Len(Encodings(s)) = Len(s)
           /\ Len(s) \in Nat
           /\ \A i \in 1 .. Len(s) : Encodings(s)[i] = Encoded(s[i])
<1> DEFINE l == Len(s)
           e == Encodings(s)
<1>1. l \in Nat
    BY ScriptLength
<1>2. \A i \in 1 .. l : Encoded(s[i]) \in Bytes
    BY Messages, MessagePieces
<1>3. e = [i \in 1 .. l |-> Encoded(s[i])]
    BY DEF Encodings
<1> HIDE DEF l, e
<1> DEFINE Q == Bytes
<1>4. \A i \in 1 .. l : Encoded(s[i]) \in Q
    BY <1>2
<1> HIDE DEF Q
<1>5. e \in Seq(Q) /\ Len(e) = l /\ \A i \in 1 .. l : e[i] = Encoded(s[i])
    BY <1>1, <1>3, <1>4
<1> QED
    BY <1>1, <1>5 DEF Q, Bytes, l, e

LEMMA OffsetIs ==
    ASSUME script \in Scripts, NEW i \in 1 .. Len(script) + 1
    PROVE  Offset(i) = Len(Ahead(Encodings(script), i - 1))
<1>1. /\ Len(script) \in Nat
      /\ \A j \in 1 .. Len(script) : Encodings(script)[j] = Encoded(script[j])
    BY EncodingsOf
<1>2. \A j \in 1 .. i - 1 : j \in 1 .. Len(script)
    BY <1>1
<1>3. [j \in 1 .. i - 1 |-> Encoded(script[j])] = [j \in 1 .. i - 1 |-> Encodings(script)[j]]
    BY <1>1, <1>2
<1> QED
    BY <1>3 DEF Offset, Ahead

(* Message i stands between Offset(i) and Offset(i + 1) in the stream.     *)
LEMMA StreamAt ==
    ASSUME script \in Scripts, NEW i \in 1 .. Len(script), NEW e, e = Encoded(script[i])
    PROVE  /\ Stream(script) \in Bytes /\ Len(Stream(script)) \in Nat
           /\ e \in Bytes /\ Len(e) \in Nat
           /\ Offset(i) \in Nat /\ Offset(i + 1) = Offset(i) + Len(e)
           /\ Offset(i + 1) <= Len(Stream(script))
           /\ i = Len(script) => Offset(i + 1) = Len(Stream(script))
           /\ \A q \in 1 .. Len(e) : Stream(script)[Offset(i) + q] = e[q]
<1> DEFINE s == Encodings(script)
<1>1. /\ s \in Seq(Seq(Symbols)) /\ Len(s) = Len(script) /\ Len(script) \in Nat
      /\ s[i] = e
    BY EncodingsOf
<1>2. Stream(script) = FlattenSeq(s)
    BY DEF Stream
<1>3. Offset(i) = Len(Ahead(s, i - 1)) /\ Offset(i + 1) = Len(Ahead(s, i))
  <2>1. i \in 1 .. Len(script) + 1 /\ i + 1 \in 1 .. Len(script) + 1 /\ (i + 1) - 1 = i
      BY <1>1
  <2> QED
      BY <2>1, OffsetIs
<1> HIDE DEF s
<1>4. i \in 1 .. Len(s)
    BY <1>1
<1>5. /\ s[i] \in Seq(Symbols) /\ Len(s[i]) \in Nat
      /\ FlattenSeq(s) \in Seq(Symbols)
      /\ Len(Ahead(s, i - 1)) \in Nat
      /\ Len(Ahead(s, i)) = Len(Ahead(s, i - 1)) + Len(s[i])
      /\ Len(Ahead(s, i)) <= Len(FlattenSeq(s))
      /\ \A q \in 1 .. Len(s[i]) : FlattenSeq(s)[Len(Ahead(s, i - 1)) + q] = s[i][q]
    BY <1>1, <1>4, FlattenAt
<1>6. i = Len(script) => Ahead(s, i) = FlattenSeq(s)
  <2> DEFINE Q == Seq(Symbols)
  <2>1. s \in Seq(Q)
      BY <1>1
  <2> HIDE DEF Q
  <2>2. Ahead(s, Len(s)) = FlattenSeq(s)
      BY <2>1, AheadAll
  <2> QED
      BY <1>1, <2>2
<1>7. Len(Stream(script)) \in Nat
    BY <1>2, <1>5, LenProperties
<1> QED
    BY <1>1, <1>2, <1>3, <1>5, <1>6, <1>7 DEF Bytes

LEMMA FirstOffset == script \in Scripts => Offset(1) = 0
<1> SUFFICES ASSUME script \in Scripts PROVE Offset(1) = 0
    OBVIOUS
<1>1. 1 \in 1 .. Len(script) + 1 /\ 1 - 1 = 0
    BY ScriptLength
<1>2. Offset(1) = Len(Ahead(Encodings(script), 0))
    BY <1>1, OffsetIs
<1> QED
    BY <1>2, AheadEmpty

(* Piece g of a message in its encoding.                                   *)
LEMMA PieceAt ==
    ASSUME NEW m \in MessageSet, ShortItems(m), NEW g \in 1 .. Len(m.items) + 1
    PROVE  /\ Pieces(m)[g] \in Bytes /\ Len(Pieces(m)[g]) \in Nat
           /\ Len(Ahead(Pieces(m), g - 1)) \in Nat
           /\ Len(Ahead(Pieces(m), g))
                 = Len(Ahead(Pieces(m), g - 1)) + Len(Pieces(m)[g])
           /\ Len(Ahead(Pieces(m), g)) <= Len(Encoded(m))
           /\ g = Len(m.items) + 1 => Len(Ahead(Pieces(m), g)) = Len(Encoded(m))
           /\ \A q \in 1 .. Len(Pieces(m)[g]) :
                 Encoded(m)[Len(Ahead(Pieces(m), g - 1)) + q] = Pieces(m)[g][q]
<1> DEFINE s == Pieces(m)
<1>1. /\ s \in Seq(Bytes) /\ Len(s) = Len(m.items) + 1 /\ Len(m.items) \in Nat
      /\ Encoded(m) = FlattenSeq(s)
    BY MessagePieces
<1> HIDE DEF s
<1>3. g \in 1 .. Len(s) /\ s \in Seq(Seq(Symbols))
    BY <1>1 DEF Bytes
<1>4. /\ s[g] \in Seq(Symbols) /\ Len(s[g]) \in Nat
      /\ Len(Ahead(s, g - 1)) \in Nat
      /\ Len(Ahead(s, g)) = Len(Ahead(s, g - 1)) + Len(s[g])
      /\ Len(Ahead(s, g)) <= Len(FlattenSeq(s))
      /\ \A q \in 1 .. Len(s[g]) : FlattenSeq(s)[Len(Ahead(s, g - 1)) + q] = s[g][q]
    BY <1>3, FlattenAt
<1>5. g = Len(m.items) + 1 => Ahead(s, g) = FlattenSeq(s)
  <2> DEFINE Q == Bytes
  <2>1. s \in Seq(Q)
      BY <1>1
  <2> HIDE DEF Q
  <2>2. Ahead(s, Len(s)) = FlattenSeq(s)
      BY <2>1, AheadAll
  <2> QED
      BY <1>1, <2>2
<1> QED
    BY <1>1, <1>4, <1>5 DEF Bytes, s

(* Where an item stands in the body.                                       *)
LEMMA ItemAt ==
    ASSUME NEW m \in MessageSet, NEW g \in 1 .. Len(m.items)
    PROVE  /\ m.items[g] \in Bytes /\ Len(m.items[g]) \in Nat
           /\ BodyTo(m, g - 1) \in Nat
           /\ BodyTo(m, g) = BodyTo(m, g - 1) + Len(m.items[g])
           /\ BodyTo(m, g) <= Len(BodyOf(m))
           /\ \A q \in 1 .. Len(m.items[g]) :
                 BodyOf(m)[BodyTo(m, g - 1) + q] = m.items[g][q]
<1> DEFINE s == m.items
<1>1. s \in Seq(Seq(Symbols))
    BY DEF MessageSet
<1> HIDE DEF s
<1>2. g \in 1 .. Len(s)
    BY DEF s
<1>3. /\ s[g] \in Seq(Symbols) /\ Len(s[g]) \in Nat
      /\ Len(Ahead(s, g - 1)) \in Nat
      /\ Len(Ahead(s, g)) = Len(Ahead(s, g - 1)) + Len(s[g])
      /\ Len(Ahead(s, g)) <= Len(FlattenSeq(s))
      /\ \A q \in 1 .. Len(s[g]) : FlattenSeq(s)[Len(Ahead(s, g - 1)) + q] = s[g][q]
    BY <1>1, <1>2, FlattenAt
<1> QED
    BY <1>3 DEF s, BodyTo, BodyOf, Bytes

LEMMA BodyEnds ==
    ASSUME NEW m \in MessageSet
    PROVE  /\ BodyTo(m, 0) = 0 /\ BodyTo(m, Len(m.items)) = Len(BodyOf(m))
           /\ BodyOf(m) \in Bytes /\ Len(BodyOf(m)) \in Nat /\ Len(m.items) \in Nat
<1> DEFINE Q == Bytes
           s == m.items
<1>1. s \in Seq(Q) /\ Closed(Q)
    BY SeqClosed DEF MessageSet, Bytes
<1> HIDE DEF Q, s
<1>2. Ahead(s, Len(s)) = FlattenSeq(s) /\ FlattenSeq(s) \in Q /\ Len(s) \in Nat
    BY <1>1, AheadAll, FlattenType, LenProperties
<1>3. Ahead(s, 0) = <<>> /\ Len(<<>>) = 0
    BY AheadEmpty
<1>4. Len(FlattenSeq(s)) \in Nat
    BY <1>2, LenProperties DEF Q, Bytes
<1> QED
    BY <1>2, <1>3, <1>4 DEF BodyTo, BodyOf, Q, s
-----------------------------------------------------------------------------
(***************************************************************************)
(* What is on the wire is a beginning of the stream.                       *)
(***************************************************************************)
LEMMA AheadPrefix ==
    ASSUME NEW s \in Seq(Seq(Symbols)), NEW g \in 0 .. Len(s),
           NEW a, a = Ahead(s, g)
    PROVE  /\ a \in Bytes /\ Len(a) \in Nat
           /\ FlattenSeq(s) \in Bytes /\ Len(FlattenSeq(s)) \in Nat
           /\ Len(a) <= Len(FlattenSeq(s))
           /\ \A q \in 1 .. Len(a) : FlattenSeq(s)[q] = a[q]
<1>1. Len(s) \in Nat /\ Len(s) \in 0 .. Len(s) /\ Len(s) \in g .. Len(s)
    BY LenProperties
<1>2. /\ Ahead(s, g) \in Seq(Symbols) /\ Len(Ahead(s, g)) \in Nat
      /\ Ahead(s, Len(s)) \in Seq(Symbols) /\ Len(Ahead(s, Len(s))) \in Nat
    BY <1>1, AheadType
<1>3. /\ Len(Ahead(s, g)) <= Len(Ahead(s, Len(s)))
      /\ \A q \in 1 .. Len(Ahead(s, g)) : Ahead(s, Len(s))[q] = Ahead(s, g)[q]
    BY <1>1, AheadGrows
<1> DEFINE Q == Seq(Symbols)
<1>4. s \in Seq(Q)
    OBVIOUS
<1> HIDE DEF Q
<1>5. Ahead(s, Len(s)) = FlattenSeq(s)
    BY <1>4, AheadAll
<1> QED
    BY <1>2, <1>3, <1>5 DEF Bytes

LEMMA WireIs ==
    ASSUME script \in Scripts, SentInv
    PROVE  /\ wire \in Bytes /\ Len(wire) \in Nat
           /\ Stream(script) \in Bytes /\ Len(Stream(script)) \in Nat
           /\ Len(wire) <= Len(Stream(script))
           /\ \A q \in 1 .. Len(wire) : wire[q] = Stream(script)[q]
<1> DEFINE e == Encodings(script)
           t == Stream(script)
<1>1. /\ e \in Seq(Seq(Symbols)) /\ Len(e) = Len(script) /\ Len(script) \in Nat
      /\ t = FlattenSeq(e) /\ smsg \in 1 .. Len(script) + 1
    BY EncodingsOf DEF Stream, SentInv
<1> HIDE DEF e, t
<1>2. CASE smsg = Len(script) + 1
  <2>1. wire = t
      BY <1>2 DEF SentInv, t
  <2>2. Len(e) \in 0 .. Len(e)
      BY <1>1
  <2>3. t \in Bytes /\ Len(t) \in Nat
      BY <1>1, <2>2, AheadPrefix
  <2> QED
      BY <2>1, <2>3 DEF t
<1>3. CASE smsg <= Len(script)
  <2> DEFINE m == script[smsg]
             p == Pieces(m)
             a == Ahead(e, smsg - 1)
             b == Ahead(p, sitem - 1)
  <2>1. smsg \in 1 .. Len(script)
      BY <1>1, <1>3
  <2>2. m \in MessageSet /\ ShortItems(m)
      BY <2>1, Messages
  <2>3. sitem \in 1 .. Len(m.items) + 1 /\ wire = a \o b
      BY <1>3 DEF SentInv, e
  <2>4. /\ p \in Seq(Seq(Symbols)) /\ Len(p) = Len(m.items) + 1
        /\ Len(m.items) \in Nat /\ FlattenSeq(p) = Encoded(m)
      BY <2>2, MessagePieces DEF Bytes
  <2>5. Len(a) = Offset(smsg)
      BY <1>1, <2>1, OffsetIs DEF e
  <2> HIDE DEF p, a, b
  <2>6. /\ a \in Bytes /\ Len(a) \in Nat /\ t \in Bytes /\ Len(t) \in Nat
        /\ \A q \in 1 .. Len(a) : t[q] = a[q]
    <3>1. smsg - 1 \in 0 .. Len(e)
        BY <1>1, <2>1
    <3> QED
        BY <1>1, <3>1, AheadPrefix DEF a
  <2>7. /\ b \in Bytes /\ Len(b) \in Nat /\ Len(b) <= Len(Encoded(m))
        /\ \A q \in 1 .. Len(b) : Encoded(m)[q] = b[q]
    <3>1. sitem - 1 \in 0 .. Len(p)
        BY <2>3, <2>4
    <3> QED
        BY <2>4, <3>1, AheadPrefix DEF b
  <2> HIDE DEF m
  <2>8. /\ Len(Encoded(m)) \in Nat /\ Offset(smsg + 1) = Offset(smsg) + Len(Encoded(m))
        /\ Offset(smsg + 1) <= Len(t)
        /\ \A q \in 1 .. Len(Encoded(m)) : t[Offset(smsg) + q] = Encoded(m)[q]
      BY <1>1, <2>1, StreamAt DEF m, t
  <2>9. /\ wire \in Bytes /\ Len(wire) = Len(a) + Len(b)
        /\ \A i \in 1 .. Len(a) + Len(b) :
              wire[i] = IF i <= Len(a) THEN a[i] ELSE b[i - Len(a)]
    <3>1. a \in Seq(Symbols) /\ b \in Seq(Symbols)
        BY <2>6, <2>7 DEF Bytes
    <3>2. /\ a \o b \in Seq(Symbols) /\ Len(a \o b) = Len(a) + Len(b)
          /\ \A i \in 1 .. Len(a) + Len(b) :
                (a \o b)[i] = IF i <= Len(a) THEN a[i] ELSE b[i - Len(a)]
        BY <3>1, ConcatProperties
    <3> QED
        BY <2>3, <3>2 DEF Bytes
  <2>10. ASSUME NEW q \in 1 .. Len(wire) PROVE wire[q] = t[q]
    <3>1. CASE q <= Len(a)
        BY <2>6, <2>7, <2>9, <3>1
    <3>2. CASE ~(q <= Len(a))
      <4>1. /\ q - Len(a) \in 1 .. Len(b) /\ q - Len(a) \in 1 .. Len(Encoded(m))
            /\ q \in 1 .. Len(a) + Len(b)
          BY <2>6, <2>7, <2>8, <2>9, <3>2
      <4>2. wire[q] = b[q - Len(a)] /\ b[q - Len(a)] = Encoded(m)[q - Len(a)]
          BY <2>7, <2>9, <3>2, <4>1
      <4>3. t[Offset(smsg) + (q - Len(a))] = Encoded(m)[q - Len(a)]
          BY <2>8, <4>1
      <4>4. Offset(smsg) + (q - Len(a)) = q
          BY <2>5, <2>6
      <4> QED
          BY <4>2, <4>3, <4>4
    <3> QED
        BY <3>1, <3>2
  <2>11. Len(wire) \in Nat /\ Len(wire) <= Len(t)
      BY <2>5, <2>6, <2>7, <2>8, <2>9
  <2> QED
      BY <2>6, <2>9, <2>10, <2>11 DEF t
<1>4. smsg = Len(script) + 1 \/ smsg <= Len(script)
    BY <1>1
<1> QED
    BY <1>2, <1>3, <1>4

(* The bytes of the wire that belong to the message the reader is at: a    *)
(* byte q of a piece, and the whole of the last message.                   *)
PieceSent(m, o, g, p) ==
    /\ p \in Bytes /\ Len(p) \in Nat /\ PieceStart(m, o, g) \in Nat
    /\ PieceStart(m, o, g + 1) = PieceStart(m, o, g) + Len(p)
    /\ g = Len(m.items) + 1 => PieceStart(m, o, g) + Len(p) = o + Len(Encoded(m))
    /\ \A q \in 1 .. Len(p) :
          PieceStart(m, o, g) + q <= Len(wire) => wire[PieceStart(m, o, g) + q] = p[q]

LEMMA WireAt ==
    ASSUME script \in Scripts, SentInv, k \in 1 .. Len(script),
           NEW m, m = script[k], NEW g \in 1 .. Len(m.items) + 1,
           NEW p, p = Pieces(m)[g]
    PROVE  PieceSent(m, Offset(k), g, p)
<1> DEFINE e == Encoded(m)
           c == Len(Ahead(Pieces(m), g - 1))
           d == Len(Ahead(Pieces(m), g))
           o == Offset(k)
           a == PieceStart(m, o, g)
           l == Len(p)
<1>1. m \in MessageSet /\ ShortItems(m)
    BY Messages
<1>2. Len(m.items) \in Nat
    BY <1>1, BodyEnds
<1>3. /\ Len(e) \in Nat /\ o \in Nat
      /\ \A q \in 1 .. Len(e) : Stream(script)[o + q] = e[q]
    BY StreamAt
<1>4. /\ p \in Bytes /\ l \in Nat /\ c \in Nat /\ d = c + l
      /\ d <= Len(e)
      /\ g = Len(m.items) + 1 => d = Len(e)
      /\ \A q \in 1 .. l : e[c + q] = p[q]
    BY <1>1, PieceAt
<1>5. Len(wire) \in Nat /\ \A q \in 1 .. Len(wire) : wire[q] = Stream(script)[q]
    BY WireIs
<1>6. a = o + c
    BY DEF PieceStart
<1>7. PieceStart(m, o, g + 1) = o + d
  <2>1. (g + 1) - 1 = g
      BY <1>2
  <2> QED
      BY <2>1 DEF PieceStart
<1> HIDE DEF e, c, d, o, a, l
<1>8. ASSUME NEW q \in 1 .. l, a + q <= Len(wire) PROVE wire[a + q] = p[q]
  <2>1. a + q \in 1 .. Len(wire) /\ c + q \in 1 .. Len(e) /\ a + q = o + (c + q)
      BY <1>3, <1>4, <1>5, <1>6, <1>8
  <2> QED
      BY <1>3, <1>4, <1>5, <2>1
<1>9. /\ a \in Nat /\ PieceStart(m, o, g + 1) = a + l
      /\ g = Len(m.items) + 1 => a + l = o + Len(e)
  <2>1. a \in Nat /\ a + l = o + d
      BY <1>3, <1>4, <1>6
  <2> QED
      BY <1>4, <1>7, <2>1
<1> QED
    BY <1>4, <1>8, <1>9 DEF PieceSent, e, a, l, o

LEMMA WireBody ==
    ASSUME script \in Scripts, SentInv, NEW i \in 1 .. Len(script),
           NEW m, m = script[i], m.framing # "chunked"
    PROVE  /\ Encoded(m) = BodyOf(m) /\ BodyOf(m) \in Bytes /\ Len(BodyOf(m)) \in Nat
           /\ Offset(i) \in Nat /\ Len(wire) \in Nat
           /\ i = Len(script) => Len(wire) <= Offset(i) + Len(BodyOf(m))
           /\ \A q \in 1 .. Len(BodyOf(m)) :
                 Offset(i) + q <= Len(wire) => wire[Offset(i) + q] = BodyOf(m)[q]
<1> DEFINE e == Encoded(m)
           t == Stream(script)
<1>1. m \in MessageSet /\ ShortItems(m)
    BY Messages
<1>2. e = BodyOf(m) /\ BodyOf(m) \in Bytes
    BY <1>1, MessagePieces
<1>3. /\ Len(e) \in Nat /\ Offset(i) \in Nat
      /\ Offset(i + 1) = Offset(i) + Len(e)
      /\ i = Len(script) => Offset(i + 1) = Len(t)
      /\ \A q \in 1 .. Len(e) : t[Offset(i) + q] = e[q]
    BY StreamAt
<1>4. /\ Len(wire) \in Nat /\ Len(wire) <= Len(t)
      /\ \A q \in 1 .. Len(wire) : wire[q] = t[q]
    BY WireIs
<1> HIDE DEF e, t
<1>5. ASSUME NEW q \in 1 .. Len(e), Offset(i) + q <= Len(wire)
      PROVE  wire[Offset(i) + q] = e[q]
  <2>1. Offset(i) + q \in 1 .. Len(wire)
      BY <1>3, <1>4, <1>5
  <2> QED
      BY <1>3, <1>4, <2>1
<1>6. i = Len(script) => Len(wire) <= Offset(i) + Len(e)
    BY <1>3, <1>4
<1> QED
    BY <1>2, <1>3, <1>4, <1>5, <1>6 DEF e
-----------------------------------------------------------------------------
(***************************************************************************)
(* A turn of the line decoder on the next byte of a line.                  *)
(***************************************************************************)
LEMMA EndOfLine ==
    ASSUME NEW b \in Bytes, NEW n \in Nat \ {0}, Len(b) = n
    PROVE  /\ b[n] # LF => Separator(LineOpts, b) = 0
           /\ n >= 2 /\ b[n - 1] = CR /\ b[n] = LF => Separator(LineOpts, b) = 2
<1> DEFINE c == CrLf
           r == SubSeq(b, n - 1, n)
<1>1. c \in Seq(Symbols) /\ Len(c) = 2 /\ c[1] = CR /\ c[2] = LF
    BY CrLfFacts DEF Bytes
<1>2. Separator(LineOpts, b) = IF 2 <= n /\ r = c THEN 2 ELSE 0
  <2>1. EndsWith(b, <<CR, LF>>) = (2 <= n /\ r = c)
    <3>1. Len(<<CR, LF>>) = 2 /\ n - 2 + 1 = n - 1
        OBVIOUS
    <3> QED
        BY <3>1 DEF EndsWith, CrLf
  <2>2. LineOpts.crlf = TRUE /\ LineOpts.cr = FALSE /\ LineOpts.lf = FALSE
      BY DEF LineOpts
  <2> HIDE DEF r, c
  <2> QED
      BY <2>1, <2>2 DEF Separator
<1> HIDE DEF c, r
<1>3. ASSUME n >= 2
      PROVE  r \in Seq(Symbols) /\ Len(r) = 2 /\ r[1] = b[n - 1] /\ r[2] = b[n]
  <2>1. \A i \in n - 1 .. n : b[i] \in Symbols
    <3>1. b \in Seq(Symbols) /\ \A i \in n - 1 .. n : i \in 1 .. Len(b)
        BY <1>3 DEF Bytes
    <3> QED
        BY <3>1, ElementOfSeq
  <2>2. /\ r \in Seq(Symbols) /\ Len(r) = n - (n - 1) + 1
        /\ \A i \in 1 .. n - (n - 1) + 1 : r[i] = b[(n - 1) + i - 1]
    <3>1. n - 1 \in Int /\ n \in Int /\ n - 1 <= n
        OBVIOUS
    <3>2. /\ SubSeq(b, n - 1, n) \in Seq(Symbols)
          /\ Len(SubSeq(b, n - 1, n)) = IF n - 1 <= n THEN n - (n - 1) + 1 ELSE 0
          /\ \A i \in 1 .. n - (n - 1) + 1 : SubSeq(b, n - 1, n)[i] = b[(n - 1) + i - 1]
        BY <2>1, <3>1, SubSeqProperties
    <3> QED
        BY <3>1, <3>2 DEF r
  <2>3. /\ n - (n - 1) + 1 = 2 /\ 1 \in 1 .. 2 /\ 2 \in 1 .. 2
        /\ (n - 1) + 1 - 1 = n - 1 /\ (n - 1) + 2 - 1 = n
      OBVIOUS
  <2> QED
      BY <2>2, <2>3
<1>4. ASSUME b[n] # LF PROVE Separator(LineOpts, b) = 0
    BY <1>1, <1>2, <1>3, <1>4
<1>5. ASSUME n >= 2, b[n - 1] = CR, b[n] = LF PROVE Separator(LineOpts, b) = 2
  <2>1. \A i \in 1 .. 2 : r[i] = c[i]
    <3>1. \A i \in 1 .. 2 : i = 1 \/ i = 2
        OBVIOUS
    <3> QED
        BY <1>1, <1>3, <1>5, <3>1
  <2>2. r = c
      BY <1>1, <1>3, <1>5, <2>1, SeqEqual
  <2> QED
      BY <1>2, <1>5, <2>2
<1> QED
    BY <1>4, <1>5

(* What a turn does when n bytes of the line have been taken.              *)
TurnOf(text, n, turn) ==
    \/ turn = Turn(Partial(text, n), 0, <<>>, FALSE)
    \/ /\ n <= Len(text) /\ turn = Turn(Partial(text, n + 1), 1, <<>>, TRUE)
       /\ Len(Partial(text, n + 1).buffer) <= MaxLineLength
    \/ n = Len(text) + 1 /\ turn = Turn(NewDecoder, 1, <<text>>, TRUE)

LEMMA LineByte ==
    ASSUME NEW text, IsText(text), NEW n \in 0 .. Len(text) + 1
    PROVE  TurnOf(text, n, DecodeByte(LineOpts, Partial(text, n), (text \o CrLf)[n + 1]))
<1> DEFINE t == text \o CrLf
           b == SubSeq(t, 1, n)
           c == SubSeq(t, 1, n + 1)
           l == Len(text)
<1>1. /\ t \in Seq(Symbols) /\ Len(t) = l + 2 /\ l \in Nat
      /\ \A q \in 1 .. l : t[q] = text[q]
      /\ t[l + 1] = CR /\ t[l + 2] = LF
      /\ \A q \in 1 .. l + 1 : t[q] # LF
    BY Line DEF IsText, Bytes
<1>2. text \in Seq(Symbols)
    BY DEF IsText, Bytes
<1> DEFINE d == Partial(text, n)
           byte == t[n + 1]
           turn == DecodeByte(LineOpts, d, byte)
<1>3. d.buffer = b /\ d.drop_lf = FALSE
    BY DEF Partial
<1>9. Partial(text, n + 1) = [buffer |-> c, drop_lf |-> FALSE]
    BY DEF Partial
<1>10. turn = DecodeByte(LineOpts, d, byte) /\ n \in 0 .. l + 1
    OBVIOUS
<1>20. turn = DecodeByte(LineOpts, Partial(text, n), (text \o CrLf)[n + 1])
    OBVIOUS
<1> HIDE DEF t, b, c, l, d, byte, turn
<1>4. /\ b \in Seq(Symbols) /\ Len(b) = n /\ \A i \in 1 .. n : b[i] = t[i]
      /\ c \in Seq(Symbols) /\ Len(c) = n + 1 /\ \A i \in 1 .. n + 1 : c[i] = t[i]
  <2>1. n \in 0 .. Len(t) /\ n + 1 \in 0 .. Len(t)
      BY <1>1, <1>10
  <2> QED
      BY <1>1, <2>1, TakeType DEF b, c
<1>5. Append(d.buffer, byte) = c
  <2>1. byte \in Symbols
    <3>1. n + 1 \in 1 .. Len(t)
        BY <1>1, <1>10
    <3> QED
        BY <1>1, <3>1, ElementOfSeq DEF byte
  <2> DEFINE a == Append(b, byte)
  <2>2. /\ a \in Seq(Symbols) /\ Len(a) = n + 1 /\ a[n + 1] = byte
        /\ \A i \in 1 .. n : a[i] = b[i]
      BY <1>4, <2>1, AppendProperties
  <2> HIDE DEF a
  <2>3. \A i \in 1 .. n + 1 : a[i] = c[i]
    <3>1. \A i \in 1 .. n + 1 : i \in 1 .. n \/ i = n + 1
        BY <1>10
    <3>2. n + 1 \in 1 .. n + 1
        BY <1>10
    <3> QED
        BY <1>4, <2>2, <3>1, <3>2 DEF byte
  <2>4. a = c
      BY <1>4, <2>2, <2>3, SeqEqual
  <2> QED
      BY <1>3, <2>4 DEF a
<1>6. n + 1 \in Nat \ {0} /\ c \in Bytes /\ n + 1 \in 1 .. n + 1 /\ n \in Nat
    BY <1>4, <1>10 DEF Bytes
<1> DEFINE s == Separator(LineOpts, c)
<1>7. n <= l => s = 0
  <2> SUFFICES ASSUME n <= l PROVE s = 0
      OBVIOUS
  <2>1. n + 1 \in 1 .. l + 1
      BY <1>1, <1>10
  <2>2. c[n + 1] # LF
      BY <1>1, <1>4, <1>6, <2>1
  <2> QED
      BY <1>4, <1>6, <2>2, EndOfLine
<1>8. n = l + 1 => s = 2
  <2> SUFFICES ASSUME n = l + 1 PROVE s = 2
      OBVIOUS
  <2>1. n + 1 = l + 2 /\ (n + 1) - 1 = l + 1 /\ n + 1 >= 2 /\ l + 1 \in 1 .. n + 1
      BY <1>1
  <2>2. c[n + 1] = LF /\ c[(n + 1) - 1] = CR
      BY <1>1, <1>4, <1>6, <2>1
  <2> QED
      BY <1>4, <1>6, <2>1, <2>2, EndOfLine
<1>11. LineOpts.max_line_length = MaxLineLength /\ LineOpts.crlf = TRUE
    BY DEF LineOpts
<1> HIDE DEF s
<1>12. turn = IF Len(b) >= MaxLineLength THEN Turn(d, 0, <<>>, FALSE)
              ELSE PushByte(LineOpts, d, byte)
    BY <1>3, <1>10, <1>11 DEF DecodeByte
<1>13. s = 0 => PushByte(LineOpts, d, byte) = Turn([buffer |-> c, drop_lf |-> FALSE], 1, <<>>, TRUE)
  <2> SUFFICES ASSUME s = 0
               PROVE  PushByte(LineOpts, d, byte) = Turn([buffer |-> c, drop_lf |-> FALSE], 1, <<>>, TRUE)
      OBVIOUS
  <2>1. Separator(LineOpts, c) = 0
      BY DEF s
  <2>2. (Separator(LineOpts, c) = 1 /\ byte = CR /\ LineOpts.crlf) = FALSE
      BY <2>1
  <2> QED
      BY <1>5, <2>1, <2>2 DEF PushByte
<1>14. s = 2 => PushByte(LineOpts, d, byte) = Turn(NewDecoder, 1, << SubSeq(c, 1, Len(c) - 2) >>, TRUE)
  <2> SUFFICES ASSUME s = 2
               PROVE  PushByte(LineOpts, d, byte) = Turn(NewDecoder, 1, << SubSeq(c, 1, Len(c) - 2) >>, TRUE)
      OBVIOUS
  <2>1. Separator(LineOpts, c) = 2
      BY DEF s
  <2>2. (Separator(LineOpts, c) = 1 /\ byte = CR /\ LineOpts.crlf) = FALSE
      BY <2>1
  <2> QED
      BY <1>5, <2>1, <2>2 DEF PushByte
<1>15. n = l + 1 => SubSeq(c, 1, Len(c) - 2) = text
  <2> SUFFICES ASSUME n = l + 1 PROVE SubSeq(c, 1, Len(c) - 2) = text
      OBVIOUS
  <2>1. Len(c) - 2 = l /\ l \in 0 .. Len(c) /\ \A i \in 1 .. l : i \in 1 .. n + 1
      BY <1>1, <1>4
  <2>2. /\ SubSeq(c, 1, l) \in Seq(Symbols) /\ Len(SubSeq(c, 1, l)) = l
        /\ \A i \in 1 .. l : SubSeq(c, 1, l)[i] = c[i]
      BY <1>4, <2>1, TakeType
  <2>3. \A i \in 1 .. l : SubSeq(c, 1, l)[i] = text[i]
      BY <1>1, <1>4, <2>1, <2>2
  <2>4. SubSeq(c, 1, l) = text
    <3>1. Len(text) = l
        BY DEF l
    <3> QED
        BY <1>2, <2>2, <2>3, <3>1, SeqEqual
  <2> QED
      BY <2>1, <2>4
<1>16. n <= l \/ n = l + 1
    BY <1>1, <1>10
<1>17. ASSUME Len(b) >= MaxLineLength PROVE TurnOf(text, n, turn)
    BY <1>12, <1>17 DEF d, TurnOf
<1>18. ASSUME ~(Len(b) >= MaxLineLength), n <= l PROVE TurnOf(text, n, turn)
  <2>1. turn = Turn(Partial(text, n + 1), 1, <<>>, TRUE) /\ n <= Len(text)
      BY <1>7, <1>9, <1>12, <1>13, <1>18 DEF l
  <2>2. Partial(text, n + 1).buffer = c
      BY <1>9
  <2>3. Len(c) <= MaxLineLength
      BY <1>4, <1>6, <1>18, MaxLineAssumption
  <2>4. Len(Partial(text, n + 1).buffer) <= MaxLineLength
      BY <2>2, <2>3
  <2> QED
      BY <2>1, <2>4 DEF TurnOf
<1>19. ASSUME ~(Len(b) >= MaxLineLength), n = l + 1 PROVE TurnOf(text, n, turn)
  <2>1. turn = Turn(NewDecoder, 1, <<text>>, TRUE) /\ n = Len(text) + 1
      BY <1>8, <1>12, <1>14, <1>15, <1>19 DEF l
  <2> QED
      BY <2>1 DEF TurnOf
<1>21. TurnOf(text, n, turn)
    BY <1>16, <1>17, <1>18, <1>19
<1> QED
    BY <1>20, <1>21

(* The line that starts after start, and what ends it, as far as they have *)
(* been sent.                                                              *)
OnWire(start, text) ==
    \A q \in 1 .. Len(text) + 2 :
        start + q <= Len(wire) => wire[start + q] = (text \o CrLf)[q]

LEMMA LineFed ==
    ASSUME NEW text, IsText(text), NEW start \in Nat, OnWire(start, text),
           InLine(Here, start, text), pos < Len(wire), Len(wire) \in Nat,
           Len(line.buffer) <= MaxLineLength
    PROVE  /\ \/ ~LineTurn.ok /\ LineTurn.lines = <<>> /\ LineTurn.taken = 0
              \/ /\ LineTurn.ok /\ LineTurn.lines = <<>> /\ LineTurn.taken = 1
                 /\ \E n \in 0 .. Len(text) + 1 :
                       LineTurn.decoder = Partial(text, n) /\ pos + 1 = start + n
              \/ /\ LineTurn.ok /\ LineTurn.lines = <<text>> /\ LineTurn.taken = 1
                 /\ LineTurn.decoder = NewDecoder
                 /\ pos + 1 = start + Len(text) + 2
           /\ Len(LineTurn.decoder.buffer) <= MaxLineLength
<1>1. PICK n \in 0 .. Len(text) + 1 : line = Partial(text, n) /\ pos = start + n
  <2>1. Here.line = line /\ Here.pos = pos
      BY DEF Here
  <2> QED
      BY <2>1 DEF InLine
<1>2. Len(text) \in Nat
    BY DEF IsText
<1>3. wire[pos + 1] = (text \o CrLf)[n + 1]
  <2> DEFINE l == Len(text)
             w == Len(wire)
             t == text \o CrLf
  <2>1. \A q \in 1 .. l + 2 : start + q <= w => wire[start + q] = t[q]
      BY DEF OnWire
  <2>2. l \in Nat /\ n \in 0 .. l + 1 /\ w \in Nat /\ pos < w
      BY <1>2
  <2> HIDE DEF l, w, t
  <2>3. /\ n + 1 \in 1 .. l + 2 /\ start + (n + 1) <= w
        /\ start + (n + 1) = pos + 1
      BY <1>1, <2>2
  <2>4. wire[start + (n + 1)] = t[n + 1]
      BY <2>1, <2>3
  <2> QED
      BY <2>3, <2>4 DEF t
<1> DEFINE turn == LineTurn
<1>4. turn = DecodeByte(LineOpts, Partial(text, n), (text \o CrLf)[n + 1])
    BY <1>1, <1>3 DEF LineTurn
<1> HIDE DEF turn
<1>5. TurnOf(text, n, turn)
    BY <1>4, LineByte
<1>6. CASE turn = Turn(Partial(text, n), 0, <<>>, FALSE)
  <2>1. turn.ok = FALSE /\ turn.lines = <<>> /\ turn.taken = 0 /\ turn.decoder = line
      BY <1>1, <1>6 DEF Turn
  <2> QED
      BY <2>1 DEF turn
<1>7. CASE /\ n <= Len(text) /\ turn = Turn(Partial(text, n + 1), 1, <<>>, TRUE)
           /\ Len(Partial(text, n + 1).buffer) <= MaxLineLength
  <2>1. /\ turn.ok = TRUE /\ turn.lines = <<>> /\ turn.taken = 1
        /\ turn.decoder = Partial(text, n + 1)
      BY <1>7 DEF Turn
  <2>2. n + 1 \in 0 .. Len(text) + 1 /\ pos + 1 = start + (n + 1)
      BY <1>1, <1>2, <1>7
  <2> QED
      BY <1>7, <2>1, <2>2 DEF turn
<1>8. CASE n = Len(text) + 1 /\ turn = Turn(NewDecoder, 1, <<text>>, TRUE)
  <2>1. /\ turn.ok = TRUE /\ turn.lines = <<text>> /\ turn.taken = 1
        /\ turn.decoder = NewDecoder
      BY <1>8 DEF Turn
  <2>2. pos + 1 = start + Len(text) + 2
      BY <1>1, <1>2, <1>8
  <2>3. Len(NewDecoder.buffer) <= MaxLineLength
      BY MaxLineAssumption DEF NewDecoder
  <2> QED
      BY <2>1, <2>2, <2>3 DEF turn
<1> QED
    BY <1>5, <1>6, <1>7, <1>8 DEF TurnOf

LEMMA LineStart ==
    ASSUME NEW text, IsText(text)
    PROVE  NewDecoder = Partial(text, 0) /\ 0 \in 0 .. Len(text) + 1
<1>1. Len(text) \in Nat
    BY DEF IsText
<1> DEFINE t == text \o CrLf
<1>2. Partial(text, 0) = [buffer |-> SubSeq(t, 1, 0), drop_lf |-> FALSE]
    BY DEF Partial
<1> HIDE DEF t
<1>3. SubSeq(t, 1, 0) = <<>>
    BY SubSeqEmpty
<1>4. Partial(text, 0) = NewDecoder
    BY <1>2, <1>3 DEF NewDecoder
<1> QED
    BY <1>1, <1>4
-----------------------------------------------------------------------------
(***************************************************************************)
(* The size that a chunk header says.                                      *)
(***************************************************************************)
LEMMA FirstSymbol ==
    ASSUME NEW t \in Seq(Symbols), Len(t) \in Nat \ {0}, t[1] # Semi,
           Len(t) = 1 \/ t[2] = Semi
    PROVE  HeaderDigits(t) = << t[1] >>
<1> DEFINE l == Len(t)
           S == {i \in 0 .. l : i = l \/ t[i + 1] = Semi}
<1>1. 1 \in S
    OBVIOUS
<1>2. \A i \in S : 1 <= i
    OBVIOUS
<1>3. \A x \in S : (\A y \in S : x <= y) => x = 1
  <2>1. \A x \in S : x \in Nat
      OBVIOUS
  <2> HIDE DEF S
  <2> QED
      BY <1>1, <1>2, <2>1
<1>4. HeaderDigits(t) = SubSeq(t, 1, Min(S))
    BY DEF HeaderDigits
<1> HIDE DEF S, l
<1>5. Min(S) = 1
  <2>1. \E x \in S : \A y \in S : x <= y
      BY <1>1, <1>2
  <2> QED
      BY <1>3, <2>1 DEF Min
<1>6. SubSeq(t, 1, 1) = << t[1] >>
  <2>1. 1 \in 0 .. Len(t) /\ 1 \in 1 .. Len(t)
      OBVIOUS
  <2>2. SubSeq(t, 1, 1) \in Seq(Symbols) /\ Len(SubSeq(t, 1, 1)) = 1 /\ SubSeq(t, 1, 1)[1] = t[1]
    <3>1. /\ SubSeq(t, 1, 1) \in Seq(Symbols) /\ Len(SubSeq(t, 1, 1)) = 1
          /\ \A i \in 1 .. 1 : SubSeq(t, 1, 1)[i] = t[i]
        BY <2>1, TakeType
    <3> QED
        BY <3>1
  <2>3. t[1] \in Symbols
      BY <2>1, ElementOfSeq
  <2>4. << t[1] >> \in Seq(Symbols) /\ Len(<< t[1] >>) = 1 /\ << t[1] >>[1] = t[1]
      BY <2>3
  <2> DEFINE a == SubSeq(t, 1, 1)
             b == << t[1] >>
  <2>5. \A i \in 1 .. 1 : a[i] = b[i]
      BY <2>2, <2>4
  <2>6. a \in Seq(Symbols) /\ b \in Seq(Symbols) /\ Len(a) = 1 /\ Len(b) = 1
      BY <2>2, <2>4
  <2> HIDE DEF a, b
  <2>7. a = b
      BY <2>5, <2>6, SeqEqual
  <2> QED
      BY <2>7 DEF a, b
<1> QED
    BY <1>4, <1>5, <1>6

LEMMA DigitValue ==
    ASSUME NEW n \in 0 .. 3, NEW c, c = Digits[n + 1]
    PROVE  IsHex(<<c>>) /\ HexValue(<<c>>) = n
<1>1. /\ DOMAIN Digits = 1 .. 4
      /\ Digits[1] = "0" /\ Digits[2] = "1" /\ Digits[3] = "2" /\ Digits[4] = "3"
    BY DEF Digits
<1>2. n + 1 \in DOMAIN Digits
    BY <1>1
<1>3. \A d \in DOMAIN Digits : Digits[d] = c => d = n + 1
  <2>1. \A d \in 1 .. 4 : d = 1 \/ d = 2 \/ d = 3 \/ d = 4
      OBVIOUS
  <2> QED
      BY <1>1, <1>2, <2>1
<1> DEFINE s == <<c>>
<1>4. Len(s) = 1 /\ s[1] = c /\ DOMAIN s = 1 .. 1 /\ s # <<>>
    OBVIOUS
<1> HIDE DEF s
<1>5. IsHex(s)
  <2>1. c \in ToSet(Digits)
      BY <1>2 DEF ToSet
  <2>2. \A i \in DOMAIN s : s[i] \in ToSet(Digits)
      BY <1>4, <2>1
  <2> QED
      BY <1>4, <2>2 DEF IsHex
<1> DEFINE digit(i) == (CHOOSE d \in DOMAIN Digits : Digits[d] = s[i]) - 1
           IsValue(f) == f = [i \in 0 .. Len(s) |->
                                IF i = 0 THEN 0 ELSE 16 * f[i - 1] + digit(i)]
           v == CHOOSE f : IsValue(f)
<1>6. digit(1) = n
  <2>1. (CHOOSE d \in DOMAIN Digits : Digits[d] = s[1]) = n + 1
    <3>1. \E d \in DOMAIN Digits : Digits[d] = s[1]
        BY <1>2, <1>4
    <3>2. \A d \in DOMAIN Digits : Digits[d] = s[1] => d = n + 1
        BY <1>3, <1>4
    <3> QED
        BY <3>1, <3>2
  <2> DEFINE x == CHOOSE d \in DOMAIN Digits : Digits[d] = s[1]
  <2>2. digit(1) = x - 1 /\ x = n + 1
      BY <2>1
  <2> HIDE DEF x, digit
  <2> QED
      BY <2>2
<1>7. HexValue(s) = v[Len(s)]
    BY DEF HexValue
<1> HIDE DEF digit
<1>8. \E f : IsValue(f)
  <2> DEFINE f == [i \in 0 .. 1 |-> IF i = 0 THEN 0 ELSE n]
  <2>1. f[0] = 0 /\ f[1] = n
      OBVIOUS
  <2>2. ASSUME NEW i \in 0 .. 1
        PROVE  f[i] = IF i = 0 THEN 0 ELSE 16 * f[i - 1] + digit(i)
      BY <1>6, <2>1
  <2>3. f = [i \in 0 .. 1 |-> IF i = 0 THEN 0 ELSE 16 * f[i - 1] + digit(i)]
    <3>1. f = [i \in 0 .. 1 |-> f[i]]
        OBVIOUS
    <3> HIDE DEF f
    <3> QED
        BY <2>2, <3>1
  <2> HIDE DEF f
  <2>4. IsValue(f)
      BY <1>4, <2>3
  <2> QED
      BY <2>4
<1>9. IsValue(v)
    BY <1>8
<1> HIDE DEF v
<1>10. v[0] = 0 /\ v[1] = 16 * v[0] + digit(1)
  <2>1. v = [i \in 0 .. 1 |-> IF i = 0 THEN 0 ELSE 16 * v[i - 1] + digit(i)]
      BY <1>4, <1>9
  <2> QED
      BY <2>1
<1>11. v[1] = n
    BY <1>6, <1>10
<1> QED
    BY <1>4, <1>5, <1>7, <1>11 DEF s

LEMMA NoDigit == ~IsHex(<<"x">>)
<1>1. /\ DOMAIN Digits = 1 .. 4
      /\ Digits[1] = "0" /\ Digits[2] = "1" /\ Digits[3] = "2" /\ Digits[4] = "3"
    BY DEF Digits
<1>2. \A d \in 1 .. 4 : d = 1 \/ d = 2 \/ d = 3 \/ d = 4
    OBVIOUS
<1>3. "x" \notin ToSet(Digits)
    BY <1>1, <1>2 DEF ToSet
<1>4. 1 \in DOMAIN <<"x">> /\ <<"x">>[1] = "x"
    OBVIOUS
<1> QED
    BY <1>3, <1>4 DEF IsHex

LEMMA HeaderSize ==
    ASSUME NEW m \in MessageSet, NEW n \in 0 .. 3, NEW t, t = ChunkHeaderOf(m, n)
    PROVE  /\ m.form # "garbage" =>
                IsHex(HeaderDigits(t)) /\ HexValue(HeaderDigits(t)) = n
           /\ m.form = "garbage" => ~IsHex(HeaderDigits(t))
<1> DEFINE d == Digits[n + 1]
<1>1. d \in Symbols /\ d # Semi
    BY DigitFacts
<1>2. IsHex(<<d>>) /\ HexValue(<<d>>) = n
    BY DigitValue
<1> HIDE DEF d
<1>3. m.form \in Forms
    BY DEF MessageSet
<1>4. Semi \in Symbols /\ "x" \in Symbols /\ "x" # Semi
    BY SymbolFacts
<1>5. \A a, b, c \in Symbols : a # Semi =>
          /\ HeaderDigits(<<a>>) = <<a>>
          /\ b = Semi => HeaderDigits(<<a, b, c>>) = <<a>>
          /\ b = Semi => HeaderDigits(<<a, b, c, c>>) = <<a>>
  <2> SUFFICES ASSUME NEW a \in Symbols, NEW b \in Symbols, NEW c \in Symbols, a # Semi
               PROVE  /\ HeaderDigits(<<a>>) = <<a>>
                      /\ b = Semi => HeaderDigits(<<a, b, c>>) = <<a>>
                      /\ b = Semi => HeaderDigits(<<a, b, c, c>>) = <<a>>
      OBVIOUS
  <2> DEFINE u == <<a>>
             v == <<a, b, c>>
             w == <<a, b, c, c>>
  <2>1. u \in Seq(Symbols) /\ Len(u) = 1 /\ u[1] = a
      OBVIOUS
  <2>2. v \in Seq(Symbols) /\ Len(v) = 3 /\ v[1] = a /\ v[2] = b
      OBVIOUS
  <2>3. w \in Seq(Symbols) /\ Len(w) = 4 /\ w[1] = a /\ w[2] = b
      OBVIOUS
  <2> HIDE DEF u, v, w
  <2>4. HeaderDigits(u) = <<a>>
    <3>1. Len(u) \in Nat \ {0} /\ u[1] # Semi
        BY <2>1
    <3> QED
        BY <2>1, <3>1, FirstSymbol
  <2>5. b = Semi => HeaderDigits(v) = <<a>>
    <3>1. Len(v) \in Nat \ {0} /\ v[1] # Semi
        BY <2>2
    <3> QED
        BY <2>2, <3>1, FirstSymbol
  <2>6. b = Semi => HeaderDigits(w) = <<a>>
    <3>1. Len(w) \in Nat \ {0} /\ w[1] # Semi
        BY <2>3
    <3> QED
        BY <2>3, <3>1, FirstSymbol
  <2> QED
      BY <2>4, <2>5, <2>6 DEF u, v, w
<1>6. CASE m.form = "plain"
  <2>1. t = <<d>>
      BY <1>6 DEF ChunkHeaderOf, d
  <2>2. HeaderDigits(t) = <<d>>
      BY <1>1, <1>4, <1>5, <2>1
  <2> QED
      BY <1>2, <1>6, <2>2
<1>7. CASE m.form = "extended"
  <2>1. t = <<d, Semi, "x">>
      BY <1>7 DEF ChunkHeaderOf, d
  <2>2. HeaderDigits(t) = <<d>>
      BY <1>1, <1>4, <1>5, <2>1
  <2> QED
      BY <1>2, <1>7, <2>2
<1>8. CASE m.form = "long"
  <2>1. t = <<d, Semi, "x", "x">>
      BY <1>8 DEF ChunkHeaderOf, d
  <2>2. HeaderDigits(t) = <<d>>
      BY <1>1, <1>4, <1>5, <2>1
  <2> QED
      BY <1>2, <1>8, <2>2
<1>9. CASE m.form = "garbage"
  <2>1. t = <<"x">>
      BY <1>9 DEF ChunkHeaderOf
  <2>2. HeaderDigits(t) = <<"x">>
      BY <1>4, <1>5, <2>1
  <2> QED
      BY <1>9, <2>2, NoDigit
<1> QED
    BY <1>3, <1>6, <1>7, <1>8, <1>9 DEF Forms

LEMMA LastSize ==
    /\ IsHex(HeaderDigits(<< Digits[1] >>))
    /\ HexValue(HeaderDigits(<< Digits[1] >>)) = 0
<1> DEFINE d == Digits[1]
<1>1. \A n \in 0 .. 3 : Digits[n + 1] \in Symbols /\ Digits[n + 1] # Semi
    BY DigitFacts
<1>2. \A n \in 0 .. 3 : \A c : c = Digits[n + 1] => IsHex(<<c>>) /\ HexValue(<<c>>) = n
    BY DigitValue
<1>3. 0 \in 0 .. 3 /\ 0 + 1 = 1
    OBVIOUS
<1>4. d \in Symbols /\ d # Semi /\ IsHex(<<d>>) /\ HexValue(<<d>>) = 0
    BY <1>1, <1>2, <1>3
<1> HIDE DEF d
<1> DEFINE u == <<d>>
<1>5. u \in Seq(Symbols) /\ Len(u) = 1 /\ u[1] = d
    BY <1>4
<1> HIDE DEF u
<1>6. Len(u) \in Nat \ {0} /\ u[1] # Semi
    BY <1>4, <1>5
<1>7. HeaderDigits(u) = <<d>>
    BY <1>5, <1>6, FirstSymbol
<1> QED
    BY <1>4, <1>7 DEF u, d
-----------------------------------------------------------------------------
(***************************************************************************)
(* The lines of a chunked message on the wire.                             *)
(***************************************************************************)
LEMMA LineOnWire ==
    ASSUME NEW p, Len(p) \in Nat, NEW s \in Nat, NEW a \in Nat,
           \A q \in 1 .. Len(p) : s + q <= Len(wire) => wire[s + q] = p[q],
           NEW text, Len(text) \in Nat, LineAt(p, a, text), a + Len(text) + 2 <= Len(p)
    PROVE  OnWire(s + a, text)
<1> DEFINE l == Len(text)
           t == text \o CrLf
           n == Len(p)
           w == Len(wire)
<1>1. \A q \in 1 .. l + 2 : p[a + q] = t[q]
    BY DEF LineAt
<1>2. \A q \in 1 .. n : s + q <= w => wire[s + q] = p[q]
    OBVIOUS
<1>3. l \in Nat /\ n \in Nat /\ a + l + 2 <= n
    OBVIOUS
<1>4. (\A q \in 1 .. l + 2 : (s + a) + q <= w => wire[(s + a) + q] = t[q])
          => OnWire(s + a, text)
    BY DEF OnWire
<1> HIDE DEF l, t, n, w
<1>5. ASSUME NEW q \in 1 .. l + 2, (s + a) + q <= w PROVE wire[(s + a) + q] = t[q]
  <2>1. a + q \in 1 .. n /\ (s + a) + q = s + (a + q)
      BY <1>3
  <2>2. wire[s + (a + q)] = p[a + q]
      BY <1>2, <1>5, <2>1
  <2> QED
      BY <1>1, <2>1, <2>2
<1> QED
    BY <1>4, <1>5

(* The piece of an item on the wire, and that of the end.                  *)
ItemSent(m, o, g) ==
    /\ PieceStart(m, o, g) \in Nat /\ DataStart(m, o, g) \in Nat
    /\ Len(m.items[g]) \in 0 .. 3
    /\ PieceStart(m, o, g + 1) = DataStart(m, o, g) + Len(m.items[g]) + 2
    /\ IsHeader(HeaderText(m, g))
    /\ OnWire(PieceStart(m, o, g), HeaderText(m, g))
    /\ \A q \in 1 .. Len(m.items[g]) :
          DataStart(m, o, g) + q <= Len(wire)
              => wire[DataStart(m, o, g) + q] = m.items[g][q]
    /\ OnWire(DataStart(m, o, g) + Len(m.items[g]), <<>>)
LastSent(m, o, g) ==
    /\ PieceStart(m, o, g) \in Nat /\ TrailerStart(m, o) \in Nat
    /\ TrailerStart(m, o) = PieceStart(m, o, g) + 3
    /\ HeaderText(m, g) = << Digits[1] >> /\ IsHeader(HeaderText(m, g))
    /\ OnWire(PieceStart(m, o, g), HeaderText(m, g))
    /\ m.form = "plain" =>
         /\ OnWire(TrailerStart(m, o), <<>>)
         /\ TrailerStart(m, o) + 2 = o + Len(Encoded(m))
    /\ m.form # "plain" =>
         /\ OnWire(TrailerStart(m, o), << "x" >>)
         /\ OnWire(TrailerStart(m, o) + 3, <<>>)
         /\ TrailerStart(m, o) + 3 + 2 = o + Len(Encoded(m))

LEMMA ItemOnWire ==
    ASSUME script \in Scripts, SentInv, k \in 1 .. Len(script),
           NEW m, m = script[k], m.framing = "chunked", NEW g \in 1 .. Len(m.items)
    PROVE  ItemSent(m, Offset(k), g)
<1> DEFINE b == Offset(k)
           t == HeaderText(m, g)
           p == Pieces(m)[g]
           h == Len(t)
           i == Len(m.items[g])
           s == PieceStart(m, b, g)
           a == DataStart(m, b, g)
<1>1. m \in MessageSet /\ ShortItems(m)
    BY Messages
<1>2. /\ Len(m.items) \in Nat /\ g \in 1 .. Len(m.items) + 1 /\ g <= Len(m.items)
      /\ p = EncodedItem(m, m.items[g])
    BY <1>1, MessagePieces
<1>3. t = ChunkHeaderOf(m, Len(m.items[g]))
    BY <1>2 DEF HeaderText
<1>4. i \in 0 .. 3
    BY <1>1 DEF ShortItems
<1>5. IsHeader(t)
    BY <1>1, <1>3, <1>4, HeaderTexts
<1>6. /\ p \in Bytes /\ Len(p) \in Nat /\ s \in Nat
      /\ PieceStart(m, b, g + 1) = s + Len(p)
      /\ \A q \in 1 .. Len(p) : s + q <= Len(wire) => wire[s + q] = p[q]
  <2>1. PieceSent(m, b, g, p)
      BY <1>2, WireAt
  <2> QED
      BY <2>1 DEF PieceSent
<1>7. a = s + h + 2
    BY DEF DataStart
<1>8. h \in Nat /\ i \in Nat
    BY <1>4, <1>5 DEF IsHeader
<1>16. ItemParts(m, g, p, h, i) /\ t = ItemHeader(m, g)
  <2>1. ItemParts(m, g, EncodedItem(m, m.items[g]), Len(ItemHeader(m, g)), Len(m.items[g]))
      BY <1>1, ItemPiece
  <2> QED
      BY <1>2, <1>3, <2>1 DEF ItemHeader
<1> HIDE DEF b, s, a, p, h, i, t
<1>9. /\ Len(p) = h + 2 + i + 2
      /\ LineAt(p, 0, t)
      /\ \A q \in 1 .. i : p[h + 2 + q] = m.items[g][q]
      /\ LineAt(p, h + 2 + i, <<>>)
    BY <1>16 DEF ItemParts
<1>10. OnWire(s, t)
  <2>1. /\ 0 \in Nat /\ Len(t) \in Nat /\ 0 + Len(t) + 2 <= Len(p) /\ s + 0 = s
      BY <1>6, <1>8, <1>9 DEF h
  <2>2. OnWire(s + 0, t)
      BY <1>6, <1>9, <2>1, LineOnWire
  <2> QED
      BY <2>1, <2>2
<1>11. OnWire(a + i, <<>>)
  <2>1. Len(<<>>) = 0
      OBVIOUS
  <2>2. /\ h + 2 + i \in Nat /\ (h + 2 + i) + 0 + 2 <= Len(p) /\ s + (h + 2 + i) = a + i
        /\ 0 \in Nat
      BY <1>6, <1>7, <1>8, <1>9
  <2>3. Len(<<>>) \in Nat /\ (h + 2 + i) + Len(<<>>) + 2 <= Len(p)
      BY <2>1, <2>2
  <2>4. OnWire(s + (h + 2 + i), <<>>)
      BY <1>6, <1>9, <2>2, <2>3, LineOnWire
  <2> QED
      BY <2>2, <2>4
<1>12. ASSUME NEW q \in 1 .. i, a + q <= Len(wire) PROVE wire[a + q] = m.items[g][q]
  <2>1. h + 2 + q \in 1 .. Len(p) /\ a + q = s + (h + 2 + q)
      BY <1>6, <1>7, <1>8, <1>9
  <2> QED
      BY <1>6, <1>9, <1>12, <2>1
<1>13. a \in Nat /\ PieceStart(m, b, g + 1) = a + i + 2
  <2>1. s \in Nat /\ Len(p) = h + 2 + i + 2
      BY <1>6, <1>9
  <2>2. a \in Nat /\ s + Len(p) = a + i + 2
      BY <1>7, <1>8, <2>1
  <2> QED
      BY <1>6, <2>2
<1>15. /\ s \in Nat /\ a \in Nat /\ i \in 0 .. 3
       /\ PieceStart(m, b, g + 1) = a + i + 2
       /\ IsHeader(t) /\ OnWire(s, t)
       /\ \A q \in 1 .. i : a + q <= Len(wire) => wire[a + q] = m.items[g][q]
       /\ OnWire(a + i, <<>>)
    BY <1>4, <1>5, <1>6, <1>10, <1>11, <1>12, <1>13
<1> QED
    BY <1>15 DEF ItemSent, b, s, a, i, t

LEMMA LastOnWire ==
    ASSUME script \in Scripts, SentInv, k \in 1 .. Len(script),
           NEW m, m = script[k], m.framing = "chunked", NEW g, g = Len(m.items) + 1
    PROVE  LastSent(m, Offset(k), g)
<1> DEFINE b == Offset(k)
           t == HeaderText(m, g)
           p == Pieces(m)[g]
           s == PieceStart(m, b, g)
           a == TrailerStart(m, b)
           e == Len(Encoded(m))
           x == << "x" >>
<1>1. m \in MessageSet /\ ShortItems(m)
    BY Messages
<1>2. /\ Len(m.items) \in Nat /\ g \in 1 .. Len(m.items) + 1 /\ ~(g <= Len(m.items))
      /\ p = LastChunk(m)
    BY <1>1, MessagePieces
<1>3. t = << Digits[1] >>
    BY <1>2 DEF HeaderText
<1>4. IsHeader(t) /\ Len(t) = 1 /\ IsText(x) /\ Len(x) = 1 /\ Len(<<>>) = 0
  <2>1. \A n \in 0 .. 3 : Digits[n + 1] \in Symbols /\ Digits[n + 1] # LF
      BY DigitFacts
  <2>2. 0 \in 0 .. 3 /\ 0 + 1 = 1
      OBVIOUS
  <2>3. Digits[1] \in Symbols /\ Digits[1] # LF
      BY <2>1, <2>2
  <2> QED
      BY <1>3, <2>3, SymbolFacts, Texts
<1>5. /\ p \in Bytes /\ Len(p) \in Nat /\ s \in Nat
      /\ g = Len(m.items) + 1 => s + Len(p) = b + e
      /\ \A q \in 1 .. Len(p) : s + q <= Len(wire) => wire[s + q] = p[q]
  <2>1. PieceSent(m, b, g, p)
      BY <1>2, WireAt
  <2> QED
      BY <2>1 DEF PieceSent
<1>6. a = s + Len(t) + 2
    BY DEF TrailerStart, DataStart
<1> HIDE DEF b, s, a, e
<1>7. /\ LineAt(p, 0, t)
      /\ m.form = "plain" => Len(p) = 5 /\ LineAt(p, 3, <<>>)
      /\ m.form # "plain" => Len(p) = 8 /\ LineAt(p, 3, x) /\ LineAt(p, 6, <<>>)
    BY <1>1, <1>2, <1>3, LastPiece
<1> HIDE DEF p, t, x
<1>8. a = s + 3 /\ s + Len(p) = b + e /\ a \in Nat
    BY <1>4, <1>5, <1>6
<1>9. OnWire(s, t)
  <2>1. Len(p) = 5 \/ Len(p) = 8
      BY <1>7
  <2>2. /\ 0 \in Nat /\ Len(t) \in Nat /\ 0 + Len(t) + 2 <= Len(p) /\ s + 0 = s
    <3>3. 0 + 1 + 2 <= 5 /\ 0 + 1 + 2 <= 8
        OBVIOUS
    <3>1. 0 + 1 + 2 <= Len(p)
        BY <2>1, <3>3
    <3>2. Len(t) = 1 /\ s + 0 = s
        BY <1>4, <1>5
    <3> QED
        BY <3>1, <3>2
  <2>3. OnWire(s + 0, t)
      BY <1>5, <1>7, <2>2, LineOnWire
  <2> QED
      BY <2>2, <2>3
<1>10. ASSUME m.form = "plain" PROVE OnWire(a, <<>>) /\ a + 2 = b + e
  <2>1. Len(p) = 5 /\ LineAt(p, 3, <<>>)
      BY <1>7, <1>10
  <2>2. 3 \in Nat /\ Len(<<>>) \in Nat /\ 3 + Len(<<>>) + 2 <= Len(p) /\ s + 3 = a
      BY <1>4, <1>8, <2>1
  <2>3. OnWire(s + 3, <<>>)
      BY <1>5, <2>1, <2>2, LineOnWire
  <2>4. a + 2 = b + e
      BY <1>5, <1>8, <2>1
  <2> QED
      BY <2>2, <2>3, <2>4
<1>11. ASSUME m.form # "plain"
       PROVE  OnWire(a, x) /\ OnWire(a + 3, <<>>) /\ a + 3 + 2 = b + e
  <2>1. Len(p) = 8 /\ LineAt(p, 3, x) /\ LineAt(p, 6, <<>>)
      BY <1>7, <1>11
  <2>2. /\ 3 \in Nat /\ Len(x) \in Nat /\ 3 + Len(x) + 2 <= Len(p) /\ s + 3 = a
        /\ 6 \in Nat /\ Len(<<>>) \in Nat /\ 6 + Len(<<>>) + 2 <= Len(p)
    <3>1. s + 3 = a
        BY <1>8
    <3>2. Len(p) = 8 /\ Len(x) = 1 /\ Len(<<>>) = 0
        BY <1>4, <2>1
    <3>3. 3 + 1 + 2 <= 8 /\ 6 + 0 + 2 <= 8
        OBVIOUS
    <3> QED
        BY <3>1, <3>2, <3>3
  <2>3. OnWire(s + 3, x)
      BY <1>5, <2>1, <2>2, LineOnWire
  <2>4. OnWire(s + 6, <<>>)
      BY <1>5, <2>1, <2>2, LineOnWire
  <2>5. s + 6 = a + 3 /\ a + 3 + 2 = b + e
      BY <1>5, <1>8, <2>1
  <2> QED
      BY <2>2, <2>3, <2>4, <2>5
<1>13. /\ s \in Nat /\ a \in Nat /\ a = s + 3
       /\ t = << Digits[1] >> /\ IsHeader(t) /\ OnWire(s, t)
       /\ m.form = "plain" => OnWire(a, <<>>) /\ a + 2 = b + e
       /\ m.form # "plain" => OnWire(a, x) /\ OnWire(a + 3, <<>>) /\ a + 3 + 2 = b + e
    BY <1>3, <1>4, <1>5, <1>8, <1>9, <1>10, <1>11
<1> QED
    BY <1>13 DEF LastSent, b, s, a, e, x, t
-----------------------------------------------------------------------------
(***************************************************************************)
(* What a step of the decoder does to where it is: the bytes of a body.    *)
(***************************************************************************)
(* The first n bytes of b and r bytes of w are the first n + r bytes of b. *)
Extends(b, n, w, p, r) ==
    SubSeq(b, 1, n) \o SubSeq(w, p + 1, p + r) = SubSeq(b, 1, n + r)

(* The r bytes of a sequence that follow its first p.                      *)
LEMMA PieceIs ==
    ASSUME NEW s, NEW p \in Nat, NEW r \in Nat,
           \A i \in 1 .. Len(s) : s[i] \in Symbols, Len(s) \in Nat, p + r <= Len(s)
    PROVE  /\ SubSeq(s, p + 1, p + r) \in Seq(Symbols)
           /\ Len(SubSeq(s, p + 1, p + r)) = r
           /\ \A i \in 1 .. r : SubSeq(s, p + 1, p + r)[i] = s[p + i]
<1> DEFINE a == p + 1
           c == p + r
           u == SubSeq(s, a, c)
<1>1. \A i \in a .. c : s[i] \in Symbols
  <2> TAKE i \in a .. c
  <2>1. i \in 1 .. Len(s)
      OBVIOUS
  <2> QED
      BY <2>1
<1>2. a \in Int /\ c \in Int /\ a = p + 1 /\ c = p + r
    OBVIOUS
<1> HIDE DEF a, c
<1>3. /\ u \in Seq(Symbols)
      /\ Len(u) = IF a <= c THEN c - a + 1 ELSE 0
      /\ \A i \in 1 .. c - a + 1 : u[i] = s[a + i - 1]
    BY <1>1, <1>2, SubSeqProperties
<1> HIDE DEF u
<1>4. Len(u) = r
    BY <1>2, <1>3
<1>5. \A i \in 1 .. r : u[i] = s[p + i]
    BY <1>2, <1>3
<1> QED
    BY <1>3, <1>4, <1>5 DEF u, a, c

LEMMA GotMore ==
    ASSUME NEW b \in Bytes, NEW w \in Bytes, NEW n \in Nat, NEW r \in Nat,
           n + r <= Len(b), NEW p \in Nat, p + r <= Len(w),
           \A q \in 1 .. r : w[p + q] = b[n + q]
    PROVE  Extends(b, n, w, p, r)
<1> DEFINE u == SubSeq(w, p + 1, p + r)
           v == SubSeq(b, n + 1, n + r)
<1>1. /\ b \in Seq(Symbols) /\ w \in Seq(Symbols) /\ Len(b) \in Nat /\ Len(w) \in Nat
      /\ \A i \in 1 .. Len(b) : b[i] \in Symbols
      /\ \A i \in 1 .. Len(w) : w[i] \in Symbols
  <2>1. b \in Seq(Symbols) /\ w \in Seq(Symbols)
      BY DEF Bytes
  <2> QED
      BY <2>1, LenProperties, ElementOfSeq
<1>2. /\ u \in Seq(Symbols) /\ Len(u) = r
      /\ \A i \in 1 .. r : u[i] = w[p + i]
  <2>1. Len(w) \in Nat /\ \A i \in 1 .. Len(w) : w[i] \in Symbols
      BY <1>1
  <2> QED
      BY <2>1, PieceIs
<1>3. /\ v \in Seq(Symbols) /\ Len(v) = r
      /\ \A i \in 1 .. r : v[i] = b[n + i]
  <2>1. Len(b) \in Nat /\ \A i \in 1 .. Len(b) : b[i] \in Symbols
      BY <1>1
  <2> QED
      BY <2>1, PieceIs
<1> HIDE DEF u, v
<1>8. u = v
  <2>1. \A i \in 1 .. r : u[i] = v[i]
      BY <1>2, <1>3
  <2> QED
      BY <1>2, <1>3, <2>1, SeqEqual
<1>9. SubSeq(b, 1, n) \o v = SubSeq(b, 1, n + r)
  <2>1. /\ 1 \in 1 .. Len(b) + 1 /\ n \in 1 - 1 .. Len(b) /\ n + r \in n .. Len(b)
      BY <1>1
  <2>2. SubSeq(b, 1, n) \o SubSeq(b, n + 1, n + r) = SubSeq(b, 1, n + r)
      BY <1>1, <2>1, ConcatAdjacentSubSeq
  <2> QED
      BY <2>2 DEF v
<1> QED
    BY <1>8, <1>9 DEF u, Extends

(* The message the reader is at.                                           *)
LEMMA AtMessage ==
    ASSUME WellSent, BodyInv, k <= Len(script), NEW m, m = script[k]
    PROVE  /\ k \in 1 .. Len(script) /\ script \in Scripts /\ SentInv
           /\ m \in MessageSet /\ ShortItems(m)
           /\ base = Offset(k) /\ base \in Nat
           /\ rpc # "lost" => DecoderAt(Here, m, base)
           /\ BodyOf(m) \in Bytes /\ Len(BodyOf(m)) \in Nat
           /\ wire \in Bytes /\ Len(wire) \in Nat
           /\ pos \in Nat /\ avail \in Nat /\ pos <= avail /\ avail <= Len(wire)
           /\ m.framing = "chunked" => \A j \in 1 .. Len(m.items) : m.items[j] # <<>>
           /\ m.framing = "eof" => k = Len(script)
<1>1. Typed /\ SentInv /\ DecodeInv
    BY DEF BodyInv
<1>2. script \in Scripts /\ k \in 1 .. Len(script) + 1 /\ base \in Nat
    BY <1>1 DEF Typed
<1>3. Len(script) \in Nat /\ DOMAIN script = 1 .. Len(script)
    BY <1>2, ScriptLength
<1>4. k \in 1 .. Len(script)
    BY <1>2, <1>3
<1>5. m \in MessageSet /\ ShortItems(m)
    BY <1>2, <1>4, Messages
<1>6. base = Offset(k) /\ (rpc # "lost" => DecoderAt(Here, m, base))
    BY <1>1 DEF DecodeInv
<1>7. BodyOf(m) \in Bytes /\ Len(BodyOf(m)) \in Nat
    BY <1>5, BodyEnds
<1>8. wire \in Bytes /\ Len(wire) \in Nat
    BY <1>1, <1>2, WireIs
<1>9. pos \in Nat /\ avail \in Nat /\ pos <= avail /\ avail <= Len(wire)
    BY <1>1 DEF Typed
<1>10. /\ m.framing = "chunked" => \A j \in DOMAIN m.items : m.items[j] # <<>>
       /\ m.framing = "eof" => k = Len(script)
    BY <1>2, <1>3, <1>4 DEF WellSent, WellSentScript
<1>11. DOMAIN m.items = 1 .. Len(m.items)
  <2>1. m.items \in Seq(Bytes)
      BY <1>5, MessagePieces
  <2> QED
      BY <2>1, LenProperties
<1> QED
    BY <1>1, <1>2, <1>4, <1>5, <1>6, <1>7, <1>8, <1>9, <1>10, <1>11

LEMMA HereIs ==
    /\ Here.state = state /\ Here.expected = expected /\ Here.line = line
    /\ Here.pos = pos /\ Here.out = out
BY DEF Here

LEMMA SimpleStep ==
    ASSUME WellSent, BodyInv, k <= Len(script), rpc # "lost",
           NEW m, m = script[k], m.framing = "eof",
           NEW r \in Nat, r <= avail - pos
    PROVE  \A e : (/\ e.state = state /\ e.line = line /\ e.pos = pos + r
                   /\ e.out = out \o SubSeq(wire, pos + 1, pos + r))
                      => SimpleAt(e, m, base)
<1> DEFINE b == BodyOf(m)
           l == Len(b)
           n == pos - base
           w == Len(wire)
<1>1. /\ k \in 1 .. Len(script) /\ script \in Scripts /\ SentInv
      /\ base = Offset(k) /\ base \in Nat /\ DecoderAt(Here, m, base)
      /\ b \in Bytes /\ l \in Nat /\ wire \in Bytes /\ w \in Nat
      /\ pos \in Nat /\ avail \in Nat /\ pos <= avail /\ avail <= w
      /\ k = Len(script)
    BY AtMessage
<1>2. SimpleAt(Here, m, base)
    BY <1>1 DEF DecoderAt
<1>3. /\ state \in {"Simple", "Completed"} /\ line = NewDecoder /\ pos >= base
      /\ n \in 0 .. l /\ out = SubSeq(b, 1, n)
    BY <1>2, HereIs DEF SimpleAt, Got
<1>4. /\ k = Len(script) => w <= Offset(k) + l
      /\ \A q \in 1 .. l : Offset(k) + q <= w => wire[Offset(k) + q] = b[q]
  <2>1. m.framing # "chunked"
      OBVIOUS
  <2> QED
      BY <1>1, <2>1, WireBody
<1>5. w <= base + l /\ \A q \in 1 .. l : base + q <= w => wire[base + q] = b[q]
  <2>1. base = Offset(k) /\ k = Len(script)
      BY <1>1
  <2> HIDE DEF b, l, w
  <2>2. w <= base + l
      BY <1>4, <2>1
  <2>3. \A q \in 1 .. l : base + q <= w => wire[base + q] = b[q]
      BY <1>4, <2>1
  <2> QED
      BY <2>2, <2>3
<1> HIDE DEF b, l, w
<1>12. pos \in Nat /\ base \in Nat /\ l \in Nat /\ w \in Nat /\ pos >= base
    BY <1>1, <1>3
<1>13. n = pos - base /\ n \in 0 .. l
    BY <1>3
<1>14. pos <= avail /\ avail \in Nat /\ avail <= w
    BY <1>1
<1>6. n + r <= l /\ n \in Nat /\ pos + r <= w
  <2>1. w <= base + l
      BY <1>5
  <2> HIDE DEF n
  <2> QED
      BY <1>12, <1>13, <1>14, <2>1
<1> HIDE DEF n
<1>7. \A q \in 1 .. r : wire[pos + q] = b[n + q]
  <2> TAKE q \in 1 .. r
  <2>1. n + q \in 1 .. l /\ base + (n + q) = pos + q /\ pos + q <= w
      BY <1>6, <1>12, <1>13
  <2> QED
      BY <1>5, <2>1
<1>8. SubSeq(b, 1, n) \o SubSeq(wire, pos + 1, pos + r) = SubSeq(b, 1, n + r)
  <2>1. b \in Bytes /\ wire \in Bytes /\ n + r <= Len(b) /\ pos + r <= Len(wire)
      BY <1>1, <1>6 DEF l, w
  <2>2. Extends(b, n, wire, pos, r)
      BY <1>6, <1>7, <1>12, <2>1, GotMore
  <2> QED
      BY <2>2 DEF Extends
<1>9. /\ (pos + r) - base = n + r /\ pos + r >= base
      /\ out \o SubSeq(wire, pos + 1, pos + r) = SubSeq(b, 1, n + r)
      /\ n + r \in 0 .. l
  <2>1. (pos + r) - base = n + r /\ pos + r >= base /\ n + r \in 0 .. l
      BY <1>6, <1>12, <1>13
  <2> QED
      BY <1>3, <1>8, <2>1
<1>10. ASSUME NEW e, e.state = state, e.line = line, e.pos = pos + r,
              e.out = out \o SubSeq(wire, pos + 1, pos + r)
       PROVE  SimpleAt(e, m, base)
  <2>1. e.pos - base \in 0 .. l /\ e.out = SubSeq(b, 1, e.pos - base)
      BY <1>9, <1>10
  <2>2. Got(e, m, e.pos - base)
      BY <2>1 DEF Got, b, l
  <2> QED
      BY <1>3, <1>9, <1>10, <2>2 DEF SimpleAt
<1> QED
    BY <1>10

LEMMA FixedStep ==
    ASSUME WellSent, BodyInv, k <= Len(script), rpc # "lost",
           NEW m, m = script[k], m.framing = "length",
           NEW r \in Nat, r <= avail - pos, r <= expected
    PROVE  \A e : (/\ e.state = state /\ e.line = line /\ e.pos = pos + r
                   /\ e.expected = expected - r
                   /\ e.out = out \o SubSeq(wire, pos + 1, pos + r))
                      => FixedAt(e, m, base)
<1> DEFINE b == BodyOf(m)
           l == Len(b)
           n == l - expected
           w == Len(wire)
<1>1. /\ k \in 1 .. Len(script) /\ script \in Scripts /\ SentInv
      /\ base = Offset(k) /\ base \in Nat /\ DecoderAt(Here, m, base)
      /\ b \in Bytes /\ l \in Nat /\ wire \in Bytes /\ w \in Nat
      /\ pos \in Nat /\ avail \in Nat /\ pos <= avail /\ avail <= w
    BY AtMessage
<1>2. FixedAt(Here, m, base)
    BY <1>1 DEF DecoderAt
<1>3. /\ state = "Fixed" /\ line = NewDecoder /\ expected \in 0 .. l
      /\ pos = base + l - expected
      /\ n \in 0 .. l /\ out = SubSeq(b, 1, n)
    BY <1>2, HereIs DEF FixedAt, Got
<1>4. \A q \in 1 .. l : Offset(k) + q <= w => wire[Offset(k) + q] = b[q]
  <2>1. m.framing # "chunked"
      OBVIOUS
  <2> QED
      BY <1>1, <2>1, WireBody
<1>5. \A q \in 1 .. l : base + q <= w => wire[base + q] = b[q]
    BY <1>1, <1>4
<1> HIDE DEF b, l, w
<1>12. /\ pos \in Nat /\ base \in Nat /\ l \in Nat /\ w \in Nat
       /\ expected \in 0 .. l /\ pos = base + l - expected
    BY <1>1, <1>3
<1>13. n = l - expected
    OBVIOUS
<1>14. pos <= avail /\ avail \in Nat /\ avail <= w
    BY <1>1
<1> HIDE DEF n
<1>6. n + r <= l /\ n \in Nat /\ pos + r <= w
    BY <1>12, <1>13, <1>14
<1>7. \A q \in 1 .. r : wire[pos + q] = b[n + q]
  <2> TAKE q \in 1 .. r
  <2>1. n + q \in 1 .. l /\ base + (n + q) = pos + q /\ pos + q <= w
      BY <1>6, <1>12, <1>13
  <2> QED
      BY <1>5, <2>1
<1>8. SubSeq(b, 1, n) \o SubSeq(wire, pos + 1, pos + r) = SubSeq(b, 1, n + r)
  <2>1. b \in Bytes /\ wire \in Bytes /\ n + r <= Len(b) /\ pos + r <= Len(wire)
      BY <1>1, <1>6 DEF l, w
  <2>2. Extends(b, n, wire, pos, r)
      BY <1>6, <1>7, <1>12, <2>1, GotMore
  <2> QED
      BY <2>2 DEF Extends
<1>9. /\ l - (expected - r) = n + r /\ expected - r \in 0 .. l
      /\ pos + r = base + l - (expected - r)
      /\ out \o SubSeq(wire, pos + 1, pos + r) = SubSeq(b, 1, n + r)
      /\ n + r \in 0 .. l
  <2>1. /\ l - (expected - r) = n + r /\ expected - r \in 0 .. l
        /\ pos + r = base + l - (expected - r) /\ n + r \in 0 .. l
      BY <1>6, <1>12, <1>13
  <2> QED
      BY <1>3, <1>8, <2>1
<1>10. ASSUME NEW e, e.state = state, e.line = line, e.pos = pos + r,
              e.expected = expected - r,
              e.out = out \o SubSeq(wire, pos + 1, pos + r)
       PROVE  FixedAt(e, m, base)
  <2>1. l - e.expected \in 0 .. l /\ e.out = SubSeq(b, 1, l - e.expected)
      BY <1>9, <1>10
  <2>2. Got(e, m, l - e.expected)
      BY <2>1 DEF Got, b, l
  <2>3. e.expected \in 0 .. l /\ e.pos = base + l - e.expected
      BY <1>9, <1>10
  <2> QED
      BY <1>3, <1>10, <2>2, <2>3 DEF FixedAt, b, l
<1> QED
    BY <1>10
LEMMA ChunkStep ==
    ASSUME WellSent, BodyInv, k <= Len(script), rpc # "lost",
           NEW m, m = script[k], m.framing = "chunked", state = "ChunkBody",
           NEW r \in Nat, r <= avail - pos, r <= expected
    PROVE  \A e : (/\ e.state = IF expected - r = 0 THEN "ChunkBodyDelimiter" ELSE "ChunkBody"
                   /\ e.line = line /\ e.pos = pos + r /\ e.expected = expected - r
                   /\ e.out = out \o SubSeq(wire, pos + 1, pos + r))
                      => ChunkedAt(e, m, base)
<1> DEFINE b == BodyOf(m)
           l == Len(b)
           w == Len(wire)
<1>1. /\ k \in 1 .. Len(script) /\ script \in Scripts /\ SentInv
      /\ base = Offset(k) /\ base \in Nat /\ DecoderAt(Here, m, base)
      /\ b \in Bytes /\ l \in Nat /\ wire \in Bytes /\ w \in Nat
      /\ pos \in Nat /\ avail \in Nat /\ pos <= avail /\ avail <= w
      /\ m \in MessageSet
    BY AtMessage
<1>2. AtData(Here, m, base)
  <2>1. ChunkedAt(Here, m, base) /\ Here.state = "ChunkBody"
      BY <1>1, HereIs DEF DecoderAt
  <2> QED
      BY <2>1 DEF ChunkedAt
<1>3. PICK g \in 1 .. Len(m.items) :
          /\ line = NewDecoder /\ expected \in 1 .. Len(m.items[g])
          /\ pos = DataStart(m, base, g) + Len(m.items[g]) - expected
          /\ Got(Here, m, BodyTo(m, g) - expected)
    BY <1>2, HereIs DEF AtData
<1> DEFINE a == DataStart(m, base, g)
           i == Len(m.items[g])
           c == BodyTo(m, g - 1)
           d == BodyTo(m, g)
           n == d - expected
<1>4. /\ c \in Nat /\ i \in Nat /\ d = c + i /\ d <= l
      /\ \A q \in 1 .. i : b[c + q] = m.items[g][q]
    BY <1>1, ItemAt
<1>5. /\ a \in Nat
      /\ \A q \in 1 .. i : a + q <= w => wire[a + q] = m.items[g][q]
  <2>1. ItemSent(m, base, g)
      BY <1>1, ItemOnWire
  <2> QED
      BY <2>1 DEF ItemSent
<1>6. out = SubSeq(b, 1, n)
    BY <1>3, HereIs DEF Got
<1>7. expected \in 1 .. i /\ pos = a + i - expected
    BY <1>3
<1> HIDE DEF b, l, w, a, i, c, d
<1>8. /\ n \in Nat /\ n + r <= l /\ pos + r <= w
      /\ pos \in Nat /\ base \in Nat /\ l \in Nat /\ w \in Nat /\ d \in Nat
  <2>1. /\ pos \in Nat /\ base \in Nat /\ avail \in Nat /\ l \in Nat /\ w \in Nat
        /\ pos <= avail /\ avail <= w
      BY <1>1
  <2>2. c \in Nat /\ i \in Nat /\ d = c + i /\ d <= l
      BY <1>4
  <2> QED
      BY <1>7, <2>1, <2>2
<1>9. \A q \in 1 .. r : wire[pos + q] = b[n + q]
  <2> TAKE q \in 1 .. r
  <2>1. /\ (i - expected) + q \in 1 .. i /\ a + ((i - expected) + q) = pos + q
        /\ c + ((i - expected) + q) = n + q /\ pos + q <= w
      BY <1>4, <1>5, <1>7, <1>8
  <2> QED
      BY <1>4, <1>5, <2>1
<1>10. out \o SubSeq(wire, pos + 1, pos + r) = SubSeq(b, 1, n + r)
  <2>1. b \in Bytes /\ wire \in Bytes /\ n + r <= Len(b) /\ pos + r <= Len(wire)
      BY <1>1, <1>8 DEF l, w
  <2> HIDE DEF n
  <2>2. Extends(b, n, wire, pos, r)
      BY <1>8, <1>9, <2>1, GotMore
  <2> QED
      BY <1>6, <2>2 DEF Extends
<1>11. /\ n + r = d - (expected - r) /\ pos + r = a + i - (expected - r)
       /\ n + r \in 0 .. l
       /\ expected - r = 0 \/ expected - r \in 1 .. i
    BY <1>4, <1>5, <1>7, <1>8
<1>12. out \o SubSeq(wire, pos + 1, pos + r) = SubSeq(b, 1, d - (expected - r))
    BY <1>10, <1>11
<1> HIDE DEF n
<1>13. ASSUME NEW e, expected - r = 0, e.state = "ChunkBodyDelimiter", e.line = line,
              e.pos = pos + r, e.out = out \o SubSeq(wire, pos + 1, pos + r)
       PROVE  ChunkedAt(e, m, base)
  <2>1. pos + r = a + i /\ d \in 0 .. l /\ d - (expected - r) = d
      BY <1>4, <1>5, <1>8, <1>11, <1>13
  <2>2. Got(e, m, d)
    <3>1. e.out = SubSeq(b, 1, d)
        BY <1>12, <1>13, <2>1
    <3> QED
        BY <2>1, <3>1 DEF Got, b, l
  <2>3. InLine(e, a + i, <<>>)
    <3>1. IsText(<<>>)
        BY SymbolFacts, Texts
    <3>2. e.line = Partial(<<>>, 0) /\ 0 \in 0 .. Len(<<>>) + 1
        BY <1>3, <1>13, <3>1, LineStart
    <3>3. e.pos = (a + i) + 0
        BY <1>4, <1>5, <1>13, <2>1
    <3> QED
        BY <3>2, <3>3 DEF InLine
  <2>4. AtDelimiter(e, m, base)
      BY <2>2, <2>3 DEF AtDelimiter, a, i, d
  <2> QED
      BY <1>13, <2>4 DEF ChunkedAt
<1>14. ASSUME NEW e, expected - r # 0, e.state = "ChunkBody", e.line = line,
              e.pos = pos + r, e.expected = expected - r,
              e.out = out \o SubSeq(wire, pos + 1, pos + r)
       PROVE  ChunkedAt(e, m, base)
  <2>1. /\ e.expected \in 1 .. i /\ e.pos = a + i - e.expected
        /\ e.out = SubSeq(b, 1, d - e.expected)
      BY <1>11, <1>12, <1>14
  <2>2. d - e.expected \in 0 .. l
      BY <1>11, <1>14
  <2>3. Got(e, m, d - e.expected)
      BY <2>1, <2>2 DEF Got, b, l
  <2>4. AtData(e, m, base)
      BY <1>3, <1>14, <2>1, <2>3 DEF AtData, a, i, d
  <2> QED
      BY <1>14, <2>4 DEF ChunkedAt
<1> QED
    BY <1>13, <1>14
-----------------------------------------------------------------------------
(***************************************************************************)
(* What a step of the decoder does to where it is: the lines around the    *)
(* chunks.                                                                 *)
(***************************************************************************)
(* The line that a chunked decoder is in, and where it starts.             *)
Reading(m, o, text, start) ==
    \/ /\ state = "ChunkHeader"
       /\ \E g \in 1 .. Len(m.items) + 1 :
             /\ text = HeaderText(m, g) /\ start = PieceStart(m, o, g)
             /\ Got(Here, m, BodyTo(m, g - 1))
    \/ /\ state = "ChunkBodyDelimiter"
       /\ \E g \in 1 .. Len(m.items) :
             /\ text = <<>> /\ start = DataStart(m, o, g) + Len(m.items[g])
             /\ Got(Here, m, BodyTo(m, g))
    \/ /\ state = "TrailerPart" /\ out = BodyOf(m)
       /\ \/ m.form # "plain" /\ text = << "x" >> /\ start = TrailerStart(m, o)
          \/ m.form # "plain" /\ text = <<>> /\ start = TrailerStart(m, o) + 3
          \/ m.form = "plain" /\ text = <<>> /\ start = TrailerStart(m, o)
Fed(text, start) ==
    IsText(text) /\ start \in Nat /\ OnWire(start, text) /\ InLine(Here, start, text)

LEMMA LineRead ==
    ASSUME WellSent, BodyInv, k <= Len(script), rpc # "lost",
           NEW m, m = script[k], state \in LineStates
    PROVE  /\ m.framing = "chunked"
           /\ \E text, start : Reading(m, base, text, start) /\ Fed(text, start)
<1>1. /\ k \in 1 .. Len(script) /\ script \in Scripts /\ SentInv
      /\ base = Offset(k) /\ DecoderAt(Here, m, base) /\ m \in MessageSet
    BY AtMessage
<1>2. m.framing = "chunked"
  <2>1. m.framing \in Framings
      BY <1>1 DEF MessageSet
  <2>2. m.framing # "length"
      BY <1>1, HereIs DEF DecoderAt, FixedAt, LineStates
  <2>3. m.framing # "eof"
      BY <1>1, HereIs DEF DecoderAt, SimpleAt, LineStates
  <2> QED
      BY <2>1, <2>2, <2>3 DEF Framings
<1>3. ChunkedAt(Here, m, base)
    BY <1>1, <1>2 DEF DecoderAt
<1>4. \A g \in 1 .. Len(m.items) : ItemSent(m, base, g)
    BY <1>1, <1>2, ItemOnWire
<1>5. LastSent(m, base, Len(m.items) + 1)
    BY <1>1, <1>2, LastOnWire
<1>6. IsText(<<>>) /\ IsText(<< "x" >>) /\ Len(m.items) \in Nat
    BY <1>1, SymbolFacts, Texts, BodyEnds
<1>7. CASE state = "ChunkHeader"
  <2>1. AtHeader(Here, m, base)
      BY <1>3, <1>7, HereIs DEF ChunkedAt
  <2>2. PICK g \in 1 .. Len(m.items) + 1 :
            /\ InLine(Here, PieceStart(m, base, g), HeaderText(m, g))
            /\ Got(Here, m, BodyTo(m, g - 1))
      BY <2>1 DEF AtHeader
  <2>3. g \in 1 .. Len(m.items) \/ g = Len(m.items) + 1
      BY <1>6
  <2>4. /\ PieceStart(m, base, g) \in Nat /\ IsHeader(HeaderText(m, g))
        /\ OnWire(PieceStart(m, base, g), HeaderText(m, g))
      BY <1>4, <1>5, <2>3 DEF ItemSent, LastSent
  <2>5. Fed(HeaderText(m, g), PieceStart(m, base, g))
      BY <2>2, <2>4 DEF Fed, IsHeader
  <2>6. Reading(m, base, HeaderText(m, g), PieceStart(m, base, g))
      BY <1>7, <2>2 DEF Reading
  <2> QED
      BY <1>2, <2>5, <2>6
<1>8. CASE state = "ChunkBodyDelimiter"
  <2>1. AtDelimiter(Here, m, base)
      BY <1>3, <1>8, HereIs DEF ChunkedAt
  <2>2. PICK g \in 1 .. Len(m.items) :
            /\ InLine(Here, DataStart(m, base, g) + Len(m.items[g]), <<>>)
            /\ Got(Here, m, BodyTo(m, g))
      BY <2>1 DEF AtDelimiter
  <2>3. ItemSent(m, base, g)
      BY <1>4
  <2>4. DataStart(m, base, g) + Len(m.items[g]) \in Nat
    <3>1. DataStart(m, base, g) \in Nat /\ Len(m.items[g]) \in 0 .. 3
        BY <2>3 DEF ItemSent
    <3> QED
        BY <3>1
  <2>5. Fed(<<>>, DataStart(m, base, g) + Len(m.items[g]))
      BY <1>6, <2>2, <2>3, <2>4 DEF Fed, ItemSent
  <2>6. Reading(m, base, <<>>, DataStart(m, base, g) + Len(m.items[g]))
      BY <1>8, <2>2 DEF Reading
  <2> QED
      BY <1>2, <2>5, <2>6
<1>9. CASE state = "TrailerPart"
  <2>1. AtTrailer(Here, m, base)
      BY <1>3, <1>9, HereIs DEF ChunkedAt
  <2>2. out = BodyOf(m)
      BY <2>1, HereIs DEF AtTrailer
  <2> DEFINE t == TrailerStart(m, base)
             u == t + 3
  <2>3. /\ t \in Nat
        /\ m.form = "plain" => OnWire(t, <<>>)
        /\ m.form # "plain" => OnWire(t, << "x" >>) /\ OnWire(u, <<>>)
      BY <1>5 DEF LastSent
  <2>4. \/ m.form # "plain" /\ InLine(Here, t, << "x" >>)
        \/ m.form # "plain" /\ InLine(Here, u, <<>>)
        \/ m.form = "plain" /\ InLine(Here, t, <<>>)
      BY <2>1 DEF AtTrailer
  <2>5. u \in Nat
      BY <2>3
  <2>6. CASE m.form # "plain" /\ InLine(Here, t, << "x" >>)
    <3>1. Reading(m, base, << "x" >>, t) /\ Fed(<< "x" >>, t)
        BY <1>6, <1>9, <2>2, <2>3, <2>6 DEF Reading, Fed
    <3> QED
        BY <1>2, <3>1
  <2>7. CASE m.form # "plain" /\ InLine(Here, u, <<>>)
    <3>1. Reading(m, base, <<>>, u)
        BY <1>9, <2>2, <2>7 DEF Reading
    <3> HIDE DEF u
    <3>2. Fed(<<>>, u)
        BY <1>6, <2>3, <2>5, <2>7 DEF Fed
    <3> QED
        BY <1>2, <3>1, <3>2
  <2>8. CASE m.form = "plain" /\ InLine(Here, t, <<>>)
    <3>1. Reading(m, base, <<>>, t) /\ Fed(<<>>, t)
        BY <1>6, <1>9, <2>2, <2>3, <2>8 DEF Reading, Fed
    <3> QED
        BY <1>2, <3>1
  <2> QED
      BY <2>4, <2>6, <2>7, <2>8
<1> QED
    BY <1>7, <1>8, <1>9 DEF LineStates

(* The line goes on.                                                       *)
LEMMA LineKept ==
    ASSUME NEW m, NEW o, NEW text, NEW start, Reading(m, o, text, start)
    PROVE  \A e : e.state = state /\ e.out = out /\ InLine(e, start, text)
                      => ChunkedAt(e, m, o)
<1> SUFFICES ASSUME NEW e, e.state = state, e.out = out, InLine(e, start, text)
             PROVE  ChunkedAt(e, m, o)
    OBVIOUS
<1>1. \A n : Got(Here, m, n) => Got(e, m, n)
    BY HereIs DEF Got
<1>2. CASE state = "ChunkHeader"
  <2>1. AtHeader(e, m, o)
      BY <1>1, <1>2 DEF Reading, AtHeader
  <2> QED
      BY <1>2, <2>1 DEF ChunkedAt
<1>3. CASE state = "ChunkBodyDelimiter"
  <2>1. AtDelimiter(e, m, o)
      BY <1>1, <1>3 DEF Reading, AtDelimiter
  <2> QED
      BY <1>3, <2>1 DEF ChunkedAt
<1>4. CASE state = "TrailerPart"
  <2>1. AtTrailer(e, m, o)
      BY <1>4 DEF Reading, AtTrailer
  <2> QED
      BY <1>4, <2>1 DEF ChunkedAt
<1> QED
    BY <1>2, <1>3, <1>4 DEF Reading

LEMMA Fresh ==
    ASSUME NEW e, NEW text, IsText(text), NEW start \in Nat,
           e.line = NewDecoder, e.pos = start
    PROVE  InLine(e, start, text)
<1>1. e.line = Partial(text, 0) /\ 0 \in 0 .. Len(text) + 1
    BY LineStart
<1>2. e.pos = start + 0
    OBVIOUS
<1> QED
    BY <1>1, <1>2 DEF InLine

(* The line is complete: a chunk header, ...                               *)
LEMMA HeaderDone ==
    ASSUME WellSent, BodyInv, k <= Len(script), rpc # "lost",
           NEW m, m = script[k], m.framing = "chunked", state = "ChunkHeader",
           NEW text, NEW start, Reading(m, base, text, start),
           IsHex(HeaderDigits(text))
    PROVE  /\ HexValue(HeaderDigits(text)) \in 0 .. 3
           /\ \A e : (/\ e.state = IF HexValue(HeaderDigits(text)) > 0
                                   THEN "ChunkBody" ELSE "TrailerPart"
                      /\ e.expected = HexValue(HeaderDigits(text))
                      /\ e.line = NewDecoder /\ e.pos = start + Len(text) + 2
                      /\ e.out = out)
                         => ChunkedAt(e, m, base)
<1>1. /\ k \in 1 .. Len(script) /\ script \in Scripts /\ SentInv
      /\ base = Offset(k) /\ m \in MessageSet /\ ShortItems(m)
      /\ \A j \in 1 .. Len(m.items) : m.items[j] # <<>>
    BY AtMessage
<1>2. Len(m.items) \in Nat /\ IsText(<<>>) /\ IsText(<< "x" >>)
    BY <1>1, SymbolFacts, Texts, BodyEnds
<1>3. PICK g \in 1 .. Len(m.items) + 1 :
          /\ text = HeaderText(m, g) /\ start = PieceStart(m, base, g)
          /\ Got(Here, m, BodyTo(m, g - 1))
    BY DEF Reading
<1> DEFINE v == HexValue(HeaderDigits(text))
<1>4. start + Len(text) + 2 = DataStart(m, base, g)
    BY <1>3 DEF DataStart
<1>5. CASE g <= Len(m.items)
  <2> DEFINE i == Len(m.items[g])
             a == DataStart(m, base, g)
             c == BodyTo(m, g - 1)
             d == BodyTo(m, g)
  <2>1. g \in 1 .. Len(m.items)
      BY <1>2, <1>5
  <2>2. text = ChunkHeaderOf(m, i) /\ i \in 0 .. 3
      BY <1>1, <1>3, <1>5, <2>1 DEF HeaderText, ShortItems
  <2>3. m.form # "garbage" /\ v = i
    <3> HIDE DEF i
    <3> QED
        BY <1>1, <2>2, HeaderSize
  <2>4. c \in Nat /\ i \in Nat /\ d = c + i /\ m.items[g] \in Bytes
      BY <1>1, <2>1, ItemAt
  <2>5. i # 0
    <3>1. m.items[g] # <<>> /\ m.items[g] \in Seq(Symbols)
        BY <1>1, <2>1, <2>4 DEF Bytes
    <3> QED
        BY <3>1, EmptySeq
  <2>6. ItemSent(m, base, g)
      BY <1>1, <2>1, ItemOnWire
  <2>7. a \in Nat
      BY <2>6 DEF ItemSent
  <2> HIDE DEF i, a, c, d, v
  <2>8. v > 0 /\ v \in 0 .. 3 /\ i \in 1 .. i /\ a + i - i = a /\ d - i = c
      BY <2>2, <2>3, <2>4, <2>5, <2>7
  <2>9. ASSUME NEW e, e.state = "ChunkBody", e.expected = v, e.line = NewDecoder,
               e.pos = start + Len(text) + 2, e.out = out
        PROVE  ChunkedAt(e, m, base)
    <3>1. e.expected = i /\ e.pos = a
        BY <1>4, <2>3, <2>9 DEF a
    <3>2. e.expected \in 1 .. i /\ e.pos = a + i - e.expected
        BY <2>8, <3>1
    <3>3. Got(e, m, d - e.expected)
      <4>1. d - e.expected = c
          BY <2>8, <3>1
      <4> QED
          BY <1>3, <2>9, <4>1, HereIs DEF Got, c
    <3>4. AtData(e, m, base)
        BY <2>1, <2>9, <3>2, <3>3 DEF AtData, a, i, d
    <3> QED
        BY <2>9, <3>4 DEF ChunkedAt
  <2>10. v \in 0 .. 3 /\ v > 0
      BY <2>8
  <2> QED
      BY <2>9, <2>10 DEF v
<1>6. CASE g = Len(m.items) + 1
  <2>1. LastSent(m, base, g)
      BY <1>1, <1>6, LastOnWire
  <2> DEFINE t == TrailerStart(m, base)
  <2>2. t \in Nat /\ text = << Digits[1] >>
      BY <1>3, <2>1 DEF LastSent
  <2>3. v = 0
      BY <2>2, LastSize
  <2>4. t = start + Len(text) + 2
      BY <1>4, <1>6 DEF TrailerStart
  <2>5. out = BodyOf(m)
    <3> DEFINE b == BodyOf(m)
    <3>1. g - 1 = Len(m.items)
        BY <1>2, <1>6
    <3>2. Got(Here, m, BodyTo(m, Len(m.items)))
        BY <1>3, <3>1
    <3>3. BodyTo(m, Len(m.items)) = Len(b) /\ b \in Bytes
        BY <1>1, BodyEnds
    <3>4. out = SubSeq(b, 1, Len(b))
        BY <3>2, <3>3, HereIs DEF Got
    <3> HIDE DEF b
    <3>5. out = b
        BY <3>3, <3>4, SubSeqFull DEF Bytes
    <3> QED
        BY <3>5 DEF b
  <2> HIDE DEF t, v
  <2>6. ASSUME NEW e, e.state = "TrailerPart", e.line = NewDecoder,
               e.pos = start + Len(text) + 2, e.out = out
        PROVE  ChunkedAt(e, m, base)
    <3>1. e.pos = t
        BY <2>4, <2>6
    <3>2. InLine(e, t, <<>>) /\ InLine(e, t, << "x" >>)
        BY <1>2, <2>2, <2>6, <3>1, Fresh
    <3>3. AtTrailer(e, m, base)
        BY <2>5, <2>6, <3>2 DEF AtTrailer, t
    <3> QED
        BY <2>6, <3>3 DEF ChunkedAt
  <2>7. v \in 0 .. 3 /\ ~(v > 0)
      BY <2>3
  <2> QED
      BY <2>6, <2>7 DEF v
<1>7. g <= Len(m.items) \/ g = Len(m.items) + 1
    BY <1>2
<1> QED
    BY <1>5, <1>6, <1>7

(* ... the delimiter after a chunk, ...                                    *)
LEMMA DelimiterDone ==
    ASSUME WellSent, BodyInv, k <= Len(script), rpc # "lost",
           NEW m, m = script[k], m.framing = "chunked", state = "ChunkBodyDelimiter",
           NEW text, NEW start, Reading(m, base, text, start)
    PROVE  \A e : (/\ e.state = "ChunkHeader" /\ e.line = NewDecoder
                   /\ e.pos = start + Len(text) + 2 /\ e.out = out)
                      => ChunkedAt(e, m, base)
<1>1. /\ k \in 1 .. Len(script) /\ script \in Scripts /\ SentInv
      /\ base = Offset(k) /\ m \in MessageSet /\ ShortItems(m)
    BY AtMessage
<1>2. Len(m.items) \in Nat /\ Len(<<>>) = 0
    BY <1>1, BodyEnds
<1>3. PICK g \in 1 .. Len(m.items) :
          /\ text = <<>> /\ start = DataStart(m, base, g) + Len(m.items[g])
          /\ Got(Here, m, BodyTo(m, g))
    BY DEF Reading
<1> DEFINE p == PieceStart(m, base, g + 1)
           t == HeaderText(m, g + 1)
<1>4. ItemSent(m, base, g)
    BY <1>1, ItemOnWire
<1>5. p = start + 2 /\ p \in Nat
  <2> DEFINE a == DataStart(m, base, g)
             z == Len(m.items[g])
  <2>1. p = (a + z) + 2 /\ a \in Nat /\ z \in 0 .. 3
      BY <1>4 DEF ItemSent
  <2>2. start = a + z
      BY <1>3
  <2> HIDE DEF a, z, p
  <2> QED
      BY <2>1, <2>2
<1>6. IsText(t)
  <2>1. CASE g + 1 \in 1 .. Len(m.items)
    <3>1. ItemSent(m, base, g + 1)
        BY <1>1, <2>1, ItemOnWire
    <3> QED
        BY <3>1 DEF ItemSent, IsHeader
  <2>2. CASE g + 1 = Len(m.items) + 1
    <3>1. LastSent(m, base, g + 1)
        BY <1>1, <2>2, LastOnWire
    <3> QED
        BY <3>1 DEF LastSent, IsHeader
  <2>3. g + 1 \in 1 .. Len(m.items) \/ g + 1 = Len(m.items) + 1
      BY <1>2
  <2> QED
      BY <2>1, <2>2, <2>3
<1>7. g + 1 \in 1 .. Len(m.items) + 1 /\ (g + 1) - 1 = g
    BY <1>2
<1>8. Len(text) + 2 = 2
    BY <1>2, <1>3
<1> HIDE DEF p, t
<1>9. ASSUME NEW e, e.state = "ChunkHeader", e.line = NewDecoder,
             e.pos = start + Len(text) + 2, e.out = out
      PROVE  ChunkedAt(e, m, base)
  <2>1. e.pos = p
    <3>1. start + Len(text) + 2 = start + 2
        BY <1>2, <1>3
    <3> QED
        BY <1>5, <1>9, <3>1
  <2>2. InLine(e, p, t)
      BY <1>5, <1>6, <1>9, <2>1, Fresh
  <2>3. Got(e, m, BodyTo(m, (g + 1) - 1))
      BY <1>3, <1>7, <1>9, HereIs DEF Got
  <2>4. AtHeader(e, m, base)
      BY <1>7, <2>2, <2>3 DEF AtHeader, p, t
  <2> QED
      BY <1>9, <2>4 DEF ChunkedAt
<1> QED
    BY <1>9

(* ... or a line of the trailer.                                           *)
LEMMA TrailerDone ==
    ASSUME WellSent, BodyInv, k <= Len(script), rpc # "lost",
           NEW m, m = script[k], m.framing = "chunked", state = "TrailerPart",
           NEW text, NEW start, Reading(m, base, text, start)
    PROVE  \A e : (/\ e.state = IF text = <<>> THEN "Completed" ELSE "TrailerPart"
                   /\ e.line = NewDecoder
                   /\ e.pos = start + Len(text) + 2 /\ e.out = out)
                      => ChunkedAt(e, m, base)
<1>1. /\ k \in 1 .. Len(script) /\ script \in Scripts /\ SentInv
      /\ base = Offset(k) /\ m \in MessageSet /\ ShortItems(m)
    BY AtMessage
<1>2. Len(<<>>) = 0 /\ Len(<< "x" >>) = 1 /\ << "x" >> # <<>> /\ IsText(<<>>)
    BY SymbolFacts, Texts
<1> DEFINE t == TrailerStart(m, base)
           z == base + Len(Encoded(m))
           g == Len(m.items) + 1
<1>3. LastSent(m, base, g)
    BY <1>1, LastOnWire
<1>4. /\ t \in Nat
      /\ m.form = "plain" => t + 2 = z
      /\ m.form # "plain" => t + 3 + 2 = z
    BY <1>3 DEF LastSent
<1>5. /\ out = BodyOf(m)
      /\ \/ m.form # "plain" /\ text = << "x" >> /\ start = t
         \/ m.form # "plain" /\ text = <<>> /\ start = t + 3
         \/ m.form = "plain" /\ text = <<>> /\ start = t
    BY DEF Reading
<1>6. \/ m.form # "plain" /\ text # <<>> /\ start + Len(text) + 2 = t + 3
      \/ text = <<>> /\ start + Len(text) + 2 = z
  <2>1. CASE m.form # "plain" /\ text = << "x" >> /\ start = t
    <3>1. t + 1 + 2 = t + 3
        BY <1>4
    <3> QED
        BY <1>2, <2>1, <3>1
  <2>2. CASE m.form # "plain" /\ text = <<>> /\ start = t + 3
    <3>1. t + 3 + 0 + 2 = z
        BY <1>4, <2>2
    <3> QED
        BY <1>2, <2>2, <3>1
  <2>3. CASE m.form = "plain" /\ text = <<>> /\ start = t
    <3>1. t + 0 + 2 = z
        BY <1>4, <2>3
    <3> QED
        BY <1>2, <2>3, <3>1
  <2> QED
      BY <1>5, <2>1, <2>2, <2>3
<1> HIDE DEF t, z
<1>7. ASSUME NEW e, text = <<>>, e.state = "Completed", e.line = NewDecoder,
             e.pos = start + Len(text) + 2, e.out = out
      PROVE  ChunkedAt(e, m, base)
  <2>1. AtEnd(e, m, base)
      BY <1>5, <1>6, <1>7 DEF AtEnd, z
  <2> QED
      BY <1>7, <2>1 DEF ChunkedAt
<1>8. ASSUME NEW e, text # <<>>, e.state = "TrailerPart", e.line = NewDecoder,
             e.pos = start + Len(text) + 2, e.out = out
      PROVE  ChunkedAt(e, m, base)
  <2>1. m.form # "plain" /\ e.pos = t + 3
      BY <1>6, <1>8
  <2>2. t + 3 \in Nat
      BY <1>4
  <2>3. InLine(e, t + 3, <<>>)
      BY <1>2, <1>8, <2>1, <2>2, Fresh
  <2>4. AtTrailer(e, m, base)
      BY <1>5, <1>8, <2>1, <2>3 DEF AtTrailer, t
  <2> QED
      BY <1>8, <2>4 DEF ChunkedAt
<1> QED
    BY <1>7, <1>8
-----------------------------------------------------------------------------
(***************************************************************************)
(* The steps of the sender, and what the other steps leave alone.          *)
(***************************************************************************)
LEMMA SentKept ==
    ASSUME SentInv, UNCHANGED <<script, svars>>
    PROVE  SentInv'
BY DEF SentInv, svars

LEMMA OffsetKept ==
    ASSUME UNCHANGED <<script, k>>
    PROVE  Offset(k)' = Offset(k)
BY DEF Offset

LEMMA HereKept ==
    ASSUME UNCHANGED <<dvars, pos, out>>
    PROVE  Here' = Here
BY DEF Here, dvars

LEMMA ItemPieces ==
    ASSUME NEW m \in MessageSet, ShortItems(m), NEW g \in 1 .. Len(m.items) + 1,
           NEW a \in Bytes, NEW w, w = a \o Ahead(Pieces(m), g - 1)
    PROVE  /\ w \o Pieces(m)[g] = a \o Ahead(Pieces(m), g)
           /\ w \in Bytes /\ w \o Pieces(m)[g] \in Bytes
           /\ Len(w) \in Nat /\ Len(w \o Pieces(m)[g]) \in Nat
           /\ Len(w) <= Len(w \o Pieces(m)[g])
           /\ g = Len(m.items) + 1 => Ahead(Pieces(m), g) = Encoded(m)
<1> DEFINE p == Pieces(m)
           b == Ahead(p, g - 1)
           c == p[g]
           Q == Seq(Symbols)
<1>1. /\ p \in Seq(Seq(Symbols)) /\ Len(p) = Len(m.items) + 1
      /\ Len(m.items) \in Nat /\ FlattenSeq(p) = Encoded(m)
    BY MessagePieces DEF Bytes
<1>2. g \in 1 .. Len(p) /\ g - 1 \in 0 .. Len(p) /\ g \in 0 .. Len(p)
    BY <1>1
<1> HIDE DEF p
<1>3. Ahead(p, g) = b \o c
    BY <1>1, <1>2, AheadStep
<1>4. b \in Q /\ Ahead(p, g) \in Q
    BY <1>1, <1>2, AheadType
<1>5. c \in Q
    BY <1>1, <1>2, ElementOfSeq
<1>6. a \in Q
    BY DEF Bytes
<1>7. (a \o b) \o c = a \o (b \o c) /\ a \o b \in Q /\ (a \o b) \o c \in Q
  <2>1. Closed(Q)
      BY SeqClosed
  <2> HIDE DEF Q
  <2> QED
      BY <1>4, <1>5, <1>6, <2>1 DEF Closed
<1>8. Len((a \o b) \o c) = Len(a \o b) + Len(c)
    BY <1>5, <1>7, ConcatProperties
<1>9. Len(c) \in Nat /\ Len(a \o b) \in Nat
    BY <1>5, <1>7, LenProperties
<1>10. g = Len(m.items) + 1 => Ahead(p, g) = Encoded(m)
  <2> DEFINE R == Seq(Symbols)
  <2>1. p \in Seq(R)
      BY <1>1
  <2> HIDE DEF R
  <2>2. Ahead(p, Len(p)) = FlattenSeq(p)
      BY <2>1, AheadAll
  <2> QED
      BY <1>1, <2>2
<1>11. w = a \o b
    BY DEF b, p
<1> HIDE DEF b, c
<1>12. w \o c = a \o Ahead(p, g)
    BY <1>3, <1>7, <1>11
<1>13. /\ w \in Q /\ w \o c \in Q /\ Len(w) \in Nat /\ Len(w \o c) \in Nat
       /\ Len(w) <= Len(w \o c)
  <2>1. Len(a \o b) <= Len(a \o b) + Len(c) /\ Len(a \o b) + Len(c) \in Nat
      BY <1>9
  <2> HIDE DEF Q
  <2> QED
      BY <1>7, <1>8, <1>9, <1>11, <2>1
<1> QED
    BY <1>10, <1>12, <1>13 DEF Bytes, c, p, Q

(* A send appends the next piece: the stream goes on as it should.         *)
LEMMA Send ==
    ASSUME script \in Scripts, SentInv, SendItem \/ SendLast
    PROVE  SentInv' /\ wire' \in Bytes /\ Len(wire) <= Len(wire')
<1> DEFINE e == Encodings(script)
           m == script[smsg]
           p == Pieces(m)
           a == Ahead(e, smsg - 1)
<1>1. /\ e \in Seq(Seq(Symbols)) /\ Len(e) = Len(script) /\ Len(script) \in Nat
      /\ \A i \in 1 .. Len(script) : e[i] = Encoded(script[i])
    BY EncodingsOf
<1>2. smsg \in 1 .. Len(script) /\ script' = script
    BY <1>1 DEF SentInv, SendItem, SendLast
<1>3. m \in MessageSet /\ ShortItems(m)
    BY <1>2, Messages
<1>4. /\ Len(m.items) \in Nat /\ p[Len(m.items) + 1] = LastChunk(m)
      /\ \A g \in 1 .. Len(m.items) : p[g] = EncodedItem(m, m.items[g])
    BY <1>3, MessagePieces
<1>5. sitem \in 1 .. Len(m.items) + 1 /\ wire = a \o Ahead(p, sitem - 1)
    BY <1>1, <1>2 DEF SentInv
<1>6. a \in Bytes
  <2>1. smsg - 1 \in 0 .. Len(e)
      BY <1>1, <1>2
  <2> HIDE DEF e
  <2>2. a \in Seq(Symbols)
      BY <1>1, <2>1, AheadType
  <2> QED
      BY <2>2 DEF Bytes
<1>7. smsg <= Len(script)
    BY <1>1, <1>2
<1> HIDE DEF e, p, a, m
<1>8. /\ wire \o p[sitem] = a \o Ahead(p, sitem)
      /\ wire \o p[sitem] \in Bytes /\ Len(wire) <= Len(wire \o p[sitem])
      /\ sitem = Len(m.items) + 1 => Ahead(p, sitem) = Encoded(m)
    BY <1>3, <1>5, <1>6, ItemPieces DEF p
<1>9. CASE SendItem
  <2>1. sitem \in 1 .. Len(m.items)
      BY <1>4, <1>5, <1>9 DEF SendItem, m
  <2>2. wire' = wire \o p[sitem] /\ smsg' = smsg /\ sitem' = sitem + 1
      BY <1>4, <1>9, <2>1 DEF SendItem, m
  <2>3. (sitem + 1) - 1 = sitem /\ sitem + 1 \in 1 .. Len(m.items) + 1
      BY <1>4, <2>1
  <2>4. wire' = a \o Ahead(p, sitem' - 1) /\ sitem' \in 1 .. Len(m.items) + 1
      BY <1>8, <2>2, <2>3
  <2>5. smsg # Len(script) + 1
      BY <1>1, <1>2
  <2>6. SentInv'
      BY <1>2, <2>2, <2>4, <2>5 DEF SentInv, a, p, m, e
  <2> QED
      BY <1>8, <2>2, <2>6
<1>10. CASE SendLast
  <2>1. sitem = Len(m.items) + 1
    <3>1. sitem > Len(m.items)
        BY <1>10 DEF SendLast, m
    <3> QED
        BY <1>4, <1>5, <3>1
  <2>2. wire' = wire \o p[sitem] /\ smsg' = smsg + 1 /\ sitem' = 1
      BY <1>4, <1>10, <2>1 DEF SendLast, m
  <2>3. Ahead(e, smsg) = a \o Encoded(m)
    <3>1. e[smsg] = Encoded(m) /\ smsg \in 1 .. Len(e)
        BY <1>1, <1>2 DEF m
    <3>2. Ahead(e, smsg) = a \o e[smsg]
        BY <1>1, <3>1, AheadStep DEF a
    <3> QED
        BY <3>1, <3>2
  <2>4. wire' = Ahead(e, smsg)
      BY <1>8, <2>1, <2>2, <2>3
  <2>5. (smsg + 1) - 1 = smsg /\ smsg + 1 \in 1 .. Len(script) + 1
      BY <1>1, <1>2
  <2>6. smsg' <= Len(script) =>
            /\ sitem' \in 1 .. Len(script[smsg'].items) + 1
            /\ wire' = Ahead(e, smsg' - 1) \o Ahead(Pieces(script[smsg']), sitem' - 1)
    <3> SUFFICES ASSUME smsg + 1 <= Len(script)
                 PROVE  /\ 1 \in 1 .. Len(script[smsg + 1].items) + 1
                        /\ wire' = Ahead(e, smsg)
                                     \o Ahead(Pieces(script[smsg + 1]), 0)
      <4>1. 1 - 1 = 0
          OBVIOUS
      <4> QED
          BY <2>2, <2>5, <4>1
    <3>1. smsg + 1 \in 1 .. Len(script)
        BY <1>1, <1>2
    <3>2. script[smsg + 1] \in MessageSet
        BY <3>1, Messages
    <3>3. Len(script[smsg + 1].items) \in Nat
        BY <3>2, BodyEnds
    <3>4. wire' \in Seq(Symbols)
        BY <1>8, <2>2 DEF Bytes
    <3>5. wire' \o <<>> = wire'
        BY <3>4, SeqClosed DEF Closed
    <3>6. Ahead(Pieces(script[smsg + 1]), 0) = <<>> /\ 1 \in 1 .. Len(script[smsg + 1].items) + 1
        BY <3>3, AheadEmpty
    <3> QED
        BY <2>4, <3>5, <3>6
  <2>7. smsg' = Len(script) + 1 => wire' = Stream(script)
    <3> SUFFICES ASSUME smsg' = Len(script) + 1 PROVE wire' = Stream(script)
        OBVIOUS
    <3>1. smsg = Len(e)
        BY <1>1, <1>2, <2>2
    <3> DEFINE Q == Seq(Symbols)
    <3>2. e \in Seq(Q)
        BY <1>1
    <3> HIDE DEF Q
    <3>3. Ahead(e, Len(e)) = FlattenSeq(e)
        BY <3>2, AheadAll
    <3> QED
        BY <2>4, <3>1, <3>3 DEF Stream, e
  <2>8. SentInv'
      BY <1>2, <2>2, <2>5, <2>6, <2>7 DEF SentInv, e
  <2> QED
      BY <1>8, <2>2, <2>8
<1> QED
    BY <1>9, <1>10
-----------------------------------------------------------------------------
(***************************************************************************)
(* The invariant holds at the start.                                       *)
(***************************************************************************)
(* A new decoder, where its message starts.                                *)
LEMMA StartsAt ==
    ASSUME NEW m \in MessageSet, ShortItems(m), NEW o \in Nat
    PROVE  \A e : (/\ e.state = StateOf(m) /\ e.expected = ExpectedOf(m)
                   /\ e.line = NewDecoder /\ e.pos = o /\ e.out = <<>>)
                      => DecoderAt(e, m, o)
<1> DEFINE b == BodyOf(m)
           l == Len(b)
<1>1. /\ BodyTo(m, 0) = 0 /\ b \in Bytes /\ l \in Nat /\ Len(m.items) \in Nat
    BY BodyEnds
<1>2. m.framing \in Framings
    BY DEF MessageSet
<1>3. SubSeq(b, 1, 0) = <<>>
    BY <1>1, SubSeqEmpty DEF Bytes
<1> HIDE DEF b, l
<1> SUFFICES ASSUME NEW e, e.state = StateOf(m), e.expected = ExpectedOf(m),
                    e.line = NewDecoder, e.pos = o, e.out = <<>>
             PROVE  DecoderAt(e, m, o)
    OBVIOUS
<1>4. Got(e, m, 0)
    BY <1>1, <1>3 DEF Got, b, l
<1>5. CASE m.framing = "chunked"
  <2>1. e.state = "ChunkHeader"
      BY <1>5 DEF StateOf
  <2>2. IsText(HeaderText(m, 1))
    <3>1. CASE 1 <= Len(m.items)
      <4>1. Len(m.items[1]) \in 0 .. 3
          BY <1>1, <3>1 DEF ShortItems
      <4> QED
          BY <3>1, <4>1, HeaderTexts DEF HeaderText, IsHeader
    <3>2. CASE ~(1 <= Len(m.items))
      <4>1. 0 + 1 = 1 /\ 0 \in 0 .. 3
          OBVIOUS
      <4>2. Digits[1] \in Symbols /\ Digits[1] # LF
          BY <4>1, DigitFacts
      <4>3. IsText(<< Digits[1] >>)
          BY <4>2, Texts
      <4> QED
          BY <3>2, <4>3 DEF HeaderText
    <3> QED
        BY <3>1, <3>2
  <2>3. PieceStart(m, o, 1) = o
    <3>1. Ahead(Pieces(m), 0) = <<>> /\ Len(<<>>) = 0 /\ 1 - 1 = 0
        BY AheadEmpty
    <3> QED
        BY <3>1 DEF PieceStart
  <2>4. InLine(e, PieceStart(m, o, 1), HeaderText(m, 1))
      BY <2>2, <2>3, Fresh
  <2>5. 1 \in 1 .. Len(m.items) + 1 /\ 1 - 1 = 0
      BY <1>1
  <2>6. AtHeader(e, m, o)
      BY <1>1, <1>4, <2>4, <2>5 DEF AtHeader
  <2>7. ChunkedAt(e, m, o)
      BY <2>1, <2>6 DEF ChunkedAt
  <2> QED
      BY <1>5, <2>7 DEF DecoderAt
<1>6. CASE m.framing = "length"
  <2>1. e.state = "Fixed" /\ e.expected = l
      BY <1>6 DEF StateOf, ExpectedOf, l, b
  <2>2. l \in 0 .. l /\ o + l - l = o /\ l - l = 0
      BY <1>1
  <2>3. FixedAt(e, m, o)
      BY <1>4, <2>1, <2>2 DEF FixedAt, l, b
  <2> QED
      BY <1>6, <2>3 DEF DecoderAt
<1>7. CASE m.framing = "eof"
  <2>1. e.state = "Simple"
      BY <1>7 DEF StateOf
  <2>2. o - o = 0 /\ o >= o
      OBVIOUS
  <2>3. SimpleAt(e, m, o)
      BY <1>4, <2>1, <2>2 DEF SimpleAt
  <2> QED
      BY <1>7, <2>3 DEF DecoderAt
<1> QED
    BY <1>2, <1>5, <1>6, <1>7 DEF Framings

LEMMA StateTypes ==
    ASSUME NEW m \in MessageSet
    PROVE  /\ StateOf(m) \in {"ChunkHeader", "Fixed", "Simple"}
           /\ ExpectedOf(m) \in Nat
<1>1. m.framing \in Framings
    BY DEF MessageSet
<1>2. Len(BodyOf(m)) \in Nat
    BY BodyEnds
<1>3. ExpectedOf(m) \in Nat
    BY <1>2 DEF ExpectedOf
<1>4. StateOf(m) \in {"ChunkHeader", "Fixed", "Simple"}
    BY <1>1 DEF StateOf, Framings
<1> QED
    BY <1>3, <1>4

LEMMA BodyInit == ASSUME Init, WellSent PROVE BodyInv
<1>1. /\ script \in Scripts /\ smsg = 1 /\ sitem = 1 /\ wire = <<>> /\ closed = FALSE
      /\ k = 1 /\ base = 0 /\ avail = 0 /\ pos = 0 /\ eof = FALSE /\ rpc = "decode"
      /\ state = StateOf(script[1]) /\ expected = ExpectedOf(script[1])
      /\ line = NewDecoder /\ out = <<>> /\ done = <<>>
      /\ body = [i \in DOMAIN script |-> [size |-> 0, outcome |-> "reading"]]
    BY DEF Init
<1>2. Len(script) \in Nat \ {0} /\ DOMAIN script = 1 .. Len(script)
    BY <1>1, ScriptLength
<1>3. 1 \in 1 .. Len(script)
    BY <1>2
<1>4. script[1] \in MessageSet /\ ShortItems(script[1])
    BY <1>1, <1>3, Messages
<1>5. /\ BodyOf(script[1]) \in Bytes /\ Len(BodyOf(script[1])) \in Nat
      /\ Len(script[1].items) \in Nat
    BY <1>4, BodyEnds
<1>6. /\ state \in {"ChunkHeader", "Fixed", "Simple"} /\ expected \in Nat
    BY <1>1, <1>4, StateTypes
<1>7. \A i \in DOMAIN script : body[i].size = 0 /\ body[i].outcome = "reading"
    BY <1>1
<1>8. SentInv
  <2>1. smsg \in 1 .. Len(script) + 1 /\ smsg # Len(script) + 1 /\ 1 - 1 = 0
      BY <1>1, <1>2
  <2>2. sitem \in 1 .. Len(script[1].items) + 1
      BY <1>1, <1>5
  <2>3. wire = <<>> \o <<>>
      BY <1>1
  <2>4. wire = Ahead(Encodings(script), 0) \o Ahead(Pieces(script[1]), 0)
      BY <2>3, AheadEmpty
  <2> QED
      BY <1>1, <2>1, <2>2, <2>4 DEF SentInv
<1>9. Typed
  <2>1. /\ <<>> \in Bytes /\ <<>> \in Seq(Bytes) /\ Len(<<>>) = 0
      BY DEF Bytes
  <2>2. base \in Nat /\ pos \in Nat /\ avail \in Nat /\ Len(wire) = 0
        /\ base <= pos /\ pos <= avail /\ avail <= Len(wire)
      BY <1>1, <2>1
  <2>3. k \in 1 .. Len(script) + 1 /\ Len(done) = k - 1 /\ k # Len(script) + 1
      BY <1>1, <1>2, <2>1
  <2>4. body \in [DOMAIN script -> [size : Nat, outcome : Outcomes]]
    <3>1. [size |-> 0, outcome |-> "reading"] \in [size : Nat, outcome : Outcomes]
        BY DEF Outcomes
    <3> QED
        BY <1>1, <3>1
  <2>5. ASSUME NEW i \in DOMAIN script PROVE body[i].size <= Len(Arrived(i))
    <3>1. ~(i < k)
        BY <1>1, <1>2
    <3>2. Len(Arrived(i)) = 0
        BY <1>1, <2>1, <3>1 DEF Arrived
    <3> QED
        BY <1>7, <3>2
  <2>6. /\ state \in LineStates \cup {"ChunkBody", "Fixed", "Simple", "Completed"}
        /\ state # "ChunkBody"
      BY <1>6 DEF LineStates
  <2>7. Len(line.buffer) <= MaxLineLength
      BY <1>1, <2>1, MaxLineAssumption DEF NewDecoder
  <2>8. rpc \in {"decode", "read", "leave", "idle", "lost"} /\ rpc # "idle"
        /\ closed \in BOOLEAN /\ eof \in BOOLEAN
      BY <1>1
  <2> QED
      BY <1>1, <1>6, <2>1, <2>2, <2>3, <2>4, <2>5, <2>6, <2>7, <2>8 DEF Typed
<1>10. DecodeInv
  <2>1. base = Offset(k) /\ base \in Nat
      BY <1>1, FirstOffset
  <2>2. DecoderAt(Here, script[k], base)
      BY <1>1, <1>4, <2>1, HereIs, StartsAt
  <2>3. out = SubSeq(BodyOf(script[k]), 1, 0) /\ 0 \in 0 .. Len(BodyOf(script[k]))
      BY <1>1, <1>5, SubSeqEmpty DEF Bytes
  <2> QED
      BY <2>1, <2>2, <2>3 DEF DecodeInv
<1>11. DoneInv
  <2>1. 1 .. k - 1 = {}
      BY <1>1
  <2> QED
      BY <2>1 DEF DoneInv
<1>12. ReadInv
  <2>1. ASSUME NEW i \in DOMAIN script PROVE ~Exceeds(script[i], body[i].size)
    <3>1. script[i].limit \in Seq(Nat) /\ Len(script[i].limit) <= 1
        BY <1>1, <1>2, Messages
    <3> QED
        BY <1>7, <3>1 DEF Exceeds
  <2> QED
      BY <1>7, <2>1 DEF ReadInv
<1> QED
    BY <1>8, <1>9, <1>10, <1>11, <1>12 DEF BodyInv
-----------------------------------------------------------------------------
(***************************************************************************)
(* The steps of the sender and of the reader keep the invariant when the   *)
(* decoder stays where its message is, or the connection is lost.          *)
(***************************************************************************)
LEMMA DecoderHas ==
    ASSUME NEW m \in MessageSet, ShortItems(m), NEW o, NEW d, DecoderAt(d, m, o)
    PROVE  /\ \E n \in 0 .. Len(BodyOf(m)) : d.out = SubSeq(BodyOf(m), 1, n)
           /\ d.state \in LineStates \cup {"ChunkBody", "Fixed", "Simple", "Completed"}
           /\ d.state = "ChunkBody" => d.expected \in 1 .. Len(Digits) - 1
<1> DEFINE b == BodyOf(m)
           l == Len(b)
           Has == \E n \in 0 .. l : d.out = SubSeq(b, 1, n)
<1>1. b \in Bytes /\ l \in Nat /\ m.framing \in Framings
    BY BodyEnds DEF MessageSet
<1>2. SubSeq(b, 1, l) = b
    BY <1>1, SubSeqFull DEF Bytes
<1>3. \A n : Got(d, m, n) => Has
    BY DEF Got
<1>4. d.out = BodyOf(m) => Has
  <2>1. l \in 0 .. l
      BY <1>1
  <2> QED
      BY <1>2, <2>1
<1> HIDE DEF b, l, Has
<1>5. CASE m.framing = "chunked"
  <2>1. ChunkedAt(d, m, o)
      BY <1>5 DEF DecoderAt
  <2>2. Has
      BY <1>3, <1>4, <2>1
      DEF ChunkedAt, AtHeader, AtData, AtDelimiter, AtTrailer, AtEnd
  <2>3. d.state \in LineStates \cup {"ChunkBody", "Fixed", "Simple", "Completed"}
      BY <2>1 DEF ChunkedAt, LineStates
  <2>4. ASSUME d.state = "ChunkBody" PROVE d.expected \in 1 .. Len(Digits) - 1
    <3>1. AtData(d, m, o)
        BY <2>1, <2>4 DEF ChunkedAt
    <3>2. PICK g \in 1 .. Len(m.items) : d.expected \in 1 .. Len(m.items[g])
        BY <3>1 DEF AtData
    <3>3. Len(m.items[g]) \in 0 .. 3
        BY DEF ShortItems
    <3>4. Len(Digits) - 1 = 3
      <4>1. Len(Digits) = 4
          BY <3>3, DigitFacts
      <4> QED
          BY <4>1
    <3>5. d.expected \in 1 .. 3
      <4>1. \A y \in 0 .. 3 : \A x \in 1 .. y : x \in 1 .. 3
          OBVIOUS
      <4> QED
          BY <3>2, <3>3, <4>1
    <3> QED
        BY <3>4, <3>5
  <2> QED
      BY <2>2, <2>3, <2>4 DEF Has, b, l
<1>6. CASE m.framing = "length"
  <2>1. FixedAt(d, m, o)
      BY <1>6 DEF DecoderAt
  <2>2. Has /\ d.state = "Fixed"
      BY <1>3, <2>1 DEF FixedAt
  <2> QED
      BY <2>2 DEF Has, b, l
<1>7. CASE m.framing = "eof"
  <2>1. SimpleAt(d, m, o)
      BY <1>7 DEF DecoderAt
  <2>2. Has /\ d.state \in {"Simple", "Completed"}
      BY <1>3, <2>1 DEF SimpleAt
  <2> QED
      BY <2>2 DEF Has, b, l
<1> QED
    BY <1>1, <1>5, <1>6, <1>7 DEF Framings

LEMMA BodyMove ==
    ASSUME WellSent, BodyInv, k <= Len(script),
           UNCHANGED <<script, svars, k, base, done, body>>,
           avail' \in Nat, pos' \in Nat, pos <= pos', pos' <= avail', avail' <= Len(wire),
           eof' \in BOOLEAN, rpc' \in {"decode", "read", "leave", "lost"},
           expected' \in Nat, Len(line'.buffer) <= MaxLineLength, Len(out) <= Len(out'),
           \/ DecoderAt(Here', script[k], base)
           \/ rpc' = "lost" /\ UNCHANGED <<state, expected, out>>
    PROVE  BodyInv'
<1> DEFINE m == script[k]
           b == BodyOf(m)
<1>1. Typed /\ SentInv /\ DecodeInv /\ DoneInv /\ ReadInv
    BY DEF BodyInv
<1>2. /\ script' = script /\ wire' = wire /\ k' = k /\ base' = base /\ done' = done
      /\ body' = body /\ closed' = closed
    BY DEF svars
<1>3. m \in MessageSet /\ ShortItems(m) /\ b \in Bytes /\ Len(b) \in Nat
    BY AtMessage
<1>4. Here'.state = state' /\ Here'.expected = expected' /\ Here'.out = out'
    BY DEF Here
<1>5. /\ \E n \in 0 .. Len(b) : out' = SubSeq(b, 1, n)
      /\ state' \in LineStates \cup {"ChunkBody", "Fixed", "Simple", "Completed"}
      /\ state' = "ChunkBody" => expected' \in 1 .. Len(Digits) - 1
  <2>1. CASE DecoderAt(Here', m, base)
      BY <1>3, <1>4, <2>1, DecoderHas
  <2>2. CASE rpc' = "lost" /\ UNCHANGED <<state, expected, out>>
      BY <1>1, <2>2 DEF DecodeInv, Typed
  <2> QED
      BY <2>1, <2>2
<1>6. out' \in Bytes
  <2>1. PICK n \in 0 .. Len(b) : out' = SubSeq(b, 1, n)
      BY <1>5
  <2> QED
      BY <1>3, <2>1 DEF Bytes
<1>7. Typed'
  <2>1. ASSUME NEW i \in DOMAIN script PROVE body[i].size <= Len(Arrived(i)')
    <3>1. body[i].size <= Len(Arrived(i)) /\ body[i].size \in Nat
        BY <1>1 DEF Typed
    <3>2. CASE i = k
      <4>1. Len(out) \in Nat /\ Len(out') \in Nat
          BY <1>1, <1>6, LenProperties DEF Typed, Bytes
      <4>2. ~(i < k) /\ k \in Int
          BY <1>1, <3>2 DEF Typed
      <4>3. Arrived(i) = out /\ Arrived(i)' = out'
          BY <1>2, <3>2, <4>2 DEF Arrived
      <4> QED
          BY <3>1, <4>1, <4>3
    <3>3. CASE i # k
      <4>1. Arrived(i)' = Arrived(i)
          BY <1>2, <3>3 DEF Arrived
      <4> QED
          BY <3>1, <4>1
    <3> QED
        BY <3>2, <3>3
  <2>2. (rpc' = "idle") <=> (k = Len(script) + 1)
    <3>1. rpc' # "idle"
        OBVIOUS
    <3>2. k # Len(script) + 1
        BY AtMessage
    <3> QED
        BY <3>1, <3>2
  <2>3. base <= pos'
      BY <1>1 DEF Typed
  <2> QED
      BY <1>1, <1>2, <1>5, <1>6, <2>1, <2>2, <2>3 DEF Typed
<1>8. SentInv'
    BY <1>1, SentKept
<1>9. DecodeInv'
  <2>1. Offset(k)' = Offset(k) /\ base = Offset(k)
      BY <1>1, <1>2, OffsetKept DEF DecodeInv
  <2>2. rpc' # "lost" => DecoderAt(Here', m, base)
      OBVIOUS
  <2> QED
      BY <1>2, <1>5, <2>1, <2>2 DEF DecodeInv
<1>10. DoneInv'
    BY <1>1, <1>2 DEF DoneInv
<1>11. ReadInv'
    BY <1>1, <1>2 DEF ReadInv
<1> QED
    BY <1>7, <1>8, <1>9, <1>10, <1>11 DEF BodyInv

(* The sender's steps: the wire grows.                                     *)
LEMMA SenderStep ==
    ASSUME WellSent, BodyInv, SendItem \/ SendLast \/ Cut
    PROVE  BodyInv'
<1>1. Typed /\ SentInv /\ DecodeInv /\ DoneInv /\ ReadInv
    BY DEF BodyInv
<1>2. UNCHANGED <<script, k, base, avail, pos, eof, rpc, dvars, out, done, body>>
    BY DEF SendItem, SendLast, Cut
<1>3. SentInv' /\ wire' \in Bytes /\ Len(wire) <= Len(wire')
  <2>1. CASE SendItem \/ SendLast
      BY <1>1, <2>1, Send DEF Typed
  <2>2. CASE Cut
    <3>1. UNCHANGED <<script, smsg, sitem, wire>>
        BY <2>2 DEF Cut
    <3>2. wire \in Bytes /\ Len(wire) \in Nat
        BY <1>1, WireIs DEF Typed
    <3> QED
        BY <1>1, <3>1, <3>2 DEF SentInv
  <2> QED
      BY <2>1, <2>2
<1>4. closed' \in BOOLEAN
    BY <1>1 DEF SendItem, SendLast, Cut, Typed
<1>5. avail <= Len(wire')
  <2>1. Len(wire') \in Nat /\ Len(wire) \in Nat /\ avail \in Nat /\ avail <= Len(wire)
      BY <1>1, <1>3, LenProperties DEF Typed, Bytes
  <2> QED
      BY <1>3, <2>1
<1>6. \A i : Arrived(i)' = Arrived(i)
    BY <1>2 DEF Arrived
<1>7. Typed'
    BY <1>1, <1>2, <1>3, <1>4, <1>5, <1>6 DEF Typed, dvars
<1>8. DecodeInv'
  <2>1. Offset(k)' = Offset(k) /\ Here' = Here
      BY <1>2, OffsetKept, HereKept
  <2> QED
      BY <1>1, <1>2, <2>1 DEF DecodeInv
<1>9. DoneInv' /\ ReadInv'
    BY <1>1, <1>2 DEF DoneInv, ReadInv
<1> QED
    BY <1>3, <1>7, <1>8, <1>9 DEF BodyInv
-----------------------------------------------------------------------------
(***************************************************************************)
(* The steps of FramedRead and of the decoders.                            *)
(***************************************************************************)
LEMMA Working ==
    ASSUME WellSent, BodyInv, rpc # "idle"
    PROVE  /\ k <= Len(script) /\ k \in 1 .. Len(script)
           /\ script[k] \in MessageSet /\ ShortItems(script[k])
           /\ pos \in Nat /\ avail \in Nat /\ pos <= avail /\ avail <= Len(wire)
           /\ Len(wire) \in Nat /\ eof \in BOOLEAN /\ expected \in Nat
           /\ Len(line.buffer) <= MaxLineLength
           /\ out \in Bytes /\ Len(out) \in Nat
<1>1. Typed
    BY DEF BodyInv
<1>2. k \in 1 .. Len(script) + 1 /\ script \in Scripts /\ k # Len(script) + 1
    BY <1>1 DEF Typed
<1>3. Len(script) \in Nat
    BY <1>2, ScriptLength
<1>4. k <= Len(script)
    BY <1>2, <1>3
<1>5. out \in Bytes /\ Len(out) \in Nat
    BY <1>1, LenProperties DEF Typed, Bytes
<1> QED
    BY <1>1, <1>4, <1>5, AtMessage DEF Typed

LEMMA QuietStep ==
    ASSUME WellSent, BodyInv,
           Read \/ ReadEof \/ WantMore \/ EofIncomplete \/ LoseConnection
    PROVE  BodyInv'
<1>1. /\ UNCHANGED <<script, svars, k, base, pos, dvars, out, done, body>>
      /\ rpc \in {"read", "decode", "leave"} /\ rpc' \in {"decode", "read", "lost"}
    BY DEF Read, ReadEof, WantMore, EofIncomplete, LoseConnection
<1>2. rpc # "idle" /\ rpc # "lost"
    BY <1>1
<1>3. eof' \in BOOLEAN
    BY <1>2, Working DEF Read, ReadEof, WantMore, EofIncomplete, LoseConnection
<1>4. avail' \in Nat /\ avail <= avail' /\ avail' <= Len(wire)
  <2>1. avail \in Nat /\ Len(wire) \in Nat /\ avail <= Len(wire)
      BY <1>2, Working
  <2>2. CASE Read
    <3>1. PICK n \in 1 .. Len(wire) - avail : avail' = avail + n
        BY <2>2 DEF Read
    <3> QED
        BY <2>1, <3>1
  <2>3. CASE ~Read
    <3>1. avail' = avail
        BY <2>3 DEF ReadEof, WantMore, EofIncomplete, LoseConnection
    <3> QED
        BY <2>1, <3>1
  <2> QED
      BY <2>2, <2>3
<1>5. DecoderAt(Here', script[k], base)
  <2>1. Here' = Here
      BY <1>1, HereKept
  <2>2. DecoderAt(Here, script[k], base)
      BY <1>2, Working, AtMessage
  <2> QED
      BY <2>1, <2>2
<1>6. /\ k <= Len(script) /\ pos \in Nat /\ pos <= avail /\ avail \in Nat
      /\ expected \in Nat /\ Len(line.buffer) <= MaxLineLength /\ Len(out) \in Nat
    BY <1>2, Working
<1>7. pos' \in Nat /\ pos <= pos' /\ pos' <= avail' /\ Len(out) <= Len(out')
    BY <1>1, <1>4, <1>6
<1>8. expected' \in Nat /\ Len(line'.buffer) <= MaxLineLength
    BY <1>1, <1>6 DEF dvars
<1>9. rpc' \in {"decode", "read", "leave", "lost"}
    BY <1>1
<1> QED
    BY <1>1, <1>3, <1>4, <1>5, <1>6, <1>7, <1>8, <1>9, BodyMove

LEMMA EofSimpleStep == ASSUME WellSent, BodyInv, EofSimple PROVE BodyInv'
<1>1. /\ UNCHANGED <<script, svars, k, base, avail, pos, eof, rpc, expected, line,
                     out, done, body>>
      /\ rpc = "decode" /\ state = "Simple" /\ state' = "Completed"
    BY DEF EofSimple
<1>2. rpc # "idle" /\ rpc # "lost"
    BY <1>1
<1> DEFINE m == script[k]
<1>3. DecoderAt(Here, m, base) /\ m.framing \in Framings
    BY <1>2, Working, AtMessage DEF MessageSet
<1>4. m.framing = "eof"
  <2>1. m.framing # "chunked"
      BY <1>1, <1>3, HereIs DEF DecoderAt, ChunkedAt
  <2>2. m.framing # "length"
      BY <1>1, <1>3, HereIs DEF DecoderAt, FixedAt
  <2> QED
      BY <1>3, <2>1, <2>2 DEF Framings
<1>5. SimpleAt(Here, m, base)
    BY <1>3, <1>4 DEF DecoderAt
<1>6. DecoderAt(Here', m, base)
  <2>1. /\ Here'.state = "Completed" /\ Here'.line = line /\ Here'.pos = pos
        /\ Here'.out = out
      BY <1>1 DEF Here
  <2>2. SimpleAt(Here', m, base)
      BY <1>5, <2>1, HereIs DEF SimpleAt, Got
  <2> QED
      BY <1>4, <2>2 DEF DecoderAt
<1>7. /\ k <= Len(script) /\ pos \in Nat /\ pos <= avail /\ avail \in Nat
      /\ avail <= Len(wire) /\ expected \in Nat /\ Len(line.buffer) <= MaxLineLength
      /\ Len(out) \in Nat /\ eof \in BOOLEAN
    BY <1>2, Working
<1>8. rpc' \in {"decode", "read", "leave", "lost"} /\ pos <= pos' /\ Len(out) <= Len(out')
    BY <1>1, <1>7
<1> HIDE DEF m
<1> QED
    BY <1>1, <1>6, <1>7, <1>8, BodyMove DEF m

(* The bytes of a body are delivered.                                      *)
LEMMA Delivers ==
    ASSUME WellSent, BodyInv, rpc = "decode", NEW r \in Nat, r <= avail - pos,
           Deliver(r), DecoderAt(Here', script[k], base), expected' \in Nat
    PROVE  BodyInv'
<1>1. /\ UNCHANGED <<script, svars, k, base, avail, eof, line, done, body>>
      /\ out' = out \o SubSeq(wire, pos + 1, pos + r) /\ pos' = pos + r
      /\ rpc' \in {"decode", "read", "leave", "lost"}
    BY DEF Deliver
<1>2. /\ k <= Len(script) /\ pos \in Nat /\ pos <= avail /\ avail \in Nat
      /\ avail <= Len(wire) /\ Len(wire) \in Nat /\ Len(line.buffer) <= MaxLineLength
      /\ out \in Bytes /\ Len(out) \in Nat /\ eof \in BOOLEAN
    BY Working
<1>3. pos' \in Nat /\ pos <= pos' /\ pos' <= avail'
    BY <1>1, <1>2
<1>4. Len(out) <= Len(out')
  <2> DEFINE u == SubSeq(wire, pos + 1, pos + r)
  <2>1. wire \in Seq(Symbols) /\ out \in Seq(Symbols)
      BY <1>2, AtMessage DEF Bytes
  <2>2. \A i \in pos + 1 .. pos + r : wire[i] \in Symbols
    <3>1. \A i \in 1 .. Len(wire) : wire[i] \in Symbols
        BY <2>1, ElementOfSeq
    <3> QED
        BY <1>2, <3>1
  <2>3. u \in Seq(Symbols)
      BY <1>2, <2>2, SubSeqProperties
  <2> HIDE DEF u
  <2>4. Len(out \o u) = Len(out) + Len(u) /\ Len(u) \in Nat
      BY <2>1, <2>3, ConcatProperties, LenProperties
  <2> QED
      BY <1>1, <1>2, <2>4 DEF u
<1> QED
    BY <1>1, <1>2, <1>3, <1>4, BodyMove

LEMMA DataStep ==
    ASSUME WellSent, BodyInv, DecodeSimple \/ DecodeFixed \/ DecodeChunkBody
    PROVE  BodyInv'
<1> DEFINE m == script[k]
<1>1. rpc = "decode" /\ rpc # "idle" /\ rpc # "lost" /\ pos < avail
    BY DEF DecodeSimple, DecodeFixed, DecodeChunkBody, Decoding
<1>2. /\ k <= Len(script) /\ pos \in Nat /\ avail \in Nat /\ expected \in Nat
      /\ DecoderAt(Here, m, base) /\ m.framing \in Framings
    BY <1>1, Working, AtMessage DEF MessageSet
<1>3. DecoderAt(Here, m, base) =>
        /\ state = "Simple" => m.framing = "eof"
        /\ state = "Fixed" => m.framing = "length"
        /\ state = "ChunkBody" => m.framing = "chunked"
    BY <1>2, HereIs DEF DecoderAt, SimpleAt, FixedAt, ChunkedAt, Framings
<1> DEFINE a == avail - pos
           q == MinOf(expected, avail - pos)
<1>4. a \in Nat /\ a <= avail - pos /\ q \in Nat /\ q <= avail - pos /\ q <= expected
    BY <1>1, <1>2 DEF MinOf
<1> HIDE DEF a, q, m
<1>5. CASE DecodeSimple
  <2>1. /\ Deliver(a) /\ state' = state /\ expected' = expected /\ state = "Simple"
      BY <1>5 DEF DecodeSimple, Decoding, a
  <2>2. /\ Here'.state = state /\ Here'.line = line /\ Here'.pos = pos + a
        /\ Here'.out = out \o SubSeq(wire, pos + 1, pos + a)
      BY <2>1 DEF Here, Deliver
  <2>3. m.framing = "eof"
      BY <1>2, <1>3, <2>1
  <2>4. SimpleAt(Here', m, base)
      BY <1>1, <1>2, <1>4, <2>2, <2>3, SimpleStep DEF m
  <2>5. DecoderAt(Here', m, base)
      BY <2>3, <2>4 DEF DecoderAt
  <2> QED
      BY <1>1, <1>2, <1>4, <2>1, <2>5, Delivers DEF m
<1>6. CASE DecodeFixed
  <2>1. /\ Deliver(q) /\ state' = state /\ expected' = expected - q /\ state = "Fixed"
      BY <1>6 DEF DecodeFixed, Decoding, q
  <2>2. /\ Here'.state = state /\ Here'.line = line /\ Here'.pos = pos + q
        /\ Here'.expected = expected - q
        /\ Here'.out = out \o SubSeq(wire, pos + 1, pos + q)
      BY <2>1 DEF Here, Deliver
  <2>3. m.framing = "length"
      BY <1>2, <1>3, <2>1
  <2>4. FixedAt(Here', m, base)
      BY <1>1, <1>2, <1>4, <2>2, <2>3, FixedStep DEF m
  <2>5. DecoderAt(Here', m, base)
      BY <2>3, <2>4 DEF DecoderAt
  <2>6. expected' \in Nat
      BY <1>2, <1>4, <2>1
  <2> QED
      BY <1>1, <1>2, <1>4, <2>1, <2>5, <2>6, Delivers DEF m
<1>7. CASE DecodeChunkBody
  <2>1. /\ Deliver(q) /\ expected' = expected - q /\ state = "ChunkBody"
        /\ state' = IF expected - q = 0 THEN "ChunkBodyDelimiter" ELSE "ChunkBody"
      BY <1>7 DEF DecodeChunkBody, Decoding, q
  <2>2. /\ Here'.state = IF expected - q = 0 THEN "ChunkBodyDelimiter" ELSE "ChunkBody"
        /\ Here'.line = line /\ Here'.pos = pos + q /\ Here'.expected = expected - q
        /\ Here'.out = out \o SubSeq(wire, pos + 1, pos + q)
      BY <2>1 DEF Here, Deliver
  <2>3. m.framing = "chunked"
      BY <1>2, <1>3, <2>1
  <2>4. ChunkedAt(Here', m, base)
      BY <1>1, <1>2, <1>4, <2>1, <2>2, <2>3, ChunkStep DEF m
  <2>5. DecoderAt(Here', m, base)
      BY <2>3, <2>4 DEF DecoderAt
  <2>6. expected' \in Nat
      BY <1>2, <1>4, <2>1
  <2> QED
      BY <1>1, <1>2, <1>4, <2>1, <2>5, <2>6, Delivers DEF m
<1> QED
    BY <1>5, <1>6, <1>7
(* A turn of the line decoder that loses nothing of the line.              *)
LEMMA Turned ==
    ASSUME WellSent, BodyInv, NEW s \in LineStates, TakeTurn(s),
           LineTurn.taken \in Nat, pos + LineTurn.taken <= avail,
           Len(LineTurn.decoder.buffer) <= MaxLineLength,
           rpc' \in {"decode", "lost"}, expected' \in Nat,
           \/ DecoderAt(Here', script[k], base)
           \/ rpc' = "lost" /\ UNCHANGED <<state, expected>>
    PROVE  BodyInv'
<1>1. /\ UNCHANGED <<script, svars, k, base, avail, eof, out, done, body>>
      /\ pos' = pos + LineTurn.taken /\ line' = LineTurn.decoder /\ rpc = "decode"
    BY DEF TakeTurn, Decoding
<1>2. rpc # "idle"
    BY <1>1
<1>3. /\ k <= Len(script) /\ pos \in Nat /\ pos <= avail /\ avail \in Nat
      /\ avail <= Len(wire) /\ Len(out) \in Nat /\ eof \in BOOLEAN
    BY <1>2, Working
<1>4. /\ pos' \in Nat /\ pos <= pos' /\ pos' <= avail' /\ avail' \in Nat
      /\ avail' <= Len(wire) /\ Len(out) <= Len(out') /\ eof' \in BOOLEAN
    BY <1>1, <1>3
<1>5. Len(line'.buffer) <= MaxLineLength
    BY <1>1
<1>6. rpc' \in {"decode", "read", "leave", "lost"}
    OBVIOUS
<1>7. \/ DecoderAt(Here', script[k], base)
      \/ rpc' = "lost" /\ UNCHANGED <<state, expected, out>>
    BY <1>1
<1> QED
    BY <1>1, <1>3, <1>4, <1>5, <1>6, <1>7, BodyMove

LEMMA LineStep ==
    ASSUME WellSent, BodyInv,
           \/ LinePart \/ LineTooLong \/ ChunkHeader \/ ChunkHeaderInvalid
           \/ ChunkBodyDelimiter \/ TrailerPart
    PROVE  BodyInv'
<1> DEFINE m == script[k]
           turn == LineTurn
<1>1. PICK s \in LineStates : TakeTurn(s)
    BY DEF LinePart, LineTooLong, ChunkHeader, ChunkHeaderInvalid,
           ChunkBodyDelimiter, TrailerPart, LineStates
<1>2. /\ rpc = "decode" /\ pos < avail /\ state = s
      /\ pos' = pos + turn.taken /\ line' = turn.decoder /\ out' = out
    BY <1>1 DEF TakeTurn, Decoding
<1>3. rpc # "idle" /\ rpc # "lost" /\ state \in LineStates
    BY <1>2
<1>4. /\ k <= Len(script) /\ pos \in Nat /\ avail \in Nat /\ avail <= Len(wire)
      /\ Len(wire) \in Nat /\ expected \in Nat /\ Len(line.buffer) <= MaxLineLength
    BY <1>3, Working
<1>5. /\ m.framing = "chunked"
      /\ \E text, start : Reading(m, base, text, start) /\ Fed(text, start)
    BY <1>3, <1>4, LineRead
<1>6. PICK text, start : Reading(m, base, text, start) /\ Fed(text, start)
    BY <1>5
<1>7. pos < Len(wire)
    BY <1>2, <1>4
<1>8. /\ \/ ~turn.ok /\ turn.lines = <<>> /\ turn.taken = 0
         \/ /\ turn.ok /\ turn.lines = <<>> /\ turn.taken = 1
            /\ \E n \in 0 .. Len(text) + 1 :
                  turn.decoder = Partial(text, n) /\ pos + 1 = start + n
         \/ /\ turn.ok /\ turn.lines = <<text>> /\ turn.taken = 1
            /\ turn.decoder = NewDecoder
            /\ pos + 1 = start + Len(text) + 2
      /\ Len(turn.decoder.buffer) <= MaxLineLength
    BY <1>4, <1>6, <1>7, LineFed DEF Fed
<1>9. turn.taken \in Nat /\ pos + turn.taken <= avail
  <2>1. turn.taken = 0 \/ turn.taken = 1
      BY <1>8
  <2> QED
      BY <1>2, <1>4, <2>1
<1>10. <<text>> # <<>> /\ <<text>>[1] = text
    OBVIOUS
<1>11. Here'.state = state' /\ Here'.expected = expected'
       /\ Here'.line = turn.decoder /\ Here'.out = out
       /\ Here'.pos = pos + turn.taken
    BY <1>2 DEF Here
<1>12. ChunkedAt(Here', m, base) => DecoderAt(Here', m, base)
    BY <1>5 DEF DecoderAt
<1> HIDE DEF m, turn
<1>13. CASE LinePart
  <2>1. /\ turn.ok /\ turn.lines = <<>> /\ rpc' = rpc /\ state' = state
        /\ expected' = expected
      BY <1>13 DEF LinePart, turn
  <2>2. PICK n \in 0 .. Len(text) + 1 :
            /\ turn.taken = 1 /\ turn.decoder = Partial(text, n)
            /\ pos + 1 = start + n
      BY <1>8, <1>10, <2>1
  <2>3. InLine(Here', start, text)
      BY <1>11, <2>2 DEF InLine
  <2>4. ChunkedAt(Here', m, base)
      BY <1>6, <1>11, <2>1, <2>3, LineKept
  <2>5. rpc' \in {"decode", "lost"} /\ expected' \in Nat
      BY <1>2, <1>4, <2>1
  <2> QED
      BY <1>1, <1>8, <1>9, <1>12, <2>4, <2>5, Turned DEF m, turn
<1>14. CASE LineTooLong \/ ChunkHeaderInvalid
  <2>1. rpc' = "lost" /\ UNCHANGED <<state, expected>>
      BY <1>14 DEF LineTooLong, ChunkHeaderInvalid
  <2>2. rpc' \in {"decode", "lost"} /\ expected' \in Nat
      BY <1>4, <2>1
  <2> QED
      BY <1>1, <1>8, <1>9, <2>1, <2>2, Turned DEF m, turn
<1>15. ASSUME turn.lines # <<>>
       PROVE  /\ turn.lines[1] = text /\ turn.decoder = NewDecoder
              /\ Here'.line = NewDecoder /\ Here'.pos = start + Len(text) + 2
  <2>1. /\ turn.lines = <<text>> /\ turn.taken = 1 /\ turn.decoder = NewDecoder
        /\ pos + 1 = start + Len(text) + 2
      BY <1>8, <1>15
  <2> QED
      BY <1>10, <1>11, <2>1
<1>16. CASE ChunkHeader
  <2> DEFINE v == HexValue(HeaderDigits(text))
  <2>1. /\ turn.lines # <<>> /\ state = "ChunkHeader" /\ rpc' = rpc
        /\ IsHex(HeaderDigits(turn.lines[1]))
        /\ expected' = HexValue(HeaderDigits(turn.lines[1]))
        /\ state' = IF expected' > 0 THEN "ChunkBody" ELSE "TrailerPart"
      BY <1>16 DEF ChunkHeader, TakeTurn, Decoding, turn
  <2>2. /\ IsHex(HeaderDigits(text)) /\ expected' = v
        /\ state' = IF v > 0 THEN "ChunkBody" ELSE "TrailerPart"
      BY <1>15, <2>1
  <2>3. /\ v \in 0 .. 3
        /\ \A e : (/\ e.state = IF v > 0 THEN "ChunkBody" ELSE "TrailerPart"
                   /\ e.expected = v /\ e.line = NewDecoder
                   /\ e.pos = start + Len(text) + 2 /\ e.out = out)
                      => ChunkedAt(e, m, base)
      BY <1>3, <1>4, <1>5, <1>6, <2>1, <2>2, HeaderDone DEF m
  <2> HIDE DEF v
  <2>4. ChunkedAt(Here', m, base)
      BY <1>11, <1>15, <2>1, <2>2, <2>3
  <2>5. rpc' \in {"decode", "lost"} /\ expected' \in Nat
      BY <1>2, <2>1, <2>2, <2>3
  <2> QED
      BY <1>1, <1>8, <1>9, <1>12, <2>4, <2>5, Turned DEF m, turn
<1>17. CASE ChunkBodyDelimiter
  <2>1. /\ turn.lines # <<>> /\ state = "ChunkBodyDelimiter" /\ rpc' = rpc
        /\ expected' = expected /\ state' = "ChunkHeader"
      BY <1>17 DEF ChunkBodyDelimiter, TakeTurn, Decoding, turn
  <2>2. ChunkedAt(Here', m, base)
      BY <1>3, <1>4, <1>5, <1>6, <1>11, <1>15, <2>1, DelimiterDone DEF m
  <2>3. rpc' \in {"decode", "lost"} /\ expected' \in Nat
      BY <1>2, <1>4, <2>1
  <2> QED
      BY <1>1, <1>8, <1>9, <1>12, <2>2, <2>3, Turned DEF m, turn
<1>18. CASE TrailerPart
  <2>1. /\ turn.lines # <<>> /\ state = "TrailerPart" /\ rpc' = rpc
        /\ expected' = expected
        /\ state' = IF turn.lines[1] = <<>> THEN "Completed" ELSE "TrailerPart"
      BY <1>18 DEF TrailerPart, TakeTurn, Decoding, turn
  <2>2. ChunkedAt(Here', m, base)
      BY <1>3, <1>4, <1>5, <1>6, <1>11, <1>15, <2>1, TrailerDone DEF m
  <2>3. rpc' \in {"decode", "lost"} /\ expected' \in Nat
      BY <1>2, <1>4, <2>1
  <2> QED
      BY <1>1, <1>8, <1>9, <1>12, <2>2, <2>3, Turned DEF m, turn
<1> QED
    BY <1>13, <1>14, <1>16, <1>17, <1>18
-----------------------------------------------------------------------------
(***************************************************************************)
(* A body is complete, and the application reads the bodies.               *)
(***************************************************************************)
(* A decoder that is complete has taken exactly its message.               *)
LEMMA CompleteAt ==
    ASSUME WellSent, BodyInv, k <= Len(script), rpc # "lost", Complete,
           NEW m, m = script[k]
    PROVE  m.framing # "eof" =>
               /\ out = BodyOf(m) /\ pos = base + Len(Encoded(m))
<1>1. /\ DecoderAt(Here, m, base) /\ m \in MessageSet /\ ShortItems(m) /\ base \in Nat
      /\ k \in 1 .. Len(script) /\ script \in Scripts /\ SentInv
    BY AtMessage
<1>2. m.framing \in Framings
    BY <1>1 DEF MessageSet
<1>3. CASE m.framing = "chunked"
  <2>1. ChunkedAt(Here, m, base)
      BY <1>1, <1>3 DEF DecoderAt
  <2>2. AtEnd(Here, m, base)
      BY <2>1, HereIs DEF Complete, ChunkedAt
  <2> QED
      BY <2>2, HereIs DEF AtEnd
<1>4. CASE m.framing = "length"
  <2> DEFINE b == BodyOf(m)
             l == Len(b)
  <2>1. FixedAt(Here, m, base)
      BY <1>1, <1>4 DEF DecoderAt
  <2>2. expected = 0
      BY <2>1, HereIs DEF Complete, FixedAt
  <2>3. b \in Bytes /\ l \in Nat
      BY <1>1, BodyEnds
  <2>4. Encoded(m) = b
      BY <1>1, <1>4, WireBody
  <2>5. SubSeq(b, 1, l) = b
      BY <2>3, SubSeqFull DEF Bytes
  <2>6. pos = base + l - expected /\ out = SubSeq(b, 1, l - expected)
      BY <2>1, HereIs DEF FixedAt, Got
  <2> HIDE DEF b, l
  <2>7. base + l - expected = base + l /\ l - expected = l
      BY <1>1, <2>2, <2>3
  <2> QED
      BY <2>4, <2>5, <2>6, <2>7 DEF b, l
<1> QED
    BY <1>2, <1>3, <1>4 DEF Framings

LEMMA TakeStep == ASSUME WellSent, BodyInv, TakeConnection PROVE BodyInv'
<1> DEFINE m == script[k]
           b == BodyOf(m)
           n == Len(script)
<1>1. Typed /\ SentInv /\ DecodeInv /\ DoneInv /\ ReadInv
    BY DEF BodyInv
<1>2. /\ UNCHANGED <<script, svars, pos, body>> /\ Complete
      /\ rpc \in {"read", "leave", "decode"}
      /\ done' = Append(done, out) /\ out' = <<>> /\ k' = k + 1
      /\ base' = pos /\ avail' = pos /\ eof' = FALSE /\ line' = NewDecoder
      /\ \/ k = n /\ rpc' = "idle" /\ UNCHANGED <<state, expected>>
         \/ /\ k # n /\ rpc' = "decode"
            /\ state' = StateOf(script[k + 1]) /\ expected' = ExpectedOf(script[k + 1])
    BY DEF TakeConnection
<1>3. rpc # "idle" /\ rpc # "lost"
    BY <1>2
<1>4. /\ k <= n /\ k \in 1 .. n /\ pos \in Nat /\ avail \in Nat /\ pos <= avail
      /\ avail <= Len(wire) /\ Len(wire) \in Nat /\ out \in Bytes /\ Len(out) \in Nat
    BY <1>3, Working
<1>5. /\ m \in MessageSet /\ b \in Bytes /\ Len(b) \in Nat /\ script \in Scripts
      /\ base = Offset(k) /\ (m.framing = "eof" => k = n)
    BY <1>4, AtMessage
<1>6. m.framing # "eof" => out = b /\ pos = base + Len(Encoded(m))
    BY <1>2, <1>3, <1>4, CompleteAt
<1>7. n \in Nat /\ DOMAIN script = 1 .. n
    BY <1>5, ScriptLength
<1>8. /\ done \in Seq(Bytes) /\ Len(done) = k - 1
      /\ body \in [DOMAIN script -> [size : Nat, outcome : Outcomes]]
      /\ \A i \in DOMAIN script : body[i].size <= Len(Arrived(i))
    BY <1>1 DEF Typed
<1> HIDE DEF m, b, n
<1>9. /\ done' \in Seq(Bytes) /\ Len(done') = k
      /\ \A i \in 1 .. k - 1 : done'[i] = done[i]
      /\ done'[k] = out
  <2> DEFINE Q == Bytes
  <2>1. done \in Seq(Q) /\ out \in Q
      BY <1>4, <1>8
  <2> HIDE DEF Q
  <2>2. /\ Append(done, out) \in Seq(Q)
        /\ Len(Append(done, out)) = Len(done) + 1
        /\ \A i \in 1 .. Len(done) : Append(done, out)[i] = done[i]
        /\ Append(done, out)[Len(done) + 1] = out
      BY <2>1, AppendProperties
  <2>3. Len(done) + 1 = k
      BY <1>4, <1>8
  <2> QED
      BY <1>2, <1>8, <2>2, <2>3 DEF Q
<1>10. \A i : Arrived(i)' = IF i < k + 1 THEN done'[i] ELSE <<>>
    BY <1>2 DEF Arrived
<1>11. ASSUME NEW i \in 1 .. n PROVE body[i].size <= Len(Arrived(i)')
  <2>1. body[i].size <= Len(Arrived(i))
      BY <1>7, <1>8
  <2>2. i < k \/ i = k \/ i > k
      BY <1>4, <1>7
  <2>3. CASE i < k
    <3>1. i \in 1 .. k - 1 /\ i < k + 1
        BY <1>4, <1>7, <2>3
    <3>2. Arrived(i)' = done[i] /\ Arrived(i) = done[i]
        BY <1>9, <1>10, <2>3, <3>1 DEF Arrived
    <3> QED
        BY <2>1, <3>2
  <2>4. CASE i = k
    <3>1. k < k + 1 /\ ~(k < k)
        BY <1>4
    <3>2. Arrived(i)' = out /\ Arrived(i) = out
        BY <1>9, <1>10, <2>4, <3>1 DEF Arrived
    <3> QED
        BY <2>1, <3>2
  <2>5. CASE i > k
    <3>1. ~(i < k) /\ i # k /\ ~(i < k + 1)
        BY <1>4, <1>7, <2>5
    <3>2. Arrived(i)' = <<>> /\ Arrived(i) = <<>>
        BY <1>10, <3>1 DEF Arrived
    <3> QED
        BY <2>1, <3>2
  <2> QED
      BY <2>2, <2>3, <2>4, <2>5
<1>12. k # n => /\ k + 1 \in 1 .. n /\ script[k + 1] \in MessageSet
               /\ ShortItems(script[k + 1])
  <2> SUFFICES ASSUME k # n PROVE /\ k + 1 \in 1 .. n /\ script[k + 1] \in MessageSet
                                  /\ ShortItems(script[k + 1])
      OBVIOUS
  <2>1. k + 1 \in 1 .. n
      BY <1>4, <1>7
  <2> QED
      BY <1>5, <2>1, Messages DEF n
<1>13. Typed'
  <2>1. /\ <<>> \in Bytes /\ Len(<<>>) = 0
      BY DEF Bytes
  <2>2. k' \in 1 .. n + 1 /\ Len(done') = k' - 1
      BY <1>2, <1>4, <1>7, <1>9
  <2>3. rpc' = "idle" <=> k' = n + 1
      BY <1>2, <1>4, <1>7
  <2>4. /\ state' \in LineStates \cup {"ChunkBody", "Fixed", "Simple", "Completed"}
        /\ expected' \in Nat
        /\ state' = "ChunkBody" => expected' \in 1 .. Len(Digits) - 1
    <3>1. CASE k = n
        BY <1>1, <1>2, <3>1 DEF Typed
    <3>2. CASE k # n
      <4>1. /\ StateOf(script[k + 1]) \in {"ChunkHeader", "Fixed", "Simple"}
            /\ ExpectedOf(script[k + 1]) \in Nat
          BY <1>12, <3>2, StateTypes
      <4>2. state' \in {"ChunkHeader", "Fixed", "Simple"} /\ expected' \in Nat
          BY <1>2, <3>2, <4>1
      <4> QED
          BY <4>2 DEF LineStates
    <3> QED
        BY <3>1, <3>2
  <2>5. Len(line'.buffer) <= MaxLineLength
      BY <1>2, <2>1, MaxLineAssumption DEF NewDecoder
  <2>6. rpc' \in {"decode", "read", "leave", "idle", "lost"}
      BY <1>2
  <2>7. /\ base' \in Nat /\ pos' \in Nat /\ avail' \in Nat
        /\ base' <= pos' /\ pos' <= avail' /\ avail' <= Len(wire')
      BY <1>2, <1>4 DEF svars
  <2>8. /\ script' \in Scripts /\ wire' \in Bytes /\ out' \in Bytes
        /\ closed' \in BOOLEAN /\ eof' \in BOOLEAN
      BY <1>1, <1>2, <2>1 DEF Typed, svars
  <2>9. /\ body' \in [DOMAIN script' -> [size : Nat, outcome : Outcomes]]
        /\ \A i \in DOMAIN script' : body'[i].size <= Len(Arrived(i)')
      BY <1>2, <1>7, <1>8, <1>11
  <2>10. script' = script
      BY <1>2
  <2> QED
      BY <1>9, <2>2, <2>3, <2>4, <2>5, <2>6, <2>7, <2>8, <2>9, <2>10 DEF Typed, n
<1>14. SentInv'
    BY <1>1, <1>2, SentKept
<1>15. DecodeInv'
  <2> SUFFICES ASSUME k' <= n
               PROVE  /\ base' = Offset(k)'
                      /\ DecoderAt(Here', script[k + 1], base')
                      /\ \E j \in 0 .. Len(BodyOf(script[k + 1])) :
                             out' = SubSeq(BodyOf(script[k + 1]), 1, j)
      BY <1>2 DEF DecodeInv, n
  <2>1. k # n
      BY <1>2, <1>4, <1>7
  <2>2. base' = Offset(k)'
    <3>1. Offset(k)' = Offset(k + 1)
        BY <1>2 DEF Offset
    <3>2. Offset(k + 1) = Offset(k) + Len(Encoded(m))
        BY <1>4, <1>5, StreamAt DEF m, n
    <3> QED
        BY <1>2, <1>5, <1>6, <2>1, <3>1, <3>2
  <2>3. DecoderAt(Here', script[k + 1], base')
    <3>1. /\ Here'.state = StateOf(script[k + 1])
          /\ Here'.expected = ExpectedOf(script[k + 1])
          /\ Here'.line = NewDecoder /\ Here'.pos = pos /\ Here'.out = <<>>
        BY <1>2, <2>1 DEF Here
    <3> QED
        BY <1>2, <1>4, <1>12, <2>1, <3>1, StartsAt
  <2>4. /\ 0 \in 0 .. Len(BodyOf(script[k + 1]))
        /\ SubSeq(BodyOf(script[k + 1]), 1, 0) = <<>>
      BY <1>12, <2>1, BodyEnds, SubSeqEmpty DEF Bytes
  <2> QED
      BY <1>2, <2>2, <2>3, <2>4
<1>16. DoneInv'
  <2>1. ASSUME NEW i \in 1 .. k
        PROVE  /\ \E j \in 0 .. Len(BodyOf(script[i])) :
                      done'[i] = SubSeq(BodyOf(script[i]), 1, j)
               /\ script[i].framing # "eof" => done'[i] = BodyOf(script[i])
    <3>1. i \in 1 .. k - 1 \/ i = k
        BY <1>4
    <3>2. CASE i \in 1 .. k - 1
        BY <1>1, <1>9, <3>2 DEF DoneInv
    <3>3. CASE i = k
      <4>1. \E j \in 0 .. Len(b) : out = SubSeq(b, 1, j)
          BY <1>1, <1>4 DEF DecodeInv, b, m, n
      <4> QED
          BY <1>6, <1>9, <3>3, <4>1 DEF b, m
    <3> QED
        BY <3>1, <3>2, <3>3
  <2>2. k' - 1 = k
      BY <1>2, <1>4
  <2> QED
      BY <1>2, <2>1, <2>2 DEF DoneInv
<1>17. ReadInv'
  <2>1. ASSUME NEW i \in DOMAIN script, body[i].outcome = "ok"
        PROVE  i < k' /\ ~Exceeds(script[i], Len(done'[i]))
    <3>1. i < k /\ ~Exceeds(script[i], Len(done[i]))
        BY <1>1, <2>1 DEF ReadInv
    <3>2. i \in 1 .. k - 1 /\ i < k + 1
        BY <1>4, <1>7, <3>1
    <3> QED
        BY <1>2, <1>9, <3>1, <3>2
  <2> QED
      BY <1>1, <1>2, <2>1 DEF ReadInv
<1> QED
    BY <1>13, <1>14, <1>15, <1>16, <1>17 DEF BodyInv
(* What has arrived of a body is a beginning of it.                        *)
LEMMA ArrivedLength ==
    ASSUME WellSent, BodyInv, NEW i \in DOMAIN script
    PROVE  /\ Len(Arrived(i)) \in Nat
           /\ Len(Arrived(i)) <= Len(BodyOf(script[i])) \/ Len(Arrived(i)) = 0
           /\ Len(BodyOf(script[i])) \in Nat
           /\ script[i].limit \in Seq(Nat) /\ Len(script[i].limit) <= 1
<1> DEFINE b == BodyOf(script[i])
<1>1. Typed /\ DecodeInv /\ DoneInv
    BY DEF BodyInv
<1>2. /\ script \in Scripts /\ k \in 1 .. Len(script) + 1
    BY <1>1 DEF Typed
<1>3. Len(script) \in Nat /\ i \in 1 .. Len(script)
    BY <1>2, ScriptLength
<1>4. /\ script[i] \in MessageSet /\ script[i].limit \in Seq(Nat)
      /\ Len(script[i].limit) <= 1
    BY <1>2, <1>3, Messages
<1>5. b \in Bytes /\ Len(b) \in Nat
    BY <1>4, BodyEnds
<1>6. \A n \in 0 .. Len(b) : Len(SubSeq(b, 1, n)) = n
  <2> TAKE n \in 0 .. Len(b)
  <2>1. b \in Seq(Symbols)
      BY <1>5 DEF Bytes
  <2>2. n \in Nat /\ n <= Len(b)
      BY <1>5
  <2>3. \A q \in 1 .. n : b[q] \in Symbols
      BY <1>5, <2>1, <2>2, ElementOfSeq
  <2>4. Len(SubSeq(b, 1, n)) = IF 1 <= n THEN n - 1 + 1 ELSE 0
      BY <2>2, <2>3, SubSeqProperties
  <2> QED
      BY <2>2, <2>4
<1> HIDE DEF b
<1>7. CASE i < k
  <2>1. i \in 1 .. k - 1
      BY <1>2, <1>3, <1>7
  <2>2. PICK n \in 0 .. Len(b) : done[i] = SubSeq(b, 1, n)
      BY <1>1, <2>1 DEF DoneInv, b
  <2>3. Len(Arrived(i)) = n
      BY <1>6, <1>7, <2>2 DEF Arrived
  <2> QED
      BY <1>4, <1>5, <2>3 DEF b
<1>8. CASE i = k
  <2>1. k <= Len(script) /\ ~(i < k)
      BY <1>2, <1>3, <1>8
  <2>2. PICK n \in 0 .. Len(b) : out = SubSeq(b, 1, n)
      BY <1>1, <1>8, <2>1 DEF DecodeInv, b
  <2>3. Len(Arrived(i)) = n
      BY <1>6, <1>8, <2>1, <2>2 DEF Arrived
  <2> QED
      BY <1>4, <1>5, <2>3 DEF b
<1>9. CASE ~(i < k) /\ i # k
  <2>1. Len(Arrived(i)) = 0
      BY <1>9 DEF Arrived
  <2> QED
      BY <1>4, <1>5, <2>1 DEF b
<1> QED
    BY <1>7, <1>8, <1>9

LEMMA ReadStep ==
    ASSUME WellSent, BodyInv, NEW i \in DOMAIN script, BodyRead(i) \/ BodyReadEnd(i)
    PROVE  BodyInv'
<1> DEFINE b == Len(BodyOf(script[i]))
           a == Len(Arrived(i))
<1>1. Typed /\ SentInv /\ DecodeInv /\ DoneInv /\ ReadInv
    BY DEF BodyInv
<1>2. /\ UNCHANGED <<script, svars, k, base, avail, pos, eof, rpc, dvars, out, done>>
      /\ body[i].outcome = "reading"
    BY DEF BodyRead, BodyReadEnd
<1>3. /\ a \in Nat /\ (a <= b \/ a = 0) /\ b \in Nat
      /\ script[i].limit \in Seq(Nat) /\ Len(script[i].limit) <= 1
    BY ArrivedLength
<1>4. /\ body \in [DOMAIN script -> [size : Nat, outcome : Outcomes]]
      /\ \A j \in DOMAIN script : body[j].size <= Len(Arrived(j))
    BY <1>1 DEF Typed
<1>5. \A j : Arrived(j)' = Arrived(j)
    BY <1>2 DEF Arrived
<1>6. Exceeds(script[i], a) => Exceeds(script[i], b)
  <2> SUFFICES ASSUME script[i].limit # <<>>, a > script[i].limit[1]
               PROVE  b > script[i].limit[1]
      BY DEF Exceeds
  <2>1. script[i].limit[1] \in Nat
    <3>1. Len(script[i].limit) \in Nat /\ Len(script[i].limit) # 0
        BY <1>3, EmptySeq, LenProperties
    <3>2. 1 \in 1 .. Len(script[i].limit)
        BY <3>1
    <3> QED
        BY <1>3, <3>2, ElementOfSeq
  <2> HIDE DEF a, b
  <2> QED
      BY <1>3, <2>1
<1> HIDE DEF a, b
<1>7. /\ body' \in [DOMAIN script -> [size : Nat, outcome : Outcomes]]
      /\ \A j \in DOMAIN script : j # i => body'[j] = body[j]
      /\ body'[i].size <= Len(Arrived(i))
      /\ body'[i].outcome = "reading" => ~Exceeds(script[i], body'[i].size)
      /\ body'[i].outcome = "ok" => i < k /\ ~Exceeds(script[i], Len(done[i]))
      /\ body'[i].outcome = "exceeded" => Exceeds(script[i], b)
  <2>1. CASE BodyRead(i)
    <3> DEFINE x == IF Exceeds(script[i], a) THEN "exceeded" ELSE "reading"
               y == [size |-> a, outcome |-> x]
    <3>1. body' = [body EXCEPT ![i] = y]
        BY <2>1 DEF BodyRead, a
    <3>2. y.size = a /\ y.outcome = x /\ y \in [size : Nat, outcome : Outcomes]
        BY <1>3 DEF Outcomes
    <3>3. x = "exceeded" => Exceeds(script[i], a)
        OBVIOUS
    <3>4. x # "ok" /\ (x = "reading" => ~Exceeds(script[i], a))
        OBVIOUS
    <3> HIDE DEF x, y
    <3>5. /\ body' \in [DOMAIN script -> [size : Nat, outcome : Outcomes]]
          /\ \A j \in DOMAIN script : j # i => body'[j] = body[j]
          /\ body'[i] = y
        BY <1>4, <3>1, <3>2
    <3>6. a <= Len(Arrived(i))
        BY <1>3 DEF a
    <3> QED
        BY <1>6, <3>2, <3>3, <3>4, <3>5, <3>6
  <2>2. CASE BodyReadEnd(i)
    <3> DEFINE x == IF i < k THEN "ok" ELSE "error"
               y == [body[i] EXCEPT !.outcome = x]
    <3>1. /\ body' = [body EXCEPT ![i] = y] /\ body[i].size = a
        BY <1>4, <2>2 DEF BodyReadEnd, a
    <3>2. y.size = a /\ y.outcome = x /\ y \in [size : Nat, outcome : Outcomes]
        BY <1>4, <3>1 DEF Outcomes
    <3>3. x # "exceeded" /\ x # "reading" /\ (x = "ok" => i < k)
        OBVIOUS
    <3> HIDE DEF x, y
    <3>4. /\ body' \in [DOMAIN script -> [size : Nat, outcome : Outcomes]]
          /\ \A j \in DOMAIN script : j # i => body'[j] = body[j]
          /\ body'[i] = y
        BY <1>4, <3>1, <3>2
    <3>5. ASSUME i < k PROVE ~Exceeds(script[i], Len(done[i]))
      <4>1. ~Exceeds(script[i], a)
          BY <1>1, <1>2, <3>1 DEF ReadInv
      <4>2. a = Len(done[i])
          BY <3>5 DEF a, Arrived
      <4> QED
          BY <4>1, <4>2
    <3>6. a <= Len(Arrived(i))
        BY <1>3 DEF a
    <3> QED
        BY <3>2, <3>3, <3>4, <3>5, <3>6
  <2> QED
      BY <2>1, <2>2
<1>8. Typed'
  <2>1. \A j \in DOMAIN script : body'[j].size <= Len(Arrived(j))
      BY <1>4, <1>7
  <2> QED
      BY <1>1, <1>2, <1>5, <1>7, <2>1 DEF Typed, svars, dvars
<1>9. SentInv'
    BY <1>1, <1>2, SentKept
<1>10. DecodeInv'
  <2>1. Offset(k)' = Offset(k) /\ Here' = Here
      BY <1>2, OffsetKept, HereKept
  <2> QED
      BY <1>1, <1>2, <2>1 DEF DecodeInv
<1>11. DoneInv'
    BY <1>1, <1>2 DEF DoneInv
<1>12. ReadInv'
    BY <1>1, <1>2, <1>7 DEF ReadInv, b
<1> QED
    BY <1>8, <1>9, <1>10, <1>11, <1>12 DEF BodyInv

LEMMA BodyStep == ASSUME WellSent, BodyInv, [Next]_vars PROVE BodyInv'
<1>1. CASE SendItem \/ SendLast \/ Cut
    BY <1>1, SenderStep
<1>2. CASE Read \/ ReadEof \/ WantMore \/ EofIncomplete \/ LoseConnection
    BY <1>2, QuietStep
<1>3. CASE EofSimple
    BY <1>3, EofSimpleStep
<1>4. CASE DecodeSimple \/ DecodeFixed \/ DecodeChunkBody
    BY <1>4, DataStep
<1>5. CASE \/ LinePart \/ LineTooLong \/ ChunkHeader \/ ChunkHeaderInvalid
           \/ ChunkBodyDelimiter \/ TrailerPart
    BY <1>5, LineStep
<1>6. CASE TakeConnection
    BY <1>6, TakeStep
<1>7. CASE Application
  <2>1. PICK i \in DOMAIN script : BodyRead(i) \/ BodyReadEnd(i)
      BY <1>7 DEF Application
  <2> QED
      BY <2>1, ReadStep
<1>8. CASE UNCHANGED vars
  <2>1. /\ UNCHANGED <<script, svars, k, base, avail, pos, eof, rpc, dvars, out,
                       done, body>>
        /\ UNCHANGED <<smsg, sitem, wire, closed, state, expected, line>>
      BY <1>8 DEF vars, svars, dvars
  <2>2. Offset(k)' = Offset(k) /\ Here' = Here
      BY <2>1, OffsetKept, HereKept
  <2>3. \A j : Arrived(j)' = Arrived(j)
      BY <2>1 DEF Arrived
  <2>4. Typed' /\ DecodeInv'
      BY <2>1, <2>2, <2>3 DEF BodyInv, Typed, DecodeInv
  <2>5. SentInv' /\ DoneInv' /\ ReadInv'
      BY <2>1, SentKept DEF BodyInv, DoneInv, ReadInv
  <2> QED
      BY <2>4, <2>5 DEF BodyInv
<1> QED
    BY <1>1, <1>2, <1>3, <1>4, <1>5, <1>6, <1>7, <1>8
    DEF Next, Reader, Decode, Terminated
-----------------------------------------------------------------------------
(***************************************************************************)
(* The theorems.                                                           *)
(***************************************************************************)
LEMMA InvTypes == ASSUME WellSent, BodyInv PROVE TypeOK
<1>1. Typed
    BY DEF BodyInv
<1>2. ASSUME NEW i \in DOMAIN script
      PROVE  /\ body[i].size \in 0 .. Len(Arrived(i))
             /\ body[i].outcome \in {"reading", "ok", "exceeded", "error"}
  <2>1. /\ body[i].size \in Nat /\ body[i].size <= Len(Arrived(i))
        /\ body[i].outcome \in Outcomes
      BY <1>1 DEF Typed
  <2>2. Len(Arrived(i)) \in Nat
      BY ArrivedLength
  <2> QED
      BY <2>1, <2>2 DEF Outcomes
<1> QED
    BY <1>1, <1>2 DEF Typed, TypeOK

LEMMA InvPrefix == ASSUME WellSent, BodyInv PROVE PrefixDelivered
<1> SUFFICES ASSUME k <= Len(script) PROVE IsPrefix(out, BodyOf(script[k]))
    BY DEF PrefixDelivered
<1> DEFINE b == BodyOf(script[k])
<1>1. b \in Bytes /\ Len(b) \in Nat
    BY AtMessage
<1>2. PICK n \in 0 .. Len(b) : out = SubSeq(b, 1, n)
    BY DEF BodyInv, DecodeInv
<1>3. \A q \in 1 .. n : b[q] \in Symbols
  <2>1. b \in Seq(Symbols) /\ n <= Len(b)
      BY <1>1 DEF Bytes
  <2> QED
      BY <1>1, <2>1, ElementOfSeq
<1>4. /\ out \in Seq(Symbols) /\ Len(out) = n
  <2>1. /\ n \in Int /\ SubSeq(b, 1, n) \in Seq(Symbols)
        /\ Len(SubSeq(b, 1, n)) = IF 1 <= n THEN n - 1 + 1 ELSE 0
      BY <1>1, <1>3, SubSeqProperties
  <2> QED
      BY <1>1, <1>2, <2>1
<1> HIDE DEF b
<1>5. SubSeq(out, 1, Len(out)) = out
    BY <1>4, SubSeqFull
<1>6. Len(out) <= Len(b) /\ SubSeq(out, 1, Len(out)) = SubSeq(b, 1, Len(out))
    BY <1>1, <1>2, <1>4, <1>5
<1> QED
    BY <1>6 DEF IsPrefix, b

LEMMA InvRoundTrip == ASSUME WellSent, BodyInv PROVE RoundTrip
<1>1. Typed /\ DoneInv /\ ReadInv
    BY DEF BodyInv
<1>2. DOMAIN done = 1 .. k - 1
  <2>1. done \in Seq(Bytes) /\ Len(done) = k - 1
      BY <1>1 DEF Typed
  <2> QED
      BY <2>1, LenProperties
<1> QED
    BY <1>1, <1>2 DEF DoneInv, ReadInv, RoundTrip

(* The positions and the state of the decoder are in range: no more is     *)
(* decoded than has been read, nor read than was sent, the size of a chunk *)
(* is one that was sent, the line decoder never holds more than            *)
(* max_line_length bytes, and Body::read counts no byte twice.             *)
THEOREM DecoderTypes == ASSUME WellSent PROVE Spec => []TypeOK
<1>1. Init => BodyInv
    BY BodyInit
<1>2. BodyInv /\ [Next]_vars => BodyInv'
    BY BodyStep
<1>3. BodyInv => TypeOK
    BY InvTypes
<1> QED
    BY <1>1, <1>2, <1>3, PTL DEF Spec

(* What the consumer of a body has is a prefix of the body that was sent,  *)
(* for every way the stream is cut into pieces or ends.                    *)
THEOREM OnlyTheBody == ASSUME WellSent PROVE Spec => []PrefixDelivered
<1>1. Init => BodyInv
    BY BodyInit
<1>2. BodyInv /\ [Next]_vars => BodyInv'
    BY BodyStep
<1>3. BodyInv => PrefixDelivered
    BY InvPrefix
<1> QED
    BY <1>1, <1>2, <1>3, PTL DEF Spec

(* A body that counts as complete is the body that was sent, and           *)
(* Body::read refuses exactly what is above its limit.                     *)
THEOREM WholeBody == ASSUME WellSent PROVE Spec => []RoundTrip
<1>1. Init => BodyInv
    BY BodyInit
<1>2. BodyInv /\ [Next]_vars => BodyInv'
    BY BodyStep
<1>3. BodyInv => RoundTrip
    BY InvRoundTrip
<1> QED
    BY <1>1, <1>2, <1>3, PTL DEF Spec

(* Every decoder starts at the first byte of its message: the one before   *)
(* has consumed nothing of it, however far it has read ahead.              *)
THEOREM StartsAtBoundary == ASSUME WellSent PROVE Spec => []BoundaryExact
<1>1. Init => BodyInv
    BY BodyInit
<1>2. BodyInv /\ [Next]_vars => BodyInv'
    BY BodyStep
<1>3. BodyInv => BoundaryExact
    BY DEF BodyInv, DecodeInv, BoundaryExact
<1> QED
    BY <1>1, <1>2, <1>3, PTL DEF Spec
===============================================================================
