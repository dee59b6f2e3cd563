------------------------- MODULE WebSocket_proofs -------------------------
(***************************************************************************)
(* Proofs that the writing side of WebSocket never tears a frame and sends *)
(* one Close frame at most, and that its reading side keeps to the frames  *)
(* of the peer and to its buffer, for every set of frames and all bounds.  *)
(***************************************************************************)
EXTENDS WebSocket, SequenceFacts

(***************************************************************************)
(* The frames written                                                      *)
(***************************************************************************)
WireUnit == Nat \X {"header", "payload"}
Written == Seq(WireUnit)
Encoded(n) == [i \in 1 .. n |-> Encode(i)]
Rest == SubSeq(out, sent + 1, Len(out))

Kind == UserMessages \cup Statuses

(* What has been written and what is left in the output buffer make up the *)
(* encodings of the messages accepted so far.                              *)
WireInv ==
    /\ accepted \in Seq(Kind)
    /\ out \in Written /\ wire \in Written
    /\ sent \in 0 .. Len(out)
    /\ wire \o Rest = FlattenSeq(Encoded(Len(accepted)))
    /\ unread \in 0 .. Window /\ unread <= Len(wire)

LEMMA WrittenClosed == Closed(Written)
BY SeqClosed DEF Written

LEMMA EncodeType == ASSUME NEW i \in Nat PROVE Encode(i) \in Written /\ Len(Encode(i)) = 2
<1>1. <<i, "header">> \in WireUnit /\ <<i, "payload">> \in WireUnit
    BY DEF WireUnit
<1> QED
    BY <1>1 DEF Encode, Written

LEMMA EncodedAppend ==
    ASSUME NEW n \in Nat
    PROVE  FlattenSeq(Encoded(n + 1)) = FlattenSeq(Encoded(n)) \o Encode(n + 1)
<1>1. \A i \in Nat : Encode(i) \in Written
    BY EncodeType
<1>2. /\ Encoded(n) \in [1 .. n -> Written] /\ Encoded(n + 1) \in [1 .. n + 1 -> Written]
      /\ \A i \in 1 .. n : Encoded(n + 1)[i] = Encoded(n)[i]
      /\ Encoded(n + 1)[n + 1] = Encode(n + 1)
    BY <1>1 DEF Encoded
<1> QED
    BY <1>2, FlattenExtend, WrittenClosed

LEMMA WireInit == Init => WireInv
<1> SUFFICES ASSUME Init PROVE WireInv
    OBVIOUS
<1>1. accepted = <<>> /\ out = <<>> /\ wire = <<>> /\ sent = 0 /\ unread = 0
    BY DEF Init
<1>2. Encoded(0) = <<>>
    BY DEF Encoded
<1>3. Rest = <<>>
    BY <1>1 DEF Rest
<1>4. <<>> \in Written /\ <<>> \in Seq(Kind)
    BY DEF Written
<1>5. wire \o Rest = <<>> /\ Len(accepted) = 0 /\ Len(wire) = 0 /\ Len(out) = 0
    BY <1>1, <1>3
<1>6. unread \in 0 .. Window /\ unread <= Len(wire) /\ sent \in 0 .. Len(out)
    BY <1>1, <1>5, WebSocketAssumption
<1> QED
    BY <1>1, <1>2, <1>4, <1>5, <1>6, FlattenEmpty DEF WireInv

LEMMA WireImplied == WireInv => WireFramed
<1> SUFFICES ASSUME WireInv PROVE WireFramed
    OBVIOUS
<1>1. DOMAIN accepted = 1 .. Len(accepted)
    BY LenProperties DEF WireInv
<1>2. [i \in DOMAIN accepted |-> Encode(i)] = Encoded(Len(accepted))
    BY <1>1 DEF Encoded
<1>3. Rest \in Written
  <2>1. \A i \in sent + 1 .. Len(out) : out[i] \in WireUnit
      BY ElementOfSeq DEF WireInv, Written
  <2> QED
      BY <2>1, SubSeqProperties DEF Rest, Written, WireInv
<1>4. IsPrefix(wire, wire \o Rest)
    BY <1>3, PrefixOfConcat DEF WireInv, Written
<1> QED
    BY <1>2, <1>4 DEF WireInv, WireFramed

(* A step that only writes part of the buffer, or all of it.               *)
LEMMA WireTurn ==
    ASSUME WireInv, NEW n \in Nat, WriteTurn(n)
    PROVE  WireInv'
<1>1. /\ n \in 1 .. Len(out) - sent /\ sent \in 0 .. Len(out) /\ Len(out) \in Nat
      /\ out \in Seq(WireUnit)
    BY LenProperties DEF WriteTurn, WireInv, Written
<1> DEFINE now == SubSeq(out, sent + 1, sent + n)
           later == SubSeq(out, sent + n + 1, Len(out))
<1>2. \A i \in 1 .. Len(out) : out[i] \in WireUnit
    BY <1>1, ElementOfSeq
<1>3. now \in Written
  <2>1. \A i \in sent + 1 .. sent + n : out[i] \in WireUnit
      BY <1>1, <1>2
  <2> QED
      BY <1>1, <2>1, SubSeqProperties DEF Written
<1>4. later \in Written
  <2>1. \A i \in sent + n + 1 .. Len(out) : out[i] \in WireUnit
      BY <1>1, <1>2
  <2> QED
      BY <1>1, <2>1, SubSeqProperties DEF Written
<1>5. now \o later = Rest
  <2>1. /\ sent + 1 \in 1 .. Len(out) + 1
        /\ sent + n \in (sent + 1) - 1 .. Len(out)
        /\ Len(out) \in sent + n .. Len(out)
      BY <1>1
  <2> QED
      BY <1>1, <2>1, ConcatAdjacentSubSeq DEF Rest
<1>6. wire' = wire \o now /\ accepted' = accepted
    BY DEF WriteTurn
<1>7. Rest' = later /\ out' \in Written /\ sent' \in 0 .. Len(out')
  <2>1. CASE sent + n = Len(out)
    <3>1. out' = <<>> /\ sent' = 0
        BY <2>1 DEF WriteTurn
    <3>2. later = <<>>
        BY <1>1, <2>1, SubSeqEmpty
    <3>3. SubSeq(<<>>, 0 + 1, Len(<<>>)) = <<>>
        BY SubSeqEmpty
    <3>4. <<>> \in Written /\ 0 \in 0 .. Len(<<>>)
        BY DEF Written
    <3> QED
        BY <3>1, <3>2, <3>3, <3>4 DEF Rest
  <2>2. CASE sent + n # Len(out)
    <3>1. out' = out /\ sent' = sent + n
        BY <2>2 DEF WriteTurn
    <3> QED
        BY <1>1, <1>4, <3>1 DEF Rest, WireInv
  <2> QED
      BY <2>1, <2>2
<1> HIDE DEF now, later
<1>8. wire \in Written /\ accepted \in Seq(Kind)
    BY DEF WireInv
<1>9. (wire \o now) \o later = wire \o Rest /\ wire \o now \in Written
    BY <1>3, <1>4, <1>5, <1>8, WrittenClosed DEF Closed
<1>10. unread' \in 0 .. Window /\ unread' <= Len(wire')
  <2>1. Len(wire \o now) = Len(wire) + Len(now) /\ Len(wire) \in Nat
      BY <1>3, <1>8, ConcatProperties, LenProperties DEF Written
  <2>2. Len(now) = n
    <3>1. \A i \in sent + 1 .. sent + n : out[i] \in WireUnit
        BY <1>1, <1>2
    <3> QED
        BY <1>1, <3>1, SubSeqProperties DEF now
  <2>3. unread' = unread + n /\ unread + n <= Window /\ unread \in Nat /\ unread <= Len(wire)
      BY DEF WriteTurn, WireInv
  <2>4. n \in Nat /\ Window \in Nat
      BY WebSocketAssumption
  <2> QED
      BY <1>6, <2>1, <2>2, <2>3, <2>4
<1> QED
    BY <1>6, <1>7, <1>8, <1>9, <1>10 DEF WireInv

(* A message is accepted only when the buffer is empty.                    *)
LEMMA WireAccepts ==
    ASSUME WireInv, NEW m \in Kind, out = <<>>,
           accepted' = Append(accepted, m), out' = Encode(Len(accepted')),
           UNCHANGED <<sent, wire, unread>>
    PROVE  WireInv'
<1> DEFINE n == Len(accepted)
<1>1. n \in Nat /\ accepted' \in Seq(Kind) /\ Len(accepted') = n + 1
    BY LenProperties, AppendProperties DEF WireInv
<1>2. sent = 0 /\ Rest = <<>>
    BY SubSeqEmpty DEF WireInv, Rest
<1>3. wire \in Written /\ wire = FlattenSeq(Encoded(n))
    BY <1>2, WrittenClosed DEF WireInv, Closed
<1>4. out' = Encode(n + 1) /\ out' \in Written /\ Len(out') = 2
    BY <1>1, EncodeType
<1>5. Rest' = Encode(n + 1)
    BY <1>2, <1>4, SubSeqFull DEF Rest, Written
<1> HIDE DEF n
<1>6. FlattenSeq(Encoded(n + 1)) = FlattenSeq(Encoded(n)) \o Encode(n + 1)
    BY <1>1, EncodedAppend
<1>7. wire' \o Rest' = FlattenSeq(Encoded(Len(accepted')))
    BY <1>1, <1>3, <1>5, <1>6
<1>8. sent' \in 0 .. Len(out')
    BY <1>2, <1>4
<1> QED
    BY <1>1, <1>3, <1>4, <1>7, <1>8 DEF WireInv

LEMMA WireFrame ==
    ASSUME WireInv, UNCHANGED <<accepted, out, sent, wire>>,
           unread' \in {unread, unread - 1}, unread' >= 0
    PROVE  WireInv'
<1>1. unread' \in 0 .. Window /\ unread' <= Len(wire)
  <2>1. Len(wire) \in Nat /\ Window \in Nat /\ unread \in 0 .. Window /\ unread <= Len(wire)
      BY LenProperties, WebSocketAssumption DEF WireInv, Written
  <2> QED
      BY <2>1
<1> QED
    BY <1>1 DEF WireInv, Rest

(***************************************************************************)
(* The frames read                                                         *)
(***************************************************************************)
StreamUnit == [kind : {"header"}, f : Frames] \cup [kind : {"payload"}, c : Payload]
Stream == Seq(StreamUnit)
Units(fs, k) == FlattenSeq([i \in 1 .. Len(fs) - k |-> UnitsOf(fs[k + i])])
Text == Seq(Payload)

LEMMA StreamClosed == Closed(Stream)
BY SeqClosed DEF Stream

LEMMA StreamConcat ==
    ASSUME NEW a \in Stream, NEW b \in Stream PROVE a \o b \in Stream
BY DEF Stream

LEMMA StreamAssociative ==
    ASSUME NEW a \in Stream, NEW b \in Stream, NEW c \in Stream
    PROVE  (a \o b) \o c = a \o (b \o c)
BY ConcatAssociative DEF Stream

LEMMA StreamEmpty ==
    ASSUME NEW a \in Stream
    PROVE  <<>> \in Stream /\ a \o <<>> = a /\ <<>> \o a = a
BY ConcatEmptySeq DEF Stream

LEMMA TextClosed == Closed(Text)
BY SeqClosed DEF Text

LEMMA TextExtend ==
    ASSUME NEW n \in Nat, NEW h \in [1 .. n -> Text], NEW g \in [1 .. n + 1 -> Text],
           \A i \in 1 .. n : g[i] = h[i]
    PROVE  FlattenSeq(g) = FlattenSeq(h) \o g[n + 1]
BY TextClosed, FlattenExtend

LEMMA TextEmpty ==
    ASSUME NEW a \in Text
    PROVE  <<>> \in Text /\ a \o <<>> = a /\ <<>> \o a = a
BY ConcatEmptySeq DEF Text

LEMMA FrameFields ==
    ASSUME NEW f \in Frames
    PROVE  /\ f.op \in Opcodes /\ {f.fin, f.rsv, f.mask} \subseteq BOOLEAN
           /\ f.data \in Text /\ Len(f.data) \in Nat
BY WebSocketAssumption, LenProperties DEF Text

(* The units of a frame: its header, which carries the frame, and as many  *)
(* units as its payload has.                                               *)
LEMMA UnitsType ==
    ASSUME NEW f \in Frames
    PROVE  /\ UnitsOf(f) \in Stream
           /\ Len(UnitsOf(f)) = Len(f.data) + 1
           /\ UnitsOf(f)[1] = Header(f)
<1> DEFINE h == <<Header(f)>>
           p == [i \in 1 .. Len(f.data) |-> [kind |-> "payload", c |-> f.data[i]]]
<1>1. Header(f) \in StreamUnit
    BY DEF Header, StreamUnit
<1>2. h \in Seq(StreamUnit) /\ Len(h) = 1 /\ h[1] = Header(f)
    BY <1>1
<1>3. Len(f.data) \in Nat /\ f.data \in Seq(Payload)
    BY FrameFields DEF Text
<1>4. \A i \in 1 .. Len(f.data) : [kind |-> "payload", c |-> f.data[i]] \in StreamUnit
  <2>1. \A i \in 1 .. Len(f.data) : f.data[i] \in Payload
      BY <1>3, ElementOfSeq
  <2> QED
      BY <2>1 DEF StreamUnit
<1>5. p \in Seq(StreamUnit) /\ Len(p) = Len(f.data)
    BY <1>3, <1>4
<1> HIDE DEF h, p
<1>6. /\ h \o p \in Seq(StreamUnit) /\ Len(h \o p) = 1 + Len(f.data)
      /\ (h \o p)[1] = h[1]
  <2>1. /\ h \o p \in Seq(StreamUnit) /\ Len(h \o p) = Len(h) + Len(p)
        /\ \A i \in 1 .. Len(h) + Len(p) :
              (h \o p)[i] = IF i <= Len(h) THEN h[i] ELSE p[i - Len(h)]
      BY <1>2, <1>5, ConcatProperties
  <2>2. 1 \in 1 .. Len(h) + Len(p) /\ 1 <= Len(h) /\ Len(h) + Len(p) = 1 + Len(f.data)
      BY <1>2, <1>3, <1>5
  <2> QED
      BY <2>1, <2>2
<1> QED
    BY <1>2, <1>3, <1>6 DEF UnitsOf, Stream, h, p

LEMMA UnitsStream ==
    ASSUME NEW fs \in Seq(Frames), NEW k \in 0 .. Len(fs)
    PROVE  /\ [i \in 1 .. Len(fs) - k |-> UnitsOf(fs[k + i])] \in [1 .. Len(fs) - k -> Stream]
           /\ Len(fs) - k \in Nat
           /\ Units(fs, k) \in Stream
<1>1. Len(fs) \in Nat /\ Len(fs) - k \in Nat
    BY LenProperties
<1>2. ASSUME NEW i \in 1 .. Len(fs) - k PROVE UnitsOf(fs[k + i]) \in Stream
  <2>1. fs[k + i] \in Frames
      BY <1>1, ElementOfSeq
  <2> QED
      BY <2>1, UnitsType
<1> DEFINE g == [i \in 1 .. Len(fs) - k |-> UnitsOf(fs[k + i])]
<1>3. g \in [1 .. Len(fs) - k -> Stream] /\ g \in Seq(Stream)
    BY <1>1, <1>2
<1> HIDE DEF g
<1>4. FlattenSeq(g) \in Stream
    BY <1>3, StreamClosed, FlattenType
<1> QED
    BY <1>1, <1>3, <1>4 DEF g, Units

(* What is on the way grows with a frame of the peer.                      *)
LEMMA UnitsGrow ==
    ASSUME NEW fs \in Seq(Frames), NEW k \in 0 .. Len(fs), NEW f \in Frames
    PROVE  Units(Append(fs, f), k) = Units(fs, k) \o UnitsOf(f)
<1> DEFINE gs == Append(fs, f)
           n == Len(fs) - k
           h == [i \in 1 .. n |-> UnitsOf(fs[k + i])]
           g == [i \in 1 .. n + 1 |-> UnitsOf(gs[k + i])]
<1>1. /\ gs \in Seq(Frames) /\ Len(gs) = Len(fs) + 1 /\ Len(fs) \in Nat /\ n \in Nat
      /\ \A i \in 1 .. Len(fs) : gs[i] = fs[i]
      /\ gs[Len(fs) + 1] = f
    BY AppendProperties, LenProperties
<1>2. k \in 0 .. Len(gs) /\ Len(gs) - k = n + 1 /\ k + (n + 1) = Len(fs) + 1
    BY <1>1
<1> HIDE DEF gs
<1>3. \A i \in 1 .. n : gs[k + i] = fs[k + i]
    BY <1>1
<1> HIDE DEF n
<1>4. h \in [1 .. n -> Stream] /\ g \in [1 .. n + 1 -> Stream]
    BY <1>1, <1>2, UnitsStream DEF n
<1>5. (\A i \in 1 .. n : g[i] = h[i]) /\ g[n + 1] = UnitsOf(f)
    BY <1>1, <1>2, <1>3
<1>6. Units(fs, k) = FlattenSeq(h) /\ Units(gs, k) = FlattenSeq(g)
    BY <1>2 DEF Units, n
<1> HIDE DEF g, h
<1>7. FlattenSeq(g) = FlattenSeq(h) \o g[n + 1]
    BY <1>1, <1>4, <1>5, StreamClosed, FlattenExtend
<1> QED
    BY <1>5, <1>6, <1>7 DEF gs

(* The first frame on the way, and what follows it.                        *)
LEMMA UnitsHead ==
    ASSUME NEW fs \in Seq(Frames), NEW k \in 0 .. Len(fs) - 1
    PROVE  Units(fs, k) = UnitsOf(fs[k + 1]) \o Units(fs, k + 1)
<1> DEFINE n == Len(fs) - k
           g == [i \in 1 .. n |-> UnitsOf(fs[k + i])]
           h == [i \in 1 .. n - 1 |-> UnitsOf(fs[k + 1 + i])]
           x == UnitsOf(fs[k + 1])
<1>1. n \in Nat \ {0} /\ k \in 0 .. Len(fs) /\ k + 1 \in 0 .. Len(fs)
      /\ Len(fs) - (k + 1) = n - 1 /\ n - 1 \in Nat
    BY LenProperties
<1> HIDE DEF n
<1>2. g \in [1 .. n -> Stream] /\ h \in [1 .. n - 1 -> Stream]
    BY <1>1, UnitsStream DEF n
<1>3. x \in Stream
    BY <1>1, <1>2
<1>5. ASSUME NEW i \in 1 .. n PROVE g[i] = IF i <= 1 THEN x ELSE h[i - 1]
  <2>1. CASE i = 1
      BY <2>1
  <2>2. CASE i # 1
    <3>1. i - 1 \in 1 .. n - 1 /\ k + 1 + (i - 1) = k + i
        BY <1>1, <2>2
    <3> QED
        BY <1>1, <3>1
  <2> QED
      BY <2>1, <2>2
<1>6. Units(fs, k) = FlattenSeq(g) /\ Units(fs, k + 1) = FlattenSeq(h)
    BY <1>1 DEF Units, n
<1> HIDE DEF g, h, x
<1>4. g \in Seq(Stream) /\ Len(g) = n /\ h \in Seq(Stream) /\ Len(h) = n - 1
    BY <1>1, <1>2
<1>7. <<x>> \in Seq(Stream) /\ Len(<<x>>) = 1 /\ <<x>>[1] = x
    BY <1>3
<1>8. /\ <<x>> \o h \in Seq(Stream) /\ Len(<<x>> \o h) = n
      /\ \A i \in 1 .. n : (<<x>> \o h)[i] = IF i <= 1 THEN x ELSE h[i - 1]
  <2>1. /\ <<x>> \o h \in Seq(Stream) /\ Len(<<x>> \o h) = 1 + (n - 1)
        /\ \A i \in 1 .. 1 + (n - 1) : (<<x>> \o h)[i] = IF i <= 1 THEN <<x>>[i] ELSE h[i - 1]
      BY <1>4, <1>7, ConcatProperties
  <2>2. 1 + (n - 1) = n /\ \A i \in 1 .. n : i <= 1 => i = 1
      BY <1>1
  <2> QED
      BY <1>7, <2>1, <2>2
<1>9. g = <<x>> \o h
    BY <1>4, <1>5, <1>8, SeqEqual
<1>10. FlattenSeq(<<x>> \o h) = x \o FlattenSeq(h)
    BY <1>3, <1>4, StreamClosed, FlattenCons
<1> QED
    BY <1>6, <1>9, <1>10 DEF x

LEMMA UnitsNone ==
    ASSUME NEW fs \in Seq(Frames) PROVE Units(fs, Len(fs)) = <<>>
<1>1. Len(fs) - Len(fs) = 0
    BY LenProperties
<1>2. [i \in 1 .. 0 |-> UnitsOf(fs[Len(fs) + i])] = <<>>
    OBVIOUS
<1> QED
    BY <1>1, <1>2, FlattenEmpty DEF Units

(***************************************************************************)
(* What the frames mean depends on them alone, frame by frame.             *)
(***************************************************************************)
Agree(fs, gs, n) == \A i \in 1 .. n : fs[i] = gs[i]

LEMMA AgreeParts ==
    ASSUME NEW fs, NEW gs, NEW n \in Nat, Agree(fs, gs, n)
    PROVE  /\ \A i \in 1 .. n + 1 : InMessage(fs, i) = InMessage(gs, i)
           /\ \A i \in 0 .. n, k \in 1 .. n : Ended(fs, k, i) <=> Ended(gs, k, i)
           /\ \A i \in 0 .. n : IsText(fs, i) <=> IsText(gs, i)
           /\ \A i \in 0 .. n : BodyAt(fs, i) = BodyAt(gs, i)
<1>1. \A i \in 1 .. n : fs[i] = gs[i]
    BY DEF Agree
<1>2. ASSUME NEW i \in 1 .. n + 1 PROVE InMessage(fs, i) = InMessage(gs, i)
  <2>1. \A s \in 1 .. i - 1 : s \in 1 .. n /\ \A t \in s .. i - 1 : t \in 1 .. n
      OBVIOUS
  <2> QED
      BY <1>1, <2>1 DEF InMessage
<1>3. ASSUME NEW i \in 0 .. n, NEW k \in 1 .. n PROVE Ended(fs, k, i) <=> Ended(gs, k, i)
  <2>1. \A t \in k + 1 .. i : t \in 1 .. n
      OBVIOUS
  <2> QED
      BY <1>1, <2>1 DEF Ended
<1>4. ASSUME NEW i \in 0 .. n PROVE IsText(fs, i) <=> IsText(gs, i)
  <2>1. \A s \in 1 .. i : s \in 1 .. n
      OBVIOUS
  <2> QED
      BY <1>1, <1>3, <2>1 DEF IsText
<1>5. ASSUME NEW i \in 0 .. n PROVE BodyAt(fs, i) = BodyAt(gs, i)
  <2>1. \A k \in 1 .. i : k \in 1 .. n
      OBVIOUS
  <2>2. \A k \in 1 .. i : Share(fs, k, i) = Share(gs, k, i)
      BY <1>1, <1>3, <2>1 DEF Share
  <2>3. [k \in 1 .. i |-> Share(fs, k, i)] = [k \in 1 .. i |-> Share(gs, k, i)]
      BY <2>2
  <2> QED
      BY <2>3 DEF BodyAt
<1> QED
    BY <1>2, <1>3, <1>4, <1>5

LEMMA AgreeMeaning ==
    ASSUME NEW fs, NEW gs, NEW n \in Nat, Agree(fs, gs, n)
    PROVE  /\ \A i \in 1 .. n : Offence(fs, i) = Offence(gs, i)
           /\ \A k \in 0 .. n : Open(fs, k) <=> Open(gs, k)
           /\ \A i \in 1 .. n : Final(fs, i) <=> Final(gs, i)
           /\ \A k \in 0 .. n : Messages(fs, k) = Messages(gs, k)
<1>1. \A i \in 1 .. n : fs[i] = gs[i]
    BY DEF Agree
<1>2. \A i \in 1 .. n : Offence(fs, i) = Offence(gs, i)
  <2> TAKE i \in 1 .. n
  <2>1. fs[i] = gs[i] /\ BodyAt(fs, i) = BodyAt(gs, i)
        /\ InMessage(fs, i) = InMessage(gs, i) /\ (IsText(fs, i) <=> IsText(gs, i))
      BY <1>1, AgreeParts
  <2>2. DataOffence(fs, i) = DataOffence(gs, i)
      BY <2>1 DEF DataOffence
  <2> QED
      BY <2>1, <2>2 DEF Offence
<1>3. \A i \in 1 .. n : Ending(fs, i) <=> Ending(gs, i)
    BY <1>1, <1>2 DEF Ending
<1>4. \A k \in 0 .. n : Open(fs, k) <=> Open(gs, k)
  <2> TAKE k \in 0 .. n
  <2>1. \A j \in 1 .. k : j \in 1 .. n
      OBVIOUS
  <2> QED
      BY <1>3, <2>1 DEF Open
<1>5. \A i \in 1 .. n : Open(fs, i - 1) <=> Open(gs, i - 1)
    BY <1>4
<1>6. \A i \in 1 .. n : Final(fs, i) <=> Final(gs, i)
    BY <1>3, <1>5 DEF Final
<1>7. \A i \in 1 .. n : Complete(fs, i) <=> Complete(gs, i)
    BY <1>1, <1>2, <1>5 DEF Complete
<1>8. \A i \in 1 .. n : MessageAt(fs, i) = MessageAt(gs, i)
  <2> TAKE i \in 1 .. n
  <2>1. fs[i] = gs[i] /\ BodyAt(fs, i) = BodyAt(gs, i) /\ (IsText(fs, i) <=> IsText(gs, i))
      BY <1>1, AgreeParts
  <2> QED
      BY <2>1 DEF MessageAt
<1>9. \A k \in 0 .. n : Messages(fs, k) = Messages(gs, k)
  <2> TAKE k \in 0 .. n
  <2>1. \A j \in 1 .. k : j \in 1 .. n
      OBVIOUS
  <2> DEFINE P(hs, i) == IF Complete(hs, i) THEN <<MessageAt(hs, i)>> ELSE <<>>
  <2>2. \A i \in 1 .. k : P(fs, i) = P(gs, i)
      BY <1>7, <1>8, <2>1
  <2> HIDE DEF P
  <2>3. [i \in 1 .. k |-> P(fs, i)] = [i \in 1 .. k |-> P(gs, i)]
      BY <2>2
  <2> QED
      BY <2>3 DEF Messages, P
<1> QED
    BY <1>2, <1>4, <1>6, <1>9

(***************************************************************************)
(* How the meaning grows with one more frame                               *)
(***************************************************************************)
Parts(fs, i) == [k \in 1 .. i |-> Share(fs, k, i)]

LEMMA BodyType ==
    ASSUME NEW fs \in Seq(Frames), NEW i \in 0 .. Len(fs)
    PROVE  Parts(fs, i) \in [1 .. i -> Text] /\ BodyAt(fs, i) \in Text
<1>1. ASSUME NEW k \in 1 .. i PROVE Share(fs, k, i) \in Text
  <2>1. k \in 1 .. Len(fs)
      BY LenProperties
  <2>2. fs[k] \in Frames
      BY <2>1, ElementOfSeq
  <2>3. fs[k].data \in Text /\ <<>> \in Text
      BY <2>2, FrameFields, TextClosed DEF Closed
  <2> QED
      BY <2>3 DEF Share
<1>2. Parts(fs, i) \in [1 .. i -> Text] /\ i \in Nat
    BY <1>1 DEF Parts
<1>3. Parts(fs, i) \in Seq(Text)
    BY <1>2
<1>4. FlattenSeq(Parts(fs, i)) \in Text
    BY <1>3, TextClosed, FlattenType
<1> QED
    BY <1>2, <1>4 DEF BodyAt, Parts

LEMMA BodyGrows ==
    ASSUME NEW fs \in Seq(Frames), NEW k \in 0 .. Len(fs) - 1
    PROVE  LET f == fs[k + 1] IN
           /\ f.op \in Control => BodyAt(fs, k + 1) = BodyAt(fs, k)
           /\ f.op \notin Control \cup Starting => BodyAt(fs, k + 1) = BodyAt(fs, k) \o f.data
           /\ f.op \in Starting => BodyAt(fs, k + 1) = f.data
<1> DEFINE f == fs[k + 1]
<1>1. k \in Nat /\ k \in 0 .. Len(fs) /\ k + 1 \in 0 .. Len(fs) /\ k + 1 \in 1 .. Len(fs)
    BY LenProperties
<1>2. f \in Frames
    BY <1>1, ElementOfSeq
<1>3. f.data \in Text
    BY <1>2, FrameFields
<1>4. /\ Parts(fs, k) \in [1 .. k -> Text] /\ Parts(fs, k + 1) \in [1 .. k + 1 -> Text]
      /\ BodyAt(fs, k) \in Text
    BY <1>1, BodyType
<1>5. BodyAt(fs, k) = FlattenSeq(Parts(fs, k)) /\ BodyAt(fs, k + 1) = FlattenSeq(Parts(fs, k + 1))
    BY DEF BodyAt, Parts
<1>6. /\ Parts(fs, k + 1)[k + 1] = IF f.op \in Control THEN <<>> ELSE f.data
      /\ ~Ended(fs, k + 1, k + 1)
  <2>1. ~Ended(fs, k + 1, k + 1)
      BY <1>1 DEF Ended
  <2>2. Parts(fs, k + 1)[k + 1] = Share(fs, k + 1, k + 1)
      BY <1>1 DEF Parts
  <2> QED
      BY <2>1, <2>2 DEF Share
<1> HIDE DEF f
<1>7. ASSUME f.op \notin Starting
      PROVE  BodyAt(fs, k + 1) = BodyAt(fs, k) \o Parts(fs, k + 1)[k + 1]
  <2>1. ASSUME NEW i \in 1 .. k PROVE Parts(fs, k + 1)[i] = Parts(fs, k)[i]
    <3>1. \A t \in i + 1 .. k + 1 : t \in i + 1 .. k \/ t = k + 1
        BY <1>1
    <3>2. \A t \in i + 1 .. k : t \in i + 1 .. k + 1
        BY <1>1
    <3>3. Ended(fs, i, k + 1) <=> Ended(fs, i, k)
        BY <1>7, <3>1, <3>2 DEF Ended, f
    <3>4. Parts(fs, k + 1)[i] = Share(fs, i, k + 1) /\ Parts(fs, k)[i] = Share(fs, i, k)
        BY <1>1 DEF Parts
    <3> QED
        BY <3>3, <3>4 DEF Share
  <2>2. FlattenSeq(Parts(fs, k + 1)) = FlattenSeq(Parts(fs, k)) \o Parts(fs, k + 1)[k + 1]
      BY <1>1, <1>4, <2>1, TextExtend
  <2> QED
      BY <1>5, <2>2
<1>8. ASSUME f.op \in Starting PROVE BodyAt(fs, k + 1) = f.data
  <2> DEFINE e == [i \in 1 .. k |-> <<>>]
  <2>1. ASSUME NEW i \in 1 .. k PROVE Parts(fs, k + 1)[i] = e[i]
    <3>1. k + 1 \in i + 1 .. k + 1
        BY <1>1
    <3>2. Ended(fs, i, k + 1)
        BY <1>8, <3>1 DEF Ended, f
    <3>3. Parts(fs, k + 1)[i] = Share(fs, i, k + 1) /\ e[i] = <<>>
        BY <1>1 DEF Parts
    <3> QED
        BY <3>2, <3>3 DEF Share
  <2>2. e \in [1 .. k -> Text]
    <3>1. <<>> \in Text
        BY DEF Text
    <3> QED
        BY <3>1
  <2>3. FlattenSeq(e) = <<>>
      BY <1>1, TextClosed, FlattenEmpties
  <2> HIDE DEF e
  <2>4. FlattenSeq(Parts(fs, k + 1)) = <<>> \o Parts(fs, k + 1)[k + 1]
    <3>1. FlattenSeq(Parts(fs, k + 1)) = FlattenSeq(e) \o Parts(fs, k + 1)[k + 1]
        BY <1>1, <1>4, <2>1, <2>2, TextExtend
    <3> QED
        BY <2>3, <3>1
  <2>5. Parts(fs, k + 1)[k + 1] = f.data
      BY <1>6, <1>8 DEF Control, Starting
  <2> QED
      BY <1>3, <1>5, <2>4, <2>5, TextEmpty
<1>9. BodyAt(fs, k) \o <<>> = BodyAt(fs, k)
    BY <1>4, TextEmpty
<1>10. /\ f.op \in Control => BodyAt(fs, k + 1) = BodyAt(fs, k)
       /\ f.op \notin Control \cup Starting => BodyAt(fs, k + 1) = BodyAt(fs, k) \o f.data
       /\ f.op \in Starting => BodyAt(fs, k + 1) = f.data
    BY <1>6, <1>7, <1>8, <1>9 DEF Control, Starting
<1> QED
    BY <1>10 DEF f

LEMMA MessageGrows ==
    ASSUME NEW fs \in Seq(Frames), NEW k \in 0 .. Len(fs) - 1
    PROVE  LET f == fs[k + 1] IN
           /\ f.op \in Control => (InMessage(fs, k + 2) <=> InMessage(fs, k + 1))
           /\ f.op \notin Control \cup Starting =>
                 (InMessage(fs, k + 2) <=> InMessage(fs, k + 1) /\ ~f.fin)
           /\ f.op \in Starting => (InMessage(fs, k + 2) <=> ~f.fin)
           /\ f.op \notin Starting => (IsText(fs, k + 1) <=> IsText(fs, k))
           /\ f.op \in Starting => (IsText(fs, k + 1) <=> f.op = "text")
<1> DEFINE f == fs[k + 1]
<1>1. k \in Nat /\ (k + 2) - 1 = k + 1 /\ (k + 1) - 1 = k
    BY LenProperties
<1>2. \A s \in 1 .. k + 1 : s \in 1 .. k \/ s = k + 1
    BY <1>1
<1>3. \A s \in 1 .. k : /\ s \in 1 .. k + 1
                        /\ k + 1 \in s .. k + 1 /\ k + 1 \in s + 1 .. k + 1
                        /\ \A t \in s .. k : t \in s .. k + 1
                        /\ \A t \in s .. k + 1 : t \in s .. k \/ t = k + 1
                        /\ \A t \in s + 1 .. k : t \in s + 1 .. k + 1
                        /\ \A t \in s + 1 .. k + 1 : t \in s + 1 .. k \/ t = k + 1
    BY <1>1
<1>4. /\ k + 1 \in 1 .. k + 1
      /\ \A t \in k + 1 .. k + 1 : t = k + 1
      /\ (k + 1) + 1 .. k + 1 = {}
    BY <1>1
<1> DEFINE In(s, n) == fs[s].op \in Starting /\ \A t \in s .. n : fs[t].op \notin Control => ~fs[t].fin
<1>5. InMessage(fs, k + 2) <=> \E s \in 1 .. k + 1 : In(s, k + 1)
    BY <1>1 DEF InMessage
<1>6. InMessage(fs, k + 1) <=> \E s \in 1 .. k : In(s, k)
    BY <1>1 DEF InMessage
<1>7. In(k + 1, k + 1) <=> f.op \in Starting /\ (f.op \notin Control => ~f.fin)
    BY <1>4
<1>8. \A s \in 1 .. k : In(s, k + 1) <=> In(s, k) /\ (f.op \notin Control => ~f.fin)
    BY <1>3
<1>9. \A s \in 1 .. k : Ended(fs, s, k + 1) <=> Ended(fs, s, k) \/ f.op \in Starting
    BY <1>3 DEF Ended
<1>10. ~Ended(fs, k + 1, k + 1)
    BY <1>4 DEF Ended
<1> HIDE DEF In, f
<1>11. Control \cap Starting = {}
    BY DEF Control, Starting
<1>12. /\ f.op \in Control => (InMessage(fs, k + 2) <=> InMessage(fs, k + 1))
       /\ f.op \notin Control \cup Starting =>
             (InMessage(fs, k + 2) <=> InMessage(fs, k + 1) /\ ~f.fin)
       /\ f.op \in Starting => (InMessage(fs, k + 2) <=> ~f.fin)
    BY <1>2, <1>3, <1>4, <1>5, <1>6, <1>7, <1>8, <1>11
<1>13. ASSUME f.op \notin Starting PROVE IsText(fs, k + 1) <=> IsText(fs, k)
  <2>1. f.op # "text"
      BY <1>13 DEF Starting
  <2> QED
      BY <1>2, <1>3, <1>9, <1>13, <2>1 DEF IsText, f
<1>14. ASSUME f.op \in Starting PROVE IsText(fs, k + 1) <=> f.op = "text"
    BY <1>2, <1>4, <1>9, <1>10, <1>14 DEF IsText, f
<1> QED
    BY <1>12, <1>13, <1>14 DEF f

Part(fs, i) == IF Complete(fs, i) THEN <<MessageAt(fs, i)>> ELSE <<>>
Message == {MessageAt(fs, i) : fs \in Seq(Frames), i \in Nat}
Inbox == Seq(Message)

LEMMA InboxClosed == Closed(Inbox)
BY SeqClosed DEF Inbox

LEMMA InboxConcat ==
    ASSUME NEW a \in Inbox, NEW b \in Inbox PROVE a \o b \in Inbox
BY DEF Inbox

LEMMA InboxAssociative ==
    ASSUME NEW a \in Inbox, NEW b \in Inbox, NEW c \in Inbox
    PROVE  (a \o b) \o c = a \o (b \o c)
BY ConcatAssociative DEF Inbox

LEMMA InboxEmpty ==
    ASSUME NEW a \in Inbox
    PROVE  <<>> \in Inbox /\ a \o <<>> = a /\ <<>> \o a = a
BY ConcatEmptySeq DEF Inbox

LEMMA MessagesGrow ==
    ASSUME NEW fs \in Seq(Frames), NEW k \in Nat
    PROVE  /\ Messages(fs, k) \in Inbox /\ Part(fs, k + 1) \in Inbox
           /\ Messages(fs, k + 1) = Messages(fs, k) \o Part(fs, k + 1)
<1> DEFINE P(n) == [i \in 1 .. n |-> Part(fs, i)]
<1>1. ASSUME NEW i \in Nat PROVE Part(fs, i) \in Inbox
  <2>1. MessageAt(fs, i) \in Message
      BY DEF Message
  <2>2. <<MessageAt(fs, i)>> \in Inbox /\ <<>> \in Inbox
      BY <2>1 DEF Inbox
  <2> QED
      BY <2>2 DEF Part
<1>2. /\ P(k) \in [1 .. k -> Inbox] /\ P(k + 1) \in [1 .. k + 1 -> Inbox]
      /\ \A i \in 1 .. k : P(k + 1)[i] = P(k)[i]
      /\ P(k + 1)[k + 1] = Part(fs, k + 1)
    BY <1>1
<1>3. \A n \in Nat : Messages(fs, n) = FlattenSeq(P(n))
    BY DEF Messages, Part
<1> HIDE DEF P
<1>4. P(k) \in Seq(Inbox)
    BY <1>2
<1>5. FlattenSeq(P(k)) \in Inbox
    BY <1>4, InboxClosed, FlattenType
<1>6. FlattenSeq(P(k + 1)) = FlattenSeq(P(k)) \o P(k + 1)[k + 1]
    BY <1>2, InboxClosed, FlattenExtend
<1>7. k \in Nat /\ k + 1 \in Nat
    OBVIOUS
<1>8. Messages(fs, k) = FlattenSeq(P(k)) /\ Messages(fs, k + 1) = FlattenSeq(P(k + 1))
    BY <1>3, <1>7
<1>9. Part(fs, k + 1) \in Inbox
    BY <1>1, <1>7
<1> QED
    BY <1>2, <1>5, <1>6, <1>8, <1>9

(* The messages of fewer frames are the first ones.                        *)
LEMMA MessagesPrefix ==
    ASSUME NEW fs \in Seq(Frames), NEW k \in Nat, NEW n \in Nat, k <= n
    PROVE  IsPrefix(Messages(fs, k), Messages(fs, n))
<1> DEFINE More(d) == \E r \in Inbox : Messages(fs, k + d) = Messages(fs, k) \o r
           T == {d \in Nat : More(d)}
<1>1. Messages(fs, k) \in Inbox
    BY MessagesGrow
<1>2. 0 \in T
  <2>1. Messages(fs, k + 0) = Messages(fs, k) \o <<>> /\ <<>> \in Inbox
    <3>1. Messages(fs, k) \o <<>> = Messages(fs, k) /\ <<>> \in Inbox
        BY <1>1, InboxEmpty
    <3>2. k + 0 = k
        OBVIOUS
    <3> QED
        BY <3>1, <3>2
  <2> QED
      BY <2>1
<1>3. ASSUME NEW d \in Nat, d \in T PROVE d + 1 \in T
  <2>1. PICK r \in Inbox : Messages(fs, k + d) = Messages(fs, k) \o r
      BY <1>3
  <2>0. k + d \in Nat
      OBVIOUS
  <2>2. /\ Messages(fs, (k + d) + 1) = Messages(fs, k + d) \o Part(fs, (k + d) + 1)
        /\ Part(fs, (k + d) + 1) \in Inbox
      BY <2>0, MessagesGrow
  <2>3. /\ (Messages(fs, k) \o r) \o Part(fs, (k + d) + 1)
              = Messages(fs, k) \o (r \o Part(fs, (k + d) + 1))
        /\ r \o Part(fs, (k + d) + 1) \in Inbox
      BY <1>1, <2>1, <2>2, InboxConcat, InboxAssociative
  <2>4. (k + d) + 1 = k + (d + 1)
      OBVIOUS
  <2>5. Messages(fs, k + (d + 1)) = Messages(fs, k) \o (r \o Part(fs, (k + d) + 1))
      BY <2>1, <2>2, <2>3, <2>4
  <2>6. More(d + 1)
      BY <2>3, <2>5
  <2> HIDE DEF More
  <2> QED
      BY <2>6
<1> HIDE DEF T
<1>4. n - k \in T
    BY <1>2, <1>3, SetInduction
<1>5. PICK r \in Inbox : Messages(fs, k + (n - k)) = Messages(fs, k) \o r
    BY <1>4 DEF T
<1>6. k + (n - k) = n
    OBVIOUS
<1> QED
    BY <1>1, <1>5, <1>6, PrefixOfConcat DEF Inbox

(* No frame after the one that ends the reading means anything.            *)
LEMMA MessagesStop ==
    ASSUME NEW fs \in Seq(Frames), NEW j \in Nat \ {0}, Final(fs, j), NEW n \in Nat, j <= n
    PROVE  Messages(fs, n) = Messages(fs, j)
<1> DEFINE T == {d \in Nat : Messages(fs, j + d) = Messages(fs, j)}
<1>1. 0 \in T
    OBVIOUS
<1>2. ASSUME NEW d \in Nat, d \in T PROVE d + 1 \in T
  <2>1. j \in 1 .. ((j + d) + 1) - 1
      OBVIOUS
  <2>2. ~Complete(fs, (j + d) + 1)
      BY <2>1 DEF Final, Complete, Open
  <2>3. Messages(fs, (j + d) + 1) = Messages(fs, j + d) \o <<>>
    <3>1. j + d \in Nat /\ Part(fs, (j + d) + 1) = <<>>
        BY <2>2 DEF Part
    <3> QED
        BY <3>1, MessagesGrow
  <2>4. Messages(fs, j + d) \in Inbox
      BY MessagesGrow
  <2>5. Messages(fs, (j + d) + 1) = Messages(fs, j + d)
      BY <2>3, <2>4, InboxConcat, InboxAssociative, InboxEmpty
  <2>6. (j + d) + 1 = j + (d + 1)
      OBVIOUS
  <2> QED
      BY <1>2, <2>5, <2>6
<1> HIDE DEF T
<1>3. n - j \in T
    BY <1>1, <1>2, SetInduction
<1>4. j + (n - j) = n
    OBVIOUS
<1> QED
    BY <1>3, <1>4 DEF T

(* The message under construction after k frames.                          *)
BuildingAt(type, s, k) ==
    /\ type # NoType <=> InMessage(frames, k + 1)
    /\ type # NoType =>
          /\ type = IF IsText(frames, k) THEN "text" ELSE "binary"
          /\ s = BodyAt(frames, k)

MessageTypes(type, s) ==
    /\ type \in {NoType, "text", "binary"}
    /\ s \in Text /\ Len(s) <= Capacity
    /\ type = NoType => s = <<>>

Outcome(r, k) ==
    /\ r.err = Offence(frames, k + 1)
    /\ MessageTypes(r.rest.type, r.rest.data)
    /\ r.err = NoType =>
          /\ BuildingAt(r.rest.type, r.rest.data, k + 1)
          /\ r.msg = IF frames[k + 1].fin THEN <<MessageAt(frames, k + 1)>> ELSE <<>>

(* What WebSocket::process_frame makes of the next frame is what the frames*)
(* mean.                                                                   *)
LEMMA Processed ==
    ASSUME frames \in Seq(Frames), NEW k \in 0 .. Len(frames) - 1,
           MessageTypes(current, data), BuildingAt(current, data, k),
           ~InvalidFrame(frames[k + 1]), Len(frames[k + 1].data) < Capacity
    PROVE  Outcome(ProcessFrame(frames[k + 1]), k)
<1> DEFINE f == frames[k + 1]
           i == k + 1
<1>1. k \in Nat /\ k + 1 \in 1 .. Len(frames) /\ k + 2 = (k + 1) + 1
    BY LenProperties
<1>2. /\ f.op \in Opcodes /\ f.fin \in BOOLEAN
      /\ f.data \in Text /\ Len(f.data) \in Nat /\ Capacity \in Nat \ {0}
      /\ data \in Text /\ Len(data) \in Nat
  <2>1. f \in Frames
      BY <1>1, ElementOfSeq
  <2> QED
      BY <2>1, FrameFields, LenProperties, WebSocketAssumption DEF MessageTypes, Text
<1>3. /\ f.op \in Control => BodyAt(frames, i) = BodyAt(frames, k)
      /\ f.op \notin Control \cup Starting => BodyAt(frames, i) = BodyAt(frames, k) \o f.data
      /\ f.op \in Starting => BodyAt(frames, i) = f.data
    BY BodyGrows
<1>4. /\ f.op \in Control => (InMessage(frames, i + 1) <=> InMessage(frames, i))
      /\ f.op \notin Control \cup Starting =>
            (InMessage(frames, i + 1) <=> InMessage(frames, i) /\ ~f.fin)
      /\ f.op \in Starting => (InMessage(frames, i + 1) <=> ~f.fin)
      /\ f.op \notin Starting => (IsText(frames, i) <=> IsText(frames, k))
      /\ f.op \in Starting => (IsText(frames, i) <=> f.op = "text")
    BY <1>1, MessageGrows
<1>5. /\ Offence(frames, i) = IF f.op \in Control THEN ControlOffence(f) ELSE DataOffence(frames, i)
      /\ f.op # "unknown"
    BY <1>2 DEF Offence, InvalidFrame
<1>6. /\ current # NoType <=> InMessage(frames, i)
      /\ current # NoType => /\ current = IF IsText(frames, k) THEN "text" ELSE "binary"
                             /\ data = BodyAt(frames, k)
    BY DEF BuildingAt
<1> HIDE DEF f
<1>7. CASE f.op \in {"ping", "pong"}
  <2>1. ProcessFrame(f) = ProcessPing(f)
      BY <1>7 DEF ProcessFrame
  <2>2. f.op \in Control /\ f.op \notin Starting /\ f.op # "close"
      BY <1>7 DEF Control, Starting
  <2>3. Offence(frames, i) = IF ~f.fin THEN "protocol" ELSE NoType
      BY <1>5, <2>2 DEF ControlOffence
  <2>4. MessageAt(frames, i) = [op |-> f.op, data |-> f.data]
      BY <2>2 DEF MessageAt, f
  <2>5. BuildingAt(current, data, i)
      BY <1>3, <1>4, <1>6, <2>2 DEF BuildingAt
  <2>6. Outcome(ProcessPing(f), k)
      BY <2>3, <2>4, <2>5 DEF Outcome, ProcessPing, Deliver, Failure, Keep, NoType, f
  <2> QED
      BY <2>1, <2>6 DEF f
<1>8. CASE f.op = "close"
  <2>1. ProcessFrame(f) = ProcessClose(f)
      BY <1>8 DEF ProcessFrame
  <2>2. f.op \in Control /\ f.op \notin Starting
      BY <1>8 DEF Control, Starting
  <2>3. Offence(frames, i) = IF ~f.fin THEN "protocol"
                             ELSE IF ~ValidText(CloseText(f.data)) THEN "invalid" ELSE NoType
      BY <1>5, <1>8, <2>2 DEF ControlOffence
  <2>4. MessageAt(frames, i) =
            [op |-> "close", data |-> CloseStatus(f.data) \o CloseText(f.data)]
      BY <1>8, <2>2 DEF MessageAt, f
  <2>5. BuildingAt(current, data, i)
      BY <1>3, <1>4, <1>6, <2>2 DEF BuildingAt
  <2>6. Outcome(ProcessClose(f), k)
      BY <2>3, <2>4, <2>5 DEF Outcome, ProcessClose, Deliver, Failure, Keep, NoType, f
  <2> QED
      BY <2>1, <2>6 DEF f
<1>9. CASE f.op = "cont"
  <2>1. ProcessFrame(f) = ProcessContinuation(f)
      BY <1>9 DEF ProcessFrame
  <2>2. f.op \notin Control /\ f.op \notin Starting
      BY <1>9 DEF Control, Starting
  <2>3. CASE current = NoType
    <3>1. Offence(frames, i) = "protocol"
        BY <1>5, <1>6, <1>9, <2>2, <2>3 DEF DataOffence, f, InMessage
    <3>2. Outcome(Failure(Keep, "protocol"), k)
        BY <3>1 DEF Outcome, Failure, Keep, NoType
    <3> QED
        BY <2>1, <2>3, <3>2 DEF ProcessContinuation, f
  <2>4. CASE current # NoType
    <3> DEFINE s == data \o f.data
    <3>1. InMessage(frames, i) /\ BodyAt(frames, i) = s
        BY <1>3, <1>6, <2>2, <2>4
    <3>2. s \in Text /\ Len(s) = Len(data) + Len(f.data)
        BY <1>2, ConcatProperties DEF Text
    <3>3. current = IF IsText(frames, i) THEN "text" ELSE "binary"
        BY <1>4, <1>6, <2>2, <2>4
    <3> HIDE DEF s
    <3>4. Offence(frames, i) = IF Len(s) > Capacity THEN "too_big"
                               ELSE IF f.fin /\ current = "text" /\ ~ValidText(s)
                               THEN "invalid" ELSE NoType
        BY <1>5, <1>9, <2>2, <3>1, <3>3 DEF DataOffence, f, InMessage
    <3>5. MessageAt(frames, i) = [op |-> current, data |-> s]
        BY <2>2, <3>1, <3>3 DEF MessageAt, f
    <3>6. CASE Len(s) > Capacity
      <4>1. Outcome(Failure(Keep, "too_big"), k)
          BY <3>4, <3>6 DEF Outcome, Failure, Keep, NoType
      <4> QED
          BY <2>1, <2>4, <3>2, <3>6, <4>1 DEF ProcessContinuation, f
    <3>7. CASE ~(Len(s) > Capacity) /\ ~f.fin
      <4>1. InMessage(frames, i + 1) /\ Len(s) <= Capacity /\ Offence(frames, i) = NoType
          BY <1>2, <1>4, <2>2, <3>1, <3>2, <3>4, <3>7
      <4>2. BuildingAt(current, s, i) /\ MessageTypes(current, s)
          BY <2>4, <3>1, <3>2, <3>3, <4>1 DEF BuildingAt, MessageTypes
      <4>3. Outcome(Fragment([type |-> current, data |-> s]), k)
          BY <3>7, <4>1, <4>2 DEF Outcome, Fragment, f
      <4> QED
          BY <2>1, <2>4, <3>2, <3>7, <4>3 DEF ProcessContinuation, f, s
    <3>8. CASE ~(Len(s) > Capacity) /\ f.fin
      <4>1. ~InMessage(frames, i + 1)
          BY <1>4, <2>2, <3>8
      <4>2. BuildingAt(NoType, <<>>, i)
          BY <4>1 DEF BuildingAt
      <4>3. MessageTypes(NoType, <<>>)
          BY <1>2 DEF MessageTypes, Text
      <4>4. Outcome(CompleteData(Idle, current, s), k)
          BY <3>4, <3>5, <3>8, <4>2, <4>3
          DEF Outcome, CompleteData, Deliver, Failure, Idle, NoType, f
      <4> QED
          BY <2>1, <2>4, <3>2, <3>8, <4>4 DEF ProcessContinuation, f, s
    <3> QED
        BY <1>2, <3>6, <3>7, <3>8
  <2> QED
      BY <2>3, <2>4
<1>10. CASE f.op \in Starting
  <2>1. ProcessFrame(f) = ProcessData(f)
      BY <1>10 DEF ProcessFrame, Starting
  <2>2. f.op \notin Control /\ f.op # "cont" /\ f.op # NoType /\ f.op \in {"text", "binary"}
      BY <1>10 DEF Control, Starting, NoType
  <2>3. CASE current # NoType
    <3>1. Offence(frames, i) = "protocol"
        BY <1>5, <1>6, <2>2, <2>3 DEF DataOffence, f, InMessage
    <3>2. Outcome(Failure(Keep, "protocol"), k)
        BY <3>1 DEF Outcome, Failure, Keep, NoType
    <3> QED
        BY <2>1, <2>3, <3>2 DEF ProcessData, f
  <2>4. CASE current = NoType
    <3>1. /\ ~InMessage(frames, i) /\ BodyAt(frames, i) = f.data
          /\ ~(Len(f.data) > Capacity) /\ Len(f.data) <= Capacity
          /\ f.op = IF IsText(frames, i) THEN "text" ELSE "binary"
        BY <1>2, <1>3, <1>4, <1>6, <1>10, <2>2, <2>4 DEF f
    <3>2. Offence(frames, i) = IF f.fin /\ f.op = "text" /\ ~ValidText(f.data)
                               THEN "invalid" ELSE NoType
        BY <1>5, <2>2, <3>1 DEF DataOffence, f, InMessage
    <3>3. MessageAt(frames, i) = [op |-> f.op, data |-> f.data]
        BY <2>2, <3>1 DEF MessageAt, f
    <3>4. CASE f.fin
      <4>1. BuildingAt(current, data, i)
          BY <1>4, <1>10, <2>4, <3>4 DEF BuildingAt
      <4>2. Outcome(CompleteData(Keep, f.op, f.data), k)
          BY <3>2, <3>3, <3>4, <4>1
          DEF Outcome, CompleteData, Deliver, Failure, Keep, NoType, f
      <4> QED
          BY <2>1, <2>4, <3>4, <4>2 DEF ProcessData, f
    <3>5. CASE ~f.fin
      <4>1. InMessage(frames, i + 1) /\ Offence(frames, i) = NoType
          BY <1>4, <1>10, <3>2, <3>5
      <4>2. BuildingAt(f.op, f.data, i) /\ MessageTypes(f.op, f.data)
          BY <1>2, <2>2, <3>1, <4>1 DEF BuildingAt, MessageTypes
      <4>3. Outcome(Fragment([type |-> f.op, data |-> f.data]), k)
          BY <3>5, <4>1, <4>2 DEF Outcome, Fragment, f
      <4> QED
          BY <2>1, <2>4, <3>5, <4>3 DEF ProcessData, f
    <3> QED
        BY <3>4, <3>5
  <2> QED
      BY <2>3, <2>4
<1> QED
    BY <1>2, <1>5, <1>7, <1>8, <1>9, <1>10 DEF Opcodes, Starting


(***************************************************************************)
(* What the input buffer and the connection hold after k frames is the     *)
(* units of the frames that follow, unless the stream has been cut off.    *)
(***************************************************************************)
InputAt(fs, k, s, e) ==
    /\ IsPrefix(s, Units(fs, k))
    /\ e \in {"no", "fin"} => s = Units(fs, k)

LEMMA InputRest ==
    ASSUME NEW fs \in Seq(Frames), NEW k \in 0 .. Len(fs), NEW s \in Stream, NEW e,
           InputAt(fs, k, s, e)
    PROVE  \E rest \in Stream :
              s \o rest = Units(fs, k) /\ (e \in {"no", "fin"} => rest = <<>>)
<1>1. CASE e \in {"no", "fin"}
  <2>1. <<>> \in Stream /\ s \o <<>> = s
      BY StreamEmpty
  <2>3. s = Units(fs, k)
      BY <1>1 DEF InputAt
  <2> QED
      BY <2>1, <2>3
<1>2. CASE e \notin {"no", "fin"}
  <2>1. Units(fs, k) \in Seq(StreamUnit) /\ s \in Seq(StreamUnit)
      BY UnitsStream DEF Stream
  <2>3. IsPrefix(s, Units(fs, k))
      BY DEF InputAt
  <2>4. \E rest \in Seq(StreamUnit) : s \o rest = Units(fs, k)
      BY <2>1, <2>3, PrefixRest
  <2>2. \E rest \in Stream : s \o rest = Units(fs, k)
      BY <2>4 DEF Stream
  <2> QED
      BY <1>2, <2>2
<1> QED
    BY <1>1, <1>2

LEMMA RestInput ==
    ASSUME NEW fs, NEW k, NEW s \in Stream, NEW e, NEW rest \in Stream,
           s \o rest = Units(fs, k), e \in {"no", "fin"} => rest = <<>>
    PROVE  InputAt(fs, k, s, e)
<1>1. IsPrefix(s, s \o rest)
    BY PrefixOfConcat DEF Stream
<1>2. s \o <<>> = s
    BY StreamEmpty
<1> QED
    BY <1>1, <1>2 DEF InputAt

(* The peer sends a frame.                                                 *)
LEMMA InputGrows ==
    ASSUME NEW fs \in Seq(Frames), NEW k \in 0 .. Len(fs), NEW f \in Frames,
           NEW a \in Stream, NEW b \in Stream, InputAt(fs, k, a \o b, "no")
    PROVE  InputAt(Append(fs, f), k, a \o (b \o UnitsOf(f)), "no")
<1>1. a \o b = Units(fs, k)
    BY DEF InputAt
<1>2. UnitsOf(f) \in Stream
    BY UnitsType
<1>3. /\ (a \o b) \o UnitsOf(f) = a \o (b \o UnitsOf(f))
      /\ a \o (b \o UnitsOf(f)) \in Stream /\ <<>> \in Stream
      /\ (a \o (b \o UnitsOf(f))) \o <<>> = a \o (b \o UnitsOf(f))
  <2>1. (a \o b) \o UnitsOf(f) = a \o (b \o UnitsOf(f))
      BY ZenonT(30), <1>2, StreamAssociative
  <2>2. b \o UnitsOf(f) \in Stream
      BY <1>2, StreamConcat
  <2>3. a \o (b \o UnitsOf(f)) \in Stream
      BY <2>2, StreamConcat
  <2> QED
      BY <2>1, <2>3, StreamEmpty
<1>4. Units(Append(fs, f), k) = a \o (b \o UnitsOf(f))
    BY <1>1, <1>3, UnitsGrow
<1> QED
    BY <1>3, <1>4, RestInput

(* The end of what is on the way is lost, or nothing of it.                *)
LEMMA InputCut ==
    ASSUME NEW fs \in Seq(Frames), NEW k \in 0 .. Len(fs), NEW e, NEW g,
           NEW a \in Stream, NEW b \in Stream, NEW m \in 0 .. Len(b),
           InputAt(fs, k, a \o b, e),
           g \in {"no", "fin"} => e \in {"no", "fin"} /\ m = Len(b)
    PROVE  /\ SubSeq(b, 1, m) \in Stream
           /\ InputAt(fs, k, a \o SubSeq(b, 1, m), g)
<1> DEFINE c == SubSeq(b, 1, m)
           d == SubSeq(b, m + 1, Len(b))
<1>1. /\ c \in Stream /\ d \in Stream /\ c \o d = b
      /\ m = Len(b) => d = <<>>
  <2>1. c \in Stream /\ d \in Stream /\ c \o d = b
      BY TakeType, DropType, TakeDrop DEF Stream
  <2>2. m = Len(b) => d = <<>>
      BY SubSeqEmpty, LenProperties DEF Stream
  <2> QED
      BY <2>1, <2>2
<1> HIDE DEF c, d
<1>2. a \o b \in Stream
    BY StreamConcat
<1>3. PICK rest \in Stream :
         (a \o b) \o rest = Units(fs, k) /\ (e \in {"no", "fin"} => rest = <<>>)
    BY <1>2, InputRest
<1>4. /\ a \o c \in Stream /\ d \o rest \in Stream
      /\ (a \o c) \o (d \o rest) = ((a \o c) \o d) \o rest
      /\ (a \o c) \o d = a \o (c \o d)
  <2>1. a \o c \in Stream /\ d \o rest \in Stream
      BY <1>1, StreamConcat
  <2>2. (a \o c) \o (d \o rest) = ((a \o c) \o d) \o rest
    <3> DEFINE ac == a \o c
    <3>1. ac \in Stream /\ d \in Stream
        BY <1>1, <2>1
    <3> HIDE DEF ac
    <3>2. (ac \o d) \o rest = ac \o (d \o rest)
        BY ZenonT(30), <3>1, StreamAssociative
    <3> QED
        BY <3>2 DEF ac
  <2>3. (a \o c) \o d = a \o (c \o d)
    <3>1. c \in Stream /\ d \in Stream
        BY <1>1
    <3> QED
        BY ZenonT(30), <3>1, StreamAssociative
  <2> QED
      BY <2>1, <2>2, <2>3
<1>5. (a \o c) \o (d \o rest) = Units(fs, k)
    BY <1>1, <1>3, <1>4
<1>6. <<>> \o <<>> = <<>>
    BY ConcatEmptySeq
<1>7. g \in {"no", "fin"} => d \o rest = <<>>
    BY <1>1, <1>3, <1>6
<1>8. InputAt(fs, k, a \o c, g)
    BY <1>4, <1>5, <1>7, RestInput
<1> QED
    BY <1>1, <1>8 DEF c

(* A buffer that is not empty begins with the header of the next frame;    *)
(* when it holds more units than the payload has, all of the frame is in it*)
LEMMA InputNext ==
    ASSUME NEW fs \in Seq(Frames), NEW k \in 0 .. Len(fs), NEW e,
           NEW a \in Stream, NEW b \in Stream, a # <<>>, InputAt(fs, k, a \o b, e)
    PROVE  /\ k < Len(fs) /\ a[1] = Header(fs[k + 1])
           /\ Len(a) > Len(fs[k + 1].data) =>
                 LET m == Len(fs[k + 1].data) + 2 IN
                 /\ SubSeq(a, m, Len(a)) \in Stream
                 /\ Len(SubSeq(a, m, Len(a))) <= Len(a)
                 /\ InputAt(fs, k + 1, SubSeq(a, m, Len(a)) \o b, e)
<1>1. a \o b \in Stream
    BY StreamConcat
<1>2. PICK rest \in Stream :
         (a \o b) \o rest = Units(fs, k) /\ (e \in {"no", "fin"} => rest = <<>>)
    BY <1>1, InputRest
<1> DEFINE x == b \o rest
<1>3. x \in Stream /\ a \o x = Units(fs, k)
  <2>1. b \o rest \in Stream
      BY StreamConcat
  <2>2. (a \o b) \o rest = a \o (b \o rest)
      BY ZenonT(30), StreamAssociative
  <2> QED
      BY <1>2, <2>1, <2>2
<1>4. Len(a) \in Nat \ {0} /\ Len(x) \in Nat
    BY <1>3, EmptySeq, LenProperties DEF Stream
<1> HIDE DEF x
<1>5. /\ Len(a \o x) = Len(a) + Len(x)
      /\ (a \o x)[1] = a[1]
  <2>1. /\ Len(a \o x) = Len(a) + Len(x)
        /\ \A i \in 1 .. Len(a) + Len(x) :
              (a \o x)[i] = IF i <= Len(a) THEN a[i] ELSE x[i - Len(a)]
      BY <1>3, ConcatProperties DEF Stream
  <2>2. 1 \in 1 .. Len(a) + Len(x) /\ 1 <= Len(a)
      BY <1>4
  <2> QED
      BY <2>1, <2>2
<1>6. k < Len(fs) /\ k \in 0 .. Len(fs) - 1 /\ k + 1 \in 0 .. Len(fs) /\ k + 1 \in 1 .. Len(fs)
  <2>1. k # Len(fs)
    <3> SUFFICES ASSUME k = Len(fs) PROVE FALSE
        OBVIOUS
    <3>1. a \o x = <<>>
        BY <1>3, UnitsNone
    <3>2. Len(a \o x) = 0
        BY <3>1
    <3> QED
        BY <1>4, <1>5, <3>2
  <2>2. Len(fs) \in Nat
      BY LenProperties
  <2> QED
      BY <2>1, <2>2
<1> DEFINE f == fs[k + 1]
           u == UnitsOf(f)
           y == Units(fs, k + 1)
<1>7. f \in Frames
    BY <1>6, ElementOfSeq
<1>8. /\ u \in Stream /\ Len(u) = Len(f.data) + 1 /\ u[1] = Header(f)
      /\ Len(f.data) \in Nat
    BY <1>7, UnitsType, FrameFields
<1>9. y \in Stream
    BY <1>6, UnitsStream
<1>10. a \o x = u \o y
    BY <1>3, <1>6, UnitsHead
<1> HIDE DEF f, u, y
<1>11. (u \o y)[1] = u[1]
  <2>1. \A i \in 1 .. Len(u) + Len(y) :
            (u \o y)[i] = IF i <= Len(u) THEN u[i] ELSE y[i - Len(u)]
      BY <1>8, <1>9, ConcatProperties DEF Stream
  <2>2. 1 \in 1 .. Len(u) + Len(y) /\ 1 <= Len(u)
      BY <1>8, <1>9, LenProperties DEF Stream
  <2> QED
      BY <2>1, <2>2
<1>12. a[1] = Header(f)
    BY <1>5, <1>8, <1>10, <1>11
<1>13. ASSUME Len(a) > Len(f.data)
       PROVE  /\ SubSeq(a, Len(f.data) + 2, Len(a)) \in Stream
              /\ Len(SubSeq(a, Len(f.data) + 2, Len(a))) <= Len(a)
              /\ InputAt(fs, k + 1, SubSeq(a, Len(f.data) + 2, Len(a)) \o b, e)
  <2>1. Len(u) <= Len(a) /\ Len(u) + 1 = Len(f.data) + 2 /\ Len(u) \in 0 .. Len(a)
      BY <1>4, <1>8, <1>13
  <2> DEFINE v == SubSeq(a, Len(u) + 1, Len(a))
  <2>2. v \o x = y
      BY <1>3, <1>8, <1>9, <1>10, <2>1, CutFront DEF Stream
  <2>3. v \in Stream /\ Len(v) = Len(a) - Len(u)
      BY <2>1, DropType DEF Stream
  <2> HIDE DEF v
  <2>4. (v \o b) \o rest = y /\ v \o b \in Stream
      BY <2>2, <2>3, StreamConcat, StreamAssociative, StreamEmpty DEF x
  <2>5. InputAt(fs, k + 1, v \o b, e)
      BY <1>2, <2>4, RestInput DEF y
  <2>6. Len(v) <= Len(a)
    <3>1. Len(u) \in Nat /\ Len(a) \in Nat
        BY <1>4, <1>8
    <3> QED
        BY <2>3, <3>1
  <2> QED
      BY <2>1, <2>3, <2>5, <2>6 DEF v
<1> QED
    BY <1>6, <1>12, <1>13 DEF f

(* Everything has been taken.                                              *)
LEMMA InputUsed ==
    ASSUME NEW fs \in Seq(Frames), NEW k \in 0 .. Len(fs), NEW e,
           InputAt(fs, k, <<>>, e), e \in {"no", "fin"}
    PROVE  k = Len(fs)
<1> SUFFICES ASSUME k # Len(fs) PROVE FALSE
    OBVIOUS
<1>1. k \in 0 .. Len(fs) - 1 /\ k + 1 \in 0 .. Len(fs) /\ k + 1 \in 1 .. Len(fs)
    BY LenProperties
<1>2. fs[k + 1] \in Frames
    BY <1>1, ElementOfSeq
<1> DEFINE u == UnitsOf(fs[k + 1])
           y == Units(fs, k + 1)
<1>3. u \in Seq(StreamUnit) /\ Len(u) \in Nat \ {0}
  <2>1. u \in Stream /\ Len(u) = Len(fs[k + 1].data) + 1
      BY <1>2, UnitsType
  <2>2. Len(fs[k + 1].data) \in Nat
      BY <1>2, FrameFields
  <2> HIDE DEF u
  <2>3. u \in Seq(StreamUnit)
      BY <2>1 DEF Stream
  <2> QED
      BY <2>1, <2>2, <2>3
<1>4. y \in Seq(StreamUnit)
    BY <1>1, UnitsStream DEF Stream
<1>5. <<>> = u \o y
    BY <1>1, UnitsHead DEF InputAt
<1> HIDE DEF u, y
<1>6. Len(u \o y) = Len(u) + Len(y) /\ Len(y) \in Nat
    BY <1>3, <1>4, ConcatProperties, LenProperties
<1>7. Len(u \o y) = 0
    BY <1>5
<1> QED
    BY <1>3, <1>6, <1>7

(* After k frames: the input is the frames that follow, unless it has been *)
(* cut off, no frame has ended the reading, and the message under          *)
(* construction is the one those frames began.                             *)
ReadingAt(k) ==
    /\ InputAt(frames, k, inbuf \o inp, ended)
    /\ Open(frames, k)
    /\ received = Messages(frames, k)
    /\ BuildingAt(current, data, k)

ReadingOver ==
    \E j \in 1 .. Len(frames) :
        /\ Final(frames, j)
        /\ received = Messages(frames, j)
        /\ task # "none" => Offence(frames, j) = status

ReaderTypes ==
    /\ frames \in Seq(Frames) /\ Len(frames) <= MaxFrames
    /\ ended \in {"no", "fin", "cut", "reset"}
    /\ inp \in Stream /\ inbuf \in Stream /\ Len(inbuf) <= Capacity
    /\ MessageTypes(current, data)

AgentTypes ==
    /\ closed \in BOOLEAN /\ shut \in BOOLEAN
    /\ last \in {"none", "end", "unexpected_eof", "io", "invalid_data"}
    /\ \/ inner \in {"user", "dropped"} /\ task = "none"
       \/ inner = "task" /\ task \in {"flushing", "sending"}
       \/ inner = "dropped" /\ task = "done"
    /\ status \in {NoType} \cup Statuses
    /\ status = NoType <=> task = "none"

ReaderInv ==
    /\ ReaderTypes
    /\ AgentTypes
    /\ \/ task = "none" /\ \E k \in 0 .. Len(frames) : ReadingAt(k)
       \/ (closed \/ inner # "user") /\ ReadingOver

(* A message that ends the socket is the last one, and the task only begins*)
(* its own when the user has not sent one.                                 *)
CloseInv ==
    /\ accepted \in Seq(Kind)
    /\ \A i \in 1 .. Len(accepted) : accepted[i] # "data" =>
          i = Len(accepted) /\ (closed \/ task \in {"sending", "done"})
    /\ Len(accepted) <= MaxSends + 1
    /\ task \notin {"sending", "done"} => Len(accepted) <= MaxSends
    /\ task = "flushing" => ~closed
    /\ inner = "user" => task = "none"

LEMMA OffenceType ==
    ASSUME NEW fs, NEW i PROVE Offence(fs, i) \in {NoType} \cup Statuses
BY DEF Offence, ControlOffence, DataOffence, NoType, Statuses

(* The next frame, when reading has not ended before it.                   *)
LEMMA NextMeaning ==
    ASSUME NEW fs \in Seq(Frames), NEW k \in Nat, Open(fs, k)
    PROVE  /\ Ending(fs, k + 1) => Final(fs, k + 1)
           /\ ~Ending(fs, k + 1) => Open(fs, k + 1)
           /\ Offence(fs, k + 1) # NoType => Messages(fs, k + 1) = Messages(fs, k)
           /\ Offence(fs, k + 1) = NoType =>
                 Messages(fs, k + 1) = Messages(fs, k) \o
                    (IF fs[k + 1].fin THEN <<MessageAt(fs, k + 1)>> ELSE <<>>)
<1>1. (k + 1) - 1 = k /\ \A j \in 1 .. k + 1 : j \in 1 .. k \/ j = k + 1
    OBVIOUS
<1>2. Complete(fs, k + 1) <=> Offence(fs, k + 1) = NoType /\ fs[k + 1].fin
    BY <1>1 DEF Complete
<1>3. /\ Messages(fs, k) \in Inbox
      /\ Messages(fs, k + 1) = Messages(fs, k) \o Part(fs, k + 1)
    BY MessagesGrow
<1>4. Offence(fs, k + 1) # NoType => Messages(fs, k + 1) = Messages(fs, k)
  <2>1. Messages(fs, k) \o <<>> = Messages(fs, k)
      BY <1>3, InboxConcat, InboxAssociative, InboxEmpty
  <2> QED
      BY <1>2, <1>3, <2>1 DEF Part
<1>5. Offence(fs, k + 1) = NoType =>
         Messages(fs, k + 1) = Messages(fs, k) \o
            (IF fs[k + 1].fin THEN <<MessageAt(fs, k + 1)>> ELSE <<>>)
    BY <1>2, <1>3 DEF Part
<1>6. (Ending(fs, k + 1) => Final(fs, k + 1)) /\ (~Ending(fs, k + 1) => Open(fs, k + 1))
    BY <1>1 DEF Final, Open
<1> QED
    BY <1>4, <1>5, <1>6

LEMMA ReaderInit == Init => ReaderInv
<1> SUFFICES ASSUME Init PROVE ReaderInv
    OBVIOUS
<1>1. AgentTypes
    BY DEF Init, AgentTypes, NoType, Statuses
<1>2. ReaderTypes
    BY WebSocketAssumption
    DEF Init, ReaderTypes, MessageTypes, Stream, Text, NoType
<1>3. frames = <<>> /\ inbuf = <<>> /\ inp = <<>> /\ ended = "no" /\ received = <<>>
      /\ current = NoType /\ data = <<>> /\ task = "none"
    BY DEF Init
<1>4. Len(frames) = 0 /\ frames \in Seq(Frames) /\ 0 \in 0 .. Len(frames)
    BY <1>3
<1>5. Units(frames, 0) = <<>>
    BY <1>4, UnitsNone
<1>6. InputAt(frames, 0, inbuf \o inp, ended)
  <2>1. <<>> \in Stream /\ <<>> \o <<>> = <<>>
      BY ConcatEmptySeq DEF Stream
  <2> QED
      BY <1>3, <1>5, <2>1, RestInput
<1>7. Messages(frames, 0) = <<>>
  <2>1. [i \in 1 .. 0 |-> IF Complete(frames, i) THEN <<MessageAt(frames, i)>> ELSE <<>>] = <<>>
      OBVIOUS
  <2> QED
      BY <2>1, FlattenEmpty DEF Messages
<1>8. Open(frames, 0) /\ ~InMessage(frames, 0 + 1)
    BY DEF Open, InMessage
<1>9. ReadingAt(0)
    BY <1>3, <1>6, <1>7, <1>8 DEF ReadingAt, BuildingAt
<1> QED
    BY <1>1, <1>2, <1>3, <1>4, <1>9 DEF ReaderInv

(* A step of the writing side, of the user or of the task.                 *)
LEMMA ReaderFrame ==
    ASSUME ReaderInv, AgentTypes',
           UNCHANGED <<frames, inp, ended, inbuf, current, data, received, status>>,
           task = "none" => task' = "none",
           task # "none" => task' # "none",
           closed \/ inner # "user" => closed' \/ inner' # "user"
    PROVE  ReaderInv'
<1>1. ReaderTypes'
    BY DEF ReaderInv, ReaderTypes, MessageTypes
<1>2. ASSUME NEW k \in 0 .. Len(frames), ReadingAt(k) PROVE ReadingAt(k)'
    BY <1>2 DEF ReadingAt, BuildingAt
<1>3. ASSUME ReadingOver PROVE ReadingOver'
    BY <1>3 DEF ReadingOver
<1> QED
    BY <1>1, <1>2, <1>3 DEF ReaderInv

(* Reading ends at frame j, in a failure or with a Close frame.            *)
LEMMA ReaderEnds ==
    ASSUME ReaderTypes', AgentTypes', frames' = frames,
           NEW j \in 1 .. Len(frames), Final(frames, j),
           received' = Messages(frames, j),
           closed' \/ inner' # "user",
           task' # "none" => Offence(frames, j) = status'
    PROVE  ReaderInv'
BY DEF ReaderInv, ReadingOver

LEMMA ReaderPeerSends ==
    ASSUME ReaderInv, NEW f \in Frames, PeerSends(f) PROVE ReaderInv'
<1> DEFINE n == Len(frames)
           fs == Append(frames, f)
<1>1. /\ ended = "no" /\ ended' = "no" /\ n < MaxFrames /\ frames' = fs
      /\ inp' = inp \o UnitsOf(f)
      /\ UNCHANGED <<inbuf, current, data, received, closed, inner, task, status, shut, last>>
    BY DEF PeerSends, reader, writer
<1>2. frames \in Seq(Frames) /\ n \in Nat /\ inp \in Stream /\ inbuf \in Stream
    BY LenProperties DEF ReaderInv, ReaderTypes
<1>3. /\ fs \in Seq(Frames) /\ Len(fs) = n + 1
      /\ Agree(frames, fs, n)
    BY <1>2, AppendProperties DEF Agree
<1>4. inp \o UnitsOf(f) \in Stream
    BY <1>2, UnitsType, StreamConcat, StreamAssociative, StreamEmpty
<1>5. ReaderTypes'
    BY <1>1, <1>2, <1>3, <1>4, WebSocketAssumption DEF ReaderInv, ReaderTypes, MessageTypes
<1>6. AgentTypes'
    BY <1>1 DEF ReaderInv, AgentTypes
<1> HIDE DEF fs
<1>7. ASSUME NEW k \in 0 .. n, ReadingAt(k) PROVE ReadingAt(k)'
  <2>1. InputAt(frames, k, inbuf \o inp, "no")
      BY <1>1, <1>7 DEF ReadingAt
  <2>2. InputAt(fs, k, inbuf \o (inp \o UnitsOf(f)), "no")
      BY <1>2, <2>1, InputGrows DEF fs
  <2>3. Open(fs, k) /\ Messages(fs, k) = Messages(frames, k)
      BY <1>2, <1>3, <1>7, AgreeMeaning DEF ReadingAt
  <2>4. /\ InMessage(fs, k + 1) = InMessage(frames, k + 1)
        /\ IsText(fs, k) <=> IsText(frames, k)
        /\ BodyAt(fs, k) = BodyAt(frames, k)
      BY <1>2, <1>3, AgreeParts
  <2>5. BuildingAt(current, data, k)'
      BY <1>1, <1>7, <2>4 DEF ReadingAt, BuildingAt
  <2> QED
      BY <1>1, <1>7, <2>2, <2>3, <2>5 DEF ReadingAt
<1>8. ASSUME ReadingOver PROVE ReadingOver'
  <2>1. PICK j \in 1 .. n :
           /\ Final(frames, j) /\ received = Messages(frames, j)
           /\ task # "none" => Offence(frames, j) = status
      BY <1>8 DEF ReadingOver
  <2>2. j \in 1 .. Len(fs) /\ j \in 0 .. n
      BY <1>2, <1>3
  <2>3. /\ Final(fs, j) /\ Messages(fs, j) = Messages(frames, j)
        /\ Offence(fs, j) = Offence(frames, j)
      BY <1>2, <1>3, <2>1, <2>2, AgreeMeaning
  <2> QED
      BY <1>1, <2>1, <2>2, <2>3 DEF ReadingOver
<1>9. \A k \in 0 .. n : k \in 0 .. Len(fs)
    BY <1>2, <1>3
<1> QED
    BY <1>1, <1>5, <1>6, <1>7, <1>8, <1>9 DEF ReaderInv

(* The end of what is on the way is lost: the peer ends or resets.         *)
LEMMA ReaderLosesInput ==
    ASSUME ReaderInv, NEW m \in 0 .. Len(inp), inp' = SubSeq(inp, 1, m),
           ended' \in {"fin", "cut", "reset"},
           ended' = "fin" => ended = "no" /\ m = Len(inp),
           UNCHANGED <<frames, reader, closed, inner, task, status, writer>>
    PROVE  ReaderInv'
<1>1. frames \in Seq(Frames) /\ inp \in Stream /\ inbuf \in Stream
    BY DEF ReaderInv, ReaderTypes
<1>2. AgentTypes'
    BY DEF ReaderInv, AgentTypes, reader, writer
<1>3. SubSeq(inp, 1, m) \in Stream
    BY <1>1, TakeType DEF Stream
<1>4. ReaderTypes'
    BY <1>3 DEF ReaderInv, ReaderTypes, MessageTypes, reader
<1>5. ASSUME NEW k \in 0 .. Len(frames), ReadingAt(k) PROVE ReadingAt(k)'
  <2>1. InputAt(frames, k, inbuf \o inp, ended)
      BY <1>5 DEF ReadingAt
  <2>2. InputAt(frames, k, inbuf \o SubSeq(inp, 1, m), ended')
      BY <1>1, <2>1, InputCut
  <2> QED
      BY <1>5, <2>2 DEF ReadingAt, BuildingAt, reader
<1>6. ASSUME ReadingOver PROVE ReadingOver'
    BY <1>6 DEF ReadingOver, reader
<1> QED
    BY <1>2, <1>4, <1>5, <1>6 DEF ReaderInv

(* Turns of the reading side while it goes on.                             *)
LEMMA ReaderReading ==
    ASSUME ReaderInv, Polling
    PROVE  /\ inner = "user" /\ ~closed /\ task = "none" /\ status = NoType
           /\ \E k \in 0 .. Len(frames) : ReadingAt(k)
BY DEF ReaderInv, AgentTypes, Polling

LEMMA ReaderReadsInput ==
    ASSUME ReaderInv, NEW n, ReadInput(n) PROVE ReaderInv'
<1>1. /\ n \in 1 .. Len(inp) /\ Len(inbuf) + n <= Capacity /\ Polling
      /\ inbuf' = inbuf \o SubSeq(inp, 1, n)
      /\ inp' = SubSeq(inp, n + 1, Len(inp))
      /\ UNCHANGED <<frames, ended, current, data, received, last, closed, inner, task, status, shut>>
    BY DEF ReadInput, writer
<1>2. frames \in Seq(Frames) /\ inp \in Stream /\ inbuf \in Stream /\ n \in 0 .. Len(inp)
      /\ Len(inbuf) \in Nat
    BY <1>1, LenProperties DEF ReaderInv, ReaderTypes, Stream
<1> DEFINE a == SubSeq(inp, 1, n)
           b == SubSeq(inp, n + 1, Len(inp))
<1>3. a \in Stream /\ Len(a) = n /\ b \in Stream /\ a \o b = inp
    BY <1>2, TakeType, DropType, TakeDrop DEF Stream
<1> HIDE DEF a, b
<1>4. inbuf \o a \in Stream /\ (inbuf \o a) \o b = inbuf \o inp
  <2>1. (inbuf \o a) \o b = inbuf \o (a \o b)
      BY ZenonT(30), <1>2, <1>3, StreamAssociative
  <2>2. inbuf \o a \in Stream
      BY <1>2, <1>3, StreamConcat
  <2> QED
      BY <1>3, <2>1, <2>2
<1>5. Len(inbuf \o a) = Len(inbuf) + n
    BY <1>2, <1>3, ConcatProperties DEF Stream
<1>6. inbuf' = inbuf \o a /\ inp' = b
    BY <1>1 DEF a, b
<1>7. ReaderTypes'
    BY <1>1, <1>3, <1>4, <1>5, <1>6 DEF ReaderInv, ReaderTypes, MessageTypes
<1>8. AgentTypes'
    BY <1>1 DEF ReaderInv, AgentTypes
<1>9. PICK k \in 0 .. Len(frames) : ReadingAt(k)
    BY <1>1, ReaderReading
<1>10. ReadingAt(k)'
    BY <1>1, <1>4, <1>6, <1>9 DEF ReadingAt, BuildingAt
<1>11. task' = "none"
    BY <1>1, ReaderReading
<1> QED
    BY <1>1, <1>7, <1>8, <1>10, <1>11 DEF ReaderInv

(* The next frame is at the front of the input buffer.                     *)
LEMMA ReaderNext ==
    ASSUME ReaderTypes, NEW k \in 0 .. Len(frames), ReadingAt(k), inbuf # <<>>
    PROVE  /\ k \in 0 .. Len(frames) - 1 /\ k + 1 \in 1 .. Len(frames) /\ k \in Nat
           /\ frames[k + 1] \in Frames
           /\ NextFrame = frames[k + 1]
           /\ Len(inbuf) > Len(NextFrame.data) =>
                 LET rest == SubSeq(inbuf, Len(NextFrame.data) + 2, Len(inbuf)) IN
                 /\ rest \in Stream /\ Len(rest) <= Len(inbuf)
                 /\ InputAt(frames, k + 1, rest \o inp, ended)
<1>1. frames \in Seq(Frames) /\ inp \in Stream /\ inbuf \in Stream
    BY DEF ReaderTypes
<1>2. InputAt(frames, k, inbuf \o inp, ended)
    BY DEF ReadingAt
<1>3. /\ k < Len(frames) /\ inbuf[1] = Header(frames[k + 1])
      /\ Len(inbuf) > Len(frames[k + 1].data) =>
            LET m == Len(frames[k + 1].data) + 2 IN
            /\ SubSeq(inbuf, m, Len(inbuf)) \in Stream
            /\ Len(SubSeq(inbuf, m, Len(inbuf))) <= Len(inbuf)
            /\ InputAt(frames, k + 1, SubSeq(inbuf, m, Len(inbuf)) \o inp, ended)
    BY <1>1, <1>2, InputNext
<1>4. k \in 0 .. Len(frames) - 1 /\ k + 1 \in 1 .. Len(frames) /\ k \in Nat
    BY <1>1, <1>3, LenProperties
<1>5. frames[k + 1] \in Frames
    BY <1>1, <1>4, ElementOfSeq
<1>6. NextFrame = frames[k + 1]
    BY <1>3 DEF NextFrame, Header
<1> QED
    BY <1>3, <1>4, <1>5, <1>6

(* A frame is refused before it is taken.                                  *)
LEMMA ReaderRefuses ==
    ASSUME ReaderInv, Polling, NEW k \in 0 .. Len(frames), ReadingAt(k), inbuf # <<>>,
           NEW err, err # NoType, err = Offence(frames, k + 1), Fail(err),
           UNCHANGED <<inbuf, current, data>>
    PROVE  ReaderInv'
<1>1. /\ last' = "invalid_data" /\ inner' = "task" /\ task' = "flushing" /\ status' = err
      /\ UNCHANGED <<frames, inp, ended, received, closed, shut>>
    BY DEF Fail, peer, writer
<1>2. ReaderTypes /\ AgentTypes
    BY DEF ReaderInv
<1>3. frames \in Seq(Frames) /\ Open(frames, k) /\ received = Messages(frames, k)
    BY <1>2 DEF ReaderTypes, ReadingAt
<1>4. k \in Nat /\ k + 1 \in 1 .. Len(frames)
    BY <1>2, ReaderNext
<1>5. Final(frames, k + 1) /\ Messages(frames, k + 1) = received
    BY <1>3, <1>4, NextMeaning DEF Ending
<1>6. err \in Statuses
    BY OffenceType
<1>7. AgentTypes'
    BY <1>1, <1>2, <1>6 DEF AgentTypes, Statuses, NoType
<1>8. ReaderTypes'
    BY <1>1, <1>2 DEF ReaderTypes, MessageTypes
<1> QED
    BY <1>1, <1>4, <1>5, <1>7, <1>8, ReaderEnds

LEMMA ReaderTakesFrame ==
    ASSUME ReaderInv, TakeFrame PROVE ReaderInv'
<1>1. Polling /\ FrameReady /\ inbuf # <<>>
    BY DEF TakeFrame, FrameReady
<1>2. PICK k \in 0 .. Len(frames) : ReadingAt(k)
    BY <1>1, ReaderReading
<1>3. ReaderTypes /\ AgentTypes /\ inner = "user" /\ task = "none" /\ status = NoType
    BY <1>1, ReaderReading DEF ReaderInv
<1> DEFINE f == frames[k + 1]
           r == ProcessFrame(f)
           i == k + 1
<1>4. /\ k \in 0 .. Len(frames) - 1 /\ i \in 1 .. Len(frames) /\ k \in Nat
      /\ f \in Frames /\ NextFrame = f
    BY <1>1, <1>2, <1>3, ReaderNext
<1>5. /\ ~InvalidFrame(f) /\ Len(inbuf) > Len(f.data)
      /\ Len(f.data) \in Nat /\ Len(inbuf) \in Nat /\ Len(inbuf) <= Capacity
      /\ Capacity \in Nat
    BY <1>1, <1>3, <1>4, FrameFields, LenProperties, WebSocketAssumption
    DEF FrameReady, ReaderTypes, Stream
<1>6. Len(f.data) < Capacity
    BY <1>5
<1>7. /\ inbuf' = SubSeq(inbuf, Len(f.data) + 2, Len(inbuf))
      /\ current' = r.rest.type /\ data' = r.rest.data
      /\ IF r.err # NoType THEN Fail(r.err)
         ELSE /\ received' = received \o r.msg
              /\ closed' = (f.op = "close")
              /\ UNCHANGED <<peer, last, inner, task, status, writer>>
    BY <1>4 DEF TakeFrame
<1>8. /\ inbuf' \in Stream /\ Len(inbuf') <= Len(inbuf)
      /\ InputAt(frames, i, inbuf' \o inp, ended)
    BY <1>1, <1>2, <1>3, <1>4, <1>5, <1>7, ReaderNext
<1>9. /\ frames \in Seq(Frames) /\ Open(frames, k) /\ received = Messages(frames, k)
      /\ MessageTypes(current, data) /\ BuildingAt(current, data, k)
    BY <1>2, <1>3 DEF ReaderTypes, ReadingAt
<1>10. Outcome(r, k)
    BY <1>4, <1>5, <1>6, <1>9, Processed
<1> HIDE DEF r, f
<1>11. UNCHANGED <<frames, inp, ended, shut>>
    BY <1>7 DEF Fail, peer, writer
<1>12. ReaderTypes'
  <2>1. MessageTypes(current', data')
      BY <1>7, <1>10 DEF Outcome
  <2>2. Len(inbuf') <= Capacity
    <3>1. Len(inbuf') \in Nat
        BY <1>8, LenProperties DEF Stream
    <3> QED
        BY <1>5, <1>8, <3>1
  <2> QED
      BY <1>3, <1>8, <1>11, <2>1, <2>2 DEF ReaderTypes, MessageTypes
<1>13. CASE r.err # NoType
  <2>1. /\ r.err = Offence(frames, i) /\ r.err \in Statuses
      BY <1>10, <1>13, OffenceType DEF Outcome
  <2>2. /\ last' = "invalid_data" /\ inner' = "task" /\ task' = "flushing" /\ status' = r.err
        /\ received' = received /\ closed' = closed
      BY <1>7, <1>13 DEF Fail
  <2>3. Final(frames, i) /\ Messages(frames, i) = received
      BY <1>4, <1>9, <1>13, <2>1, NextMeaning DEF Ending
  <2>4. AgentTypes'
      BY <1>3, <1>11, <2>1, <2>2 DEF AgentTypes, Statuses, NoType
  <2> QED
      BY <1>4, <1>11, <1>12, <2>1, <2>2, <2>3, <2>4, ReaderEnds
<1>14. CASE r.err = NoType
  <2>1. /\ received' = received \o r.msg /\ closed' = (f.op = "close")
        /\ UNCHANGED <<last, inner, task, status>>
      BY <1>7, <1>14
  <2>2. /\ Offence(frames, i) = NoType
        /\ BuildingAt(current', data', i)
        /\ r.msg = IF f.fin THEN <<MessageAt(frames, i)>> ELSE <<>>
      BY <1>7, <1>10, <1>14 DEF Outcome, f
  <2>3. received' = Messages(frames, i)
      BY <1>4, <1>9, <2>1, <2>2, NextMeaning DEF f
  <2>4. AgentTypes'
      BY <1>3, <1>11, <2>1 DEF AgentTypes
  <2>5. CASE f.op = "close"
    <3>1. Final(frames, i)
        BY <1>4, <1>9, <2>5, NextMeaning DEF Ending, f
    <3>2. closed' /\ task' = "none"
        BY <1>3, <2>1, <2>5
    <3> QED
        BY <1>4, <1>11, <1>12, <2>3, <2>4, <3>1, <3>2, ReaderEnds
  <2>6. CASE f.op # "close"
    <3>1. Open(frames, i)
        BY <1>4, <1>9, <2>2, <2>6, NextMeaning DEF Ending, f
    <3>2. ReadingAt(i)'
        BY <1>8, <1>11, <2>2, <2>3, <3>1 DEF ReadingAt, BuildingAt
    <3>3. i \in 0 .. Len(frames') /\ task' = "none"
        BY <1>3, <1>4, <1>11, <2>1
    <3> QED
        BY <1>12, <2>4, <3>2, <3>3 DEF ReaderInv
  <2> QED
      BY <2>5, <2>6
<1> QED
    BY <1>13, <1>14

LEMMA ReaderPolls ==
    ASSUME ReaderInv, PollNext PROVE ReaderInv'
<1>1. CASE \E n \in 1 .. Capacity : ReadInput(n)
    BY <1>1, ReaderReadsInput
<1>2. CASE TakeFrame
    BY <1>2, ReaderTakesFrame
<1>3. CASE RejectFrame
  <2>1. /\ Polling /\ inbuf # <<>> /\ InvalidFrame(NextFrame) /\ Fail("protocol")
        /\ UNCHANGED <<inbuf, current, data>>
      BY <1>3 DEF RejectFrame, FrameInvalid
  <2>2. PICK k \in 0 .. Len(frames) : ReadingAt(k)
      BY <2>1, ReaderReading
  <2>3. NextFrame = frames[k + 1]
      BY <2>1, <2>2, ReaderNext DEF ReaderInv
  <2>4. Offence(frames, k + 1) = "protocol"
      BY <2>1, <2>3 DEF Offence
  <2> QED
      BY <2>1, <2>2, <2>4, ReaderRefuses DEF NoType
<1>4. CASE RejectSize
  <2>1. /\ Polling /\ NeedsMore /\ Len(inbuf) >= Capacity /\ Fail("too_big")
        /\ UNCHANGED <<inbuf, current, data>>
      BY <1>4 DEF RejectSize
  <2>2. PICK k \in 0 .. Len(frames) : ReadingAt(k)
      BY <2>1, ReaderReading
  <2>3. inbuf # <<>> /\ Len(inbuf) \in Nat /\ Capacity \in Nat
    <3>1. inbuf \in Stream /\ Capacity \in Nat \ {0}
        BY WebSocketAssumption DEF ReaderInv, ReaderTypes
    <3>2. Len(<<>>) = 0
        OBVIOUS
    <3> QED
        BY <2>1, <3>1, <3>2, LenProperties DEF Stream
  <2>4. NextFrame = frames[k + 1] /\ frames[k + 1] \in Frames
      BY <2>2, <2>3, ReaderNext DEF ReaderInv
  <2>5. ~InvalidFrame(frames[k + 1]) /\ ~(Len(inbuf) > Len(frames[k + 1].data))
      BY <2>1, <2>3, <2>4 DEF NeedsMore, FrameInvalid, FrameReady
  <2>6. Len(frames[k + 1].data) >= Capacity
    <3>1. Len(frames[k + 1].data) \in Nat
        BY <2>4, FrameFields
    <3> QED
        BY <2>1, <2>3, <2>5, <3>1
  <2>7. Offence(frames, k + 1) = "too_big"
      BY <2>5, <2>6 DEF Offence
  <2> QED
      BY <2>1, <2>2, <2>3, <2>7, ReaderRefuses DEF NoType
<1>5. CASE ReadEnds
  <2>1. /\ last' \in {"io", "end", "unexpected_eof"}
        /\ UNCHANGED <<frames, inp, ended, inbuf, current, data, received, closed, inner, task, status, shut>>
      BY <1>5 DEF ReadEnds, peer, writer
  <2>2. AgentTypes'
      BY <2>1 DEF ReaderInv, AgentTypes
  <2> QED
      BY <2>1, <2>2, ReaderFrame
<1> QED
    BY <1>1, <1>2, <1>3, <1>4, <1>5 DEF PollNext

LEMMA ReaderStep == ReaderInv /\ [Next]_vars => ReaderInv'
<1> SUFFICES ASSUME ReaderInv, [Next]_vars PROVE ReaderInv'
    OBVIOUS
<1>a. AgentTypes /\ ReaderTypes
    BY DEF ReaderInv
<1>1. CASE \E f \in Frames : PeerSends(f)
    BY <1>1, ReaderPeerSends
<1>2. CASE \E missing \in 0 .. Len(inp) : PeerEnds(missing)
  <2>1. PICK missing \in 0 .. Len(inp) : PeerEnds(missing)
      BY <1>2
  <2>2. Len(inp) \in Nat /\ Len(inp) - missing \in 0 .. Len(inp)
        /\ (missing = 0 => Len(inp) - missing = Len(inp))
      BY <1>a, LenProperties DEF ReaderTypes, Stream
  <2> QED
      BY <2>1, <2>2, ReaderLosesInput DEF PeerEnds
<1>3. CASE PeerResets
  <2>1. SubSeq(inp, 1, 0) = <<>> /\ 0 \in 0 .. Len(inp)
      BY <1>a, SubSeqEmpty, LenProperties DEF ReaderTypes, Stream
  <2> QED
      BY <1>3, <2>1, ReaderLosesInput DEF PeerResets
<1>4. CASE PeerReads
  <2>1. AgentTypes'
      BY <1>a, <1>4 DEF PeerReads, AgentTypes, reader
  <2> QED
      BY <1>4, <2>1, ReaderFrame DEF PeerReads, peer, reader
<1>5. CASE PollNext
    BY <1>5, ReaderPolls
<1>6. CASE \E n \in 1 .. Window : UserWrites(n) \/ TaskWrites(n)
  <2>1. PICK n \in 1 .. Window : UserWrites(n) \/ TaskWrites(n)
      BY <1>6
  <2>2. UNCHANGED <<peer, reader, closed, inner, task, status, shut>>
      BY <2>1 DEF UserWrites, TaskWrites, WriteTurn
  <2>3. AgentTypes'
      BY <1>a, <2>2 DEF AgentTypes, reader
  <2> QED
      BY <2>2, <2>3, ReaderFrame DEF peer, reader
<1>7. CASE \E m \in UserMessages : StartSend(m)
  <2>1. PICK m \in UserMessages : StartSend(m)
      BY <1>7
  <2>2. /\ inner = "user" /\ ~closed /\ closed' = (m = "close")
        /\ UNCHANGED <<peer, reader, inner, task, status, shut>>
      BY <2>1 DEF StartSend
  <2>3. AgentTypes'
      BY <1>a, <2>2 DEF AgentTypes, reader
  <2> QED
      BY <2>2, <2>3, ReaderFrame DEF peer, reader
<1>8. CASE PollClose
  <2>1. AgentTypes'
      BY <1>a, <1>8 DEF PollClose, AgentTypes, reader
  <2> QED
      BY <1>8, <2>1, ReaderFrame DEF PollClose, peer, reader
<1>9. CASE DropSocket
  <2>1. /\ inner = "user" /\ inner' = "dropped"
        /\ UNCHANGED <<peer, reader, closed, task, status, shut>>
      BY <1>9 DEF DropSocket, writer
  <2>2. AgentTypes'
      BY <1>a, <2>1 DEF AgentTypes, reader
  <2> QED
      BY <2>1, <2>2, ReaderFrame DEF peer, reader
<1>10. CASE TaskStartsSend
  <2>1. /\ task = "flushing" /\ task' = "sending"
        /\ UNCHANGED <<peer, reader, closed, inner, status, shut>>
      BY <1>10 DEF TaskStartsSend
  <2>2. AgentTypes'
      BY <1>a, <2>1 DEF AgentTypes, reader
  <2> QED
      BY <2>1, <2>2, ReaderFrame DEF peer, reader
<1>11. CASE TaskEnds
  <2>1. /\ task \in {"flushing", "sending"} /\ task' = "done" /\ inner' = "dropped"
        /\ UNCHANGED <<peer, reader, closed, status, shut>>
      BY <1>11 DEF TaskEnds, writer
  <2>2. AgentTypes'
      BY <1>a, <2>1 DEF AgentTypes, reader
  <2> QED
      BY <2>1, <2>2, ReaderFrame DEF peer, reader
<1>12. CASE UNCHANGED vars
  <2>1. UNCHANGED <<frames, inp, ended, inbuf, current, data, received, status, task, closed, inner, shut, last>>
      BY <1>12 DEF vars, peer, reader, writer
  <2>2. AgentTypes'
      BY <1>a, <2>1 DEF AgentTypes
  <2> QED
      BY <2>1, <2>2, ReaderFrame
<1> QED
    BY <1>1, <1>2, <1>3, <1>4, <1>5, <1>6, <1>7, <1>8, <1>9, <1>10, <1>11, <1>12
    DEF Next, TaskTurn

LEMMA ReaderImplied == ReaderInv => MessagesExact /\ CloseExplains
<1> SUFFICES ASSUME ReaderInv PROVE MessagesExact /\ CloseExplains
    OBVIOUS
<1>1. frames \in Seq(Frames) /\ Len(frames) \in Nat /\ DOMAIN frames = 1 .. Len(frames)
    BY LenProperties DEF ReaderInv, ReaderTypes
<1>2. CASE task = "none" /\ \E k \in 0 .. Len(frames) : ReadingAt(k)
  <2>1. PICK k \in 0 .. Len(frames) : ReadingAt(k)
      BY <1>2
  <2>2. IsPrefix(received, AllMessages)
      BY <1>1, <2>1, MessagesPrefix DEF ReadingAt, AllMessages
  <2>3. ASSUME inp = <<>>, inbuf = <<>>, ended \in {"no", "fin"}
        PROVE  received = AllMessages
    <3>1. InputAt(frames, k, <<>> \o <<>>, ended) /\ <<>> \o <<>> = <<>>
        BY <2>1, <2>3, StreamClosed DEF ReadingAt, Closed
    <3>2. k = Len(frames)
        BY <1>1, <2>3, <3>1, InputUsed
    <3> QED
        BY <2>1, <3>2 DEF ReadingAt, AllMessages
  <2>4. status = NoType
      BY <1>2 DEF ReaderInv, AgentTypes
  <2> QED
      BY <1>2, <2>2, <2>3, <2>4 DEF MessagesExact, CloseExplains
<1>3. CASE (closed \/ inner # "user") /\ ReadingOver
  <2>1. PICK j \in 1 .. Len(frames) :
           /\ Final(frames, j) /\ received = Messages(frames, j)
           /\ task # "none" => Offence(frames, j) = status
      BY <1>3 DEF ReadingOver
  <2>2. received = AllMessages
      BY <1>1, <2>1, MessagesStop DEF AllMessages
  <2>3. AllMessages \in Inbox
      BY <1>1, MessagesGrow DEF AllMessages
  <2>4. IsPrefix(received, AllMessages)
      BY <2>2, <2>3, LenProperties DEF IsPrefix, Inbox
  <2>5. status # NoType => task # "none"
      BY DEF ReaderInv, AgentTypes
  <2> QED
      BY <1>1, <1>3, <2>1, <2>2, <2>4, <2>5 DEF MessagesExact, CloseExplains
<1> QED
    BY <1>2, <1>3 DEF ReaderInv

(***************************************************************************)
(* The writing side, step by step                                          *)
(***************************************************************************)
LEMMA WireStep == WireInv /\ ReaderInv /\ [Next]_vars => WireInv'
<1> SUFFICES ASSUME WireInv, ReaderInv, [Next]_vars PROVE WireInv'
    OBVIOUS
<1>1. CASE \E n \in 1 .. Window : UserWrites(n) \/ TaskWrites(n)
  <2>1. PICK n \in 1 .. Window : UserWrites(n) \/ TaskWrites(n)
      BY <1>1
  <2>2. n \in Nat /\ WriteTurn(n)
      BY <2>1, WebSocketAssumption DEF UserWrites, TaskWrites
  <2> QED
      BY <2>2, WireTurn
<1>2. CASE \E m \in UserMessages : StartSend(m)
  <2>1. PICK m \in UserMessages : StartSend(m)
      BY <1>2
  <2>2. m \in Kind
      BY DEF Kind
  <2> QED
      BY <2>1, <2>2, WireAccepts DEF StartSend
<1>3. CASE TaskStartsSend
  <2>1. status \in Kind
      BY <1>3 DEF TaskStartsSend, ReaderInv, AgentTypes, Kind
  <2> QED
      BY <1>3, <2>1, WireAccepts DEF TaskStartsSend
<1>4. CASE PeerReads
  <2>1. UNCHANGED <<accepted, out, sent, wire>> /\ unread' = unread - 1 /\ unread > 0
      BY <1>4 DEF PeerReads
  <2>2. unread' >= 0
      BY <2>1 DEF WireInv
  <2> QED
      BY <2>1, <2>2, WireFrame
<1>5. CASE UNCHANGED <<accepted, out, sent, wire, unread>>
  <2>1. unread' >= 0
      BY <1>5 DEF WireInv
  <2> QED
      BY <1>5, <2>1, WireFrame
<1>6. CASE PollNext
  <2>1. UNCHANGED writer
      BY <1>6 DEF PollNext, ReadInput, TakeFrame, RejectFrame, RejectSize, ReadEnds, Fail
  <2> QED
      BY <1>5, <2>1 DEF writer
<1>7. CASE \/ \E f \in Frames : PeerSends(f)
           \/ \E missing \in 0 .. Len(inp) : PeerEnds(missing)
           \/ PeerResets \/ DropSocket \/ TaskEnds
    BY <1>5, <1>7 DEF PeerSends, PeerEnds, PeerResets, DropSocket, TaskEnds, writer
<1>8. CASE PollClose
    BY <1>5, <1>8 DEF PollClose
<1>9. CASE UNCHANGED vars
    BY <1>5, <1>9 DEF vars, writer
<1> QED
    BY <1>1, <1>2, <1>3, <1>4, <1>6, <1>7, <1>8, <1>9 DEF Next, TaskTurn

LEMMA CloseInit == Init => CloseInv
<1> SUFFICES ASSUME Init PROVE CloseInv
    OBVIOUS
<1>1. accepted = <<>> /\ task = "none" /\ Len(accepted) = 0 /\ accepted \in Seq(Kind)
    BY DEF Init
<1> QED
    BY <1>1, WebSocketAssumption DEF CloseInv

LEMMA CloseImplied == CloseInv => CloseLast
<1> SUFFICES ASSUME CloseInv PROVE CloseLast
    OBVIOUS
<1>1. DOMAIN accepted = 1 .. Len(accepted)
    BY LenProperties DEF CloseInv
<1> QED
    BY <1>1 DEF CloseInv, CloseLast

(* A message is accepted while all those before it are data.               *)
LEMMA CloseAccepts ==
    ASSUME CloseInv, NEW m \in Kind, ~closed, task \notin {"sending", "done"},
           accepted' = Append(accepted, m),
           m # "data" => closed' \/ task' \in {"sending", "done"},
           task' = "flushing" => ~closed', inner' = "user" => task' = "none",
           task' \in {"sending", "done"} \/ Len(accepted) < MaxSends
    PROVE  CloseInv'
<1>1. /\ accepted' \in Seq(Kind) /\ Len(accepted') = Len(accepted) + 1 /\ Len(accepted) \in Nat
      /\ \A i \in 1 .. Len(accepted) : accepted'[i] = accepted[i]
      /\ accepted'[Len(accepted) + 1] = m
    BY AppendProperties, LenProperties DEF CloseInv
<1>2. \A i \in 1 .. Len(accepted) : accepted[i] = "data"
    BY DEF CloseInv
<1>3. \A i \in 1 .. Len(accepted') : accepted'[i] # "data" =>
         i = Len(accepted') /\ (closed' \/ task' \in {"sending", "done"})
  <2>1. \A i \in 1 .. Len(accepted') : i \in 1 .. Len(accepted) \/ i = Len(accepted')
      BY <1>1
  <2> QED
      BY <1>1, <1>2, <2>1
<1>4. /\ Len(accepted') <= MaxSends + 1
      /\ task' \notin {"sending", "done"} => Len(accepted') <= MaxSends
  <2>1. Len(accepted) <= MaxSends /\ MaxSends \in Nat
      BY WebSocketAssumption DEF CloseInv
  <2> QED
      BY <1>1, <2>1
<1> QED
    BY <1>1, <1>3, <1>4 DEF CloseInv

LEMMA CloseFrame ==
    ASSUME CloseInv, accepted' = accepted, closed => closed',
           task \in {"sending", "done"} <=> task' \in {"sending", "done"},
           task' = "flushing" => ~closed', inner' = "user" => task' = "none"
    PROVE  CloseInv'
BY DEF CloseInv

LEMMA CloseStep == CloseInv /\ ReaderInv /\ [Next]_vars => CloseInv'
<1> SUFFICES ASSUME CloseInv, ReaderInv, [Next]_vars PROVE CloseInv'
    OBVIOUS
<1>a. /\ AgentTypes
      /\ task = "flushing" => ~closed
      /\ inner = "user" => task = "none"
    BY DEF CloseInv, ReaderInv
<1>1. CASE \E m \in UserMessages : StartSend(m)
  <2>1. PICK m \in UserMessages : StartSend(m)
      BY <1>1
  <2>2. m \in Kind
      BY DEF Kind
  <2>3. /\ inner = "user" /\ ~closed /\ Len(accepted) < MaxSends
        /\ accepted' = Append(accepted, m) /\ closed' = (m = "close")
        /\ UNCHANGED <<inner, task>>
      BY <2>1 DEF StartSend
  <2>4. m # "data" => closed'
      BY <2>3 DEF UserMessages
  <2> QED
      BY <1>a, <2>2, <2>3, <2>4, CloseAccepts
<1>2. CASE TaskStartsSend
  <2>1. /\ task = "flushing" /\ task' = "sending" /\ accepted' = Append(accepted, status)
        /\ UNCHANGED <<closed, inner>>
      BY <1>2 DEF TaskStartsSend
  <2>2. status \in Kind
      BY <1>a, <2>1 DEF AgentTypes, Kind
  <2> QED
      BY <1>a, <2>1, <2>2, CloseAccepts
<1>3. CASE TaskEnds
  <2>1. /\ task \in {"flushing", "sending"} /\ task' = "done" /\ inner' = "dropped"
        /\ UNCHANGED <<accepted, closed>>
      BY <1>3 DEF TaskEnds, writer
  <2>2. CloseInv /\ task' \in {"sending", "done"} /\ task' # "flushing" /\ inner' # "user"
      BY <2>1
  <2>3. MaxSends \in Nat
      BY WebSocketAssumption
  <2> QED
      BY <2>1, <2>2, <2>3 DEF CloseInv
<1>4. CASE PollNext
  <2>1. CASE TakeFrame
    <3>1. inner = "user" /\ ~closed /\ accepted' = accepted
        BY <2>1 DEF TakeFrame, Polling, Fail, writer
    <3>2. \/ inner' = "task" /\ task' = "flushing" /\ closed' = closed
          \/ UNCHANGED <<inner, task>>
        BY <2>1 DEF TakeFrame, Fail
    <3> QED
        BY <1>a, <3>1, <3>2, CloseFrame
  <2>2. CASE RejectFrame \/ RejectSize
    <3>1. /\ inner = "user" /\ ~closed /\ UNCHANGED <<accepted, closed>>
          /\ inner' = "task" /\ task' = "flushing"
        BY <2>2 DEF RejectFrame, RejectSize, Polling, Fail, writer
    <3> QED
        BY <1>a, <3>1, CloseFrame
  <2>3. CASE (\E n \in 1 .. Capacity : ReadInput(n)) \/ ReadEnds
    <3>1. UNCHANGED <<accepted, closed, inner, task>>
        BY <2>3 DEF ReadInput, ReadEnds, writer
    <3> QED
        BY <1>a, <3>1, CloseFrame
  <2> QED
      BY <1>4, <2>1, <2>2, <2>3 DEF PollNext
<1>5. CASE DropSocket
  <2>1. inner' = "dropped" /\ UNCHANGED <<accepted, closed, task>>
      BY <1>5 DEF DropSocket, writer
  <2> QED
      BY <1>a, <2>1, CloseFrame
<1>6. CASE UNCHANGED <<accepted, closed, inner, task>>
    BY <1>6, <1>a, CloseFrame
<1>7. CASE \/ \E f \in Frames : PeerSends(f)
           \/ \E missing \in 0 .. Len(inp) : PeerEnds(missing)
           \/ PeerResets \/ PeerReads \/ PollClose
    BY <1>6, <1>7 DEF PeerSends, PeerEnds, PeerResets, PeerReads, PollClose, writer
<1>8. CASE \E n \in 1 .. Window : UserWrites(n) \/ TaskWrites(n)
    BY <1>6, <1>8 DEF UserWrites, TaskWrites, WriteTurn
<1>9. CASE UNCHANGED vars
    BY <1>6, <1>9 DEF vars, writer
<1> QED
    BY <1>1, <1>2, <1>3, <1>4, <1>5, <1>7, <1>8, <1>9 DEF Next, TaskTurn

(***************************************************************************)
(* The theorems                                                            *)
(***************************************************************************)
SocketInv == WireInv /\ ReaderInv /\ CloseInv

LEMMA SocketInvariant == Spec => []SocketInv
<1>1. Init => SocketInv
    BY WireInit, ReaderInit, CloseInit DEF SocketInv
<1>2. SocketInv /\ [Next]_vars => SocketInv'
    BY WireStep, ReaderStep, CloseStep DEF SocketInv
<1> QED
    BY <1>1, <1>2, PTL DEF Spec

LEMMA ShortSeq ==
    ASSUME NEW S, NEW s \in Seq(S), NEW n \in Nat, Len(s) <= n
    PROVE  s \in Seqs(S, n)
<1>1. Len(s) \in 0 .. n /\ s \in [1 .. Len(s) -> S]
    BY LenProperties
<1> QED
    BY <1>1 DEF Seqs

(* Neither the input buffer nor a message put together from fragments      *)
(* outgrows input_buffer_capacity, and the socket is always held by its    *)
(* user, by the task or by nobody.                                         *)
THEOREM SocketTypes == Spec => []TypeOK
<1>1. SocketInv => TypeOK
  <2> SUFFICES ASSUME SocketInv PROVE TypeOK
      OBVIOUS
  <2> USE DEF SocketInv
  <2>1. frames \in Seqs(Frames, MaxFrames)
    <3>1. frames \in Seq(Frames) /\ Len(frames) <= MaxFrames /\ MaxFrames \in Nat
        BY WebSocketAssumption DEF ReaderInv, ReaderTypes
    <3> QED
        BY <3>1, ShortSeq
  <2>2. accepted \in Seqs(UserMessages \cup Statuses, MaxSends + 1)
    <3>1. accepted \in Seq(Kind) /\ Len(accepted) <= MaxSends + 1 /\ MaxSends + 1 \in Nat
        BY WebSocketAssumption DEF CloseInv
    <3>2. accepted \in Seqs(Kind, MaxSends + 1)
        BY <3>1, ShortSeq
    <3> QED
        BY <3>2 DEF Kind
  <2>3. /\ ended \in {"no", "fin", "cut", "reset"} /\ Len(inbuf) <= Capacity
        /\ current \in {NoType, "text", "binary"}
        /\ Len(data) <= Capacity /\ (current = NoType => data = <<>>)
      BY DEF ReaderInv, ReaderTypes, MessageTypes
  <2>4. AgentTypes
      BY DEF ReaderInv
  <2>5. sent \in 0 .. Len(out) /\ unread \in 0 .. Window /\ unread <= Len(wire)
      BY DEF WireInv
  <2>6. <<inner, task>> \in
           ({"user", "dropped"} \X {"none"}) \cup ({"task"} \X {"flushing", "sending"})
              \cup {<<"dropped", "done">>}
      BY <2>4 DEF AgentTypes
  <2> QED
      BY <2>1, <2>2, <2>3, <2>4, <2>5, <2>6 DEF TypeOK, AgentTypes
<1> QED
    BY <1>1, SocketInvariant, PTL

(* The messages handed to the user are the peer's, exactly, although they  *)
(* come in fragments, in pieces of the stream, and with other frames in    *)
(* between (WebSocket::process_frame, FrameSocket::poll_next).             *)
THEOREM ExactMessages == Spec => []MessagesExact
<1>1. SocketInv => MessagesExact
    BY ReaderImplied DEF SocketInv
<1> QED
    BY <1>1, SocketInvariant, PTL

(* The Close frame of a failure names the first offence of the peer        *)
(* (InternalError::to_close_message).                                      *)
THEOREM ExplainedClose == Spec => []CloseExplains
<1>1. SocketInv => CloseExplains
    BY ReaderImplied DEF SocketInv
<1> QED
    BY <1>1, SocketInvariant, PTL

(* No frame on the wire is torn, although a flush may be given up and the  *)
(* task may take over at any point (FrameSocket::poll_ready).              *)
THEOREM FramedWire == Spec => []WireFramed
<1>1. SocketInv => WireFramed
    BY WireImplied DEF SocketInv
<1> QED
    BY <1>1, SocketInvariant, PTL

(* One Close frame at most is sent, and nothing after it, although the     *)
(* user and the task can both send one (WebSocket::start_send).            *)
THEOREM LastClose == Spec => []CloseLast
<1>1. SocketInv => CloseLast
    BY CloseImplied DEF SocketInv
<1> QED
    BY <1>1, SocketInvariant, PTL
=============================================================================
