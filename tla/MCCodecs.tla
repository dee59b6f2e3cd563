------------------------------ MODULE MCCodecs ------------------------------
(***************************************************************************)
(* The codecs and the negotiations of ttpkit against references, over all  *)
(* inputs up to a bound: a behaviour picks a topic with parameters and     *)
(* then makes the input longer, a symbol (a byte, a header field call, a   *)
(* sub-protocol, a challenge) at a time.  Each invariant relates what one  *)
(* side writes to what the other side makes of it, or a decoder to a       *)
(* definition of the format that works on the whole input.                 *)
(***************************************************************************)
EXTENDS LineCodec, NumberCodec, FrameCodec, Handshake, Auth, Multipart

CONSTANTS LineBound, HeaderBound, UrlBound, QueryBound, NumberBound,
          CallBound, ListBound, FrameBound

UpTo(S, n) == UNION {[1..k -> S] : k \in 0..n}
Options(S) == {None} \union {Some(x) : x \in S}

(******************************** the inputs *******************************)

LineParams ==
    {o \in [cr : BOOLEAN, lf : BOOLEAN, crlf : BOOLEAN,
            require_terminator : BOOLEAN, max_line_length : {2, NoLimit}] :
         o.cr \/ o.lf \/ o.crlf}

StartLines ==
    [request |-> <<"GET", " ", "/", " ", "HTTP", "/", "1", ".", "1", CR, LF>>,
     response |-> <<"HTTP", "/", "1", ".", "1", " ", "2", "0", "4", " ", "No",
                    CR, LF>>]

HeaderParams ==
    [kind : {"request", "response"},
     options : {HeaderOptions(FALSE, NoLimit, None, None),
                HeaderOptions(TRUE, NoLimit, None, None),
                HeaderOptions(FALSE, NoLimit, Some(3), Some(1)),
                HeaderOptions(TRUE, 12, None, None)},
     first : {<<>>, <<"A", ":", "A", CR, LF>>, <<"A", CR, LF, " ">>,
               [i \in 1..10 |-> "A"]}]

SomeFields ==
    {Field(<<n>>, v) : n \in {"A", "B"},
                       v \in Options({<<>>, <<"b">>, <<"b", " ", ":">>})}

Sizes == Options({0, 12})
FramingCalls ==
    {AddCall("Content-Length", <<"9">>), SetCall("content-length", <<"+", "9">>),
     AddCall("transfer-encoding", <<"gzip">>),
     SetCall("Transfer-Encoding", <<"chunked">>),
     AddCall("Connection", <<"Close", ",", " ", "x">>),
     SetCall("connection", <<"Keep-Alive", ",", "Upgrade">>),
     AddCall("Host", <<"other">>), RemoveCall("Host")}

Protocols == {<<"p">>, <<"q">>, <<" ", "p">>, <<"p", ",", "q">>, <<>>}

UrlParams ==
    [user : Options({<<>>, <<"a">>, <<"a", "@", "b">>}),
     password : Options({<<>>, <<"b", ":", "b">>}),
     host : {<<>>, <<"h">>, <<"[", ":", ":", "1", "]">>},
     port : Options({<<>>, <<"8", "0">>, <<"6", "5", "5", "3", "5">>,
                     <<"6", "5", "5", "3", "6">>}),
     path : Options({<<"/">>, <<"/", "a", "/", "b">>}),
     query : Options({<<>>, <<"a", "?", "/">>}),
     fragment : Options({<<>>, <<"b", "?", "#">>})]

UrlPrefixes == {<<>>, <<"http", ":", "/", "/">>}

Items == [key : {<<>>, <<"a">>, <<"A">>, <<"&", " ">>},
          value : Options({<<>>, <<"=", "%">>, <<"b">>})]

Realms == UpTo({"a", DQ, BS, ","}, 1) \union {<<BS, DQ>>, <<DQ, ",">>}
DigestParams ==
    [algorithm : Algorithms,
     qops : {<<>>, <<"auth">>, <<"auth-int">>, <<"auth", "auth-int">>,
             <<"auth-int", "auth">>},
     emit : BOOLEAN, echo : BOOLEAN, body : Options({<<"body">>}),
     opaque : Options({<<"o">>}), realm : Realms]

(* A challenge as it is written: with a token, or with parameters; a value *)
(* in quotes or not, and blanks around "=" or not.                         *)
Written(scheme, token, ps, blanks) ==
    [scheme |-> scheme, token |-> token, params |-> ps, blanks |-> blanks]
Challenges ==
    {Written("x", None, <<>>, FALSE), Written("x", Some(<<"t", "=", "=">>), <<>>, FALSE),
     Written("Basic", None, <<Param(<<"r">>, <<"a", ",", DQ, BS>>)>>, FALSE),
     Written("y", None, <<Param(<<"r">>, <<>>), Param(<<"s">>, <<"a", " ", "=">>)>>,
             FALSE),
     Written("y", None, <<Param(<<"r">>, <<"a">>)>>, TRUE)}

SampleNumbers == {0, 1, 7, 10, 15, 16, 17, 160, 240, 255}

Events == [kind : {"item"}, data : UpTo({"a", "CR", "-"}, 1)]
              \union [kind : {"error", "end"}, data : {<<>>}]

(* Lengths on both sides of every boundary of the header; frames that      *)
(* begin with a length of two and of eight bytes.                          *)
FrameParams ==
    [client : BOOLEAN, opcode : {1, 10}, fin : BOOLEAN,
     size : {0, 1, 5, 125, 126, 127},
     mask : {<<0, 0, 0, 0>>, <<0, 0, 0, 1>>, <<129, 2, 255, 4>>}]
       \union [client : BOOLEAN, opcode : {2}, fin : {TRUE},
               size : {65535, 65536}, mask : {<<0, 0, 0, 0>>}]
FrameBytesParams ==
    [client : BOOLEAN,
     start : {<<>>, <<129, 126, 0>>, <<1, 254, 0, 1>>, <<130, 127, 0, 0, 0, 0, 0>>}]

Topics == {"lines", "header", "fields", "multipart", "request", "response",
           "handshake", "url", "url_text", "dict", "query", "digest",
           "challenges", "basic", "hex", "dec", "encode", "frame",
           "frame_bytes"}

Params(t) ==
    CASE t = "lines" -> LineParams
      [] t = "header" -> HeaderParams
      [] t = "fields" -> {"request", "response"}
      [] t = "request" -> [version : Versions, size : Sizes]
      [] t = "response" -> [version : Versions, size : Sizes, close : BOOLEAN,
                            code : {200, 101, 204, 304}]
      [] t = "handshake" -> [version : Versions, close : BOOLEAN,
                             key : {<<"k">>, <<"l">>}]
      [] t = "url" -> UrlParams
      [] t = "url_text" -> UrlPrefixes
      [] t = "digest" -> DigestParams
      [] t = "hex" -> {1, 2}
      [] t = "dec" -> {I8, U8}
      [] t = "encode" -> SampleNumbers \X SampleNumbers
      [] t = "frame" -> FrameParams
      [] t = "frame_bytes" -> FrameBytesParams
      [] OTHER -> {0}

Symbols(t) ==
    CASE t = "lines" -> {CR, LF, "a"}
      [] t = "header" -> {"A", ":", " ", CR, LF}
      [] t = "fields" -> SomeFields
      [] t = "multipart" -> Events
      [] t = "request" -> FramingCalls
      [] t = "response" -> FramingCalls
      [] t = "handshake" -> Protocols
      [] t = "url_text" -> {"http", ":", "/", "@", "?", "#", "8", "]"}
      [] t = "dict" -> Items
      [] t = "query" -> {"a", "%", "20", "FF", "&", "=", " "}
      [] t = "challenges" -> Challenges
      [] t = "basic" -> {"a", "b", ":", " "}
      [] t = "hex" -> {"0", "1", "8", "f", "F", "g"}
      [] t = "dec" -> {"-", "0", "1", "2", "8", "a"}
      [] t = "frame_bytes" -> {0, 1, 126, 129, 193}
      [] OTHER -> {}

Bound(t) ==
    CASE t = "lines" -> LineBound
      [] t = "header" -> HeaderBound
      [] t \in {"request", "response"} -> CallBound
      [] t = "url_text" -> UrlBound
      [] t \in {"query", "basic"} -> QueryBound
      [] t \in {"hex", "dec"} -> NumberBound
      [] t = "frame_bytes" -> FrameBound
      [] OTHER -> ListBound

Init ==
    /\ topic \in Topics
    /\ params \in Params(topic)
    /\ text = <<>>

Next == Grow(Symbols(topic), Bound(topic))
Spec == Init /\ [][Next]_vars

(********************************* headers *********************************)

(* The reference: the lines up to the first empty one.  A line that starts *)
(* with whitespace belongs to the field of the line before.                *)
Bytes(p) == StartLines[p.kind] \o p.first \o text

FieldTexts(lines) ==
    LET Starts(i) == i = 1 \/ ~IsWhitespace(lines[i][1])
        Group(i) == FoldLeft(LAMBDA s, j :
                        IF j = i \/ (j > i /\ \A k \in i + 1..j : ~Starts(k))
                        THEN s \o TrimAscii(lines[j]) ELSE s,
                        <<>>, [j \in 1..Len(lines) |-> j])
    IN  FlattenSeq([i \in 1..Len(lines) |->
            IF Starts(i) /\ Group(i) # <<>> THEN <<Group(i)>> ELSE <<>>])

(* The first line that is empty or too long, 0 if none.                    *)
RECURSIVE HeaderLines(_, _)
HeaderLines(o, t) ==
    LET f == FirstLine(o, t)
        others == HeaderLines(o, SubSeq(t, Len(f.line) + f.size + 1, Len(t)))
    IN  IF TooLong(o, f) \/ ~f.ended THEN [ok |-> FALSE, lines |-> <<>>, rest |-> t]
        ELSE IF f.line = <<>>
        THEN [ok |-> TRUE, lines |-> <<>>,
              rest |-> SubSeq(t, f.size + 1, Len(t))]
        ELSE [others EXCEPT !.lines = <<f.line>> \o @]

(* The header is whole up to a last CR that may be half a separator: such  *)
(* an input is left out, as in LinesExact.                                 *)
Undecided(o, t) ==
    LET h == HeaderLines(o.line, t)
    IN  h.ok /\ h.rest = <<>> /\ PendingCr(o.line, t)

Within(length, limit) == limit = None \/ length <= limit[1]

HeaderAsRead(o, d, r, texts) ==
    LET ok == /\ r.ok
              /\ \A i \in DOMAIN texts :
                     Within(Len(texts[i]), o.max_header_field_length)
              /\ Within(Len(texts), o.max_header_fields)
    IN  /\ (d.header # None) = ok
        /\ ok => /\ d.header[1].fields =
                        [i \in 1..Len(texts) |-> ParseField(texts[i])]
                 /\ d.data = r.rest /\ d.d = NewHeaderDecoder(params.kind)
        /\ ~ok => ~d.ok

HeaderMatches ==
    LET o == params.options
        r == HeaderLines(o.line, Bytes(params))
    IN  \/ Undecided(o, Bytes(params))
        \/ HeaderAsRead(o, DecodeHeaderEof(o, NewHeaderDecoder(params.kind),
                                           Bytes(params)),
                        r, FieldTexts(Tail(r.lines)))

(* What the encoders write the decoders read, and nothing is left of it.   *)
SampleHeaders(kind, fields) ==
    IF kind = "request"
    THEN {RequestHeader(m, <<"/", "?">>, ProtocolString, v, fields) :
              m \in {<<"GET">>, <<"PUT">>}, v \in Versions}
    ELSE {ResponseHeader(ProtocolString, v, c, m, fields) :
              v \in Versions, c \in {0, 99, 65535},
              m \in {<<>>, <<"Not", " ", "Found">>}}

HeaderRoundTrip ==
    \A h \in SampleHeaders(params, text) :
        /\ DecodeHeader(WireOptions, NewHeaderDecoder(params),
                        EncodeHeader(params, h) \o <<"x">>)
             = Step(NewHeaderDecoder(params), Some(h), TRUE, <<"x">>)
        /\ PartsValid(params, h)

(* The output of a multipart stream, read by the lengths in it.            *)
RECURSIVE Polls(_, _)
Polls(s, events) ==
    IF events = <<>> THEN <<>>
    ELSE LET e == events[1]
             p == PollStream(s, [kind |-> e.kind, entity |-> Entity(<<>>, e.data)])
         IN  <<p>> \o Polls(p.stream, Tail(events))

EntitySize(header) ==
    DecodeDec(LastValue(header.header[1].fields, <<"Content-Length">>)[1], U8)[1]
EntityOf(data, size) ==
    [data |-> SubSeq(data, 1, size), rest |-> SubSeq(data, size + 3, Len(data))]
EntityAfter(header) == EntityOf(header.data, EntitySize(header))
EntityHeader(t) ==
    DecodeHeader(WireOptions,
        [NewHeaderDecoder("response") EXCEPT !.header = Some([fields |-> <<>>])],
        SubSeq(t, Len(Delimiter(<<"b">>)) + 3, Len(t)))

RECURSIVE ReadEntities(_)
ReadEntities(t) ==
    LET entity == EntityAfter(EntityHeader(t))
    IN  IF t = <<>> THEN <<>>
        ELSE IF t = EncodeTrailer(<<"b">>) THEN <<"trailer">>
        ELSE <<entity.data>> \o ReadEntities(entity.rest)

MultipartRead ==
    LET polls == Polls(NewStream(<<"b">>), text)
        read == ReadEntities(FlattenSeq([i \in 1..Len(polls) |-> polls[i].data]))
        stop == SelectInSeq(text, LAMBDA e : e.kind # "item")
        before == IF stop = 0 THEN text ELSE SubSeq(text, 1, stop - 1)
        trailer == IF stop # 0 /\ text[stop].kind = "end"
                   THEN <<"trailer">> ELSE <<>>
    IN  /\ read = [i \in 1..Len(before) |-> before[i].data] \o trailer
        /\ \A i \in DOMAIN polls : stop # 0 /\ i > stop => polls[i].kind = "end"

(* A header is read exactly when its lines come to the empty one within    *)
(* the limits, its fields are the groups of continued lines, the bytes     *)
(* behind it stay with the caller and the decoder is as new; what the      *)
(* encoders write comes back equal; and a reader of a multipart stream     *)
(* that believes the lengths finds the entities, and the trailer only      *)
(* after a clean end.  A header that ends with an undecided CR is left out.*)
HeaderExact ==
    /\ topic = "header" => HeaderMatches
    /\ topic = "fields" => HeaderRoundTrip
    /\ topic = "multipart" => MultipartRead

(********************************* framing *********************************)

SampleUrl == ParseUrl(<<"http", ":", "/", "/", "h", ":", "8", "/">>)[1]

(* A body of this size arrives whole if its decoder is the one its sender  *)
(* meant.                                                                  *)
MeantDecoder(size, chunked) ==
    IF size # None THEN FixedSize(size[1]) ELSE IF chunked THEN Chunked ELSE Simple

RequestReceived(out, header) ==
    /\ RequestBodyDecoder(header.fields)
           = Some(MeantDecoder(params.size, out.chunked))
    /\ GetFields(header.fields, <<"Host">>) = <<Field(<<"Host">>, Some(<<"h">>))>>
    /\ PartsValid("request", header)
    /\ header.path = <<"/">>

RequestSent(out) ==
    /\ (out = None) = (params.size = None /\ params.version = V10)
    /\ out # None =>
           RequestReceived(out[1], Received("request", out[1].header)[1])

RequestFramed ==
    LET start == NewOutgoingRequest(params.version, <<"PUT">>, SampleUrl)
    IN  RequestSent(ClientRequest(FoldLeft(OutgoingRequestBuilder, start, text),
                                  params.size))

(* The tokens that the user put into the last Connection field, the only   *)
(* one that the sender reads.                                              *)
LastConnection ==
    CommaList(ValueOrEmpty(OutgoingResponse(text).fields, "connection"))

ResponseSeen(out, header, tokens, asked) ==
    /\ ResponseBodyDecoder(header.code, header.fields)
           = Some(IF WithoutBody(params.code) THEN FixedSize(0)
                  ELSE MeantDecoder(params.size, out.chunked))
    /\ params.size = None /\ ~out.chunked => out.close
    /\ out.close = (\/ params.close \/ HasToken(asked, "close")
                    \/ params.size = None /\ params.version = V10)
    /\ params.version = V11 =>
           /\ out.close = HasToken(tokens, "close")
           /\ HasToken(tokens, "upgrade") = HasToken(asked, "upgrade")
    /\ params.version = V10 => tokens = <<>>
    /\ ~HasToken(tokens, "keep-alive")
    /\ header.version = params.version /\ header.code = params.code

ResponseReceived(out, header) ==
    ResponseSeen(out, header, AllTokens(header.fields, "connection"), LastConnection)
ResponseSent(out) ==
    ResponseReceived(out, Received("response", out.header)[1])

ResponseFramed ==
    ResponseSent(Send(OutgoingResponse(Append(text,
                          Call("set_status", Status(params.code, <<"x">>)))),
                      params.size, params.version, params.close))

(******************************** handshake ********************************)

OneToken(p) == p # <<>> /\ TrimAscii(p) = p /\ ~Contains(p, ",")

(* The server has the request, and the client the answer to each choice.   *)
HandshakeSeen(hs) ==
    LET Answer(choice) ==
            Received("response", Send(ServerComplete(hs[1], choice), Some(0),
                         params.version, params.close).header)[1].fields
    IN  /\ (hs # None) = (params.version = V11)
        /\ hs # None =>
             /\ (\A i \in DOMAIN text : OneToken(text[i]))
                    => hs[1].protocols = text
             /\ \A choice \in Options(ToSet(hs[1].protocols)) :
                    ClientComplete(params.key, text, Answer(choice))
                      = (/\ params.key = <<"k">>
                         /\ choice # None => Contains(text, choice[1]))

(* Whatever header fields the user sets, adds or removes, the receiver     *)
(* picks the body decoder that the sender meant: the length, chunks, or    *)
(* the end of the connection, and then the connection is closed; and it    *)
(* is told of the close, by exactly the version that has words for it.     *)
(* The exception is a status that has no body: the receiver reads none,    *)
(* whatever body the response carries.  A token "close" counts in the last *)
(* Connection field of the user only.                                      *)
(* Likewise for an upgrade to a WebSocket: the protocols that the server   *)
(* sees are the offers, and whichever it chooses, the client that knows    *)
(* its key opens the same one; another client does not.  An offer that is  *)
(* not one token, which the client does not check, comes apart on the way: *)
(* the client then refuses a choice that it has not offered letter by      *)
(* letter.                                                                 *)
HeadersAgreed ==
    /\ topic = "request" => RequestFramed
    /\ topic = "response" => ResponseFramed
    /\ topic = "handshake" =>
         LET asked == HandshakeRequest(SampleUrl, <<"k">>, text)
             sent == ClientRequest(asked, Some(0))[1].header
             seen == Received("request", [sent EXCEPT !.version = params.version])
         IN  HandshakeSeen(ServerHandshake(seen[1]))

(********************************** URLs ***********************************)

UrlText(p) ==
    <<"http", ":", "/", "/">>
        \o (IF p.user = None THEN <<>>
            ELSE p.user[1] \o Marked(":", p.password) \o <<"@">>)
        \o p.host \o Marked(":", p.port) \o Else(p.path, <<>>)
        \o Marked("?", p.query) \o Marked("#", p.fragment)

(* The accessors give the parts that the text was put together from.  The  *)
(* exceptions: without a path there is no query either, as it is taken for *)
(* a part of the host, and the name of the user ends at its first colon.   *)
PortValid(port) == port = None \/ ParsePort(port[1]) # None

UrlParts(u) ==
    [scheme |-> Scheme(u), user |-> Username(u), password |-> Password(u),
     host |-> HostOf(u), port |-> u.port, path |-> Path(u),
     query |-> QueryOf(u), fragment |-> Fragment(u)]

SameParts(u, v) == v # None /\ UrlParts(v[1]) = u

UrlEdits(u) ==
    LET parts == UrlParts(u)
        q == Some(<<"b", "?">>)
    IN  /\ \A f \in Options({<<>>, <<"#">>}) :
               SameParts([parts EXCEPT !.fragment = f], WithFragment(u, f))
        /\ \A x \in {None, q} :
               SameParts([parts EXCEPT !.query = x], WithQuery(u, x))
        /\ SameParts([parts EXCEPT !.user = None, !.password = None],
                     WithAuth(u, None))
        /\ SameParts([parts EXCEPT !.user = Some(<<"a">>), !.password = q],
                     WithCredentials(u, <<"a">>, q[1]))
        /\ SameParts([parts EXCEPT !.host = <<"b">>, !.port = Some(8)],
                     WithNetloc(u, <<"b", ":", "8">>))
        /\ SameParts([parts EXCEPT !.path = <<"/">>, !.query = None,
                                   !.fragment = None], Some(BaseUrl(u)))
        /\ SameParts([parts EXCEPT !.path = <<"/", "b">>, !.query = q,
                                   !.fragment = None],
                     Join(u, <<" ", "/", "b", "?", "b", "?">>))

JoinsRelative(u) ==
    LET v == Join(u, <<"b", "?", "b">>)
        parts == UrlParts(u)
        directory == IF parts.path = <<"/">> THEN <<"/">> ELSE <<"/", "a", "/">>
    IN  /\ SameParts([parts EXCEPT !.path = directory \o <<"b">>,
                                   !.query = Some(<<"b">>), !.fragment = None], v)
        /\ Join(v[1], <<>>) = v
        /\ Join(u, u.serialized) = Some(u)

(* The URL of the request as the server has it: what the client asked for, *)
(* but for the credentials and the fragment, unless the host has a colon.  *)
UrlReceived(u, port, header) ==
    SameParts([UrlParts(u) EXCEPT
                   !.user = None, !.password = None, !.fragment = None,
                   !.port = IF port = DefaultPort(Scheme(u)) THEN None
                            ELSE Some(port)],
              RequestUrl(Scheme(u), <<"ip">>, port,
                         LastValue(header.fields, <<"host">>), header.path))
UrlSeenByServer(u) ==
    LET sent == ClientRequest(OutgoingRequest(<<"GET">>, u, <<>>), Some(0))
    IN  \/ Contains(HostOf(u), ":")
        \/ UrlReceived(u, Else(u.port, DefaultPort(Scheme(u))),
                       Received("request", sent[1].header)[1])

UrlAsWritten(p, u) ==
    /\ UrlParts(u) =
         [scheme |-> <<"http">>, user |-> p.user,
          password |-> IF p.user = None THEN None ELSE p.password,
          host |-> p.host,
          port |-> IF p.port = None THEN None ELSE ParsePort(p.port[1]),
          path |-> Else(p.path, <<"/">>), query |-> p.query,
          fragment |-> p.fragment]
    /\ UrlEdits(u) /\ JoinsRelative(u) /\ UrlSeenByServer(u)
UrlIfValid(p, u) ==
    /\ (u # None) = PortValid(p.port)
    /\ u # None => UrlAsWritten(p, u[1])
UrlOfParts(p) ==
    \/ p.path = None /\ (p.query # None \/ p.fragment # None)
    \/ UrlIfValid(p, ParseUrl(UrlText(p)))

(* Any text that is taken for a URL is the sum of its parts.               *)
TextOf(u) ==
    Root(u) \o At(UrlAuth(u)) \o HostOf(u)
      \o (IF u.port_start = None THEN <<>> ELSE From(Netloc(u), Len(HostOf(u))))
      \o (IF u.path_start = None THEN <<>>
          ELSE Path(u) \o Marked("?", QueryOf(u)) \o Marked("#", Fragment(u)))
IsSumOfParts(t, u) == u # None => TextOf(u[1]) = t
UrlOfText(t) == IsSumOfParts(t, ParseUrl(t))

(* A dictionary comes back from its text, without the items that have      *)
(* neither a name nor a value; parsing any text and writing it again       *)
(* changes nothing more.                                                   *)
Visible(dict) == SelectSeq(dict, LAMBDA i : i # Item(<<>>, None))

DictRoundTrip(dict) ==
    /\ ParseDict(DictText(dict)) = Some(Visible(dict))
    /\ \A i \in DOMAIN dict :
         LET set == SetItem(dict, dict[i])
         IN  /\ GetItems(set, dict[i].key) = <<dict[i]>>
             /\ LastItemValue(AddItem(dict, dict[i]), dict[i].key) = dict[i].value
             /\ GetItems(RemoveItems(dict, dict[i].key), dict[i].key) = <<>>

QueryReparsed(t) ==
    LET dict == ParseDict(t)
        bad == \E i \in 1..Len(t) - 1 : t[i] = "%" /\ t[i + 1] = "FF"
    IN  /\ (dict = None) = bad
        /\ dict # None => DictRoundTrip(dict[1])

(* A URL is the parts it was written from, every operation that changes    *)
(* one part leaves the others, the server sees the URL that the client     *)
(* asked for, and query parameters come back from their text.              *)
UrlExact ==
    /\ topic = "url" => UrlOfParts(params)
    /\ topic = "url_text" => UrlOfText(params \o text)
    /\ topic = "dict" => DictRoundTrip(text)
    /\ topic = "query" => QueryReparsed(text)

(***************************** authentication ******************************)

User == <<"u", ":", DQ>>
Nonce == <<"n", BS>>

(* The challenge of the server, as the client reads it.                    *)
OnlyChallenge(list) ==
    IF list = None \/ Len(list[1]) # 1 THEN None ELSE ToDigestChallenge(list[1][1])
DigestSeen(p) ==
    OnlyChallenge(ParseChallenges(ChallengeText(
        BuildChallenge(p.realm, Nonce, p.qops, p.algorithm, p.emit, p.opaque))))

(* The response of a client with this password, as the server reads it.    *)
ReadBack(built) == IF built = None THEN None ELSE ParseResponse(ResponseText(built[1]))
DigestAnswer(p, seen, password) ==
    IF seen = None THEN None
    ELSE ReadBack(BuildResponse(seen[1], <<"1">>, <<"c">>, p.echo, <<"GET">>,
                                <<"/", DQ>>, p.body, User, password))

Verified(answer, method, hash) == answer # None /\ Verify(answer[1], method, hash)
Accepts(p, seen, password, method) ==
    Verified(DigestAnswer(p, seen, password), method,
             PasswordHash(p.algorithm, User, p.realm, <<"pw">>))

(* The options with which Digest works: an algorithm whose name is read    *)
(* back, and no auth-int in the list of qualities or auth behind it.       *)
AlgorithmSurvives(p) ==
    ~p.algorithm.sess \/ (p.algorithm.family = "MD5" /\ ~p.emit)
QopVerifiable(p) == p.qops = <<>> \/ p.qops[Len(p.qops)] = "auth"

AnsweredAsSeen(p, seen) ==
    \A password \in {<<"pw">>, <<"other">>}, method \in {<<"GET">>, <<"PUT">>} :
        LET right == password = <<"pw">> /\ method = <<"GET">>
            accepted == Accepts(p, seen, password, method)
        IN  /\ accepted => right
            /\ right /\ AlgorithmSurvives(p) /\ QopVerifiable(p) => accepted
DigestAgreed(p) == AnsweredAsSeen(p, DigestSeen(p))

(* A challenge that asks for the hash of a body, for a request without one.*)
WantsBody(p) == p.qops # <<>> /\ ToSet(p.qops) = {"auth-int"} /\ p.body = None

(* Challenges of several schemes in one header field.                      *)
WrittenParam(p, blanks) ==
    p.name \o (IF blanks THEN <<" ", "=", " ">> ELSE <<"=">>) \o Quoted(p.value)
WrittenChallenge(c) ==
    <<c.scheme>> \o (IF c.token # None THEN <<" ">> \o c.token[1]
        ELSE FlattenSeq([i \in 1..Len(c.params) |->
                 (IF i = 1 THEN <<" ">> ELSE <<",", " ">>)
                     \o WrittenParam(c.params[i], c.blanks)]))

ChallengesRead(list) ==
    LET writtenList == JoinComma([i \in 1..Len(list) |-> WrittenChallenge(list[i])])
        exact == [i \in 1..Len(list) |->
            Challenge(Lower(<<list[i].scheme>>), list[i].token, list[i].params)]
    IN  (\A i \in DOMAIN list : ~list[i].blanks)
            => ParseChallenges(writtenList) = Some(exact)

BasicRead(username) ==
    LET read == ParseBasic(BasicText(BasicAuth(username, username)))[1]
        whole == username \o <<":">> \o username
    IN  /\ read.username \o <<":">> \o read.password = whole
        /\ ~Contains(username, ":") => read = BasicAuth(username, username)

(* A server accepts no Digest response but those of clients that know the  *)
(* password, for the method of the request, whatever quotes and commas are *)
(* in the values and whichever options both sides choose; it accepts them  *)
(* for every algorithm without a session and quality auth, or none.        *)
(* Challenges of several schemes come apart as they were put together, if  *)
(* no blank stands before the first "=", and Basic credentials come back   *)
(* if no colon is in the name of the user.                                 *)
CredentialsAgreed ==
    /\ topic = "digest" => DigestAgreed(params)
    /\ topic = "challenges" => ChallengesRead(text)
    /\ topic = "basic" => BasicRead(text)

(* "Full Digest support" (ttpkit-auth/CHANGELOG.md:9): whichever algorithm *)
(* and qualities the challenge of the server offers, verify accepts what   *)
(* a client with the right password builds from it.                        *)
DigestSupported ==
    topic = "digest" =>
        WantsBody(params) \/ Accepts(params, DigestSeen(params), <<"pw">>, <<"GET">>)
=============================================================================
