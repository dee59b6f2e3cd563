------------------------------ MODULE Messages ------------------------------
(***************************************************************************)
(* How the HTTP client and server frame their messages: the builders of    *)
(* requests and responses, layer by layer, what Client::request and        *)
(* OutgoingResponseSender::send do to the header fields of the user, and   *)
(* what the receiver on the other side makes of them.  Sizes are those of  *)
(* bodies; a body without a size is a stream.                              *)
(***************************************************************************)
EXTENDS HeaderCodec, Urls

V10 == <<"1", ".", "0">>
V11 == <<"1", ".", "1">>

(* The value of the last field of a name; the value, or the absence of a   *)
(* field or of its value, as the code reads it with unwrap_or.             *)
ValueOrEmpty(fields, name) == Else(LastValue(fields, <<name>>), <<>>)

HasToken(tokens, token) ==
    \E i \in DOMAIN tokens : EqIgnoreCase(tokens[i], <<token>>)

(**************************** the builders *********************************)

(* A call of a builder: its name and its argument.                         *)
Call(name, arg) == [name |-> name, arg |-> arg]
AddCall(name, value) ==
    Call("add_header_field", Field(<<name>>, Some(value)))
SetCall(name, value) ==
    Call("set_header_field", Field(<<name>>, Some(value)))
RemoveCall(name) == Call("remove_header_fields", <<name>>)

BuildFields(fields, call) ==
    CASE call.name = "set_header_field" -> SetField(fields, call.arg)
      [] call.name = "add_header_field" -> AddField(fields, call.arg)
      [] call.name = "remove_header_fields" -> RemoveFields(fields, call.arg)

(* RequestHeaderBuilder and ResponseHeaderBuilder of ttpkit.               *)
RequestHeaderBuilder(h, call) ==
    CASE call.name = "set_version" -> [h EXCEPT !.version = call.arg]
      [] call.name = "set_method" -> [h EXCEPT !.method = call.arg]
      [] call.name = "set_path" -> [h EXCEPT !.path = call.arg]
      [] OTHER -> [h EXCEPT !.fields = BuildFields(@, call)]

ResponseHeaderBuilder(h, call) ==
    CASE call.name = "set_version" -> [h EXCEPT !.version = call.arg]
      [] call.name = "set_status" ->
             [h EXCEPT !.code = call.arg.code, !.msg = call.arg.msg]
      [] call.name = "set_status_code" -> [h EXCEPT !.code = call.arg]
      [] call.name = "set_status_message" -> [h EXCEPT !.msg = call.arg]
      [] OTHER -> [h EXCEPT !.fields = BuildFields(@, call)]

(* RequestBuilder and ResponseBuilder of ttpkit-http hand every call on.   *)
NewRequest(version, method, path) ==
    RequestHeader(method, path, ProtocolString, version, <<>>)
RequestBuilder(h, call) == RequestHeaderBuilder(h, call)

Status(code, msg) == [code |-> code, msg |-> msg]
NewResponse == ResponseHeader(ProtocolString, V11, 200, <<"OK">>, <<>>)
ResponseBuilder(h, call) == ResponseHeaderBuilder(h, call)

(* OutgoingRequestBuilder: the path follows the URL.                       *)
NewOutgoingRequest(version, method, url) ==
    [header |-> NewRequest(version, method, PathWithQuery(url)), url |-> url]

OutgoingRequestBuilder(b, call) ==
    IF call.name = "set_url"
    THEN [header |-> RequestBuilder(b.header,
                         Call("set_path", PathWithQuery(call.arg))),
          url |-> call.arg]
    ELSE [b EXCEPT !.header = RequestBuilder(@, call)]

OutgoingRequest(method, url, calls) ==
    FoldLeft(OutgoingRequestBuilder, NewOutgoingRequest(V11, method, url),
             calls)

OutgoingResponseBuilder(h, call) == ResponseBuilder(h, call)
OutgoingResponse(calls) == FoldLeft(OutgoingResponseBuilder, NewResponse, calls)

(***************************** the senders *********************************)

(* What goes out: the header, and whether the body goes out in chunks.     *)
Outgoing(header, chunked, close) ==
    [header |-> header, chunked |-> chunked, close |-> close]

(* Client::request.  None is the error of a stream in HTTP/1.0.            *)
ClientRequest(b, size) ==
    LET calls == << SetCall("Host", HostOf(b.url)),
                    RemoveCall("Content-Length"),
                    RemoveCall("Transfer-Encoding") >>
        framing == IF size # None
                   THEN AddCall("Content-Length", EncodeDec(size[1]))
                   ELSE AddCall("Transfer-Encoding", <<"chunked">>)
        built == FoldLeft(OutgoingRequestBuilder, b, Append(calls, framing))
    IN  IF size = None /\ b.header.version # V11 THEN None
        ELSE Some(Outgoing(built.header, size = None, FALSE))

JoinComma(tokens) ==
    FlattenSeq([i \in 1..Len(tokens) |->
                    IF i = 1 THEN tokens[i] ELSE <<",", " ">> \o tokens[i]])

(* OutgoingResponseSender::send, up to the body.                           *)
Send(h, size, version, closing) ==
    LET tokens == CommaList(ValueOrEmpty(h.fields, "Connection"))
        asked == closing \/ HasToken(tokens, "close")
        chunked == size = None /\ ~asked /\ version = V11
        close == asked \/ (size = None /\ ~chunked)
        others == SelectSeq(tokens, LAMBDA t :
                      /\ ~EqIgnoreCase(t, <<"close">>)
                      /\ ~EqIgnoreCase(t, <<"keep-alive">>))
        connection == IF close THEN Append(others, <<"close">>) ELSE others
        calls ==
            << Call("set_version", version), RemoveCall("Content-Length"),
               RemoveCall("Transfer-Encoding"), RemoveCall("Connection") >>
            \o (IF size # None
                THEN <<SetCall("Content-Length", EncodeDec(size[1]))>>
                ELSE IF chunked
                THEN <<SetCall("Transfer-Encoding", <<"chunked">>)>> ELSE <<>>)
            \o (IF connection # <<>> /\ version = V11
                THEN <<SetCall("Connection", JoinComma(connection))>> ELSE <<>>)
    IN  Outgoing(FoldLeft(ResponseBuilder, h, calls), chunked, close)

(**************************** the receivers ********************************)

(* A body decoder: its kind, and the size of a body of a fixed size.       *)
FixedSize(n) == [kind |-> "fixed", size |-> n]
Chunked == [kind |-> "chunked", size |-> 0]
Simple == [kind |-> "simple", size |-> 0]

ContentLength(fields) ==
    LET value == LastValue(fields, <<"content-length">>)
        n == IF value = None THEN None ELSE ParseUnsigned(value[1], Usize)
    IN  IF n = None THEN None ELSE Some(FixedSize(n[1]))

(* RequestBodyDecoder::new and ResponseBodyDecoder::new: None is an error. *)
RequestBodyDecoder(fields) ==
    IF LastField(fields, <<"transfer-encoding">>) # None
    THEN IF EqIgnoreCase(ValueOrEmpty(fields, "transfer-encoding"),
                         <<"chunked">>)
         THEN Some(Chunked) ELSE None
    ELSE IF LastField(fields, <<"content-length">>) # None
    THEN ContentLength(fields) ELSE Some(FixedSize(0))

WithoutBody(code) == code \in 100..199 \/ code \in {204, 304}

ResponseBodyDecoder(code, fields) ==
    IF WithoutBody(code) THEN Some(FixedSize(0))
    ELSE IF LastField(fields, <<"transfer-encoding">>) # None
    THEN IF EqIgnoreCase(ValueOrEmpty(fields, "transfer-encoding"),
                         <<"chunked">>)
         THEN Some(Chunked) ELSE Some(Simple)
    ELSE IF LastField(fields, <<"content-length">>) # None
    THEN ContentLength(fields) ELSE Some(Simple)

(* What the header of a message turns into on its way: the encoder of the  *)
(* sender, and the decoder of the receiver with only CR LF and no limits   *)
(* that matter.                                                            *)
NoLimit == 1000
WireOptions == HeaderOptions(FALSE, NoLimit, None, None)
Received(kind, header) ==
    DecodeHeader(WireOptions, NewHeaderDecoder(kind),
                 EncodeHeader(kind, header)).header
=============================================================================
