----------------------------- MODULE HeaderCodec -----------------------------
(***************************************************************************)
(* The request and response header codecs: RequestHeaderDecoder and        *)
(* ResponseHeaderDecoder of ttpkit on top of LineDecoder and               *)
(* HeaderFieldDecoder, the conversion of the parts by ttpkit-http, and the *)
(* two encoders.  The decoders have one shape and differ in the start      *)
(* line, so a decoder carries its kind, "request" or "response".           *)
(***************************************************************************)
EXTENDS Fields, Lines, Numbers

NewLine == <<CR, LF>>

(*************************** the start lines *******************************)

RequestHeader(method, path, protocol, version, fields) ==
    [method |-> method, path |-> path, protocol |-> protocol,
     version |-> version, fields |-> fields]

ResponseHeader(protocol, version, code, msg, fields) ==
    [protocol |-> protocol, version |-> version, code |-> code,
     msg |-> msg, fields |-> fields]

(* Each part is what comes before a separator; what comes after it is read *)
(* on, and a separator that is missing is an error.                        *)
NextWord(split) == IF split = None THEN None ELSE SplitAtSpace(TrimStart(split[1].end))

RequestProtocol(method, path, split) ==
    IF split = None THEN None
    ELSE Some(RequestHeader(method, path, TrimAscii(split[1].start),
                            TrimAscii(split[1].end), <<>>))
RequestPath(method, split) ==
    IF split = None THEN None
    ELSE RequestProtocol(method, split[1].start, SplitAt(split[1].end, "/"))
RequestMethod(split) ==
    IF split = None THEN None ELSE RequestPath(split[1].start, NextWord(split))
ParseRequestLine(line) == RequestMethod(SplitAtSpace(TrimStart(line)))

ResponseStatus(protocol, version, code, msg) ==
    IF code = None THEN None
    ELSE Some(ResponseHeader(protocol, version, code[1], msg, <<>>))
ResponseCode(protocol, version, split) ==
    IF split = None THEN None
    ELSE ResponseStatus(protocol, version, DecodeDec(split[1].start, U16),
                        TrimAscii(split[1].end))
ResponseVersion(protocol, split) ==
    IF split = None THEN None
    ELSE ResponseCode(protocol, split[1].start, NextWord(split))
ResponseProtocol(split) ==
    IF split = None THEN None
    ELSE ResponseVersion(TrimAscii(split[1].start), NextWord(split))
ParseResponseLine(line) == ResponseProtocol(SplitAt(line, "/"))

ParseStartLine(kind, line) ==
    IF kind = "request" THEN ParseRequestLine(line) ELSE ParseResponseLine(line)

(************************* the header decoders *****************************)

(* RequestHeaderDecoderOptions::new() with accept_all_line_endings and the *)
(* three limits.                                                           *)
HeaderOptions(all, lineLength, fieldLength, fields) ==
    [line |-> [cr |-> all, lf |-> all, crlf |-> TRUE,
               require_terminator |-> FALSE, max_line_length |-> lineLength],
     max_header_field_length |-> fieldLength,
     max_header_fields |-> fields]

NewHeaderDecoder(kind) ==
    [kind |-> kind, line |-> NewDecoder, header |-> None, field |-> <<>>]

(* take and reset: the decoder is as new once it has given its header.     *)
TakeHeader(d) == NewHeaderDecoder(d.kind)

(* What a step of the decoder yields: the decoder, the header if it is     *)
(* complete, whether there was an error, and the data that is left.        *)
Step(d, header, ok, data) ==
    [d |-> d, header |-> header, ok |-> ok, data |-> data]

StartLine(d, header, data) ==
    Step([d EXCEPT !.header = header], None, header # None, data)

TooManyFields(o, fields) == Exceeds(Len(fields), o.max_header_fields)
FieldLine(o, d, line, data, f, fields) ==
    IF ~f.ok \/ (f.field # None /\ TooManyFields(o, fields))
    THEN Step(d, None, FALSE, data)
    ELSE IF line = <<>>
    THEN Step(TakeHeader(d), Some([d.header[1] EXCEPT !.fields = fields]),
              TRUE, data)
    ELSE Step([d EXCEPT !.header[1].fields = fields, !.field = f.buffer],
              None, TRUE, data)

DecodeLine(o, d, line, data) ==
    IF d.header = None
    THEN StartLine(d, ParseStartLine(d.kind, line), data)
    ELSE LET f == DecodeField(o.max_header_field_length, d.field, line)
         IN  FieldLine(o, d, line, data, f, d.header[1].fields \o f.field)

(* What a turn of the line decoder makes of the header.                    *)
HeaderTurn(o, d, data, t) ==
    LET next == [d EXCEPT !.line = t.decoder]
        rest == SubSeq(data, t.taken + 1, Len(data))
    IN  IF ~t.ok THEN Step(d, None, FALSE, data)
        ELSE IF t.lines = <<>> THEN Step(next, None, TRUE, rest)
        ELSE DecodeLine(o, next, t.lines[1], rest)

RECURSIVE DecodeHeader(_, _, _), GoOn(_, _)
GoOn(o, s) ==
    IF ~s.ok \/ s.header # None THEN s ELSE DecodeHeader(o, s.d, s.data)
DecodeHeader(o, d, data) ==
    IF data = <<>> THEN Step(d, None, TRUE, data)
    ELSE GoOn(o, HeaderTurn(o, d, data, DecodeByte(o.line, d.line, data[1])))

(* decode_eof: the last line may lack its separator, but a header that has *)
(* begun must have come to its empty line, which the end of the data does  *)
(* not stand for.                                                          *)
HeaderEnd(s) ==
    IF ~s.ok \/ s.header # None THEN s
    ELSE [s EXCEPT !.ok = s.d.header = None]
EofTurn(o, s) ==
    IF ~s.ok \/ s.header # None THEN s
    ELSE HeaderEnd(HeaderTurn(o, s.d, <<>>, DecodeEof(o.line, s.d.line)))
DecodeHeaderEof(o, d, data) == EofTurn(o, DecodeHeader(o, d, data))

(********************** the parts of an HTTP header ************************)

ProtocolString == <<"HTTP">>
Versions == {<<"1", ".", "0">>, <<"1", ".", "1">>}
Methods == {<<m>> : m \in {"OPTIONS", "HEAD", "GET", "POST", "PUT", "DELETE",
                           "TRACE", "CONNECT"}}

(* parse_request_parts and parse_response_parts with the types of          *)
(* ttpkit-http.                                                            *)
PartsValid(kind, h) ==
    /\ h.protocol = ProtocolString
    /\ h.version \in Versions
    /\ kind = "request" => h.method \in Methods

(***************************** the encoders ********************************)

EncodeFields(fields) ==
    FlattenSeq([i \in 1..Len(fields) |-> EncodeField(fields[i]) \o NewLine])
        \o NewLine

EncodeRequest(h) ==
    h.method \o <<" ">> \o h.path \o <<" ">> \o h.protocol \o <<"/">>
        \o h.version \o NewLine \o EncodeFields(h.fields)

EncodeResponse(h) ==
    h.protocol \o <<"/">> \o h.version \o <<" ">> \o EncodeDec(h.code)
        \o <<" ">> \o h.msg \o NewLine \o EncodeFields(h.fields)

EncodeHeader(kind, h) ==
    IF kind = "request" THEN EncodeRequest(h) ELSE EncodeResponse(h)
=============================================================================
