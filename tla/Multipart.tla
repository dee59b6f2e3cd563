------------------------------ MODULE Multipart ------------------------------
(***************************************************************************)
(* Multipart content (ttpkit, multipart.rs): entities, their encoder, and  *)
(* the stream of the encoded entities.  The data of an entity is a         *)
(* sequence of symbols.                                                    *)
(***************************************************************************)
EXTENDS Fields, Numbers

Delimiter(boundary) == <<"-", "-">> \o boundary
EndOfLine == <<"CR", "LF">>

(* MultipartEntityBuilder: the fields of the user, and the length set last.*)
Entity(fields, data) ==
    [headers |-> SetField(fields, Field(<<"Content-Length">>,
                                        Some(EncodeDec(Len(data))))),
     data |-> data]

EncodeEntity(boundary, e) ==
    Delimiter(boundary) \o EndOfLine
        \o FlattenSeq([i \in 1..Len(e.headers) |->
                           EncodeField(e.headers[i]) \o EndOfLine])
        \o EndOfLine \o e.data \o EndOfLine

EncodeTrailer(boundary) == Delimiter(boundary) \o <<"-", "-">> \o EndOfLine

(* MultipartStream: the inner stream is there until it ends or fails.      *)
NewStream(boundary) == [boundary |-> boundary, open |-> TRUE]

(* What a poll gives: the stream, and an item that is the end, an error,   *)
(* or data.                                                                *)
Polled(stream, kind, data) == [stream |-> stream, kind |-> kind, data |-> data]

(* poll_next, when the inner stream is ready with an event: an entity, the *)
(* error, or its end.                                                      *)
PollStream(s, event) ==
    IF ~s.open THEN Polled(s, "end", <<>>)
    ELSE CASE event.kind = "item" ->
                  Polled(s, "data", EncodeEntity(s.boundary, event.entity))
           [] event.kind = "error" ->
                  Polled([s EXCEPT !.open = FALSE], "error", <<>>)
           [] event.kind = "end" ->
                  Polled([s EXCEPT !.open = FALSE], "data",
                         EncodeTrailer(s.boundary))
=============================================================================
