# A verification project for ttpkit

ttpkit is a toolkit for HTTP-like protocols in Rust: a generic message layer (`ttpkit`), an HTTP client and server
with WebSockets (`ttpkit-http`), and helpers for I/O, URLs and authentication (`ttpkit-utils`, `ttpkit-url`,
`ttpkit-auth`). This directory holds TLA+ modules that model its stateful parts and its codecs, TLC configurations that
check them on small instances, and TLAPS proofs of their safety properties for every instance. Paths below are relative to
`src/`.

- [The system](#the-system): its parts, what state they keep, how they interact, what is hard about them
- [The modules](#the-modules): which module models what, and how
- [The runs](#the-runs): what is checked, within which bounds, under which fairness
- [Six disagreements](#six-disagreements) between the code and what is said of it
- [The proofs](#the-proofs): what holds for all values of the constants, and why
- [What is not modelled](#what-is-not-modelled) and [the plan](#the-plan)

`PROJECT.json` is the index: the components, the runs, which lines of the source each definition stands for, the
hazards with the properties that address them, for each property of a passing run a plausible bug that breaks it (a
"mutant", an operator in the module next to the one it would replace), and the theorems.

## The system

| Part | State | Operations | Interacts with |
|---|---|---|---|
| **Accept loop** `ttpkit-http/src/server/mod.rs` (`Server::serve`) | a semaphore of `max_connections` permits | acquire, accept, spawn a handler that owns the permit | the acceptor; one connection handler per connection |
| **Connection handler** `server/mod.rs` (`ConnectionHandler`), here H | the reading half of the connection, the sending end of the pipeline | decode a header, reject it, spawn body reader and request handler, queue 100 Continue and the response, join both, upgrade, close | all tasks below |
| **Body reader** `server/receiver.rs`, here R | the reading half while a body is read, the bytes read ahead | decode items of the body into a channel of depth 4; give the connection back at the end of the body, drop it otherwise | H (join handle), the request body (channel, `first_poll`) |
| **Request handler**, here T | the user's future, in a task of its own | read, drop or pass on the body; return a response or panic; ask for an upgrade | the body, P (join handle) |
| **Response pipeline** `server/sender.rs`, here P | the writing half, a channel of elements (response future, close indicator) | take an element, wait for the response, wait for the close indicator, write header and body; keep or shut down | H (channel, indicator, join), T |
| **Message bodies** `ttpkit/src/body.rs` | decoder state, expected bytes, line decoder | `ChunkedStream`; the chunked, fixed-size and simple decoders; `Body::read`, `Body::discard` | `FramedRead`, R, the client's reader |
| **Line decoder** `ttpkit/src/line.rs` | the line so far, `drop_lf` | decode, decode at the end of the stream | header and chunk decoders |
| **Connection** `ttpkit-utils/src/io.rs` | a stack of prepended chunks, a read and a write timer | read, write, prepend, split, join, upgrade | all codecs |
| **HTTP client** `ttpkit-http/src/client` | the connection, the request timeout | write the request, wait for 100 Continue, decode the response, read its body in a task | a server |
| **WebSocket** `ttpkit-http/src/ws` | input buffer, message under construction, output buffer and position, `closed` | handshake; read and put together messages, send, flush, close, fail | its two halves, a task that says good-bye after a failure, the peer |
| **Header codecs** `ttpkit/src/{header,request,response}.rs` | the field under construction, limits | decode line by line, encode, look fields up | line decoder |
| **Builders and senders** `ttpkit-http/src/{request,response}.rs`, `client/request.rs`, `server/{response,sender,request}.rs` | a header | set, add, remove fields; add what the framing needs | header codecs, body decoders |
| **Multipart** `ttpkit/src/multipart.rs` | the inner stream, taken at its end | encode entities and the trailer | — |
| **URLs, queries** `ttpkit-url` | a text and offsets into it; a list of items | parse, access, change a part, join; percent-encode | client, server request |
| **Authentication** `ttpkit-auth` | none | challenges and responses: build, print, parse, verify | header fields |
| **Numbers, ASCII** `ttpkit-utils/src/{num,ascii}.rs` | the buffer of the hexadecimal encoder | decode, encode, trim, split | all codecs |

### What is hard here

*One connection is four tasks.* H waits for R (to get the reading half back), R for whoever consumes the body, the
consumer may be T or P, P waits for T (the response) and for H (the close indicator). The order in which responses
leave is decided by a channel, the fate of the connection by an indicator that H resolves after R and T have ended, by
the response's own header and by the framing of its body. No test of the repository drives these tasks against each
other.

*Bytes are read ahead.* Each codec reads into a buffer of its own and gives back what it did not use through the
prepend buffer. A byte lost, repeated, moved or decoded by the wrong decoder gives a different message, not an error.

*Endings.* End of stream between and inside messages, timeouts at every wait, panicking handlers, responses that close,
upgrades, failing write sides: each leaves the other tasks in some state.

*A client and a server each wait for the other one's next move*, with an expectation, a body and an upgrade in between,
and either may give up, time out or panic.

*Text goes through two hands.* What a builder or printer writes, another parser of the repository, or the other side,
takes apart: framing, tokens, quotes, offsets, lengths. Each side passes its own tests; that they agree is nobody's test.

*A WebSocket fails while it is half way through writing*: the task that sends the Close frame takes the socket over.

What makes the parts correct:

- connection: responses in request order; nothing after a response that closes; kept only at a message boundary; every
  request answered; every task ends; an upgraded connection belongs to its new owner alone;
- accept loop: permits conserved, connections served, the bound on connections kept;
- bodies: what is delivered is what was sent, whole or an error, and the next message starts where it starts;
- client: the answer returned is the final one, no body is sent unasked, both ends agree on an upgrade, no exchange hangs;
- codecs: what is written is what is read, and a decoder reads what a definition over the whole input says;
- connection buffers: no byte lost; timers: neither late nor early;
- WebSocket: messages put together exactly, frames never torn, one Close at most and last, offences answered.

## The modules

```
                    PipelinedResponses        what a connection promises its client
                             ^ refinement
 Server (accept loop)   ServerConnection (H, R, T, P)  <--- Exchange (the client, with this or another server)
                             |  bodies as counted units; here byte by byte:
                         MessageBody --- Lines
                             |  reads from
                         Connection (buffers and timers)            WebSocket (what an upgrade may lead to)

 pure:  Ascii <- Numbers, Fields, Auth, WsFrame;   Lines, Numbers, Fields <- HeaderCodec <- Messages, Handshake, Multipart
        Ascii, Numbers <- Urls <- Messages <- Handshake
        CodecInput with Lines <- LineCodec, with Numbers <- NumberCodec, with WsFrame <- FrameCodec
        all of them <- MCCodecs

 proofs:  X_proofs extends X;   LineCodec, NumberCodec, FrameCodec <- Codec_proofs;   ServerConnection_proofs <- Exchange_proofs
          SequenceFacts <- Connection_proofs, MessageBody_proofs, WebSocket_proofs, Codec_proofs
```

`Exchange` extends `ServerConnection`: every step of the server there is a step of H, R, T or P. The other modules are
composed by contract, not by INSTANCE, except for the refinement: `ServerConnection` takes from `MessageBody` that a
reader stops exactly at the end of a body, `MessageBody` takes from `Connection` that bytes given back come back. `Server`
takes nothing from `ServerConnection` but the order in which the tasks of a connection may end; it does not assume that they
end at all. `MCServer` runs the accept loop and the buffers and timers of a connection in one run, as two machines of which
a behaviour has one (`machine`).

### ServerConnection

One connection. A request is a record of what decides the control flow: version, whether it has
`Expect: 100-continue`, framing and number of chunks of its body, what the user's handler does with the body (ignore,
drain, read once and drop, echo it as the response body, ask for an upgrade, panic) and what the response says (known
size, stream of unknown length, `Connection: close`). A body is a number of units; the last unit of a chunked one is
its trailer.

- H is `hpc`. `HAccept`, `HReject` (unsupported expectation or framing) and `HRejectLate` (the request cannot be built
  after R was spawned) are the three ends of decoding a good header; `HStop` is end of stream or timeout, `HFail` a
  malformed header or I/O error, on which H returns at once without joining P. `HSend*` are `SinkExt::send`:
  `futures::mpsc` takes an element in whenever the receiver lives, and parks the sender *afterwards* while the channel
  is over its depth, hence `PipelineReady` guards the action after the send. `HJoin`/`HJoinLost` join R, `HContinue`,
  `HCloseVersion10` and `HUpgrade` join T and resolve the indicator, `HHandOver` and `HClose` join P.
- R[r] is `rpc[r]` with `rest[r]` units to read. `TakeConnection` returns the reading half only at the end of the
  body. The channel to the body is `bchan[r]` with the same parking rule (`BodyReady`).
- T[r] is `tpc[r]`; `polled[r]` is the `first_poll` notification and `bdrop[r]` the end of the body's receiver.
- P is `ppc`: take, wait for the response (or skip: a body dropped unread needs no 100 Continue, a panicked handler
  gives no response), wait for the indicator, write the header (`Framing` and `CloseAfter` are the decisions of
  `sender.rs`), write the body, go on or shut down. `wire` records the headers written.

`PipelinedResponses` is the abstract specification: requests are received, messages are sent in request order, the
interim one before the final one, nothing after one that closes. The mapping takes `n`, `wire` and "P has not ended".

### Server

The loop takes a permit *before* it accepts; the permit lives in the task of the connection handler. The handler, P
and a body reader are the three tasks of a connection that hold a part of it; `HandlerEnds` allows the handler to
return before P has ended exactly when no reader runs, which is when H may fail in `ServerConnection`. Nothing says that
the tasks of a connection end: a client may send requests for as long as it likes, and an echo (`server_echo`) may hang. So
`Served` promises a waiting connection nothing while `MaxConnections` handlers run for good (`Exhausted`); it says that the
loop goes on as soon as one permit comes back, whichever way its handler ends. Nor does it promise anything for a loop that
has stopped: one failing accept ends `serve`, which returns the error.

### Lines and MessageBody

`Lines` has one turn of the loop of `LineDecoder::decode` per byte (`DecodeByte`) with every separator option, and
`DecodeEof`. `MessageBody` sends the messages of one connection, byte by byte, through a network that cuts the stream
anywhere and may end it anywhere, into `FramedRead` (`Read`, `ReadEof`, `WantMore`, `Eof*`) with the three decoders
(`DecodeSimple`, `DecodeFixed`, the chunked one as `ChunkHeader` / `DecodeChunkBody` / `ChunkBodyDelimiter` /
`TrailerPart` with `LinePart`, `LineTooLong` and `ChunkHeaderInvalid` around the line decoder) and hands the bytes read
ahead to the next body (`TakeConnection`). Beside the reader the application runs `Body::read` on every body it has got
(`BodyRead`, `BodyReadEnd`), with the `max_size` of the message; when the limit is exceeded it drops the body, and the
reader stops after its next item (`Deliver`) or while it waits (`LoseConnection`), keeping the connection only if the
body was complete. A byte is a string such as "CR" or "1". The sender is `ChunkedStream`, or a
peer that writes chunk extensions and trailers. A header takes no bytes here: body follows body.

### Connection

The prepend buffer is a stack of chunks, of which the one pushed last is read first; a split moves it to the reader
half and a join back. Bytes are numbered in the order of arrival, so `NothingLost` can compare what is used, held and
buffered with `1..taken`. Timers count ticks; a timer that has elapsed makes its task run before the next tick, so
`rwaited` and `wwaited` are the time an operation has really waited. `AbandonRead` is a future that is dropped while it
waits, which is what a body reader does.

### Exchange

One call of `Client::request` (C, `cpc`), the task that reads the body of the response (D, `dpc`) and the user (U), who
reads that body, holds it unread or drops it, at the other end of a `ServerConnection` or of any other HTTP server
(`OAnswer`, `OUnit`, `OAnswered`, `OClose`), which may send any informational responses in front of its final one and close
when it likes. C refuses (`CRefuse`), writes the header, reads 100 Continue if it waits for it (`CReadInterim`), writes the
body, reads the answer and, on 101, joins its halves. The server's R reads what C has written; H reads one header. Timers
(`expired`) and a network failure (`cut`) may strike anywhere.

Bodies have a length in both directions, and the network holds `Window` units of each. C writes a unit if the network takes
it (`CWriteUnit`), and so does P, which awaits every write (`PUnit`, `PEchoUnit`; `Flowing`): the data of the response, and
the last chunk of a chunked one, or the units of the request that it echoes. D takes a unit out of the network and puts it
into its channel to the user (`DUnit`), with the parking rule of the server's channels (`DReady`, `ResponseDepth`): while
the channel is over its depth, D waits for the user to poll (`UPoll`) or to drop the body (`UDrop`), and no timer covers that
wait. A dropped body ends D at its next item (`DUnit`) or at once if it waits for one (`DDropped`). Headers, 100 Continue and the
responses H makes itself always fit into the network.

### The codecs

Byte strings are sequences of symbols: a symbol is a character the code looks at, or a run of characters it never takes
apart (`Ascii`). Each operator is one function of the source.

- `Numbers`: decimal and hexadecimal decoders with the width of their type, encoders with the buffer they reuse.
- `Fields`: `HeaderField::parse`, `HeaderFields` and its operations, the encoder and the decoder that buffers a field
  until the line after it is known. `HeaderCodec`: both header decoders as a fold of `DecodeLine` over the turns of
  `Lines`, their options and limits, the end of the stream, and both encoders.
- `Messages`: the builders as a function of a state and a *call*, what `Client::request` and
  `OutgoingResponseSender::send` do to the fields, and which body decoder each receiver picks.
- `Handshake`: the WebSocket handshake of both sides through builders, codecs and senders.
- `Urls`: a URL as text with offsets, as `InnerUrl` has it; accessors are slices, and each `with_` operation and `join`
  builds a text and parses it again. `RequestUrl` is how the server puts a URL together. Query dictionaries.
- `Auth`: quoted strings, lists of challenges, Digest from the server's builder through the client to `verify`, Basic.
  A hash is a record of what was hashed.
- `Multipart`: entities, trailer, `MultipartStream`.
- `WsFrame`: `Frame::encode` and `Frame::decode` on bytes, which are numbers here: lengths of one, two or eight bytes,
  masks. Of a length above `MaxBuffer` (4 MiB) the decoder knows only that no buffer is as long.

`MCCodecs` picks a topic and parameters, grows an input symbol by symbol, and compares in every state. Its references
are written on the whole input (`ReferenceLines`, `HeaderLines` with `FieldTexts`, `UrlOfParts`) or are the other side.
The references that the proofs are about are in modules of their own, over the variables of `CodecInput`: `LineCodec`
(`LinesExact`), `NumberCodec` (`NumbersExact`) and `FrameCodec` (`FramesExact`).

### WebSocket

One endpoint: `FrameSocket` with its buffers, `WebSocket` with the message under construction, a user whose two halves
read and write in any interleaving and who may give up a flush at any point, close or drop, the task spawned after a
failure, and a peer that sends any frames of a set, cut anywhere, may read slowly, end or reset. A frame is one unit of
header and one unit per piece of payload; text is made of a one-unit and a two-unit character so that text can be cut
inside a character. The operators `ProcessContinuation`, `ProcessData`, `ProcessPing` and `ProcessClose` are the arms of
`process_frame`. The properties compare with the meaning of the whole sequence of frames (`Messages`, `Offence`), which
is defined without any of the decoder's state.

## The runs

| Run | Instance | Shows |
|---|---|---|
| `exchange` | every kind of request to this server or to another one, bodies in both directions longer than network and channels (630 000 states) | the answer returned is final; no body sent before it is wanted; both ends agree on an upgrade; no answer lost; every exchange ends without a timer, but for six waits |
| `codecs` | all inputs up to the bounds below (313 000 inputs) | lines, headers, framing, handshake, URLs, credentials, numbers and frames against their references |
| `server_connection` | 3 requests of 9 kinds, pipeline depth 1, body depth 2 (174 000 states) | the safety of a connection: order, silence after close, reuse only at a boundary, upgrade exclusive, work bounded, refinement of `PipelinedResponses`; its liveness: every request is answered, 100 Continue reaches every handler that reads, all tasks end |
| `server_echo` | one echoing handler, 3 chunks, depth 1 | *violates* `Answered` |
| `server_accept` | the loop with 3 connections and 2 permits; one connection with 3 bytes and timeouts of 2 ticks (9 600 states) | permits conserved, no end of a handler keeps the loop from going on; no byte lost, no wait longer than its timeout |
| `server_limit` | 3 connections, 1 permit | *violates* `ConnectionsBounded` |
| `message_body` | all pairs of 7 first and 3 last bodies | a body is delivered whole, or not as complete; refused by `Body::read` exactly if it is above the limit; boundaries exact; bodies sent in full are delivered |
| `empty_item` | a stream with an empty item | *violates* `RoundTrip` |
| `stale_timer` | 1 byte, timeouts of 2 and 1 | *violates* `TimeoutEarned` |
| `websocket` | a client, capacity 3, 3 frames of 11 kinds, 1 message sent | messages exact, close status right, frames whole, one Close and last, offences answered |
| `lines_documented` | the inputs of `codecs` | *violates* `LinesAsDocumented` |
| `digest_support` | the inputs of `codecs` | *violates* `DigestSupported` |

### Bounds

*Requests* (`MaxRequests` = 3): the hazards relate a request to the one before (what is queued) and the one after (what
is kept for it); three give one with both neighbours. With *PipelineDepth* = 1 the channel holds two elements and parks,
so both sides of its limit are met; the server's default, 100, only moves that limit. *BodyDepth* = 2
(the code has 4) is above, at and below the numbers of units of the bodies: the chunked one has three and a trailer, so
that R parks until the handler takes an item. The nine kinds of requests cover each plan, each response, both versions and both
framings, not their product: the remaining combinations meet the same actions. The scripts (`MCScripts`) put every two kinds
side by side, each of them also twice. The echo there has one chunk, which the channel holds; longer ones are `server_echo`.

*Connections* (3 for 2 permits): one more than the permits, so one waits.

*Bodies*: bodies contain CR, LF and digits so that they look like their own encoding; two messages suffice for "the next
message starts at its first byte", because a decoder starts from scratch. Lines are limited to 5 bytes, and one form
of chunk header is a byte too long.

Limits of `Body::read` are below, at and above the length of the bodies, none and 0.

*Exchange*: one request, because every connect opens a connection of its own. Whether a wait can last depends on whether a
body is longer than what is between its writer and its reader, so each direction has an empty body and one that is longer.
With `Window` 1, `BodyDepth` 1 and `ResponseDepth` 1 (the code has 4 for both) a channel takes two items and parks behind
the second. A response of 4 units therefore parks D, fills the network and leaves P or the other server with a unit to write.
A request of 2 chunks fills the network and keeps C writing while nobody reads; its second chunk parks R, so that an echo
meets the wait of `server_echo` here too (`EchoStalled`).

*Codecs*: `LineBound` 6 symbols of three (two separators of two bytes and a line between them), for each of the 28
combinations of separators, terminator and limit; `HeaderBound` 5 symbols after a start line and the beginning of a field,
enough for a field, its continuation, the next one and the empty line, with limits at and below what they need;
`CallBound` 3 calls of builders, in any order, because a call only meets what an earlier one left under the same name;
`UrlBound` 5 and all combinations of present, empty and missing parts; `QueryBound` 4 and `NumberBound` 4 symbols, one
digit more than the widths; `ListBound` 2 fields, entities, offers, items or challenges; `FrameBound` 5 bytes after the start of a
frame, and payloads of 0, 1, 5, 125 to 127, 65535 and 65536 bytes. The types of numbers are I8, U8 and U16 instead of
those of the machine, because the code is generic in them.

*Bytes and timeouts* of `server_accept`: three bytes can be in the three places (held, the buffer, the socket) with a
stack of two chunks; a timeout of two ticks has a before, a during and an after.

*WebSocket*: a message in three frames or two frames with a control frame in between; `Capacity` 3 is met exactly and
exceeded by frames and by sums; a `Window` of one unit makes every frame stop half way.

Deadlock is checked except where the system may stop: a WebSocket whose user and peer are done, an exchange whose ends
wait for each other or for the user (which `ExchangeEnds` is about), an input of `codecs` at its bound (also in
`lines_documented` and `digest_support`), and the two violating runs `server_echo`, which is about tasks that wait for each
other, and `server_limit`, in which nobody needs to connect. In `server_accept` the accept loop may be idle (`Quiet`: it has
stopped or waits for a client, and no task runs), and every other stop is an error.

### Fairness

`ServerConnection!Fairness`: H, P and each R and T make progress as long as they can, which is what an executor does
with tasks that are woken; the futures channels and join handles wake them. Waiting for the peer always ends: `HStop`
and `RError` stand for the timeouts of `ServerBuilder`, all of which have a default. T is fair because the plans are handlers
that do return. A failing write (`PWriteError`) is not owed.

`Server!ServerFairness`: the accept loop runs (`Acquire`, `Accept`, `Spawn`), and nothing else. Handlers, pipelines and
readers need not end, clients need not connect and the acceptor need not fail.

`MessageBody!FairSpec`: the sender sends what it has begun, the reader is polled, the application reads what it has asked
for. `Cut` is not fair.

`Exchange!ExchangeFairness`: the tasks of this repository at both ends (C, D, H, R, T, P) run when they can. No timer is owed,
because all of them may be switched off, and nothing is owed by the user, who may hold a response body unread for ever, by
the network or by another server.

`WebSocket!FairSpec`: the peer reads what is sent (an upgraded connection has no timers, so nothing else ends that
wait), the spawned task runs, and the user polls for messages while it has the socket. Nothing is assumed of the
user's writing side.

`Connection` has no fairness: a deadline is a safety property when time is counted.

## Six disagreements

1. **`server_echo`.** A handler that returns the request's body as the response's body is never answered when the body
   has more chunks than the channel takes: H joins R before it resolves the close indicator (`server/mod.rs:438`), P
   waits for the indicator before it polls the body (`sender.rs:55`), and R waits for the body to be polled. No timeout
   covers the three waits, so the connection hangs and keeps its permit.
2. **`server_limit`.** `max_connections` bounds the connection *handlers*. A handler that fails on a header
   (`server/mod.rs:334`) returns its permit while P may still write earlier responses; then more than `max_connections`
   connections are open.
3. **`empty_item`.** `ChunkedStream` encodes an empty item as the last chunk (`ttpkit/src/body.rs:519`) and goes on
   behind it; the receiver takes the rest of the body for the next message.
4. **`stale_timer`.** The read timer is not disarmed when a waiting read is given up (`ttpkit-utils/src/io.rs:142`),
   which every body reader does at the end of every body (`server/receiver.rs:361`). The time a handler takes then
   counts against the client's time for its next request, and the first read after it may fail at once.
5. **`lines_documented`.** "Lines can be separated by either CR, LF or CRLF or any combination"
   (`ttpkit/src/line.rs:85-86`). With CR and CR LF both chosen, a CR only marks the state and waits for the next byte
   (`line.rs:175`), and `decode_eof` does not look at the mark (`line.rs:197`): a CR that is the last byte of the input stays in
   the line, and with `require_terminator` ("the last line is terminated by a line separator", `line.rs:61`) the line is an
   error although it is terminated.
6. **`digest_support`.** `ttpkit-auth/CHANGELOG.md:9` announces "full Digest support". `verify` refuses every response of
   quality auth-int (`digest/response.rs:243`) and has only the hash of the password for a session algorithm, whose name is
   printed "-sess" and read as "-SESS" only (`digest/mod.rs:99`); a list of qualities is separated by ", " and read by words, so
   only its last item survives (`digest/mod.rs:131`). A client with the right password is then refused with what it builds
   from the server's own challenge.

## Named exceptions

Some properties hold but for cases that the modules name, each of them what the code does and nothing in the repository
denies; where something does, the case is one of the disagreements above:

- *Six waits that only a timer ends, if any* (`ExchangeEnds`). Each of them is needed: without it the run is violated.
  - `WaitsInVain`: an HTTP/1.0 request with an expectation; the client waits for 100 Continue whatever the version
    (`client/mod.rs:204`), the server sends it to 1.1 only.
  - `EchoInVain`: a handler that makes the body its response, asked with an expectation; P would be the first to poll the
    body, but only after the 100 Continue that it sends when the body is polled.
  - `PanicInVain`: a panicking handler yields no response and the connection stays open.
  - `EchoStalled`: the echo of a body longer than the channel, finding 1 as its client sees it.
  - `BothWriting`: the handler has dropped the body unread and returned a response; the client writes its whole body before
    it reads (`client/mod.rs:232`), P writes its whole response (`server/sender.rs:236-238`), and when neither fits into
    the network, both wait for the other to read.
  - `HeldUnread`: the user holds a response body without reading it; D is parked on its channel
    (`client/receiver.rs:285`) with the connection, and with it P, whose response does not fit into the network.
- *Lost answers* (`NoAnswerLost`): the handler has panicked, or the server has given up a body that the client still writes, so
  that the client's write may fail before it reads the answer (`client/mod.rs:232`). No property says that such an
  answer arrives.
- *Waiting connections* (`Served`): `MaxConnections` handlers that run for good, and an accept loop that has stopped.
- *Interim answers* (`FinalAnswer`): any answer but the awaited 100 is taken for the final one, so another server's 103, or
  a 100 nobody waits for, is returned to the user.
- *A CR at the end of the input* (`LinesExact`, `HeaderExact`) when both CR and CR LF separate lines (`PendingCr`): nothing is
  asserted of it. Finding 5 is about this case.
- *Framing* (`HeadersAgreed`): responses 1xx, 204 and 304 may be built with a body that the receiver does not read; the
  token "close" counts in the user's last Connection field only.
- *Sub-protocols* (`HeadersAgreed`): an offer with a comma or blanks comes apart on the way, and the client then
  refuses the server's choice.
- *URLs* (`UrlExact`): a text with a query or a fragment but no path has them in its host; a host with a colon (an IPv6
  address) does not come back from the Host header.
- *Digest* (`CredentialsAgreed`): that right answers are accepted is asserted for algorithms without a session and for
  quality auth or none; finding 6 is about the others. That wrong answers are refused is asserted for all.
- *Credentials* (`CredentialsAgreed`): the first parameter of a challenge, with a blank before "=", is read as a token. A Basic
  user name ends at its first colon.
- *Numbers* (`NumbersExact`): a lone "-" is up to the library.

## The proofs

Every safety property that the runs of the six stateful modules check is a theorem, and so are three of the seven
properties of the codecs; what the runs show for a small instance or for short inputs, the theorem states for all values
of the constants and for inputs of any length.

| Theorem | States | For all |
|---|---|---|
| `ServerConnection_proofs!TypeCorrect` | `[]TypeOK` | sets of requests, numbers of requests, channel depths |
| `!KeepAlive`, `!DecodeAtBoundary` | `[]KeepAliveAtBoundary`, `[]HeaderAtBoundary` | same |
| `!Order`, `!SilenceAfterClose` | `[]ResponsesInOrder`, `[]NothingAfterClose` | same |
| `!Exclusive`, `!Bounded` | `[]UpgradeExclusive`, `[]ConcurrencyBounded` | same |
| `!Implementation` | `Spec => PipelinedResponses!Spec` under the mapping | same |
| `Exchange_proofs!FinalReturned`, `!BodyOnDemand`, `!AnswerKept`, `!UpgradeShared` | `[]FinalAnswer`, `[]ExpectHonoured`, `[]NoAnswerLost`, `[]UpgradeAgreed` | the request of an exchange, sizes of the response, channel depths of both ends, window sizes, answers of another server |
| `MessageBody_proofs!DecoderTypes`, `!OnlyTheBody`, `!WholeBody`, `!StartsAtBoundary` | `[]TypeOK`, `[]PrefixDelivered`, `[]RoundTrip`, `[]BoundaryExact` | well-formed scripts of any length, limits of a line |
| `Connection_proofs!Deadlines`, `!NoByteLost`, `!ConnectionTypes` | `[]DeadlineKept`, `[]NothingLost`, `[]TypeOK` | numbers of bytes, pairs of timeouts |
| `WebSocket_proofs!ExactMessages`, `!ExplainedClose`, `!FramedWire`, `!LastClose`, `!SocketTypes` | `[]MessagesExact`, `[]CloseExplains`, `[]WireFramed`, `[]CloseLast`, `[]TypeOK` | both roles, sets of frames, capacities, windows, numbers of frames and messages |
| `Server_proofs!Conservation`, `!ServerTypes` | `[]PermitsConserved`, `[]ServerTypeOK` | finite sets of connections, numbers of permits |
| `Codec_proofs!ExactLines` | `LinesExact`: the lines, and the failures, of the reference | texts over any set of bytes, all separator options, limits of a line; not the texts of finding 5, whose last byte is a CR that may begin CR LF |
| `!ExactNumbers`, `!HexRoundTrip`, `!DecRoundTrip` | `NumbersExact`; every number is read as it is written | texts over any set of bytes, widths of a hexadecimal type, ranges of a decimal type |
| `!ExactFrames`, `!FrameRoundTrip`, `!FrameAwaited`, `!FrameDecodingStable` | `FramesExact`, and its three parts | opcodes, payloads of up to `MaxBuffer` bytes, masks, both roles, cuts, bytes that follow |

Assumptions on the constants: `Requests` is a subset of `RequestSet`; `MaxRequests`, `PipelineDepth`, `BodyDepth`,
`MaxConnections` are natural numbers (zero included), `MaxRequests` is 1 in `Exchange`, response sizes are
natural numbers and `ResponseDepth` is positive; capacities, windows and the bounds of
`WebSocket` are positive; `Conns` is finite; timeouts and
`MaxLineLength` are positive; a chunk of `MessageBody` is shorter than 4 bytes, because its size is one digit there; the frames
of `WebSocket` are records of the fields that the code reads. TLC evaluates each of them in the runs. None of the theorems needs
fairness.

The theorems about `MessageBody` have one hypothesis more, `WellSent`: a chunked body has no empty item, and a body that
the end of the stream delimits is the last one. The first cannot be left out: it is what `empty_item` violates
(`RoundTrip` fails there). The second is what such a framing means. `MCMessageBody` assumes `WellSentScript` of its scripts, so the
run `message_body` is about scripts to which the theorems apply.

*Types.* `TypeOK` of `ServerConnection` is not inductive by itself: `Holding` adds that H has a request in hand in the
states that name one, and that P has an element in hand in the states that use it.

*Boundaries* (`BoundaryInv`). That a response without close means "the body has been read to its end and the reading
half is back" is a chain through three tasks: R returns only when complete (`ReturnedComplete`); H resolves an indicator
to false only after R has returned (`KeptReturned`), with everything earlier returned while it decodes
(`EarlierReturned`) and everything it has not decided still pending (`Undecided`); P writes only once the indicator is
resolved (`CloseDecided`) and writes a message without close only if it is false (`WrittenKept`). The chain is needed
because at the time of the response H may be two requests ahead.

*Order* (`OrderInv`). Every message has a place, `2 * request`, plus one for a final response. Places grow along the
wire, then the element P holds, then the queue, and everything is below `Limit`, the place of the next element that H
may still send for the state it is in. `LastCloses` adds that a response that closes is the last one on the wire and that
P, once it has written it, takes nothing more.

*Refinement.* Under these invariants `HAccept`, `HReject` and `HRejectLate` are `Receive`, `PHeader` is `Send` (its
guard is exactly `OrderInv` and `LastCloses` about the element P holds), the steps that end P are `Shut`, and every
other step is a stutter.

*Upgrades* (`HandOverInv`). `UpgradeExclusive` speaks of the moment after the hand-over, when everybody else has ended.
Before it, `LastQueued` follows the response to the request H works on: it is the last thing queued, or in P's hands, or
written; P returns its half only from an empty channel that H has closed (`ChannelClosed`), and not after a response
that closes (`WriterKeeps`). So the response is on the wire when the new owner gets the connection.

*Load* (`LoadInv`). A handler runs only while H works on its request, so the handlers that have not been answered are
counted by where their responses are: in the channel, which parks its sender beyond its depth (`DepthKept`), or in P's
hands, once each (`NoneLost`). `ConcurrencyBounded` counts a set of requests; the bound is an injection into those places.

*Exchanges* (`ExchangeInv`). Every step of an exchange is a step of the server or leaves the server alone
(`ServerMoves`), so the invariants above hold here too. `AnswerInv` adds what a client relies on: 100 Continue only for a
request that wants it and never with close (`ContinueWanted`), and an answer that H has sent is on its way until P gives up
(`AnswerOwed`). `ClientInv` relates the two ends: how many headers C has read in each of its states (`Progress`), that it writes a
body only when invited (`Invited`), that R is never ahead of C (`ReadWritten`), and that a server is silent only for a reason
(`Reasons`).

*Bodies* (`BodyInv`). `RoundTrip` is about whole bodies, so it says nothing in the middle of one. `DecodeInv` says where the
decoder is at any time: in which piece of which message (`AtHeader`, `AtData`, `AtDelimiter`, `AtTrailer`, `AtEnd`), how many
bytes of the line it has in its buffer, and that what it has returned are the first bytes of the body up to there. The
places are those of the sender's encoding (`PieceStart`, `DataStart`); `SentInv` says that the wire is whole messages
and the first pieces of the next one, hence a prefix of the stream (`WireIs`), so that the byte a decoder finds at a
place is the byte the encoding has there, even though the stream may be cut inside any piece. `LineByte` follows the line decoder
byte by byte, `HeaderSize` is what a chunk header says. `ReadInv` is the count of `Body::read`.

*Bytes* (`ByteInv`). One of the two prepend buffers is empty, no chunk is, and the bytes used, held and buffered make up
`1..taken`. `PushChunkIs` and `ReadChunkIs` say what the operations on the stack do to the bytes it stands for.

*Deadlines* (`DeadlineInv`). For a side that waits, the time waited plus the time left is at most the timeout. It is "at
most", not "exactly", because the timer may have been armed before the wait began; this is the stale timer of finding 4
seen from the other side.

*WebSockets.* `WireInv`: what is written and the rest of the output buffer are the encodings of the messages accepted, one
after the other; a message is accepted only when the buffer is empty. `ReaderInv`: after `k` frames the input (buffer and network)
is the frames that follow, unless it was cut off, and the message under construction is the one those frames began
(`ReadingAt`); `Processed` shows that each arm of `process_frame` is one step of the definition of what frames mean, and
`MessagesGrow` and `MessagesPrefix` that this meaning only grows. `CloseInv`: a message that ends the socket is the last.

*Permits* (`PermitInv`). Conservation needs that a connection accepted or waiting has no handler yet (`Waiting`), so that
spawning adds exactly one to the number of running handlers.

*Sequences.* `SequenceFacts` holds what several of these proofs need of `FlattenSeq` and `Reverse`. The library defines both by
recursion, and its induction theorem takes an operator as parameter; `SetInduction` takes a set instead, which the provers can
instantiate, and the functions behind the definitions are shown to exist and to be unique.

*Codecs.* The theorems of `Codec_proofs` say nothing of steps: they hold of `topic`, `params` and `text` whenever these are
of the kinds that the topics have, a text being a sequence of any length over any set of bytes. What a codec does byte by byte,
and the value its reference gives to a text, are recursive functions (`Runs`, `HexSums`, `DecSums`, `LinesFrom`,
`Numbers256`). `RecursionExists`, `RunExists` and `RunUnique` show that such a function exists and is unique, so that its equation
may be used; an induction is over the set of positions where the claim fails (`LeastNatural`) or holds (`SetInduction`).

*Lines.* `Agrees` says that the decoder, fed the bytes from the beginning of a line on, returns the lines the reference has
from there. It is proved for the last line first. Within a line the decoder holds the bytes since its beginning
(`Reached`, `WithinLine`); at a separator it is fresh again, or it waits for the LF that may follow a CR (`FeedWaiting`), so a
line begins in one of two states (`Fresh`, `FreshStarts`). A line longer than the limit fails at the byte that is one too many
(`LineFull`), and a failure stays (`FailureStays`).

*Numbers.* `HexValuesAre` and `HexDecoded` follow `push_hex_digit`: the test of the top digit fails exactly if the sum of the
digits no longer fits (`PushExact`), also with leading zeros. `AccumulatedExact` does it for `atoi`, which stops at the first
value out of range, on either side of zero. The encoders write quotients until one is 0, which happens (`QuotientsEnd`), into
a buffer that may hold older digits (`HexStored`).

*Frames.* `Layout` says where the decoder finds the parts that the encoder wrote (`WireParts`, `BytesOfParts`), whichever of the
three forms the length has (`Announced`, `NumberOfTwo`, `NumberOfEight`). The mask gives the payload back because the exclusive
or of the same byte twice is the byte (`XorTwice`, bit by bit, `BitsSum`), and a mask of 0 is none (`ZeroMask`). A decoder that has
the first bytes only sees the same header and the same payload if it sees them at all (`WholeKept`), so what it says stays
true (`PrefixStable`); and as it leaves nothing of a frame that is there as a whole, a part of one can only be waited for
(`FrameAwaited`).

All inductive invariants were checked by TLC on the instances of the runs before they were proved; `ExactLines`,
`ExactNumbers` and `ExactFrames` are about properties that the run `codecs` checks.

Only model-checked: all liveness (`Answered`, `ContinueSent`, `TasksEnd`, `Served`, `Delivered`, `OffenceAnswered`,
`ExchangeEnds`), which is outside of what TLAPS proves, and four properties of the codecs: `HeaderExact`, `HeadersAgreed`,
`UrlExact` and `CredentialsAgreed`. Each of them takes a text through a whole chain of
printers and parsers. Some of these are RECURSIVE operators (`Auth`, `HeaderCodec`, `Urls`, and the references `HeaderLines`,
`Polls` and `ReadEntities` of `MCCodecs`), in whose modules the provers lose their SMT back end; others filter lists with
`SelectSeq`, whose operator argument the library's induction cannot be applied to. Two links of these chains are theorems:
the lines that a header is read from (`ExactLines`) and the numbers in it (`ExactNumbers`).

## What is not modelled

- In `ServerConnection` and `Exchange` a header is decoded in one step, and the header timeout and the read timeout of the
  server are one action; how bytes become headers and chunks is in `HeaderCodec` and `MessageBody` (chunk sizes 0 to 3
  there; the overflow of a size is in `Numbers`).
- In `Exchange` a header always fits into the network: P never waits to write one. A body in both directions may.
- Channels between a body reader and `Body::read` have no depth in `MessageBody`; that they fill up is in `ServerConnection`.
- In `WebSocket` a header is one unit and the capacity is counted in units; the endpoint is a client in the run. The only
  difference of a server is that it accepts masked frames, and the bytes of both roles are in `WsFrame`.
- Bytes outside ASCII: percent-encoding knows them by one symbol; case folding and trimming are ASCII in the code too.
- Hash functions and base64 are free constructors, the nonces and keys are parameters.
- Ready-made responses and their texts, conversions of header values to types other than numbers, addresses.
- TLS and TCP connectors (wrappers without state of their own) and error types.

Some behaviour is modelled and no property restricts it, because nothing in the repository promises otherwise: after a
response that closes, H still runs the next request; a received Close frame sets the flag of a sent one
(`ws/mod.rs:372`), so that the peer's closing handshake is not answered; an input error of a WebSocket repeats at every
poll (`ws/mod.rs:386`), and an end between two fragments is a regular end; an upgraded connection has no timeouts
(`io.rs:112`).

## The plan

What is left:

1. `HeaderExact` on top of `ExactLines`, with `HeaderCodec` written without recursive operators.
2. A run with a server as the endpoint of `WebSocket` (the theorems cover both roles), and a body channel with its depth in
   `MessageBody`, if the state space allows.
