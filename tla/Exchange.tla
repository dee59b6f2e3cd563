------------------------------- MODULE Exchange -------------------------------
(***************************************************************************)
(* One request of the HTTP client (client/mod.rs, Client::request) and the *)
(* connection it opens, with two kinds of servers at the other end: the    *)
(* one of this repository (ServerConnection, all of whose tasks take part) *)
(* and any other HTTP server, which may answer at any time, send further   *)
(* informational responses, and close the connection.  Bodies flow in      *)
(* units, in both directions through a network that holds Window of them;  *)
(* headers always fit.                                                     *)
(*                                                                         *)
(*   C   Client::send_inner: writes the header, waits for 100 Continue if  *)
(*       the request expects it, writes the body, reads the response       *)
(*   D   the task that reads the body of a response (client/receiver.rs)   *)
(*   U   the user, who reads the body of the response, holds it unread or  *)
(*       drops it                                                          *)
(*                                                                         *)
(* The request sent is script[1] of ServerConnection.  Every connect opens *)
(* a connection of its own, so that there is never a second one.           *)
(***************************************************************************)
EXTENDS ServerConnection

CONSTANTS
    Window,         \* units of a body that the network holds in each direction
    ResponseSizes,  \* the sizes of response bodies, in units
    ResponseDepth   \* the depth of the channel from D to the response body

ASSUME ExchangeAssumption ==
    /\ MaxRequests = 1
    /\ Window \in Nat \ {0}
    /\ ResponseSizes \subseteq Nat
    /\ ResponseDepth \in Nat \ {0}

VARIABLES
    peer,     \* the server: "ttpkit" or "other" (never changes)
    size,     \* units of a response body that is no echo (never changes)
    cpc,      \* control state of C
    dpc,      \* control state of D
    sent,     \* what C has written: 0 nothing, 1 + k the header and k units
    cread,    \* the number of response headers C has read
    got,      \* the last of them
    held,     \* the response body that D fills has not been dropped
    din,      \* units of the response body that D has read
    dchan,    \* items in the channel from D to the response body
    out,      \* units of the response body that the server has written
    answers,  \* the response headers another server has written
    answered, \* another server has written the body of its final response
    oclosed,  \* another server has closed the connection
    cut,      \* the network has failed
    expired   \* a timer has fired

ovars == <<answers, answered, oclosed>>
cvars == <<cpc, sent, cread, got>>
dvars == <<dpc, held, din, dchan>>
evars == <<vars, peer, size, cvars, dvars, ovars, out, cut, expired>>

CEnded == {"refused", "failed", "returned", "upgraded"}
Request1 == script[1]
Units == BodyUnits(Request1)
Arrived == sent - 1 - (Units - rest[1])     \* units the server can read

(***************************************************************************)
(* What the client can see of the server                                   *)
(***************************************************************************)
StatusOf(m) == CASE m.kind = "continue" -> "100"
                 [] m.kind = "response" /\ Request1.plan = "upgrade" -> "101"
                 [] OTHER -> "final"
Headers == IF peer = "other" THEN answers
           ELSE [i \in 1 .. Len(wire) |-> StatusOf(wire[i])]
Interim == {"100", "101", "103"}

(* The server has dropped both halves of the connection ...                *)
ServerGone ==
    IF peer = "other" THEN oclosed
    ELSE /\ hpc \in HEnded \ {"upgraded"} /\ ppc \in PEnded
         /\ rpc[1] \notin {"reading", "failing"}
(* ... or P has at least shut the writing half down, as it does after an   *)
(* error, too.                                                             *)
EndOfStream == ServerGone \/ (peer = "ttpkit" /\ ppc \in {"shut", "failed"})

(* The units of a response: its data, and the last chunk of a chunked      *)
(* body.  Early responses and 100 Continue are empty.                      *)
DataUnits(m) ==
    IF m.kind # "response" \/ Request1.plan = "upgrade" THEN 0
    ELSE IF Request1.plan = "echo" THEN Request1.chunks
    ELSE size
AnswerUnits(m) == DataUnits(m) + (IF m.framing = "chunked" THEN 1 ELSE 0)

(* The network takes another unit of the response.                         *)
Flowing == out - din < Window

(* The body of the response read last ends with the k-th unit ...          *)
EndsWith(k) ==
    IF peer = "other" THEN answered /\ k = out
    ELSE wire[cread].framing # "eof" /\ k = AnswerUnits(wire[cread])

(* ... and is complete: it is empty by its status, all read, or the end of *)
(* the connection delimits it.                                             *)
AnswerComplete ==
    \/ got \in Interim
    \/ EndsWith(din)
    \/ /\ peer = "ttpkit" /\ wire[cread].framing = "eof"
       /\ EndOfStream /\ din = out

(* The channel from D, as those of the server; an item more than its depth *)
(* parks D until the user polls or drops the body.                         *)
DReady == ~held \/ dchan <= ResponseDepth
DropBody == held' = FALSE /\ dchan' = 0
DEnded == dpc \notin {"reading", "failing"}

(* The client has dropped both halves of the connection.                   *)
ClientGone == cpc \in CEnded \ {"upgraded"} /\ DEnded

ExchangeInit ==
    /\ Init
    /\ peer \in {"ttpkit", "other"} /\ size \in ResponseSizes
    /\ cpc = "start" /\ sent = 0 /\ cread = 0 /\ got = "none"
    /\ dpc = "none" /\ held = FALSE /\ din = 0 /\ dchan = 0 /\ out = 0
    /\ answers = <<>> /\ answered = FALSE /\ oclosed = FALSE
    /\ cut = FALSE /\ expired = FALSE

(***************************************************************************)
(* C: Client::request, Client::send_inner                                  *)
(***************************************************************************)
(* A body of unknown size needs chunked encoding, which 1.0 has not.       *)
CRefuse ==
    /\ cpc = "start"
    /\ Request1.encoding = "chunked" /\ Request1.version = 10
    /\ cpc' = "refused"
    /\ UNCHANGED <<sent, cread, got, dvars>>

(* Mutant of CWriteHeader: the body follows without waiting.               *)
CWriteHeaderEager ==
    /\ cpc = "start"
    /\ Request1.encoding = "chunked" => Request1.version = 11
    /\ sent' = 1
    /\ cpc' = "body"
    /\ UNCHANGED <<cread, got, dvars>>

(* The expectation counts whatever the version of the request.             *)
CWriteHeader ==
    /\ cpc = "start"
    /\ Request1.encoding = "chunked" => Request1.version = 11
    /\ sent' = 1
    /\ cpc' = IF Request1.expect THEN "interim" ELSE "body"
    /\ UNCHANGED <<cread, got, dvars>>

(* ResponseDecoder::decode: the header is read, D is spawned.              *)
ReadResponse ==
    /\ cread < Len(Headers)
    /\ cread' = cread + 1
    /\ got' = Headers[cread + 1]
    /\ dpc' = "reading"
    /\ held' = TRUE /\ dchan' = 0
    /\ UNCHANGED <<sent, din>>

(* Mutant of CReadInterim: an answer other than 100 Continue is an error.  *)
CReadInterimStrict ==
    /\ cpc = "interim"
    /\ ReadResponse
    /\ cpc' = IF got' = "100" THEN "joinBody" ELSE "failed"

(* Mutant of CReadInterim: every answer is taken for the final one.        *)
CReadInterimFinal ==
    /\ cpc = "interim"
    /\ ReadResponse
    /\ cpc' = "returned"

CReadInterim ==
    /\ cpc = "interim"
    /\ ReadResponse
    /\ cpc' = CASE got' = "100" -> "joinBody"
                [] got' = "101" -> "joinUpgrade"
                [] OTHER        -> "returned"

CReadAnswer ==
    /\ cpc = "answer"
    /\ ReadResponse
    /\ cpc' = IF got' = "101" THEN "joinUpgrade" ELSE "returned"

(* "connection closed", or an I/O error.                                   *)
CClosed ==
    /\ cpc \in {"interim", "answer"}
    /\ cut \/ (cread = Len(Headers) /\ EndOfStream)
    /\ cpc' = "failed"
    /\ UNCHANGED <<sent, cread, got, dvars>>

(* Mutant of CJoin: after 100 Continue the client waits for the response.  *)
CJoinForgetful ==
    /\ dpc = "joined"
    /\ \/ cpc = "joinBody" /\ cpc' = "answer"
       \/ cpc = "joinUpgrade" /\ cpc' = "upgraded"
    /\ DropBody
    /\ UNCHANGED <<sent, cread, got, dpc, din>>

(* D has given the reading half back.                                      *)
CJoin ==
    /\ dpc = "joined"
    /\ \/ cpc = "joinBody" /\ cpc' = "body"
       \/ cpc = "joinUpgrade" /\ cpc' = "upgraded"
    /\ DropBody
    /\ UNCHANGED <<sent, cread, got, dpc, din>>

CJoinLost ==
    /\ cpc \in {"joinBody", "joinUpgrade"} /\ dpc = "lost"
    /\ cpc' = "failed"
    /\ DropBody
    /\ UNCHANGED <<sent, cread, got, dpc, din>>

CWriteUnit ==
    /\ cpc = "body"
    /\ sent <= Units
    /\ peer = "ttpkit" => Arrived < Window
    /\ sent' = sent + 1
    /\ UNCHANGED <<cpc, cread, got, dvars>>

CWritten ==
    /\ cpc = "body"
    /\ sent = Units + 1
    /\ cpc' = "answer"
    /\ UNCHANGED <<sent, cread, got, dvars>>

(* A failed write ends the exchange, whatever answer is on the way.        *)
CWriteFail ==
    /\ cpc = "body" /\ sent <= Units
    /\ cut \/ ServerGone
    /\ cpc' = "failed"
    /\ UNCHANGED <<sent, cread, got, dvars>>

CNext == \/ CRefuse \/ CWriteHeader \/ CReadInterim \/ CReadAnswer \/ CClosed
         \/ CJoin \/ CJoinLost \/ CWriteUnit \/ CWritten \/ CWriteFail

(* Client::send: the timeout drops the future that runs C, and the         *)
(* response it holds with it; D goes on by itself.                         *)
CTimeout ==
    /\ cpc \notin CEnded
    /\ cpc' = "failed"
    /\ DropBody
    /\ expired' = TRUE
    /\ UNCHANGED <<sent, cread, got, dpc, din>>

(***************************************************************************)
(* D: ResponseBodyReader, and the user who holds the response body         *)
(***************************************************************************)
(* A unit with data goes into the channel; if the body has been dropped,   *)
(* D stops there (take_connection).                                        *)
DUnit ==
    /\ dpc = "reading" /\ DReady /\ got \notin Interim
    /\ din < out
    /\ din' = din + 1
    /\ IF peer = "ttpkit" /\ din = DataUnits(wire[cread])
       THEN UNCHANGED <<dpc, dchan>>
       ELSE IF held THEN dchan' = dchan + 1 /\ UNCHANGED dpc
       ELSE /\ dpc' = IF EndsWith(din + 1) THEN "joined" ELSE "lost"
            /\ UNCHANGED dchan
    /\ UNCHANGED <<cvars, held>>

DJoin ==
    /\ dpc = "reading" /\ DReady /\ AnswerComplete
    /\ dpc' = "joined"
    /\ UNCHANGED <<cvars, held, din, dchan>>

(* An error goes through the channel, too, and ends D.                     *)
DFail ==
    /\ dpc = "reading" /\ DReady
    /\ dpc' = "failing"
    /\ dchan' = IF held THEN dchan + 1 ELSE dchan
    /\ UNCHANGED <<cvars, held, din>>

(* The body is cut short or the connection fails, ...                      *)
DError == DFail /\ (cut \/ (EndOfStream /\ din = out /\ ~AnswerComplete))

(* ... or nothing comes in time.  A parked D has no timer.                 *)
DTimeout == DFail /\ din = out /\ ~AnswerComplete /\ expired' = TRUE

DLost ==
    /\ dpc = "failing" /\ DReady
    /\ dpc' = "lost"
    /\ UNCHANGED <<cvars, held, din, dchan>>

(* Nobody wants the rest of the body.                                      *)
DDropped ==
    /\ dpc = "reading" /\ ~held /\ din = out /\ ~AnswerComplete
    /\ dpc' = "lost"
    /\ UNCHANGED <<cvars, held, din, dchan>>

DNext == DUnit \/ DJoin \/ DError \/ DLost \/ DDropped

UPoll ==
    /\ cpc = "returned" /\ held /\ dchan > 0
    /\ dchan' = dchan - 1
    /\ UNCHANGED <<cvars, dpc, held, din>>

UDrop ==
    /\ cpc = "returned" /\ held
    /\ DropBody
    /\ UNCHANGED <<cvars, dpc, din>>

(***************************************************************************)
(* The server of this repository                                           *)
(***************************************************************************)
(* H reads what the client has written.  The header is one that the server *)
(* takes, unless the user has set an expectation other than 100-continue.  *)
SDecode ==
    \/ sent > 0 /\ HAccept
    \/ sent > 0 /\ ~Request1.expect /\ HReject
    \/ (n = 1 \/ sent = 0) /\ ClientGone /\ HStop
    \/ cut /\ HFail

SReader ==
    \/ Arrived > 0 /\ (RChunk(1) \/ RTrailer(1))
    \/ Arrived = 0 /\ rest[1] > 0 /\ ClientGone /\ RError(1)
    \/ cut /\ RError(1)
    \/ RLost(1) \/ RStop(1)

HMove ==
    \/ SDecode \/ HSendContinue \/ HSendResponse \/ HJoin \/ HJoinLost
    \/ HContinue \/ HCloseVersion10 \/ HUpgrade \/ HHandOver
    \/ HSendEarly \/ HEarlySent \/ HClose

(* P awaits every write of a unit (sender.rs, OutgoingResponseSender).  An *)
(* echoed item is written as it is taken, unless it is the error.          *)
Answer == wire[Len(wire)]
EchoedData == bchan[1] > 0 /\ ~(berr[1] /\ bchan[1] = 1)
PEchoUnit ==
    /\ Flowing /\ PEcho
    /\ out' = IF EchoedData THEN out + 1 ELSE out
PUnit ==
    /\ ppc = "body" /\ Flowing /\ out < AnswerUnits(Answer)
    /\ Echoes(cur) => BodyEnd(1) /\ ~berr[1]
    /\ out' = out + 1
    /\ UNCHANGED vars

PMove ==
    \/ PEchoUnit \/ PUnit
    \/ /\ \/ PTake \/ PReturn \/ PResponse \/ PSkip \/ PCloseKnown \/ PHeader
          \/ ppc = "body" /\ out = AnswerUnits(Answer) /\ PFinish
          \/ PBodyError
          \/ (cut \/ ClientGone) /\ PWriteError
       /\ UNCHANGED out

(* The timers of the server, while it waits for the client.                *)
STimeout ==
    /\ \/ (n = 1 \/ sent = 0) /\ HStop
       \/ Arrived = 0 /\ rest[1] > 0 /\ RError(1)
       \/ ppc = "body" /\ ~Flowing /\ out < AnswerUnits(Answer) /\ PWriteError
    /\ expired' = TRUE
    /\ UNCHANGED out

(***************************************************************************)
(* Any other server                                                        *)
(***************************************************************************)
(* 100 and 103 at most once each, nothing after the final answer.          *)
OAnswer ==
    /\ sent > 0 /\ ~oclosed
    /\ \A i \in DOMAIN answers : answers[i] \in {"100", "103"}
    /\ \E a \in {"100", "101", "103", "final"} :
          /\ \A i \in DOMAIN answers : answers[i] # a
          /\ answers' = Append(answers, a)
    /\ UNCHANGED <<answered, oclosed, out>>

OUnit ==
    /\ ~answered /\ ~oclosed /\ Flowing
    /\ \E i \in DOMAIN answers : answers[i] = "final"
    /\ out < size
    /\ out' = out + 1
    /\ UNCHANGED ovars

OAnswered ==
    /\ ~answered /\ ~oclosed
    /\ \E i \in DOMAIN answers : answers[i] = "final"
    /\ answered' = TRUE
    /\ UNCHANGED <<answers, oclosed, out>>

OClose ==
    /\ ~oclosed
    /\ oclosed' = TRUE
    /\ UNCHANGED <<answers, answered, out>>

(***************************************************************************)
(* The composition                                                         *)
(***************************************************************************)
Cut ==
    /\ ~cut
    /\ cut' = TRUE
    /\ UNCHANGED <<vars, peer, size, cvars, dvars, ovars, out, expired>>

ClientStep(A) ==
    A /\ UNCHANGED <<vars, peer, size, ovars, out, cut>>
ServerStep(A) ==
    peer = "ttpkit" /\ A /\ UNCHANGED <<peer, size, cvars, dvars, ovars, cut>>
OtherStep(A) ==
    /\ peer = "other" /\ A
    /\ UNCHANGED <<vars, peer, size, cvars, dvars, cut, expired>>

ServerEnded ==
    /\ hpc \in HEnded /\ ppc \in PEnded
    /\ tpc[1] # "running" /\ rpc[1] \notin {"reading", "failing"}
ExchangeEnded == cpc \in CEnded /\ DEnded

Over ==
    /\ ExchangeEnded
    /\ peer = "ttpkit" => ServerEnded
    /\ UNCHANGED evars

CStep == ClientStep(CNext /\ UNCHANGED expired)
DStep == ClientStep(DNext /\ UNCHANGED expired)
HStep == ServerStep(HMove /\ UNCHANGED <<out, expired>>)
RStep == ServerStep(SReader /\ UNCHANGED <<out, expired>>)
TStep == ServerStep(TNext(1) /\ UNCHANGED <<out, expired>>)
PStep == ServerStep(PMove /\ UNCHANGED expired)

ExchangeNext ==
    \/ CStep \/ DStep \/ HStep \/ RStep \/ TStep \/ PStep
    \/ ClientStep(CTimeout) \/ ClientStep(DTimeout) \/ ServerStep(STimeout)
    \/ ClientStep((UPoll \/ UDrop) /\ UNCHANGED expired)
    \/ OtherStep(OAnswer) \/ OtherStep(OUnit) \/ OtherStep(OAnswered)
    \/ OtherStep(OClose)
    \/ Cut \/ Over

(* Every task of this repository makes progress.  Nothing is owed by the   *)
(* user, who may hold a body unread for ever, nor by a timer: they may all *)
(* be switched off (ClientBuilder and ServerBuilder take None).            *)
ExchangeFairness ==
    /\ WF_evars(CStep) /\ WF_evars(DStep) /\ WF_evars(HStep)
    /\ WF_evars(RStep) /\ WF_evars(TStep) /\ WF_evars(PStep)

ExchangeSpec ==
    ExchangeInit /\ [][ExchangeNext]_evars /\ ExchangeFairness

(***************************************************************************)
(* Properties                                                              *)
(***************************************************************************)

(* Client::request returns the final answer of a server of this            *)
(* repository, never its 100 Continue.  Another server's informational     *)
(* response is taken for the final one exactly if it is not the            *)
(* 100 Continue that the request waits for (client/mod.rs:209 and 234).    *)
FinalAnswer ==
    cpc = "returned" /\ got # "final" =>
        /\ peer = "other" /\ got # "101"
        /\ got = "100" => ~Request1.expect \/ cread > 1

(* A client that expects 100 Continue sends no byte of its body before the *)
(* other side wants it: at a server of this repository, before the         *)
(* handler has polled the body.                                            *)
ExpectHonoured ==
    Request1.expect /\ sent > 1 =>
        IF peer = "ttpkit" THEN polled[1]
        ELSE \E i \in DOMAIN answers : answers[i] = "100"

(* The two ends agree on an upgrade: when the client has joined its halves *)
(* into an upgraded connection, no reader of its own is left, and H hands  *)
(* the connection over, or the response said "Connection: close" because   *)
(* the body of the request was not read.                                   *)
UpgradeAgreed ==
    cpc = "upgraded" =>
        /\ dpc = "joined" /\ got = "101"
        /\ peer = "ttpkit" =>
             \/ hpc \in {"handover", "upgraded"}
             \/ wire[cread].close
             \/ cut

(* No answer is lost without a timer or a failure of the network, unless   *)
(* the handler panics or the server gives up the body: then the client's   *)
(* write may fail before it reads the answer (client/mod.rs:232).          *)
NoAnswerLost ==
    cpc = "failed" /\ peer = "ttpkit" /\ ~expired /\ ~cut =>
        tpc[1] = "panicked" \/ rest[1] > 0

(* An HTTP/1.0 request that expects 100 Continue: the client waits for it  *)
(* whatever the version (client/mod.rs:204), the server sends it to 1.1    *)
(* only and waits for the body (server/receiver.rs:157).                   *)
WaitsInVain == cpc = "interim" /\ Request1.version = 10

(* A handler that makes the body its response, asked with an expectation:  *)
(* P sends 100 Continue when the body is polled, and would itself be the   *)
(* first to poll it, for the response behind (server/mod.rs:366).          *)
EchoInVain ==
    ppc = "response" /\ cur.kind = "continue" /\ Request1.plan = "echo"

(* A handler that panics: its response is skipped, the connection stays,   *)
(* the client waits for an answer and H for the next request.              *)
PanicInVain == cpc \in {"interim", "answer"} /\ tpc[1] = "panicked"

(* A handler that makes the body its response: P polls the body only when  *)
(* the close indicator is known (server/sender.rs:55), H resolves it when  *)
(* R is done, and R waits for room in the channel to the body.             *)
EchoStalled ==
    /\ ppc = "close" /\ Echoes(cur)
    /\ rpc[1] \in {"reading", "failing"} /\ ~BodyReady(1)

(* The client writes its whole body before it reads (client/mod.rs:232), P *)
(* its whole response (server/sender.rs:236): when the handler has dropped *)
(* the body and neither fits into the network, both write for ever.        *)
BothWriting ==
    /\ cpc = "body" /\ sent <= Units /\ Arrived >= Window
    /\ ppc = "body" /\ ~Flowing

(* The user holds the body without reading it: D is parked, with the       *)
(* connection and no timer (client/receiver.rs:285).                       *)
HeldUnread == cpc = "returned" /\ ~DEnded /\ ~DReady

(* Every exchange with a server of this repository ends at both ends       *)
(* without a timer: no wait of C, D, H, R, T and P for each other, for the *)
(* channels, for the network in either direction or for the user lasts     *)
(* for ever, except for the six above.                                     *)
ExchangeEnds ==
    <>[](\/ peer = "other"
         \/ ExchangeEnded /\ (ServerEnded \/ cpc = "upgraded")
         \/ WaitsInVain \/ EchoInVain \/ PanicInVain
         \/ EchoStalled \/ BothWriting \/ HeldUnread)
=============================================================================
