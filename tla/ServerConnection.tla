-------------------------- MODULE ServerConnection --------------------------
(***************************************************************************)
(* One server connection of ttpkit-http: the tasks that share it and the   *)
(* channels between them.                                                  *)
(*                                                                         *)
(*   H     the connection handler    (server/mod.rs, ConnectionHandler)    *)
(*   R[r]  the body reader of r      (server/receiver.rs)                  *)
(*   T[r]  the request handler of r  (the user's code, in its own task)    *)
(*   P     the response pipeline     (server/sender.rs, ResponsePipeline)  *)
(*                                                                         *)
(* H decodes a header, spawns R and T, queues the response for P, waits    *)
(* until R gives the reading half back and decodes the next header.  P     *)
(* writes the queued responses in order.  The content of messages is       *)
(* abstracted to what decides the control flow: see RequestSet.            *)
(***************************************************************************)
EXTENDS Integers, Sequences, FiniteSets

CONSTANTS
    Requests,       \* the requests the client may send, a subset of RequestSet
    MaxRequests,    \* bound on the requests of one connection
    PipelineDepth,  \* ServerOptions::max_requests, the depth of P's channel
    BodyDepth       \* the depth of the channel from R to the request body

(* What the user's handler does with the body of the request:              *)
(*   "ignore"  drops it unread        "drain"  reads it to its end         *)
(*   "partial" reads once, drops it   "echo"   makes it the response body  *)
(*   "upgrade" asks for the connection, drops it unread                    *)
(*   "panic"   panics                                                      *)
Plans == {"ignore", "drain", "partial", "echo", "upgrade", "panic"}

(* What the response says of itself: its body has a known size, its body   *)
(* is a stream of unknown length, or it carries "Connection: close".       *)
Responses == {"sized", "stream", "close"}

RequestSet == [version : {10, 11}, expect : BOOLEAN,
               encoding : {"length", "chunked"}, chunks : Nat,
               plan : Plans, response : Responses]

ASSUME RequestsAssumption == Requests \subseteq RequestSet
ASSUME MaxRequestsAssumption == MaxRequests \in Nat
ASSUME DepthAssumption == PipelineDepth \in Nat /\ BodyDepth \in Nat

Reqs == 1 .. MaxRequests

VARIABLES
    script,  \* script[r]: the r-th request the client sends (never changes)
    n,       \* number of request headers H has decoded
    hpc,     \* control state of H
    queue,   \* the channel from H to P
    ppc,     \* control state of P
    cur,     \* the pipeline element P works on
    closed,  \* the sending end of P's channel is closed
    tpc,     \* control state of T
    rpc,     \* control state of R
    rest,    \* units of the body not read from the connection yet
    bchan,   \* items in the channel from R to the request body
    berr,    \* the last item R sends through that channel is an error
    polled,  \* the request body has been polled (first_poll is resolved)
    bdrop,   \* the request body has been dropped
    close,   \* the close indicator of the response
    wire     \* history: the response headers written to the connection

hvars == <<n, hpc, closed>>
pvars == <<ppc, cur, wire>>
rvars == <<rpc, rest, berr>>
bvars == <<bchan, polled, bdrop>>
vars == <<script, hvars, queue, pvars, tpc, rvars, bvars, close>>

HEnded == {"finished", "failed", "upgraded", "abandoned"}
PEnded == {"writer", "shut", "failed"}

HStates == {"decode", "sendContinue", "sendResponse", "join", "upgrade",
            "sendEarly", "earlySent", "closing", "handover"} \cup HEnded
PStates == {"next", "response", "close", "write", "body"} \cup PEnded

Item(r, kind) == [req |-> r, kind |-> kind]
Items == [req : Reqs, kind : {"continue", "response", "early"}]
NoItem == [req |-> 0, kind |-> "none"]

Framings == {"length", "chunked", "eof"}
Written == [req : Reqs, kind : {"continue", "response", "early"},
            framing : Framings, close : BOOLEAN]

BodyUnits(q) == q.chunks + (IF q.encoding = "chunked" THEN 1 ELSE 0)

Init ==
    /\ script \in [Reqs -> Requests]
    /\ n = 0
    /\ hpc = "decode"
    /\ queue = <<>>
    /\ ppc = "next"
    /\ cur = NoItem
    /\ closed = FALSE
    /\ tpc = [r \in Reqs |-> "none"]
    /\ rpc = [r \in Reqs |-> "none"]
    /\ rest = [r \in Reqs |-> BodyUnits(script[r])]
    /\ bchan = [r \in Reqs |-> 0]
    /\ berr = [r \in Reqs |-> FALSE]
    /\ polled = [r \in Reqs |-> FALSE]
    /\ bdrop = [r \in Reqs |-> FALSE]
    /\ close = [r \in Reqs |-> "pending"]
    /\ wire = <<>>

(***************************************************************************)
(* The channels.  futures::channel::mpsc with one sender takes an element  *)
(* whenever the receiver is alive and parks the sender when the channel    *)
(* then holds more than its depth; SinkExt::send waits until it is         *)
(* unparked.  Dropping the receiver unparks the sender.                    *)
(***************************************************************************)
(* Mutant of PipelineReady: an unbounded channel, H is never parked.       *)
PipelineReadyUnbounded == TRUE

PipelineReady == ppc \in PEnded \/ Len(queue) <= PipelineDepth
BodyReady(r) == bdrop[r] \/ bchan[r] <= BodyDepth

(* H gives a pipeline element to P; `next` follows if P is alive, H closes *)
(* the pipeline if it is not (the send fails).                             *)
HSend(item, next) ==
    IF ppc \in PEnded
    THEN hpc' = "closing" /\ closed' = TRUE /\ UNCHANGED queue
    ELSE hpc' = next /\ queue' = Append(queue, item) /\ UNCHANGED closed

(***************************************************************************)
(* H: decoding a request header                                            *)
(***************************************************************************)
ExpectsContinue(r) == script[r].version = 11 /\ script[r].expect

(* The header is good: R and T are spawned.                                *)
HAccept ==
    /\ hpc = "decode"
    /\ n < MaxRequests
    /\ n' = n + 1
    /\ rpc' = [rpc EXCEPT ![n + 1] = "reading"]
    /\ tpc' = [tpc EXCEPT ![n + 1] = "running"]
    /\ hpc' = IF ExpectsContinue(n + 1) THEN "sendContinue" ELSE "sendResponse"
    /\ UNCHANGED <<script, closed, queue, pvars, rest, berr, bvars, close>>

(* An expectation other than 100-continue, or a body framing the decoder   *)
(* does not take: the reading half is dropped, no task is spawned.         *)
HReject ==
    /\ hpc = "decode"
    /\ n < MaxRequests
    /\ n' = n + 1
    /\ hpc' = "sendEarly"
    /\ UNCHANGED <<script, closed, queue, pvars, tpc, rvars, bvars, close>>

(* The request cannot be built from its header: R has been spawned and is  *)
(* detached, the body is dropped at once.                                  *)
HRejectLate ==
    /\ hpc = "decode"
    /\ n < MaxRequests
    /\ n' = n + 1
    /\ hpc' = "sendEarly"
    /\ rpc' = [rpc EXCEPT ![n + 1] = "reading"]
    /\ bdrop' = [bdrop EXCEPT ![n + 1] = TRUE]
    /\ UNCHANGED <<script, closed, queue, pvars, tpc, rest, berr, bchan,
                   polled, close>>

(* End of stream between requests, header timeout or read timeout.         *)
HStop ==
    /\ hpc = "decode"
    /\ hpc' = "closing"
    /\ closed' = TRUE
    /\ UNCHANGED <<script, n, queue, pvars, tpc, rvars, bvars, close>>

(* A malformed header or an I/O error: H returns at once, the pipeline is  *)
(* dropped without being joined.                                           *)
HFail ==
    /\ hpc = "decode"
    /\ hpc' = "failed"
    /\ closed' = TRUE
    /\ UNCHANGED <<script, n, queue, pvars, tpc, rvars, bvars, close>>

(***************************************************************************)
(* H: handling a request                                                   *)
(***************************************************************************)
HSendContinue ==
    /\ hpc = "sendContinue"
    /\ HSend(Item(n, "continue"), "sendResponse")
    /\ UNCHANGED <<script, n, pvars, tpc, rvars, bvars, close>>

(* Mutant of HSendResponse: the close indicator is resolved as soon as the *)
(* response is queued.                                                     *)
HSendResponseResolved ==
    /\ hpc = "sendResponse"
    /\ PipelineReady
    /\ HSend(Item(n, "response"), "join")
    /\ close' = [close EXCEPT ![n] = "false"]
    /\ UNCHANGED <<script, n, pvars, tpc, rvars, bvars>>

HSendResponse ==
    /\ hpc = "sendResponse"
    /\ PipelineReady
    /\ HSend(Item(n, "response"), "join")
    /\ UNCHANGED <<script, n, pvars, tpc, rvars, bvars, close>>

(* R has returned the reading half: wait for the request handler.          *)
HJoin ==
    /\ hpc = "join"
    /\ PipelineReady
    /\ rpc[n] = "returned"
    /\ hpc' = "upgrade"
    /\ UNCHANGED <<script, n, closed, queue, pvars, tpc, rvars, bvars, close>>

(* Mutant of HJoinLost: the close resolver is neither used nor dropped.    *)
HJoinLostUnresolved ==
    /\ hpc = "join"
    /\ PipelineReady
    /\ rpc[n] = "lost"
    /\ hpc' = "closing"
    /\ closed' = TRUE
    /\ UNCHANGED <<script, n, queue, pvars, tpc, rvars, bvars, close>>

(* R has dropped the reading half: the close resolver is dropped too.      *)
HJoinLost ==
    /\ hpc = "join"
    /\ PipelineReady
    /\ rpc[n] = "lost"
    /\ close' = [close EXCEPT ![n] = "true"]
    /\ hpc' = "closing"
    /\ closed' = TRUE
    /\ UNCHANGED <<script, n, queue, pvars, tpc, rvars, bvars>>

HandlerReturned(r) == tpc[r] \in {"done", "panicked"}
WantsUpgrade(r) == tpc[r] = "done" /\ script[r].plan = "upgrade"

(* Mutant of HContinue: H goes on although the handler asks for an upgrade. *)
HContinueUpgrade ==
    /\ hpc = "upgrade"
    /\ HandlerReturned(n)
    /\ close' = [close EXCEPT ![n] = "false"]
    /\ hpc' = "decode"
    /\ UNCHANGED <<script, n, closed, queue, pvars, tpc, rvars, bvars>>

HContinue ==
    /\ hpc = "upgrade"
    /\ HandlerReturned(n) /\ ~WantsUpgrade(n)
    /\ script[n].version = 11
    /\ close' = [close EXCEPT ![n] = "false"]
    /\ hpc' = "decode"
    /\ UNCHANGED <<script, n, closed, queue, pvars, tpc, rvars, bvars>>

HCloseVersion10 ==
    /\ hpc = "upgrade"
    /\ HandlerReturned(n) /\ ~WantsUpgrade(n)
    /\ script[n].version = 10
    /\ close' = [close EXCEPT ![n] = "true"]
    /\ hpc' = "closing"
    /\ closed' = TRUE
    /\ UNCHANGED <<script, n, queue, pvars, tpc, rvars, bvars>>

HUpgrade ==
    /\ hpc = "upgrade"
    /\ WantsUpgrade(n)
    /\ close' = [close EXCEPT ![n] = "false"]
    /\ hpc' = "handover"
    /\ closed' = TRUE
    /\ UNCHANGED <<script, n, queue, pvars, tpc, rvars, bvars>>

(* ResponsePipeline::close returns the writing half, nothing (P has shut   *)
(* the connection down) or an error.                                       *)
HHandOver ==
    /\ hpc = "handover"
    /\ ppc \in PEnded
    /\ hpc' = CASE ppc = "writer" -> "upgraded"
                [] ppc = "shut"   -> "abandoned"
                [] ppc = "failed" -> "failed"
    /\ UNCHANGED <<script, n, closed, queue, pvars, tpc, rvars, bvars, close>>

(***************************************************************************)
(* H: early responses and the end of the connection                        *)
(***************************************************************************)
HSendEarly ==
    /\ hpc = "sendEarly"
    /\ HSend(Item(n, "early"), "earlySent")
    /\ UNCHANGED <<script, n, pvars, tpc, rvars, bvars, close>>

(* The resolver that send_early_response returns is dropped by the caller. *)
HEarlySent ==
    /\ hpc = "earlySent"
    /\ PipelineReady
    /\ close' = [close EXCEPT ![n] = "true"]
    /\ hpc' = "closing"
    /\ closed' = TRUE
    /\ UNCHANGED <<script, n, queue, pvars, tpc, rvars, bvars>>

HClose ==
    /\ hpc = "closing"
    /\ ppc \in PEnded
    /\ hpc' = IF ppc = "failed" THEN "failed" ELSE "finished"
    /\ UNCHANGED <<script, n, closed, queue, pvars, tpc, rvars, bvars, close>>

HDecode == HAccept \/ HReject \/ HRejectLate \/ HStop \/ HFail
HNext ==
    \/ HDecode
    \/ HSendContinue \/ HSendResponse \/ HJoin \/ HJoinLost
    \/ HContinue \/ HCloseVersion10 \/ HUpgrade \/ HHandOver
    \/ HSendEarly \/ HEarlySent \/ HClose

(***************************************************************************)
(* R[r]: reading the body.  The decoder is complete when no unit is left.  *)
(***************************************************************************)
Complete(r) == rest[r] = 0

(* Mutant of TakeConnection: no check that the decoder is complete.        *)
TakeConnectionUnchecked(r, left) == rpc' = [rpc EXCEPT ![r] = "returned"]

(* take_connection: the reading half is given back only at the end of the  *)
(* body.                                                                   *)
TakeConnection(r, left) ==
    rpc' = [rpc EXCEPT ![r] = IF left = 0 THEN "returned" ELSE "lost"]

(* The last unit of a chunked body carries no data.                        *)
IsTrailer(r) == script[r].encoding = "chunked" /\ rest[r] = 1

RChunk(r) ==
    /\ rpc[r] = "reading"
    /\ BodyReady(r)
    /\ rest[r] > 0 /\ ~IsTrailer(r)
    /\ rest' = [rest EXCEPT ![r] = @ - 1]
    /\ IF bdrop[r]
       THEN TakeConnection(r, rest[r] - 1) /\ UNCHANGED bchan
       ELSE bchan' = [bchan EXCEPT ![r] = @ + 1] /\ UNCHANGED rpc
    /\ UNCHANGED <<script, hvars, queue, pvars, tpc, berr, polled, bdrop, close>>

RTrailer(r) ==
    /\ rpc[r] = "reading"
    /\ BodyReady(r)
    /\ IsTrailer(r)
    /\ rest' = [rest EXCEPT ![r] = 0]
    /\ UNCHANGED <<script, hvars, queue, pvars, tpc, rpc, berr, bvars, close>>

(* The body ends early or is malformed, the connection fails or times out. *)
(* The connection may also fail while R reads ahead of a complete body.    *)
RError(r) ==
    /\ rpc[r] = "reading"
    /\ BodyReady(r)
    /\ rpc' = [rpc EXCEPT ![r] = "failing"]
    /\ berr' = [berr EXCEPT ![r] = TRUE]
    /\ bchan' = IF bdrop[r] THEN bchan ELSE [bchan EXCEPT ![r] = @ + 1]
    /\ UNCHANGED <<script, hvars, queue, pvars, tpc, rest, polled, bdrop, close>>

RLost(r) ==
    /\ rpc[r] = "failing"
    /\ BodyReady(r)
    /\ rpc' = [rpc EXCEPT ![r] = "lost"]
    /\ UNCHANGED <<script, hvars, queue, pvars, tpc, rest, berr, bvars, close>>

(* Nothing more to read: the body is complete or its consumer is gone.     *)
RStop(r) ==
    /\ rpc[r] = "reading"
    /\ BodyReady(r)
    /\ Complete(r) \/ bdrop[r]
    /\ TakeConnection(r, rest[r])
    /\ UNCHANGED <<script, hvars, queue, pvars, tpc, rest, berr, bvars, close>>

RNext(r) == RChunk(r) \/ RTrailer(r) \/ RError(r) \/ RLost(r) \/ RStop(r)

(***************************************************************************)
(* The request body, polled by T or, when the handler echoes it, by P      *)
(***************************************************************************)
REnded(r) == rpc[r] \in {"returned", "lost"}

(* Mutant of PollBody: an item is taken from an empty channel.             *)
PollBodyUnchecked(r) ==
    /\ polled' = [polled EXCEPT ![r] = TRUE]
    /\ bchan' = [bchan EXCEPT ![r] = @ - 1]
    /\ UNCHANGED bdrop

(* The first poll resolves first_poll; a poll takes an item if there is    *)
(* one.                                                                    *)
PollBody(r) ==
    /\ ~polled[r] \/ bchan[r] > 0
    /\ polled' = [polled EXCEPT ![r] = TRUE]
    /\ bchan' = [bchan EXCEPT ![r] = IF @ > 0 THEN @ - 1 ELSE 0]
    /\ UNCHANGED bdrop

(* The stream ends when the channel is empty and R is gone.                *)
BodyEnd(r) == polled[r] /\ bchan[r] = 0 /\ REnded(r)

(***************************************************************************)
(* T[r]: the user's request handler                                        *)
(***************************************************************************)
TRead(r) ==
    /\ tpc[r] = "running" /\ ~bdrop[r]
    /\ \/ script[r].plan = "drain"
       \/ script[r].plan = "partial" /\ ~polled[r]
    /\ PollBody(r)
    /\ UNCHANGED <<script, hvars, queue, pvars, tpc, rvars, close>>

TDrop(r) ==
    /\ tpc[r] = "running" /\ ~bdrop[r]
    /\ CASE script[r].plan = "drain"   -> BodyEnd(r)
         [] script[r].plan = "partial" -> polled[r]
         [] script[r].plan = "echo"    -> FALSE
         [] OTHER                      -> TRUE
    /\ bdrop' = [bdrop EXCEPT ![r] = TRUE]
    /\ UNCHANGED <<script, hvars, queue, pvars, tpc, rvars, bchan, polled, close>>

(* The response is handed to P through T's join handle.  If P is gone, the *)
(* response is dropped, and the body with it when it is echoed.            *)
TReturn(r) ==
    /\ tpc[r] = "running"
    /\ bdrop[r] \/ script[r].plan = "echo"
    /\ tpc' = [tpc EXCEPT ![r] = IF script[r].plan = "panic" THEN "panicked"
                                                           ELSE "done"]
    /\ bdrop' = [bdrop EXCEPT ![r] = @ \/ ppc \in PEnded]
    /\ UNCHANGED <<script, hvars, queue, pvars, rvars, bchan, polled, close>>

TNext(r) == TRead(r) \/ TDrop(r) \/ TReturn(r)

(***************************************************************************)
(* P: the response pipeline                                                *)
(***************************************************************************)
(* Mutant of PTake: P takes the response whose handler was the fastest.    *)
PTakeFastest ==
    /\ ppc = "next"
    /\ \E i \in DOMAIN queue :
          /\ queue[i].kind = "response" => tpc[queue[i].req] # "running"
          /\ cur' = queue[i]
          /\ queue' = [j \in 1 .. Len(queue) - 1 |->
                         IF j < i THEN queue[j] ELSE queue[j + 1]]
    /\ ppc' = "response"
    /\ UNCHANGED <<script, hvars, wire, tpc, rvars, bvars, close>>

PTake ==
    /\ ppc = "next"
    /\ queue # <<>>
    /\ cur' = Head(queue)
    /\ queue' = Tail(queue)
    /\ ppc' = "response"
    /\ UNCHANGED <<script, hvars, wire, tpc, rvars, bvars, close>>

(* Mutant of PReturn: P stops as soon as the channel is closed.            *)
PReturnClosed ==
    /\ ppc = "next"
    /\ closed
    /\ ppc' = "writer"
    /\ UNCHANGED <<script, hvars, queue, cur, wire, tpc, rvars, bvars, close>>

(* The channel is closed and empty: the writing half is returned.          *)
PReturn ==
    /\ ppc = "next"
    /\ queue = <<>> /\ closed
    /\ ppc' = "writer"
    /\ UNCHANGED <<script, hvars, queue, cur, wire, tpc, rvars, bvars, close>>

(* The future response resolves to a response ...                          *)
PResponse ==
    /\ ppc = "response"
    /\ CASE cur.kind = "continue" -> polled[cur.req]
         [] cur.kind = "response" -> tpc[cur.req] = "done"
         [] cur.kind = "early"    -> TRUE
    /\ ppc' = "close"
    /\ UNCHANGED <<script, hvars, queue, cur, wire, tpc, rvars, bvars, close>>

(* Mutant of PSkip: 100 Continue is skipped once the body is dropped, even *)
(* if it has been read before.                                             *)
PSkipDropped ==
    /\ ppc = "response"
    /\ \/ cur.kind = "continue" /\ bdrop[cur.req]
       \/ cur.kind = "response" /\ tpc[cur.req] = "panicked"
    /\ ppc' = "next"
    /\ cur' = NoItem
    /\ UNCHANGED <<script, hvars, queue, wire, tpc, rvars, bvars, close>>

(* ... or to None: the body was dropped before its first poll, or the      *)
(* handler panicked.  The element is skipped.                              *)
PSkip ==
    /\ ppc = "response"
    /\ \/ cur.kind = "continue" /\ bdrop[cur.req] /\ ~polled[cur.req]
       \/ cur.kind = "response" /\ tpc[cur.req] = "panicked"
    /\ ppc' = "next"
    /\ cur' = NoItem
    /\ UNCHANGED <<script, hvars, queue, wire, tpc, rvars, bvars, close>>

(* handle_continue resolves its close indicator before it sends.           *)
PCloseKnown ==
    /\ ppc = "close"
    /\ cur.kind = "continue" \/ close[cur.req] # "pending"
    /\ ppc' = "write"
    /\ UNCHANGED <<script, hvars, queue, cur, wire, tpc, rvars, bvars, close>>

ResponseOf(item) ==
    IF item.kind # "response" THEN "sized"
    ELSE IF script[item.req].plan = "echo" THEN "stream"
    ELSE script[item.req].response

(* The indicator, or the response's own Connection field.                  *)
CloseAsked(item) ==
    \/ item.kind # "continue" /\ close[item.req] = "true"
    \/ ResponseOf(item) = "close"

Framing(item) ==
    IF ResponseOf(item) # "stream" THEN "length"
    ELSE IF ~CloseAsked(item) /\ script[item.req].version = 11 THEN "chunked"
    ELSE "eof"

(* Mutant of CloseAfter: the connection is kept after such a body.         *)
CloseAfterAsked(item) == CloseAsked(item)

(* A body that only the end of the connection delimits closes it.          *)
CloseAfter(item) == CloseAsked(item) \/ Framing(item) = "eof"

PHeader ==
    /\ ppc = "write"
    /\ wire' = Append(wire, [req |-> cur.req, kind |-> cur.kind,
                             framing |-> Framing(cur),
                             close |-> CloseAfter(cur)])
    /\ ppc' = "body"
    /\ UNCHANGED <<script, hvars, queue, cur, tpc, rvars, bvars, close>>

Echoes(item) == item.kind = "response" /\ script[item.req].plan = "echo"

PEcho ==
    /\ ppc = "body"
    /\ Echoes(cur)
    /\ PollBody(cur.req)
    /\ UNCHANGED <<script, hvars, queue, pvars, tpc, rvars, close>>

(* Every response whose handler has returned is dropped, and the bodies    *)
(* they echo with them.                                                    *)
DropResponses ==
    bdrop' = [r \in Reqs |-> bdrop[r] \/ tpc[r] = "done"]

PEnd(state) ==
    /\ ppc' = state
    /\ cur' = NoItem
    /\ queue' = <<>>
    /\ DropResponses

(* Mutant of PFinish: P goes on after a response that closes.              *)
PFinishKept ==
    /\ ppc = "body"
    /\ Echoes(cur) => BodyEnd(cur.req) /\ ~berr[cur.req]
    /\ ppc' = "next"
    /\ cur' = NoItem
    /\ bdrop' = IF Echoes(cur) THEN [bdrop EXCEPT ![cur.req] = TRUE] ELSE bdrop
    /\ UNCHANGED <<script, hvars, queue, wire, tpc, rvars, bchan, polled, close>>

PFinish ==
    /\ ppc = "body"
    /\ Echoes(cur) => BodyEnd(cur.req) /\ ~berr[cur.req]
    /\ IF wire[Len(wire)].close
       THEN PEnd("shut")
       ELSE /\ ppc' = "next"
            /\ cur' = NoItem
            /\ bdrop' = IF Echoes(cur) THEN [bdrop EXCEPT ![cur.req] = TRUE]
                                       ELSE bdrop
            /\ UNCHANGED queue
    /\ UNCHANGED <<script, hvars, wire, tpc, rvars, bchan, polled, close>>

(* The echoed body yields an error.                                        *)
PBodyError ==
    /\ ppc = "body"
    /\ Echoes(cur) /\ BodyEnd(cur.req) /\ berr[cur.req]
    /\ PEnd("failed")
    /\ UNCHANGED <<script, hvars, wire, tpc, rvars, bchan, polled, close>>

(* The connection fails while the response is written.                     *)
PWriteError ==
    /\ ppc \in {"write", "body"}
    /\ PEnd("failed")
    /\ UNCHANGED <<script, hvars, wire, tpc, rvars, bchan, polled, close>>

PNext == \/ PTake \/ PReturn \/ PResponse \/ PSkip \/ PCloseKnown
         \/ PHeader \/ PEcho \/ PFinish \/ PBodyError

(***************************************************************************)
(* The specification.  Every task makes progress; PWriteError is the       *)
(* network's and is not owed.  HStop and RError stand for the timeouts     *)
(* that end every wait for the peer (ServerBuilder sets all of them).      *)
(***************************************************************************)
Terminated ==
    /\ hpc \in HEnded /\ ppc \in PEnded
    /\ \A r \in Reqs : tpc[r] # "running" /\ rpc[r] \notin {"reading", "failing"}
    /\ UNCHANGED vars

Next ==
    \/ HNext
    \/ \E r \in Reqs : RNext(r) \/ TNext(r)
    \/ PNext \/ PWriteError
    \/ Terminated

Fairness ==
    /\ WF_vars(HNext) /\ WF_vars(PNext)
    /\ \A r \in Reqs : WF_vars(RNext(r)) /\ WF_vars(TNext(r))

Spec == Init /\ [][Next]_vars
FairSpec == Spec /\ Fairness

(***************************************************************************)
(* Type invariant: the range of every variable (all states of the tasks    *)
(* and of the channels between them).                                      *)
(***************************************************************************)
TypeOK ==
    /\ script \in [Reqs -> Requests]
    /\ n \in 0 .. MaxRequests
    /\ hpc \in HStates
    /\ queue \in Seq(Items)
    /\ ppc \in PStates
    /\ cur \in Items \cup {NoItem}
    /\ closed \in BOOLEAN
    /\ tpc \in [Reqs -> {"none", "running", "done", "panicked"}]
    /\ rpc \in [Reqs -> {"none", "reading", "failing", "returned", "lost"}]
    /\ rest \in [Reqs -> Nat]
    /\ bchan \in [Reqs -> Nat]
    /\ berr \in [Reqs -> BOOLEAN]
    /\ polled \in [Reqs -> BOOLEAN]
    /\ bdrop \in [Reqs -> BOOLEAN]
    /\ close \in [Reqs -> {"pending", "false", "true"}]
    /\ wire \in Seq(Written)

(* The place of a message in the order the client expects: the responses   *)
(* in the order of the requests, 100 Continue before the response it       *)
(* announces.                                                              *)
Place(m) == 2 * m.req + (IF m.kind = "continue" THEN 0 ELSE 1)

(* Responses leave in the order of the requests, one per request at most,  *)
(* and 100 Continue only before the response of its own request, however   *)
(* the handlers, the readers and the pipeline interleave.                  *)
ResponsesInOrder ==
    \A i, j \in 1 .. Len(wire) : i < j => Place(wire[i]) < Place(wire[j])

(* A response that announces the end of the connection, or whose body only *)
(* the end of the connection delimits, is the last thing written, although *)
(* H may have decoded and queued later requests by then.                   *)
NothingAfterClose ==
    \A i \in 1 .. Len(wire) :
        wire[i].close \/ wire[i].framing = "eof" => i = Len(wire)

(* P decides to keep the connection (a response without close) only when R *)
(* stopped at the end of that request's body and gave the reading half     *)
(* back: the client may send its next request, and it will be read from    *)
(* its first byte.                                                         *)
KeepAliveAtBoundary ==
    \A i \in 1 .. Len(wire) :
        wire[i].kind # "continue" /\ ~wire[i].close =>
            rpc[wire[i].req] = "returned" /\ Complete(wire[i].req)

(* H decodes a header only at a message boundary: every earlier body has   *)
(* been read to its end and no reader task holds the reading half.         *)
HeaderAtBoundary ==
    hpc = "decode" => \A r \in 1 .. n : rpc[r] = "returned" /\ Complete(r)

(* Whoever gets the upgraded connection is alone on it: P has written      *)
(* everything queued, the response to the upgrade last, of a length the    *)
(* client can tell and without closing, and no reader is left.             *)
UpgradeExclusive ==
    hpc = "upgraded" =>
        /\ ppc = "writer" /\ queue = <<>>
        /\ wire # <<>> /\ wire[Len(wire)].req = n
        /\ wire[Len(wire)].kind = "response"
        /\ wire[Len(wire)].framing # "eof" /\ ~wire[Len(wire)].close
        /\ \A r \in 1 .. n : rpc[r] = "returned" /\ Complete(r)

Responded(r) ==
    \E i \in 1 .. Len(wire) : wire[i].req = r /\ wire[i].kind # "continue"

(* The requests of one connection are handled one at a time, and the next  *)
(* header is not decoded before all but ServerOptions::max_requests (in    *)
(* the channel) plus one (held by P) of the earlier ones are being         *)
(* answered: a client that sends but does not read cannot pile up work.    *)
ConcurrencyBounded ==
    /\ Cardinality({r \in Reqs : tpc[r] = "running"}) <= 1
    /\ hpc = "decode" /\ ppc \notin PEnded =>
         Cardinality({r \in 1 .. n : tpc[r] # "panicked" /\ ~Responded(r)})
           <= PipelineDepth + 1

(* The connection implements PipelinedResponses: what it promises to the   *)
(* client holds of every interleaving of its tasks.                        *)
Sent == [i \in 1 .. Len(wire) |->
            [req |-> wire[i].req, interim |-> wire[i].kind = "continue",
             last |-> wire[i].close]]
Promise == INSTANCE PipelinedResponses WITH
    received <- n, log <- Sent, open <- ppc \notin PEnded
ImplementsResponses == Promise!Spec

(***************************************************************************)
(* Liveness, under FairSpec.                                               *)
(***************************************************************************)
(* P stops before the end of its queue: a write failed, a body it echoes   *)
(* failed, or an earlier response closes the connection.                   *)
CutShort == ppc = "failed" \/ \E i \in 1 .. Len(wire) : wire[i].close

(* Every request whose header is decoded is answered, unless its handler   *)
(* panics or the connection is cut short: the waits of H, R, T and P for   *)
(* each other never form a cycle, and no queued response is lost.          *)
Answered ==
    \A r \in Reqs : (n >= r) ~>
        (Responded(r) \/ tpc[r] = "panicked" \/ CutShort)

(* A handler that reads the body of a request that waits for 100 Continue  *)
(* gets it sent, unless the connection is cut short, even if it drops the  *)
(* body right after the first read.                                        *)
ContinueSent ==
    \A r \in Reqs :
        (n >= r /\ ExpectsContinue(r) /\ polled[r]) ~>
            (\/ CutShort
             \/ \E i \in 1 .. Len(wire) :
                    wire[i].req = r /\ wire[i].kind = "continue")

(* Every task of the connection ends: the permit is given back and both    *)
(* halves of the connection are dropped or handed over.                    *)
TasksEnd ==
    <>[](/\ hpc \in HEnded /\ ppc \in PEnded
         /\ \A r \in Reqs : /\ tpc[r] # "running"
                            /\ rpc[r] \notin {"reading", "failing"})
=============================================================================
