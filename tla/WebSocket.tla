----------------------------- MODULE WebSocket -----------------------------
(***************************************************************************)
(* One end of a WebSocket: WebSocket and FrameSocket, their user, which    *)
(* reads and writes through two halves that run concurrently, the task     *)
(* that says good-bye after a failure, and a peer that may send any frames *)
(* and may be slow, stop, close or reset the connection at any point.      *)
(*                                                                         *)
(* The stream consists of units: a frame is its header, one unit, followed *)
(* by its payload.  A payload is made of "a", a character of one unit,     *)
(* "hi" and "lo", the two units of another one, and "st", the status code  *)
(* at the start of a Close frame.                                          *)
(***************************************************************************)
EXTENDS Naturals, Sequences, SequencesExt

CONSTANTS
    Role,         \* AgentRole of this end: "client" or "server"
    Capacity,     \* input_buffer_capacity
    Frames,       \* the frames the peer may send
    MaxFrames,    \* bound: how many of them
    MaxSends,     \* bound: the messages the user sends
    Flight,       \* bound: the units of several frames on the way from the peer
    Window        \* bound: the units on the way to the peer

Opcodes == {"text", "binary", "cont", "ping", "pong", "close", "unknown"}
Control == {"ping", "pong", "close"}
Payload == {"a", "hi", "lo", "st"}
NoType == "none"
Statuses == {"protocol", "too_big", "invalid"}

ASSUME WebSocketAssumption ==
    /\ Role \in {"client", "server"}
    /\ {Capacity, MaxFrames, MaxSends, Flight, Window} \subseteq Nat \ {0}
    /\ Frames \subseteq [op : Opcodes, data : Seq(Payload),
                       fin : BOOLEAN, rsv : BOOLEAN, mask : BOOLEAN]

VARIABLES
    frames,     \* the frames the peer has sent
    inp,        \* the units of them on the way
    ended,      \* how the peer has ended its stream
    inbuf,      \* input_buffer
    current,    \* current_msg_type
    data,       \* current_msg_data
    closed,     \* the field closed
    received,   \* the messages handed to the user
    last,       \* how the last poll of the stream ended, other than by these
    inner,      \* who holds the frame socket: the user's WebSocket or the task
    task,       \* the task that sends the Close frame of a failure
    status,     \* the status of that frame
    accepted,   \* the messages encoded into output_buffer, in order
    out,        \* output_buffer
    sent,       \* the field sent
    shut,       \* the writing side is shut down
    wire,       \* the units written
    unread      \* how many of them the peer has not read

peer == <<frames, inp, ended>>
reader == <<inbuf, current, data, received, last>>
writer == <<accepted, out, sent, shut, wire, unread>>
vars == <<peer, reader, closed, inner, task, status, writer>>

Init ==
    /\ frames = <<>> /\ inp = <<>> /\ ended = "no"
    /\ inbuf = <<>> /\ current = NoType /\ data = <<>> /\ closed = FALSE
    /\ received = <<>> /\ last = "none"
    /\ inner = "user" /\ task = "none" /\ status = "none"
    /\ accepted = <<>> /\ out = <<>> /\ sent = 0 /\ shut = FALSE
    /\ wire = <<>> /\ unread = 0

(***************************************************************************)
(* The peer and the connection                                             *)
(***************************************************************************)
Header(f) == [kind |-> "header", f |-> f]
UnitsOf(f) == <<Header(f)>> \o [i \in 1..Len(f.data) |-> [kind |-> "payload", c |-> f.data[i]]]

PeerSends(f) ==
    /\ ended = "no" /\ Len(frames) < MaxFrames
    /\ frames' = Append(frames, f)
    /\ inp = <<>> \/ Len(inp \o UnitsOf(f)) <= Flight
    /\ inp' = inp \o UnitsOf(f)
    /\ UNCHANGED <<ended, reader, closed, inner, task, status, writer>>

(* The peer shuts its side down, possibly in the middle of a frame.        *)
PeerEnds(missing) ==
    /\ ended = "no"
    /\ ended' = IF missing = 0 THEN "fin" ELSE "cut"
    /\ inp' = SubSeq(inp, 1, Len(inp) - missing)
    /\ UNCHANGED <<frames, reader, closed, inner, task, status, writer>>

PeerResets ==
    /\ ended # "reset"
    /\ ended' = "reset" /\ inp' = <<>>
    /\ UNCHANGED <<frames, reader, closed, inner, task, status, writer>>

PeerReads ==
    /\ unread > 0 /\ ended # "reset"
    /\ unread' = unread - 1
    /\ UNCHANGED <<peer, reader, closed, inner, task, status, accepted, out, sent, shut, wire>>

(***************************************************************************)
(* Frame::decode                                                           *)
(***************************************************************************)
InvalidFrame(f) ==
    \/ f.rsv
    \/ f.mask /\ Role = "client"
    \/ f.op = "unknown"

NextFrame == inbuf[1].f
FrameInvalid == inbuf # <<>> /\ InvalidFrame(NextFrame)
FrameReady ==
    /\ inbuf # <<>> /\ ~InvalidFrame(NextFrame)
    /\ Len(inbuf) > Len(NextFrame.data)
NeedsMore == ~FrameInvalid /\ ~FrameReady

(***************************************************************************)
(* WebSocket::process_frame.  Each operator returns what becomes of the    *)
(* message under construction, the message for the user or the error.      *)
(***************************************************************************)
(* std::str::from_utf8                                                     *)
ValidText(s) ==
    \A i \in DOMAIN s :
        /\ s[i] = "hi" => i < Len(s) /\ s[i + 1] = "lo"
        /\ s[i] = "lo" => i > 1 /\ s[i - 1] = "hi"

Keep == [type |-> current, data |-> data]
Idle == [type |-> NoType, data |-> <<>>]
Fragment(rest) == [rest |-> rest, msg |-> <<>>, err |-> NoType]
Deliver(rest, op, s) == [rest |-> rest, msg |-> <<[op |-> op, data |-> s]>>, err |-> NoType]
Failure(rest, err) == [rest |-> rest, msg |-> <<>>, err |-> err]

CompleteData(rest, op, s) ==
    IF op = "text" /\ ~ValidText(s) THEN Failure(rest, "invalid") ELSE Deliver(rest, op, s)

ProcessContinuationEach(f) ==
    IF current = NoType THEN Failure(Keep, "protocol")
    ELSE IF Len(data) + Len(f.data) > Capacity THEN Failure(Keep, "too_big")
    ELSE IF current = "text" /\ ~ValidText(f.data) THEN Failure(Keep, "invalid")
    ELSE IF ~f.fin THEN Fragment([type |-> current, data |-> data \o f.data])
    ELSE CompleteData(Idle, current, data \o f.data)

ProcessContinuationUnbounded(f) ==
    IF current = NoType THEN Failure(Keep, "protocol")
    ELSE IF ~f.fin THEN Fragment([type |-> current, data |-> data \o f.data])
    ELSE CompleteData(Idle, current, data \o f.data)

ProcessContinuation(f) ==
    IF current = NoType THEN Failure(Keep, "protocol")
    ELSE IF Len(data) + Len(f.data) > Capacity THEN Failure(Keep, "too_big")
    ELSE IF ~f.fin THEN Fragment([type |-> current, data |-> data \o f.data])
    ELSE CompleteData(Idle, current, data \o f.data)

ProcessData(f) ==
    IF current # NoType THEN Failure(Keep, "protocol")
    ELSE IF f.fin THEN CompleteData(Keep, f.op, f.data)
    ELSE Fragment([type |-> f.op, data |-> f.data])

ProcessPingAlone(f) == IF f.fin THEN Deliver(Idle, f.op, f.data) ELSE Failure(Keep, "protocol")

ProcessPing(f) == IF f.fin THEN Deliver(Keep, f.op, f.data) ELSE Failure(Keep, "protocol")

(* A Close frame without a whole status code counts as one without any.    *)
CloseText(s) == IF s # <<>> /\ s[1] = "st" THEN Tail(s) ELSE <<>>
CloseStatus(s) == IF s # <<>> /\ s[1] = "st" THEN <<"st">> ELSE <<"1005">>

ProcessClose(f) ==
    IF ~f.fin THEN Failure(Keep, "protocol")
    ELSE IF ~ValidText(CloseText(f.data)) THEN Failure(Keep, "invalid")
    ELSE Deliver(Keep, "close", CloseStatus(f.data) \o CloseText(f.data))

ProcessFrame(f) ==
    CASE f.op = "cont"              -> ProcessContinuation(f)
      [] f.op \in {"text", "binary"} -> ProcessData(f)
      [] f.op \in {"ping", "pong"}   -> ProcessPing(f)
      [] f.op = "close"             -> ProcessClose(f)

(***************************************************************************)
(* The turns of WebSocket::poll_next.  A user that stops polling is a user *)
(* for whom these turns do not happen.                                     *)
(***************************************************************************)
PollingClosed == inner = "user"
Polling == inner = "user" /\ ~closed

(* The error is returned and, when there is a Close frame for it, the frame*)
(* socket goes to a task that sends the frame.                             *)
Fail(err) ==
    /\ last' = "invalid_data"
    /\ inner' = "task" /\ task' = "flushing" /\ status' = err
    /\ UNCHANGED <<peer, received, closed, writer>>

ReadInput(n) ==
    /\ Polling /\ NeedsMore
    /\ n \in 1..Len(inp) /\ Len(inbuf) + n <= Capacity
    /\ inbuf' = inbuf \o SubSeq(inp, 1, n)
    /\ inp' = SubSeq(inp, n + 1, Len(inp))
    /\ UNCHANGED <<frames, ended, current, data, received, last, closed, inner, task, status, writer>>

TakeFrame ==
    /\ Polling /\ FrameReady
    /\ inbuf' = SubSeq(inbuf, Len(NextFrame.data) + 2, Len(inbuf))
    /\ LET r == ProcessFrame(NextFrame) IN
        /\ current' = r.rest.type /\ data' = r.rest.data
        /\ IF r.err # NoType THEN Fail(r.err)
           ELSE /\ received' = received \o r.msg
                /\ closed' = (NextFrame.op = "close")
                /\ UNCHANGED <<peer, last, inner, task, status, writer>>

RejectFrame ==
    /\ Polling /\ FrameInvalid
    /\ Fail("protocol") /\ UNCHANGED <<inbuf, current, data>>

RejectSize ==
    /\ Polling /\ NeedsMore /\ Len(inbuf) >= Capacity
    /\ Fail("too_big") /\ UNCHANGED <<inbuf, current, data>>

(* The end of the input, the end in the middle of a frame, an input error: *)
(* the socket stays as it is, and so does what the next poll returns.      *)
ReadEnds ==
    /\ Polling /\ NeedsMore /\ Len(inbuf) < Capacity
    /\ inp = <<>> /\ ended # "no"
    /\ last' = CASE ended = "reset" -> "io"
                 [] ended # "reset" /\ inbuf = <<>> -> "end"
                 [] OTHER -> "unexpected_eof"
    /\ UNCHANGED <<peer, inbuf, current, data, received, closed, inner, task, status, writer>>

PollNext == (\E n \in 1..Capacity : ReadInput(n)) \/ TakeFrame \/ RejectFrame \/ RejectSize \/ ReadEnds

(***************************************************************************)
(* The writing side: FrameSocket as a Sink, by its user or by the task     *)
(***************************************************************************)
Encode(i) == <<<<i, "header">>, <<i, "payload">>>>

(* One poll_write of FrameSocket::poll_ready; the buffer is cleared when   *)
(* all of it has been written.                                             *)
WriteTurn(n) ==
    /\ ended # "reset" /\ ~shut
    /\ n \in 1..(Len(out) - sent) /\ unread + n <= Window
    /\ wire' = wire \o SubSeq(out, sent + 1, sent + n)
    /\ unread' = unread + n
    /\ IF sent + n = Len(out) THEN out' = <<>> /\ sent' = 0
       ELSE sent' = sent + n /\ UNCHANGED out
    /\ UNCHANGED <<accepted, shut>>

(* The user's poll_ready, poll_flush or poll_close makes progress.  It may *)
(* give the call up after any turn.                                        *)
UserWrites(n) ==
    /\ inner = "user" /\ WriteTurn(n)
    /\ UNCHANGED <<peer, reader, closed, inner, task, status>>

StartSend(m) ==
    /\ inner = "user" /\ ~closed /\ out = <<>> /\ Len(accepted) < MaxSends
    /\ accepted' = Append(accepted, m)
    /\ out' = Encode(Len(accepted'))
    /\ closed' = (m = "close")
    /\ UNCHANGED <<peer, reader, inner, task, status, sent, shut, wire, unread>>

PollClose ==
    /\ inner = "user" /\ out = <<>> /\ ~shut /\ ended # "reset"
    /\ shut' = TRUE
    /\ UNCHANGED <<peer, reader, closed, inner, task, status, accepted, out, sent, wire, unread>>

DropSocket ==
    /\ inner = "user"
    /\ inner' = "dropped"
    /\ UNCHANGED <<peer, reader, closed, task, status, writer>>

(***************************************************************************)
(* The task spawned by poll_next: SinkExt::send of the Close frame, which  *)
(* first writes what is left in the buffer, then the frame.                *)
(***************************************************************************)
TaskWrites(n) ==
    /\ task \in {"flushing", "sending"} /\ WriteTurn(n)
    /\ UNCHANGED <<peer, reader, closed, inner, task, status>>

TaskStartsAtOnce ==
    /\ task = "flushing"
    /\ accepted' = Append(accepted, status)
    /\ out' = Encode(Len(accepted')) /\ sent' = 0
    /\ task' = "sending"
    /\ UNCHANGED <<peer, reader, closed, inner, status, shut, wire, unread>>

TaskStartsSend ==
    /\ task = "flushing" /\ out = <<>>
    /\ accepted' = Append(accepted, status)
    /\ out' = Encode(Len(accepted'))
    /\ task' = "sending"
    /\ UNCHANGED <<peer, reader, closed, inner, status, sent, shut, wire, unread>>

TaskEndsUnflushed ==
    /\ task = "sending"
    /\ task' = "done" /\ inner' = "dropped"
    /\ UNCHANGED <<peer, reader, closed, status, writer>>

(* The frame socket is dropped with the task, whether or not it could send.*)
TaskEnds ==
    /\ \/ task = "sending" /\ out = <<>>
       \/ task \in {"flushing", "sending"} /\ out # <<>> /\ (ended = "reset" \/ shut)
    /\ task' = "done" /\ inner' = "dropped"
    /\ UNCHANGED <<peer, reader, closed, status, writer>>

TaskTurn == (\E n \in 1..Window : TaskWrites(n)) \/ TaskStartsSend \/ TaskEnds

UserMessages == {"data", "close"}

Next ==
    \/ \E f \in Frames : PeerSends(f)
    \/ \E missing \in 0..Len(inp) :
          /\ missing > 0 => missing < Len(UnitsOf(frames[Len(frames)]))
          /\ PeerEnds(missing)
    \/ PeerResets
    \/ PeerReads
    \/ PollNext
    \/ \E n \in 1..Window : UserWrites(n)
    \/ \E m \in UserMessages : StartSend(m)
    \/ PollClose
    \/ DropSocket
    \/ TaskTurn

Spec == Init /\ [][Next]_vars

(* The runtime runs every task that can go on; the peer keeps reading; and *)
(* the user, as long as it has a WebSocket, reads from it.                 *)
FairSpec ==
    /\ Spec
    /\ WF_vars(PeerReads)
    /\ WF_vars(TaskTurn)
    /\ WF_vars(TakeFrame \/ RejectFrame \/ RejectSize \/ \E n \in 1..Capacity : ReadInput(n))

(***************************************************************************)
(* Type invariant.  Neither the input buffer nor a message put together    *)
(* from fragments outgrows input_buffer_capacity.                          *)
(***************************************************************************)
Seqs(S, n) == UNION {[1..m -> S] : m \in 0..n}

TypeOK ==
    /\ frames \in Seqs(Frames, MaxFrames)
    /\ ended \in {"no", "fin", "cut", "reset"}
    /\ Len(inbuf) <= Capacity
    /\ current \in {NoType, "text", "binary"}
    /\ Len(data) <= Capacity /\ (current = NoType => data = <<>>)
    /\ closed \in BOOLEAN /\ shut \in BOOLEAN
    /\ last \in {"none", "end", "unexpected_eof", "io", "invalid_data"}
    /\ <<inner, task>> \in
          ({"user", "dropped"} \X {"none"}) \cup ({"task"} \X {"flushing", "sending"})
             \cup {<<"dropped", "done">>}
    /\ status \in {NoType} \cup Statuses /\ (status = NoType <=> task = "none")
    /\ accepted \in Seqs(UserMessages \cup Statuses, MaxSends + 1)
    /\ sent \in 0..Len(out) /\ unread \in 0..Window /\ unread <= Len(wire)

(***************************************************************************)
(* What the frames fs of the peer mean, read off the whole sequence: a     *)
(* message is the payload of the data frames from its first one to the one *)
(* with the FIN bit, whatever control frames come in between.              *)
(***************************************************************************)
Starting == {"text", "binary"}
InMessage(fs, i) == \E s \in 1..i - 1 :
    fs[s].op \in Starting /\ \A t \in s..i - 1 : fs[t].op \notin Control => ~fs[t].fin
Ended(fs, k, i) == \E t \in k + 1..i : fs[t].op \in Starting
IsText(fs, i) == \E s \in 1..i : fs[s].op = "text" /\ ~Ended(fs, s, i)
Share(fs, k, i) == IF fs[k].op \in Control \/ Ended(fs, k, i) THEN <<>> ELSE fs[k].data
BodyAt(fs, i) == FlattenSeq([k \in 1..i |-> Share(fs, k, i)])

DataOffence(fs, i) ==
    IF (fs[i].op = "cont") # InMessage(fs, i) THEN "protocol"
    ELSE IF Len(BodyAt(fs, i)) > Capacity THEN "too_big"
    ELSE IF fs[i].fin /\ IsText(fs, i) /\ ~ValidText(BodyAt(fs, i)) THEN "invalid" ELSE NoType
ControlOffence(f) ==
    IF ~f.fin THEN "protocol"
    ELSE IF f.op = "close" /\ ~ValidText(CloseText(f.data)) THEN "invalid" ELSE NoType
Offence(fs, i) ==
    IF InvalidFrame(fs[i]) THEN "protocol"
    ELSE IF Len(fs[i].data) >= Capacity THEN "too_big"
    ELSE IF fs[i].op \in Control THEN ControlOffence(fs[i]) ELSE DataOffence(fs, i)

(* The frame at which reading ends, if there is one.                       *)
Ending(fs, i) == fs[i].op = "close" \/ Offence(fs, i) # NoType
Open(fs, k) == \A j \in 1..k : ~Ending(fs, j)
Final(fs, i) == Open(fs, i - 1) /\ Ending(fs, i)
Complete(fs, i) == Open(fs, i - 1) /\ Offence(fs, i) = NoType /\ fs[i].fin
MessageAt(fs, i) ==
    IF fs[i].op \notin Control
    THEN [op |-> IF IsText(fs, i) THEN "text" ELSE "binary", data |-> BodyAt(fs, i)]
    ELSE [op |-> fs[i].op,
          data |-> IF fs[i].op # "close" THEN fs[i].data
                   ELSE CloseStatus(fs[i].data) \o CloseText(fs[i].data)]
Messages(fs, k) ==
    FlattenSeq([i \in 1..k |-> IF Complete(fs, i) THEN <<MessageAt(fs, i)>> ELSE <<>>])
AllMessages == Messages(frames, Len(frames))

(* The messages handed to the user are those of the peer, whole and in     *)
(* order, up to its first Close or illegal frame: all of them once the     *)
(* input has been used up or has failed, and none of them after that.      *)
MessagesExact ==
    /\ IsPrefix(received, AllMessages)
    /\ task # "none" => received = AllMessages
    /\ inner = "user" /\ ~closed /\ inp = <<>> /\ inbuf = <<>> /\ ended \in {"no", "fin"}
          => received = AllMessages

(* The status of the Close frame sent after a failure is the one of the    *)
(* first offence of the peer.                                              *)
CloseExplains ==
    status # NoType => \E i \in DOMAIN frames : Final(frames, i) /\ Offence(frames, i) = status

(* What has been written is the encodings of the messages accepted, in     *)
(* order, each in one piece, although the user may give up a flush at any  *)
(* point and the task may take over in the middle of a frame.              *)
WireFramed == IsPrefix(wire, FlattenSeq([i \in DOMAIN accepted |-> Encode(i)]))

(* At most one Close frame is ever sent, by the user or by the task, and no*)
(* frame follows it.                                                       *)
CloseLast == \A i \in DOMAIN accepted : accepted[i] # "data" => i = Len(accepted)

(* An offence of the peer is answered with a Close frame on the wire,      *)
(* unless the socket was closed or dropped before it was read or the       *)
(* connection does not live long enough.                                   *)
Offended == \E i \in DOMAIN frames : Final(frames, i) /\ Offence(frames, i) # NoType
Answered == status # NoType /\ wire # <<>> /\ wire[Len(wire)] = <<Len(accepted), "payload">>
OffenceAnswered ==
    Offended ~>
        \/ task = "done" /\ Answered
        \/ task = "none" /\ (closed \/ inner = "dropped")
        \/ shut \/ ended \in {"cut", "reset"}
=============================================================================
