----------------------------- MODULE Connection -----------------------------
(***************************************************************************)
(* ttpkit_utils::io: a connection with its read and write timers and the   *)
(* prepend buffer, split into halves, joined again and upgraded.  The user *)
(* is whoever polls it: a codec that keeps what it has read in a buffer of *)
(* its own and gives the rest back.  Bytes are numbered in the order in    *)
(* which the peer sends them.  Time passes in ticks; a timer that elapses  *)
(* wakes its task before the next tick.                                    *)
(***************************************************************************)
EXTENDS Integers, Sequences, SequencesExt

CONSTANTS
    Bytes,         \* the number of bytes the peer sends
    ReadTimeout,   \* ConnectionBuilder::read_timeout, in ticks
    WriteTimeout   \* ConnectionBuilder::write_timeout, in ticks

ASSUME BytesAssumption == Bytes \in Nat
ASSUME TimeoutAssumption ==
    ReadTimeout \in Nat \ {0} /\ WriteTimeout \in Nat \ {0}

VARIABLES
    layout,    \* "whole", "split" or "upgraded"
    arrived,   \* bytes that have arrived at the socket
    taken,     \* bytes read from the socket
    buffer,    \* the prepend buffer of the connection: a stack of chunks
    rbuffer,   \* the prepend buffer of the reader half
    held,      \* bytes the user has read and not used yet
    used,      \* bytes the user has used
    rtimer,    \* ticks left of the read timer, Off if it is not armed
    wtimer,    \* ticks left of the write timer
    rstate,    \* "idle" or "pending": a read that waits
    wstate,    \* "idle" or "pending": a write, flush or shutdown that waits
    rwaited,   \* ticks since the read that waits began to wait
    wwaited    \* ticks since the write that waits began to wait

rvars == <<rtimer, rstate, rwaited>>
wvars == <<wtimer, wstate, wwaited>>
bufs == <<taken, buffer, rbuffer, held, used>>
vars == <<layout, arrived, bufs, rvars, wvars>>

Off == -1

Init ==
    /\ layout = "whole"
    /\ arrived = 0 /\ taken = 0
    /\ buffer = <<>> /\ rbuffer = <<>>
    /\ held = <<>> /\ used = <<>>
    /\ rtimer = Off /\ wtimer = Off
    /\ rstate = "idle" /\ wstate = "idle"
    /\ rwaited = 0 /\ wwaited = 0

(* The peer sends a byte.                                                  *)
Arrive ==
    /\ arrived < Bytes
    /\ arrived' = arrived + 1
    /\ UNCHANGED <<layout, bufs, rvars, wvars>>

(***************************************************************************)
(* The prepend buffer                                                      *)
(***************************************************************************)

(* The buffer that a read looks at: the reader half has one of its own.    *)
Current == IF layout = "split" THEN rbuffer ELSE buffer
SetCurrent(b) ==
    IF layout = "split" THEN rbuffer' = b /\ UNCHANGED buffer
                        ELSE buffer' = b /\ UNCHANGED rbuffer

(* Mutant of ReadChunk: a chunk that has been read stays in the buffer.    *)
ReadChunkKept(stack, n) ==
    Append(Front(stack), SubSeq(Last(stack), n + 1, Len(Last(stack))))

(* The chunk pushed last is read first; an empty chunk is taken off.       *)
ReadChunk(stack, n) ==
    LET rest == SubSeq(Last(stack), n + 1, Len(Last(stack)))
    IN  IF rest = <<>> THEN Front(stack) ELSE Append(Front(stack), rest)

(* Mutant of PushChunk: the chunk given back is read after the others.     *)
PushChunkBelow(stack, chunk) ==
    IF chunk = <<>> THEN stack ELSE <<chunk>> \o stack

PushChunk(stack, chunk) ==
    IF chunk = <<>> THEN stack ELSE Append(stack, chunk)

(* The user gives back what it has not used (the connection and its reader *)
(* half only: an upgraded connection takes nothing back).                  *)
Prepend ==
    /\ layout # "upgraded" /\ rstate = "idle"
    /\ held # <<>>
    /\ SetCurrent(PushChunk(Current, held))
    /\ held' = <<>>
    /\ UNCHANGED <<layout, arrived, taken, used, rvars, wvars>>

Use ==
    /\ held # <<>>
    /\ \E n \in 1 .. Len(held) :
          /\ used' = used \o SubSeq(held, 1, n)
          /\ held' = SubSeq(held, n + 1, Len(held))
    /\ UNCHANGED <<layout, arrived, taken, buffer, rbuffer, rvars, wvars>>

(***************************************************************************)
(* poll_read: from the prepend buffer, with no look at the timer; from the *)
(* socket, which disarms the timer; or a check of the timer.               *)
(***************************************************************************)
PollReadBuffered ==
    /\ Current # <<>>
    /\ \E n \in 1 .. Len(Last(Current)) :
          /\ held' = held \o SubSeq(Last(Current), 1, n)
          /\ SetCurrent(ReadChunk(Current, n))
    /\ rstate' = "idle" /\ rwaited' = 0
    /\ UNCHANGED <<layout, arrived, taken, used, rtimer, wvars>>

PollReadReady ==
    /\ Current = <<>> /\ taken < arrived
    /\ \E n \in 1 .. arrived - taken :
          /\ held' = held \o [i \in 1 .. n |-> taken + i]
          /\ taken' = taken + n
    /\ rtimer' = Off
    /\ rstate' = "idle" /\ rwaited' = 0
    /\ UNCHANGED <<layout, arrived, buffer, rbuffer, used, wvars>>

(* Nothing there: the timer is armed unless it runs already.               *)
(* Mutant of PollReadPending: every poll starts the timer anew.            *)
PollReadPendingRearmed ==
    /\ Current = <<>> /\ taken = arrived
    /\ rtimer # 0
    /\ rtimer' = IF layout = "upgraded" THEN Off ELSE ReadTimeout
    /\ rstate' = "pending"
    /\ UNCHANGED <<layout, arrived, bufs, rwaited, wvars>>

PollReadPending ==
    /\ Current = <<>> /\ taken = arrived
    /\ rtimer # 0
    /\ rtimer' = IF layout # "upgraded" /\ rtimer = Off THEN ReadTimeout
                                                        ELSE rtimer
    /\ rstate' = "pending"
    /\ UNCHANGED <<layout, arrived, bufs, rwaited, wvars>>

(* The read fails; the elapsed timer stays.                                *)
PollReadTimeout ==
    /\ Current = <<>> /\ taken = arrived
    /\ rtimer = 0
    /\ rstate' = "idle" /\ rwaited' = 0
    /\ UNCHANGED <<layout, arrived, bufs, rtimer, wvars>>

PollRead ==
    \/ PollReadBuffered \/ PollReadReady \/ PollReadPending \/ PollReadTimeout

(* The task that waits for the read goes on without it (a reader whose     *)
(* body is complete, or a future that is dropped).  The timer runs on.     *)
AbandonRead ==
    /\ rstate = "pending"
    /\ rstate' = "idle" /\ rwaited' = 0
    /\ UNCHANGED <<layout, arrived, bufs, rtimer, wvars>>

(***************************************************************************)
(* poll_write, poll_flush, poll_shutdown and poll_write_vectored           *)
(***************************************************************************)

(* Mutant of PollWriteReady: progress of a write disarms the read timer.   *)
PollWriteReadyBoth ==
    /\ wtimer' = Off
    /\ rtimer' = Off
    /\ wstate' = "idle" /\ wwaited' = 0
    /\ UNCHANGED <<layout, arrived, bufs, rstate, rwaited>>

PollWriteReady ==
    /\ wtimer' = Off
    /\ wstate' = "idle" /\ wwaited' = 0
    /\ UNCHANGED <<layout, arrived, bufs, rvars>>

PollWritePending ==
    /\ wtimer # 0
    /\ wtimer' = IF layout # "upgraded" /\ wtimer = Off THEN WriteTimeout
                                                        ELSE wtimer
    /\ wstate' = "pending"
    /\ UNCHANGED <<layout, arrived, bufs, wwaited, rvars>>

PollWriteTimeout ==
    /\ wtimer = 0
    /\ wstate' = "idle" /\ wwaited' = 0
    /\ UNCHANGED <<layout, arrived, bufs, wtimer, rvars>>

PollWrite == PollWriteReady \/ PollWritePending \/ PollWriteTimeout

(***************************************************************************)
(* Split, join, upgrade: they own the connection, so nothing waits.        *)
(***************************************************************************)
Owned == rstate = "idle" /\ wstate = "idle"

Split ==
    /\ layout = "whole" /\ Owned
    /\ layout' = "split"
    /\ rbuffer' = buffer /\ buffer' = <<>>
    /\ UNCHANGED <<arrived, taken, held, used, rvars, wvars>>

(* Mutant of Join: the buffer of the reader half is dropped with it.       *)
JoinDropped ==
    /\ layout = "split" /\ Owned
    /\ layout' = "whole"
    /\ rbuffer' = <<>> /\ UNCHANGED buffer
    /\ UNCHANGED <<arrived, taken, held, used, rvars, wvars>>

Join ==
    /\ layout = "split" /\ Owned
    /\ layout' = "whole"
    /\ buffer' = rbuffer /\ rbuffer' = <<>>
    /\ UNCHANGED <<arrived, taken, held, used, rvars, wvars>>

(* The timers go with the context that holds them.                         *)
Upgrade ==
    /\ layout = "whole" /\ Owned
    /\ layout' = "upgraded"
    /\ rtimer' = Off /\ wtimer' = Off
    /\ UNCHANGED <<arrived, bufs, rstate, rwaited, wstate, wwaited>>

(***************************************************************************)
(* Time.  A task that can go on does so before the next tick; the ticks an *)
(* upgraded connection waits are not counted, it has no timers.            *)
(***************************************************************************)
Runs(timer) == IF timer > 0 THEN timer - 1 ELSE timer
Counts(state, waited) ==
    IF state = "pending" /\ layout # "upgraded" THEN waited + 1 ELSE waited

Tick ==
    /\ ~(rstate = "pending" /\ (rtimer = 0 \/ taken < arrived))
    /\ ~(wstate = "pending" /\ wtimer = 0)
    /\ rwaited <= ReadTimeout /\ wwaited <= WriteTimeout  \* bounds the count
    /\ rtimer' = Runs(rtimer) /\ wtimer' = Runs(wtimer)
    /\ rwaited' = Counts(rstate, rwaited)
    /\ wwaited' = Counts(wstate, wwaited)
    /\ UNCHANGED <<layout, arrived, bufs, rstate, wstate>>

Next ==
    \/ Arrive \/ Prepend \/ Use \/ PollRead \/ AbandonRead \/ PollWrite
    \/ Split \/ Join \/ Upgrade \/ Tick

Spec == Init /\ [][Next]_vars

(***************************************************************************)
(* Properties                                                              *)
(***************************************************************************)

(* Type invariant: ranges of the timers, of the bytes and of the states; no *)
(* chunk of a prepend buffer is empty, because a read that finds one would *)
(* return no bytes, which means the end of the stream.                     *)
TypeOK ==
    /\ layout \in {"whole", "split", "upgraded"}
    /\ taken \in 0 .. arrived /\ arrived \in 0 .. Bytes
    /\ rtimer \in Off .. ReadTimeout /\ wtimer \in Off .. WriteTimeout
    /\ rstate \in {"idle", "pending"} /\ wstate \in {"idle", "pending"}
    /\ rwaited \in 0 .. ReadTimeout + 1 /\ wwaited \in 0 .. WriteTimeout + 1
    /\ \A b \in {buffer, rbuffer} : \A i \in DOMAIN b : b[i] # <<>>

(* Every byte taken from the socket is used, held by the user or in one of *)
(* the prepend buffers, once and in its place, through every split, join,  *)
(* upgrade and giving back.                                                *)
NothingLost ==
    used \o held \o FlattenSeq(Reverse(rbuffer)) \o FlattenSeq(Reverse(buffer))
        = [i \in 1 .. taken |-> i]

(* A read or a write that waits fails once its timeout has passed, however *)
(* often it is polled and whatever the other half does.                    *)
DeadlineKept == rwaited <= ReadTimeout /\ wwaited <= WriteTimeout

(* "Check if the read timeout has elapsed." (ttpkit-utils/src/io.rs:256):  *)
(* a read that fails has waited for ReadTimeout.                           *)
TimeoutEarned ==
    [][PollReadTimeout => rstate = "pending" /\ rwaited = ReadTimeout]_vars
=============================================================================
