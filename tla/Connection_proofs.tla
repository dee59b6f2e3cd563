------------------------- MODULE Connection_proofs -------------------------
(***************************************************************************)
(* Proofs that the timers of Connection keep their deadlines and that its  *)
(* buffers lose no byte, for every pair of timeouts and any number of      *)
(* bytes.                                                                  *)
(***************************************************************************)
EXTENDS Connection, SequenceFacts

(* A side (reading or writing) that does not wait has waited for nothing;  *)
(* one that waits on a connection with timers has its timer armed, and the *)
(* time it has waited and the time left do not add up to more than the     *)
(* timeout: the timer may only have been armed before the wait began.      *)
SideInv(timer, state, waited, timeout) ==
    /\ timer \in Off .. timeout
    /\ state \in {"idle", "pending"}
    /\ waited \in Nat
    /\ state = "idle" => waited = 0
    /\ layout = "upgraded" => waited = 0
    /\ state = "pending" /\ layout # "upgraded" =>
          timer >= 0 /\ waited + timer <= timeout

DeadlineInv ==
    /\ layout \in {"whole", "split", "upgraded"}
    /\ SideInv(rtimer, rstate, rwaited, ReadTimeout)
    /\ SideInv(wtimer, wstate, wwaited, WriteTimeout)

LEMMA DeadlineInit == Init => DeadlineInv
  BY TimeoutAssumption DEF Init, DeadlineInv, SideInv, Off

LEMMA DeadlineImplied == DeadlineInv => DeadlineKept
  BY TimeoutAssumption DEF DeadlineInv, SideInv, DeadlineKept, Off

LEMMA DeadlineStep == DeadlineInv /\ [Next]_vars => DeadlineInv'
<1> SUFFICES ASSUME DeadlineInv, [Next]_vars PROVE DeadlineInv'
    OBVIOUS
<1> USE TimeoutAssumption DEF DeadlineInv, SideInv, Off
<1>1. CASE Arrive
    BY <1>1 DEF Arrive, rvars, wvars
<1>2. CASE Prepend \/ Use
    BY <1>2 DEF Prepend, Use, rvars, wvars
<1>3. CASE PollRead
  <2>1. CASE PollReadBuffered
      BY <2>1 DEF PollReadBuffered, wvars
  <2>2. CASE PollReadReady
      BY <2>2 DEF PollReadReady, wvars
  <2>3. CASE PollReadPending
      BY <2>3 DEF PollReadPending, wvars
  <2>4. CASE PollReadTimeout
      BY <2>4 DEF PollReadTimeout, wvars
  <2> QED
      BY <1>3, <2>1, <2>2, <2>3, <2>4 DEF PollRead
<1>4. CASE AbandonRead
    BY <1>4 DEF AbandonRead, wvars
<1>5. CASE PollWrite
    BY <1>5 DEF PollWrite, PollWriteReady, PollWritePending,
                PollWriteTimeout, rvars
<1>6. CASE Split \/ Join
    BY <1>6 DEF Split, Join, rvars, wvars
<1>7. CASE Upgrade
    BY <1>7 DEF Upgrade, Owned
<1>8. CASE Tick
  <2>1. (SideInv(rtimer, rstate, rwaited, ReadTimeout))'
      BY <1>8 DEF Tick, Runs, Counts
  <2>2. (SideInv(wtimer, wstate, wwaited, WriteTimeout))'
      BY <1>8 DEF Tick, Runs, Counts
  <2> QED
      BY <1>8, <2>1, <2>2 DEF Tick
<1>9. CASE UNCHANGED vars
    BY <1>9 DEF vars, rvars, wvars
<1> QED
    BY <1>1, <1>2, <1>3, <1>4, <1>5, <1>6, <1>7, <1>8, <1>9 DEF Next

(* A read or a write that waits fails once its timeout has passed, however *)
(* often it is polled and whatever the other half does (io.rs:124-314).    *)
THEOREM Deadlines == Spec => []DeadlineKept
<1>1. Spec => []DeadlineInv
    BY DeadlineInit, DeadlineStep, PTL DEF Spec
<1> QED
    BY <1>1, DeadlineImplied, PTL
-----------------------------------------------------------------------------
(***************************************************************************)
(* The bytes.  A connection has one prepend buffer in use, the other is    *)
(* empty; no chunk in it is empty; and what has been used, what the user   *)
(* holds and what that buffer holds make up all that has been taken.       *)
(***************************************************************************)
Chunk == Seq(Nat)
Stack(b) == FlattenSeq(Reverse(b))
NoneEmpty(b) == \A i \in DOMAIN b : b[i] # <<>>

ByteTypes ==
    /\ layout \in {"whole", "split", "upgraded"}
    /\ arrived \in 0 .. Bytes /\ taken \in 0 .. arrived
    /\ used \in Chunk /\ held \in Chunk
    /\ buffer \in Seq(Chunk) /\ NoneEmpty(buffer)
    /\ rbuffer \in Seq(Chunk) /\ NoneEmpty(rbuffer)
    /\ layout = "split" => buffer = <<>>
    /\ layout # "split" => rbuffer = <<>>

ByteInv ==
    /\ ByteTypes
    /\ (used \o held) \o Stack(Current) = [i \in 1 .. taken |-> i]

LEMMA ChunkClosed == Closed(Chunk)
BY SeqClosed DEF Chunk

LEMMA ChunkAssociative ==
    ASSUME NEW a \in Chunk, NEW b \in Chunk, NEW c \in Chunk
    PROVE  (a \o b) \o c = a \o (b \o c)
BY ConcatAssociative DEF Chunk

LEMMA ChunkSplit ==
    ASSUME NEW c \in Chunk, NEW k \in 1 .. Len(c)
    PROVE  /\ SubSeq(c, 1, k) \in Chunk /\ SubSeq(c, k + 1, Len(c)) \in Chunk
           /\ SubSeq(c, 1, k) \o SubSeq(c, k + 1, Len(c)) = c
           /\ Len(SubSeq(c, k + 1, Len(c))) = Len(c) - k
<1>1. Len(c) \in Nat /\ \A i \in 1 .. Len(c) : c[i] \in Nat
    BY LenProperties, ElementOfSeq DEF Chunk
<1>2. SubSeq(c, 1, k) \in Seq(Nat) /\ SubSeq(c, k + 1, Len(c)) \in Seq(Nat)
    BY <1>1, SubSeqProperties
<1>3. Len(SubSeq(c, k + 1, Len(c))) = Len(c) - k
    BY <1>1, SubSeqProperties
<1>4. SubSeq(c, 1, k) \o SubSeq(c, k + 1, Len(c)) = SubSeq(c, 1, Len(c))
    BY <1>1, ConcatAdjacentSubSeq DEF Chunk
<1> QED
    BY <1>2, <1>3, <1>4, SubSeqFull DEF Chunk

(* PushChunk puts the chunk before what the buffer holds ...               *)
LEMMA PushChunkIs ==
    ASSUME NEW b \in Seq(Chunk), NoneEmpty(b), NEW c \in Chunk
    PROVE  /\ PushChunk(b, c) \in Seq(Chunk) /\ NoneEmpty(PushChunk(b, c))
           /\ Stack(PushChunk(b, c)) = c \o Stack(b)
<1>1. CASE c = <<>>
  <2>1. Stack(b) \in Chunk
      BY ChunkClosed, StackType DEF Stack
  <2>2. <<>> \o Stack(b) = Stack(b)
      BY <2>1, ChunkClosed DEF Closed
  <2> QED
      BY <1>1, <2>2 DEF PushChunk
<1>2. CASE c # <<>>
  <2>1. PushChunk(b, c) = Append(b, c)
      BY <1>2 DEF PushChunk
  <2>2. /\ Append(b, c) \in Seq(Chunk) /\ Len(Append(b, c)) = Len(b) + 1
        /\ \A i \in 1 .. Len(b) : Append(b, c)[i] = b[i]
        /\ Append(b, c)[Len(b) + 1] = c /\ Len(b) \in Nat
      BY AppendProperties, LenProperties
  <2>3. NoneEmpty(Append(b, c))
    <3>1. DOMAIN Append(b, c) = 1 .. Len(b) + 1 /\ DOMAIN b = 1 .. Len(b)
        BY <2>2, LenProperties
    <3> QED
        BY <1>2, <2>2, <3>1 DEF NoneEmpty
  <2>4. Stack(Append(b, c)) = c \o Stack(b)
      BY ChunkClosed, StackPush DEF Stack
  <2> QED
      BY <2>1, <2>2, <2>3, <2>4
<1> QED
    BY <1>1, <1>2

(* ... and ReadChunk takes the first of it away.                           *)
LEMMA ReadChunkIs ==
    ASSUME NEW b \in Seq(Chunk), NoneEmpty(b), b # <<>>,
           NEW k \in 1 .. Len(Last(b))
    PROVE  /\ SubSeq(Last(b), 1, k) \in Chunk
           /\ ReadChunk(b, k) \in Seq(Chunk) /\ NoneEmpty(ReadChunk(b, k))
           /\ SubSeq(Last(b), 1, k) \o Stack(ReadChunk(b, k)) = Stack(b)
<1> DEFINE v == Front(b)
           c == Last(b)
           x == SubSeq(c, 1, k)
           y == SubSeq(c, k + 1, Len(c))
<1>1. v \in Seq(Chunk) /\ c \in Chunk /\ b = Append(v, c)
    BY StackTop
<1>2. x \in Chunk /\ y \in Chunk /\ x \o y = c
    BY <1>1, ChunkSplit
<1>3. ReadChunk(b, k) = PushChunk(v, y)
    BY DEF ReadChunk, PushChunk
<1>4. NoneEmpty(v)
  <2>1. /\ Len(b) = Len(v) + 1 /\ \A i \in 1 .. Len(v) : b[i] = v[i]
        /\ Len(v) \in Nat /\ DOMAIN v = 1 .. Len(v)
      BY <1>1, AppendProperties, LenProperties
  <2>2. DOMAIN b = 1 .. Len(b)
      BY LenProperties
  <2> HIDE DEF v
  <2> QED
      BY <2>1, <2>2 DEF NoneEmpty
<1>5. Stack(b) = c \o Stack(v)
    BY <1>1, ChunkClosed, StackPush DEF Stack
<1>6. Stack(v) \in Chunk
    BY <1>1, ChunkClosed, StackType DEF Stack
<1> HIDE DEF v, c, x, y
<1>7. /\ PushChunk(v, y) \in Seq(Chunk) /\ NoneEmpty(PushChunk(v, y))
      /\ Stack(PushChunk(v, y)) = y \o Stack(v)
    BY <1>1, <1>2, <1>4, PushChunkIs
<1>8. x \o (y \o Stack(v)) = (x \o y) \o Stack(v)
    BY <1>2, <1>6, ChunkClosed DEF Closed
<1> QED
    BY <1>2, <1>3, <1>5, <1>7, <1>8 DEF v, c, x, y

(* The bytes in the buffer that is in use and in the other one, which is   *)
(* empty, as NothingLost writes them.                                      *)
LEMMA OneBuffer ==
    ByteTypes =>
        /\ Stack(Current) \in Chunk
        /\ (used \o held) \o Stack(Current) =
              used \o held \o FlattenSeq(Reverse(rbuffer)) \o FlattenSeq(Reverse(buffer))
<1> SUFFICES ASSUME ByteTypes
             PROVE  /\ Stack(Current) \in Chunk
                    /\ (used \o held) \o Stack(Current) =
                         ((used \o held) \o Stack(rbuffer)) \o Stack(buffer)
    BY DEF Stack
<1>1. /\ Stack(rbuffer) \in Chunk /\ Stack(buffer) \in Chunk
      /\ Stack(<<>>) = <<>> /\ used \o held \in Chunk
    BY ChunkClosed, StackType, StackEmpty DEF ByteTypes, Stack, Closed
<1> DEFINE u == used \o held
<1>2. /\ u \o <<>> = u
      /\ \A c \in Chunk : u \o c \in Chunk /\ (u \o c) \o <<>> = u \o c
    BY <1>1, ChunkClosed DEF Closed
<1> HIDE DEF u
<1>3. Stack(Current) \in Chunk /\ u \o Stack(Current) = (u \o Stack(rbuffer)) \o Stack(buffer)
  <2>1. CASE layout = "split"
      BY <1>1, <1>2, <2>1 DEF ByteTypes, Current
  <2>2. CASE layout # "split"
      BY <1>1, <1>2, <2>2 DEF ByteTypes, Current
  <2> QED
      BY <2>1, <2>2
<1> QED
    BY <1>3 DEF u

LEMMA ByteImplied == ByteInv => NothingLost
BY OneBuffer DEF ByteInv, NothingLost

LEMMA ByteInit == Init => ByteInv
<1> SUFFICES ASSUME Init PROVE ByteInv
    OBVIOUS
<1>1. ByteTypes
    BY BytesAssumption, ChunkClosed DEF Init, ByteTypes, NoneEmpty, Closed
<1>2. Stack(Current) = <<>>
    BY StackEmpty DEF Init, Current, Stack
<1>3. (<<>> \o <<>>) \o <<>> = [i \in 1 .. 0 |-> i]
    BY ChunkClosed DEF Closed
<1> QED
    BY <1>1, <1>2, <1>3 DEF Init, ByteInv

(* A step that leaves the bytes alone.                                     *)
LEMMA ByteFrame ==
    ASSUME ByteInv, UNCHANGED bufs, arrived' \in arrived .. Bytes,
           layout' = layout \/ (layout = "whole" /\ layout' = "upgraded")
    PROVE  ByteInv'
<1>1. Current' = Current
    BY DEF Current, bufs
<1>2. ByteTypes'
    BY BytesAssumption DEF ByteInv, ByteTypes, bufs, NoneEmpty
<1> QED
    BY <1>1, <1>2 DEF ByteInv, bufs, Stack

LEMMA ByteStep == ByteInv /\ [Next]_vars => ByteInv'
<1> USE BytesAssumption
<1> SUFFICES ASSUME ByteInv, [Next]_vars PROVE ByteInv'
    OBVIOUS
<1>a. /\ ByteTypes /\ arrived \in Nat /\ taken \in Nat
      /\ Current \in Seq(Chunk) /\ NoneEmpty(Current)
      /\ Stack(Current) \in Chunk
    BY OneBuffer DEF ByteInv, ByteTypes, Current
<1>b. /\ \A c, d \in Chunk : c \o d \in Chunk
      /\ \A c, d, e \in Chunk : (c \o d) \o e = c \o (d \o e)
      /\ \A c \in Chunk : c \o <<>> = c
      /\ <<>> \in Chunk
    BY ChunkClosed DEF Closed
<1>1. CASE Arrive
    BY <1>1, <1>a, ByteFrame DEF Arrive
<1>2. CASE Prepend
  <2> DEFINE b == PushChunk(Current, held)
  <2>1. /\ layout' = layout /\ arrived' = arrived /\ taken' = taken
        /\ used' = used /\ held' = <<>> /\ SetCurrent(b)
      BY <1>2 DEF Prepend
  <2>2. held \in Chunk /\ used \in Chunk
      BY <1>a DEF ByteTypes
  <2>3. b \in Seq(Chunk) /\ NoneEmpty(b) /\ Stack(b) = held \o Stack(Current)
      BY <1>a, <2>2, PushChunkIs
  <2> HIDE DEF b
  <2>4. Current' = b
      BY <2>1 DEF Current, SetCurrent
  <2>5. ByteTypes'
      BY SMTT(20), <1>a, <1>b, <2>1, <2>3 DEF ByteTypes, SetCurrent, NoneEmpty
  <2>6. (used \o <<>>) \o (held \o Stack(Current)) = (used \o held) \o Stack(Current)
    <3>1. used \o <<>> = used
        BY <1>b, <2>2
    <3>2. (used \o held) \o Stack(Current) = used \o (held \o Stack(Current))
      <4>1. Stack(Current) \in Chunk
          BY <1>a
      <4> QED
          BY ZenonT(30), <2>2, <4>1, ChunkAssociative
    <3> QED
        BY <3>1, <3>2
  <2> QED
      BY <2>1, <2>3, <2>4, <2>5, <2>6 DEF ByteInv, Stack
<1>3. CASE Use
  <2>1. PICK k \in 1 .. Len(held) :
           /\ used' = used \o SubSeq(held, 1, k)
           /\ held' = SubSeq(held, k + 1, Len(held))
      BY <1>3 DEF Use
  <2>2. UNCHANGED <<layout, arrived, taken, buffer, rbuffer>>
      BY <1>3 DEF Use
  <2> DEFINE x == SubSeq(held, 1, k)
             y == SubSeq(held, k + 1, Len(held))
  <2>3. /\ held \in Chunk /\ used \in Chunk
        /\ x \in Chunk /\ y \in Chunk /\ x \o y = held
      BY <1>a, ChunkSplit DEF ByteTypes
  <2> HIDE DEF x, y
  <2>4. used' = used \o x /\ held' = y
      BY <2>1 DEF x, y
  <2>5. ByteTypes'
    <3>1. used \o x \in Chunk
        BY <1>a, <1>b, <2>3 DEF ByteTypes
    <3>2. used' \in Chunk /\ held' \in Chunk
        BY <2>3, <2>4, <3>1
    <3> QED
        BY <1>a, <2>2, <3>2 DEF ByteTypes, NoneEmpty
  <2>6. (used \o x) \o y = used \o held
    <3>1. (used \o x) \o y = used \o (x \o y)
        BY ZenonT(30), <2>3, ChunkAssociative
    <3> QED
        BY <2>3, <3>1
  <2>7. Current' = Current
      BY <2>2 DEF Current
  <2> QED
      BY <2>2, <2>4, <2>5, <2>6, <2>7 DEF ByteInv, Stack
<1>4. CASE PollReadBuffered
  <2>1. PICK k \in 1 .. Len(Last(Current)) :
           /\ held' = held \o SubSeq(Last(Current), 1, k)
           /\ SetCurrent(ReadChunk(Current, k))
      BY <1>4 DEF PollReadBuffered
  <2>2. UNCHANGED <<layout, arrived, taken, used>> /\ Current # <<>>
      BY <1>4 DEF PollReadBuffered
  <2> DEFINE x == SubSeq(Last(Current), 1, k)
             b == ReadChunk(Current, k)
  <2>3. /\ x \in Chunk /\ b \in Seq(Chunk) /\ NoneEmpty(b)
        /\ x \o Stack(b) = Stack(Current)
      BY <1>a, <2>2, ReadChunkIs
  <2>4. held \in Chunk /\ used \in Chunk
      BY <1>a DEF ByteTypes
  <2> HIDE DEF x, b
  <2>5. held' = held \o x /\ SetCurrent(b)
      BY <2>1 DEF x, b
  <2>6. Current' = b
      BY <2>2, <2>5 DEF Current, SetCurrent
  <2>7. ByteTypes'
    <3>1. held \o x \in Chunk
        BY <1>b, <2>3, <2>4
    <3>2. /\ buffer' \in Seq(Chunk) /\ NoneEmpty(buffer')
          /\ rbuffer' \in Seq(Chunk) /\ NoneEmpty(rbuffer')
        BY <1>a, <2>2, <2>3, <2>5 DEF ByteTypes, SetCurrent
    <3>3. /\ layout' = "split" => buffer' = <<>>
          /\ layout' # "split" => rbuffer' = <<>>
        BY <1>a, <2>2, <2>5 DEF ByteTypes, SetCurrent
    <3> QED
        BY <1>a, <2>2, <2>5, <3>1, <3>2, <3>3 DEF ByteTypes, NoneEmpty
  <2>8. Stack(b) \in Chunk
      BY <2>3, ChunkClosed, StackType DEF Stack
  <2>9. (used \o (held \o x)) \o Stack(b) = (used \o held) \o Stack(Current)
    <3>1. used \o (held \o x) = (used \o held) \o x
      <4>1. (used \o held) \o x = used \o (held \o x)
          BY ZenonT(30), <2>3, <2>4, ChunkAssociative
      <4> QED
          BY <4>1
    <3>2. used \o held \in Chunk
        BY <1>b, <2>4
    <3>3. ((used \o held) \o x) \o Stack(b) = (used \o held) \o (x \o Stack(b))
        BY ZenonT(30), <2>3, <2>8, <3>2, ChunkAssociative
    <3> QED
        BY <2>3, <3>1, <3>3
  <2> QED
      BY <2>2, <2>5, <2>6, <2>7, <2>9 DEF ByteInv, Stack
<1>5. CASE PollReadReady
  <2>1. PICK k \in 1 .. arrived - taken :
           /\ held' = held \o [i \in 1 .. k |-> taken + i]
           /\ taken' = taken + k
      BY <1>5 DEF PollReadReady
  <2>2. /\ UNCHANGED <<layout, arrived, used, buffer, rbuffer>>
        /\ Current = <<>>
      BY <1>5 DEF PollReadReady
  <2> DEFINE x == [i \in 1 .. k |-> taken + i]
  <2>3. x \in Seq(Nat) /\ Len(x) = k /\ \A i \in 1 .. k : x[i] = taken + i
      BY <1>a
  <2>4. held \in Chunk /\ used \in Chunk /\ x \in Chunk
      BY <1>a, <2>3 DEF ByteTypes, Chunk
  <2> HIDE DEF x
  <2>5. held' = held \o x
      BY <2>1 DEF x
  <2>6. Current' = <<>> /\ Stack(<<>>) = <<>>
      BY <2>2, StackEmpty DEF Current, Stack
  <2>7. ByteTypes'
    <3>1. held \o x \in Chunk
        BY <1>b, <2>4
    <3>2. taken + k \in 0 .. arrived
        BY <1>a DEF ByteTypes
    <3>3. taken' \in 0 .. arrived' /\ arrived' \in 0 .. Bytes
        BY <1>a, <2>1, <2>2, <3>2 DEF ByteTypes
    <3> QED
        BY <1>a, <2>2, <2>5, <3>1, <3>3 DEF ByteTypes, NoneEmpty
  <2> DEFINE u == used \o held
  <2>8. u \in Chunk /\ u = [i \in 1 .. taken |-> i]
      BY <1>b, <2>2, <2>4, <2>6 DEF ByteInv
  <2>9. used \o (held \o x) = u \o x /\ u \o x \in Chunk
    <3>1. (used \o held) \o x = used \o (held \o x)
        BY ZenonT(30), <2>4, ChunkAssociative
    <3> QED
        BY <1>b, <2>4, <2>8, <3>1
  <2> HIDE DEF u
  <2>10. u \o x = [i \in 1 .. taken + k |-> i]
    <3> DEFINE w == [i \in 1 .. taken + k |-> i]
    <3>1. w \in Seq(Nat) /\ Len(w) = taken + k
        BY <1>a
    <3>2. u \in Seq(Nat) /\ Len(u) = taken /\ \A i \in 1 .. taken : u[i] = i
        BY <1>a, <2>8 DEF Chunk
    <3>3. /\ u \o x \in Seq(Nat) /\ Len(u \o x) = taken + k
          /\ \A i \in 1 .. taken + k : (u \o x)[i] =
                IF i <= taken THEN u[i] ELSE x[i - taken]
      <4>1. /\ u \o x \in Seq(Nat) /\ Len(u \o x) = Len(u) + Len(x)
            /\ \A i \in 1 .. Len(u) + Len(x) : (u \o x)[i] =
                  IF i <= Len(u) THEN u[i] ELSE x[i - Len(u)]
          BY <2>3, <3>2, ConcatProperties
      <4> QED
          BY <2>3, <3>2, <4>1
    <3>6. \A i \in 1 .. taken + k : w[i] = i
        OBVIOUS
    <3> HIDE DEF w
    <3>4. ASSUME NEW i \in 1 .. taken + k PROVE (u \o x)[i] = w[i]
      <4>1. CASE i <= taken
        <5>1. i \in 1 .. taken
            BY <1>a, <4>1
        <5>2. (u \o x)[i] = u[i]
            BY <3>3, <4>1
        <5>3. u[i] = i
            BY <3>2, <5>1
        <5>4. w[i] = i
            BY <3>6
        <5> QED
            BY <5>2, <5>3, <5>4
      <4>2. CASE i > taken
        <5>1. i - taken \in 1 .. k /\ ~(i <= taken) /\ taken + (i - taken) = i
            BY <1>a, <4>2
        <5>2. (u \o x)[i] = x[i - taken] /\ w[i] = i
            BY <3>3, <3>6, <5>1
        <5>3. x[i - taken] = taken + (i - taken)
            BY <2>3, <5>1
        <5> QED
            BY <5>1, <5>2, <5>3
      <4>3. i <= taken \/ i > taken
          BY <1>a
      <4> QED
          BY <4>1, <4>2, <4>3
    <3>5. u \o x = w
        BY <3>1, <3>3, <3>4, SeqEqual
    <3> QED
        BY <3>5 DEF w
  <2>11. (used \o (held \o x)) \o <<>> = [i \in 1 .. taken + k |-> i]
      BY <1>b, <2>9, <2>10
  <2> QED
      BY <2>1, <2>2, <2>5, <2>6, <2>7, <2>11 DEF ByteInv
<1>6. CASE PollReadPending \/ PollReadTimeout \/ AbandonRead
    BY <1>6, <1>a, ByteFrame
    DEF PollReadPending, PollReadTimeout, AbandonRead, ByteTypes
<1>7. CASE PollWrite
    BY <1>7, <1>a, ByteFrame
    DEF PollWrite, PollWriteReady, PollWritePending, PollWriteTimeout, ByteTypes
<1>8. CASE Split
  <2>1. /\ layout = "whole" /\ layout' = "split"
        /\ rbuffer' = buffer /\ buffer' = <<>>
        /\ UNCHANGED <<arrived, taken, held, used>>
      BY <1>8 DEF Split
  <2>2. Current' = Current
      BY <2>1 DEF Current
  <2>3. ByteTypes'
      BY <1>a, <2>1 DEF ByteTypes, NoneEmpty
  <2> QED
      BY <2>1, <2>2, <2>3 DEF ByteInv, Stack
<1>9. CASE Join
  <2>1. /\ layout = "split" /\ layout' = "whole"
        /\ buffer' = rbuffer /\ rbuffer' = <<>>
        /\ UNCHANGED <<arrived, taken, held, used>>
      BY <1>9 DEF Join
  <2>2. Current' = Current
      BY <2>1 DEF Current
  <2>3. ByteTypes'
      BY <1>a, <2>1 DEF ByteTypes, NoneEmpty
  <2> QED
      BY <2>1, <2>2, <2>3 DEF ByteInv, Stack
<1>10. CASE Upgrade
    BY <1>10, <1>a, ByteFrame DEF Upgrade, ByteTypes
<1>11. CASE Tick
    BY <1>11, <1>a, ByteFrame DEF Tick, ByteTypes
<1>12. CASE UNCHANGED vars
    BY <1>12, <1>a, ByteFrame DEF vars, ByteTypes
<1> QED
    BY <1>1, <1>2, <1>3, <1>4, <1>5, <1>6, <1>7, <1>8, <1>9, <1>10, <1>11, <1>12
    DEF Next, PollRead

(* Every byte taken from the socket is used, held or buffered, once and in *)
(* its place, through reads, giving back, split, join and upgrade          *)
(* (io.rs:124-314).                                                        *)
THEOREM NoByteLost == Spec => []NothingLost
<1>1. Spec => []ByteInv
    BY ByteInit, ByteStep, PTL DEF Spec
<1> QED
    BY <1>1, ByteImplied, PTL

(* Every reachable state is well typed; no chunk of a prepend buffer is    *)
(* empty.                                                                  *)
THEOREM ConnectionTypes == Spec => []TypeOK
<1>1. Spec => []ByteInv
    BY ByteInit, ByteStep, PTL DEF Spec
<1>2. Spec => []DeadlineInv
    BY DeadlineInit, DeadlineStep, PTL DEF Spec
<1>3. ByteInv /\ DeadlineInv => TypeOK
    BY BytesAssumption, TimeoutAssumption
    DEF ByteInv, ByteTypes, DeadlineInv, SideInv, TypeOK, NoneEmpty, Off
<1> QED
    BY <1>1, <1>2, <1>3, PTL
=============================================================================
