---------------------- MODULE ServerConnection_proofs ----------------------
(***************************************************************************)
(* Proofs about ServerConnection, for every set of requests, every bound   *)
(* on their number and every depth of the channels.                        *)
(***************************************************************************)
EXTENDS ServerConnection, SequenceTheorems, FiniteSetTheorems, TLAPS

(* What H and P hold in each of their states: H a decoded request whenever *)
(* it is not decoding, P an element of the pipeline while it works on one. *)
Holding ==
    /\ hpc \in {"sendContinue", "sendResponse", "join", "upgrade",
                "sendEarly", "earlySent"} => n > 0
    /\ ppc \in {"response", "close", "write", "body"} => cur \in Items

TypeInv == TypeOK /\ Holding

LEMMA AppendType ==
    ASSUME NEW S, NEW s \in Seq(S), NEW e \in S
    PROVE  Append(s, e) \in Seq(S)
OBVIOUS

(* What a send by H does to the channel and to its own control state.      *)
LEMMA SendType ==
    ASSUME queue \in Seq(Items), NEW item \in Items, NEW next, HSend(item, next)
    PROVE  /\ queue' \in Seq(Items)
           /\ hpc' = next \/ hpc' = "closing"
           /\ closed' = closed \/ closed' = TRUE
<1>1. CASE ppc \in PEnded
    BY <1>1 DEF HSend
<1>2. CASE ppc \notin PEnded
  <2>1. queue' = Append(queue, item)
    BY <1>2 DEF HSend
  <2> QED
    BY <1>2, <2>1, AppendType DEF HSend
<1> QED
    BY <1>1, <1>2

LEMMA TypeInit == Init => TypeInv
<1> USE RequestsAssumption, MaxRequestsAssumption, DepthAssumption
<1> SUFFICES ASSUME Init PROVE TypeInv
    OBVIOUS
<1>1. rest \in [Reqs -> Nat]
    BY DEF Init, BodyUnits, RequestSet
<1>2. /\ n \in 0 .. MaxRequests /\ queue \in Seq(Items) /\ wire \in Seq(Written)
      /\ hpc \in HStates /\ ppc \in PStates
    BY DEF Init, HStates, PStates
<1> QED
    BY <1>1, <1>2 DEF Init, TypeInv, TypeOK, Holding

(* Every action keeps the type invariant.                                  *)
LEMMA TypeStep == TypeInv /\ [Next]_vars => TypeInv'
<1> USE MaxRequestsAssumption
<1> SUFFICES ASSUME TypeInv, [Next]_vars PROVE TypeInv'
    OBVIOUS
<1> USE DEF TypeInv, TypeOK, Holding, HStates, PStates, HEnded, PEnded,
            hvars, pvars, rvars, bvars, Reqs
<1>1. CASE HAccept
    BY <1>1 DEF HAccept
<1>2. CASE HReject
    BY <1>2 DEF HReject
<1>3. CASE HRejectLate
    BY <1>3 DEF HRejectLate
<1>4. CASE HStop
    BY <1>4 DEF HStop
<1>5. CASE HFail
    BY <1>5 DEF HFail
<1>6. CASE HSendContinue
  <2>1. Item(n, "continue") \in Items
    BY <1>6 DEF HSendContinue, Item, Items
  <2>2. HSend(Item(n, "continue"), "sendResponse")
    BY <1>6 DEF HSendContinue
  <2>3. /\ queue' \in Seq(Items)
        /\ hpc' = "sendResponse" \/ hpc' = "closing"
        /\ closed' = closed \/ closed' = TRUE
    BY <2>1, <2>2, SendType
  <2> QED
    BY <1>6, <2>3 DEF HSendContinue
<1>7. CASE HSendResponse
  <2>1. Item(n, "response") \in Items
    BY <1>7 DEF HSendResponse, Item, Items
  <2>2. HSend(Item(n, "response"), "join")
    BY <1>7 DEF HSendResponse
  <2>3. /\ queue' \in Seq(Items)
        /\ hpc' = "join" \/ hpc' = "closing"
        /\ closed' = closed \/ closed' = TRUE
    BY <2>1, <2>2, SendType
  <2> QED
    BY <1>7, <2>3 DEF HSendResponse
<1>8. CASE HJoin
    BY <1>8 DEF HJoin
<1>9. CASE HJoinLost
    BY <1>9 DEF HJoinLost
<1>10. CASE HContinue
    BY <1>10 DEF HContinue
<1>11. CASE HCloseVersion10
    BY <1>11 DEF HCloseVersion10
<1>12. CASE HUpgrade
    BY <1>12 DEF HUpgrade
<1>13. CASE HHandOver
    BY <1>13 DEF HHandOver
<1>14. CASE HSendEarly
  <2>1. Item(n, "early") \in Items
    BY <1>14 DEF HSendEarly, Item, Items
  <2>2. HSend(Item(n, "early"), "earlySent")
    BY <1>14 DEF HSendEarly
  <2>3. /\ queue' \in Seq(Items)
        /\ hpc' = "earlySent" \/ hpc' = "closing"
        /\ closed' = closed \/ closed' = TRUE
    BY <2>1, <2>2, SendType
  <2> QED
    BY <1>14, <2>3 DEF HSendEarly
<1>15. CASE HEarlySent
    BY <1>15 DEF HEarlySent
<1>16. CASE HClose
    BY <1>16 DEF HClose
<1>17. ASSUME NEW r \in Reqs, RChunk(r) PROVE TypeInv'
  <2>1. rest[r] - 1 \in Nat
    BY <1>17 DEF RChunk
  <2>2. CASE bdrop[r]
    BY SMTT(20), <1>17, <2>1, <2>2 DEF RChunk, TakeConnection
  <2>3. CASE ~bdrop[r]
    <3>1. bchan[r] + 1 \in Nat
      OBVIOUS
    <3>2. /\ rest' = [rest EXCEPT ![r] = rest[r] - 1]
          /\ bchan' = [bchan EXCEPT ![r] = bchan[r] + 1]
      BY <1>17, <2>3 DEF RChunk
    <3> QED
      BY <1>17, <2>1, <2>3, <3>1, <3>2 DEF RChunk
  <2> QED
    BY <2>2, <2>3
<1>18. ASSUME NEW r \in Reqs, RTrailer(r) PROVE TypeInv'
    BY <1>18 DEF RTrailer
<1>19. ASSUME NEW r \in Reqs, RError(r) PROVE TypeInv'
    BY <1>19 DEF RError
<1>20. ASSUME NEW r \in Reqs, RLost(r) PROVE TypeInv'
    BY <1>20 DEF RLost
<1>21. ASSUME NEW r \in Reqs, RStop(r) PROVE TypeInv'
    BY <1>21 DEF RStop, TakeConnection
<1>22. ASSUME NEW r \in Reqs, TRead(r) PROVE TypeInv'
    BY <1>22 DEF TRead, PollBody
<1>23. ASSUME NEW r \in Reqs, TDrop(r) PROVE TypeInv'
    BY <1>23 DEF TDrop
<1>24. ASSUME NEW r \in Reqs, TReturn(r) PROVE TypeInv'
    BY <1>24 DEF TReturn
<1>25. CASE PTake
  <2>1. Head(queue) \in Items /\ Tail(queue) \in Seq(Items)
    BY <1>25 DEF PTake
  <2> QED
    BY <1>25, <2>1 DEF PTake
<1>26. CASE PReturn
    BY <1>26 DEF PReturn
<1>27. CASE PResponse
    BY <1>27 DEF PResponse
<1>28. CASE PSkip
    BY <1>28 DEF PSkip
<1>29. CASE PCloseKnown
    BY <1>29 DEF PCloseKnown
<1>30. CASE PHeader
  <2>1. Framing(cur) \in Framings
    BY DEF Framing, Framings
  <2>2. CloseAfter(cur) \in BOOLEAN
    BY DEF CloseAfter, CloseAsked
  <2>3. cur \in Items
    BY <1>30 DEF PHeader
  <2>4. [req |-> cur.req, kind |-> cur.kind, framing |-> Framing(cur),
         close |-> CloseAfter(cur)] \in Written
    BY <2>1, <2>2, <2>3 DEF Items, Written
  <2>5. wire' \in Seq(Written)
    BY <1>30, <2>4 DEF PHeader
  <2> QED
    BY <1>30, <2>5 DEF PHeader
<1>31. CASE PEcho
  <2>1. cur.req \in Reqs
    BY <1>31 DEF PEcho, Items
  <2>2. /\ polled' \in [Reqs -> BOOLEAN] /\ bchan' \in [Reqs -> Nat]
        /\ bdrop' = bdrop
    BY SMTT(20), <1>31, <2>1 DEF PEcho, PollBody
  <2> QED
    BY SMTT(20), <1>31, <2>2 DEF PEcho
<1>32. CASE PFinish
  <2>1. CASE wire[Len(wire)].close
    <3>1. queue' \in Seq(Items)
      BY <1>32, <2>1, EmptySeq DEF PFinish, PEnd
    <3>2. bdrop' \in [Reqs -> BOOLEAN]
      BY <1>32, <2>1 DEF PFinish, PEnd, DropResponses
    <3> QED
      BY SMTT(20), <1>32, <2>1, <3>1, <3>2 DEF PFinish, PEnd
  <2>2. CASE ~wire[Len(wire)].close
    BY <1>32, <2>2 DEF PFinish
  <2> QED
    BY <2>1, <2>2
<1>33. CASE PBodyError
    BY SMTT(20), <1>33 DEF PBodyError, PEnd, DropResponses
<1>34. CASE PWriteError
    BY SMTT(20), <1>34 DEF PWriteError, PEnd, DropResponses
<1>35. CASE UNCHANGED vars
    BY <1>35 DEF vars
<1>36. CASE Terminated
    BY <1>36 DEF Terminated, vars
<1> QED
    BY <1>1, <1>2, <1>3, <1>4, <1>5, <1>6, <1>7, <1>8, <1>9, <1>10, <1>11,
       <1>12, <1>13, <1>14, <1>15, <1>16, <1>17, <1>18, <1>19, <1>20,
       <1>21, <1>22, <1>23, <1>24, <1>25, <1>26, <1>27, <1>28, <1>29,
       <1>30, <1>31, <1>32, <1>33, <1>34, <1>35, <1>36
    DEF Next, HNext, HDecode, RNext, TNext, PNext

(* Every reachable state is well typed.                                    *)
THEOREM TypeCorrect == Spec => []TypeOK
<1>1. TypeInv => TypeOK
    BY DEF TypeInv
<1> QED
    BY TypeInit, TypeStep, <1>1, PTL DEF Spec
-----------------------------------------------------------------------------
(***************************************************************************)
(* The reading half and the close indicators.  The invariant says where    *)
(* the reading half may be (a reader gives it back only when its body is   *)
(* complete, and H goes on to the next header only with it in hand) and    *)
(* that only a returned reading half resolves a close indicator to false.  *)
(***************************************************************************)
Deciding == {"sendContinue", "sendResponse", "join", "upgrade",
             "sendEarly", "earlySent"}

ReturnedComplete == \A r \in Reqs : rpc[r] = "returned" => rest[r] = 0
KeptReturned == \A r \in Reqs : close[r] = "false" => rpc[r] = "returned"
EarlierReturned ==
    \A r \in 1 .. n :
        r < n \/ hpc \in {"decode", "upgrade", "handover", "upgraded"} =>
            rpc[r] = "returned"
Undecided ==
    \A r \in Reqs : r > n \/ (r = n /\ hpc \in Deciding) => close[r] = "pending"
CloseDecided ==
    ppc = "write" /\ cur.kind # "continue" => close[cur.req] # "pending"
WrittenKept ==
    \A i \in 1 .. Len(wire) :
        wire[i].kind # "continue" /\ ~wire[i].close =>
            close[wire[i].req] = "false"

BoundaryInv ==
    /\ ReturnedComplete /\ KeptReturned /\ EarlierReturned
    /\ Undecided /\ CloseDecided /\ WrittenKept

LEMMA BoundaryInit == Init => BoundaryInv
<1> USE MaxRequestsAssumption
<1> QED
    BY DEF Init, BoundaryInv, ReturnedComplete, KeptReturned, EarlierReturned,
           Undecided, CloseDecided, WrittenKept, Deciding, Reqs

LEMMA BoundaryStep == TypeInv /\ BoundaryInv /\ [Next]_vars => BoundaryInv'
<1> USE MaxRequestsAssumption
<1> SUFFICES ASSUME TypeInv, BoundaryInv, [Next]_vars PROVE BoundaryInv'
    OBVIOUS
<1> USE DEF TypeInv, TypeOK, Holding, BoundaryInv, ReturnedComplete, KeptReturned,
            EarlierReturned, Undecided, CloseDecided, WrittenKept, Deciding,
            hvars, pvars, rvars, bvars, Reqs
<1>1. CASE HAccept
    BY <1>1 DEF HAccept
<1>2. CASE HReject
    BY <1>2 DEF HReject
<1>3. CASE HRejectLate
    BY <1>3 DEF HRejectLate
<1>4. CASE HStop
    BY <1>4 DEF HStop
<1>5. CASE HFail
    BY <1>5 DEF HFail
<1>6. CASE HSendContinue
    BY <1>6 DEF HSendContinue, HSend
<1>7. CASE HSendResponse
    BY <1>7 DEF HSendResponse, HSend
<1>8. CASE HJoin
    BY <1>8 DEF HJoin
<1>9. CASE HJoinLost
    BY <1>9 DEF HJoinLost
<1>10. CASE HContinue
    BY <1>10 DEF HContinue
<1>11. CASE HCloseVersion10
    BY <1>11 DEF HCloseVersion10
<1>12. CASE HUpgrade
    BY <1>12 DEF HUpgrade
<1>13. CASE HHandOver
    BY <1>13 DEF HHandOver, PEnded
<1>14. CASE HSendEarly
    BY <1>14 DEF HSendEarly, HSend
<1>15. CASE HEarlySent
  <2>1. n \in Reqs /\ close[n] = "pending"
    BY <1>15 DEF HEarlySent
  <2>2. close' = [close EXCEPT ![n] = "true"] /\ hpc' = "closing"
    BY <1>15 DEF HEarlySent
  <2>3. KeptReturned' /\ ReturnedComplete' /\ EarlierReturned' /\ Undecided'
    BY <1>15, <2>1, <2>2 DEF HEarlySent
  <2>4. CloseDecided' /\ WrittenKept'
    BY <1>15, <2>1, <2>2 DEF HEarlySent
  <2> QED
    BY <2>3, <2>4
<1>16. CASE HClose
    BY <1>16 DEF HClose
<1>17. CASE PTake
    BY <1>17 DEF PTake, Items
<1>18. CASE PReturn
    BY <1>18 DEF PReturn
<1>19. CASE PResponse
    BY <1>19 DEF PResponse
<1>20. CASE PSkip
    BY <1>20 DEF PSkip
<1>21. CASE PCloseKnown
    BY <1>21 DEF PCloseKnown
<1>22. CASE PHeader
  <2> DEFINE m == [req |-> cur.req, kind |-> cur.kind,
                  framing |-> Framing(cur), close |-> CloseAfter(cur)]
  <2>1. /\ ppc = "write" /\ ppc' = "body" /\ wire' = Append(wire, m)
        /\ UNCHANGED <<n, hpc, cur, rpc, rest, close>>
    BY <1>22 DEF PHeader
  <2>2. cur \in Items
    BY <2>1
  <2>3. cur.kind # "continue" /\ ~CloseAfter(cur) => close[cur.req] = "false"
    BY <2>1, <2>2 DEF CloseAfter, CloseAsked, Items
  <2>4. WrittenKept'
    <3> SUFFICES ASSUME NEW i \in 1 .. Len(wire'),
                        wire'[i].kind # "continue", ~wire'[i].close
                 PROVE  close[wire'[i].req] = "false"
      BY <2>1
    <3>1. CASE i \in 1 .. Len(wire)
      BY <2>1, <3>1
    <3>2. CASE i = Len(wire) + 1
      BY <2>1, <2>3, <3>2
    <3> QED
      BY <2>1, <3>1, <3>2
  <2> QED
    BY <2>1, <2>4
<1>23. CASE PEcho
    BY <1>23 DEF PEcho, PollBody
<1>24. CASE PFinish
    BY <1>24 DEF PFinish, PEnd, DropResponses
<1>25. CASE PBodyError
    BY <1>25 DEF PBodyError, PEnd, DropResponses
<1>26. CASE PWriteError
    BY <1>26 DEF PWriteError, PEnd, DropResponses
<1>27. CASE UNCHANGED vars
    BY <1>27 DEF vars
<1>28. CASE Terminated
    BY <1>28 DEF Terminated, vars
<1>29. ASSUME NEW r \in Reqs, RChunk(r) PROVE BoundaryInv'
  <2>1. rest' = [rest EXCEPT ![r] = rest[r] - 1]
    BY <1>29 DEF RChunk
  <2>2. /\ rpc[r] = "reading"
        /\ rpc' = rpc \/ rpc' = [rpc EXCEPT ![r] =
             IF rest[r] - 1 = 0 THEN "returned" ELSE "lost"]
        /\ UNCHANGED <<n, hpc, ppc, cur, wire, close>>
    BY <1>29 DEF RChunk, TakeConnection
  <2>3. ReturnedComplete'
    <3> SUFFICES ASSUME NEW q \in Reqs, rpc'[q] = "returned" PROVE rest'[q] = 0
      OBVIOUS
    <3>1. CASE q = r
      <4>1. rest[q] - 1 = 0
        BY <2>2, <3>1
      <4> QED
        BY <2>1, <3>1, <4>1
    <3>2. CASE q # r
      <4>1. rpc[q] = "returned"
        BY <2>2, <3>2
      <4> QED
        BY <2>1, <3>2, <4>1
    <3> QED
      BY <3>1, <3>2
  <2>4. KeptReturned'
    <3> SUFFICES ASSUME NEW q \in Reqs, close[q] = "false" PROVE rpc'[q] = "returned"
      BY <2>2
    <3>1. rpc[q] = "returned" /\ q # r
      BY <2>2
    <3> QED
      BY <2>2, <3>1
  <2>5. EarlierReturned'
    BY SMTT(20), <2>2
  <2>6. Undecided' /\ CloseDecided' /\ WrittenKept'
    BY <2>2
  <2> QED
    BY <2>3, <2>4, <2>5, <2>6
<1>30. ASSUME NEW r \in Reqs, RTrailer(r) PROVE BoundaryInv'
    BY <1>30 DEF RTrailer, IsTrailer
<1>31. ASSUME NEW r \in Reqs, RError(r) PROVE BoundaryInv'
    BY <1>31 DEF RError
<1>32. ASSUME NEW r \in Reqs, RLost(r) PROVE BoundaryInv'
    BY <1>32 DEF RLost
<1>33. ASSUME NEW r \in Reqs, RStop(r) PROVE BoundaryInv'
    BY <1>33 DEF RStop, TakeConnection, Complete
<1>34. ASSUME NEW r \in Reqs, TRead(r) PROVE BoundaryInv'
    BY <1>34 DEF TRead, PollBody
<1>35. ASSUME NEW r \in Reqs, TDrop(r) PROVE BoundaryInv'
    BY <1>35 DEF TDrop
<1>36. ASSUME NEW r \in Reqs, TReturn(r) PROVE BoundaryInv'
    BY <1>36 DEF TReturn
<1> QED
    BY <1>1, <1>2, <1>3, <1>4, <1>5, <1>6, <1>7, <1>8, <1>9, <1>10, <1>11, <1>12, <1>13,
       <1>14, <1>15, <1>16, <1>17, <1>18, <1>19, <1>20, <1>21, <1>22, <1>23, <1>24, <1>25, <1>26,
       <1>27, <1>28, <1>29, <1>30, <1>31, <1>32, <1>33, <1>34, <1>35, <1>36
    DEF Next, HNext, HDecode, RNext, TNext, PNext

(* A response that keeps the connection is written only when the body of   *)
(* its request has been read to its end and the reading half is back.      *)
THEOREM KeepAlive == Spec => []KeepAliveAtBoundary
<1>1. TypeInv /\ BoundaryInv => KeepAliveAtBoundary
  <2> SUFFICES ASSUME TypeInv, BoundaryInv,
                      NEW i \in 1 .. Len(wire),
                      wire[i].kind # "continue", ~wire[i].close
               PROVE  rpc[wire[i].req] = "returned" /\ Complete(wire[i].req)
      BY DEF KeepAliveAtBoundary
  <2>1. wire[i] \in Written
      BY ElementOfSeq DEF TypeInv, TypeOK
  <2>2. wire[i].req \in Reqs
      BY <2>1 DEF Written
  <2> QED
      BY <2>2 DEF BoundaryInv, WrittenKept, KeptReturned, ReturnedComplete, Complete
<1> QED
    BY TypeInit, TypeStep, BoundaryInit, BoundaryStep, <1>1, PTL DEF Spec

(* H decodes a header only at a message boundary.                          *)
THEOREM DecodeAtBoundary == Spec => []HeaderAtBoundary
<1>1. TypeInv /\ BoundaryInv => HeaderAtBoundary
    BY MaxRequestsAssumption
    DEF TypeInv, TypeOK, BoundaryInv, EarlierReturned, ReturnedComplete,
        HeaderAtBoundary, Complete, Reqs
<1> QED
    BY TypeInit, TypeStep, BoundaryInit, BoundaryStep, <1>1, PTL DEF Spec
-----------------------------------------------------------------------------
(***************************************************************************)
(* The order of the responses.  What is written, what P works on and what  *)
(* is queued are sorted by Place, in this order, and all of it comes       *)
(* before whatever H queues next (Limit).  The last part says that only    *)
(* the last message written closes, and that P does not go on after it.    *)
(***************************************************************************)
Limit == CASE hpc = "sendContinue" -> 2 * n
           [] hpc \in {"sendResponse", "sendEarly"} -> 2 * n + 1
           [] OTHER -> 2 * n + 2

QueueSorted ==
    \A i, j \in 1 .. Len(queue) : i < j => Place(queue[i]) < Place(queue[j])
WireBeforeQueue ==
    \A i \in 1 .. Len(wire), j \in 1 .. Len(queue) :
        Place(wire[i]) < Place(queue[j])
WireBeforeCur ==
    ppc \in {"response", "close", "write"} =>
        \A i \in 1 .. Len(wire) : Place(wire[i]) < Place(cur)
CurBeforeQueue ==
    ppc \in {"response", "close", "write", "body"} =>
        \A j \in 1 .. Len(queue) : Place(cur) < Place(queue[j])
BelowLimit ==
    /\ \A i \in 1 .. Len(wire) : Place(wire[i]) < Limit
    /\ ppc \in {"response", "close", "write", "body"} => Place(cur) < Limit
    /\ \A j \in 1 .. Len(queue) : Place(queue[j]) < Limit
LastCloses ==
    \A i \in 1 .. Len(wire) :
        /\ wire[i].framing = "eof" => wire[i].close
        /\ wire[i].close => i = Len(wire) /\ ppc \in {"body"} \cup PEnded

OrderInv ==
    /\ ResponsesInOrder /\ QueueSorted /\ WireBeforeQueue /\ WireBeforeCur
    /\ CurBeforeQueue /\ BelowLimit /\ LastCloses
LEMMA PlaceType == \A m \in Items \cup Written : Place(m) \in Nat
BY MaxRequestsAssumption DEF Items, Written, Place, Reqs

LEMMA LimitType == TypeInv => Limit \in Nat
<1> SUFFICES ASSUME TypeInv PROVE Limit \in Nat
    OBVIOUS
<1>1. n \in Nat
    BY MaxRequestsAssumption DEF TypeInv, TypeOK
<1>2. CASE hpc = "sendContinue"
    BY <1>1, <1>2 DEF Limit
<1>3. CASE hpc \in {"sendResponse", "sendEarly"}
    BY <1>1, <1>3 DEF Limit
<1>4. CASE hpc \notin {"sendContinue", "sendResponse", "sendEarly"}
    BY <1>1, <1>4 DEF Limit
<1> QED
    BY <1>2, <1>3, <1>4

LEMMA OrderInit == Init => OrderInv
<1> SUFFICES ASSUME Init PROVE OrderInv
    OBVIOUS
<1>1. Len(wire) = 0 /\ Len(queue) = 0 /\ ppc = "next"
    BY DEF Init
<1> QED
    BY <1>1 DEF OrderInv, ResponsesInOrder, QueueSorted, WireBeforeQueue,
        WireBeforeCur, CurBeforeQueue, BelowLimit, LastCloses

(* Steps that do not touch P's side and only move H forward.               *)
LEMMA OrderFrame ==
    ASSUME TypeInv, OrderInv, UNCHANGED <<queue, ppc, cur, wire>>,
           Limit' \in Nat, Limit <= Limit'
    PROVE  OrderInv'
<1>1. ResponsesInOrder' /\ QueueSorted' /\ WireBeforeQueue' /\ WireBeforeCur'
      /\ CurBeforeQueue' /\ LastCloses'
    BY DEF OrderInv, ResponsesInOrder, QueueSorted, WireBeforeQueue,
        WireBeforeCur, CurBeforeQueue, LastCloses, Place
<1>2. /\ \A k \in 1 .. Len(wire) : Place(wire[k]) \in Nat
      /\ \A k \in 1 .. Len(queue) : Place(queue[k]) \in Nat
      /\ ppc \in {"response", "close", "write", "body"} => Place(cur) \in Nat
    BY PlaceType, ElementOfSeq DEF TypeInv, TypeOK, Holding
<1>3. Limit \in Nat
    BY LimitType
<1>4. BelowLimit'
    BY <1>2, <1>3 DEF OrderInv, BelowLimit, Place
<1> QED
    BY <1>1, <1>4 DEF OrderInv

(* H queues an element that comes after everything before it.              *)
LEMMA OrderSend ==
    ASSUME TypeInv, OrderInv, UNCHANGED <<ppc, cur, wire>>,
           NEW item \in Items, queue' = Append(queue, item),
           Limit <= Place(item), Limit' \in Nat, Place(item) < Limit'
    PROVE  OrderInv'
<1>1. /\ \A k \in 1 .. Len(wire) : Place(wire[k]) \in Nat
      /\ \A k \in 1 .. Len(queue) : Place(queue[k]) \in Nat
      /\ ppc \in {"response", "close", "write", "body"} => Place(cur) \in Nat
    BY PlaceType, ElementOfSeq DEF TypeInv, TypeOK, Holding
<1>2. Limit \in Nat /\ Place(item) \in Nat
    BY LimitType, PlaceType
<1>3. /\ \A k \in 1 .. Len(wire) : Place(wire[k]) < Place(item)
      /\ ppc \in {"response", "close", "write", "body"} => Place(cur) < Place(item)
      /\ \A k \in 1 .. Len(queue) : Place(queue[k]) < Place(item)
    BY <1>1, <1>2 DEF OrderInv, BelowLimit
<1>4. /\ Len(queue') = Len(queue) + 1
      /\ \A k \in 1 .. Len(queue') :
            queue'[k] = IF k <= Len(queue) THEN queue[k] ELSE item
    BY SMTT(20) DEF TypeInv, TypeOK
<1>5. Len(queue) \in Nat
    BY DEF TypeInv, TypeOK
<1>6. ResponsesInOrder' /\ WireBeforeCur' /\ LastCloses'
  <2>1. ResponsesInOrder'
    BY DEF OrderInv, ResponsesInOrder
  <2>2. WireBeforeCur'
    BY DEF OrderInv, WireBeforeCur, Place
  <2>3. LastCloses'
    BY DEF OrderInv, LastCloses
  <2> QED
    BY <2>1, <2>2, <2>3
<1>7. QueueSorted'
  <2> SUFFICES ASSUME NEW i \in 1 .. Len(queue'), NEW j \in 1 .. Len(queue'),
                      i < j
               PROVE  Place(queue'[i]) < Place(queue'[j])
    BY DEF QueueSorted, Place
  <2>1. queue'[i] = queue[i] /\ i \in 1 .. Len(queue)
    BY <1>4, <1>5
  <2>2. CASE j <= Len(queue)
    BY <1>4, <1>5, <2>1, <2>2 DEF OrderInv, QueueSorted
  <2>3. CASE j > Len(queue)
    BY <1>3, <1>4, <1>5, <2>1, <2>3
  <2> QED
    BY <1>5, <2>2, <2>3
<1>8. WireBeforeQueue' /\ CurBeforeQueue'
    BY <1>3, <1>4, <1>5 DEF OrderInv, WireBeforeQueue, CurBeforeQueue, Place
<1>9. BelowLimit'
  <2>1. /\ \A k \in 1 .. Len(wire) : Place(wire[k]) < Limit'
        /\ ppc \in {"response", "close", "write", "body"} => Place(cur) < Limit'
        /\ \A k \in 1 .. Len(queue) : Place(queue[k]) < Limit'
    BY <1>1, <1>2, <1>3
  <2> QED
    BY <1>4, <1>5, <2>1 DEF BelowLimit, Place
<1> QED
    BY <1>6, <1>7, <1>8, <1>9 DEF OrderInv

(* P ends: the queue is dropped, or is empty already.                      *)
LEMMA OrderEnd ==
    ASSUME OrderInv, UNCHANGED <<n, hpc, wire>>,
           ppc' \in PEnded, Len(queue') = 0
    PROVE  OrderInv'
<1>1. Limit' = Limit
    BY DEF Limit
<1> QED
    BY <1>1 DEF OrderInv, ResponsesInOrder, QueueSorted, WireBeforeQueue,
        WireBeforeCur, CurBeforeQueue, BelowLimit, LastCloses, PEnded, Place
LEMMA OrderStep == TypeInv /\ OrderInv /\ [Next]_vars => OrderInv'
<1> USE MaxRequestsAssumption
<1> SUFFICES ASSUME TypeInv, OrderInv, [Next]_vars PROVE OrderInv'
    OBVIOUS
<1> USE DEF hvars, pvars, rvars, bvars
<1>a. n \in Nat /\ Limit \in Nat
    BY LimitType DEF TypeInv, TypeOK
<1>1. CASE HAccept
  <2>1. UNCHANGED <<queue, ppc, cur, wire>> /\ Limit' \in Nat /\ Limit <= Limit'
    BY <1>a, <1>1 DEF HAccept, Limit
  <2> QED
    BY <2>1, OrderFrame
<1>2. CASE HReject
  <2>1. UNCHANGED <<queue, ppc, cur, wire>> /\ Limit' \in Nat /\ Limit <= Limit'
    BY <1>a, <1>2 DEF HReject, Limit
  <2> QED
    BY <2>1, OrderFrame
<1>3. CASE HRejectLate
  <2>1. UNCHANGED <<queue, ppc, cur, wire>> /\ Limit' \in Nat /\ Limit <= Limit'
    BY <1>a, <1>3 DEF HRejectLate, Limit
  <2> QED
    BY <2>1, OrderFrame
<1>4. CASE HStop
  <2>1. UNCHANGED <<queue, ppc, cur, wire>> /\ Limit' \in Nat /\ Limit <= Limit'
    BY <1>a, <1>4 DEF HStop, Limit
  <2> QED
    BY <2>1, OrderFrame
<1>5. CASE HFail
  <2>1. UNCHANGED <<queue, ppc, cur, wire>> /\ Limit' \in Nat /\ Limit <= Limit'
    BY <1>a, <1>5 DEF HFail, Limit
  <2> QED
    BY <2>1, OrderFrame
<1>6. CASE HJoin
  <2>1. UNCHANGED <<queue, ppc, cur, wire>> /\ Limit' \in Nat /\ Limit <= Limit'
    BY <1>a, <1>6 DEF HJoin, Limit
  <2> QED
    BY <2>1, OrderFrame
<1>7. CASE HJoinLost
  <2>1. UNCHANGED <<queue, ppc, cur, wire>> /\ Limit' \in Nat /\ Limit <= Limit'
    BY <1>a, <1>7 DEF HJoinLost, Limit
  <2> QED
    BY <2>1, OrderFrame
<1>8. CASE HContinue
  <2>1. UNCHANGED <<queue, ppc, cur, wire>> /\ Limit' \in Nat /\ Limit <= Limit'
    BY <1>a, <1>8 DEF HContinue, Limit
  <2> QED
    BY <2>1, OrderFrame
<1>9. CASE HCloseVersion10
  <2>1. UNCHANGED <<queue, ppc, cur, wire>> /\ Limit' \in Nat /\ Limit <= Limit'
    BY <1>a, <1>9 DEF HCloseVersion10, Limit
  <2> QED
    BY <2>1, OrderFrame
<1>10. CASE HUpgrade
  <2>1. UNCHANGED <<queue, ppc, cur, wire>> /\ Limit' \in Nat /\ Limit <= Limit'
    BY <1>a, <1>10 DEF HUpgrade, Limit
  <2> QED
    BY <2>1, OrderFrame
<1>11. CASE HHandOver
  <2>1. UNCHANGED <<queue, ppc, cur, wire>> /\ Limit' \in Nat /\ Limit <= Limit'
    BY <1>a, <1>11 DEF HHandOver, Limit, PEnded
  <2> QED
    BY <2>1, OrderFrame
<1>12. CASE HEarlySent
  <2>1. UNCHANGED <<queue, ppc, cur, wire>> /\ Limit' \in Nat /\ Limit <= Limit'
    BY <1>a, <1>12 DEF HEarlySent, Limit
  <2> QED
    BY <2>1, OrderFrame
<1>13. CASE HClose
  <2>1. UNCHANGED <<queue, ppc, cur, wire>> /\ Limit' \in Nat /\ Limit <= Limit'
    BY <1>a, <1>13 DEF HClose, Limit
  <2> QED
    BY <2>1, OrderFrame
<1>14. CASE HSendContinue
  <2> DEFINE item == Item(n, "continue")
  <2>1. item \in Items /\ Place(item) = 2 * n /\ Limit = 2 * n
    BY <1>a, <1>14 DEF HSendContinue, Item, Items, Place, Limit, TypeInv, TypeOK, Holding, Reqs
  <2>2. HSend(item, "sendResponse") /\ UNCHANGED <<n, ppc, cur, wire>>
    BY <1>14 DEF HSendContinue
  <2> HIDE DEF item
  <2>3. Limit' = 2 * n + 2 \/ (hpc' = "sendResponse" /\ Limit' = 2 * n + 1)
    BY <1>a, <2>2 DEF HSend, Limit
  <2>4. CASE ppc \in PEnded
    BY <1>a, <2>1, <2>2, <2>3, <2>4, OrderFrame DEF HSend
  <2>5. CASE ppc \notin PEnded
    BY <1>a, <2>1, <2>2, <2>3, <2>5, OrderSend DEF HSend
  <2> QED
    BY <2>4, <2>5
<1>15. CASE HSendResponse
  <2> DEFINE item == Item(n, "response")
  <2>1. item \in Items /\ Place(item) = 2 * n + 1 /\ Limit = 2 * n + 1
    BY <1>a, <1>15 DEF HSendResponse, Item, Items, Place, Limit, TypeInv, TypeOK, Holding, Reqs
  <2>2. HSend(item, "join") /\ UNCHANGED <<n, ppc, cur, wire>>
    BY <1>15 DEF HSendResponse
  <2> HIDE DEF item
  <2>3. Limit' = 2 * n + 2 \/ (hpc' = "sendResponse" /\ Limit' = 2 * n + 1)
    BY <1>a, <2>2 DEF HSend, Limit
  <2>4. CASE ppc \in PEnded
    BY <1>a, <2>1, <2>2, <2>3, <2>4, OrderFrame DEF HSend
  <2>5. CASE ppc \notin PEnded
    BY <1>a, <2>1, <2>2, <2>3, <2>5, OrderSend DEF HSend
  <2> QED
    BY <2>4, <2>5
<1>16. CASE HSendEarly
  <2> DEFINE item == Item(n, "early")
  <2>1. item \in Items /\ Place(item) = 2 * n + 1 /\ Limit = 2 * n + 1
    BY <1>a, <1>16 DEF HSendEarly, Item, Items, Place, Limit, TypeInv, TypeOK, Holding, Reqs
  <2>2. HSend(item, "earlySent") /\ UNCHANGED <<n, ppc, cur, wire>>
    BY <1>16 DEF HSendEarly
  <2> HIDE DEF item
  <2>3. Limit' = 2 * n + 2 \/ (hpc' = "sendResponse" /\ Limit' = 2 * n + 1)
    BY <1>a, <2>2 DEF HSend, Limit
  <2>4. CASE ppc \in PEnded
    BY <1>a, <2>1, <2>2, <2>3, <2>4, OrderFrame DEF HSend
  <2>5. CASE ppc \notin PEnded
    BY <1>a, <2>1, <2>2, <2>3, <2>5, OrderSend DEF HSend
  <2> QED
    BY <2>4, <2>5
<1>17. ASSUME NEW r \in Reqs, RChunk(r) PROVE OrderInv'
  <2>1. UNCHANGED <<queue, ppc, cur, wire>> /\ Limit' = Limit
    BY <1>17 DEF RChunk, Limit, TakeConnection
  <2> QED
    BY <1>a, <2>1, OrderFrame
<1>18. ASSUME NEW r \in Reqs, RTrailer(r) PROVE OrderInv'
  <2>1. UNCHANGED <<queue, ppc, cur, wire>> /\ Limit' = Limit
    BY <1>18 DEF RTrailer, Limit
  <2> QED
    BY <1>a, <2>1, OrderFrame
<1>19. ASSUME NEW r \in Reqs, RError(r) PROVE OrderInv'
  <2>1. UNCHANGED <<queue, ppc, cur, wire>> /\ Limit' = Limit
    BY <1>19 DEF RError, Limit
  <2> QED
    BY <1>a, <2>1, OrderFrame
<1>20. ASSUME NEW r \in Reqs, RLost(r) PROVE OrderInv'
  <2>1. UNCHANGED <<queue, ppc, cur, wire>> /\ Limit' = Limit
    BY <1>20 DEF RLost, Limit
  <2> QED
    BY <1>a, <2>1, OrderFrame
<1>21. ASSUME NEW r \in Reqs, RStop(r) PROVE OrderInv'
  <2>1. UNCHANGED <<queue, ppc, cur, wire>> /\ Limit' = Limit
    BY <1>21 DEF RStop, Limit, TakeConnection
  <2> QED
    BY <1>a, <2>1, OrderFrame
<1>22. ASSUME NEW r \in Reqs, TRead(r) PROVE OrderInv'
  <2>1. UNCHANGED <<queue, ppc, cur, wire>> /\ Limit' = Limit
    BY <1>22 DEF TRead, Limit
  <2> QED
    BY <1>a, <2>1, OrderFrame
<1>23. ASSUME NEW r \in Reqs, TDrop(r) PROVE OrderInv'
  <2>1. UNCHANGED <<queue, ppc, cur, wire>> /\ Limit' = Limit
    BY <1>23 DEF TDrop, Limit
  <2> QED
    BY <1>a, <2>1, OrderFrame
<1>24. ASSUME NEW r \in Reqs, TReturn(r) PROVE OrderInv'
  <2>1. UNCHANGED <<queue, ppc, cur, wire>> /\ Limit' = Limit
    BY <1>24 DEF TReturn, Limit
  <2> QED
    BY <1>a, <2>1, OrderFrame
<1>25. CASE PTake
  <2>1. /\ Len(queue) \in Nat \ {0} /\ cur' = queue[1]
        /\ Len(queue') = Len(queue) - 1
        /\ \A j \in 1 .. Len(queue') : queue'[j] = queue[j + 1]
    BY <1>25, HeadTailProperties, EmptySeq DEF PTake, TypeInv, TypeOK
  <2>2. ppc = "next" /\ ppc' = "response" /\ wire' = wire /\ Limit' = Limit
    BY <1>25 DEF PTake, Limit
  <2>3. ResponsesInOrder'
    BY <2>2 DEF OrderInv, ResponsesInOrder
  <2>7. WireBeforeQueue'
    <3> SUFFICES ASSUME NEW i \in 1 .. Len(wire), NEW j \in 1 .. Len(queue')
                 PROVE  Place(wire[i]) < Place(queue'[j])
      BY <2>2 DEF WireBeforeQueue
    <3>1. j + 1 \in 1 .. Len(queue) /\ queue'[j] = queue[j + 1]
      BY <2>1
    <3>2. Place(wire[i]) < Place(queue[j + 1])
      BY <3>1 DEF OrderInv, WireBeforeQueue
    <3> QED
      BY <3>1, <3>2
  <2>6. WireBeforeCur'
    BY <2>1, <2>2 DEF OrderInv, WireBeforeCur, WireBeforeQueue
  <2>4. QueueSorted'
    BY SMTT(20), <2>1, <2>2 DEF OrderInv, QueueSorted
  <2>8. CurBeforeQueue'
    BY SMTT(20), <2>1, <2>2 DEF OrderInv, QueueSorted, CurBeforeQueue
  <2>5. BelowLimit' /\ LastCloses'
    BY SMTT(20), <2>1, <2>2 DEF OrderInv, BelowLimit, LastCloses, PEnded
  <2> QED
    BY <2>3, <2>4, <2>5, <2>6, <2>7, <2>8 DEF OrderInv
<1>26. CASE PReturn
  <2>1. Len(queue') = 0 /\ ppc' \in PEnded /\ UNCHANGED <<n, hpc, wire>>
    BY <1>26 DEF PReturn, PEnded
  <2> QED
    BY <2>1, OrderEnd
<1>27. CASE PResponse
  <2>1. ppc = "response" /\ ppc' = "close" /\ cur' = cur /\ UNCHANGED <<queue, wire>>
    BY <1>27 DEF PResponse
  <2>2. Limit' = Limit
    BY <1>27 DEF PResponse, Limit
  <2> QED
    BY <2>1, <2>2 DEF OrderInv, ResponsesInOrder, QueueSorted, WireBeforeQueue,
        WireBeforeCur, CurBeforeQueue, BelowLimit, LastCloses, PEnded
<1>28. CASE PCloseKnown
  <2>1. ppc = "close" /\ ppc' = "write" /\ cur' = cur /\ UNCHANGED <<queue, wire>>
    BY <1>28 DEF PCloseKnown
  <2>2. Limit' = Limit
    BY <1>28 DEF PCloseKnown, Limit
  <2> QED
    BY <2>1, <2>2 DEF OrderInv, ResponsesInOrder, QueueSorted, WireBeforeQueue,
        WireBeforeCur, CurBeforeQueue, BelowLimit, LastCloses, PEnded
<1>29. CASE PSkip
  <2>1. ppc = "response" /\ ppc' = "next" /\ UNCHANGED <<queue, wire>>
    BY <1>29 DEF PSkip
  <2>2. Limit' = Limit
    BY <1>29 DEF PSkip, Limit
  <2> QED
    BY <2>1, <2>2 DEF OrderInv, ResponsesInOrder, QueueSorted, WireBeforeQueue,
        WireBeforeCur, CurBeforeQueue, BelowLimit, LastCloses, PEnded
<1>30. CASE PHeader
  <2> DEFINE m == [req |-> cur.req, kind |-> cur.kind,
                  framing |-> Framing(cur), close |-> CloseAfter(cur)]
  <2>1. /\ ppc = "write" /\ ppc' = "body" /\ wire' = Append(wire, m)
        /\ UNCHANGED <<queue, cur>>
    BY <1>30 DEF PHeader
  <2>2. Limit' = Limit
    BY <1>30 DEF PHeader, Limit
  <2>3. Place(m) = Place(cur) /\ (m.framing = "eof" => m.close)
    BY DEF Place, CloseAfter
  <2> HIDE DEF m
  <2>4. /\ Len(wire) \in Nat /\ Len(wire') = Len(wire) + 1
        /\ \A i \in 1 .. Len(wire') :
              wire'[i] = IF i <= Len(wire) THEN wire[i] ELSE m
    BY <2>1 DEF TypeInv, TypeOK
  <2>5. ResponsesInOrder'
    <3> SUFFICES ASSUME NEW i \in 1 .. Len(wire'), NEW j \in 1 .. Len(wire'),
                        i < j
                 PROVE  Place(wire'[i]) < Place(wire'[j])
      BY DEF ResponsesInOrder
    <3>1. wire'[i] = wire[i] /\ i \in 1 .. Len(wire)
      BY <2>4
    <3>2. CASE j <= Len(wire)
      BY <2>4, <3>1, <3>2 DEF OrderInv, ResponsesInOrder
    <3>3. CASE j > Len(wire)
      BY <2>1, <2>3, <2>4, <3>1, <3>3 DEF OrderInv, WireBeforeCur
    <3> QED
      BY <2>4, <3>2, <3>3
  <2>6. WireBeforeQueue'
    BY <2>1, <2>3, <2>4 DEF OrderInv, WireBeforeQueue, CurBeforeQueue
  <2>7. QueueSorted' /\ WireBeforeCur' /\ CurBeforeQueue'
    BY <2>1 DEF OrderInv, QueueSorted, WireBeforeCur, CurBeforeQueue
  <2>8. BelowLimit'
    BY <2>1, <2>2, <2>3, <2>4 DEF OrderInv, BelowLimit
  <2>9. LastCloses'
    BY <2>1, <2>3, <2>4 DEF OrderInv, LastCloses, PEnded
  <2> QED
    BY <2>5, <2>6, <2>7, <2>8, <2>9 DEF OrderInv
<1>31. CASE PEcho
  <2>1. UNCHANGED <<queue, ppc, cur, wire>> /\ Limit' = Limit
    BY <1>31 DEF PEcho, Limit
  <2> QED
    BY <1>a, <2>1, OrderFrame
<1>32. CASE PFinish
  <2>1. CASE wire[Len(wire)].close
    <3>1. Len(queue') = 0 /\ ppc' \in PEnded /\ UNCHANGED <<n, hpc, wire>>
      BY <1>32, <2>1 DEF PFinish, PEnd, PEnded
    <3> QED
      BY <3>1, OrderEnd
  <2>2. CASE ~wire[Len(wire)].close
    <3>1. ppc = "body" /\ ppc' = "next" /\ UNCHANGED <<n, hpc, queue, wire>>
      BY <1>32, <2>2 DEF PFinish
    <3>2. Limit' = Limit
      BY <3>1 DEF Limit
    <3> QED
      BY <2>2, <3>1, <3>2 DEF OrderInv, ResponsesInOrder, QueueSorted,
          WireBeforeQueue, WireBeforeCur, CurBeforeQueue, BelowLimit, LastCloses,
          PEnded
  <2> QED
    BY <2>1, <2>2
<1>33. CASE PBodyError
  <2>1. Len(queue') = 0 /\ ppc' \in PEnded /\ UNCHANGED <<n, hpc, wire>>
    BY <1>33 DEF PBodyError, PEnd, PEnded
  <2> QED
    BY <2>1, OrderEnd
<1>34. CASE PWriteError
  <2>1. Len(queue') = 0 /\ ppc' \in PEnded /\ UNCHANGED <<n, hpc, wire>>
    BY <1>34 DEF PWriteError, PEnd, PEnded
  <2> QED
    BY <2>1, OrderEnd
<1>35. CASE UNCHANGED vars \/ Terminated
  <2>1. UNCHANGED <<queue, ppc, cur, wire>> /\ Limit' = Limit
    BY <1>35 DEF Terminated, vars, Limit
  <2> QED
    BY <1>a, <2>1, OrderFrame
<1> QED
    BY <1>1, <1>2, <1>3, <1>4, <1>5, <1>6, <1>7, <1>8, <1>9, <1>10, <1>11, <1>12,
       <1>13, <1>14, <1>15, <1>16, <1>17, <1>18, <1>19, <1>20, <1>21, <1>22, <1>23, <1>24,
       <1>25, <1>26, <1>27, <1>28, <1>29, <1>30, <1>31, <1>32, <1>33, <1>34, <1>35
    DEF Next, HNext, HDecode, RNext, TNext, PNext

(* Responses leave in the order of the requests.                           *)
THEOREM Order == Spec => []ResponsesInOrder
<1>1. OrderInv => ResponsesInOrder
    BY DEF OrderInv
<1> QED
    BY TypeInit, TypeStep, OrderInit, OrderStep, <1>1, PTL DEF Spec

(* Nothing is written after a response that closes the connection, or that *)
(* only the end of the connection delimits.                                *)
THEOREM SilenceAfterClose == Spec => []NothingAfterClose
<1>1. OrderInv => NothingAfterClose
    BY DEF OrderInv, LastCloses, NothingAfterClose
<1> QED
    BY TypeInit, TypeStep, OrderInit, OrderStep, <1>1, PTL DEF Spec
-----------------------------------------------------------------------------
(***************************************************************************)
(* Every connection implements PipelinedResponses.                         *)
(***************************************************************************)
LEMMA PromiseInit == Init => Promise!Init
BY DEF Init, Promise!Init, Sent, PEnded

LEMMA SentType ==
    ASSUME NEW w \in Seq(Written)
    PROVE  [i \in 1 .. Len(w) |->
              [req |-> w[i].req, interim |-> w[i].kind = "continue",
               last |-> w[i].close]] \in Seq(Promise!Messages)
<1> DEFINE s == [i \in 1 .. Len(w) |->
                   [req |-> w[i].req, interim |-> w[i].kind = "continue",
                    last |-> w[i].close]]
<1>1. Len(w) \in Nat /\ \A i \in 1 .. Len(w) : w[i] \in Written
    BY ElementOfSeq
<1>2. s \in [1 .. Len(w) -> Promise!Messages]
    BY <1>1 DEF Written, Promise!Messages, Reqs
<1> QED
    BY <1>1, <1>2

(* The message that PHeader writes is one the abstract Send allows.        *)
LEMMA PromiseSend == TypeInv /\ OrderInv /\ PHeader => Promise!Next
<1> USE MaxRequestsAssumption
<1> SUFFICES ASSUME TypeInv, OrderInv, PHeader PROVE Promise!Next
    OBVIOUS
<1> DEFINE w == [req |-> cur.req, kind |-> cur.kind,
                framing |-> Framing(cur), close |-> CloseAfter(cur)]
           m == [req |-> cur.req, interim |-> cur.kind = "continue",
                 last |-> CloseAfter(cur)]
<1>1. /\ ppc = "write" /\ ppc' = "body" /\ wire' = Append(wire, w)
      /\ UNCHANGED <<n, hpc, cur>>
    BY DEF PHeader, hvars
<1>2. cur \in Items /\ cur.req \in Reqs
    BY <1>1 DEF TypeInv, Holding, Items
<1>3. CloseAfter(cur) \in BOOLEAN
    BY DEF CloseAfter, CloseAsked
<1>4. m \in Promise!Messages
    BY <1>2, <1>3 DEF Promise!Messages, Reqs
<1>5. m.req <= n
  <2>1. Place(cur) < Limit /\ n \in Nat
    BY <1>1 DEF OrderInv, BelowLimit, TypeInv, TypeOK
  <2>2. Limit <= 2 * n + 2
    BY <1>1, <2>1 DEF Limit
  <2>3. Place(cur) >= 2 * cur.req /\ cur.req \in Nat
    BY <1>2 DEF Place, Reqs
  <2>4. Limit \in Nat /\ Place(cur) \in Nat
    BY LimitType, PlaceType, <1>2
  <2> QED
    BY <2>1, <2>2, <2>3, <2>4
<1>6. Promise!Rank(m) = Place(cur)
    BY DEF Promise!Rank, Place
<1>7. Len(wire) \in Nat /\ DOMAIN Sent = 1 .. Len(wire) /\ Len(Sent) = Len(wire)
    BY DEF TypeInv, TypeOK, Sent
<1>8. \A i \in 1 .. Len(Sent) :
         Promise!Rank(Sent[i]) = Place(wire[i]) /\ Sent[i].last = wire[i].close
    BY <1>7 DEF Sent, Promise!Rank, Place
<1>9. \A i \in 1 .. Len(Sent) :
         Promise!Rank(Sent[i]) < Promise!Rank(m) /\ ~Sent[i].last
  <2> SUFFICES ASSUME NEW i \in 1 .. Len(Sent)
               PROVE  Promise!Rank(Sent[i]) < Promise!Rank(m) /\ ~Sent[i].last
    OBVIOUS
  <2>1. Place(wire[i]) < Place(cur)
    BY <1>1, <1>7 DEF OrderInv, WireBeforeCur
  <2>2. ~wire[i].close
    BY <1>1, <1>7 DEF OrderInv, LastCloses, PEnded
  <2> QED
    BY <1>6, <1>8, <2>1, <2>2
<1>10. Sent' = Append(Sent, m)
  <2>1. Len(wire') = Len(wire) + 1
    BY <1>1, <1>7 DEF TypeInv, TypeOK
  <2>2. \A i \in 1 .. Len(wire) : wire'[i] = wire[i]
    BY <1>1, <1>7 DEF TypeInv, TypeOK
  <2>3. wire'[Len(wire) + 1] = w
    BY <1>1, <1>7 DEF TypeInv, TypeOK
  <2>4. Sent \in Seq(Promise!Messages) /\ Sent' \in Seq(Promise!Messages)
    <3>1. wire \in Seq(Written)
      BY DEF TypeInv, TypeOK
    <3>2. wire' \in Seq(Written)
      <4>1. [Next]_vars
        BY DEF Next, PNext
      <4> QED
        BY <4>1, TypeStep DEF TypeInv, TypeOK
    <3> QED
      BY <3>1, <3>2, SentType DEF Sent
  <2>5. Len(Sent') = Len(wire) + 1 /\ Len(Append(Sent, m)) = Len(wire) + 1
    BY <1>4, <1>7, <2>1, <2>4 DEF Sent
  <2>6. Append(Sent, m) \in Seq(Promise!Messages)
    BY <1>4, <2>4, AppendType
  <2>7. \A i \in 1 .. Len(Sent') : Sent'[i] = Append(Sent, m)[i]
    <3> SUFFICES ASSUME NEW i \in 1 .. Len(wire) + 1
                 PROVE  Sent'[i] = Append(Sent, m)[i]
      BY <2>5
    <3>1. CASE i <= Len(wire)
      BY <1>7, <2>1, <2>2, <2>4, <3>1 DEF Sent
    <3>2. CASE i = Len(wire) + 1
      BY <1>4, <1>7, <2>1, <2>3, <2>4, <3>2 DEF Sent
    <3> QED
      BY <1>7, <3>1, <3>2
  <2> QED
    BY <2>4, <2>5, <2>6, <2>7, SeqEqual
<1>11. Promise!Send(m)
    BY <1>1, <1>5, <1>9, <1>10 DEF Promise!Send, PEnded
<1> QED
    BY <1>4, <1>11 DEF Promise!Next

LEMMA PromiseStep ==
    TypeInv /\ OrderInv /\ [Next]_vars => [Promise!Next]_(Promise!vars)
<1> USE MaxRequestsAssumption
<1> SUFFICES ASSUME TypeInv, OrderInv, [Next]_vars
             PROVE  [Promise!Next]_(Promise!vars)
    OBVIOUS
<1> USE DEF hvars, pvars, rvars, bvars
<1>s. ASSUME UNCHANGED <<n, wire, ppc>> PROVE UNCHANGED Promise!vars
    BY <1>s DEF Promise!vars, Sent, PEnded
<1>p. ASSUME UNCHANGED <<n, wire>>, ppc \notin PEnded, ppc' \notin PEnded
      PROVE  UNCHANGED Promise!vars
    BY <1>p DEF Promise!vars, Sent, PEnded
<1>e. ASSUME UNCHANGED <<n, wire>>, ppc \notin PEnded, ppc' \in PEnded
      PROVE  Promise!Next
    BY <1>e DEF Promise!Next, Promise!Shut, Sent, PEnded
<1>r. ASSUME n < MaxRequests, n' = n + 1, UNCHANGED <<wire, ppc>>
      PROVE  Promise!Next
    BY <1>r DEF Promise!Next, Promise!Receive, Sent, PEnded
<1>1. CASE HAccept
    BY <1>1, <1>r DEF HAccept
<1>2. CASE HReject
    BY <1>2, <1>r DEF HReject
<1>3. CASE HRejectLate
    BY <1>3, <1>r DEF HRejectLate
<1>4. CASE HStop
    BY <1>4, <1>s DEF HStop
<1>5. CASE HFail
    BY <1>5, <1>s DEF HFail
<1>6. CASE HSendContinue
    BY <1>6, <1>s DEF HSendContinue, HSend
<1>7. CASE HSendResponse
    BY <1>7, <1>s DEF HSendResponse, HSend
<1>8. CASE HJoin
    BY <1>8, <1>s DEF HJoin
<1>9. CASE HJoinLost
    BY <1>9, <1>s DEF HJoinLost
<1>10. CASE HContinue
    BY <1>10, <1>s DEF HContinue
<1>11. CASE HCloseVersion10
    BY <1>11, <1>s DEF HCloseVersion10
<1>12. CASE HUpgrade
    BY <1>12, <1>s DEF HUpgrade
<1>13. CASE HHandOver
    BY <1>13, <1>s DEF HHandOver
<1>14. CASE HSendEarly
    BY <1>14, <1>s DEF HSendEarly, HSend
<1>15. CASE HEarlySent
    BY <1>15, <1>s DEF HEarlySent
<1>16. CASE HClose
    BY <1>16, <1>s DEF HClose
<1>17. ASSUME NEW r \in Reqs, RChunk(r) PROVE UNCHANGED Promise!vars
    BY <1>17, <1>s DEF RChunk
<1>18. ASSUME NEW r \in Reqs, RTrailer(r) PROVE UNCHANGED Promise!vars
    BY <1>18, <1>s DEF RTrailer
<1>19. ASSUME NEW r \in Reqs, RError(r) PROVE UNCHANGED Promise!vars
    BY <1>19, <1>s DEF RError
<1>20. ASSUME NEW r \in Reqs, RLost(r) PROVE UNCHANGED Promise!vars
    BY <1>20, <1>s DEF RLost
<1>21. ASSUME NEW r \in Reqs, RStop(r) PROVE UNCHANGED Promise!vars
    BY <1>21, <1>s DEF RStop
<1>22. ASSUME NEW r \in Reqs, TRead(r) PROVE UNCHANGED Promise!vars
    BY <1>22, <1>s DEF TRead
<1>23. ASSUME NEW r \in Reqs, TDrop(r) PROVE UNCHANGED Promise!vars
    BY <1>23, <1>s DEF TDrop
<1>24. ASSUME NEW r \in Reqs, TReturn(r) PROVE UNCHANGED Promise!vars
    BY <1>24, <1>s DEF TReturn
<1>25. CASE PTake
    BY <1>25, <1>p DEF PTake, PEnded
<1>26. CASE PResponse
    BY <1>26, <1>p DEF PResponse, PEnded
<1>27. CASE PSkip
    BY <1>27, <1>p DEF PSkip, PEnded
<1>28. CASE PCloseKnown
    BY <1>28, <1>p DEF PCloseKnown, PEnded
<1>29. CASE PEcho
    BY <1>29, <1>s DEF PEcho
<1>30. CASE PHeader
    BY <1>30, PromiseSend
<1>31. CASE PReturn
    BY <1>31, <1>e DEF PReturn, PEnd, PEnded
<1>32. CASE PBodyError
    BY <1>32, <1>e DEF PBodyError, PEnd, PEnded
<1>33. CASE PWriteError
    BY <1>33, <1>e DEF PWriteError, PEnd, PEnded
<1>34. CASE PFinish
  <2>1. CASE ppc' = "next"
    BY <1>34, <2>1, <1>p DEF PFinish, PEnded
  <2>2. CASE ppc' = "shut"
    BY <1>34, <2>2, <1>e DEF PFinish, PEnded
  <2> QED
    BY <1>34, <2>1, <2>2 DEF PFinish, PEnd
<1>35. CASE UNCHANGED vars \/ Terminated
    BY <1>35, <1>s DEF Terminated, vars
<1> QED
    BY <1>1, <1>2, <1>3, <1>4, <1>5, <1>6, <1>7, <1>8, <1>9, <1>10, <1>11, <1>12,
       <1>13, <1>14, <1>15, <1>16, <1>17, <1>18, <1>19, <1>20, <1>21, <1>22, <1>23, <1>24,
       <1>25, <1>26, <1>27, <1>28, <1>29, <1>30, <1>31, <1>32, <1>33, <1>34, <1>35
    DEF Next, HNext, HDecode, RNext, TNext, PNext

(* What the connection promises its client holds of every interleaving of  *)
(* its tasks: it implements PipelinedResponses.                            *)
THEOREM Implementation == Spec => ImplementsResponses
    BY TypeInit, TypeStep, OrderInit, OrderStep, PromiseInit, PromiseStep, PTL
    DEF Spec, ImplementsResponses, Promise!Spec
-----------------------------------------------------------------------------
(***************************************************************************)
(* Handing the connection over.  While H works on the request it decoded   *)
(* last, the response to it is the last thing queued, in P's hands or      *)
(* written, unless its handler panicked or P has ended without handing     *)
(* over (LastQueued); P returns the writing half only when H has closed    *)
(* the channel and P has emptied it (ChannelClosed), and never after a     *)
(* response that closes (WriterKeeps).                                     *)
(***************************************************************************)
Closing == {"closing", "handover"} \cup HEnded
Joined == {"join", "upgrade", "handover", "upgraded"}
Working == {"response", "close", "write", "body"}

ChannelClosed ==
    /\ closed => hpc \in Closing
    /\ ppc = "writer" => closed /\ queue = <<>>
WriterKeeps ==
    ppc = "writer" => \A i \in 1 .. Len(wire) : ~wire[i].close
Headed ==
    ppc = "body" => /\ Len(wire) > 0
                    /\ wire[Len(wire)].req = cur.req
                    /\ wire[Len(wire)].kind = cur.kind
HandsOver ==
    /\ hpc \in {"handover", "upgraded"} => n \in Reqs /\ tpc[n] = "done"
    /\ hpc = "upgraded" => ppc = "writer"
LastQueued ==
    hpc \in Joined /\ ppc \notin {"shut", "failed"} /\ tpc[n] # "panicked" =>
        \/ Len(queue) > 0 /\ queue[Len(queue)] = Item(n, "response")
        \/ Len(queue) = 0 /\ ppc \in Working /\ cur = Item(n, "response")
        \/ /\ Len(queue) = 0 /\ ppc \in {"next", "writer"} /\ Len(wire) > 0
           /\ wire[Len(wire)].req = n /\ wire[Len(wire)].kind = "response"
HandOverInv ==
    ChannelClosed /\ WriterKeeps /\ Headed /\ HandsOver /\ LastQueued

(* What the tasks other than H and P leave alone.                          *)
LEMMA ReaderFrame ==
    ASSUME NEW r \in Reqs, RNext(r)
    PROVE  UNCHANGED <<script, n, hpc, closed, queue, ppc, cur, wire, tpc, close>>
BY DEF RNext, RChunk, RTrailer, RError, RLost, RStop, hvars, pvars, bvars

LEMMA HandlerFrame ==
    ASSUME NEW r \in Reqs, TNext(r)
    PROVE  /\ UNCHANGED <<script, n, hpc, closed, queue, ppc, cur, wire, close>>
           /\ UNCHANGED <<rpc, rest, berr>>
           /\ \/ tpc' = tpc
              \/ /\ tpc[r] = "running"
                 /\ tpc' = [tpc EXCEPT ![r] = "done"]
              \/ /\ tpc[r] = "running"
                 /\ tpc' = [tpc EXCEPT ![r] = "panicked"]
BY DEF TNext, TRead, TDrop, TReturn, hvars, pvars, rvars

LEMMA HandOverInit == Init => HandOverInv
BY DEF Init, HandOverInv, ChannelClosed, WriterKeeps, Headed, HandsOver,
    LastQueued, Closing, Joined, Working, HEnded

(* Steps that leave the channel and P's side alone: what remains is that H *)
(* and the handler of its request move as far as they may.                 *)
LEMMA HandOverFrame ==
    ASSUME HandOverInv, UNCHANGED <<queue, ppc, cur, wire>>,
           closed => closed', ChannelClosed', HandsOver',
           hpc' \in Joined =>
             /\ hpc \in Joined /\ n' = n
             /\ tpc[n] = "panicked" => tpc'[n] = "panicked"
    PROVE  HandOverInv'
<1>1. WriterKeeps' /\ Headed'
    BY DEF HandOverInv, WriterKeeps, Headed
<1>2. LastQueued'
    BY DEF HandOverInv, LastQueued
<1> QED
    BY <1>1, <1>2 DEF HandOverInv

(* P ends without handing the connection over.                             *)
LEMMA HandOverEnd ==
    ASSUME HandOverInv, UNCHANGED <<n, hpc, closed, wire, tpc>>,
           ppc \notin PEnded, ppc' \in {"shut", "failed"}
    PROVE  HandOverInv'
BY DEF HandOverInv, ChannelClosed, WriterKeeps, Headed, HandsOver, LastQueued,
    PEnded

(* P goes on with the element it holds, or is done with it.                *)
LEMMA HandOverMove ==
    ASSUME HandOverInv, UNCHANGED <<n, hpc, closed, queue, cur, wire, tpc>>,
           ppc \in Working, ppc' \in {"close", "write"}
    PROVE  HandOverInv'
BY DEF HandOverInv, ChannelClosed, WriterKeeps, Headed, HandsOver, LastQueued,
    Working, PEnded

LEMMA HandOverStep ==
    TypeInv /\ OrderInv /\ HandOverInv /\ [Next]_vars => HandOverInv'
<1> USE MaxRequestsAssumption
<1> SUFFICES ASSUME TypeInv, OrderInv, HandOverInv, [Next]_vars PROVE HandOverInv'
    OBVIOUS
<1> USE DEF hvars, pvars, rvars, bvars
<1>a. /\ closed => hpc \in Closing
      /\ ppc = "writer" => closed /\ queue = <<>>
    BY DEF HandOverInv, ChannelClosed
<1>b. Len(queue) \in Nat /\ Len(wire) \in Nat
    BY DEF TypeInv, TypeOK
<1>1. CASE HAccept
  <2>1. /\ UNCHANGED <<queue, ppc, cur, wire, closed>> /\ hpc = "decode"
        /\ hpc' \in {"sendContinue", "sendResponse", "sendEarly"}
    BY <1>1 DEF HAccept
  <2>2. ChannelClosed' /\ HandsOver' /\ hpc' \notin Joined
    BY <1>a, <2>1 DEF ChannelClosed, HandsOver, Closing, HEnded, Joined
  <2> QED
    BY <2>1, <2>2, HandOverFrame
<1>2. CASE HReject
  <2>1. /\ UNCHANGED <<queue, ppc, cur, wire, closed>> /\ hpc = "decode"
        /\ hpc' \in {"sendContinue", "sendResponse", "sendEarly"}
    BY <1>2 DEF HReject
  <2>2. ChannelClosed' /\ HandsOver' /\ hpc' \notin Joined
    BY <1>a, <2>1 DEF ChannelClosed, HandsOver, Closing, HEnded, Joined
  <2> QED
    BY <2>1, <2>2, HandOverFrame
<1>3. CASE HRejectLate
  <2>1. /\ UNCHANGED <<queue, ppc, cur, wire, closed>> /\ hpc = "decode"
        /\ hpc' \in {"sendContinue", "sendResponse", "sendEarly"}
    BY <1>3 DEF HRejectLate
  <2>2. ChannelClosed' /\ HandsOver' /\ hpc' \notin Joined
    BY <1>a, <2>1 DEF ChannelClosed, HandsOver, Closing, HEnded, Joined
  <2> QED
    BY <2>1, <2>2, HandOverFrame
<1>4. CASE HStop
  <2>1. UNCHANGED <<n, queue, ppc, cur, wire, tpc>> /\ (closed => closed')
    BY <1>4 DEF HStop
  <2>2. ChannelClosed' /\ HandsOver' /\ (hpc' \in Joined => hpc \in Joined)
    BY <1>a, <1>4, <2>1
    DEF HStop, ChannelClosed, HandsOver, HandOverInv, Closing, HEnded, PEnded, Joined,
        TypeInv, TypeOK, Holding, HandlerReturned, WantsUpgrade, Reqs
  <2>3. /\ UNCHANGED <<queue, ppc, cur, wire>>
        /\ hpc' \in Joined =>
             /\ hpc \in Joined /\ n' = n
             /\ tpc[n] = "panicked" => tpc'[n] = "panicked"
    BY <2>1, <2>2
  <2> QED
    BY <2>1, <2>2, <2>3, HandOverFrame
<1>5. CASE HFail
  <2>1. UNCHANGED <<n, queue, ppc, cur, wire, tpc>> /\ (closed => closed')
    BY <1>5 DEF HFail
  <2>2. ChannelClosed' /\ HandsOver' /\ (hpc' \in Joined => hpc \in Joined)
    BY <1>a, <1>5, <2>1
    DEF HFail, ChannelClosed, HandsOver, HandOverInv, Closing, HEnded, PEnded, Joined,
        TypeInv, TypeOK, Holding, HandlerReturned, WantsUpgrade, Reqs
  <2>3. /\ UNCHANGED <<queue, ppc, cur, wire>>
        /\ hpc' \in Joined =>
             /\ hpc \in Joined /\ n' = n
             /\ tpc[n] = "panicked" => tpc'[n] = "panicked"
    BY <2>1, <2>2
  <2> QED
    BY <2>1, <2>2, <2>3, HandOverFrame
<1>6. CASE HJoin
  <2>1. UNCHANGED <<n, queue, ppc, cur, wire, tpc>> /\ (closed => closed')
    BY <1>6 DEF HJoin
  <2>2. ChannelClosed' /\ HandsOver' /\ (hpc' \in Joined => hpc \in Joined)
    BY <1>a, <1>6, <2>1
    DEF HJoin, ChannelClosed, HandsOver, HandOverInv, Closing, HEnded, PEnded, Joined,
        TypeInv, TypeOK, Holding, HandlerReturned, WantsUpgrade, Reqs
  <2>3. /\ UNCHANGED <<queue, ppc, cur, wire>>
        /\ hpc' \in Joined =>
             /\ hpc \in Joined /\ n' = n
             /\ tpc[n] = "panicked" => tpc'[n] = "panicked"
    BY <2>1, <2>2
  <2> QED
    BY <2>1, <2>2, <2>3, HandOverFrame
<1>7. CASE HJoinLost
  <2>1. UNCHANGED <<n, queue, ppc, cur, wire, tpc>> /\ (closed => closed')
    BY <1>7 DEF HJoinLost
  <2>2. ChannelClosed' /\ HandsOver' /\ (hpc' \in Joined => hpc \in Joined)
    BY <1>a, <1>7, <2>1
    DEF HJoinLost, ChannelClosed, HandsOver, HandOverInv, Closing, HEnded, PEnded, Joined,
        TypeInv, TypeOK, Holding, HandlerReturned, WantsUpgrade, Reqs
  <2>3. /\ UNCHANGED <<queue, ppc, cur, wire>>
        /\ hpc' \in Joined =>
             /\ hpc \in Joined /\ n' = n
             /\ tpc[n] = "panicked" => tpc'[n] = "panicked"
    BY <2>1, <2>2
  <2> QED
    BY <2>1, <2>2, <2>3, HandOverFrame
<1>8. CASE HContinue
  <2>1. UNCHANGED <<n, queue, ppc, cur, wire, tpc>> /\ (closed => closed')
    BY <1>8 DEF HContinue
  <2>2. ChannelClosed' /\ HandsOver' /\ (hpc' \in Joined => hpc \in Joined)
    BY <1>a, <1>8, <2>1
    DEF HContinue, ChannelClosed, HandsOver, HandOverInv, Closing, HEnded, PEnded, Joined,
        TypeInv, TypeOK, Holding, HandlerReturned, WantsUpgrade, Reqs
  <2>3. /\ UNCHANGED <<queue, ppc, cur, wire>>
        /\ hpc' \in Joined =>
             /\ hpc \in Joined /\ n' = n
             /\ tpc[n] = "panicked" => tpc'[n] = "panicked"
    BY <2>1, <2>2
  <2> QED
    BY <2>1, <2>2, <2>3, HandOverFrame
<1>9. CASE HCloseVersion10
  <2>1. UNCHANGED <<n, queue, ppc, cur, wire, tpc>> /\ (closed => closed')
    BY <1>9 DEF HCloseVersion10
  <2>2. ChannelClosed' /\ HandsOver' /\ (hpc' \in Joined => hpc \in Joined)
    BY <1>a, <1>9, <2>1
    DEF HCloseVersion10, ChannelClosed, HandsOver, HandOverInv, Closing, HEnded,
        PEnded, Joined, TypeInv, TypeOK, Holding, HandlerReturned, WantsUpgrade, Reqs
  <2>3. /\ UNCHANGED <<queue, ppc, cur, wire>>
        /\ hpc' \in Joined =>
             /\ hpc \in Joined /\ n' = n
             /\ tpc[n] = "panicked" => tpc'[n] = "panicked"
    BY <2>1, <2>2
  <2> QED
    BY <2>1, <2>2, <2>3, HandOverFrame
<1>10. CASE HUpgrade
  <2>1. UNCHANGED <<n, queue, ppc, cur, wire, tpc>> /\ (closed => closed')
    BY <1>10 DEF HUpgrade
  <2>2. ChannelClosed' /\ HandsOver' /\ (hpc' \in Joined => hpc \in Joined)
    BY <1>a, <1>10, <2>1
    DEF HUpgrade, ChannelClosed, HandsOver, HandOverInv, Closing, HEnded, PEnded, Joined,
        TypeInv, TypeOK, Holding, HandlerReturned, WantsUpgrade, Reqs
  <2>3. /\ UNCHANGED <<queue, ppc, cur, wire>>
        /\ hpc' \in Joined =>
             /\ hpc \in Joined /\ n' = n
             /\ tpc[n] = "panicked" => tpc'[n] = "panicked"
    BY <2>1, <2>2
  <2> QED
    BY <2>1, <2>2, <2>3, HandOverFrame
<1>11. CASE HHandOver
  <2>1. UNCHANGED <<n, queue, ppc, cur, wire, tpc>> /\ (closed => closed')
    BY <1>11 DEF HHandOver
  <2>2. ChannelClosed' /\ HandsOver' /\ (hpc' \in Joined => hpc \in Joined)
    BY <1>a, <1>11, <2>1
    DEF HHandOver, ChannelClosed, HandsOver, HandOverInv, Closing, HEnded, PEnded, Joined,
        TypeInv, TypeOK, Holding, HandlerReturned, WantsUpgrade, Reqs
  <2>3. /\ UNCHANGED <<queue, ppc, cur, wire>>
        /\ hpc' \in Joined =>
             /\ hpc \in Joined /\ n' = n
             /\ tpc[n] = "panicked" => tpc'[n] = "panicked"
    BY <2>1, <2>2
  <2> QED
    BY <2>1, <2>2, <2>3, HandOverFrame
<1>12. CASE HEarlySent
  <2>1. UNCHANGED <<n, queue, ppc, cur, wire, tpc>> /\ (closed => closed')
    BY <1>12 DEF HEarlySent
  <2>2. ChannelClosed' /\ HandsOver' /\ (hpc' \in Joined => hpc \in Joined)
    BY <1>a, <1>12, <2>1
    DEF HEarlySent, ChannelClosed, HandsOver, HandOverInv, Closing, HEnded, PEnded, Joined,
        TypeInv, TypeOK, Holding, HandlerReturned, WantsUpgrade, Reqs
  <2>3. /\ UNCHANGED <<queue, ppc, cur, wire>>
        /\ hpc' \in Joined =>
             /\ hpc \in Joined /\ n' = n
             /\ tpc[n] = "panicked" => tpc'[n] = "panicked"
    BY <2>1, <2>2
  <2> QED
    BY <2>1, <2>2, <2>3, HandOverFrame
<1>13. CASE HClose
  <2>1. UNCHANGED <<n, queue, ppc, cur, wire, tpc>> /\ (closed => closed')
    BY <1>13 DEF HClose
  <2>2. ChannelClosed' /\ HandsOver' /\ (hpc' \in Joined => hpc \in Joined)
    BY <1>a, <1>13, <2>1
    DEF HClose, ChannelClosed, HandsOver, HandOverInv, Closing, HEnded, PEnded, Joined,
        TypeInv, TypeOK, Holding, HandlerReturned, WantsUpgrade, Reqs
  <2>3. /\ UNCHANGED <<queue, ppc, cur, wire>>
        /\ hpc' \in Joined =>
             /\ hpc \in Joined /\ n' = n
             /\ tpc[n] = "panicked" => tpc'[n] = "panicked"
    BY <2>1, <2>2
  <2> QED
    BY <2>1, <2>2, <2>3, HandOverFrame
<1>14. CASE HSendContinue
  <2>1. /\ UNCHANGED <<ppc, cur, wire>> /\ hpc \notin Closing
        /\ hpc' \notin Joined /\ (closed' => closed \/ hpc' = "closing")
        /\ ppc = "writer" => UNCHANGED queue /\ closed'
    BY <1>14 DEF HSendContinue, HSend, Closing, HEnded, PEnded, Joined
  <2>2. ChannelClosed' /\ WriterKeeps' /\ Headed'
    BY <1>a, <2>1
    DEF HandOverInv, ChannelClosed, WriterKeeps, Headed, Closing
  <2>3. HandsOver' /\ LastQueued'
    BY <2>1 DEF HandsOver, LastQueued, Joined
  <2> QED
    BY <2>2, <2>3 DEF HandOverInv
<1>15. CASE HSendEarly
  <2>1. /\ UNCHANGED <<ppc, cur, wire>> /\ hpc \notin Closing
        /\ hpc' \notin Joined /\ (closed' => closed \/ hpc' = "closing")
        /\ ppc = "writer" => UNCHANGED queue /\ closed'
    BY <1>15 DEF HSendEarly, HSend, Closing, HEnded, PEnded, Joined
  <2>2. ChannelClosed' /\ WriterKeeps' /\ Headed'
    BY <1>a, <2>1
    DEF HandOverInv, ChannelClosed, WriterKeeps, Headed, Closing
  <2>3. HandsOver' /\ LastQueued'
    BY <2>1 DEF HandsOver, LastQueued, Joined
  <2> QED
    BY <2>2, <2>3 DEF HandOverInv
<1>16. CASE HSendResponse
  <2>1. /\ UNCHANGED <<n, ppc, cur, wire, tpc>> /\ hpc = "sendResponse"
        /\ HSend(Item(n, "response"), "join")
    BY <1>16 DEF HSendResponse
  <2>2. ChannelClosed' /\ WriterKeeps' /\ Headed' /\ HandsOver'
    BY <1>a, <2>1
    DEF HandOverInv, ChannelClosed, WriterKeeps, Headed, HandsOver, HSend,
        Closing, HEnded, PEnded
  <2>3. LastQueued'
    <3>1. CASE ppc \in PEnded
      BY <2>1, <3>1 DEF HSend, LastQueued, Joined
    <3>2. CASE ppc \notin PEnded
      <4>1. Item(n, "response") \in Items
        BY <2>1 DEF Item, Items, TypeInv, TypeOK, Holding, Reqs
      <4>2. queue' = Append(queue, Item(n, "response")) /\ queue \in Seq(Items)
        BY <2>1, <3>2 DEF HSend, TypeInv, TypeOK
      <4>3. Len(queue') > 0 /\ queue'[Len(queue')] = Item(n, "response")
        BY <4>1, <4>2, AppendProperties
      <4> QED
        BY <2>1, <4>3 DEF LastQueued, Item
    <3> QED
      BY <3>1, <3>2
  <2> QED
    BY <2>2, <2>3 DEF HandOverInv
<1>17. ASSUME NEW r \in Reqs, RNext(r) PROVE HandOverInv'
  <2>1. UNCHANGED <<n, hpc, closed, queue, ppc, cur, wire, tpc>>
    BY <1>17, ReaderFrame
  <2> QED
    BY <2>1
    DEF HandOverInv, ChannelClosed, WriterKeeps, Headed, HandsOver, LastQueued
<1>18. ASSUME NEW r \in Reqs, TNext(r) PROVE HandOverInv'
  <2>1. UNCHANGED <<n, hpc, closed, queue, ppc, cur, wire>>
    BY <1>18, HandlerFrame
  <2>2. \A q \in Reqs : tpc[q] # "running" => tpc'[q] = tpc[q]
    BY <1>18, HandlerFrame DEF TypeInv, TypeOK
  <2>3. hpc \in Joined => n \in Reqs
    BY DEF Joined, HandOverInv, HandsOver, TypeInv, TypeOK, Holding, Reqs
  <2>4. ChannelClosed' /\ HandsOver'
    BY <2>1, <2>2 DEF HandOverInv, ChannelClosed, HandsOver
  <2>5. /\ UNCHANGED <<queue, ppc, cur, wire>>
        /\ hpc' \in Joined =>
             /\ hpc \in Joined /\ n' = n
             /\ tpc[n] = "panicked" => tpc'[n] = "panicked"
    BY <2>1, <2>2, <2>3
  <2> QED
    BY <2>1, <2>4, <2>5, HandOverFrame
<1>19. CASE PTake
  <2>1. /\ Len(queue) > 0 /\ cur' = queue[1]
        /\ Len(queue') = Len(queue) - 1
        /\ \A j \in 1 .. Len(queue') : queue'[j] = queue[j + 1]
    BY <1>19, HeadTailProperties, EmptySeq DEF PTake, TypeInv, TypeOK
  <2>2. /\ ppc = "next" /\ ppc' = "response"
        /\ UNCHANGED <<n, hpc, closed, wire, tpc>>
    BY <1>19 DEF PTake
  <2>3. LastQueued'
    <3> SUFFICES ASSUME hpc \in Joined, tpc[n] # "panicked"
                 PROVE  \/ Len(queue') > 0 /\ queue'[Len(queue')] = Item(n, "response")
                        \/ Len(queue') = 0 /\ cur' = Item(n, "response")
      BY <2>2 DEF LastQueued, Working, Item
    <3>1. queue[Len(queue)] = Item(n, "response")
      BY <2>1, <2>2 DEF HandOverInv, LastQueued
    <3> QED
      BY <1>b, <2>1, <3>1
  <2>4. ChannelClosed' /\ WriterKeeps' /\ Headed' /\ HandsOver'
    BY <2>2 DEF HandOverInv, ChannelClosed, WriterKeeps, Headed, HandsOver
  <2> QED
    BY <2>3, <2>4 DEF HandOverInv
<1>20. CASE PReturn
  <2>1. /\ ppc = "next" /\ ppc' = "writer" /\ closed /\ queue = <<>>
        /\ UNCHANGED <<n, hpc, closed, queue, wire, tpc>>
    BY <1>20 DEF PReturn
  <2>2. WriterKeeps'
    BY <2>1 DEF OrderInv, LastCloses, PEnded, WriterKeeps
  <2>3. LastQueued'
    BY <2>1 DEF HandOverInv, LastQueued, Working
  <2>4. ChannelClosed' /\ Headed' /\ HandsOver'
    BY <2>1 DEF HandOverInv, ChannelClosed, Headed, HandsOver
  <2> QED
    BY <2>2, <2>3, <2>4 DEF HandOverInv
<1>21. CASE PResponse
  <2>1. /\ UNCHANGED <<n, hpc, closed, queue, cur, wire, tpc>>
        /\ ppc \in Working /\ ppc' \in {"close", "write"}
    BY <1>21 DEF PResponse, Working
  <2> QED
    BY <2>1, HandOverMove
<1>22. CASE PCloseKnown
  <2>1. /\ UNCHANGED <<n, hpc, closed, queue, cur, wire, tpc>>
        /\ ppc \in Working /\ ppc' \in {"close", "write"}
    BY <1>22 DEF PCloseKnown, Working
  <2> QED
    BY <2>1, HandOverMove
<1>23. CASE PSkip
  <2>1. /\ ppc = "response" /\ ppc' = "next"
        /\ UNCHANGED <<n, hpc, closed, queue, wire, tpc>>
        /\ cur = Item(n, "response") => tpc[n] = "panicked"
    BY <1>23 DEF PSkip, Item
  <2>2. LastQueued'
    BY <2>1 DEF HandOverInv, LastQueued
  <2>3. ChannelClosed' /\ WriterKeeps' /\ Headed' /\ HandsOver'
    BY <2>1 DEF HandOverInv, ChannelClosed, WriterKeeps, Headed, HandsOver
  <2> QED
    BY <2>2, <2>3 DEF HandOverInv
<1>24. CASE PHeader
  <2> DEFINE m == [req |-> cur.req, kind |-> cur.kind,
                  framing |-> Framing(cur), close |-> CloseAfter(cur)]
  <2>1. /\ ppc = "write" /\ ppc' = "body" /\ wire' = Append(wire, m)
        /\ UNCHANGED <<n, hpc, closed, queue, cur, tpc>>
    BY <1>24 DEF PHeader
  <2>2. m.req = cur.req /\ m.kind = cur.kind
    OBVIOUS
  <2> HIDE DEF m
  <2>3. Len(wire') = Len(wire) + 1 /\ wire'[Len(wire')] = m
    BY <2>1 DEF TypeInv, TypeOK
  <2>4. Headed'
    BY <1>b, <2>1, <2>2, <2>3 DEF Headed
  <2>5. LastQueued'
    BY <2>1 DEF HandOverInv, LastQueued, Working, Item
  <2>6. ChannelClosed' /\ WriterKeeps' /\ HandsOver'
    BY <2>1 DEF HandOverInv, ChannelClosed, WriterKeeps, HandsOver
  <2> QED
    BY <2>4, <2>5, <2>6 DEF HandOverInv
<1>25. CASE PEcho \/ UNCHANGED vars \/ Terminated
  <2>1. UNCHANGED <<n, hpc, closed, queue, ppc, cur, wire, tpc>>
    BY <1>25 DEF PEcho, Terminated, vars
  <2> QED
    BY <2>1
    DEF HandOverInv, ChannelClosed, WriterKeeps, Headed, HandsOver, LastQueued
<1>26. CASE PFinish
  <2>1. CASE wire[Len(wire)].close
    <3>1. /\ UNCHANGED <<n, hpc, closed, wire, tpc>>
          /\ ppc \notin PEnded /\ ppc' \in {"shut", "failed"}
      BY <1>26, <2>1 DEF PFinish, PEnd, PEnded
    <3> QED
      BY <3>1, HandOverEnd
  <2>2. CASE ~wire[Len(wire)].close
    <3>1. /\ ppc = "body" /\ ppc' = "next"
          /\ UNCHANGED <<n, hpc, closed, queue, wire, tpc>>
      BY <1>26, <2>2 DEF PFinish
    <3>2. LastQueued'
      BY <3>1 DEF HandOverInv, LastQueued, Headed, Item
    <3>3. ChannelClosed' /\ WriterKeeps' /\ Headed' /\ HandsOver'
      BY <3>1 DEF HandOverInv, ChannelClosed, WriterKeeps, Headed, HandsOver
    <3> QED
      BY <3>2, <3>3 DEF HandOverInv
  <2> QED
    BY <2>1, <2>2
<1>27. CASE PBodyError
  <2>1. /\ UNCHANGED <<n, hpc, closed, wire, tpc>>
        /\ ppc \notin PEnded /\ ppc' \in {"shut", "failed"}
    BY <1>27 DEF PBodyError, PEnd, PEnded
  <2> QED
    BY <2>1, HandOverEnd
<1>28. CASE PWriteError
  <2>1. /\ UNCHANGED <<n, hpc, closed, wire, tpc>>
        /\ ppc \notin PEnded /\ ppc' \in {"shut", "failed"}
    BY <1>28 DEF PWriteError, PEnd, PEnded
  <2> QED
    BY <2>1, HandOverEnd
<1> QED
    BY <1>1, <1>2, <1>3, <1>4, <1>5, <1>6, <1>7, <1>8, <1>9, <1>10, <1>11,
       <1>12, <1>13, <1>14, <1>15, <1>16, <1>17, <1>18, <1>19, <1>20,
       <1>21, <1>22, <1>23, <1>24, <1>25, <1>26, <1>27, <1>28
    DEF Next, HNext, HDecode, PNext

(* Whoever is handed an upgraded connection is alone on it, behind the     *)
(* response to its request.                                                *)
THEOREM Exclusive == Spec => []UpgradeExclusive
<1>1. TypeInv /\ BoundaryInv /\ OrderInv /\ HandOverInv => UpgradeExclusive
  <2> SUFFICES ASSUME TypeInv, BoundaryInv, OrderInv, HandOverInv, hpc = "upgraded"
               PROVE  /\ ppc = "writer" /\ queue = <<>>
                      /\ wire # <<>> /\ wire[Len(wire)].req = n
                      /\ wire[Len(wire)].kind = "response"
                      /\ wire[Len(wire)].framing # "eof" /\ ~wire[Len(wire)].close
                      /\ \A r \in 1 .. n : rpc[r] = "returned" /\ Complete(r)
    BY DEF UpgradeExclusive
  <2>1. ppc = "writer" /\ n \in Reqs /\ tpc[n] = "done" /\ queue = <<>>
    BY DEF HandOverInv, HandsOver, ChannelClosed
  <2>2. Len(queue) = 0
    BY <2>1
  <2>3. /\ Len(wire) > 0
        /\ wire[Len(wire)].req = n /\ wire[Len(wire)].kind = "response"
    BY <2>1, <2>2 DEF HandOverInv, LastQueued, Joined, Working
  <2>4. Len(wire) \in 1 .. Len(wire) /\ wire # <<>>
    BY <2>3, EmptySeq DEF TypeInv, TypeOK
  <2>5. wire[Len(wire)].framing # "eof" /\ ~wire[Len(wire)].close
    BY <2>1, <2>4 DEF HandOverInv, WriterKeeps, OrderInv, LastCloses
  <2>6. \A r \in 1 .. n : rpc[r] = "returned" /\ Complete(r)
    BY <2>1, MaxRequestsAssumption
    DEF BoundaryInv, EarlierReturned, ReturnedComplete, Complete, Reqs
  <2> QED
    BY <2>1, <2>3, <2>4, <2>5, <2>6
<1> QED
    BY TypeInit, TypeStep, BoundaryInit, BoundaryStep, OrderInit, OrderStep,
       HandOverInit, HandOverStep, <1>1, PTL DEF Spec
-----------------------------------------------------------------------------
(***************************************************************************)
(* The load of a connection.  A handler runs only while H works on its     *)
(* request; when H decodes, every request that is not answered has its     *)
(* response in the channel or in P's hands (NoneLost), and the channel is  *)
(* not beyond its depth (DepthKept).                                       *)
(***************************************************************************)
OneRunning ==
    \A r \in Reqs : tpc[r] = "running" =>
        /\ r = n
        /\ hpc \notin {"decode", "sendEarly", "earlySent", "handover", "upgraded"}
Decoding == {"decode", "sendContinue", "sendResponse", "join", "upgrade"}
InHand(r) ==
    \/ \E j \in 1 .. Len(queue) : queue[j] = Item(r, "response")
    \/ ppc \in {"response", "close", "write"} /\ cur = Item(r, "response")
NoneLost ==
    hpc \in Decoding /\ ppc \notin PEnded =>
        \A r \in 1 .. n :
            \/ r = n /\ hpc \in {"sendContinue", "sendResponse"}
            \/ tpc[r] = "panicked" \/ Responded(r) \/ InHand(r)
DepthKept ==
    hpc \in {"upgrade", "decode"} /\ ppc \notin PEnded =>
        Len(queue) <= PipelineDepth
LoadInv == OneRunning /\ NoneLost /\ DepthKept

LEMMA LoadInit == Init => LoadInv
BY DepthAssumption DEF Init, LoadInv, OneRunning, NoneLost, DepthKept

(* Steps that leave the channel, P and the number of requests alone.       *)
LEMMA LoadFrame ==
    ASSUME TypeInv, LoadInv, UNCHANGED <<n, queue, ppc, cur, wire>>,
           OneRunning', DepthKept',
           \A q \in 1 .. n : tpc[q] = "panicked" => tpc'[q] = "panicked",
           hpc' \in Decoding => hpc \in Decoding,
           hpc' # hpc => hpc \notin {"sendContinue", "sendResponse"}
    PROVE  LoadInv'
BY DEF LoadInv, NoneLost, InHand, Responded, Item

(* P is gone: only the request handlers count.                             *)
LEMMA LoadEnd ==
    ASSUME LoadInv, UNCHANGED <<n, hpc, tpc>>, ppc' \in PEnded
    PROVE  LoadInv'
BY DEF LoadInv, OneRunning, NoneLost, DepthKept

(* H puts an element into the channel: what was in hand still is.          *)
LEMMA LoadSend ==
    ASSUME TypeInv, NEW item \in Items, queue' = Append(queue, item),
           UNCHANGED <<ppc, cur>>
    PROVE  /\ \A r : InHand(r) => InHand(r)'
           /\ \A r : item = Item(r, "response") => InHand(r)'
<1>1. /\ Len(queue) \in Nat /\ Len(queue') = Len(queue) + 1
      /\ \A k \in 1 .. Len(queue) : queue'[k] = queue[k]
      /\ queue'[Len(queue) + 1] = item
    BY DEF TypeInv, TypeOK
<1>2. ASSUME NEW r, InHand(r) PROVE InHand(r)'
    BY <1>1, <1>2 DEF InHand, Item
<1>3. ASSUME NEW r, item = Item(r, "response") PROVE InHand(r)'
    BY <1>1, <1>3 DEF InHand, Item
<1> QED
    BY <1>2, <1>3

LEMMA LoadStep == TypeInv /\ HandOverInv /\ LoadInv /\ [Next]_vars => LoadInv'
<1> USE MaxRequestsAssumption
<1> SUFFICES ASSUME TypeInv, HandOverInv, LoadInv, [Next]_vars PROVE LoadInv'
    OBVIOUS
<1> USE DEF hvars, pvars, rvars, bvars
<1>a. n \in 0 .. MaxRequests /\ Len(queue) \in Nat /\ Len(wire) \in Nat
    BY DEF TypeInv, TypeOK
<1>1. CASE HAccept
  <2>1. /\ UNCHANGED <<queue, ppc, cur, wire>> /\ hpc = "decode"
        /\ n' = n + 1 /\ n + 1 \in Reqs
        /\ tpc' = [tpc EXCEPT ![n + 1] = "running"]
        /\ hpc' \in {"sendContinue", "sendResponse"}
    BY <1>a, <1>1 DEF HAccept, Reqs
  <2>2. \A r \in Reqs : tpc'[r] = IF r = n + 1 THEN "running" ELSE tpc[r]
    BY <2>1 DEF TypeInv, TypeOK
  <2>3. OneRunning'
    BY <2>1, <2>2 DEF LoadInv, OneRunning
  <2>4. NoneLost'
    <3> SUFFICES ASSUME ppc \notin PEnded, NEW r \in 1 .. n + 1
                 PROVE  \/ r = n + 1
                        \/ tpc'[r] = "panicked" \/ Responded(r)' \/ InHand(r)'
      BY <2>1 DEF NoneLost
    <3>1. CASE r \in 1 .. n
      <4>1. tpc[r] = "panicked" \/ Responded(r) \/ InHand(r)
        BY <2>1, <3>1 DEF LoadInv, NoneLost, Decoding
      <4>2. (Responded(r) => Responded(r)') /\ (InHand(r) => InHand(r)')
        BY <2>1 DEF Responded, InHand, Item
      <4>3. tpc[r] = "panicked" => tpc'[r] = "panicked" \/ r = n + 1
        BY <1>a, <2>2, <3>1 DEF Reqs
      <4> QED
        BY <4>1, <4>2, <4>3
    <3> QED
      BY <1>a, <3>1
  <2>5. DepthKept'
    BY <2>1 DEF DepthKept
  <2> QED
    BY <2>3, <2>4, <2>5 DEF LoadInv
<1>2. CASE HReject
  <2>1. hpc = "decode" /\ hpc' = "sendEarly" /\ tpc' = tpc
    BY <1>2 DEF HReject
  <2> QED
    BY <2>1 DEF LoadInv, OneRunning, NoneLost, DepthKept, Decoding
<1>3. CASE HRejectLate
  <2>1. hpc = "decode" /\ hpc' = "sendEarly" /\ tpc' = tpc
    BY <1>3 DEF HRejectLate
  <2> QED
    BY <2>1 DEF LoadInv, OneRunning, NoneLost, DepthKept, Decoding
<1>4. CASE HStop
  <2>1. /\ UNCHANGED <<n, queue, ppc, cur, wire, tpc>>
        /\ hpc' \in Decoding => hpc \in Decoding
        /\ hpc \notin {"sendContinue", "sendResponse"}
    BY <1>4 DEF HStop, PEnded, Decoding
  <2>2. OneRunning' /\ DepthKept'
    BY <1>4, <2>1
    DEF HStop, LoadInv, OneRunning, DepthKept, HandlerReturned, WantsUpgrade,
        PipelineReady, PEnded, TypeInv, TypeOK, Holding, Reqs
  <2> QED
    BY <2>1, <2>2, LoadFrame
<1>5. CASE HFail
  <2>1. /\ UNCHANGED <<n, queue, ppc, cur, wire, tpc>>
        /\ hpc' \in Decoding => hpc \in Decoding
        /\ hpc \notin {"sendContinue", "sendResponse"}
    BY <1>5 DEF HFail, PEnded, Decoding
  <2>2. OneRunning' /\ DepthKept'
    BY <1>5, <2>1
    DEF HFail, LoadInv, OneRunning, DepthKept, HandlerReturned, WantsUpgrade,
        PipelineReady, PEnded, TypeInv, TypeOK, Holding, Reqs
  <2> QED
    BY <2>1, <2>2, LoadFrame
<1>6. CASE HJoin
  <2>1. /\ UNCHANGED <<n, queue, ppc, cur, wire, tpc>>
        /\ hpc' \in Decoding => hpc \in Decoding
        /\ hpc \notin {"sendContinue", "sendResponse"}
    BY <1>6 DEF HJoin, PEnded, Decoding
  <2>2. OneRunning' /\ DepthKept'
    BY <1>6, <2>1
    DEF HJoin, LoadInv, OneRunning, DepthKept, HandlerReturned, WantsUpgrade,
        PipelineReady, PEnded, TypeInv, TypeOK, Holding, Reqs
  <2> QED
    BY <2>1, <2>2, LoadFrame
<1>7. CASE HJoinLost
  <2>1. /\ UNCHANGED <<n, queue, ppc, cur, wire, tpc>>
        /\ hpc' \in Decoding => hpc \in Decoding
        /\ hpc \notin {"sendContinue", "sendResponse"}
    BY <1>7 DEF HJoinLost, PEnded, Decoding
  <2>2. OneRunning' /\ DepthKept'
    BY <1>7, <2>1
    DEF HJoinLost, LoadInv, OneRunning, DepthKept, HandlerReturned, WantsUpgrade,
        PipelineReady, PEnded, TypeInv, TypeOK, Holding, Reqs
  <2> QED
    BY <2>1, <2>2, LoadFrame
<1>8. CASE HContinue
  <2>1. /\ UNCHANGED <<n, queue, ppc, cur, wire, tpc>>
        /\ hpc' \in Decoding => hpc \in Decoding
        /\ hpc \notin {"sendContinue", "sendResponse"}
    BY <1>8 DEF HContinue, PEnded, Decoding
  <2>2. OneRunning' /\ DepthKept'
    BY <1>8, <2>1
    DEF HContinue, LoadInv, OneRunning, DepthKept, HandlerReturned, WantsUpgrade,
        PipelineReady, PEnded, TypeInv, TypeOK, Holding, Reqs
  <2> QED
    BY <2>1, <2>2, LoadFrame
<1>9. CASE HCloseVersion10
  <2>1. /\ UNCHANGED <<n, queue, ppc, cur, wire, tpc>>
        /\ hpc' \in Decoding => hpc \in Decoding
        /\ hpc \notin {"sendContinue", "sendResponse"}
    BY <1>9 DEF HCloseVersion10, PEnded, Decoding
  <2>2. OneRunning' /\ DepthKept'
    BY <1>9, <2>1
    DEF HCloseVersion10, LoadInv, OneRunning, DepthKept, HandlerReturned, WantsUpgrade,
        PipelineReady, PEnded, TypeInv, TypeOK, Holding, Reqs
  <2> QED
    BY <2>1, <2>2, LoadFrame
<1>10. CASE HUpgrade
  <2>1. /\ UNCHANGED <<n, queue, ppc, cur, wire, tpc>>
        /\ hpc' \in Decoding => hpc \in Decoding
        /\ hpc \notin {"sendContinue", "sendResponse"}
    BY <1>10 DEF HUpgrade, PEnded, Decoding
  <2>2. OneRunning' /\ DepthKept'
    BY <1>10, <2>1
    DEF HUpgrade, LoadInv, OneRunning, DepthKept, HandlerReturned, WantsUpgrade,
        PipelineReady, PEnded, TypeInv, TypeOK, Holding, Reqs
  <2> QED
    BY <2>1, <2>2, LoadFrame
<1>11. CASE HHandOver
  <2>1. /\ UNCHANGED <<n, queue, ppc, cur, wire, tpc>>
        /\ hpc' \in Decoding => hpc \in Decoding
        /\ hpc \notin {"sendContinue", "sendResponse"}
    BY <1>11 DEF HHandOver, PEnded, Decoding
  <2>2. OneRunning' /\ DepthKept'
    BY <1>11, <2>1
    DEF HHandOver, LoadInv, OneRunning, DepthKept, HandlerReturned, WantsUpgrade,
        PipelineReady, PEnded, TypeInv, TypeOK, Holding, Reqs
  <2> QED
    BY <2>1, <2>2, LoadFrame
<1>12. CASE HEarlySent
  <2>1. /\ UNCHANGED <<n, queue, ppc, cur, wire, tpc>>
        /\ hpc' \in Decoding => hpc \in Decoding
        /\ hpc \notin {"sendContinue", "sendResponse"}
    BY <1>12 DEF HEarlySent, PEnded, Decoding
  <2>2. OneRunning' /\ DepthKept'
    BY <1>12, <2>1
    DEF HEarlySent, LoadInv, OneRunning, DepthKept, HandlerReturned, WantsUpgrade,
        PipelineReady, PEnded, TypeInv, TypeOK, Holding, Reqs
  <2> QED
    BY <2>1, <2>2, LoadFrame
<1>13. CASE HClose
  <2>1. /\ UNCHANGED <<n, queue, ppc, cur, wire, tpc>>
        /\ hpc' \in Decoding => hpc \in Decoding
        /\ hpc \notin {"sendContinue", "sendResponse"}
    BY <1>13 DEF HClose, PEnded, Decoding
  <2>2. OneRunning' /\ DepthKept'
    BY <1>13, <2>1
    DEF HClose, LoadInv, OneRunning, DepthKept, HandlerReturned, WantsUpgrade,
        PipelineReady, PEnded, TypeInv, TypeOK, Holding, Reqs
  <2> QED
    BY <2>1, <2>2, LoadFrame
<1>14. CASE HSendContinue
  <2>1. /\ hpc = "sendContinue" /\ UNCHANGED <<n, ppc, cur, wire, tpc>>
        /\ HSend(Item(n, "continue"), "sendResponse")
    BY <1>14 DEF HSendContinue
  <2>2. OneRunning' /\ DepthKept'
    BY <2>1 DEF HSend, LoadInv, OneRunning, DepthKept
  <2>3. NoneLost'
    <3> SUFFICES ASSUME ppc \notin PEnded, NEW r \in 1 .. n
                 PROVE  r = n \/ tpc[r] = "panicked" \/ Responded(r) \/ InHand(r)'
      BY <2>1 DEF NoneLost, HSend, Responded
    <3>1. r = n \/ tpc[r] = "panicked" \/ Responded(r) \/ InHand(r)
      BY <2>1 DEF LoadInv, NoneLost, Decoding
    <3>2. Item(n, "continue") \in Items /\ queue' = Append(queue, Item(n, "continue"))
      BY <2>1 DEF HSend, Item, Items, TypeInv, TypeOK, Holding, Reqs
    <3> QED
      BY <2>1, <3>1, <3>2, LoadSend
  <2> QED
    BY <2>2, <2>3 DEF LoadInv
<1>15. CASE HSendResponse
  <2>1. /\ hpc = "sendResponse" /\ UNCHANGED <<n, ppc, cur, wire, tpc>>
        /\ HSend(Item(n, "response"), "join")
    BY <1>15 DEF HSendResponse
  <2>2. OneRunning' /\ DepthKept'
    BY <2>1 DEF HSend, LoadInv, OneRunning, DepthKept
  <2>3. NoneLost'
    <3> SUFFICES ASSUME ppc \notin PEnded, NEW r \in 1 .. n
                 PROVE  tpc[r] = "panicked" \/ Responded(r) \/ InHand(r)'
      BY <2>1 DEF NoneLost, HSend, Responded
    <3>1. r = n \/ tpc[r] = "panicked" \/ Responded(r) \/ InHand(r)
      BY <2>1 DEF LoadInv, NoneLost, Decoding
    <3>2. Item(n, "response") \in Items /\ queue' = Append(queue, Item(n, "response"))
      BY <2>1 DEF HSend, Item, Items, TypeInv, TypeOK, Holding, Reqs
    <3> QED
      BY <2>1, <3>1, <3>2, LoadSend
  <2> QED
    BY <2>2, <2>3 DEF LoadInv
<1>16. CASE HSendEarly
  <2>1. /\ hpc = "sendEarly" /\ hpc' \in {"earlySent", "closing"} /\ tpc' = tpc
    BY <1>16 DEF HSendEarly, HSend
  <2> QED
    BY <2>1 DEF LoadInv, OneRunning, NoneLost, DepthKept, Decoding
<1>17. ASSUME NEW r \in Reqs, RNext(r) PROVE LoadInv'
  <2>1. UNCHANGED <<n, hpc, queue, ppc, cur, wire, tpc>>
    BY <1>17, ReaderFrame
  <2>2. OneRunning' /\ DepthKept'
    BY <2>1 DEF LoadInv, OneRunning, DepthKept
  <2> QED
    BY <2>1, <2>2, LoadFrame
<1>18. ASSUME NEW r \in Reqs, TNext(r) PROVE LoadInv'
  <2>1. UNCHANGED <<n, hpc, queue, ppc, cur, wire>>
    BY <1>18, HandlerFrame
  <2>2. \A q \in Reqs : /\ tpc[q] # "running" => tpc'[q] = tpc[q]
                        /\ tpc'[q] = "running" => tpc[q] = "running"
    BY <1>18, HandlerFrame DEF TypeInv, TypeOK
  <2>3. OneRunning' /\ DepthKept'
    BY <2>1, <2>2 DEF LoadInv, OneRunning, DepthKept
  <2>4. \A q \in 1 .. n : tpc[q] = "panicked" => tpc'[q] = "panicked"
    BY <1>a, <2>2 DEF Reqs
  <2> QED
    BY <2>1, <2>3, <2>4, LoadFrame
<1>19. CASE PEcho \/ UNCHANGED vars \/ Terminated
  <2>1. UNCHANGED <<n, hpc, queue, ppc, cur, wire, tpc>>
    BY <1>19 DEF PEcho, Terminated, vars
  <2>2. OneRunning' /\ DepthKept'
    BY <2>1 DEF LoadInv, OneRunning, DepthKept
  <2> QED
    BY <2>1, <2>2, LoadFrame
<1>20. CASE PTake
  <2>1. /\ ppc = "next" /\ ppc' = "response" /\ UNCHANGED <<n, hpc, wire, tpc>>
        /\ Len(queue) > 0 /\ cur' = queue[1]
        /\ Len(queue') = Len(queue) - 1
        /\ \A j \in 1 .. Len(queue') : queue'[j] = queue[j + 1]
    BY <1>20, HeadTailProperties, EmptySeq DEF PTake, TypeInv, TypeOK
  <2>2. PipelineDepth \in Nat
    BY DepthAssumption
  <2>3. OneRunning' /\ DepthKept'
    BY <1>a, <2>1, <2>2 DEF LoadInv, OneRunning, DepthKept, PEnded
  <2>4. ASSUME NEW r, InHand(r) PROVE InHand(r)'
    <3>1. PICK j \in 1 .. Len(queue) : queue[j] = Item(r, "response")
      BY <2>1, <2>4 DEF InHand
    <3>2. CASE j = 1
      BY <2>1, <3>1, <3>2 DEF InHand, Item
    <3>3. CASE j > 1
      <4>1. j - 1 \in 1 .. Len(queue') /\ queue'[j - 1] = Item(r, "response")
        BY <1>a, <2>1, <3>1, <3>3
      <4> QED
        BY <4>1 DEF InHand, Item
    <3> QED
      BY <1>a, <3>2, <3>3
  <2>5. NoneLost'
    BY <2>1, <2>4 DEF LoadInv, NoneLost, Responded, PEnded
  <2> QED
    BY <2>3, <2>5 DEF LoadInv
<1>21. CASE PResponse
  <2>1. /\ UNCHANGED <<n, hpc, queue, cur, wire, tpc>>
        /\ ppc \in {"response", "close"} /\ ppc' \in {"close", "write"}
    BY <1>21 DEF PResponse
  <2>2. OneRunning' /\ DepthKept'
    BY <2>1 DEF LoadInv, OneRunning, DepthKept, PEnded
  <2>3. NoneLost'
    BY <2>1 DEF LoadInv, NoneLost, InHand, Responded, Item, PEnded
  <2> QED
    BY <2>2, <2>3 DEF LoadInv
<1>22. CASE PCloseKnown
  <2>1. /\ UNCHANGED <<n, hpc, queue, cur, wire, tpc>>
        /\ ppc \in {"response", "close"} /\ ppc' \in {"close", "write"}
    BY <1>22 DEF PCloseKnown
  <2>2. OneRunning' /\ DepthKept'
    BY <2>1 DEF LoadInv, OneRunning, DepthKept, PEnded
  <2>3. NoneLost'
    BY <2>1 DEF LoadInv, NoneLost, InHand, Responded, Item, PEnded
  <2> QED
    BY <2>2, <2>3 DEF LoadInv
<1>23. CASE PSkip
  <2>1. /\ ppc = "response" /\ ppc' = "next"
        /\ UNCHANGED <<n, hpc, queue, wire, tpc>>
        /\ \A r : cur = Item(r, "response") => tpc[r] = "panicked"
    BY <1>23 DEF PSkip, Item
  <2>2. OneRunning' /\ DepthKept'
    BY <2>1 DEF LoadInv, OneRunning, DepthKept, PEnded
  <2>3. \A r : InHand(r) => InHand(r)' \/ tpc[r] = "panicked"
    BY <2>1 DEF InHand, Item
  <2>4. NoneLost'
    BY <2>1, <2>3 DEF LoadInv, NoneLost, Responded, PEnded
  <2> QED
    BY <2>2, <2>4 DEF LoadInv
<1>24. CASE PHeader
  <2> DEFINE m == [req |-> cur.req, kind |-> cur.kind,
                  framing |-> Framing(cur), close |-> CloseAfter(cur)]
  <2>1. /\ ppc = "write" /\ ppc' = "body" /\ wire' = Append(wire, m)
        /\ UNCHANGED <<n, hpc, queue, cur, tpc>>
    BY <1>24 DEF PHeader
  <2>2. m.req = cur.req /\ m.kind = cur.kind
    OBVIOUS
  <2> HIDE DEF m
  <2>3. /\ Len(wire') = Len(wire) + 1 /\ wire'[Len(wire) + 1] = m
        /\ \A i \in 1 .. Len(wire) : wire'[i] = wire[i]
    BY <2>1 DEF TypeInv, TypeOK
  <2>4. OneRunning' /\ DepthKept'
    BY <2>1 DEF LoadInv, OneRunning, DepthKept, PEnded
  <2>5. ASSUME NEW r, Responded(r) PROVE Responded(r)'
    BY <1>a, <2>3, <2>5 DEF Responded
  <2>6. ASSUME NEW r, InHand(r) PROVE InHand(r)' \/ Responded(r)'
    <3>1. CASE cur = Item(r, "response")
      <4>1. wire'[Len(wire) + 1].req = r /\ wire'[Len(wire) + 1].kind # "continue"
        BY <2>2, <2>3, <3>1 DEF Item
      <4> QED
        BY <1>a, <2>3, <4>1 DEF Responded
    <3>2. CASE cur # Item(r, "response")
      BY <2>1, <2>6, <3>2 DEF InHand, Item
    <3> QED
      BY <3>1, <3>2
  <2>7. NoneLost'
    BY <2>1, <2>5, <2>6 DEF LoadInv, NoneLost, PEnded
  <2> QED
    BY <2>4, <2>7 DEF LoadInv
<1>25. CASE PFinish
  <2>1. CASE wire[Len(wire)].close
    BY <1>25, <2>1, LoadEnd DEF PFinish, PEnd, PEnded
  <2>2. CASE ~wire[Len(wire)].close
    <3>1. /\ ppc = "body" /\ ppc' = "next" /\ UNCHANGED <<n, hpc, queue, wire, tpc>>
      BY <1>25, <2>2 DEF PFinish
    <3>2. OneRunning' /\ DepthKept'
      BY <3>1 DEF LoadInv, OneRunning, DepthKept, PEnded
    <3>3. NoneLost'
      BY <3>1 DEF LoadInv, NoneLost, InHand, Responded, Item, PEnded
    <3> QED
      BY <3>2, <3>3 DEF LoadInv
  <2> QED
    BY <2>1, <2>2
<1>26. CASE PReturn
    BY <1>26, LoadEnd DEF PReturn, PEnd, PEnded
<1>27. CASE PBodyError
    BY <1>27, LoadEnd DEF PBodyError, PEnd, PEnded
<1>28. CASE PWriteError
    BY <1>28, LoadEnd DEF PWriteError, PEnd, PEnded
<1> QED
    BY <1>1, <1>2, <1>3, <1>4, <1>5, <1>6, <1>7, <1>8, <1>9, <1>10, <1>11,
       <1>12, <1>13, <1>14, <1>15, <1>16, <1>17, <1>18, <1>19, <1>20,
       <1>21, <1>22, <1>23, <1>24, <1>25, <1>26, <1>27, <1>28
    DEF Next, HNext, HDecode, PNext

(* One handler at a time, and the pipeline's depth bounds what waits to be *)
(* answered: every such request has its response in the channel or in P's  *)
(* hands, and no two have it at the same place.                            *)
THEOREM Bounded == Spec => []ConcurrencyBounded
<1>1. TypeInv /\ LoadInv => ConcurrencyBounded
  <2> SUFFICES ASSUME TypeInv, LoadInv PROVE ConcurrencyBounded
    OBVIOUS
  <2>a. /\ n \in 0 .. MaxRequests /\ MaxRequests \in Nat /\ PipelineDepth \in Nat
        /\ Len(queue) \in Nat
    BY MaxRequestsAssumption, DepthAssumption DEF TypeInv, TypeOK
  <2>1. Cardinality({r \in Reqs : tpc[r] = "running"}) <= 1
    <3>1. {r \in Reqs : tpc[r] = "running"} \in SUBSET {n}
      BY DEF LoadInv, OneRunning
    <3>2. IsFiniteSet({n}) /\ Cardinality({n}) = 1
      BY FS_Singleton
    <3> QED
      BY <3>1, <3>2, FS_Subset
  <2>2. ASSUME hpc = "decode", ppc \notin PEnded
        PROVE  Cardinality({r \in 1 .. n : tpc[r] # "panicked" /\ ~Responded(r)})
                 <= PipelineDepth + 1
    <3> DEFINE U == {r \in 1 .. n : tpc[r] # "panicked" /\ ~Responded(r)}
               T == 0 .. Len(queue)
               At(r, j) == IF j = 0 THEN cur = Item(r, "response")
                                    ELSE queue[j] = Item(r, "response")
               f == [r \in U |-> CHOOSE j \in T : At(r, j)]
    <3>1. \A r \in U : \E j \in T : At(r, j)
      <4> SUFFICES ASSUME NEW r \in U PROVE \E j \in T : At(r, j)
        OBVIOUS
      <4>1. InHand(r)
        BY <2>2 DEF LoadInv, NoneLost, Decoding
      <4>2. CASE cur = Item(r, "response")
        BY <2>a, <4>2
      <4>3. CASE \E j \in 1 .. Len(queue) : queue[j] = Item(r, "response")
        BY <2>a, <4>3
      <4> QED
        BY <4>1, <4>2, <4>3 DEF InHand
    <3>2. \A r \in U : f[r] \in T /\ At(r, f[r])
      BY <3>1
    <3>3. \A r, q \in U : f[r] = f[q] => r = q
      <4> SUFFICES ASSUME NEW r \in U, NEW q \in U, f[r] = f[q] PROVE r = q
        OBVIOUS
      <4>1. PICK j \in T : f[r] = j /\ f[q] = j
        BY <3>2
      <4>2. At(r, j) /\ At(q, j)
        BY <3>2, <4>1
      <4>3. Item(r, "response") = Item(q, "response")
        BY <4>2
      <4> QED
        BY <4>3 DEF Item
    <3>4. f \in [U -> T]
      BY <3>2
    <3>10. f \in Injection(U, T)
      <4> HIDE DEF U, T, f
      <4> QED
        BY <3>3, <3>4 DEF Injection, IsInjective
    <3>5. IsFiniteSet(T) /\ Cardinality(T) = Len(queue) + 1
      BY <2>a, FS_Interval
    <3> HIDE DEF U, T, f
    <3>6. IsFiniteSet(U) /\ Cardinality(U) <= Cardinality(T)
      BY <3>10, <3>5, FS_Injection
    <3>7. Len(queue) <= PipelineDepth
      BY <2>2 DEF LoadInv, DepthKept
    <3>8. Cardinality(U) \in Nat
      BY <3>6, FS_CardinalityType
    <3>9. Cardinality(U) <= PipelineDepth + 1
      BY <2>a, <3>5, <3>6, <3>7, <3>8
    <3> QED
      BY <3>9 DEF U
  <2> QED
    BY <2>1, <2>2 DEF ConcurrencyBounded
<1> QED
    BY TypeInit, TypeStep, OrderInit, OrderStep, HandOverInit, HandOverStep,
       LoadInit, LoadStep, <1>1, PTL DEF Spec
=============================================================================
