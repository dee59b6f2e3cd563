---------------------------- MODULE Exchange_proofs ----------------------------
(***************************************************************************)
(* Proofs about Exchange, for every request, every depth of the channels   *)
(* and every window of the network.  A server of this repository is        *)
(* ServerConnection, whose invariants hold of every step of an exchange.   *)
(***************************************************************************)
EXTENDS Exchange, ServerConnection_proofs

(***************************************************************************)
(* What the client relies on in a server of this repository.               *)
(***************************************************************************)
Writing == {"close", "write", "body"}
Sending == {"sendContinue", "sendResponse", "sendEarly"}

(* A request that is not decoded has no handler.                           *)
Fresh == \A r \in Reqs : r > n => tpc[r] = "none"
(* 100 Continue only for a request that expects it, once its body has been *)
(* polled, and never closing.                                              *)
ContinueWanted ==
    /\ hpc = "sendContinue" => ExpectsContinue(n)
    /\ \A j \in 1 .. Len(queue) :
          queue[j].kind = "continue" => ExpectsContinue(queue[j].req)
    /\ ppc \in Working /\ cur.kind = "continue" =>
          /\ ExpectsContinue(cur.req)
          /\ ppc \in Writing => polled[cur.req]
    /\ \A i \in 1 .. Len(wire) :
          wire[i].kind = "continue" =>
              ExpectsContinue(wire[i].req) /\ polled[wire[i].req] /\ ~wire[i].close
(* A response is written when its handler has returned.                    *)
ResponseDone ==
    /\ ppc \in Writing /\ cur.kind = "response" => tpc[cur.req] = "done"
    /\ \A i \in 1 .. Len(wire) :
          wire[i].kind = "response" => tpc[wire[i].req] = "done"
ShutCloses ==
    ppc = "shut" => Len(wire) > 0 /\ wire[Len(wire)].close
(* A connection that the response keeps is handed over if the handler has  *)
(* asked for it.                                                           *)
UpgradeDecided ==
    \A r \in Reqs : close[r] = "false" =>
        /\ HandlerReturned(r)
        /\ WantsUpgrade(r) =>
              r = n /\ hpc \in {"handover", "upgraded", "abandoned", "failed"}
Answering(r) ==
    \/ \E j \in 1 .. Len(queue) :
          queue[j].req = r /\ queue[j].kind # "continue"
    \/ ppc \in {"response", "close", "write"} /\ cur.req = r /\ cur.kind # "continue"
(* Once H is beyond sending it, the answer to the request it decoded last  *)
(* is written, or in the channel, or with P, unless P has given up.        *)
AnswerOwed ==
    n > 0 /\ hpc \notin Sending =>
        ppc \in {"shut", "failed"} \/ tpc[n] = "panicked" \/ Responded(n) \/ Answering(n)
AnswerInv ==
    /\ Fresh /\ ContinueWanted /\ ResponseDone /\ ShutCloses
    /\ UpgradeDecided /\ AnswerOwed

(***************************************************************************)
(* The client and the exchange.                                            *)
(***************************************************************************)
Statuses == {"100", "101", "103", "final"}
CStates == {"start", "interim", "joinBody", "joinUpgrade", "body", "answer"} \cup CEnded
ExchangeTypes ==
    /\ peer \in {"ttpkit", "other"}
    /\ cpc \in CStates
    /\ dpc \in {"none", "reading", "failing", "joined", "lost"}
    /\ sent \in Nat /\ cread \in Nat /\ din \in Nat /\ out \in Nat
    /\ got \in Statuses \cup {"none"}
    /\ answers \in Seq(Statuses)
Early == {"start", "interim", "joinBody", "body", "answer"}
Gone == cpc \in CEnded \ {"upgraded"}

(* How far C is, and what it has read.                                     *)
Progress ==
    /\ cpc = "start" => sent = 0
    /\ cpc \notin {"start"} \cup CEnded => sent > 0
    /\ cpc \in {"interim", "joinBody"} => Request1.expect
    /\ sent <= Units + 1
    /\ cpc \in {"start", "interim"} => cread = 0
    /\ cpc \in {"body", "answer", "joinBody"} /\ Request1.expect => cread = 1
    /\ cpc \in {"body", "answer"} /\ ~Request1.expect => cread = 0
    /\ cpc = "joinBody" => got = "100"
    /\ cpc \in {"joinUpgrade", "upgraded"} => got = "101"
    /\ got # "none" => cread > 0
    /\ cpc = "upgraded" => dpc = "joined"
    /\ cpc \in {"joinBody", "joinUpgrade"} /\ dpc \in {"failing", "lost"} =>
          cut \/ expired
HeadersRead ==
    peer = "ttpkit" =>
        /\ cread <= Len(wire)
        /\ cread > 0 => got = StatusOf(wire[cread])
        /\ cpc \in Early => \A i \in 1 .. cread : wire[i].kind = "continue"
(* The body of a request with an expectation is written on demand.         *)
Invited ==
    Request1.expect /\ (cpc \in {"joinBody", "body", "answer"} \/ sent > 1) =>
        IF peer = "ttpkit" THEN polled[1]
        ELSE \E i \in DOMAIN answers : answers[i] = "100"
(* The server reads no more than the client has written.                   *)
ReadWritten == Units - rest[1] <= IF sent = 0 THEN 0 ELSE sent - 1
(* A server of this repository gives up without an answer only with a      *)
(* reason.                                                                 *)
Reasons ==
    peer = "ttpkit" =>
        /\ n = 0 /\ hpc # "decode" => cut \/ expired \/ Gone
        /\ hpc = "failed" => cut \/ ppc = "failed"
        /\ hpc = "abandoned" => ppc = "shut"
        /\ ppc = "failed" =>
              cut \/ Gone \/ (Responded(1) /\ Request1.plan # "upgrade")
Unanswered ==
    cpc = "failed" /\ peer = "ttpkit" /\ ~expired /\ ~cut =>
        tpc[1] = "panicked" \/ sent \in 1 .. Units
ClientInv ==
    /\ Progress /\ HeadersRead /\ Invited /\ ReadWritten /\ Reasons
    /\ Unanswered /\ FinalAnswer
-----------------------------------------------------------------------------
(* What every step of the server keeps: the requests, what has been polled *)
(* and how the handlers have returned.                                     *)
Lasting ==
    /\ script' = script
    /\ \A r \in Reqs : /\ polled[r] => polled'[r]
                       /\ HandlerReturned(r) => tpc'[r] = tpc[r]

LEMMA LastingStep == TypeInv /\ Fresh /\ [Next]_vars => Lasting
<1> SUFFICES ASSUME TypeInv, Fresh, [Next]_vars PROVE Lasting
    OBVIOUS
<1> USE DEF hvars, pvars, rvars, bvars
<1>s. ASSUME UNCHANGED <<script, polled, tpc>> PROVE Lasting
    BY <1>s DEF Lasting
<1>1. CASE HAccept
  <2>1. script' = script /\ polled' = polled /\ n + 1 > n
    BY <1>1 DEF HAccept, TypeInv, TypeOK
  <2>2. \A r \in Reqs : tpc'[r] = IF r = n + 1 THEN "running" ELSE tpc[r]
    BY <1>1 DEF HAccept, TypeInv, TypeOK
  <2> QED
    BY <2>1, <2>2 DEF Lasting, HandlerReturned, Fresh
<1>2. CASE HReject
    BY <1>2, <1>s DEF HReject, vars
<1>3. CASE HRejectLate
    BY <1>3, <1>s DEF HRejectLate, vars
<1>4. CASE HStop
    BY <1>4, <1>s DEF HStop, vars
<1>5. CASE HFail
    BY <1>5, <1>s DEF HFail, vars
<1>6. CASE HJoin
    BY <1>6, <1>s DEF HJoin, vars
<1>7. CASE HJoinLost
    BY <1>7, <1>s DEF HJoinLost, vars
<1>8. CASE HContinue
    BY <1>8, <1>s DEF HContinue, vars
<1>9. CASE HCloseVersion10
    BY <1>9, <1>s DEF HCloseVersion10, vars
<1>10. CASE HUpgrade
    BY <1>10, <1>s DEF HUpgrade, vars
<1>11. CASE HHandOver
    BY <1>11, <1>s DEF HHandOver, vars
<1>12. CASE HEarlySent
    BY <1>12, <1>s DEF HEarlySent, vars
<1>13. CASE HClose
    BY <1>13, <1>s DEF HClose, vars
<1>14. CASE HSendContinue
    BY <1>14, <1>s DEF HSendContinue, vars
<1>15. CASE HSendResponse
    BY <1>15, <1>s DEF HSendResponse, vars
<1>16. CASE HSendEarly
    BY <1>16, <1>s DEF HSendEarly, vars
<1>17. CASE PTake
    BY <1>17, <1>s DEF PTake, vars
<1>18. CASE PReturn
    BY <1>18, <1>s DEF PReturn, vars
<1>19. CASE PResponse
    BY <1>19, <1>s DEF PResponse, vars
<1>20. CASE PSkip
    BY <1>20, <1>s DEF PSkip, vars
<1>21. CASE PCloseKnown
    BY <1>21, <1>s DEF PCloseKnown, vars
<1>22. CASE PHeader
    BY <1>22, <1>s DEF PHeader, vars
<1>23. CASE PFinish
    BY <1>23, <1>s DEF PFinish, vars
<1>24. CASE PBodyError
    BY <1>24, <1>s DEF PBodyError, vars
<1>25. CASE PWriteError
    BY <1>25, <1>s DEF PWriteError, vars
<1>26. CASE Terminated
    BY <1>26, <1>s DEF Terminated, vars
<1>27. CASE UNCHANGED vars
    BY <1>27, <1>s DEF vars
<1>28. ASSUME NEW r \in Reqs, RNext(r) PROVE Lasting
  <2>1. script' = script /\ tpc' = tpc /\ polled' = polled
    BY <1>28 DEF RNext, RChunk, RTrailer, RError, RLost, RStop
  <2> QED
    BY <2>1, <1>s
<1>29. ASSUME NEW r \in Reqs, TNext(r) PROVE Lasting
  <2>1. script' = script /\ (polled' = polled \/ polled' = [polled EXCEPT ![r] = TRUE])
    BY <1>29 DEF TNext, TRead, TDrop, TReturn, PollBody
  <2>2. \A q \in Reqs : tpc[q] # "running" => tpc'[q] = tpc[q]
    BY <1>29, HandlerFrame DEF TypeInv, TypeOK
  <2> QED
    BY <2>1, <2>2 DEF Lasting, HandlerReturned, TypeInv, TypeOK
<1>30. CASE PEcho
  <2>1. script' = script /\ tpc' = tpc /\ polled' = [polled EXCEPT ![cur.req] = TRUE]
    BY <1>30 DEF PEcho, PollBody
  <2> QED
    BY <2>1 DEF Lasting, TypeInv, TypeOK
<1> QED
    BY <1>1, <1>2, <1>3, <1>4, <1>5, <1>6, <1>7, <1>8, <1>9, <1>10, <1>11,
       <1>12, <1>13, <1>14, <1>15, <1>16, <1>17, <1>18, <1>19, <1>20,
       <1>21, <1>22, <1>23, <1>24, <1>25, <1>26, <1>27, <1>28, <1>29,
       <1>30
    DEF Next, HNext, HDecode, PNext

LEMMA AnswerInit == Init => AnswerInv
BY DEF Init, AnswerInv, Fresh, ContinueWanted, ResponseDone, ShutCloses,
    UpgradeDecided, AnswerOwed, Working, Writing

(* Where the requests of what is queued, held and written come from.       *)
LEMMA ReqTypes ==
    ASSUME TypeInv
    PROVE  /\ \A j \in 1 .. Len(queue) : queue[j].req \in Reqs
           /\ \A i \in 1 .. Len(wire) : wire[i].req \in Reqs
           /\ ppc \in Working => cur.req \in Reqs
           /\ n > 0 => n \in Reqs
           /\ n \in Nat /\ Len(queue) \in Nat /\ Len(wire) \in Nat
<1>1. /\ \A j \in 1 .. Len(queue) : queue[j] \in Items
      /\ \A i \in 1 .. Len(wire) : wire[i] \in Written
      /\ ppc \in Working => cur \in Items
    BY ElementOfSeq DEF TypeInv, TypeOK, Holding, Working
<1>2. /\ \A m \in Items : m.req \in Reqs
      /\ \A m \in Written : m.req \in Reqs
    BY DEF Items, Written
<1>3. (n > 0 => n \in Reqs) /\ n \in Nat
    BY MaxRequestsAssumption DEF TypeInv, TypeOK, Reqs
<1>4. Len(queue) \in Nat /\ Len(wire) \in Nat
    BY DEF TypeInv, TypeOK
<1> QED
    BY <1>1, <1>2, <1>3, <1>4

(* Steps that leave the channel and P alone.                               *)
LEMMA AnswerFrame ==
    ASSUME TypeInv, AnswerInv, Lasting, Fresh', UpgradeDecided',
           UNCHANGED <<queue, ppc, cur, wire>>,
           hpc' = "sendContinue" => ExpectsContinue(n'),
           n' > 0 /\ hpc' \notin Sending => n' = n /\ hpc \notin Sending
    PROVE  AnswerInv'
<1>1. \A r : ExpectsContinue(r) = ExpectsContinue(r)'
    BY DEF ExpectsContinue, Lasting
<1>2. ContinueWanted'
    BY <1>1, ReqTypes DEF AnswerInv, ContinueWanted, Lasting, Working, Writing, ExpectsContinue
<1>3. ResponseDone' /\ ShutCloses'
    BY ReqTypes DEF AnswerInv, ResponseDone, ShutCloses, Lasting, HandlerReturned, Working,
                    Writing
<1>4. AnswerOwed'
    BY ReqTypes DEF AnswerInv, AnswerOwed, Responded, Answering, Lasting, HandlerReturned
<1> QED
    BY <1>2, <1>3, <1>4 DEF AnswerInv

(* Steps of P: H and the handlers stand still.                             *)
LEMMA AnswerMove ==
    ASSUME TypeInv, AnswerInv, UNCHANGED <<script, n, hpc, tpc, close>>,
           ContinueWanted', ResponseDone', ShutCloses',
           \/ ppc' \in {"shut", "failed"}
           \/ /\ ppc \notin {"shut", "failed"}
              /\ n > 0 /\ (Responded(n) \/ Answering(n)) =>
                   \/ Responded(n)' \/ Answering(n)' \/ tpc[n] = "panicked"
    PROVE  AnswerInv'
<1>1. Fresh' /\ UpgradeDecided'
    BY DEF AnswerInv, Fresh, UpgradeDecided, HandlerReturned, WantsUpgrade
<1>2. AnswerOwed'
    BY DEF AnswerInv, AnswerOwed, Responded, Answering
<1> QED
    BY <1>1, <1>2 DEF AnswerInv

(* H puts an element into the channel, or finds P gone.                    *)
LEMMA AnswerSend ==
    ASSUME TypeInv, HandOverInv, AnswerInv,
           UNCHANGED <<script, n, ppc, cur, wire, tpc, polled, close>>,
           hpc \in Sending, NEW kind \in {"continue", "response", "early"},
           NEW next, HSend(Item(n, kind), next),
           hpc = "sendContinue" <=> kind = "continue",
           next \in {"sendResponse", "join", "earlySent"},
           next = "sendResponse" <=> kind = "continue"
    PROVE  AnswerInv'
<1>1. n \in Reqs /\ Item(n, kind) \in Items
    BY MaxRequestsAssumption DEF Sending, TypeInv, TypeOK, Holding, Reqs, Item, Items
<1>2. Fresh' /\ ResponseDone' /\ ShutCloses'
    BY DEF AnswerInv, Fresh, ResponseDone, ShutCloses, Writing
<1>3. UpgradeDecided'
    BY DEF AnswerInv, UpgradeDecided, HandlerReturned, WantsUpgrade, Sending
<1>4. CASE ppc \in PEnded
  <2>1. hpc' = "closing" /\ queue' = queue
    BY <1>4 DEF HSend
  <2>2. ppc # "writer"
    BY DEF HandOverInv, ChannelClosed, Closing, HEnded, Sending
  <2>3. ContinueWanted'
    BY <2>1 DEF AnswerInv, ContinueWanted, ExpectsContinue, Working, Writing
  <2>4. AnswerOwed'
    BY <1>4, <2>2 DEF AnswerOwed, PEnded
  <2> QED
    BY <1>2, <1>3, <2>3, <2>4 DEF AnswerInv
<1>5. CASE ppc \notin PEnded
  <2>1. hpc' = next /\ queue' = Append(queue, Item(n, kind)) /\ queue \in Seq(Items)
    BY <1>5 DEF HSend, TypeInv, TypeOK
  <2>2. /\ Len(queue) \in Nat /\ Len(queue') = Len(queue) + 1
        /\ \A j \in 1 .. Len(queue) : queue'[j] = queue[j]
        /\ queue'[Len(queue) + 1].req = n /\ queue'[Len(queue) + 1].kind = kind
    BY <1>1, <2>1, AppendProperties DEF Item
  <2>3. kind = "continue" => ExpectsContinue(n)
    BY DEF AnswerInv, ContinueWanted
  <2>4. \A j \in 1 .. Len(queue') :
           queue'[j].kind = "continue" => ExpectsContinue(queue'[j].req)
    BY <2>2, <2>3 DEF AnswerInv, ContinueWanted
  <2>5. ContinueWanted'
    BY <2>1, <2>4 DEF AnswerInv, ContinueWanted, ExpectsContinue, Working, Writing
  <2>6. kind # "continue" => Answering(n)'
    BY <2>2 DEF Answering
  <2>7. AnswerOwed'
    BY <2>1, <2>6 DEF AnswerOwed, Sending
  <2> QED
    BY <1>2, <1>3, <2>5, <2>7 DEF AnswerInv
<1> QED
    BY <1>4, <1>5

LEMMA AnswerStep ==
    TypeInv /\ BoundaryInv /\ HandOverInv /\ AnswerInv /\ [Next]_vars => AnswerInv'
<1> USE MaxRequestsAssumption
<1> SUFFICES ASSUME TypeInv, BoundaryInv, HandOverInv, AnswerInv, [Next]_vars
             PROVE  AnswerInv'
    OBVIOUS
<1> USE DEF hvars, pvars, rvars, bvars
<1>a. Lasting
    BY LastingStep DEF AnswerInv
<1>b. n \in Nat /\ n \in 0 .. MaxRequests /\ (n > 0 => n \in Reqs)
    BY ReqTypes DEF TypeInv, TypeOK
<1>c. /\ Len(queue) \in Nat /\ Len(wire) \in Nat
      /\ ppc \in Working => cur \in Items
    BY ReqTypes DEF TypeInv, TypeOK, Holding, Working
<1>1. CASE HAccept
  <2>1. /\ UNCHANGED <<script, queue, ppc, cur, wire, close>> /\ hpc = "decode"
        /\ n' = n + 1 /\ hpc' \in Sending
        /\ hpc' = "sendContinue" => ExpectsContinue(n + 1)
        /\ \A r \in Reqs : tpc'[r] = tpc[r] \/ (r = n + 1 /\ tpc'[r] = "running")
    BY <1>1 DEF HAccept, Sending, TypeInv, TypeOK
  <2>2. Fresh'
    BY <1>b, <2>1 DEF AnswerInv, Fresh, Reqs
  <2>3. UpgradeDecided'
    <3> SUFFICES ASSUME NEW r \in Reqs, close[r] = "false"
                 PROVE  HandlerReturned(r)' /\ ~WantsUpgrade(r)'
      BY <2>1 DEF UpgradeDecided
    <3>1. HandlerReturned(r) /\ ~WantsUpgrade(r)
      BY <2>1 DEF AnswerInv, UpgradeDecided
    <3>2. tpc'[r] = tpc[r]
      BY <1>a, <3>1 DEF Lasting
    <3> QED
      BY <2>1, <3>1, <3>2 DEF HandlerReturned, WantsUpgrade
  <2>4. /\ hpc' = "sendContinue" => ExpectsContinue(n')
        /\ n' > 0 /\ hpc' \notin Sending => n' = n /\ hpc \notin Sending
    BY <2>1
  <2> QED
    BY <1>a, <2>1, <2>2, <2>3, <2>4, AnswerFrame
<1>2. CASE HReject
  <2>1. /\ UNCHANGED <<script, queue, ppc, cur, wire, close>> /\ hpc = "decode"
        /\ n' = n + 1 /\ hpc' \in Sending
        /\ hpc' = "sendContinue" => ExpectsContinue(n + 1)
        /\ \A r \in Reqs : tpc'[r] = tpc[r] \/ (r = n + 1 /\ tpc'[r] = "running")
    BY <1>2 DEF HReject, Sending, TypeInv, TypeOK
  <2>2. Fresh'
    BY <1>b, <2>1 DEF AnswerInv, Fresh, Reqs
  <2>3. UpgradeDecided'
    <3> SUFFICES ASSUME NEW r \in Reqs, close[r] = "false"
                 PROVE  HandlerReturned(r)' /\ ~WantsUpgrade(r)'
      BY <2>1 DEF UpgradeDecided
    <3>1. HandlerReturned(r) /\ ~WantsUpgrade(r)
      BY <2>1 DEF AnswerInv, UpgradeDecided
    <3>2. tpc'[r] = tpc[r]
      BY <1>a, <3>1 DEF Lasting
    <3> QED
      BY <2>1, <3>1, <3>2 DEF HandlerReturned, WantsUpgrade
  <2>4. /\ hpc' = "sendContinue" => ExpectsContinue(n')
        /\ n' > 0 /\ hpc' \notin Sending => n' = n /\ hpc \notin Sending
    BY <2>1
  <2> QED
    BY <1>a, <2>1, <2>2, <2>3, <2>4, AnswerFrame
<1>3. CASE HRejectLate
  <2>1. /\ UNCHANGED <<script, queue, ppc, cur, wire, close>> /\ hpc = "decode"
        /\ n' = n + 1 /\ hpc' \in Sending
        /\ hpc' = "sendContinue" => ExpectsContinue(n + 1)
        /\ \A r \in Reqs : tpc'[r] = tpc[r] \/ (r = n + 1 /\ tpc'[r] = "running")
    BY <1>3 DEF HRejectLate, Sending, TypeInv, TypeOK
  <2>2. Fresh'
    BY <1>b, <2>1 DEF AnswerInv, Fresh, Reqs
  <2>3. UpgradeDecided'
    <3> SUFFICES ASSUME NEW r \in Reqs, close[r] = "false"
                 PROVE  HandlerReturned(r)' /\ ~WantsUpgrade(r)'
      BY <2>1 DEF UpgradeDecided
    <3>1. HandlerReturned(r) /\ ~WantsUpgrade(r)
      BY <2>1 DEF AnswerInv, UpgradeDecided
    <3>2. tpc'[r] = tpc[r]
      BY <1>a, <3>1 DEF Lasting
    <3> QED
      BY <2>1, <3>1, <3>2 DEF HandlerReturned, WantsUpgrade
  <2>4. /\ hpc' = "sendContinue" => ExpectsContinue(n')
        /\ n' > 0 /\ hpc' \notin Sending => n' = n /\ hpc \notin Sending
    BY <2>1
  <2> QED
    BY <1>a, <2>1, <2>2, <2>3, <2>4, AnswerFrame
<1>4. CASE HStop
  <2>1. /\ UNCHANGED <<script, n, queue, ppc, cur, wire, tpc>>
        /\ hpc \notin Sending /\ hpc' # "sendContinue"
    BY <1>4 DEF HStop, PEnded, Sending
  <2>2. Fresh'
    BY <2>1 DEF AnswerInv, Fresh
  <2>3. UpgradeDecided'
    BY <1>4, <1>b, <2>1
    DEF HStop, AnswerInv, UpgradeDecided, HandlerReturned, WantsUpgrade, PEnded,
        TypeInv, TypeOK, Holding, Reqs
  <2>4. /\ hpc' = "sendContinue" => ExpectsContinue(n')
        /\ n' > 0 /\ hpc' \notin Sending => n' = n /\ hpc \notin Sending
    BY <2>1
  <2> QED
    BY <1>a, <2>1, <2>2, <2>3, <2>4, AnswerFrame
<1>5. CASE HFail
  <2>1. /\ UNCHANGED <<script, n, queue, ppc, cur, wire, tpc>>
        /\ hpc \notin Sending /\ hpc' # "sendContinue"
    BY <1>5 DEF HFail, PEnded, Sending
  <2>2. Fresh'
    BY <2>1 DEF AnswerInv, Fresh
  <2>3. UpgradeDecided'
    BY <1>5, <1>b, <2>1
    DEF HFail, AnswerInv, UpgradeDecided, HandlerReturned, WantsUpgrade, PEnded,
        TypeInv, TypeOK, Holding, Reqs
  <2>4. /\ hpc' = "sendContinue" => ExpectsContinue(n')
        /\ n' > 0 /\ hpc' \notin Sending => n' = n /\ hpc \notin Sending
    BY <2>1
  <2> QED
    BY <1>a, <2>1, <2>2, <2>3, <2>4, AnswerFrame
<1>6. CASE HJoin
  <2>1. /\ UNCHANGED <<script, n, queue, ppc, cur, wire, tpc>>
        /\ hpc \notin Sending /\ hpc' # "sendContinue"
    BY <1>6 DEF HJoin, PEnded, Sending
  <2>2. Fresh'
    BY <2>1 DEF AnswerInv, Fresh
  <2>3. UpgradeDecided'
    BY <1>6, <1>b, <2>1
    DEF HJoin, AnswerInv, UpgradeDecided, HandlerReturned, WantsUpgrade, PEnded,
        TypeInv, TypeOK, Holding, Reqs
  <2>4. /\ hpc' = "sendContinue" => ExpectsContinue(n')
        /\ n' > 0 /\ hpc' \notin Sending => n' = n /\ hpc \notin Sending
    BY <2>1
  <2> QED
    BY <1>a, <2>1, <2>2, <2>3, <2>4, AnswerFrame
<1>7. CASE HJoinLost
  <2>1. /\ UNCHANGED <<script, n, queue, ppc, cur, wire, tpc>>
        /\ hpc \notin Sending /\ hpc' # "sendContinue"
    BY <1>7 DEF HJoinLost, PEnded, Sending
  <2>2. Fresh'
    BY <2>1 DEF AnswerInv, Fresh
  <2>3. UpgradeDecided'
    BY <1>7, <1>b, <2>1
    DEF HJoinLost, AnswerInv, UpgradeDecided, HandlerReturned, WantsUpgrade, PEnded,
        TypeInv, TypeOK, Holding, Reqs
  <2>4. /\ hpc' = "sendContinue" => ExpectsContinue(n')
        /\ n' > 0 /\ hpc' \notin Sending => n' = n /\ hpc \notin Sending
    BY <2>1
  <2> QED
    BY <1>a, <2>1, <2>2, <2>3, <2>4, AnswerFrame
<1>8. CASE HContinue
  <2>1. /\ UNCHANGED <<script, n, queue, ppc, cur, wire, tpc>>
        /\ hpc \notin Sending /\ hpc' # "sendContinue"
    BY <1>8 DEF HContinue, PEnded, Sending
  <2>2. Fresh'
    BY <2>1 DEF AnswerInv, Fresh
  <2>3. UpgradeDecided'
    BY <1>8, <1>b, <2>1
    DEF HContinue, AnswerInv, UpgradeDecided, HandlerReturned, WantsUpgrade, PEnded,
        TypeInv, TypeOK, Holding, Reqs
  <2>4. /\ hpc' = "sendContinue" => ExpectsContinue(n')
        /\ n' > 0 /\ hpc' \notin Sending => n' = n /\ hpc \notin Sending
    BY <2>1
  <2> QED
    BY <1>a, <2>1, <2>2, <2>3, <2>4, AnswerFrame
<1>9. CASE HCloseVersion10
  <2>1. /\ UNCHANGED <<script, n, queue, ppc, cur, wire, tpc>>
        /\ hpc \notin Sending /\ hpc' # "sendContinue"
    BY <1>9 DEF HCloseVersion10, PEnded, Sending
  <2>2. Fresh'
    BY <2>1 DEF AnswerInv, Fresh
  <2>3. UpgradeDecided'
    BY <1>9, <1>b, <2>1
    DEF HCloseVersion10, AnswerInv, UpgradeDecided, HandlerReturned, WantsUpgrade, PEnded,
        TypeInv, TypeOK, Holding, Reqs
  <2>4. /\ hpc' = "sendContinue" => ExpectsContinue(n')
        /\ n' > 0 /\ hpc' \notin Sending => n' = n /\ hpc \notin Sending
    BY <2>1
  <2> QED
    BY <1>a, <2>1, <2>2, <2>3, <2>4, AnswerFrame
<1>10. CASE HUpgrade
  <2>1. /\ UNCHANGED <<script, n, queue, ppc, cur, wire, tpc>>
        /\ hpc \notin Sending /\ hpc' # "sendContinue"
    BY <1>10 DEF HUpgrade, PEnded, Sending
  <2>2. Fresh'
    BY <2>1 DEF AnswerInv, Fresh
  <2>3. UpgradeDecided'
    BY <1>10, <1>b, <2>1
    DEF HUpgrade, AnswerInv, UpgradeDecided, HandlerReturned, WantsUpgrade, PEnded,
        TypeInv, TypeOK, Holding, Reqs
  <2>4. /\ hpc' = "sendContinue" => ExpectsContinue(n')
        /\ n' > 0 /\ hpc' \notin Sending => n' = n /\ hpc \notin Sending
    BY <2>1
  <2> QED
    BY <1>a, <2>1, <2>2, <2>3, <2>4, AnswerFrame
<1>11. CASE HHandOver
  <2>1. /\ UNCHANGED <<script, n, queue, ppc, cur, wire, tpc>>
        /\ hpc \notin Sending /\ hpc' # "sendContinue"
    BY <1>11 DEF HHandOver, PEnded, Sending
  <2>2. Fresh'
    BY <2>1 DEF AnswerInv, Fresh
  <2>3. UpgradeDecided'
    BY <1>11, <1>b, <2>1
    DEF HHandOver, AnswerInv, UpgradeDecided, HandlerReturned, WantsUpgrade, PEnded,
        TypeInv, TypeOK, Holding, Reqs
  <2>4. /\ hpc' = "sendContinue" => ExpectsContinue(n')
        /\ n' > 0 /\ hpc' \notin Sending => n' = n /\ hpc \notin Sending
    BY <2>1
  <2> QED
    BY <1>a, <2>1, <2>2, <2>3, <2>4, AnswerFrame
<1>12. CASE HEarlySent
  <2>1. /\ UNCHANGED <<script, n, queue, ppc, cur, wire, tpc>>
        /\ hpc \notin Sending /\ hpc' # "sendContinue"
    BY <1>12 DEF HEarlySent, PEnded, Sending
  <2>2. Fresh'
    BY <2>1 DEF AnswerInv, Fresh
  <2>3. UpgradeDecided'
    BY <1>12, <1>b, <2>1
    DEF HEarlySent, AnswerInv, UpgradeDecided, HandlerReturned, WantsUpgrade, PEnded,
        TypeInv, TypeOK, Holding, Reqs
  <2>4. /\ hpc' = "sendContinue" => ExpectsContinue(n')
        /\ n' > 0 /\ hpc' \notin Sending => n' = n /\ hpc \notin Sending
    BY <2>1
  <2> QED
    BY <1>a, <2>1, <2>2, <2>3, <2>4, AnswerFrame
<1>13. CASE HClose
  <2>1. /\ UNCHANGED <<script, n, queue, ppc, cur, wire, tpc>>
        /\ hpc \notin Sending /\ hpc' # "sendContinue"
    BY <1>13 DEF HClose, PEnded, Sending
  <2>2. Fresh'
    BY <2>1 DEF AnswerInv, Fresh
  <2>3. UpgradeDecided'
    BY <1>13, <1>b, <2>1
    DEF HClose, AnswerInv, UpgradeDecided, HandlerReturned, WantsUpgrade, PEnded,
        TypeInv, TypeOK, Holding, Reqs
  <2>4. /\ hpc' = "sendContinue" => ExpectsContinue(n')
        /\ n' > 0 /\ hpc' \notin Sending => n' = n /\ hpc \notin Sending
    BY <2>1
  <2> QED
    BY <1>a, <2>1, <2>2, <2>3, <2>4, AnswerFrame
<1>14. CASE HSendContinue
  <2>1. /\ UNCHANGED <<script, n, ppc, cur, wire, tpc, polled, close>>
        /\ hpc = "sendContinue" /\ hpc \in Sending
        /\ HSend(Item(n, "continue"), "sendResponse")
    BY <1>14 DEF HSendContinue, Sending
  <2> QED
    BY <2>1, AnswerSend
<1>15. CASE HSendResponse
  <2>1. /\ UNCHANGED <<script, n, ppc, cur, wire, tpc, polled, close>>
        /\ hpc = "sendResponse" /\ hpc \in Sending
        /\ HSend(Item(n, "response"), "join")
    BY <1>15 DEF HSendResponse, Sending
  <2> QED
    BY <2>1, AnswerSend
<1>16. CASE HSendEarly
  <2>1. /\ UNCHANGED <<script, n, ppc, cur, wire, tpc, polled, close>>
        /\ hpc = "sendEarly" /\ hpc \in Sending
        /\ HSend(Item(n, "early"), "earlySent")
    BY <1>16 DEF HSendEarly, Sending
  <2> QED
    BY <2>1, AnswerSend
<1>17. ASSUME NEW r \in Reqs, RNext(r) PROVE AnswerInv'
  <2>1. UNCHANGED <<script, n, hpc, queue, ppc, cur, wire, tpc, close>>
    BY <1>17, ReaderFrame
  <2>2. Fresh' /\ UpgradeDecided'
    BY <2>1 DEF AnswerInv, Fresh, UpgradeDecided, HandlerReturned, WantsUpgrade
  <2>3. hpc' = "sendContinue" => ExpectsContinue(n')
    BY <2>1 DEF AnswerInv, ContinueWanted
  <2> QED
    BY <1>a, <2>1, <2>2, <2>3, AnswerFrame
<1>18. ASSUME NEW r \in Reqs, TNext(r) PROVE AnswerInv'
  <2>1. UNCHANGED <<script, n, hpc, queue, ppc, cur, wire, close>>
    BY <1>18, HandlerFrame
  <2>2. \A q \in Reqs : tpc[q] # "running" => tpc'[q] = tpc[q]
    BY <1>18, HandlerFrame DEF TypeInv, TypeOK
  <2>3. Fresh' /\ UpgradeDecided'
    BY <2>1, <2>2 DEF AnswerInv, Fresh, UpgradeDecided, HandlerReturned, WantsUpgrade
  <2>4. hpc' = "sendContinue" => ExpectsContinue(n')
    BY <2>1 DEF AnswerInv, ContinueWanted
  <2> QED
    BY <1>a, <2>1, <2>3, <2>4, AnswerFrame
<1>19. CASE PEcho \/ UNCHANGED vars \/ Terminated
  <2>1. UNCHANGED <<script, n, hpc, queue, ppc, cur, wire, tpc, close>>
    BY <1>19 DEF PEcho, Terminated, vars
  <2>2. Fresh' /\ UpgradeDecided'
    BY <2>1 DEF AnswerInv, Fresh, UpgradeDecided, HandlerReturned, WantsUpgrade
  <2>3. hpc' = "sendContinue" => ExpectsContinue(n')
    BY <2>1 DEF AnswerInv, ContinueWanted
  <2> QED
    BY <1>a, <2>1, <2>2, <2>3, AnswerFrame
<1>20. CASE PTake
  <2>1. /\ UNCHANGED <<script, n, hpc, wire, tpc, polled, close>>
        /\ ppc = "next" /\ ppc' = "response"
        /\ Len(queue) > 0 /\ cur' = queue[1]
        /\ Len(queue') = Len(queue) - 1
        /\ \A j \in 1 .. Len(queue') : queue'[j] = queue[j + 1]
    BY <1>20, HeadTailProperties, EmptySeq DEF PTake, TypeInv, TypeOK
  <2>2. \A j \in 1 .. Len(queue') : j + 1 \in 1 .. Len(queue)
    BY <1>c, <2>1
  <2>3. 1 \in 1 .. Len(queue)
    BY <1>c, <2>1
  <2>4. ContinueWanted' /\ ResponseDone' /\ ShutCloses'
    BY <2>1, <2>2, <2>3
    DEF AnswerInv, ContinueWanted, ResponseDone, ShutCloses,
        ExpectsContinue, Working, Writing
  <2>5. Answering(n) => Answering(n)'
    <3> SUFFICES ASSUME Answering(n) PROVE Answering(n)'
      OBVIOUS
    <3>1. PICK j \in 1 .. Len(queue) : queue[j].req = n /\ queue[j].kind # "continue"
      BY <2>1 DEF Answering
    <3>2. CASE j = 1
      BY <2>1, <3>1, <3>2 DEF Answering
    <3>3. CASE j > 1
      <4>1. j - 1 \in 1 .. Len(queue') /\ queue'[j - 1] = queue[j]
        BY <1>c, <2>1, <3>3
      <4> QED
        BY <2>1, <3>1, <4>1 DEF Answering
    <3> QED
      BY <1>c, <3>2, <3>3
  <2>6. Responded(n) => Responded(n)'
    BY <2>1 DEF Responded
  <2> QED
    BY <2>1, <2>4, <2>5, <2>6, AnswerMove
<1>21. CASE PReturn
  <2>1. /\ UNCHANGED <<script, n, hpc, queue, cur, wire, tpc, polled, close>>
        /\ ppc = "next" /\ ppc' = "writer"
    BY <1>21 DEF PReturn
  <2>2. ContinueWanted' /\ ResponseDone' /\ ShutCloses'
    BY <2>1
    DEF AnswerInv, ContinueWanted, ResponseDone, ShutCloses,
        ExpectsContinue, Working, Writing
  <2>3. (Answering(n) => Answering(n)') /\ (Responded(n) => Responded(n)')
    BY <2>1 DEF Answering, Responded
  <2> QED
    BY <2>1, <2>2, <2>3, AnswerMove
<1>22. CASE PResponse
  <2>1. /\ UNCHANGED <<script, n, hpc, queue, cur, wire, tpc, polled, close>>
        /\ ppc \in {"response", "close"} /\ ppc' \in {"close", "write"}
        /\ ppc = "response" /\ cur.kind = "continue" => polled[cur.req]
        /\ ppc = "response" /\ cur.kind = "response" => tpc[cur.req] = "done"
    BY <1>22 DEF PResponse
  <2>2. ContinueWanted' /\ ResponseDone' /\ ShutCloses'
    BY <2>1
    DEF AnswerInv, ContinueWanted, ResponseDone, ShutCloses,
        ExpectsContinue, Working, Writing
  <2>3. (Answering(n) => Answering(n)') /\ (Responded(n) => Responded(n)')
    BY <2>1 DEF Answering, Responded
  <2> QED
    BY <2>1, <2>2, <2>3, AnswerMove
<1>23. CASE PCloseKnown
  <2>1. /\ UNCHANGED <<script, n, hpc, queue, cur, wire, tpc, polled, close>>
        /\ ppc \in {"response", "close"} /\ ppc' \in {"close", "write"}
        /\ ppc = "response" /\ cur.kind = "continue" => polled[cur.req]
        /\ ppc = "response" /\ cur.kind = "response" => tpc[cur.req] = "done"
    BY <1>23 DEF PCloseKnown
  <2>2. ContinueWanted' /\ ResponseDone' /\ ShutCloses'
    BY <2>1
    DEF AnswerInv, ContinueWanted, ResponseDone, ShutCloses,
        ExpectsContinue, Working, Writing
  <2>3. (Answering(n) => Answering(n)') /\ (Responded(n) => Responded(n)')
    BY <2>1 DEF Answering, Responded
  <2> QED
    BY <2>1, <2>2, <2>3, AnswerMove
<1>24. CASE PSkip
  <2>1. /\ UNCHANGED <<script, n, hpc, queue, wire, tpc, polled, close>>
        /\ ppc = "response" /\ ppc' = "next"
        /\ cur.kind # "continue" => tpc[cur.req] = "panicked"
    BY <1>24 DEF PSkip
  <2>2. ContinueWanted' /\ ResponseDone' /\ ShutCloses'
    BY <2>1
    DEF AnswerInv, ContinueWanted, ResponseDone, ShutCloses,
        ExpectsContinue, Working, Writing
  <2>3. /\ Answering(n) => Answering(n)' \/ tpc[n] = "panicked"
        /\ Responded(n) => Responded(n)'
    BY <2>1 DEF Answering, Responded
  <2> QED
    BY <2>1, <2>2, <2>3, AnswerMove
<1>25. CASE PHeader
  <2> DEFINE m == [req |-> cur.req, kind |-> cur.kind,
                  framing |-> Framing(cur), close |-> CloseAfter(cur)]
  <2>1. /\ UNCHANGED <<script, n, hpc, queue, cur, tpc, polled, close>>
        /\ ppc = "write" /\ ppc' = "body" /\ wire' = Append(wire, m)
    BY <1>25 DEF PHeader
  <2>2. /\ m.req = cur.req /\ m.kind = cur.kind
        /\ m.kind = "continue" => ~m.close
    <3>1. ASSUME cur.kind = "continue" PROVE ~CloseAfter(cur)
      <4>1. ResponseOf(cur) = "sized"
        BY <3>1 DEF ResponseOf
      <4>2. ~CloseAsked(cur) /\ Framing(cur) = "length"
        BY <3>1, <4>1 DEF CloseAsked, Framing
      <4> QED
        BY <4>2 DEF CloseAfter
    <3> QED
      BY <3>1
  <2> HIDE DEF m
  <2>3. /\ Len(wire') = Len(wire) + 1 /\ wire'[Len(wire) + 1] = m
        /\ \A i \in 1 .. Len(wire) : wire'[i] = wire[i]
    BY <2>1 DEF TypeInv, TypeOK
  <2>4. \A i \in 1 .. Len(wire') :
           /\ wire'[i].kind = "continue" =>
                 ExpectsContinue(wire'[i].req) /\ polled[wire'[i].req] /\ ~wire'[i].close
           /\ wire'[i].kind = "response" => tpc[wire'[i].req] = "done"
    <3> SUFFICES ASSUME NEW i \in 1 .. Len(wire')
                 PROVE  /\ wire'[i].kind = "continue" =>
                             /\ ExpectsContinue(wire'[i].req) /\ polled[wire'[i].req]
                             /\ ~wire'[i].close
                        /\ wire'[i].kind = "response" => tpc[wire'[i].req] = "done"
      OBVIOUS
    <3>1. CASE i \in 1 .. Len(wire)
      BY <2>3, <3>1 DEF AnswerInv, ContinueWanted, ResponseDone
    <3>2. CASE i = Len(wire) + 1
      BY <2>1, <2>2, <2>3, <3>2 DEF AnswerInv, ContinueWanted, ResponseDone, Working, Writing
    <3> QED
      BY <1>c, <2>3, <3>1, <3>2
  <2>5. ContinueWanted' /\ ResponseDone' /\ ShutCloses'
    BY <2>1, <2>4
    DEF AnswerInv, ContinueWanted, ResponseDone, ShutCloses,
        ExpectsContinue, Working, Writing
  <2>6. Responded(n) => Responded(n)'
    BY <1>c, <2>1, <2>3 DEF Responded
  <2>7. Answering(n) => Answering(n)' \/ Responded(n)'
    <3>1. CASE cur.req = n /\ cur.kind # "continue"
      BY <1>c, <2>1, <2>2, <2>3, <3>1 DEF Responded
    <3>2. CASE ~(cur.req = n /\ cur.kind # "continue")
      BY <2>1, <3>2 DEF Answering
    <3> QED
      BY <3>1, <3>2
  <2> QED
    BY <2>1, <2>5, <2>6, <2>7, AnswerMove
<1>26. CASE PFinish
  <2>1. CASE wire[Len(wire)].close
    <3>1. /\ UNCHANGED <<script, n, hpc, wire, tpc, polled, close>>
          /\ ppc = "body" /\ ppc' = "shut" /\ Len(queue') = 0
      BY <1>26, <2>1 DEF PFinish, PEnd
    <3>2. ContinueWanted' /\ ResponseDone' /\ ShutCloses'
      BY <2>1, <3>1
      DEF AnswerInv, ContinueWanted, ResponseDone, ShutCloses,
        ExpectsContinue, Working, Writing,
          HandOverInv, Headed
    <3> QED
      BY <3>1, <3>2, AnswerMove
  <2>2. CASE ~wire[Len(wire)].close
    <3>1. /\ UNCHANGED <<script, n, hpc, queue, wire, tpc, polled, close>>
          /\ ppc = "body" /\ ppc' = "next"
      BY <1>26, <2>2 DEF PFinish
    <3>2. ContinueWanted' /\ ResponseDone' /\ ShutCloses'
      BY <3>1
      DEF AnswerInv, ContinueWanted, ResponseDone, ShutCloses,
        ExpectsContinue, Working, Writing
    <3>3. (Answering(n) => Answering(n)') /\ (Responded(n) => Responded(n)')
      BY <3>1 DEF Answering, Responded
    <3> QED
      BY <3>1, <3>2, <3>3, AnswerMove
  <2> QED
    BY <2>1, <2>2
<1>27. CASE PBodyError
  <2>1. /\ UNCHANGED <<script, n, hpc, wire, tpc, polled, close>>
        /\ ppc' = "failed" /\ Len(queue') = 0
    BY <1>27 DEF PBodyError, PEnd
  <2>2. ContinueWanted' /\ ResponseDone' /\ ShutCloses'
    BY <2>1
    DEF AnswerInv, ContinueWanted, ResponseDone, ShutCloses,
        ExpectsContinue, Working, Writing
  <2> QED
    BY <2>1, <2>2, AnswerMove
<1>28. CASE PWriteError
  <2>1. /\ UNCHANGED <<script, n, hpc, wire, tpc, polled, close>>
        /\ ppc' = "failed" /\ Len(queue') = 0
    BY <1>28 DEF PWriteError, PEnd
  <2>2. ContinueWanted' /\ ResponseDone' /\ ShutCloses'
    BY <2>1
    DEF AnswerInv, ContinueWanted, ResponseDone, ShutCloses,
        ExpectsContinue, Working, Writing
  <2> QED
    BY <2>1, <2>2, AnswerMove
<1> QED
    BY <1>1, <1>2, <1>3, <1>4, <1>5, <1>6, <1>7, <1>8, <1>9, <1>10, <1>11,
       <1>12, <1>13, <1>14, <1>15, <1>16, <1>17, <1>18, <1>19, <1>20,
       <1>21, <1>22, <1>23, <1>24, <1>25, <1>26, <1>27, <1>28
    DEF Next, HNext, HDecode, PNext
-----------------------------------------------------------------------------
(* One request in an exchange, and what it says of the server's state.     *)
LEMMA Exchanged ==
    ASSUME TypeInv
    PROVE  /\ Reqs = {1} /\ 1 \in Reqs /\ script[1] \in RequestSet
           /\ Units \in Nat /\ rest[1] \in Nat /\ n \in {0, 1}
           /\ Len(wire) \in Nat
           /\ \A i \in 1 .. Len(wire) : wire[i].req = 1
<1>1. MaxRequests = 1 /\ Reqs = {1} /\ 1 \in Reqs
    BY ExchangeAssumption DEF Reqs
<1>2. script[1] \in RequestSet
    BY <1>1, RequestsAssumption DEF TypeInv, TypeOK
<1>3. script[1].chunks \in Nat
    BY <1>2 DEF RequestSet
<1>4. Units \in Nat
    BY <1>3 DEF Units, BodyUnits, Request1
<1>5. rest[1] \in Nat /\ n \in {0, 1}
    BY <1>1 DEF TypeInv, TypeOK
<1>6. \A i \in 1 .. Len(wire) : wire[i].req = 1
    BY <1>1, ReqTypes
<1>7. Len(wire) \in Nat
    BY ReqTypes
<1> QED
    BY <1>1, <1>2, <1>4, <1>5, <1>6, <1>7

(* The headers of a server of this repository are those P has written.     *)
LEMMA OwnHeaders ==
    ASSUME TypeInv, peer = "ttpkit"
    PROVE  /\ Len(Headers) = Len(wire)
           /\ \A i \in 1 .. Len(wire) : Headers[i] = StatusOf(wire[i])
BY Exchanged DEF Headers

LEMMA StatusType ==
    ASSUME NEW m
    PROVE  /\ StatusOf(m) \in {"100", "101", "final"}
           /\ StatusOf(m) = "100" <=> m.kind = "continue"
           /\ StatusOf(m) = "101" => m.kind = "response" /\ Request1.plan = "upgrade"
BY DEF StatusOf

(* Every step of an exchange is a step of the server, or leaves it alone.  *)
LEMMA ServerMoves == ExchangeNext => [Next]_vars
<1> SUFFICES ASSUME ExchangeNext PROVE [Next]_vars
    OBVIOUS
<1>1. 1 \in Reqs
    BY ExchangeAssumption DEF Reqs
<1>2. CASE HStep
    BY <1>2 DEF HStep, ServerStep, HMove, SDecode, Next, HNext, HDecode
<1>3. CASE RStep
    BY <1>1, <1>3 DEF RStep, ServerStep, SReader, RNext, Next
<1>4. CASE TStep
    BY <1>1, <1>4 DEF TStep, ServerStep, Next
<1>5. CASE PStep
    BY <1>5 DEF PStep, ServerStep, PMove, PEchoUnit, PUnit, PNext, Next
<1>6. CASE ServerStep(STimeout)
    BY <1>1, <1>6 DEF ServerStep, STimeout, RNext, Next, HNext, HDecode
<1>7. CASE \/ CStep \/ DStep \/ ClientStep(CTimeout) \/ ClientStep(DTimeout)
           \/ ClientStep((UPoll \/ UDrop) /\ UNCHANGED expired)
    BY <1>7 DEF CStep, DStep, ClientStep
<1>8. CASE \/ OtherStep(OAnswer) \/ OtherStep(OUnit) \/ OtherStep(OAnswered)
           \/ OtherStep(OClose) \/ Cut
    BY <1>8 DEF OtherStep, Cut
<1>9. CASE Over
    BY <1>9 DEF Over, evars
<1> QED
    BY <1>2, <1>3, <1>4, <1>5, <1>6, <1>7, <1>8, <1>9 DEF ExchangeNext

(* What is written stays written.                                          *)
Grows == /\ Len(wire) <= Len(wire')
         /\ \A i \in 1 .. Len(wire) : wire'[i] = wire[i]

LEMMA WireGrows == TypeInv /\ [Next]_vars => Grows
<1> SUFFICES ASSUME TypeInv, [Next]_vars PROVE Grows
    OBVIOUS
<1> USE DEF hvars, pvars, rvars, bvars
<1>s. ASSUME UNCHANGED wire PROVE Grows
    BY <1>s, ReqTypes DEF Grows
<1>1. CASE HAccept
    BY <1>1, <1>s DEF HAccept, vars
<1>2. CASE HReject
    BY <1>2, <1>s DEF HReject, vars
<1>3. CASE HRejectLate
    BY <1>3, <1>s DEF HRejectLate, vars
<1>4. CASE HStop
    BY <1>4, <1>s DEF HStop, vars
<1>5. CASE HFail
    BY <1>5, <1>s DEF HFail, vars
<1>6. CASE HJoin
    BY <1>6, <1>s DEF HJoin, vars
<1>7. CASE HJoinLost
    BY <1>7, <1>s DEF HJoinLost, vars
<1>8. CASE HContinue
    BY <1>8, <1>s DEF HContinue, vars
<1>9. CASE HCloseVersion10
    BY <1>9, <1>s DEF HCloseVersion10, vars
<1>10. CASE HUpgrade
    BY <1>10, <1>s DEF HUpgrade, vars
<1>11. CASE HHandOver
    BY <1>11, <1>s DEF HHandOver, vars
<1>12. CASE HEarlySent
    BY <1>12, <1>s DEF HEarlySent, vars
<1>13. CASE HClose
    BY <1>13, <1>s DEF HClose, vars
<1>14. CASE HSendContinue
    BY <1>14, <1>s DEF HSendContinue, vars
<1>15. CASE HSendResponse
    BY <1>15, <1>s DEF HSendResponse, vars
<1>16. CASE HSendEarly
    BY <1>16, <1>s DEF HSendEarly, vars
<1>17. CASE PTake
    BY <1>17, <1>s DEF PTake, vars
<1>18. CASE PReturn
    BY <1>18, <1>s DEF PReturn, vars
<1>19. CASE PResponse
    BY <1>19, <1>s DEF PResponse, vars
<1>20. CASE PSkip
    BY <1>20, <1>s DEF PSkip, vars
<1>21. CASE PCloseKnown
    BY <1>21, <1>s DEF PCloseKnown, vars
<1>22. CASE PEcho
    BY <1>22, <1>s DEF PEcho, vars
<1>23. CASE PFinish
    BY <1>23, <1>s DEF PFinish, vars
<1>24. CASE PBodyError
    BY <1>24, <1>s DEF PBodyError, vars
<1>25. CASE PWriteError
    BY <1>25, <1>s DEF PWriteError, vars
<1>26. CASE Terminated
    BY <1>26, <1>s DEF Terminated, vars
<1>27. CASE UNCHANGED vars
    BY <1>27, <1>s DEF vars
<1>28. ASSUME NEW r \in Reqs, RNext(r) PROVE Grows
    BY <1>28, <1>s, ReaderFrame
<1>29. ASSUME NEW r \in Reqs, TNext(r) PROVE Grows
    BY <1>29, <1>s, HandlerFrame
<1>30. CASE PHeader
    BY <1>30, ReqTypes DEF PHeader, Grows, TypeInv, TypeOK
<1> QED
    BY <1>1, <1>2, <1>3, <1>4, <1>5, <1>6, <1>7, <1>8, <1>9, <1>10, <1>11,
       <1>12, <1>13, <1>14, <1>15, <1>16, <1>17, <1>18, <1>19, <1>20,
       <1>21, <1>22, <1>23, <1>24, <1>25, <1>26, <1>27, <1>28, <1>29,
       <1>30
    DEF Next, HNext, HDecode, PNext

(* The invariants of the server, together.                                 *)
ServerInv == TypeInv /\ BoundaryInv /\ OrderInv /\ HandOverInv /\ AnswerInv

LEMMA ServerInit == Init => ServerInv
BY TypeInit, BoundaryInit, OrderInit, HandOverInit, AnswerInit DEF ServerInv

LEMMA ServerStepInv == ServerInv /\ [Next]_vars => ServerInv'
BY TypeStep, BoundaryStep, OrderStep, HandOverStep, AnswerStep DEF ServerInv

LEMMA ServerInvStep == ServerInv /\ ExchangeNext => ServerInv'
BY ServerMoves, ServerStepInv

LEMMA ExchangeTypesInit == ExchangeInit => ExchangeTypes
BY DEF ExchangeInit, ExchangeTypes, CStates, CEnded

(* Reading a header moves the client to the next one.                      *)
LEMMA ReadTypes ==
    ASSUME TypeInv, ExchangeTypes, ReadResponse
    PROVE  /\ cread < Len(Headers) /\ cread' = cread + 1 /\ cread' \in Nat
           /\ got' = Headers[cread + 1] /\ got' \in Statuses
           /\ peer = "ttpkit" =>
                 cread + 1 \in 1 .. Len(wire) /\ got' = StatusOf(wire[cread + 1])
           /\ peer = "other" =>
                 cread + 1 \in DOMAIN answers /\ got' = answers[cread + 1]
           /\ dpc' = "reading" /\ UNCHANGED <<sent, din>>
<1>1. /\ cread < Len(Headers) /\ cread' = cread + 1 /\ cread \in Nat
      /\ got' = Headers[cread + 1] /\ dpc' = "reading" /\ UNCHANGED <<sent, din>>
    BY DEF ReadResponse, ExchangeTypes
<1>2. ASSUME peer = "ttpkit"
      PROVE  cread + 1 \in 1 .. Len(wire) /\ got' = StatusOf(wire[cread + 1])
    BY <1>1, <1>2, OwnHeaders, Exchanged
<1>3. ASSUME peer = "other"
      PROVE  /\ cread + 1 \in DOMAIN answers /\ got' = answers[cread + 1]
             /\ answers[cread + 1] \in Statuses
    BY <1>1, <1>3 DEF Headers, ExchangeTypes
<1>4. got' \in Statuses
  <2>1. CASE peer = "ttpkit"
    BY <1>2, <2>1, StatusType DEF Statuses
  <2>2. CASE peer = "other"
    BY <1>3, <2>2
  <2> QED
    BY <2>1, <2>2 DEF ExchangeTypes
<1> QED
    BY <1>1, <1>2, <1>3, <1>4

LEMMA ExchangeTypesStep == TypeInv /\ ExchangeTypes /\ ExchangeNext => ExchangeTypes'
<1> SUFFICES ASSUME TypeInv, ExchangeTypes, ExchangeNext PROVE ExchangeTypes'
    OBVIOUS
<1> USE DEF cvars, dvars, ovars, CEnded, CStates
<1>r. ASSUME ReadResponse, cpc' \in CStates, UNCHANGED <<peer, answers, out>>
      PROVE  ExchangeTypes'
    BY <1>r, ReadTypes DEF ExchangeTypes
<1>1. CASE ClientStep(CRefuse /\ UNCHANGED expired)
    BY <1>1 DEF ClientStep, CRefuse, ExchangeTypes
<1>2. CASE ClientStep(CWriteHeader /\ UNCHANGED expired)
    BY <1>2 DEF ClientStep, CWriteHeader, ExchangeTypes
<1>3. CASE ClientStep(CClosed /\ UNCHANGED expired)
    BY <1>3 DEF ClientStep, CClosed, ExchangeTypes
<1>4. CASE ClientStep(CJoin /\ UNCHANGED expired)
    BY <1>4 DEF ClientStep, CJoin, ExchangeTypes
<1>5. CASE ClientStep(CJoinLost /\ UNCHANGED expired)
    BY <1>5 DEF ClientStep, CJoinLost, ExchangeTypes
<1>6. CASE ClientStep(CWriteUnit /\ UNCHANGED expired)
    BY <1>6 DEF ClientStep, CWriteUnit, ExchangeTypes
<1>7. CASE ClientStep(CWritten /\ UNCHANGED expired)
    BY <1>7 DEF ClientStep, CWritten, ExchangeTypes
<1>8. CASE ClientStep(CWriteFail /\ UNCHANGED expired)
    BY <1>8 DEF ClientStep, CWriteFail, ExchangeTypes
<1>9. CASE ClientStep(DNext /\ UNCHANGED expired) \/ ClientStep(DTimeout)
    BY <1>9 DEF ClientStep, DNext, DUnit, DJoin, DError, DTimeout, DFail, DLost, DDropped,
        ExchangeTypes
<1>10. CASE ClientStep((UPoll \/ UDrop) /\ UNCHANGED expired)
    BY <1>10 DEF ClientStep, UPoll, UDrop, ExchangeTypes
<1>11. CASE ClientStep(CReadInterim /\ UNCHANGED expired)
  <2>1. ReadResponse /\ cpc' \in CStates /\ UNCHANGED <<peer, answers, out>>
    BY <1>11 DEF ClientStep, CReadInterim
  <2> QED
    BY <2>1, <1>r
<1>12. CASE ClientStep(CReadAnswer /\ UNCHANGED expired)
  <2>1. ReadResponse /\ cpc' \in CStates /\ UNCHANGED <<peer, answers, out>>
    BY <1>12 DEF ClientStep, CReadAnswer
  <2> QED
    BY <2>1, <1>r
<1>13. CASE ClientStep(CTimeout)
    BY <1>13 DEF ClientStep, CTimeout, ExchangeTypes
<1>14. CASE HStep \/ RStep \/ TStep \/ ServerStep(STimeout)
    BY <1>14 DEF HStep, RStep, TStep, ServerStep, STimeout, ExchangeTypes
<1>15. CASE PStep
  <2>1. out' \in Nat
    BY <1>15 DEF PStep, ServerStep, PMove, PEchoUnit, PUnit, ExchangeTypes
  <2> QED
    BY <1>15, <2>1 DEF PStep, ServerStep, ExchangeTypes
<1>16. CASE OtherStep(OUnit)
    BY <1>16 DEF OtherStep, OUnit, ExchangeTypes
<1>17. CASE OtherStep(OAnswer)
  <2>1. UNCHANGED <<peer, cpc, dpc, sent, cread, got, din, out>>
    BY <1>17 DEF OtherStep, OAnswer
  <2>2. answers \in Seq(Statuses)
    BY DEF ExchangeTypes
  <2>3. PICK a \in Statuses : answers' = Append(answers, a)
    BY <1>17 DEF OtherStep, OAnswer, Statuses
  <2>4. answers' \in Seq(Statuses)
    BY <2>2, <2>3, AppendType
  <2> QED
    BY <2>1, <2>4 DEF ExchangeTypes
<1>18. CASE OtherStep(OAnswered) \/ OtherStep(OClose) \/ Cut \/ Over
    BY <1>18 DEF OtherStep, OAnswered, OClose, Cut, Over, evars, ExchangeTypes
<1> QED
    BY <1>1, <1>2, <1>3, <1>4, <1>5, <1>6, <1>7, <1>8, <1>9, <1>10, <1>11,
       <1>12, <1>13, <1>14, <1>15, <1>16, <1>17, <1>18
    DEF ExchangeNext, CStep, CNext, DStep, ClientStep
-----------------------------------------------------------------------------
LEMMA ClientInit == ExchangeInit => ClientInv
<1> SUFFICES ASSUME ExchangeInit PROVE ClientInv
    OBVIOUS
<1>1. Init
    BY DEF ExchangeInit
<1>2. Units \in Nat /\ Len(wire) = 0 /\ 1 \in Reqs
    BY <1>1, TypeInit, Exchanged DEF Init
<1>3. rest[1] = Units
    BY <1>1, <1>2 DEF Init, Units, Request1
<1>4. Progress /\ HeadersRead /\ Invited /\ Unanswered /\ FinalAnswer
    BY <1>2 DEF ExchangeInit, Progress, HeadersRead, Invited, Unanswered, FinalAnswer, CEnded
<1>5. ReadWritten /\ Reasons
    BY <1>1, <1>2, <1>3 DEF ExchangeInit, Init, ReadWritten, Reasons
<1> QED
    BY <1>4, <1>5 DEF ClientInv

(* Steps of the client: the server stands still.                           *)
LEMMA ClientKeeps ==
    ASSUME ServerInv, ExchangeTypes, ClientInv, ExchangeTypes',
           UNCHANGED <<vars, peer, ovars, cut>>, expired => expired',
           sent <= sent', Gone => Gone',
           Progress', HeadersRead', Invited', Unanswered', FinalAnswer'
    PROVE  ClientInv'
<1>1. UNCHANGED <<script, n, hpc, ppc, wire, rest>>
    BY DEF vars, hvars, pvars, rvars
<1>2. Units' = Units /\ Request1' = Request1 /\ Units \in Nat /\ rest[1] \in Nat
    BY <1>1, Exchanged DEF Units, Request1, BodyUnits, ServerInv
<1>3. ReadWritten'
    BY <1>1, <1>2 DEF ClientInv, ReadWritten, ExchangeTypes
<1>4. Reasons'
    BY <1>1, <1>2 DEF ClientInv, Reasons, Responded
<1> QED
    BY <1>3, <1>4 DEF ClientInv

(* The client finds the connection closed before any answer: then the      *)
(* handler has panicked, or a timer has fired, or the network has failed.  *)
LEMMA ClosedReason ==
    ASSUME ServerInv, ExchangeTypes, ClientInv, peer = "ttpkit", ~cut, ~expired,
           cpc \in {"interim", "answer"}, cread = Len(Headers), EndOfStream
    PROVE  tpc[1] = "panicked"
<1>1. TypeInv /\ HandOverInv /\ AnswerInv
    BY DEF ServerInv
<1>2. ~Gone /\ cpc \in Early
    BY DEF Gone, CEnded, Early
<1>3. cread = Len(wire) /\ Len(wire) \in Nat
    BY <1>1, OwnHeaders, Exchanged
<1>4. \A i \in 1 .. Len(wire) : wire[i].kind = "continue"
    BY <1>2, <1>3 DEF ClientInv, HeadersRead
<1>5. ~Responded(1)
    BY <1>4 DEF Responded
<1>6. ppc # "shut"
    BY <1>1, <1>3, <1>4 DEF AnswerInv, ShutCloses, ContinueWanted
<1>7. ppc # "failed"
    BY <1>2, <1>5 DEF ClientInv, Reasons
<1>8. hpc \in HEnded /\ ppc = "writer"
    BY <1>6, <1>7 DEF EndOfStream, ServerGone, PEnded
<1>9. n = 1
  <2>1. hpc # "decode" /\ n \in {0, 1}
    BY <1>1, <1>8, Exchanged DEF HEnded
  <2> QED
    BY <1>2, <2>1 DEF ClientInv, Reasons
<1>10. ~Answering(1)
  <2>1. queue = <<>>
    BY <1>1, <1>8 DEF HandOverInv, ChannelClosed
  <2>2. Len(queue) = 0
    BY <2>1
  <2> QED
    BY <1>8, <2>2 DEF Answering
<1> QED
    BY <1>1, <1>5, <1>8, <1>9, <1>10 DEF AnswerInv, AnswerOwed, Sending, HEnded

(* Client steps that read no header.                                       *)
LEMMA NoHeaderRead ==
    ASSUME ServerInv, ExchangeTypes, ClientInv,
           UNCHANGED <<vars, peer, ovars, cut, cread, got>>,
           cpc' \in Early => cpc \in Early,
           Request1.expect /\ (cpc' \in {"joinBody", "body", "answer"} \/ sent' > 1) =>
               cpc \in {"joinBody", "body", "answer"} \/ sent > 1,
           cpc' = "returned" => cpc = "returned"
    PROVE  HeadersRead' /\ Invited' /\ FinalAnswer'
<1>1. UNCHANGED <<script, wire, polled, answers>>
    BY DEF vars, pvars, bvars, ovars
<1>2. Request1' = Request1
    BY <1>1 DEF Request1
<1>3. HeadersRead'
    BY <1>1, <1>2 DEF ClientInv, HeadersRead, StatusOf
<1>4. Invited'
    BY <1>1, <1>2 DEF ClientInv, Invited
<1>5. FinalAnswer'
    BY <1>1, <1>2 DEF ClientInv, FinalAnswer
<1> QED
    BY <1>3, <1>4, <1>5

LEMMA ClientMoves ==
    ASSUME ServerInv, ExchangeTypes, ClientInv, ExchangeTypes',
           UNCHANGED <<vars, peer, ovars, cut>>
    PROVE  /\ CNext /\ UNCHANGED expired => ClientInv'
           /\ (DNext \/ UPoll \/ UDrop) /\ UNCHANGED expired => ClientInv'
           /\ CTimeout \/ DTimeout => ClientInv'
<1> USE DEF cvars, dvars
<1>1. /\ UNCHANGED <<script, wire, tpc, polled, answers, cut, peer>>
      /\ Request1' = Request1 /\ Units' = Units
      /\ Units \in Nat /\ sent \in Nat /\ sent' \in Nat /\ cread \in Nat
    BY Exchanged
    DEF vars, pvars, bvars, ovars, Request1, Units, BodyUnits, ServerInv, ExchangeTypes
<1>2. /\ Progress /\ HeadersRead /\ Invited /\ Unanswered /\ FinalAnswer
    BY DEF ClientInv
<1>3. ASSUME CRefuse, UNCHANGED expired PROVE ClientInv'
  <2>1. /\ UNCHANGED <<cread, got>> /\ sent <= sent' /\ (expired => expired')
        /\ Gone => Gone'
        /\ cpc' \in Early => cpc \in Early
        /\ Request1.expect /\ (cpc' \in {"joinBody", "body", "answer"} \/ sent' > 1) =>
             cpc \in {"joinBody", "body", "answer"} \/ sent > 1
        /\ cpc' = "returned" => cpc = "returned"
    BY <1>1, <1>2, <1>3 DEF CRefuse, Progress, Gone, CEnded, Early
  <2>2. HeadersRead' /\ Invited' /\ FinalAnswer'
    BY <2>1, NoHeaderRead
  <2>3. Progress'
    BY <1>1, <1>2, <1>3 DEF CRefuse, Progress, CEnded
  <2>4. Unanswered'
    BY <1>1, <1>2, <1>3 DEF CRefuse, Unanswered
  <2> QED
    BY <2>1, <2>2, <2>3, <2>4, ClientKeeps
<1>4. ASSUME CWriteHeader, UNCHANGED expired PROVE ClientInv'
  <2>1. /\ UNCHANGED <<cread, got>> /\ sent <= sent' /\ (expired => expired')
        /\ Gone => Gone'
        /\ cpc' \in Early => cpc \in Early
        /\ Request1.expect /\ (cpc' \in {"joinBody", "body", "answer"} \/ sent' > 1) =>
             cpc \in {"joinBody", "body", "answer"} \/ sent > 1
        /\ cpc' = "returned" => cpc = "returned"
    BY <1>1, <1>2, <1>4 DEF CWriteHeader, Progress, Gone, CEnded, Early
  <2>2. HeadersRead' /\ Invited' /\ FinalAnswer'
    BY <2>1, NoHeaderRead
  <2>3. Progress'
    BY <1>1, <1>2, <1>4 DEF CWriteHeader, Progress, CEnded
  <2>4. Unanswered'
    BY <1>1, <1>2, <1>4 DEF CWriteHeader, Unanswered
  <2> QED
    BY <2>1, <2>2, <2>3, <2>4, ClientKeeps
<1>5. ASSUME CJoin, UNCHANGED expired PROVE ClientInv'
  <2>1. /\ UNCHANGED <<cread, got>> /\ sent <= sent' /\ (expired => expired')
        /\ Gone => Gone'
        /\ cpc' \in Early => cpc \in Early
        /\ Request1.expect /\ (cpc' \in {"joinBody", "body", "answer"} \/ sent' > 1) =>
             cpc \in {"joinBody", "body", "answer"} \/ sent > 1
        /\ cpc' = "returned" => cpc = "returned"
    BY <1>1, <1>2, <1>5 DEF CJoin, Progress, Gone, CEnded, Early
  <2>2. HeadersRead' /\ Invited' /\ FinalAnswer'
    BY <2>1, NoHeaderRead
  <2>3. Progress'
    BY <1>1, <1>2, <1>5 DEF CJoin, Progress, CEnded
  <2>4. Unanswered'
    BY <1>1, <1>2, <1>5 DEF CJoin, Unanswered
  <2> QED
    BY <2>1, <2>2, <2>3, <2>4, ClientKeeps
<1>6. ASSUME CWriteUnit, UNCHANGED expired PROVE ClientInv'
  <2>1. /\ UNCHANGED <<cread, got>> /\ sent <= sent' /\ (expired => expired')
        /\ Gone => Gone'
        /\ cpc' \in Early => cpc \in Early
        /\ Request1.expect /\ (cpc' \in {"joinBody", "body", "answer"} \/ sent' > 1) =>
             cpc \in {"joinBody", "body", "answer"} \/ sent > 1
        /\ cpc' = "returned" => cpc = "returned"
    BY <1>1, <1>2, <1>6 DEF CWriteUnit, Progress, Gone, CEnded, Early
  <2>2. HeadersRead' /\ Invited' /\ FinalAnswer'
    BY <2>1, NoHeaderRead
  <2>3. Progress'
    BY <1>1, <1>2, <1>6 DEF CWriteUnit, Progress, CEnded
  <2>4. Unanswered'
    BY <1>1, <1>2, <1>6 DEF CWriteUnit, Unanswered
  <2> QED
    BY <2>1, <2>2, <2>3, <2>4, ClientKeeps
<1>7. ASSUME CWritten, UNCHANGED expired PROVE ClientInv'
  <2>1. /\ UNCHANGED <<cread, got>> /\ sent <= sent' /\ (expired => expired')
        /\ Gone => Gone'
        /\ cpc' \in Early => cpc \in Early
        /\ Request1.expect /\ (cpc' \in {"joinBody", "body", "answer"} \/ sent' > 1) =>
             cpc \in {"joinBody", "body", "answer"} \/ sent > 1
        /\ cpc' = "returned" => cpc = "returned"
    BY <1>1, <1>2, <1>7 DEF CWritten, Progress, Gone, CEnded, Early
  <2>2. HeadersRead' /\ Invited' /\ FinalAnswer'
    BY <2>1, NoHeaderRead
  <2>3. Progress'
    BY <1>1, <1>2, <1>7 DEF CWritten, Progress, CEnded
  <2>4. Unanswered'
    BY <1>1, <1>2, <1>7 DEF CWritten, Unanswered
  <2> QED
    BY <2>1, <2>2, <2>3, <2>4, ClientKeeps
<1>8. ASSUME CClosed, UNCHANGED expired PROVE ClientInv'
  <2>1. /\ UNCHANGED <<cread, got>> /\ sent <= sent' /\ (expired => expired')
        /\ Gone => Gone'
        /\ cpc' \in Early => cpc \in Early
        /\ Request1.expect /\ (cpc' \in {"joinBody", "body", "answer"} \/ sent' > 1) =>
             cpc \in {"joinBody", "body", "answer"} \/ sent > 1
        /\ cpc' = "returned" => cpc = "returned"
    BY <1>1, <1>2, <1>8 DEF CClosed, Progress, Gone, CEnded, Early
  <2>2. HeadersRead' /\ Invited' /\ FinalAnswer'
    BY <2>1, NoHeaderRead
  <2>3. Progress'
    BY <1>1, <1>2, <1>8 DEF CClosed, Progress, CEnded
  <2>4. Unanswered'
    <3>1. cpc' = "failed" /\ cpc \in {"interim", "answer"}
      BY <1>8 DEF CClosed
    <3>2. ASSUME peer = "ttpkit", ~expired, ~cut PROVE tpc[1] = "panicked"
      BY <1>8, <3>1, <3>2, ClosedReason DEF CClosed
    <3> QED
      BY <1>1, <1>8, <3>1, <3>2 DEF Unanswered
  <2> QED
    BY <2>1, <2>2, <2>3, <2>4, ClientKeeps
<1>9. ASSUME CJoinLost, UNCHANGED expired PROVE ClientInv'
  <2>1. /\ UNCHANGED <<cread, got>> /\ sent <= sent' /\ (expired => expired')
        /\ Gone => Gone'
        /\ cpc' \in Early => cpc \in Early
        /\ Request1.expect /\ (cpc' \in {"joinBody", "body", "answer"} \/ sent' > 1) =>
             cpc \in {"joinBody", "body", "answer"} \/ sent > 1
        /\ cpc' = "returned" => cpc = "returned"
    BY <1>1, <1>2, <1>9 DEF CJoinLost, Progress, Gone, CEnded, Early
  <2>2. HeadersRead' /\ Invited' /\ FinalAnswer'
    BY <2>1, NoHeaderRead
  <2>3. Progress'
    BY <1>1, <1>2, <1>9 DEF CJoinLost, Progress, CEnded
  <2>4. Unanswered'
    BY <1>1, <1>2, <1>9 DEF CJoinLost, Unanswered, Progress
  <2> QED
    BY <2>1, <2>2, <2>3, <2>4, ClientKeeps
<1>10. ASSUME CWriteFail, UNCHANGED expired PROVE ClientInv'
  <2>1. /\ UNCHANGED <<cread, got>> /\ sent <= sent' /\ (expired => expired')
        /\ Gone => Gone'
        /\ cpc' \in Early => cpc \in Early
        /\ Request1.expect /\ (cpc' \in {"joinBody", "body", "answer"} \/ sent' > 1) =>
             cpc \in {"joinBody", "body", "answer"} \/ sent > 1
        /\ cpc' = "returned" => cpc = "returned"
    BY <1>1, <1>2, <1>10 DEF CWriteFail, Progress, Gone, CEnded, Early
  <2>2. HeadersRead' /\ Invited' /\ FinalAnswer'
    BY <2>1, NoHeaderRead
  <2>3. Progress'
    BY <1>1, <1>2, <1>10 DEF CWriteFail, Progress, CEnded
  <2>4. Unanswered'
    BY <1>1, <1>2, <1>10 DEF CWriteFail, Unanswered, Progress, CEnded
  <2> QED
    BY <2>1, <2>2, <2>3, <2>4, ClientKeeps
<1>11. ASSUME CTimeout PROVE ClientInv'
  <2>1. /\ UNCHANGED <<cread, got>> /\ sent <= sent' /\ (expired => expired')
        /\ Gone => Gone'
        /\ cpc' \in Early => cpc \in Early
        /\ Request1.expect /\ (cpc' \in {"joinBody", "body", "answer"} \/ sent' > 1) =>
             cpc \in {"joinBody", "body", "answer"} \/ sent > 1
        /\ cpc' = "returned" => cpc = "returned"
    BY <1>1, <1>2, <1>11 DEF CTimeout, Progress, Gone, CEnded, Early
  <2>2. HeadersRead' /\ Invited' /\ FinalAnswer'
    BY <2>1, NoHeaderRead
  <2>3. Progress'
    BY <1>1, <1>2, <1>11 DEF CTimeout, Progress, CEnded
  <2>4. Unanswered'
    BY <1>11 DEF CTimeout, Unanswered
  <2> QED
    BY <2>1, <2>2, <2>3, <2>4, ClientKeeps
<1>12. ASSUME ((DNext \/ UPoll \/ UDrop) /\ UNCHANGED expired) \/ DTimeout
       PROVE  ClientInv'
  <2> USE DEF DNext, DUnit, DJoin, DError, DTimeout, DFail, DLost, DDropped, UPoll, UDrop
  <2>1. UNCHANGED cvars /\ (expired => expired')
    BY <1>12
  <2>2. dpc = "joined" => dpc' = "joined"
    BY <1>12
  <2>3. dpc' \in {"failing", "lost"} =>
          dpc \in {"failing", "lost"} \/ cut \/ expired' \/ got \notin {"100", "101"}
    BY <1>12 DEF AnswerComplete, Interim
  <2>4. HeadersRead' /\ Invited' /\ FinalAnswer'
    BY <2>1, NoHeaderRead
  <2>5. Progress'
    BY <1>1, <1>2, <2>1, <2>2, <2>3 DEF Progress
  <2>6. Unanswered'
    BY <1>1, <1>2, <2>1 DEF Unanswered
  <2>7. sent <= sent' /\ (Gone => Gone')
    BY <1>1, <2>1 DEF Gone
  <2> QED
    BY <2>1, <2>4, <2>5, <2>6, <2>7, ClientKeeps
<1>13. ASSUME CReadInterim, UNCHANGED expired PROVE ClientInv'
  <2>1. /\ cpc = "interim" /\ ReadResponse
        /\ cpc' \in {"joinBody", "joinUpgrade", "returned"}
        /\ got' = "100" <=> cpc' = "joinBody"
        /\ got' = "101" <=> cpc' = "joinUpgrade"
    BY <1>13 DEF CReadInterim
  <2>2. /\ cread = 0 /\ cread' = 1 /\ got' \in Statuses /\ sent' = sent /\ dpc' = "reading"
        /\ peer = "ttpkit" => 1 \in 1 .. Len(wire) /\ got' = StatusOf(wire[1])
        /\ peer = "other" => 1 \in DOMAIN answers /\ got' = answers[1]
    BY <1>2, <2>1, ReadTypes DEF Progress, ServerInv
  <2>3. Progress'
    BY <1>1, <1>2, <2>1, <2>2 DEF Progress, CEnded
  <2>4. HeadersRead'
    <3>1. ASSUME peer = "ttpkit", cpc' = "joinBody" PROVE wire[1].kind = "continue"
      BY <2>1, <2>2, <3>1, StatusType
    <3> QED
      BY <1>1, <2>1, <2>2, <3>1 DEF HeadersRead, StatusOf, Early
  <2>5. Invited'
    <3>1. ASSUME cpc' = "joinBody", peer = "ttpkit" PROVE polled[1]
      <4>1. wire[1].kind = "continue" /\ wire[1].req = 1
        BY <2>1, <2>2, <3>1, StatusType, Exchanged DEF ServerInv
      <4> QED
        BY <2>2, <3>1, <4>1 DEF ServerInv, AnswerInv, ContinueWanted
    <3>2. ASSUME cpc' = "joinBody", peer = "other"
          PROVE  \E i \in DOMAIN answers : answers[i] = "100"
      BY <2>1, <2>2, <3>2
    <3> QED
      BY <1>1, <1>2, <2>1, <2>2, <3>1, <3>2 DEF Invited, ExchangeTypes
  <2>6. Unanswered'
    BY <2>1 DEF Unanswered
  <2>7. FinalAnswer'
    <3>1. ASSUME cpc' = "returned", peer = "ttpkit" PROVE got' = "final"
      BY <2>1, <2>2, <3>1, StatusType
    <3> QED
      BY <1>1, <2>1, <2>2, <3>1 DEF FinalAnswer, ExchangeTypes
  <2>8. ~Gone /\ UNCHANGED expired /\ sent <= sent'
    BY <1>1, <1>13, <2>1, <2>2 DEF Gone, CEnded
  <2> QED
    BY <2>3, <2>4, <2>5, <2>6, <2>7, <2>8, ClientKeeps
<1>14. ASSUME CReadAnswer, UNCHANGED expired PROVE ClientInv'
  <2>1. /\ cpc = "answer" /\ ReadResponse
        /\ cpc' = IF got' = "101" THEN "joinUpgrade" ELSE "returned"
    BY <1>14 DEF CReadAnswer
  <2>2. /\ cread' = cread + 1 /\ got' \in Statuses /\ sent' = sent /\ dpc' = "reading"
        /\ cread = IF Request1.expect THEN 1 ELSE 0
        /\ peer = "ttpkit" =>
             cread + 1 \in 1 .. Len(wire) /\ got' = StatusOf(wire[cread + 1])
    BY <1>2, <2>1, ReadTypes DEF Progress, ServerInv
  <2>3. Progress'
    BY <1>1, <1>2, <2>1, <2>2 DEF Progress, CEnded
  <2>4. HeadersRead'
    BY <1>1, <2>1, <2>2, Exchanged DEF HeadersRead, StatusOf, Early, ServerInv
  <2>5. Invited'
    BY <1>1, <1>2, <2>1, <2>2 DEF Invited
  <2>6. Unanswered'
    BY <2>1 DEF Unanswered
  <2>7. ASSUME peer = "ttpkit" PROVE got' # "100"
    <3> SUFFICES ASSUME got' = "100" PROVE FALSE
      OBVIOUS
    <3> DEFINE w == wire[cread + 1]
    <3>1. cread + 1 \in 1 .. Len(wire) /\ w.kind = "continue" /\ w.req = 1
      BY <2>2, <2>7, StatusType, Exchanged DEF ServerInv
    <3>2. Request1.expect
      BY <3>1 DEF ServerInv, AnswerInv, ContinueWanted, ExpectsContinue, Request1
    <3>3. cread = 1 /\ 1 \in 1 .. Len(wire) /\ 2 \in 1 .. Len(wire)
      BY <2>2, <3>1, <3>2, Exchanged DEF ServerInv
    <3>4. wire[1].kind = "continue" /\ wire[1].req = 1
      BY <1>2, <2>1, <2>7, <3>3, Exchanged DEF HeadersRead, Early, ServerInv
    <3>5. Place(wire[1]) < Place(wire[2])
      BY <3>3 DEF ServerInv, OrderInv, ResponsesInOrder
    <3> QED
      BY <3>1, <3>3, <3>4, <3>5 DEF Place
  <2>8. FinalAnswer'
    <3>1. ASSUME cpc' = "returned", peer = "ttpkit" PROVE got' = "final"
      BY <2>1, <2>2, <2>7, <3>1, StatusType
    <3> QED
      BY <1>1, <2>1, <2>2, <3>1 DEF FinalAnswer, ExchangeTypes
  <2>9. ~Gone /\ UNCHANGED expired /\ sent <= sent'
    BY <1>1, <1>14, <2>1, <2>2 DEF Gone, CEnded
  <2> QED
    BY <2>3, <2>4, <2>5, <2>6, <2>8, <2>9, ClientKeeps
<1> QED
    BY <1>3, <1>4, <1>5, <1>6, <1>7, <1>8, <1>9, <1>10, <1>11, <1>12,
       <1>13, <1>14 DEF CNext

(* Steps of the server: the client stands still.                           *)
LEMMA ServerKeeps ==
    ASSUME ServerInv, ExchangeTypes, ClientInv, [Next]_vars, peer = "ttpkit",
           UNCHANGED <<peer, cvars, dvars, ovars, cut>>, expired => expired',
           ReadWritten', Reasons'
    PROVE  ClientInv'
<1>1. Lasting /\ Grows /\ 1 \in Reqs
    BY LastingStep, WireGrows, Exchanged DEF ServerInv, AnswerInv
<1>2. Request1' = Request1 /\ Units' = Units
    BY <1>1 DEF Lasting, Request1, Units, BodyUnits
<1>3. UNCHANGED <<peer, cpc, dpc, sent, cread, got, answers, cut>>
    BY DEF cvars, dvars, ovars
<1>4. Progress'
    BY <1>2, <1>3 DEF ClientInv, Progress
<1>5. HeadersRead'
  <2>1. Len(wire) \in Nat /\ cread \in Nat /\ cread <= Len(wire)
    BY Exchanged DEF ServerInv, ExchangeTypes, ClientInv, HeadersRead
  <2>2. Len(wire') \in Nat
    BY <1>1, TypeStep DEF ServerInv, TypeInv, TypeOK
  <2>3. cread <= Len(wire') /\ \A i \in 1 .. cread : wire'[i] = wire[i]
    BY <1>1, <2>1, <2>2 DEF Grows
  <2> QED
    BY <1>2, <1>3, <2>1, <2>3 DEF ClientInv, HeadersRead, StatusOf
<1>6. Invited'
    BY <1>1, <1>2, <1>3 DEF ClientInv, Invited, Lasting
<1>7. Unanswered'
    BY <1>1, <1>2, <1>3 DEF ClientInv, Unanswered, Lasting, HandlerReturned
<1>8. FinalAnswer'
    BY <1>2, <1>3 DEF ClientInv, FinalAnswer
<1> QED
    BY <1>4, <1>5, <1>6, <1>7, <1>8 DEF ClientInv

LEMMA ServerClientStep ==
    ASSUME ServerInv, ExchangeTypes, ClientInv,
           HStep \/ RStep \/ TStep \/ PStep \/ ServerStep(STimeout)
    PROVE  ClientInv'
<1>1. [Next]_vars
  <2>1. ExchangeNext
    BY DEF ExchangeNext
  <2> QED
    BY <2>1, ServerMoves
<1>2. /\ peer = "ttpkit" /\ UNCHANGED <<peer, cvars, dvars, ovars, cut>>
      /\ expired => expired'
    BY DEF HStep, RStep, TStep, PStep, ServerStep, STimeout
<1>3. /\ Lasting /\ Grows /\ 1 \in Reqs
      /\ Units \in Nat /\ rest[1] \in Nat /\ n \in {0, 1}
      /\ sent \in Nat /\ Len(wire) \in Nat
    BY <1>1, LastingStep, WireGrows, Exchanged DEF ServerInv, AnswerInv, ExchangeTypes
<1>4. Request1' = Request1 /\ Units' = Units
    BY <1>3 DEF Lasting, Request1, Units, BodyUnits
<1>5. Responded(1) => Responded(1)'
  <2>1. Len(wire') \in Nat
    BY <1>1, TypeStep DEF ServerInv, TypeInv, TypeOK
  <2> QED
    BY <1>3, <2>1 DEF Responded, Grows
<1>6. UNCHANGED <<cpc, sent>> /\ Gone' = Gone
    BY <1>2 DEF cvars, Gone
<1>7. Reasons /\ ReadWritten
    BY DEF ClientInv
<1>r. ASSUME ppc = "body"
      PROVE  /\ Answer.kind = cur.kind /\ cur.req = 1
             /\ Answer.kind = "response" => Responded(1)
  <2>1. Len(wire) \in 1 .. Len(wire) /\ Answer.req = cur.req /\ Answer.kind = cur.kind
    BY <1>3, <1>r DEF ServerInv, HandOverInv, Headed, Answer
  <2>2. Answer.req = 1
    BY <2>1, Exchanged DEF Answer, ServerInv
  <2> QED
    BY <2>1, <2>2 DEF Responded, Answer
<1> USE DEF hvars, pvars, rvars, bvars
<1>8. ASSUME rest' = rest PROVE ReadWritten'
    BY <1>4, <1>6, <1>7, <1>8 DEF ReadWritten
<1>9. ASSUME UNCHANGED <<n, hpc, ppc>> PROVE Reasons'
    BY <1>2, <1>4, <1>5, <1>6, <1>7, <1>9 DEF Reasons
<1>10. CASE HStep
  <2>1. HMove /\ UNCHANGED expired
    BY <1>10 DEF HStep, ServerStep
  <2>2. UNCHANGED <<rest, ppc>>
    BY <2>1 DEF HMove, SDecode, HAccept, HReject, HRejectLate, HStop, HFail,
        HSendContinue, HSendResponse, HJoin, HJoinLost, HContinue, HCloseVersion10,
        HUpgrade, HHandOver, HSendEarly, HEarlySent, HClose
  <2>3. n' = 0 /\ hpc' # "decode" => cut \/ expired \/ Gone
    <3>1. CASE SDecode
      BY <1>3, <3>1
      DEF SDecode, HAccept, HReject, HStop, HFail, ClientGone, Gone
    <3>2. CASE ~SDecode
      BY <1>7, <2>1, <3>2, <1>2
      DEF HMove, Reasons, HSendContinue, HSendResponse, HJoin, HJoinLost, HContinue,
          HCloseVersion10, HUpgrade, HHandOver, HSendEarly, HEarlySent, HClose
    <3> QED
      BY <3>1, <3>2
  <2>4. hpc' = "failed" => cut \/ ppc = "failed"
    <3>1. CASE SDecode
      BY <3>1 DEF SDecode, HAccept, HReject, HStop, HFail
    <3>2. CASE ~SDecode
      BY <2>1, <3>2
      DEF HMove, HSend, HSendContinue, HSendResponse, HJoin, HJoinLost, HContinue,
          HCloseVersion10, HUpgrade, HHandOver, HSendEarly, HEarlySent, HClose, PEnded
    <3> QED
      BY <3>1, <3>2
  <2>6. hpc' = "abandoned" => ppc = "shut"
    <3>1. CASE SDecode
      BY <3>1 DEF SDecode, HAccept, HReject, HStop, HFail
    <3>2. CASE ~SDecode
      BY <2>1, <3>2
      DEF HMove, HSend, HSendContinue, HSendResponse, HJoin, HJoinLost, HContinue,
          HCloseVersion10, HUpgrade, HHandOver, HSendEarly, HEarlySent, HClose, PEnded
    <3> QED
      BY <3>1, <3>2
  <2>5. Reasons'
    BY <1>2, <1>4, <1>5, <1>6, <1>7, <2>1, <2>2, <2>3, <2>4, <2>6 DEF Reasons
  <2> QED
    BY <1>1, <1>2, <1>8, <2>2, <2>5, ServerKeeps
<1>11. CASE RStep
  <2>1. /\ UNCHANGED <<n, hpc, ppc>>
        /\ rest' = rest \/ (Arrived > 0 /\ rest' = [rest EXCEPT ![1] = rest[1] - 1])
    <3>1. SReader
      BY <1>11 DEF RStep, ServerStep
    <3>2. rest' = rest \/ (Arrived > 0 /\ rest' = [rest EXCEPT ![1] = rest[1] - 1])
      BY <3>1 DEF SReader, RChunk, RTrailer, RError, RLost, RStop, IsTrailer
    <3>3. RNext(1)
      BY <3>1 DEF SReader, RNext
    <3> QED
      BY <1>3, <3>2, <3>3, ReaderFrame
  <2>2. ReadWritten'
    <3>1. CASE rest' = rest
      BY <1>8, <3>1
    <3>2. CASE Arrived > 0 /\ rest' = [rest EXCEPT ![1] = rest[1] - 1]
      <4>1. rest \in [Reqs -> Nat]
        BY DEF ServerInv, TypeInv, TypeOK
      <4>2. rest'[1] = rest[1] - 1 /\ sent' = sent
        BY <1>3, <1>6, <3>2, <4>1
      <4>3. Arrived > 0
        BY <3>2
      <4>4. Units - rest'[1] <= IF sent = 0 THEN 0 ELSE sent - 1
        BY <1>3, <1>7, <4>2, <4>3 DEF Arrived, ReadWritten
      <4> QED
        BY <1>4, <4>2, <4>4 DEF ReadWritten
    <3> QED
      BY <2>1, <3>1, <3>2
  <2> QED
    BY <1>1, <1>2, <1>9, <2>1, <2>2, ServerKeeps
<1>12. CASE TStep
  <2>1. UNCHANGED <<n, hpc, ppc, rest>>
    BY <1>3, <1>12, HandlerFrame DEF TStep, ServerStep
  <2> QED
    BY <1>1, <1>2, <1>8, <1>9, <2>1, ServerKeeps
<1>13. CASE PStep
  <2>1. PMove /\ UNCHANGED expired
    BY <1>13 DEF PStep, ServerStep
  <2>2. CASE PUnit
    <3>1. UNCHANGED <<n, hpc, ppc, rest>>
      BY <2>2 DEF PUnit, vars
    <3> QED
      BY <1>1, <1>2, <1>8, <1>9, <3>1, ServerKeeps
  <2>3. CASE PEchoUnit
    <3>1. UNCHANGED <<n, hpc, ppc, rest>>
      BY <2>3 DEF PEchoUnit, PEcho
    <3> QED
      BY <1>1, <1>2, <1>8, <1>9, <3>1, ServerKeeps
  <2>4. CASE ~PUnit /\ ~PEchoUnit
    <3>1. UNCHANGED <<n, hpc, rest>> /\ ppc \notin {"failed", "shut"}
      BY <2>1, <2>4 DEF PMove, PTake, PReturn, PResponse, PSkip, PCloseKnown, PHeader,
          PFinish, PBodyError, PWriteError
    <3>2. ppc' = "failed" => cut \/ Gone \/ (Responded(1) /\ Request1.plan # "upgrade")
      <4>1. CASE PBodyError
        <5>1. ppc = "body" /\ Echoes(cur)
          BY <4>1 DEF PBodyError
        <5>2. Answer.kind = "response" /\ Responded(1) /\ cur.req = 1
          BY <5>1, <1>r DEF Echoes
        <5> QED
          BY <5>1, <5>2 DEF Echoes, Request1
      <4>2. CASE ~PBodyError
        BY <2>1, <2>4, <4>2
        DEF PMove, PTake, PReturn, PResponse, PSkip, PCloseKnown, PHeader,
            PFinish, PEnd, PWriteError, ClientGone, Gone
      <4> QED
        BY <4>1, <4>2
    <3>3. Reasons'
      BY <1>2, <1>4, <1>5, <1>6, <1>7, <2>1, <3>1, <3>2 DEF Reasons
    <3> QED
      BY <1>1, <1>2, <1>8, <3>1, <3>3, ServerKeeps
  <2> QED
    BY <2>2, <2>3, <2>4
<1>14. CASE ServerStep(STimeout)
  <2>1. STimeout /\ expired'
    BY <1>14 DEF ServerStep, STimeout
  <2>2. /\ UNCHANGED rest
        /\ hpc' \in {"failed", "abandoned"} => hpc' = hpc
        /\ \/ ppc' = ppc
           \/ /\ UNCHANGED <<n, hpc>>
              /\ ppc = "body" /\ ~Flowing /\ out < AnswerUnits(Answer)
    BY <2>1 DEF STimeout, HStop, RError, PWriteError
  <2>3. ppc' = ppc \/ (Responded(1) /\ Request1.plan # "upgrade" /\ ppc = "body")
    <3> SUFFICES ASSUME ppc = "body", ~Flowing, out < AnswerUnits(Answer)
                 PROVE  Responded(1) /\ Request1.plan # "upgrade"
      BY <2>2
    <3>1. out > 0 /\ out \in Nat
      BY ExchangeAssumption DEF Flowing, ExchangeTypes
    <3>2. DataUnits(Answer) # 0
      BY <3>1 DEF AnswerUnits
    <3>3. Answer.kind = "response" /\ Request1.plan # "upgrade"
      BY <3>2 DEF DataUnits
    <3> QED
      BY <1>r, <3>3
  <2>4. Reasons'
    BY <1>2, <1>4, <1>5, <1>6, <1>7, <2>1, <2>2, <2>3 DEF Reasons
  <2> QED
    BY <1>1, <1>2, <1>8, <2>2, <2>4, ServerKeeps
<1> QED
    BY <1>10, <1>11, <1>12, <1>13, <1>14

LEMMA ClientStepInv ==
    ServerInv /\ ExchangeTypes /\ ClientInv /\ [ExchangeNext]_evars => ClientInv'
<1> SUFFICES ASSUME ServerInv, ExchangeTypes, ClientInv, [ExchangeNext]_evars
             PROVE  ClientInv'
    OBVIOUS
<1>1. CASE HStep \/ RStep \/ TStep \/ PStep \/ ServerStep(STimeout)
    BY <1>1, ServerClientStep
<1>2. CASE \/ CStep \/ DStep \/ ClientStep(CTimeout) \/ ClientStep(DTimeout)
           \/ ClientStep((UPoll \/ UDrop) /\ UNCHANGED expired)
  <2>1. ExchangeTypes'
    BY <1>2, ExchangeTypesStep DEF ServerInv, ExchangeNext
  <2>2. /\ UNCHANGED <<vars, peer, ovars, cut>>
        /\ \/ CNext /\ UNCHANGED expired
           \/ (DNext \/ UPoll \/ UDrop) /\ UNCHANGED expired
           \/ CTimeout \/ DTimeout
    BY <1>2 DEF CStep, DStep, ClientStep
  <2> QED
    BY <2>1, <2>2, ClientMoves
<1>3. CASE \/ OtherStep(OAnswer) \/ OtherStep(OUnit) \/ OtherStep(OAnswered)
           \/ OtherStep(OClose)
           \/ Cut \/ Over \/ UNCHANGED evars
  <2>1. /\ UNCHANGED <<vars, peer, cvars, dvars>> /\ (expired' = expired)
        /\ cut => cut'
        /\ peer = "ttpkit" => UNCHANGED answers
    BY <1>3 DEF OtherStep, Cut, Over, evars, ovars
  <2>2. (\E i \in DOMAIN answers : answers[i] = "100") =>
          (\E i \in DOMAIN answers' : answers'[i] = "100")
    <3>1. CASE answers' = answers
      BY <3>1
    <3>2. CASE OtherStep(OAnswer)
      <4>1. PICK a : answers' = Append(answers, a)
        BY <3>2 DEF OtherStep, OAnswer
      <4>2. /\ DOMAIN answers' = 1 .. Len(answers) + 1
            /\ DOMAIN answers = 1 .. Len(answers) /\ Len(answers) \in Nat
            /\ \A i \in 1 .. Len(answers) : answers'[i] = answers[i]
        BY <4>1 DEF ExchangeTypes
      <4> QED
        BY <4>2
    <3> QED
      BY <1>3, <3>1, <3>2 DEF OtherStep, OUnit, OAnswered, OClose, Cut, Over, evars, ovars
  <2>3. UNCHANGED <<script, n, hpc, ppc, wire, rest, polled, tpc, cpc, dpc, sent, cread, got>>
    BY <2>1 DEF vars, hvars, pvars, rvars, bvars, cvars, dvars
  <2>4. Request1' = Request1 /\ Units' = Units /\ Gone' = Gone
    BY <2>3 DEF Request1, Units, BodyUnits, Gone
  <2>5. Progress' /\ FinalAnswer'
    BY <2>1, <2>3, <2>4 DEF ClientInv, Progress, FinalAnswer
  <2>6. HeadersRead'
    BY <2>1, <2>3, <2>4 DEF ClientInv, HeadersRead, StatusOf
  <2>7. Invited'
    BY <2>1, <2>2, <2>3, <2>4 DEF ClientInv, Invited
  <2>8. ReadWritten' /\ Unanswered'
    BY <2>1, <2>3, <2>4 DEF ClientInv, ReadWritten, Unanswered
  <2>9. Reasons'
    BY <2>1, <2>3, <2>4 DEF ClientInv, Reasons, Responded
  <2> QED
    BY <2>5, <2>6, <2>7, <2>8, <2>9 DEF ClientInv
<1> QED
    BY <1>1, <1>2, <1>3 DEF ExchangeNext
-----------------------------------------------------------------------------
ExchangeInv == ServerInv /\ ExchangeTypes /\ ClientInv

(* The invariant of an exchange: what the client relies on in the server,  *)
(* and how far the two are with each other.                                *)
LEMMA Invariant == ExchangeSpec => []ExchangeInv
<1>1. ExchangeInit => ExchangeInv
  <2>1. ExchangeInit => Init
    BY DEF ExchangeInit
  <2> QED
    BY <2>1, ServerInit, ExchangeTypesInit, ClientInit DEF ExchangeInv
<1>2. ExchangeInv /\ [ExchangeNext]_evars => ExchangeInv'
  <2> SUFFICES ASSUME ExchangeInv, [ExchangeNext]_evars PROVE ExchangeInv'
    OBVIOUS
  <2>1. ClientInv'
    BY ClientStepInv DEF ExchangeInv
  <2>2. CASE ExchangeNext
    BY <2>1, <2>2, ServerInvStep, ExchangeTypesStep DEF ExchangeInv, ServerInv
  <2>3. CASE UNCHANGED evars
    <3>1. UNCHANGED vars /\ UNCHANGED <<peer, cvars, dvars, ovars, out>>
      BY <2>3 DEF evars
    <3>2. [Next]_vars
      BY <3>1
    <3>3. ServerInv'
      BY <3>2, ServerStepInv DEF ExchangeInv
    <3>4. ExchangeTypes'
      BY <3>1 DEF ExchangeInv, ExchangeTypes, cvars, dvars, ovars
    <3> QED
      BY <2>1, <3>3, <3>4 DEF ExchangeInv
  <2> QED
    BY <2>2, <2>3
<1> QED
    BY <1>1, <1>2, PTL DEF ExchangeSpec

(* Client::request returns the final answer of a server of this            *)
(* repository, never its 100 Continue; what it takes for the final answer  *)
(* of another server is never a 101, nor the 100 Continue it waits for.    *)
THEOREM FinalReturned == ExchangeSpec => []FinalAnswer
<1>1. ExchangeInv => FinalAnswer
    BY DEF ExchangeInv, ClientInv
<1> QED
    BY <1>1, Invariant, PTL

(* A client that expects 100 Continue sends no byte of its body before the *)
(* other side wants it, whatever the size of the body and of the channels. *)
THEOREM BodyOnDemand == ExchangeSpec => []ExpectHonoured
<1>1. ExchangeInv => ExpectHonoured
    BY DEF ExchangeInv, ClientInv, Invited, ExpectHonoured
<1> QED
    BY <1>1, Invariant, PTL

(* No answer is lost without a timer or a failure of the network, unless   *)
(* the handler panics or the server gives up the body of the request.      *)
THEOREM AnswerKept == ExchangeSpec => []NoAnswerLost
<1>1. ASSUME ExchangeInv PROVE NoAnswerLost
  <2>1. /\ Units \in Nat /\ rest[1] \in Nat /\ sent \in Nat
        /\ ReadWritten /\ Unanswered
    BY <1>1, Exchanged DEF ExchangeInv, ServerInv, ExchangeTypes, ClientInv
  <2>2. sent \in 1 .. Units => rest[1] > 0
    BY <2>1 DEF ReadWritten
  <2> QED
    BY <2>1, <2>2 DEF NoAnswerLost, Unanswered
<1> QED
    BY <1>1, Invariant, PTL

(* The two ends agree on an upgrade: when the client holds an upgraded     *)
(* connection, it has read all of the response, and the server's handler   *)
(* hands the connection over, or has said that it closes it.               *)
THEOREM UpgradeShared == ExchangeSpec => []UpgradeAgreed
<1>1. ASSUME ExchangeInv, cpc = "upgraded" PROVE dpc = "joined" /\ got = "101"
    BY <1>1 DEF ExchangeInv, ClientInv, Progress
<1>2. ASSUME ExchangeInv, cpc = "upgraded", peer = "ttpkit", ~wire[cread].close, ~cut
      PROVE  hpc \in {"handover", "upgraded"}
  <2>1. /\ TypeInv /\ BoundaryInv /\ OrderInv /\ HandOverInv /\ AnswerInv
        /\ ExchangeTypes /\ HeadersRead /\ Reasons
    BY <1>2 DEF ExchangeInv, ServerInv, ClientInv
  <2>2. /\ Reqs = {1} /\ Len(wire) \in Nat /\ cread \in Nat
        /\ \A i \in 1 .. Len(wire) : wire[i].req = 1
    BY <2>1, Exchanged DEF ExchangeTypes
  <2>3. got = "101" /\ cread > 0
    <3>1. got = "101"
      BY <1>1, <1>2
    <3> QED
      BY <1>2, <3>1 DEF ExchangeInv, ClientInv, Progress
  <2>4. /\ cread \in 1 .. Len(wire) /\ wire[cread].kind = "response"
        /\ Request1.plan = "upgrade"
    <3>1. cread \in 1 .. Len(wire) /\ StatusOf(wire[cread]) = "101"
      BY <1>2, <2>1, <2>2, <2>3 DEF HeadersRead
    <3> QED
      BY <3>1, StatusType
  <2>5. tpc[1] = "done" /\ WantsUpgrade(1)
    BY <2>1, <2>2, <2>4 DEF AnswerInv, ResponseDone, WantsUpgrade, Request1
  <2>6. close[1] = "false"
    BY <1>2, <2>1, <2>2, <2>4 DEF BoundaryInv, WrittenKept
  <2>7. hpc \in {"handover", "upgraded", "abandoned", "failed"}
    BY <2>1, <2>2, <2>5, <2>6 DEF AnswerInv, UpgradeDecided
  <2>8. hpc # "failed"
    BY <1>2, <2>1, <2>4 DEF Reasons, Gone
  <2>9. ASSUME hpc = "abandoned" PROVE FALSE
    <3>1. ppc = "shut"
      BY <1>2, <2>1, <2>9 DEF Reasons
    <3>2. Len(wire) > 0 /\ wire[Len(wire)].close
      BY <2>1, <3>1 DEF AnswerInv, ShutCloses
    <3>3. cread < Len(wire)
      BY <1>2, <2>2, <2>4, <3>2
    <3>4. Place(wire[cread]) < Place(wire[Len(wire)])
      BY <2>1, <2>2, <2>4, <3>2, <3>3 DEF OrderInv, ResponsesInOrder
    <3>5. wire[cread].req = 1 /\ wire[Len(wire)].req = 1
      BY <2>2, <2>4, <3>2
    <3>6. Place(wire[cread]) = 3
      BY <2>4, <3>5 DEF Place
    <3>7. Place(wire[Len(wire)]) \in {2, 3}
      BY <3>5 DEF Place
    <3> QED
      BY <3>4, <3>6, <3>7
  <2> QED
    BY <2>7, <2>8, <2>9
<1>3. ExchangeInv => UpgradeAgreed
    BY <1>1, <1>2 DEF UpgradeAgreed
<1> QED
    BY <1>3, Invariant, PTL
================================================================================
