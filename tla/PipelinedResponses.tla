------------------------ MODULE PipelinedResponses ------------------------
(***************************************************************************)
(* What a server connection promises its client, whatever tasks and        *)
(* channels are behind it: every message answers a request that has been   *)
(* received, messages leave in the order of the requests, an interim       *)
(* response (100 Continue) only before the final one, at most one of each  *)
(* per request, and nothing after a message that closes the connection.    *)
(***************************************************************************)
EXTENDS Integers, Sequences

CONSTANT MaxRequests    \* bound on the requests of the connection

VARIABLES
    received,   \* number of requests received
    log,        \* the messages sent
    open        \* the connection may still be written to

vars == <<received, log, open>>

Messages == [req : 1 .. MaxRequests, interim : BOOLEAN, last : BOOLEAN]

Rank(m) == 2 * m.req + (IF m.interim THEN 0 ELSE 1)

Init == received = 0 /\ log = <<>> /\ open = TRUE

Receive ==
    /\ received < MaxRequests
    /\ received' = received + 1
    /\ UNCHANGED <<log, open>>

Send(m) ==
    /\ open
    /\ m.req <= received
    /\ \A i \in 1 .. Len(log) : Rank(log[i]) < Rank(m) /\ ~log[i].last
    /\ log' = Append(log, m)
    /\ UNCHANGED <<received, open>>

Shut == open /\ open' = FALSE /\ UNCHANGED <<received, log>>

Next == Receive \/ (\E m \in Messages : Send(m)) \/ Shut

Spec == Init /\ [][Next]_vars
=============================================================================
