------------------------------ MODULE MCExchange ------------------------------
(***************************************************************************)
(* Exchanges for TLC: both versions, with and without an expectation,      *)
(* every plan of the server's handler, requests without a body and with    *)
(* one that is longer than the network and the channels hold, and the same *)
(* for the response.                                                       *)
(***************************************************************************)
EXTENDS Exchange

MCExchangeRequests ==
    { q \in [version : {10, 11}, expect : BOOLEAN,
             encoding : {"length", "chunked"}, chunks : {0, 2},
             plan : Plans, response : {"sized", "stream"}] :
        /\ q.plan = "upgrade" => q.response = "sized"
        /\ q.plan \in {"panic", "echo", "drain"} => q.response = "stream"
        /\ q.encoding = "chunked" => q.chunks = 2 }

(* What a request or a server makes no use of has one value only.          *)
MCExchangeInit ==
    /\ ExchangeInit
    /\ peer = "other" => Request1.plan = "ignore" /\ Request1.response = "sized"
    /\ Request1.plan \in {"upgrade", "panic", "echo"} => size = 0

MCExchangeSpec ==
    MCExchangeInit /\ [][ExchangeNext]_evars /\ ExchangeFairness
=============================================================================
