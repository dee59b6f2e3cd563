------------------------ MODULE MCServerConnection ------------------------
(***************************************************************************)
(* Instances of ServerConnection for TLC.                                  *)
(***************************************************************************)
EXTENDS ServerConnection

Request(version, expect, encoding, chunks, plan, response) ==
    [version |-> version, expect |-> expect, encoding |-> encoding,
     chunks |-> chunks, plan |-> plan, response |-> response]

(* One request per way through the code: bodies read, read in part, or not *)
(* read at all; both framings; both versions; each kind of response.       *)
MCKinds == <<
    Request(11, FALSE, "length",  0, "drain",   "close"),
    Request(10, FALSE, "length",  0, "drain",   "stream"),
    Request(10, TRUE,  "length",  1, "upgrade", "stream"),
    Request(11, TRUE,  "length",  1, "upgrade", "sized"),
    Request(11, FALSE, "length",  1, "panic",   "sized"),
    Request(11, FALSE, "length",  1, "echo",    "stream"),
    Request(11, TRUE,  "length",  1, "ignore",  "stream"),
    Request(11, TRUE,  "chunked", 3, "drain",   "sized"),
    Request(11, TRUE,  "length",  2, "partial", "stream") >>
MCRequests == {MCKinds[i] : i \in DOMAIN MCKinds}

(* Three requests, so that any kind follows any other, and itself.         *)
MCScripts ==
    {<<MCKinds[i], MCKinds[i], MCKinds[1]>> : i \in DOMAIN MCKinds}
    \union UNION {{<<MCKinds[i], MCKinds[j], MCKinds[i]>> :
                      j \in i + 1 .. Len(MCKinds)} : i \in DOMAIN MCKinds}
MCInit == Init /\ script \in MCScripts
MCSpec == MCInit /\ [][Next]_vars /\ Fairness

(* A handler that returns the body of the request as that of the response. *)
MCEchoRequests == { Request(11, FALSE, "length", 3, "echo", "stream") }
=============================================================================
