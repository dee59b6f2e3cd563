------------------------------ MODULE MCServer ------------------------------
(***************************************************************************)
(* Server and Connection for TLC, in one run: a behaviour is one of the    *)
(* accept loop with its connections, or one of a single connection's       *)
(* halves, buffers and timers.  The two share no variable, and the other   *)
(* one stays as it began.                                                  *)
(***************************************************************************)
EXTENDS Connection, Server

VARIABLE machine  \* "server" or "connection" (never changes)

mvars == <<machine, svars, vars>>

MCInit == machine \in {"server", "connection"} /\ ServerInit /\ Init

(* The loop has stopped or waits for a client, and no task runs.           *)
Quiet ==
    /\ spc \in {"accept", "stopped"} /\ backlog = {}
    /\ \A c \in Conns : "running" \notin {handler[c], pipeline[c], reader[c]}
    /\ UNCHANGED svars

MCNext ==
    \/ machine = "server" /\ (ServerNext \/ Quiet) /\ UNCHANGED <<machine, vars>>
    \/ machine = "connection" /\ Next /\ UNCHANGED <<machine, svars>>

MCSpec ==
    /\ MCInit /\ [][MCNext]_mvars
    /\ machine = "server" => ServerFairness
=============================================================================
