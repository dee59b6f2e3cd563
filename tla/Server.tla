------------------------------- MODULE Server -------------------------------
(***************************************************************************)
(* Server::serve of ttpkit-http: the accept loop, the semaphore that       *)
(* bounds the connections and the tasks of every connection, as far as     *)
(* they hold a part of it: the connection handler (which holds the         *)
(* permit), the response pipeline (the writing half) and a body reader     *)
(* (the reading half).  ServerConnection models what these tasks do.       *)
(***************************************************************************)
EXTENDS Integers, FiniteSets

CONSTANTS
    Conns,          \* the connections that clients may open
    MaxConnections  \* ServerOptions::max_connections

ASSUME ConnsAssumption == IsFiniteSet(Conns)
ASSUME MaxConnectionsAssumption == MaxConnections \in Nat

VARIABLES
    spc,       \* control state of the accept loop
    permits,   \* permits left in the semaphore
    accepted,  \* the connection just accepted (a set of at most one)
    backlog,   \* connections that wait to be accepted
    handler,   \* handler[c]: the task of the connection handler
    pipeline,  \* pipeline[c]: the task that holds the writing half
    reader     \* reader[c]: a body reader task that holds the reading half

svars == <<spc, permits, accepted, backlog, handler, pipeline, reader>>
tasks == <<handler, pipeline, reader>>
loop == <<spc, permits, accepted, backlog>>

TaskStates == {"none", "running", "ended"}

ServerInit ==
    /\ spc = "acquire"
    /\ permits = MaxConnections
    /\ accepted = {}
    /\ backlog = {}
    /\ handler = [c \in Conns |-> "none"]
    /\ pipeline = [c \in Conns |-> "none"]
    /\ reader = [c \in Conns |-> "none"]

(* A client connects.                                                      *)
Connect(c) ==
    /\ handler[c] = "none" /\ c \notin backlog \cup accepted
    /\ spc # "stopped"
    /\ backlog' = backlog \cup {c}
    /\ UNCHANGED <<spc, permits, accepted, tasks>>

(***************************************************************************)
(* The accept loop                                                         *)
(***************************************************************************)
(* Mutant of Acquire: the permit is taken after the connection.            *)
AcquireFree ==
    /\ spc = "acquire"
    /\ spc' = "accept"
    /\ UNCHANGED <<permits, accepted, backlog, tasks>>

Acquire ==
    /\ spc = "acquire"
    /\ permits > 0
    /\ permits' = permits - 1
    /\ spc' = "accept"
    /\ UNCHANGED <<accepted, backlog, tasks>>

Accept(c) ==
    /\ spc = "accept"
    /\ c \in backlog
    /\ backlog' = backlog \ {c}
    /\ accepted' = {c}
    /\ spc' = "peer"
    /\ UNCHANGED <<permits, tasks>>

(* The acceptor fails, or the peer is gone before its address is read:     *)
(* serve returns the error and drops its permit, the listener and the      *)
(* connection.                                                             *)
AcceptFails ==
    /\ spc \in {"accept", "peer"}
    /\ spc' = "stopped"
    /\ permits' = permits + 1
    /\ accepted' = {}
    /\ backlog' = {}
    /\ UNCHANGED tasks

Spawn(c) ==
    /\ spc = "peer"
    /\ c \in accepted
    /\ handler' = [handler EXCEPT ![c] = "running"]
    /\ accepted' = {}
    /\ spc' = "acquire"
    /\ UNCHANGED <<permits, backlog, pipeline, reader>>

(***************************************************************************)
(* The tasks of a connection                                               *)
(***************************************************************************)

(* handle: the addresses are read, the connection is split and the         *)
(* pipeline spawned.                                                       *)
SpawnPipeline(c) ==
    /\ handler[c] = "running" /\ pipeline[c] = "none"
    /\ pipeline' = [pipeline EXCEPT ![c] = "running"]
    /\ UNCHANGED <<loop, handler, reader>>

(* The reading half goes to a body reader and comes back.                  *)
ReadBody(c) ==
    /\ handler[c] = "running" /\ pipeline[c] # "none" /\ reader[c] # "running"
    /\ reader' = [reader EXCEPT ![c] = "running"]
    /\ UNCHANGED <<loop, handler, pipeline>>

ReaderEnds(c) ==
    /\ reader[c] = "running"
    /\ reader' = [reader EXCEPT ![c] = "ended"]
    /\ UNCHANGED <<loop, handler, pipeline>>

PipelineEnds(c) ==
    /\ pipeline[c] = "running"
    /\ pipeline' = [pipeline EXCEPT ![c] = "ended"]
    /\ UNCHANGED <<loop, handler, reader>>

(* Mutant of HandlerEnds: the permit is lost with a failing handler.       *)
HandlerEndsLeaking(c) ==
    /\ handler[c] = "running"
    /\ pipeline[c] = "ended" \/ reader[c] # "running"
    /\ handler' = [handler EXCEPT ![c] = "ended"]
    /\ permits' = IF pipeline[c] = "ended" THEN permits + 1 ELSE permits
    /\ UNCHANGED <<spc, accepted, backlog, pipeline, reader>>

(* The handler returns, and the permit with it: after it has joined the    *)
(* pipeline, or at once on an error (an address cannot be read, or a       *)
(* header cannot be decoded, with no body reader at that time).            *)
HandlerEnds(c) ==
    /\ handler[c] = "running"
    /\ pipeline[c] = "ended" \/ reader[c] # "running"
    /\ handler' = [handler EXCEPT ![c] = "ended"]
    /\ permits' = permits + 1
    /\ UNCHANGED <<spc, accepted, backlog, pipeline, reader>>

ServerNext ==
    \/ Acquire \/ AcceptFails
    \/ \E c \in Conns :
          \/ Connect(c) \/ Accept(c) \/ Spawn(c)
          \/ SpawnPipeline(c) \/ ReadBody(c) \/ ReaderEnds(c) \/ PipelineEnds(c)
          \/ HandlerEnds(c)

(* The runtime runs the accept loop.  Nothing is owed of the tasks of a    *)
(* connection: a client may keep its connection for as long as it likes.   *)
ServerFairness ==
    /\ WF_svars(Acquire) /\ WF_svars(\E c \in Conns : Accept(c))
    /\ \A c \in Conns : WF_svars(Spawn(c))

ServerSpec == ServerInit /\ [][ServerNext]_svars
ServerFairSpec == ServerSpec /\ ServerFairness

(* Type invariant: the range of the loop's and the tasks' states.          *)
ServerTypeOK ==
    /\ spc \in {"acquire", "accept", "peer", "stopped"}
    /\ permits \in 0 .. MaxConnections
    /\ accepted \subseteq Conns /\ backlog \subseteq Conns
    /\ handler \in [Conns -> TaskStates]
    /\ pipeline \in [Conns -> TaskStates]
    /\ reader \in [Conns -> TaskStates]

Handlers == {c \in Conns : handler[c] = "running"}
Held == IF spc \in {"accept", "peer"} THEN 1 ELSE 0

(* No permit is lost or made up: those left, the one the accept loop holds *)
(* and those of the running handlers are MaxConnections, also after the    *)
(* loop has failed and after handlers have failed.                         *)
PermitsConserved == permits + Held + Cardinality(Handlers) = MaxConnections

(* Every permit is held by a handler that runs.                            *)
Exhausted == Cardinality(Handlers) = MaxConnections

(* A connection that waits is accepted and handled, unless the accept loop *)
(* fails or MaxConnections handlers run from some time on for good: no end *)
(* of a handler, early, late or with an error, and no order of such ends   *)
(* keeps the loop from going on.                                           *)
Served ==
    \A c \in Conns :
        c \in backlog ~> (handler[c] # "none" \/ spc = "stopped" \/ []Exhausted)

(* "Set maximum number of concurrent connections." (server/mod.rs:132):    *)
(* the connections of which some task holds a half number at most          *)
(* MaxConnections.                                                         *)
ConnectionsBounded ==
    Cardinality({c \in Conns :
        "running" \in {handler[c], pipeline[c], reader[c]}}) <= MaxConnections
=============================================================================
