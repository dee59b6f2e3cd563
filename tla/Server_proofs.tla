--------------------------- MODULE Server_proofs ---------------------------
(***************************************************************************)
(* Proofs about Server, for every finite set of connections and every      *)
(* number of permits.                                                      *)
(***************************************************************************)
EXTENDS Server, FiniteSetTheorems, TLAPS

(* A connection that waits or has just been accepted has no handler yet;   *)
(* only between accept and spawn there is an accepted connection.          *)
Waiting ==
    /\ \A c \in backlog \cup accepted : handler[c] = "none"
    /\ backlog \cap accepted = {}
    /\ accepted # {} => spc = "peer"

(* The types without the bound on permits, which follows from conservation.*)
Types ==
    /\ spc \in {"acquire", "accept", "peer", "stopped"}
    /\ permits \in Nat
    /\ accepted \subseteq Conns /\ backlog \subseteq Conns
    /\ handler \in [Conns -> TaskStates]
    /\ pipeline \in [Conns -> TaskStates]
    /\ reader \in [Conns -> TaskStates]

PermitInv == Types /\ Waiting /\ PermitsConserved

LEMMA HandlersFinite == IsFiniteSet(Handlers) /\ Cardinality(Handlers) \in Nat
<1>1. Handlers \subseteq Conns
    BY DEF Handlers
<1> QED
    BY <1>1, ConnsAssumption, FS_Subset, FS_CardinalityType

LEMMA PermitInit == ServerInit => PermitInv
<1> SUFFICES ASSUME ServerInit PROVE PermitInv
    OBVIOUS
<1>1. Handlers = {}
    BY DEF ServerInit, Handlers
<1>2. Cardinality(Handlers) = 0 /\ Held = 0
    BY <1>1, FS_EmptySet DEF ServerInit, Held
<1> QED
    BY <1>2, MaxConnectionsAssumption
    DEF ServerInit, PermitInv, Types, Waiting, PermitsConserved, TaskStates

(* A handler that starts adds one to the handlers, one that ends takes one *)
(* away.                                                                   *)
LEMMA HandlerStarts ==
    ASSUME Types, NEW c \in Conns, handler[c] = "none",
           handler' = [handler EXCEPT ![c] = "running"]
    PROVE  Cardinality(Handlers') = Cardinality(Handlers) + 1
<1>1. c \notin Handlers /\ Handlers' = Handlers \cup {c}
    BY DEF Types, Handlers
<1> QED
    BY <1>1, HandlersFinite, FS_AddElement

LEMMA HandlerStops ==
    ASSUME Types, NEW c \in Conns, handler[c] = "running",
           handler' = [handler EXCEPT ![c] = "ended"]
    PROVE  Cardinality(Handlers') = Cardinality(Handlers) - 1
<1>1. c \in Handlers /\ Handlers' = Handlers \ {c}
    BY DEF Types, Handlers
<1> QED
    BY <1>1, HandlersFinite, FS_RemoveElement

LEMMA PermitStep == PermitInv /\ [ServerNext]_svars => PermitInv'
<1> SUFFICES ASSUME PermitInv, [ServerNext]_svars PROVE PermitInv'
    OBVIOUS
<1> USE DEF PermitInv, Types, Waiting, TaskStates, tasks, loop
<1>a. /\ permits \in Nat /\ Cardinality(Handlers) \in Nat /\ Held \in Nat
      /\ permits + Held + Cardinality(Handlers) = MaxConnections
    BY HandlersFinite DEF PermitsConserved, Held
<1>1. CASE Acquire
  <2>1. Handlers' = Handlers /\ Held = 0 /\ Held' = 1 /\ permits' = permits - 1
    BY <1>1 DEF Acquire, Handlers, Held
  <2> QED
    BY <1>a, <1>1, <2>1 DEF Acquire, PermitsConserved
<1>2. CASE AcceptFails
  <2>1. Handlers' = Handlers /\ Held = 1 /\ Held' = 0 /\ permits' = permits + 1
    BY <1>2 DEF AcceptFails, Handlers, Held
  <2> QED
    BY <1>a, <1>2, <2>1 DEF AcceptFails, PermitsConserved
<1>3. ASSUME NEW c \in Conns, Accept(c) PROVE PermitInv'
  <2>1. Handlers' = Handlers /\ Held' = Held /\ permits' = permits
    BY <1>3 DEF Accept, Handlers, Held
  <2> QED
    BY <1>a, <1>3, <2>1 DEF Accept, PermitsConserved
<1>4. ASSUME NEW c \in Conns, Spawn(c) PROVE PermitInv'
  <2>1. Held = 1 /\ Held' = 0 /\ permits' = permits
    BY <1>4 DEF Spawn, Held
  <2>2. Cardinality(Handlers') = Cardinality(Handlers) + 1
    BY <1>4, HandlerStarts DEF Spawn
  <2>3. PermitsConserved'
    BY <1>a, <2>1, <2>2 DEF PermitsConserved
  <2> QED
    BY <1>4, <2>3 DEF Spawn
<1>5. ASSUME NEW c \in Conns, HandlerEnds(c) PROVE PermitInv'
  <2>1. Held' = Held /\ permits' = permits + 1
    BY <1>5 DEF HandlerEnds, Held
  <2>2. Cardinality(Handlers') = Cardinality(Handlers) - 1
    BY <1>5, HandlerStops DEF HandlerEnds
  <2>3. PermitsConserved'
    BY <1>a, <2>1, <2>2 DEF PermitsConserved
  <2> QED
    BY <1>5, <2>3 DEF HandlerEnds
<1>6. ASSUME NEW c \in Conns,
             Connect(c) \/ SpawnPipeline(c) \/ ReadBody(c) \/ ReaderEnds(c) \/ PipelineEnds(c)
      PROVE  PermitInv'
  <2>1. Handlers' = Handlers /\ Held' = Held /\ permits' = permits
    BY <1>6 DEF Connect, SpawnPipeline, ReadBody, ReaderEnds, PipelineEnds, Handlers, Held
  <2>2. PermitsConserved'
    BY <1>a, <2>1 DEF PermitsConserved
  <2> QED
    BY <1>6, <2>2 DEF Connect, SpawnPipeline, ReadBody, ReaderEnds, PipelineEnds
<1>7. CASE UNCHANGED svars
  <2>1. Handlers' = Handlers /\ Held' = Held
    BY <1>7 DEF svars, Handlers, Held
  <2> QED
    BY <1>a, <1>7, <2>1 DEF svars, PermitsConserved
<1> QED
    BY <1>1, <1>2, <1>3, <1>4, <1>5, <1>6, <1>7 DEF ServerNext

(* The permits left, held and in use are always MaxConnections.            *)
THEOREM Conservation == ServerSpec => []PermitsConserved
<1>1. PermitInv => PermitsConserved
    BY DEF PermitInv
<1> QED
    BY PermitInit, PermitStep, <1>1, PTL DEF ServerSpec

(* Every reachable state is well typed; the semaphore never holds more     *)
(* permits than it was created with.                                       *)
THEOREM ServerTypes == ServerSpec => []ServerTypeOK
<1>1. PermitInv => ServerTypeOK
  <2> SUFFICES ASSUME PermitInv PROVE ServerTypeOK
    OBVIOUS
  <2>1. /\ permits \in Nat /\ Cardinality(Handlers) \in Nat /\ Held \in Nat
        /\ permits + Held + Cardinality(Handlers) = MaxConnections
    BY HandlersFinite DEF PermitInv, Types, PermitsConserved, Held
  <2>2. permits \in 0 .. MaxConnections
    BY <2>1, MaxConnectionsAssumption
  <2> QED
    BY <2>2 DEF PermitInv, Types, ServerTypeOK
<1> QED
    BY PermitInit, PermitStep, <1>1, PTL DEF ServerSpec
=============================================================================
