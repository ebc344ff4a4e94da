--------------------------- MODULE ClusterStatus ---------------------------
(***************************************************************************)
(* GET /cluster/status of internal/api/debug.go over the cache nodes: the   *)
(* handler asks one node after the other, in the random order of a Go map,   *)
(* while nodes stop, start and win elections.                                *)
(*                                                                           *)
(* A node says it is the coordinator when its Coordinator's flag is set,     *)
(* which only a restart resets (module CoordinatorRole).  The counts that     *)
(* the handler reads from /metrics after a node's /health change nothing     *)
(* here: they are not part of the status.                                    *)
(***************************************************************************)
EXTENDS Integers, FiniteSets

CONSTANTS Node,
          Addressed,  \* the nodes whose HTTP address the API knows
          NoNode,     \* the empty string
          MaxFaults   \* bound on what goes wrong or changes

ASSUME ClusterAssumption ==
  Addressed \subseteq Node /\ NoNode \notin Node /\ MaxFaults \in Nat

VARIABLES
  up,       \* the nodes that run
  claims,   \* the nodes whose /health says is_coordinator
  faults    \* how much more may go wrong or change

nvars == <<up, claims, faults>>

Status == [healthy : SUBSET Node, coordinator : Node \cup {NoNode}]

\* When the page is opened some nodes run.
ClusterInit == up \in SUBSET Node /\ claims = {} /\ faults = MaxFaults

Fault == faults > 0 /\ faults' = faults - 1

\* A process stops, and starts again without the flag.
Stop(n)  == n \in up /\ Fault /\ up' = up \ {n} /\ claims' = claims \ {n}
Start(n) == n \notin up /\ Fault /\ up' = up \cup {n} /\ UNCHANGED claims

\* Raft: the flag is set; that of a leader before is not reset.
Win(n) == n \in up \ claims /\ Fault /\ claims' = claims \cup {n} /\ UNCHANGED up

ClusterStep == \E n \in Node : Stop(n) \/ Start(n) \/ Win(n)

-----------------------------------------------------------------------------
(* DebugHandler.ClusterStatus: p is what the loop has got so far. *)

NoProbe == [todo |-> Node, healthy |-> {}, coordinator |-> NoNode]

\* GET /health of a node.
IsCoordinator(n) == n \in claims

\* What the loop has after node n, which answers in time or not.
fetchNodeHealth(p, n, answers) ==
  [todo        |-> p.todo \ {n},
   healthy     |-> IF answers THEN p.healthy \cup {n} ELSE p.healthy,
   coordinator |-> IF answers /\ IsCoordinator(n) THEN n ELSE p.coordinator]

\* A node that runs may still be too slow once, for the 500 ms of the request.
Answers(n, answers) ==
  \/ answers = (n \in up \cap Addressed) /\ UNCHANGED faults
  \/ ~answers /\ n \in up \cap Addressed /\ Fault
=============================================================================
