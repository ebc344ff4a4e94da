------------------------------ MODULE Routing ------------------------------
(***************************************************************************)
(* internal/cluster/coordinator.go and node.go over the ring, with the     *)
(* start-up code of cmd/cachenode/main.go and cmd/api/main.go that builds  *)
(* the rings: one process routes requests (the router, whose ring is        *)
(* ring), the others receive them and check with ValidateOwnership that     *)
(* they own the key.                                                        *)
(*                                                                          *)
(* Route reads the leader flag, the ring and the owner's health one after   *)
(* the other, with no lock around the three, so each read is a step.  Route *)
(* changes nothing, so one request at a time shows all that it can do.      *)
(* What the receiving process has on its ring depends on the -peers flag it *)
(* was last started with, which may be an older or a newer list than the    *)
(* router's.                                                                *)
(***************************************************************************)
EXTENDS Ring, Sequences, FiniteSetsExt, Functions

CONSTANTS PeerLists,  \* the -peers flags: sequences of node ids
          AddrOf,     \* AddrOf[n]: the gRPC address in the flags for node n
          ApiHosts,   \* the order of CACHE_CLUSTER_ADDR, a sequence of nodes
          ApiId,      \* ApiId[n]: what main of cmd/api calls node n
          MaxDrift,   \* bound on nodes added or removed since the router started
          MaxOwners   \* bound on owners that a key has during one request

ASSUME RoutingAssumption ==
  /\ PeerLists \subseteq Seq(Node) /\ AddrOf \in [Node -> Addr]
  /\ ApiHosts \in Seq(Node) /\ ApiId \in [Node -> Node]
  /\ MaxDrift \in Nat /\ MaxOwners \in Nat

VARIABLES
  isLeader,   \* Coordinator.isLeader of the router
  available,  \* NodeHealth.available of the nodes in the router's health map
  req         \* the request being routed

rvars == <<isLeader, available, req>>

Errors == {"none", "no coordinator", "mismatch"}

\* owners and members are history: who has owned the key since the request was
\* made, and who was on the ring that Route (from) and ValidateOwnership (at)
\* read.
Request ==
  [pc : {"idle", "ring", "health", "send", "done"}, key : Key, to : Node \cup {NoNode}, err : Errors,
   owners : SUBSET (Node \cup {NoNode}), from : SUBSET Node, at : SUBSET Node]

NoRequest ==
  [pc |-> "idle", key |-> CHOOSE k \in Key : TRUE, to |-> NoNode, err |-> "none",
   owners |-> {}, from |-> {}, at |-> {}]

-----------------------------------------------------------------------------
(* Start-up. *)

AddAll(r, ids) ==
  LET after[i \in 0..Len(ids)] == IF i = 0 THEN r ELSE Add(after[i - 1], ids[i], AddrOf[ids[i]])
  IN  after[Len(ids)]

\* main of a cache node: itself first, then its peers in the order of the flag.
NodeRing(self, peers) == AddAll(NewRing, <<self>> \o peers)

\* main of the API: the ids that it makes of the host names, in their order.
ApiRing == AddAll(NewRing, [i \in DOMAIN ApiHosts |-> ApiId[ApiHosts[i]]])

\* NewNodeHealth for every node of the ring.
NewHealth(r) == [n \in Registered(r) |-> TRUE]

\* A node does not list itself or a node twice among its peers.
PeersOf(self) == {peers \in PeerLists : IsInjective(<<self>> \o peers)}

\* Nothing of this is saved: a restart is a new behaviour.
RoutingInit ==
  /\ token \in Placements
  /\ \E self \in Node : \E peers \in PeersOf(self) : ring = NodeRing(self, peers)
  /\ available = NewHealth(ring)
  /\ isLeader = FALSE /\ req = NoRequest

-----------------------------------------------------------------------------
(* What happens to the router between the steps of Route. *)

Routing == req.pc \in {"ring", "health", "send"}

\* Add or Remove on the router's ring: the health map is the one of the start.
Change ==
  /\ RingNext
  /\ req' = IF Routing THEN [req EXCEPT !.owners = @ \cup {Get(ring', req.key)}] ELSE req
  /\ Cardinality(req'.owners) =< MaxOwners
  /\ Cardinality(SymDiff(Registered(ring'), DOMAIN available)) =< MaxDrift
  /\ UNCHANGED <<isLeader, available>>

SetLeader(b) == isLeader' = b /\ UNCHANGED <<ring, available, req>>

UpdateNodeHealth(n, b) ==
  /\ n \in DOMAIN available
  /\ available' = [available EXCEPT ![n] = b]
  /\ UNCHANGED <<ring, isLeader, req>>

-----------------------------------------------------------------------------
(* Route and ValidateOwnership. *)

Finish(err) == req' = [NoRequest EXCEPT !.pc = "done", !.err = err]

RouteStart(k) ==
  /\ req = NoRequest
  /\ LET new == [NoRequest EXCEPT !.pc = "ring", !.key = k, !.owners = {Get(ring, k)}]
     IN  IF isLeader THEN req' = new ELSE Finish("no coordinator")
  /\ UNCHANGED <<ring, isLeader, available>>

RouteOwner ==
  /\ req.pc = "ring"
  /\ IF Held(ring) = {}
     THEN Finish("no coordinator")
     ELSE req' = [req EXCEPT !.pc = "health", !.to = Get(ring, req.key), !.from = Registered(ring)]
  /\ UNCHANGED <<ring, isLeader, available>>

IsAvailable(n) == n \in DOMAIN available /\ available[n]

\* Mutant: a request for an unavailable node goes to one that is available.
RouteHealth_Reroutes ==
  /\ req.pc = "health"
  /\ IF \E n \in Registered(ring) : IsAvailable(n)
     THEN req' = [req EXCEPT !.pc = "send",
                             !.to = IF IsAvailable(req.to) THEN req.to
                                    ELSE CHOOSE n \in Registered(ring) : IsAvailable(n)]
     ELSE Finish("none")
  /\ UNCHANGED <<ring, isLeader, available>>

\* "done" without an error is the cache miss of a node that is down.
RouteHealth ==
  /\ req.pc = "health"
  /\ IF IsAvailable(req.to) THEN req' = [req EXCEPT !.pc = "send"] ELSE Finish("none")
  /\ UNCHANGED <<ring, isLeader, available>>

ValidateOwnership(peers) ==
  /\ req.pc = "send"
  /\ LET own == NodeRing(req.to, peers)
     IN  req' = [NoRequest EXCEPT
                      !.pc = "done", !.from = req.from, !.at = Registered(own),
                      !.err = IF Get(own, req.key) = req.to THEN "none" ELSE "mismatch"]
  /\ UNCHANGED <<ring, isLeader, available>>

\* The caller has its answer.
Return == req.pc = "done" /\ req' = NoRequest /\ UNCHANGED <<ring, isLeader, available>>

-----------------------------------------------------------------------------
RoutingNext ==
  \/ Change
  \/ /\ UNCHANGED token
     /\ \/ \E b \in BOOLEAN : SetLeader(b)
        \/ \E n \in Node, b \in BOOLEAN : UpdateNodeHealth(n, b)
        \/ \E k \in Key : RouteStart(k)
        \/ RouteOwner \/ RouteHealth
        \/ \E peers \in PeersOf(req.to) : ValidateOwnership(peers)
        \/ Return

RoutingSpec == RoutingInit /\ [][RoutingNext]_<<vars, rvars>>

-----------------------------------------------------------------------------
\* coordinator.go (ADR 0001): "we do NOT reroute to another node because that
\* node doesn't have the key": whatever happens to the ring and to the health
\* map during the call, a request is sent only to a node that owned its key at
\* some moment of the call.
NeverRerouted ==
  req.pc = "send" => req.to \in req.owners

\* coordinator.go: ErrRoutingMismatch "indicates a stale routing table": the
\* router and the receiver disagree on the owner of a key only when they were
\* started with different sets of nodes, never because they registered the same
\* nodes in different orders.
MismatchMeansStale ==
  req.err = "mismatch" => req.from # req.at

\* debug.go: owner_node says "which node owns this key per consistent hashing":
\* when the API names the node n for a key, n itself, started with all the
\* nodes, takes the key for its own.
DebugNamesTheOwner ==
  \A k \in Key, i \in DOMAIN ApiHosts :
    LET n      == ApiHosts[i]
        others == SelectSeq(ApiHosts, LAMBDA m : m # n)
    IN  Get(ApiRing, k) = ApiId[n] => Get(NodeRing(n, others), k) = n
=============================================================================
