-------------------------- MODULE CoordinatorRole --------------------------
(***************************************************************************)
(* A cache node process (cmd/cachenode/main.go): the Raft node of          *)
(* RaftElection composed, over the channel leaderCh, with the goroutine    *)
(* that keeps the flag isLeader of the node's Coordinator.  Coordinator    *)
(* .Route serves requests while that flag is set and refuses otherwise.    *)
(***************************************************************************)
EXTENDS RaftElection

VARIABLES
  leaderCh,  \* leaderCh[n]: the id in n's channel of capacity 1, or None
  received,  \* received[n]: the id the goroutine took and has not yet stored
  isLeader   \* isLeader[n]: Coordinator.isLeader of node n

coordVars == <<leaderCh, received, isLeader>>
allVars   == <<vars, coordVars>>

\* The channel and the goroutine hold at most one node id; the flag is atomic.
CoordinatorTypeOK ==
  /\ leaderCh \in [Server -> Server \cup {None}]
  /\ received \in [Server -> Server \cup {None}]
  /\ isLeader \in [Server -> BOOLEAN]

CoordinatorInit ==
  /\ Init
  /\ leaderCh = [n \in Server |-> None]
  /\ received = [n \in Server |-> None]
  /\ isLeader = [n \in Server |-> FALSE]

\* Mutant: the announcement is made on the way to Candidate, not to Leader.
announce_TooEarly ==
  leaderCh' = [n \in Server |->
                 IF state[n] # "Candidate" /\ state'[n] = "Candidate" THEN n ELSE leaderCh[n]]

\* The non-blocking send in becomeLeader: a full channel keeps what it holds.
announce ==
  leaderCh' = [n \in Server |->
                 IF state[n] # "Leader" /\ state'[n] = "Leader" /\ leaderCh[n] = None
                   THEN n ELSE leaderCh[n]]

RaftStep(n) ==
  /\ Loop(n) \/ Handlers(n)
  /\ announce
  /\ UNCHANGED <<received, isLeader>>

\* A new process starts with an empty channel and an inactive Coordinator.
ProcessRestart(n) ==
  /\ Restart(n) \/ \E m \in rvReqs : CrashBetweenSaves(n, m)
  /\ leaderCh' = [leaderCh EXCEPT ![n] = None]
  /\ received' = [received EXCEPT ![n] = None]
  /\ isLeader' = [isLeader EXCEPT ![n] = FALSE]

\* for leaderID := range raftNode.LeaderCh()
ReceiveLeader(n) ==
  /\ leaderCh[n] # None /\ received[n] = None
  /\ received' = [received EXCEPT ![n] = leaderCh[n]]
  /\ leaderCh' = [leaderCh EXCEPT ![n] = None]
  /\ UNCHANGED <<vars, isLeader>>

\* Mutant: the comparison with the node's own id is inverted.
SetLeader_Inverted(n) ==
  /\ received[n] # None
  /\ isLeader' = [isLeader EXCEPT ![n] = (received[n] # n)]
  /\ received' = [received EXCEPT ![n] = None]
  /\ UNCHANGED <<vars, leaderCh>>

\* coordinator.SetLeader(leaderID == nodeID)
SetLeader(n) ==
  /\ received[n] # None
  /\ isLeader' = [isLeader EXCEPT ![n] = (received[n] = n)]
  /\ received' = [received EXCEPT ![n] = None]
  /\ UNCHANGED <<vars, leaderCh>>

CoordinatorNext ==
  \E n \in Server :
    RaftStep(n) \/ ProcessRestart(n) \/ ReceiveLeader(n) \/ SetLeader(n)

CoordinatorSpec == CoordinatorInit /\ [][CoordinatorNext]_allVars

\* The goroutine runs whenever there is something in its channel.
CoordinatorFairSpec ==
  /\ CoordinatorSpec /\ Fairness
  /\ \A n \in Server : WF_allVars(ReceiveLeader(n)) /\ WF_allVars(SetLeader(n))

-----------------------------------------------------------------------------
\* The send in becomeLeader gives up when the channel is full, yet no election
\* win is lost: a Leader's Coordinator is active or about to be told.
LeaderIsAnnounced ==
  \A n \in Server :
    state[n] = "Leader" => isLeader[n] \/ n \in {leaderCh[n], received[n]}

\* Route serves requests only on a node that won some election (main.go sets
\* the flag from leaderCh, which becomeLeader alone writes).
CoordinatorHasWon ==
  \A n \in Server : isLeader[n] => \E e \in won : e[1] = n

\* Every election win activates the Coordinator of a process that stays up.
LeaderBecomesCoordinator ==
  \A n \in Server \ Crashable : state[n] = "Leader" ~> isLeader[n]

\* main.go: "When this node wins or loses an election, update the
\* coordinator."  With nothing left to tell, the flag agrees with the role.
CoordinatorFollowsRole ==
  \A n \in Server :
    leaderCh[n] = None /\ received[n] = None => (isLeader[n] <=> state[n] = "Leader")
=============================================================================
