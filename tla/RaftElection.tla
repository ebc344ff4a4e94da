---------------------------- MODULE RaftElection ----------------------------
(***************************************************************************)
(* Leader election of internal/raft: Raft without a log (ADR 0001).        *)
(*                                                                         *)
(* Every RaftNode runs ONE event loop (runLoop) and answers RPCs from any  *)
(* goroutine; the mutex n.mu makes each locked region one step.  pc says   *)
(* where the loop stands between two locked regions:                       *)
(*   "select"   blocked in the select statement                            *)
(*   "collect"  inside startElection, waiting for vote results             *)
(*   "beat"     decided to send heartbeats, sendHeartbeats not yet locked  *)
(*                                                                         *)
(* A node that is down, or whose loop was stopped with Stop(), is a node   *)
(* that takes no step (a stopped one still answers RPCs); Restart is the   *)
(* crash and the restart together.  Time is not modelled: whether the last *)
(* heartbeat is recent, and when a timer fires, may go either way.         *)
(* Messages are RPCs of goroutines: a request may be delivered late or     *)
(* never, and a caller may give up on it (waiting = FALSE) while it is     *)
(* still under way.  leaderID is left out: the code writes it and never    *)
(* reads it.  leaderCh is in CoordinatorRole.                              *)
(***************************************************************************)
EXTENDS Integers, FiniteSets

CONSTANTS Server,       \* the node identifiers
          None,         \* the empty string: no vote, no known leader
          MaxTerm,      \* bound: no election is started beyond this term
          FailingDisk,  \* nodes on which saveState may return an error
          Crashable     \* nodes that may crash and restart from their file

ASSUME ServerAssumption == IsFiniteSet(Server) /\ Server # {} /\ None \notin Server
ASSUME MaxTermAssumption == MaxTerm \in Nat
ASSUME FaultAssumption == FailingDisk \subseteq Server /\ Crashable \subseteq Server

VARIABLES
  ps,        \* ps[n]: persistentState in memory
  disk,      \* disk[n]: the contents of raft-<n>.json
  state,     \* state[n]: Follower, Candidate or Leader
  pc,        \* pc[n]: where runLoop stands
  pending,   \* pending[n]: peers whose vote result was not read yet
  granted,   \* granted[n]: peers whose granted vote was counted
  rvReqs, rvResps,   \* RequestVote requests and replies under way
  aeReqs, aeResps,   \* AppendEntries requests sent, rejections under way
  voted,     \* history: <<voter, term, candidate>> for every vote given
  won        \* history: <<leader, term>> for every call of becomeLeader

nodeVars == <<ps, disk, state>>
loopVars == <<pc, pending, granted>>
netVars  == <<rvReqs, rvResps, aeReqs, aeResps>>
histVars == <<voted, won>>
vars     == <<nodeVars, loopVars, netVars, histVars>>

Roles   == {"Follower", "Candidate", "Leader"}
LoopPCs == {"select", "collect", "beat"}
Peers(n) == Server \ {n}

\* majority := (len(peers)+1)/2 + 1
Majority == Cardinality(Server) \div 2 + 1

PState == [currentTerm : Nat, votedFor : Server \cup {None}]
PS(t, v) == [currentTerm |-> t, votedFor |-> v]

RequestVoteRequest  == [from : Server, to : Server, term : Nat, waiting : BOOLEAN]
RequestVoteResponse == [from : Server, to : Server, term : Nat, voteGranted : BOOLEAN]
AppendEntriesRequest  == RequestVoteRequest
AppendEntriesResponse == [to : Server, term : Nat]

\* The type of every variable; terms stay natural numbers, which becomeCandidate
\* and becomeFollower (the only writers of CurrentTerm) must preserve.
TypeOK ==
  /\ ps \in [Server -> PState]
  /\ disk \in [Server -> PState]
  /\ state \in [Server -> Roles]
  /\ pc \in [Server -> LoopPCs]
  /\ pending \in [Server -> SUBSET Server]
  /\ granted \in [Server -> SUBSET Server]
  /\ rvReqs \subseteq RequestVoteRequest
  /\ rvResps \subseteq RequestVoteResponse
  /\ aeReqs \subseteq AppendEntriesRequest
  /\ aeResps \subseteq AppendEntriesResponse
  /\ voted \subseteq Server \X Nat \X Server
  /\ won \subseteq Server \X Nat

-----------------------------------------------------------------------------
(* NewRaftNode on an empty state directory, and Start. *)
Init ==
  /\ ps = [n \in Server |-> PS(0, None)]
  /\ disk = [n \in Server |-> PS(0, None)]
  /\ state = [n \in Server |-> "Follower"]
  /\ pc = [n \in Server |-> "select"]
  /\ pending = [n \in Server |-> {}]
  /\ granted = [n \in Server |-> {}]
  /\ rvReqs = {} /\ rvResps = {} /\ aeReqs = {} /\ aeResps = {}
  /\ voted = {} /\ won = {}

-----------------------------------------------------------------------------
(* Locked helpers. *)

\* saveState: the temp file is renamed over the state file, or an error that
\* every caller ignores leaves the old file (or an earlier save of the same
\* handler, one of mid) in place.
saveState(n, new, mid) ==
  \E d \in {new} \cup (IF n \in FailingDisk THEN mid \cup {disk[n]} ELSE {}) :
    disk' = [disk EXCEPT ![n] = d]

\* Mutant: becomeFollower that forgets to change the role.
becomeFollower_KeepsRole(n, term) ==
  /\ UNCHANGED state
  /\ IF term > ps[n].currentTerm
       THEN /\ ps' = [ps EXCEPT ![n] = PS(term, None)]
            /\ saveState(n, PS(term, None), {})
       ELSE UNCHANGED <<ps, disk>>

\* becomeFollower: term and vote change, and are saved, only for a newer term.
becomeFollower(n, term) ==
  /\ state' = [state EXCEPT ![n] = "Follower"]
  /\ IF term > ps[n].currentTerm
       THEN /\ ps' = [ps EXCEPT ![n] = PS(term, None)]
            /\ saveState(n, PS(term, None), {})
       ELSE UNCHANGED <<ps, disk>>

becomeCandidate(n) ==
  LET new == PS(ps[n].currentTerm + 1, n)
  IN  /\ state' = [state EXCEPT ![n] = "Candidate"]
      /\ ps' = [ps EXCEPT ![n] = new]
      /\ saveState(n, new, {})
      /\ voted' = voted \cup {<<n, new.currentTerm, n>>}

becomeLeader(n) ==
  /\ state' = [state EXCEPT ![n] = "Leader"]
  /\ won' = won \cup {<<n, ps[n].currentTerm>>}

\* One goroutine per peer, each with a request that carries the term t.
Calls(n, t) ==
  {[from |-> n, to |-> p, term |-> t, waiting |-> TRUE] : p \in Peers(n)}

\* The goroutines of n that asked the peers in P have stopped waiting: nobody
\* reads a reply to their requests.
Orphaned(reqs, n, P) ==
  {IF m.from = n /\ m.to \in P THEN [m EXCEPT !.waiting = FALSE] ELSE m : m \in reqs}

-----------------------------------------------------------------------------
(* runLoop. *)

\* Mutant: the ticker does not look at the role.
HeartbeatTick_AnyRole(n) ==
  /\ pc[n] = "select"
  /\ pc' = [pc EXCEPT ![n] = "beat"]
  /\ UNCHANGED <<nodeVars, pending, granted, netVars, histVars>>

\* case <-heartbeatTicker.C: the role is read under the lock, which is
\* released before sendHeartbeats takes it again.
HeartbeatTick(n) ==
  /\ pc[n] = "select" /\ state[n] = "Leader"
  /\ pc' = [pc EXCEPT ![n] = "beat"]
  /\ UNCHANGED <<nodeVars, pending, granted, netVars, histVars>>

\* case <-electionTimer.C and startElection up to the collection loop.  A
\* Leader, and a node with a recent heartbeat, only reset the timer.  Only the
\* loop itself makes n a Leader, so the test of the role still holds when
\* becomeCandidate takes the lock again.  With no peers the body of the
\* collection loop is never entered and the function returns.
startElection(n) ==
  /\ pc[n] = "select" /\ state[n] # "Leader"
  /\ ps[n].currentTerm < MaxTerm
  /\ becomeCandidate(n)
  /\ rvReqs' = rvReqs \cup Calls(n, ps[n].currentTerm + 1)
  /\ pending' = [pending EXCEPT ![n] = Peers(n)]
  /\ granted' = [granted EXCEPT ![n] = {}]
  /\ pc' = [pc EXCEPT ![n] = IF Peers(n) = {} THEN "select" ELSE "collect"]
  /\ UNCHANGED <<rvResps, aeReqs, aeResps, won>>

\* startElection returns before every result was read: the goroutines still
\* asking put their results into a channel that nobody reads.
LeaveElection(n, next, reqs) ==
  /\ pc' = [pc EXCEPT ![n] = next]
  /\ pending' = [pending EXCEPT ![n] = {}]
  /\ granted' = [granted EXCEPT ![n] = {}]
  /\ rvReqs' = Orphaned(reqs, n, Peers(n))
  /\ rvResps' = {r \in rvResps : r.to # n}

\* The collection loop goes on to the next result, if there is one to wait for.
NextResult(n, p, votes) ==
  /\ pending' = [pending EXCEPT ![n] = @ \ {p}]
  /\ IF pending[n] = {p}
       THEN /\ pc' = [pc EXCEPT ![n] = "select"]
            /\ granted' = [granted EXCEPT ![n] = {}]
       ELSE /\ granted' = [granted EXCEPT ![n] = votes]
            /\ UNCHANGED pc

\* A result with a higher term: step down and abandon the election.
VoteSuperseded(n, r) ==
  /\ r.term > ps[n].currentTerm
  /\ becomeFollower(n, r.term)
  /\ LeaveElection(n, "select", rvReqs)
  /\ UNCHANGED histVars

\* Mutant: every result is counted, granted or not.
VoteWins_CountsRejections(n, r) ==
  /\ r.term =< ps[n].currentTerm
  /\ 1 + Cardinality(granted[n] \cup {r.from}) >= Majority
  /\ state[n] = "Candidate"
  /\ becomeLeader(n)
  /\ LeaveElection(n, "beat", rvReqs)
  /\ UNCHANGED <<ps, disk, voted>>

\* The vote that completes a majority while n is still a Candidate; the
\* heartbeats that assert leadership are sent after the lock is released.
VoteWins(n, r) ==
  /\ r.term =< ps[n].currentTerm
  /\ r.voteGranted
  /\ 1 + Cardinality(granted[n] \cup {r.from}) >= Majority
  /\ state[n] = "Candidate"
  /\ becomeLeader(n)
  /\ LeaveElection(n, "beat", rvReqs)
  /\ UNCHANGED <<ps, disk, voted>>

\* Any other result: count it if granted and wait for the next one.
VoteCounted(n, r) ==
  LET votes == IF r.voteGranted THEN granted[n] \cup {r.from} ELSE granted[n]
  IN  /\ r.term =< ps[n].currentTerm
      /\ ~(r.voteGranted /\ 1 + Cardinality(votes) >= Majority /\ state[n] = "Candidate")
      /\ NextResult(n, r.from, votes)
      /\ rvResps' = rvResps \ {r}
      /\ UNCHANGED <<ps, disk, state, rvReqs, histVars>>

CollectVote(n, r) ==
  /\ pc[n] = "collect" /\ r.to = n
  /\ VoteSuperseded(n, r) \/ VoteWins(n, r) \/ VoteCounted(n, r)
  /\ UNCHANGED <<aeReqs, aeResps>>

\* Mutant: the error path returns without sending a result.
RequestVoteFails_NoResult(n, p) ==
  /\ pc[n] = "collect" /\ p \in pending[n]
  /\ rvReqs' = Orphaned(rvReqs, n, {p})
  /\ rvResps' = {r \in rvResps : ~(r.from = p /\ r.to = n)}
  /\ UNCHANGED <<nodeVars, loopVars, aeReqs, aeResps, histVars>>

\* transport.RequestVote returns an error: the request is still under way, or
\* was lost, or its reply is; the result is voteResult{granted: false}.
RequestVoteFails(n, p) ==
  /\ pc[n] = "collect" /\ p \in pending[n]
  /\ NextResult(n, p, granted[n])
  /\ rvReqs' = Orphaned(rvReqs, n, {p})
  /\ rvResps' = {r \in rvResps : ~(r.from = p /\ r.to = n)}
  /\ UNCHANGED <<nodeVars, aeReqs, aeResps, histVars>>

\* sendHeartbeats: the term is read anew under its own lock.
sendHeartbeats(n) ==
  /\ pc[n] = "beat"
  /\ aeReqs' = aeReqs \cup Calls(n, ps[n].currentTerm)
  /\ pc' = [pc EXCEPT ![n] = "select"]
  /\ UNCHANGED <<nodeVars, pending, granted, rvReqs, rvResps, aeResps, histVars>>

-----------------------------------------------------------------------------
(* RPC handlers and replies. *)

Reply(m, term, ok) ==
  /\ rvReqs' = rvReqs \ {m}
  /\ rvResps' = IF m.waiting
       THEN rvResps \cup {[from |-> m.to, to |-> m.from, term |-> term, voteGranted |-> ok]}
       ELSE rvResps

RejectVote(n, m) ==
  /\ \/ m.term < ps[n].currentTerm
     \/ m.term = ps[n].currentTerm /\ ps[n].votedFor \notin {None, m.from}
  /\ Reply(m, ps[n].currentTerm, FALSE)
  /\ UNCHANGED <<ps, disk, state, voted>>

\* Mutant: the vote already given in this term is not looked at.
GrantVote_VotesAgain(n, m) ==
  /\ m.term >= ps[n].currentTerm
  /\ state' = IF m.term > ps[n].currentTerm THEN [state EXCEPT ![n] = "Follower"] ELSE state
  /\ ps' = [ps EXCEPT ![n] = PS(m.term, m.from)]
  /\ saveState(n, PS(m.term, m.from), {})
  /\ voted' = voted \cup {<<n, m.term, m.from>>}
  /\ Reply(m, m.term, TRUE)

\* Mutant: a newer term is adopted without stepping down.
GrantVote_KeepsRole(n, m) ==
  /\ \/ m.term > ps[n].currentTerm
     \/ m.term = ps[n].currentTerm /\ ps[n].votedFor \in {None, m.from}
  /\ ps' = [ps EXCEPT ![n] = PS(m.term, m.from)]
  /\ saveState(n, PS(m.term, m.from), {})
  /\ voted' = voted \cup {<<n, m.term, m.from>>}
  /\ Reply(m, m.term, TRUE)
  /\ UNCHANGED state

\* A newer term first makes n a follower that has not voted, and is saved;
\* then the vote is recorded and saved.
GrantVote(n, m) ==
  /\ \/ m.term > ps[n].currentTerm
     \/ m.term = ps[n].currentTerm /\ ps[n].votedFor \in {None, m.from}
  /\ state' = IF m.term > ps[n].currentTerm THEN [state EXCEPT ![n] = "Follower"] ELSE state
  /\ ps' = [ps EXCEPT ![n] = PS(m.term, m.from)]
  /\ saveState(n, PS(m.term, m.from),
               IF m.term > ps[n].currentTerm THEN {PS(m.term, None)} ELSE {})
  /\ voted' = voted \cup {<<n, m.term, m.from>>}
  /\ Reply(m, m.term, TRUE)

HandleRequestVote(n, m) ==
  /\ m.to = n
  /\ RejectVote(n, m) \/ GrantVote(n, m)
  /\ UNCHANGED <<loopVars, aeReqs, aeResps, won>>

RejectHeartbeat(n, m) ==
  /\ m.term < ps[n].currentTerm
  /\ aeResps' = IF m.waiting
       THEN aeResps \cup {[to |-> m.from, term |-> ps[n].currentTerm]} ELSE aeResps
  /\ UNCHANGED <<ps, disk, state>>

\* A success reply carries m.term, which never exceeds the sender's own term:
\* its arrival changes nothing and is not recorded.
AcceptHeartbeat(n, m) ==
  /\ m.term >= ps[n].currentTerm
  /\ IF m.term > ps[n].currentTerm \/ state[n] = "Candidate"
       THEN becomeFollower(n, m.term)
       ELSE UNCHANGED <<ps, disk, state>>
  /\ UNCHANGED aeResps

\* A leader sends the same heartbeat again and again, so a request stays
\* available for delivery.
HandleAppendEntries(n, m) ==
  /\ m.to = n
  /\ RejectHeartbeat(n, m) \/ AcceptHeartbeat(n, m)
  /\ UNCHANGED <<loopVars, rvReqs, rvResps, aeReqs, histVars>>

\* Mutant: the reply to a heartbeat is thrown away.
HeartbeatRejected_Ignored(n, r) ==
  /\ r.to = n
  /\ aeResps' = aeResps \ {r}
  /\ UNCHANGED <<nodeVars, loopVars, rvReqs, rvResps, aeReqs, histVars>>

\* The goroutine of sendHeartbeats reads a rejection.
HeartbeatRejected(n, r) ==
  /\ r.to = n
  /\ aeResps' = aeResps \ {r}
  /\ IF r.term > ps[n].currentTerm
       THEN becomeFollower(n, r.term)
       ELSE UNCHANGED <<ps, disk, state>>
  /\ UNCHANGED <<loopVars, rvReqs, rvResps, aeReqs, histVars>>

-----------------------------------------------------------------------------
(* The environment. *)

\* NewRaftNode and loadState in a new process; all that the old one held in
\* memory, its goroutines included, is gone.
Reboot(n, file, reqs) ==
  /\ n \in Crashable
  /\ ps' = [ps EXCEPT ![n] = file]
  /\ disk' = [disk EXCEPT ![n] = file]
  /\ state' = [state EXCEPT ![n] = "Follower"]
  /\ LeaveElection(n, "select", reqs)
  /\ aeReqs' = Orphaned(aeReqs, n, Peers(n))
  /\ aeResps' = {r \in aeResps : r.to # n}
  /\ UNCHANGED histVars

\* Mutant: loadState starts fresh although there is a file.
Restart_Fresh(n) == Reboot(n, PS(0, None), rvReqs)

Restart(n) == Reboot(n, disk[n], rvReqs)

\* The process dies inside HandleRequestVote, between becomeFollower's save of
\* the new term and the save of the vote.
CrashBetweenSaves(n, m) ==
  /\ m.to = n /\ m.term > ps[n].currentTerm
  /\ Reboot(n, PS(m.term, None), rvReqs \ {m})

-----------------------------------------------------------------------------
Loop(n) ==
  \/ HeartbeatTick(n) \/ startElection(n) \/ sendHeartbeats(n)
  \/ \E r \in rvResps : CollectVote(n, r)
  \/ \E p \in Server : RequestVoteFails(n, p)

Handlers(n) ==
  \/ \E m \in rvReqs : HandleRequestVote(n, m)
  \/ \E m \in aeReqs : HandleAppendEntries(n, m)
  \/ \E r \in aeResps : HeartbeatRejected(n, r)

Next ==
  \E n \in Server :
    \/ Loop(n) \/ Handlers(n)
    \/ Restart(n)
    \/ \E m \in rvReqs : CrashBetweenSaves(n, m)

Spec == Init /\ [][Next]_vars

\* What the scheduler and the network owe: timers fire, goroutines run, an RPC
\* returns with a reply or an error, and a heartbeat that a leader keeps
\* sending gets through once.  No node has to crash.
HeartbeatMsgs == [from : Server, to : Server, term : 0..MaxTerm, waiting : BOOLEAN]
Fairness ==
  /\ \A n \in Server : WF_vars(Loop(n))
  /\ \A n \in Server : WF_vars(\E r \in aeResps : HeartbeatRejected(n, r))
  /\ \A m \in HeartbeatMsgs : WF_vars(m \in aeReqs /\ HandleAppendEntries(m.to, m))

FairSpec == Spec /\ Fairness

-----------------------------------------------------------------------------
(* Safety. *)

\* A node gives its vote to at most one candidate per term, whatever crashes
\* and restarts happen in between (HandleRequestVote, becomeCandidate).
OneVotePerTerm ==
  \A u, v \in voted : u[1] = v[1] /\ u[2] = v[2] => u = v

\* At most one node ever becomes Leader of a term (startElection counts votes
\* with a majority of len(peers)+1).
ElectionSafety ==
  \A e, f \in won : e[2] = f[2] => e = f

\* A node in the Leader role has won the election of the term it is in: no
\* handler moves a Leader to a newer term without making it a Follower.
LeaderWonItsTerm ==
  \A n \in Server : state[n] = "Leader" => <<n, ps[n].currentTerm>> \in won

\* startElection compares no terms when it counts a vote, only the role: a
\* node that still is a Candidate there counts votes given in its own term.
CountedVotesAreCurrent ==
  \A n \in Server :
    pc[n] = "collect" /\ state[n] = "Candidate" =>
      \A p \in granted[n] \cup {n} : <<p, ps[n].currentTerm, n>> \in voted

\* A heartbeat comes from a node that has won an election, though maybe of an
\* older term than the one it carries (sendHeartbeats reads the term anew).
HeartbeatSenderWon ==
  \A m \in aeReqs : \E e \in won : e[1] = m.from /\ e[2] =< m.term

\* Within a term a vote is neither changed nor taken back, and terms never go
\* back, not even by a restart from the state file.
VoteIsFinal ==
  [][\A n \in Server :
       \/ ps'[n].currentTerm > ps[n].currentTerm
       \/ /\ ps'[n].currentTerm = ps[n].currentTerm
          /\ ps[n].votedFor # None => ps'[n].votedFor = ps[n].votedFor]_vars

-----------------------------------------------------------------------------
(* Liveness, under FairSpec. *)

\* startElection runs inside the event loop, which serves no heartbeat tick
\* meanwhile: it always comes back to the select statement.
ElectionEnds ==
  \A n \in Server : pc[n] = "collect" ~> pc[n] = "select"

\* A leader of a term that some node has left behind does not lead for ever:
\* it gets a heartbeat, a vote request or a rejection with the newer term.
OldLeaderStepsDown ==
  \A n \in Server :
    (state[n] = "Leader" /\ \E p \in Server : ps[p].currentTerm > ps[n].currentTerm)
      ~> state[n] # "Leader"

-----------------------------------------------------------------------------
(* What comments of the code say, and the code does not do. *)

\* rpc.go: "AppendEntriesRequest is sent by the leader as a heartbeat", its
\* Term is the "leader's current term".
HeartbeatFromLeader ==
  \A m \in aeReqs : <<m.from, m.term>> \in won

\* timer.go: "Majority votes received -> become Leader".  A node without
\* peers is a majority by itself, so it should not end an election as Candidate.
OwnMajorityWins ==
  Majority = 1 => \A n \in Server : ~(pc[n] = "select" /\ state[n] = "Candidate")
=============================================================================
