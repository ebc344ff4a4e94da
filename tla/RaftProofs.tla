----------------------------- MODULE RaftProofs -----------------------------
(***************************************************************************)
(* Proofs about internal/raft and the Coordinator it makes active, for every *)
(* cluster, every bound on terms and every choice of faulty nodes.           *)
(*                                                                         *)
(* In this order: types and the persistent state (terms only grow, a vote    *)
(* once given is kept); the collection loop of startElection (what its       *)
(* calls, the replies to them and the votes it has counted stand for);       *)
(* election safety, from the inductive invariant IInv of RaftInvariant; the  *)
(* process around the node (CoordinatorRole).                                *)
(*                                                                         *)
(* The hypothesis ReliableRestart, no node both drops the error of saveState *)
(* and restarts from its file, is needed only where a vote must survive a    *)
(* restart.  What rests on LoopInv and CoordInv does without it.             *)
(***************************************************************************)
EXTENDS RaftInvariant, CoordinatorRole, FiniteSetTheorems, TLAPS

-----------------------------------------------------------------------------
(* Types, and the persistent state. *)

\* Requests whose caller is gone are still requests.
LEMMA OrphanedType ==
  ASSUME NEW reqs \in SUBSET RequestVoteRequest, NEW n, NEW P
  PROVE  Orphaned(reqs, n, P) \subseteq RequestVoteRequest
BY Zenon DEF Orphaned, RequestVoteRequest

\* A round of requests has one for each peer.
LEMMA CallsFacts ==
  ASSUME NEW n \in Server, NEW t \in Nat
  PROVE  /\ Calls(n, t) \subseteq RequestVoteRequest
         /\ \A m \in Calls(n, t) : m.from = n /\ m.to \in Peers(n) /\ m.term = t
         /\ \A k, m \in Calls(n, t) : k.to = m.to => k = m
<1>. DEFINE req(p) == [from |-> n, to |-> p, term |-> t, waiting |-> TRUE]
<1>1. ASSUME NEW p \in Peers(n)
      PROVE  req(p) \in RequestVoteRequest /\ req(p).from = n /\ req(p).to = p /\ req(p).term = t
  BY DEF RequestVoteRequest, Peers
<1>2. Calls(n, t) = {req(p) : p \in Peers(n)}
  BY DEF Calls
<1>. HIDE DEF req
<1>. QED BY <1>1, <1>2

\* PS builds a persistentState.
LEMMA PSType ==
  ASSUME NEW t \in Nat, NEW v \in Server \cup {None}
  PROVE  PS(t, v) \in PState /\ PS(t, v).currentTerm = t /\ PS(t, v).votedFor = v
BY DEF PS, PState

\* saveState leaves persistentStates in the files.
LEMMA SaveType ==
  ASSUME TypeOK, NEW n \in Server, NEW new \in PState, NEW mid \in SUBSET PState,
         saveState(n, new, mid)
  PROVE  disk' \in [Server -> PState]
BY DEF saveState, TypeOK

\* becomeFollower preserves the types of what it writes.
LEMMA FollowerType ==
  ASSUME TypeOK, NEW n \in Server, NEW t \in Nat, becomeFollower(n, t)
  PROVE  /\ ps' \in [Server -> PState]
         /\ disk' \in [Server -> PState]
         /\ state' \in [Server -> Roles]
<1>1. state' \in [Server -> Roles]
  BY DEF becomeFollower, TypeOK, Roles
<1>2. CASE t > ps[n].currentTerm
  <2>1. ps' \in [Server -> PState]
    BY <1>2, PSType DEF becomeFollower, TypeOK
  <2>2. disk' \in [Server -> PState]
    BY <1>2, PSType, SaveType DEF becomeFollower
  <2>. QED BY <1>1, <2>1, <2>2
<1>3. CASE ~(t > ps[n].currentTerm)
  BY <1>1, <1>3 DEF becomeFollower, TypeOK
<1>. QED BY <1>2, <1>3

\* Leaving an election preserves the types of what it writes.
LEMMA LeaveType ==
  ASSUME TypeOK, NEW n \in Server, NEW next \in LoopPCs,
         NEW reqs \in SUBSET RequestVoteRequest, LeaveElection(n, next, reqs)
  PROVE  /\ pc' \in [Server -> LoopPCs]
         /\ pending' \in [Server -> SUBSET Server]
         /\ granted' \in [Server -> SUBSET Server]
         /\ rvReqs' \subseteq RequestVoteRequest
         /\ rvResps' \subseteq RequestVoteResponse
BY OrphanedType DEF LeaveElection, TypeOK

\* So does going on to the next result.
LEMMA NextResultType ==
  ASSUME TypeOK, NEW n \in Server, NEW p, NEW votes \in SUBSET Server,
         NextResult(n, p, votes)
  PROVE  /\ pc' \in [Server -> LoopPCs]
         /\ pending' \in [Server -> SUBSET Server]
         /\ granted' \in [Server -> SUBSET Server]
BY DEF NextResult, TypeOK, LoopPCs

\* Every step of a node, its handlers and the environment keeps the types.
LEMMA TypeStep ==
  ASSUME TypeOK, [Next]_vars
  PROVE  TypeOK'
<1>. USE ServerAssumption, FaultAssumption
<1>1. ASSUME NEW n \in Server, HeartbeatTick(n) PROVE TypeOK'
  BY <1>1 DEF HeartbeatTick, TypeOK, LoopPCs, nodeVars, netVars, histVars
<1>2. ASSUME NEW n \in Server, startElection(n) PROVE TypeOK'
  <2>. DEFINE new == PS(ps[n].currentTerm + 1, n)
  <2>1. ps[n].currentTerm + 1 \in Nat
    BY DEF TypeOK, PState
  <2>2. new \in PState /\ new.currentTerm = ps[n].currentTerm + 1
    BY <2>1, PSType
  <2>3. becomeCandidate(n)
    BY <1>2 DEF startElection
  <2>4. disk' \in [Server -> PState]
    BY <2>2, <2>3, SaveType DEF becomeCandidate
  <2>5. ps' \in [Server -> PState] /\ state' \in [Server -> Roles]
    BY <2>2, <2>3 DEF becomeCandidate, TypeOK, Roles
  <2>6. voted' \subseteq Server \X Nat \X Server
    BY <2>1, <2>2, <2>3 DEF becomeCandidate, TypeOK
  <2>7. rvReqs' \subseteq RequestVoteRequest
    BY <1>2, <2>1, CallsFacts DEF startElection, TypeOK
  <2>8. /\ pending' \in [Server -> SUBSET Server]
        /\ granted' \in [Server -> SUBSET Server]
        /\ pc' \in [Server -> LoopPCs]
    BY <1>2 DEF startElection, TypeOK, Peers, LoopPCs
  <2>. QED
    BY <1>2, <2>4, <2>5, <2>6, <2>7, <2>8 DEF startElection, TypeOK
<1>3. ASSUME NEW n \in Server, sendHeartbeats(n) PROVE TypeOK'
  <2>1. aeReqs' \subseteq AppendEntriesRequest
    BY <1>3, CallsFacts DEF sendHeartbeats, TypeOK, AppendEntriesRequest, PState
  <2>. QED
    BY <1>3, <2>1 DEF sendHeartbeats, TypeOK, LoopPCs, nodeVars, histVars
<1>4. ASSUME NEW n \in Server, NEW r \in rvResps, CollectVote(n, r) PROVE TypeOK'
  <2>0. r.from \in Server /\ r.term \in Nat
    BY DEF TypeOK, RequestVoteResponse
  <2>1. CASE VoteSuperseded(n, r)
    <3>1. becomeFollower(n, r.term) /\ LeaveElection(n, "select", rvReqs)
      BY <2>1 DEF VoteSuperseded
    <3>2. /\ pc' \in [Server -> LoopPCs]
          /\ pending' \in [Server -> SUBSET Server]
          /\ granted' \in [Server -> SUBSET Server]
          /\ rvReqs' \subseteq RequestVoteRequest
          /\ rvResps' \subseteq RequestVoteResponse
      BY <3>1, LeaveType DEF TypeOK, LoopPCs
    <3>3. /\ ps' \in [Server -> PState]
          /\ disk' \in [Server -> PState]
          /\ state' \in [Server -> Roles]
      BY <2>0, <3>1, FollowerType
    <3>. QED
      BY <1>4, <2>1, <3>2, <3>3 DEF CollectVote, VoteSuperseded, TypeOK, histVars
  <2>2. CASE VoteWins(n, r)
    <3>1. /\ pc' \in [Server -> LoopPCs]
          /\ pending' \in [Server -> SUBSET Server]
          /\ granted' \in [Server -> SUBSET Server]
          /\ rvReqs' \subseteq RequestVoteRequest
          /\ rvResps' \subseteq RequestVoteResponse
      BY <2>2, LeaveType DEF VoteWins, TypeOK, LoopPCs
    <3>2. state' \in [Server -> Roles] /\ won' \subseteq Server \X Nat
      BY <2>2 DEF VoteWins, becomeLeader, TypeOK, Roles, PState
    <3>. QED
      BY <1>4, <2>2, <3>1, <3>2 DEF CollectVote, VoteWins, TypeOK
  <2>3. CASE VoteCounted(n, r)
    <3>. DEFINE votes == IF r.voteGranted THEN granted[n] \cup {r.from} ELSE granted[n]
    <3>1. votes \in SUBSET Server
      BY <2>0 DEF TypeOK
    <3>2. NextResult(n, r.from, votes)
      BY <2>3 DEF VoteCounted
    <3>3. /\ pc' \in [Server -> LoopPCs]
          /\ pending' \in [Server -> SUBSET Server]
          /\ granted' \in [Server -> SUBSET Server]
      BY <3>1, <3>2, NextResultType
    <3>. QED
      BY <1>4, <2>3, <3>3 DEF CollectVote, VoteCounted, TypeOK, histVars
  <2>. QED BY <1>4, <2>1, <2>2, <2>3 DEF CollectVote
<1>5. ASSUME NEW n \in Server, NEW p \in Server, RequestVoteFails(n, p) PROVE TypeOK'
  <2>1. /\ pc' \in [Server -> LoopPCs]
        /\ pending' \in [Server -> SUBSET Server]
        /\ granted' \in [Server -> SUBSET Server]
    BY <1>5, NextResultType DEF RequestVoteFails, TypeOK
  <2>2. rvReqs' \subseteq RequestVoteRequest
    BY <1>5, OrphanedType DEF RequestVoteFails, TypeOK
  <2>. QED
    BY Zenon, <1>5, <2>1, <2>2 DEF RequestVoteFails, TypeOK, nodeVars, histVars
<1>6. ASSUME NEW n \in Server, NEW m \in rvReqs, HandleRequestVote(n, m) PROVE TypeOK'
  <2>0. m.from \in Server /\ m.to \in Server /\ m.term \in Nat /\ ps[n].currentTerm \in Nat
    BY DEF TypeOK, RequestVoteRequest, PState
  <2>1. ASSUME NEW t \in Nat, NEW ok \in BOOLEAN, Reply(m, t, ok)
        PROVE  rvReqs' \subseteq RequestVoteRequest /\ rvResps' \subseteq RequestVoteResponse
    BY <2>0, <2>1 DEF Reply, TypeOK, RequestVoteResponse
  <2>2. CASE RejectVote(n, m)
    BY Zenon, <1>6, <2>0, <2>1, <2>2 DEF HandleRequestVote, RejectVote, TypeOK, loopVars
  <2>3. CASE GrantVote(n, m)
    <3>1. PS(m.term, m.from) \in PState /\ PS(m.term, None) \in PState
      BY <2>0, PSType
    <3>2. disk' \in [Server -> PState]
      <4>. DEFINE mid == IF m.term > ps[n].currentTerm THEN {PS(m.term, None)} ELSE {}
      <4>1. mid \in SUBSET PState
        BY <3>1
      <4>2. saveState(n, PS(m.term, m.from), mid)
        BY <2>3 DEF GrantVote
      <4>. QED BY <3>1, <4>1, <4>2, SaveType
    <3>3. ps' \in [Server -> PState] /\ state' \in [Server -> Roles]
      BY <2>3, <3>1 DEF GrantVote, TypeOK, Roles
    <3>4. voted' \subseteq Server \X Nat \X Server
      BY <2>0, <2>3 DEF GrantVote, TypeOK
    <3>5. rvReqs' \subseteq RequestVoteRequest /\ rvResps' \subseteq RequestVoteResponse
      BY Zenon, <2>0, <2>1, <2>3 DEF GrantVote
    <3>. QED
      BY <1>6, <3>2, <3>3, <3>4, <3>5 DEF HandleRequestVote, TypeOK, loopVars
  <2>. QED BY <1>6, <2>2, <2>3 DEF HandleRequestVote
<1>7. ASSUME NEW n \in Server, NEW m \in aeReqs, HandleAppendEntries(n, m) PROVE TypeOK'
  <2>0. m.from \in Server /\ m.term \in Nat /\ ps[n].currentTerm \in Nat
    BY DEF TypeOK, AppendEntriesRequest, RequestVoteRequest, PState
  <2>1. CASE RejectHeartbeat(n, m)
    BY <1>7, <2>0, <2>1 DEF HandleAppendEntries, RejectHeartbeat, TypeOK, AppendEntriesResponse,
       loopVars, histVars
  <2>2. CASE AcceptHeartbeat(n, m)
    <3>1. /\ ps' \in [Server -> PState]
          /\ disk' \in [Server -> PState]
          /\ state' \in [Server -> Roles]
      BY <2>0, <2>2, FollowerType DEF AcceptHeartbeat, TypeOK
    <3>. QED
      BY <1>7, <2>2, <3>1 DEF HandleAppendEntries, AcceptHeartbeat, TypeOK, loopVars, histVars
  <2>. QED BY <1>7, <2>1, <2>2 DEF HandleAppendEntries
<1>8. ASSUME NEW n \in Server, NEW r \in aeResps, HeartbeatRejected(n, r) PROVE TypeOK'
  <2>0. r.term \in Nat
    BY DEF TypeOK, AppendEntriesResponse
  <2>1. /\ ps' \in [Server -> PState]
        /\ disk' \in [Server -> PState]
        /\ state' \in [Server -> Roles]
    BY <1>8, <2>0, FollowerType DEF HeartbeatRejected, TypeOK
  <2>. QED
    BY <1>8, <2>1 DEF HeartbeatRejected, TypeOK, loopVars, histVars
<1>9. ASSUME NEW n \in Server, NEW file \in PState, NEW reqs \in SUBSET rvReqs,
             Reboot(n, file, reqs)
      PROVE  TypeOK'
  <2>1. /\ pc' \in [Server -> LoopPCs]
        /\ pending' \in [Server -> SUBSET Server]
        /\ granted' \in [Server -> SUBSET Server]
        /\ rvReqs' \subseteq RequestVoteRequest
        /\ rvResps' \subseteq RequestVoteResponse
    BY <1>9, LeaveType DEF Reboot, TypeOK, LoopPCs
  <2>2. aeReqs' \subseteq AppendEntriesRequest
    BY <1>9, OrphanedType DEF Reboot, TypeOK, AppendEntriesRequest
  <2>. QED
    BY Zenon, <1>9, <2>1, <2>2 DEF Reboot, TypeOK, Roles, histVars
<1>10. ASSUME NEW n \in Server, Restart(n) PROVE TypeOK'
  BY <1>9, <1>10 DEF Restart, TypeOK
<1>11. ASSUME NEW n \in Server, NEW m \in rvReqs, CrashBetweenSaves(n, m) PROVE TypeOK'
  <2>1. PS(m.term, None) \in PState
    BY PSType DEF TypeOK, RequestVoteRequest
  <2>. QED BY <1>9, <1>11, <2>1 DEF CrashBetweenSaves
<1>12. CASE UNCHANGED vars
  BY <1>12 DEF vars, nodeVars, loopVars, netVars, histVars, TypeOK
<1>. QED
  BY <1>1, <1>2, <1>3, <1>4, <1>5, <1>6, <1>7, <1>8, <1>10, <1>11, <1>12
     DEF Next, Loop, Handlers

\* Every variable keeps its type.
THEOREM TypeCorrect == Spec => []TypeOK
<1>1. Init => TypeOK
  BY ServerAssumption, PSType DEF Init, TypeOK, Roles, LoopPCs, PState
<1>. QED BY <1>1, TypeStep, PTL DEF Spec

-----------------------------------------------------------------------------
(* Persistent state. *)

\* What becomeFollower does to the term and the vote.
LEMMA FollowerFacts ==
  ASSUME TypeOK, NEW n \in Server, NEW t \in Nat, becomeFollower(n, t)
  PROVE  /\ \A k \in Server : k # n => ps'[k] = ps[k] /\ disk'[k] = disk[k]
         /\ \/ ps' = ps /\ disk' = disk
            \/ /\ ps'[n].currentTerm > ps[n].currentTerm
               /\ n \notin FailingDisk => disk'[n] = ps'[n]
<1>1. CASE t > ps[n].currentTerm
  BY <1>1, PSType DEF becomeFollower, saveState, TypeOK
<1>2. CASE ~(t > ps[n].currentTerm)
  BY SMTT(30), <1>2 DEF becomeFollower
<1>. QED BY <1>1, <1>2

\* A step either leaves a node's persistent state alone, or moves it to a
\* newer term, or gives the one vote of its term; and it is saved.
PsForward(k) ==
  \/ ps'[k] = ps[k]
  \/ ps'[k].currentTerm > ps[k].currentTerm
  \/ /\ ps'[k].currentTerm = ps[k].currentTerm
     /\ ps[k].votedFor \in {None, ps'[k].votedFor}

\* Terms never go back and a vote of the present term stays, in memory and in the
\* state file: what every caller of saveState preserves.
LEMMA PsStep ==
  ASSUME TypeOK, FreshDisk, ReliableRestart, [Next]_vars
  PROVE  /\ \A k \in Server : PsForward(k)
         /\ FreshDisk'
<1>. USE ServerAssumption, FaultAssumption DEF PsForward, FreshDisk
<1>. DEFINE G == (\A k \in Server : PsForward(k)) /\ FreshDisk'
<1>0. ASSUME UNCHANGED <<ps, disk>> PROVE G
  BY <1>0
<1>a. ASSUME NEW n \in Server, NEW t \in Nat, becomeFollower(n, t) PROVE G
  BY <1>a, FollowerFacts DEF ReliableRestart
<1>1. ASSUME NEW n \in Server, HeartbeatTick(n) PROVE G
  BY <1>0, <1>1 DEF HeartbeatTick, nodeVars
<1>2. ASSUME NEW n \in Server, startElection(n) PROVE G
  <2>. DEFINE new == PS(ps[n].currentTerm + 1, n)
  <2>1. ps[n].currentTerm \in Nat /\ new.currentTerm = ps[n].currentTerm + 1
    BY PSType DEF TypeOK, PState
  <2>2. ps' = [ps EXCEPT ![n] = new] /\ saveState(n, new, {})
    BY <1>2 DEF startElection, becomeCandidate
  <2>3. \A k \in Server : k # n => ps'[k] = ps[k] /\ disk'[k] = disk[k]
    BY <2>2 DEF saveState, TypeOK
  <2>4. ps'[n] = new /\ (n \in Crashable => disk'[n] = new)
    BY <2>2 DEF saveState, TypeOK, ReliableRestart
  <2>. QED BY <2>1, <2>3, <2>4
<1>3. ASSUME NEW n \in Server, sendHeartbeats(n) PROVE G
  BY <1>0, <1>3, SMTT(30) DEF sendHeartbeats, nodeVars
<1>4. ASSUME NEW n \in Server, NEW r \in rvResps, CollectVote(n, r) PROVE G
  <2>1. r.term \in Nat
    BY DEF TypeOK, RequestVoteResponse
  <2>. QED
    BY <1>0, <1>a, <1>4, <2>1 DEF CollectVote, VoteSuperseded, VoteWins, VoteCounted
<1>5. ASSUME NEW n \in Server, NEW p \in Server, RequestVoteFails(n, p) PROVE G
  BY <1>0, <1>5 DEF RequestVoteFails, nodeVars
<1>6. ASSUME NEW n \in Server, NEW m \in rvReqs, HandleRequestVote(n, m) PROVE G
  <2>1. CASE RejectVote(n, m)
    BY <1>0, <2>1 DEF RejectVote
  <2>2. CASE GrantVote(n, m)
    <3>. DEFINE new == PS(m.term, m.from)
    <3>1. new.currentTerm = m.term /\ new.votedFor = m.from
      BY DEF PS
    <3>2. ps' = [ps EXCEPT ![n] = new]
      BY <2>2 DEF GrantVote
    <3>3. \A k \in Server : k # n => ps'[k] = ps[k] /\ disk'[k] = disk[k]
      BY <2>2 DEF GrantVote, saveState, TypeOK
    <3>4. ps'[n] = new /\ (n \in Crashable => disk'[n] = new)
      BY <2>2 DEF GrantVote, saveState, TypeOK, ReliableRestart
    <3>5. \/ m.term > ps[n].currentTerm
          \/ m.term = ps[n].currentTerm /\ ps[n].votedFor \in {None, m.from}
      BY <2>2 DEF GrantVote
    <3>. QED BY <3>1, <3>3, <3>4, <3>5
  <2>. QED BY <1>6, <2>1, <2>2 DEF HandleRequestVote
<1>7. ASSUME NEW n \in Server, NEW m \in aeReqs, HandleAppendEntries(n, m) PROVE G
  <2>1. m.term \in Nat
    BY DEF TypeOK, AppendEntriesRequest, RequestVoteRequest
  <2>. QED
    BY <1>0, <1>a, <1>7, <2>1 DEF HandleAppendEntries, RejectHeartbeat, AcceptHeartbeat
<1>8. ASSUME NEW n \in Server, NEW r \in aeResps, HeartbeatRejected(n, r) PROVE G
  <2>1. r.term \in Nat
    BY DEF TypeOK, AppendEntriesResponse
  <2>. QED BY <1>0, <1>a, <1>8, <2>1 DEF HeartbeatRejected
<1>9. ASSUME NEW n \in Server, Restart(n) PROVE G
  BY <1>9 DEF Restart, Reboot, TypeOK
<1>10. ASSUME NEW n \in Server, NEW m \in rvReqs, CrashBetweenSaves(n, m) PROVE G
  <2>1. PS(m.term, None).currentTerm = m.term
    BY DEF PS
  <2>. QED BY <1>10, <2>1, SMTT(30) DEF CrashBetweenSaves, Reboot, TypeOK
<1>11. CASE UNCHANGED vars
  BY <1>0, <1>11 DEF vars, nodeVars
<1>. QED
  BY <1>1, <1>2, <1>3, <1>4, <1>5, <1>6, <1>7, <1>8, <1>9, <1>10, <1>11, Zenon
     DEF Next, Loop, Handlers

\* A step gives at most one vote, and the voter remembers it.
LEMMA VotedStep ==
  ASSUME TypeOK, [Next]_vars
  PROVE  \/ voted' = voted
         \/ \E n \in Server :
              voted' = voted \cup {<<n, ps'[n].currentTerm, ps'[n].votedFor>>}
<1>. USE ServerAssumption, FaultAssumption
<1>1. ASSUME NEW n \in Server, startElection(n)
      PROVE  voted' = voted \cup {<<n, ps'[n].currentTerm, ps'[n].votedFor>>}
  BY <1>1 DEF startElection, becomeCandidate, PS, TypeOK
<1>2. ASSUME NEW n \in Server, NEW m \in rvReqs, HandleRequestVote(n, m)
      PROVE  \/ voted' = voted
             \/ voted' = voted \cup {<<n, ps'[n].currentTerm, ps'[n].votedFor>>}
  <2>1. CASE RejectVote(n, m)
    BY <2>1 DEF RejectVote
  <2>2. CASE GrantVote(n, m)
    BY <2>2 DEF GrantVote, PS, TypeOK
  <2>. QED BY <1>2, <2>1, <2>2, Zenon DEF HandleRequestVote
<1>3. ASSUME NEW n \in Server, NEW r \in rvResps, CollectVote(n, r) PROVE voted' = voted
  BY Zenon, <1>3 DEF CollectVote, VoteSuperseded, VoteWins, VoteCounted, histVars
<1>4. CASE UNCHANGED vars
  BY <1>4 DEF vars, histVars
<1>. QED
  BY ZenonT(30), <1>1, <1>2, <1>3, <1>4
     DEF Next, Loop, Handlers, HeartbeatTick, sendHeartbeats, RequestVoteFails,
         HandleAppendEntries, HeartbeatRejected, Restart, CrashBetweenSaves, Reboot, histVars

\* A step keeps the recorded votes in agreement with ps: one vote per node and term.
LEMMA VotesStep ==
  ASSUME TypeOK, TypeOK', FreshDisk, VotesRemembered, OneVotePerTerm, ReliableRestart, [Next]_vars
  PROVE  VotesRemembered' /\ OneVotePerTerm'
<1>1. \A k \in Server : PsForward(k)
  BY PsStep
<1>2. \A v \in voted : v[1] \in Server /\ v[2] \in Nat /\ v[3] \in Server
  BY DEF TypeOK
<1>3. \A v \in voted : /\ v[2] =< ps'[v[1]].currentTerm
                       /\ v[2] = ps'[v[1]].currentTerm => ps'[v[1]].votedFor = v[3]
  <2>. SUFFICES ASSUME NEW v \in voted
                PROVE  /\ v[2] =< ps'[v[1]].currentTerm
                       /\ v[2] = ps'[v[1]].currentTerm => ps'[v[1]].votedFor = v[3]
    OBVIOUS
  <2>1. ps[v[1]].currentTerm \in Nat /\ ps'[v[1]].currentTerm \in Nat
    BY <1>2 DEF TypeOK, PState
  <2>2. PsForward(v[1])
    BY <1>1, <1>2
  <2>. QED
    BY <1>2, <2>1, <2>2, ServerAssumption DEF VotesRemembered, PsForward
<1>4. CASE voted' = voted
  BY <1>3, <1>4 DEF VotesRemembered, OneVotePerTerm
<1>5. ASSUME NEW n \in Server,
             voted' = voted \cup {<<n, ps'[n].currentTerm, ps'[n].votedFor>>}
      PROVE  VotesRemembered' /\ OneVotePerTerm'
  <2>. DEFINE new == <<n, ps'[n].currentTerm, ps'[n].votedFor>>
  <2>1. ps'[n].currentTerm \in Nat
    BY DEF TypeOK, PState
  <2>2. VotesRemembered'
    BY <1>3, <1>5, <2>1 DEF VotesRemembered
  <2>3. ASSUME NEW u \in voted, u[1] = n, u[2] = ps'[n].currentTerm PROVE u = new
    BY <1>3, <2>3, SMTT(30) DEF TypeOK
  <2>4. OneVotePerTerm'
    BY <1>5, <2>3 DEF OneVotePerTerm
  <2>. QED BY <2>2, <2>4
<1>. QED BY <1>4, <1>5, VotedStep

-----------------------------------------------------------------------------
(* The collection loop of startElection. *)

\* Orphaning takes away the waiting requests of n to P, and nothing else.
LEMMA OrphanedWaiting ==
  ASSUME NEW reqs \in SUBSET RequestVoteRequest, NEW n, NEW P
  PROVE  \A k \in Orphaned(reqs, n, P) :
           k.waiting => k \in reqs /\ ~(k.from = n /\ k.to \in P)
BY DEF Orphaned, RequestVoteRequest

\* A request or reply that a caller still waits for belongs to its present round of
\* startElection.
LEMMA CallsMatchStep ==
  ASSUME TypeOK, CallsMatch, [Next]_vars
  PROVE  CallsMatch'
<1>0. /\ \A m \in rvReqs : m.from \in Server /\ m.to \in Server
      /\ \A r \in rvResps : r.from \in Server /\ r.to \in Server
  BY DEF TypeOK, RequestVoteRequest, RequestVoteResponse
<1>a. ASSUME UNCHANGED <<pc, pending, granted, rvReqs, rvResps>> PROVE CallsMatch'
  BY <1>a, SMTT(30) DEF CallsMatch
<1>b. ASSUME NEW n \in Server, NEW next, NEW reqs \in SUBSET rvReqs,
             LeaveElection(n, next, reqs)
      PROVE  CallsMatch'
  <2>1. \A k \in rvReqs' : k.waiting => k \in rvReqs /\ k.from # n
    <3>1. reqs \in SUBSET RequestVoteRequest
      BY DEF TypeOK
    <3>2. \A k \in rvReqs' : k.waiting => k \in reqs /\ ~(k.from = n /\ k.to \in Peers(n))
      BY <1>b, <3>1, OrphanedWaiting, SMTT(30) DEF LeaveElection
    <3>3. \A k \in rvReqs : k.waiting => k.to \in Peers(k.from)
      BY <1>0 DEF CallsMatch
    <3>. QED BY <3>2, <3>3
  <2>2. \A k \in Server : k # n => /\ pc'[k] = pc[k]
                                   /\ pending'[k] = pending[k]
                                   /\ granted'[k] = granted[k]
    BY <1>b DEF LeaveElection, TypeOK
  <2>3. pending'[n] = {} /\ granted'[n] = {}
    BY <1>b DEF LeaveElection, TypeOK
  <2>4. rvResps' = {r \in rvResps : r.to # n}
    BY <1>b, SMTT(30) DEF LeaveElection
  <2>. QED BY <1>0, <2>1, <2>2, <2>3, <2>4 DEF CallsMatch
<1>c. ASSUME NEW n \in Server, NEW p \in pending[n],
             NEW votes, votes \subseteq granted[n] \cup {p}, NextResult(n, p, votes),
             \A k \in rvReqs' : k.waiting => k \in rvReqs /\ ~(k.from = n /\ k.to = p),
             \A r \in rvResps' : r \in rvResps /\ ~(r.to = n /\ r.from = p)
      PROVE  CallsMatch'
  <2>1. pending[n] \subseteq Peers(n) /\ granted[n] \subseteq Peers(n)
    BY DEF CallsMatch
  <2>2. \A k \in Server : k # n => /\ pc'[k] = pc[k]
                                   /\ pending'[k] = pending[k]
                                   /\ granted'[k] = granted[k]
    BY <1>c, SMTT(30) DEF NextResult, TypeOK
  <2>3. pending'[n] = pending[n] \ {p} /\ granted'[n] \subseteq Peers(n)
    BY <1>c, <2>1 DEF NextResult, TypeOK
  <2>4. pending'[n] # {} => pc'[n] = pc[n]
    BY <1>c, <2>3 DEF NextResult, TypeOK
  <2>5. \A k \in Server : pending'[k] \subseteq Peers(k) /\ granted'[k] \subseteq Peers(k)
    BY <2>1, <2>2, <2>3, Zenon DEF CallsMatch
  <2>6. ASSUME NEW m \in rvReqs', m.waiting
        PROVE  pc'[m.from] = "collect" /\ m.to \in pending'[m.from]
    <3>1. m \in rvReqs /\ ~(m.from = n /\ m.to = p) /\ m.from \in Server
      BY <1>0, <1>c, <2>6, Zenon
    <3>2. pc[m.from] = "collect" /\ m.to \in pending[m.from]
      BY <2>6, <3>1, Zenon DEF CallsMatch
    <3>. QED BY <2>2, <2>3, <2>4, <3>1, <3>2
  <2>7. \A r \in rvResps' : pc'[r.to] = "collect" /\ r.from \in pending'[r.to]
    BY <1>0, <1>c, <2>2, <2>3, <2>4 DEF CallsMatch
  <2>. QED BY <1>c, <2>5, <2>6, <2>7 DEF CallsMatch
<1>1. ASSUME NEW n \in Server, startElection(n) PROVE CallsMatch'
  <2>. DEFINE new == Calls(n, ps[n].currentTerm + 1)
  <2>0. ps[n].currentTerm + 1 \in Nat
    BY SMTT(30) DEF TypeOK, PState
  <2>1. pc[n] = "select" /\ rvReqs' = rvReqs \cup new /\ rvResps' = rvResps
    BY <1>1 DEF startElection
  <2>2. /\ \A m \in rvReqs : m.waiting => m.from # n
        /\ \A r \in rvResps : r.to # n
    BY <2>1, Zenon DEF CallsMatch
  <2>3. \A k \in Server : k # n => /\ pc'[k] = pc[k]
                                   /\ pending'[k] = pending[k]
                                   /\ granted'[k] = granted[k]
    BY <1>1, SMTT(30) DEF startElection, TypeOK
  <2>4. pending'[n] = Peers(n) /\ granted'[n] = {}
    BY <1>1 DEF startElection, TypeOK
  <2>5. Peers(n) # {} => pc'[n] = "collect"
    BY <1>1, SMTT(30) DEF startElection, TypeOK
  <2>6. \A m \in new : m.from = n /\ m.to \in Peers(n)
    BY <2>0, CallsFacts, SMTT(30)
  <2>7. \A k, m \in new : k.to = m.to => k = m
    BY <2>0, CallsFacts, SMTT(30)
  <2>8. \A k \in Server : pending'[k] \subseteq Peers(k) /\ granted'[k] \subseteq Peers(k)
    BY <2>3, <2>4 DEF CallsMatch
  <2>9. \A m \in rvReqs' : m.waiting =>
          /\ pc'[m.from] = "collect" /\ m.to \in pending'[m.from]
          /\ \A k \in rvReqs' : k.waiting /\ k.from = m.from /\ k.to = m.to => k = m
          /\ \A r \in rvResps' : ~(r.from = m.to /\ r.to = m.from)
    <3>. SUFFICES ASSUME NEW m \in rvReqs', m.waiting
                  PROVE  /\ pc'[m.from] = "collect" /\ m.to \in pending'[m.from]
                         /\ \A k \in rvReqs' : k.waiting /\ k.from = m.from /\ k.to = m.to => k = m
                         /\ \A r \in rvResps' : ~(r.from = m.to /\ r.to = m.from)
      OBVIOUS
    <3>1. CASE m \in rvReqs
      BY <1>0, <2>1, <2>2, <2>3, <2>6, <3>1, Zenon DEF CallsMatch
    <3>2. CASE m \in new
      BY <2>1, <2>2, <2>4, <2>5, <2>6, <2>7, <3>2, Zenon
    <3>. QED BY <2>1, <3>1, <3>2, Zenon
  <2>10. \A r \in rvResps' :
           /\ pc'[r.to] = "collect" /\ r.from \in pending'[r.to]
           /\ \A q \in rvResps' : q.from = r.from /\ q.to = r.to => q = r
    BY <1>0, <2>1, <2>2, <2>3, Zenon DEF CallsMatch
  <2>. QED BY <2>8, <2>9, <2>10, Zenon DEF CallsMatch
<1>2. ASSUME NEW n \in Server, HeartbeatTick(n) \/ sendHeartbeats(n) PROVE CallsMatch'
  <2>1. pc[n] # "collect" /\ \A k \in Server : k # n => pc'[k] = pc[k]
    BY <1>2, SMTT(30) DEF HeartbeatTick, sendHeartbeats, TypeOK
  <2>2. UNCHANGED <<pending, granted, rvReqs, rvResps>>
    BY <1>2, SMTT(30) DEF HeartbeatTick, sendHeartbeats, netVars
  <2>. QED BY <1>0, <2>1, <2>2, Zenon DEF CallsMatch
<1>3. ASSUME NEW n \in Server, NEW r \in rvResps, CollectVote(n, r) PROVE CallsMatch'
  <2>1. CASE VoteSuperseded(n, r) \/ VoteWins(n, r)
    BY <1>b, <2>1, Zenon DEF VoteSuperseded, VoteWins
  <2>2. CASE VoteCounted(n, r)
    <3>. DEFINE votes == IF r.voteGranted THEN granted[n] \cup {r.from} ELSE granted[n]
    <3>1. NextResult(n, r.from, votes) /\ votes \subseteq granted[n] \cup {r.from}
      BY <2>2, Zenon DEF VoteCounted
    <3>2. r.to = n /\ r.from \in pending[n]
      BY <1>3, Zenon DEF CollectVote, CallsMatch
    <3>3. rvResps' = rvResps \ {r} /\ rvReqs' = rvReqs
      BY <2>2, Zenon DEF VoteCounted
    <3>4. \A k \in rvReqs' : k.waiting => k \in rvReqs /\ ~(k.from = n /\ k.to = r.from)
      BY <3>2, <3>3, Zenon DEF CallsMatch
    <3>5. \A q \in rvResps' : q \in rvResps /\ ~(q.to = n /\ q.from = r.from)
      BY <3>2, <3>3, SMTT(30) DEF CallsMatch
    <3>. QED BY <1>c, <3>1, <3>2, <3>4, <3>5, SMTT(30)
  <2>. QED BY <1>3, <2>1, <2>2 DEF CollectVote
<1>4. ASSUME NEW n \in Server, NEW p \in Server, RequestVoteFails(n, p) PROVE CallsMatch'
  <2>1. p \in pending[n] /\ NextResult(n, p, granted[n])
    BY <1>4, SMTT(30) DEF RequestVoteFails
  <2>2. \A k \in rvReqs' : k.waiting => k \in rvReqs /\ ~(k.from = n /\ k.to = p)
    BY <1>4, OrphanedWaiting DEF RequestVoteFails, TypeOK
  <2>3. \A r \in rvResps' : r \in rvResps /\ ~(r.to = n /\ r.from = p)
    BY <1>4, Zenon DEF RequestVoteFails
  <2>. QED BY <1>c, <2>1, <2>2, <2>3, SMTT(30)
<1>5. ASSUME NEW n \in Server, NEW m \in rvReqs, HandleRequestVote(n, m) PROVE CallsMatch'
  <2>1. UNCHANGED <<pc, pending, granted>>
    BY <1>5 DEF HandleRequestVote, loopVars
  <2>2. PICK t, ok : Reply(m, t, ok)
    BY Zenon, <1>5 DEF HandleRequestVote, RejectVote, GrantVote
  <2>. DEFINE new == [from |-> m.to, to |-> m.from, term |-> t, voteGranted |-> ok]
  <2>3. rvReqs' = rvReqs \ {m} /\ rvResps' = (IF m.waiting THEN rvResps \cup {new} ELSE rvResps)
    BY <2>2 DEF Reply
  <2>4. CASE m.waiting
    <3>1. new.from = m.to /\ new.to = m.from
      OBVIOUS
    <3>. HIDE DEF new
    <3>. QED BY <2>1, <2>3, <2>4, <3>1, SMTT(30) DEF CallsMatch
  <2>5. CASE ~m.waiting
    BY <2>1, <2>3, <2>5, Zenon DEF CallsMatch
  <2>. QED BY <2>4, <2>5
<1>6. ASSUME NEW n \in Server, NEW m \in aeReqs, HandleAppendEntries(n, m) PROVE CallsMatch'
  BY <1>a, <1>6 DEF HandleAppendEntries, loopVars
<1>7. ASSUME NEW n \in Server, NEW r \in aeResps, HeartbeatRejected(n, r) PROVE CallsMatch'
  BY <1>a, <1>7, Zenon DEF HeartbeatRejected, loopVars
<1>8. ASSUME NEW n \in Server, Restart(n) PROVE CallsMatch'
  BY <1>b, <1>8 DEF Restart, Reboot
<1>9. ASSUME NEW n \in Server, NEW m \in rvReqs, CrashBetweenSaves(n, m) PROVE CallsMatch'
  BY <1>b, <1>9, Zenon DEF CrashBetweenSaves, Reboot
<1>10. CASE UNCHANGED vars
  BY <1>a, <1>10 DEF vars, loopVars, netVars
<1>. QED
  BY <1>1, <1>2, <1>3, <1>4, <1>5, <1>6, <1>7, <1>8, <1>9, <1>10 DEF Next, Loop, Handlers

\* A node is a Candidate after a step only if it starts an election, or was a
\* Candidate of the same term before: every handler that moves it to a newer
\* term makes it a Follower.
LEMMA CandidateStep ==
  ASSUME TypeOK, [Next]_vars
  PROVE  \A k \in Server :
           \/ startElection(k)
           \/ state'[k] = "Candidate" =>
                state[k] = "Candidate" /\ ps'[k].currentTerm = ps[k].currentTerm
<1>. DEFINE G == \A k \in Server : state'[k] = "Candidate" =>
                   state[k] = "Candidate" /\ ps'[k].currentTerm = ps[k].currentTerm
<1>0. ASSUME UNCHANGED <<ps, state>> PROVE G
  BY <1>0
<1>a. ASSUME NEW n \in Server, NEW t \in Nat, becomeFollower(n, t) PROVE G
  <2>1. \A k \in Server : k # n => ps'[k] = ps[k]
    BY <1>a, FollowerFacts, Zenon
  <2>2. state' = [state EXCEPT ![n] = "Follower"]
    BY <1>a, SMTT(30) DEF becomeFollower
  <2>. QED BY <2>1, <2>2 DEF TypeOK
<1>1. ASSUME NEW n \in Server, startElection(n)
      PROVE  \A k \in Server : k # n =>
               (state'[k] = "Candidate" =>
                  state[k] = "Candidate" /\ ps'[k].currentTerm = ps[k].currentTerm)
  BY <1>1 DEF startElection, becomeCandidate, TypeOK
<1>2. ASSUME NEW n \in Server, NEW r \in rvResps, CollectVote(n, r) PROVE G
  <2>1. r.term \in Nat
    BY SMTT(30) DEF TypeOK, RequestVoteResponse
  <2>2. CASE VoteSuperseded(n, r)
    <3>1. becomeFollower(n, r.term)
      BY <2>2, Zenon DEF VoteSuperseded
    <3>. QED BY <1>a, <2>1, <3>1, Zenon
  <2>3. CASE VoteWins(n, r)
    BY <2>3 DEF VoteWins, becomeLeader, TypeOK
  <2>4. CASE VoteCounted(n, r)
    BY <1>0, <2>4, Zenon DEF VoteCounted
  <2>. QED BY <1>2, <2>2, <2>3, <2>4, Zenon DEF CollectVote
<1>3. ASSUME NEW n \in Server, NEW m \in rvReqs, HandleRequestVote(n, m) PROVE G
  <2>1. CASE RejectVote(n, m)
    BY <1>0, <2>1 DEF RejectVote
  <2>2. CASE GrantVote(n, m)
    <3>1. \A k \in Server : k # n => ps'[k] = ps[k] /\ state'[k] = state[k]
      BY <2>2, Zenon DEF GrantVote, TypeOK
    <3>2. CASE m.term > ps[n].currentTerm
      BY <2>2, <3>1, <3>2, Zenon DEF GrantVote, TypeOK
    <3>3. CASE ~(m.term > ps[n].currentTerm)
      <4>1. m.term = ps[n].currentTerm /\ ps'[n] = PS(m.term, m.from) /\ state' = state
        BY <2>2, <3>3, Zenon DEF GrantVote, TypeOK
      <4>. QED BY <3>1, <4>1 DEF PS
    <3>. QED BY <3>2, <3>3
  <2>. QED BY <1>3, <2>1, <2>2, SMTT(30) DEF HandleRequestVote
<1>4. ASSUME NEW n \in Server, NEW m \in aeReqs, HandleAppendEntries(n, m) PROVE G
  <2>1. m.term \in Nat
    BY DEF TypeOK, AppendEntriesRequest, RequestVoteRequest
  <2>. QED
    BY <1>0, <1>a, <1>4, <2>1, Zenon DEF HandleAppendEntries, RejectHeartbeat, AcceptHeartbeat
<1>5. ASSUME NEW n \in Server, NEW r \in aeResps, HeartbeatRejected(n, r) PROVE G
  <2>1. r.term \in Nat
    BY SMTT(30) DEF TypeOK, AppendEntriesResponse
  <2>. QED BY <1>0, <1>a, <1>5, <2>1, Zenon DEF HeartbeatRejected
<1>6. ASSUME NEW n \in Server, NEW file, NEW reqs, Reboot(n, file, reqs) PROVE G
  BY <1>6 DEF Reboot, TypeOK
<1>7. CASE UNCHANGED vars
  BY <1>0, <1>7, Zenon DEF vars, nodeVars
<1>. QED
  BY Zenon, <1>0, <1>1, <1>2, <1>3, <1>4, <1>5, <1>6, <1>7
     DEF Next, Loop, Handlers, HeartbeatTick, sendHeartbeats, RequestVoteFails,
         Restart, CrashBetweenSaves, nodeVars

\* A reply goes to the caller of the request it answers, if that still waits, and
\* carries the decision; the request is consumed.
LEMMA ReplyFacts ==
  ASSUME NEW m, NEW t, NEW ok, Reply(m, t, ok)
  PROVE  /\ \A k \in rvReqs' : k \in rvReqs
         /\ \A r \in rvResps' :
              \/ r \in rvResps
              \/ m.waiting /\ r.from = m.to /\ r.to = m.from /\ r.voteGranted = ok
<1>1. \A k \in rvReqs' : k \in rvReqs
  BY DEF Reply
<1>. DEFINE new == [from |-> m.to, to |-> m.from, term |-> t, voteGranted |-> ok]
<1>2. new.from = m.to /\ new.to = m.from /\ new.voteGranted = ok
  BY Zenon
<1>. HIDE DEF new
<1>3. rvResps' = IF m.waiting THEN rvResps \cup {new} ELSE rvResps
  BY Zenon DEF Reply, new
<1>. QED BY <1>1, <1>2, <1>3, Zenon

\* Where calls, replies and counted votes come from.
LEMMA CallOrigins ==
  ASSUME TypeOK, CallsMatch, [Next]_vars
  PROVE  \/ \E n \in Server : startElection(n)
         \/ /\ \A m \in rvReqs' : m.waiting => m \in rvReqs
            /\ \A r \in rvResps' :
                 \/ r \in rvResps
                 \/ \E m \in rvReqs : /\ m.waiting /\ r.from = m.to /\ r.to = m.from
                                      /\ r.voteGranted => <<m.to, m.term, m.from>> \in voted'
            /\ \A n \in Server : pc'[n] = "collect" =>
                 /\ pc[n] = "collect"
                 /\ \A p \in granted'[n] :
                      p \in granted[n] \/ \E r \in rvResps : r.voteGranted /\ r.from = p /\ r.to = n
<1>. DEFINE Reqs == \A m \in rvReqs' : m.waiting => m \in rvReqs
            Resps == \A r \in rvResps' :
                 \/ r \in rvResps
                 \/ \E m \in rvReqs : /\ m.waiting /\ r.from = m.to /\ r.to = m.from
                                      /\ r.voteGranted => <<m.to, m.term, m.from>> \in voted'
            Counts == \A n \in Server : pc'[n] = "collect" =>
                 /\ pc[n] = "collect"
                 /\ \A p \in granted'[n] :
                      p \in granted[n] \/ \E r \in rvResps : r.voteGranted /\ r.from = p /\ r.to = n
            G == Reqs /\ Resps /\ Counts
<1>0. ASSUME UNCHANGED <<rvReqs, rvResps, pc, granted>> PROVE G
  BY <1>0
<1>b. ASSUME NEW n \in Server, NEW next \in {"select", "beat"}, NEW reqs \in SUBSET rvReqs,
             LeaveElection(n, next, reqs)
      PROVE  G
  <2>1. Reqs
    BY <1>b, OrphanedWaiting, SMTT(30) DEF LeaveElection, TypeOK
  <2>2. Resps
    BY <1>b, Zenon DEF LeaveElection
  <2>3. Counts
    BY <1>b, Zenon DEF LeaveElection, TypeOK
  <2>. QED BY <2>1, <2>2, <2>3, Zenon
<1>2. ASSUME NEW n \in Server, HeartbeatTick(n) \/ sendHeartbeats(n) PROVE G
  BY <1>2, Zenon DEF HeartbeatTick, sendHeartbeats, netVars, TypeOK
<1>3. ASSUME NEW n \in Server, NEW r \in rvResps, CollectVote(n, r) PROVE G
  <2>1. CASE VoteSuperseded(n, r) \/ VoteWins(n, r)
    BY <1>b, <2>1, Zenon DEF VoteSuperseded, VoteWins
  <2>2. CASE VoteCounted(n, r)
    <3>. DEFINE votes == IF r.voteGranted THEN granted[n] \cup {r.from} ELSE granted[n]
    <3>1. NextResult(n, r.from, votes) /\ r.to = n /\ pc[n] = "collect"
      BY <1>3, <2>2, Zenon DEF VoteCounted, CollectVote
    <3>2. Reqs /\ Resps
      BY <2>2, Zenon DEF VoteCounted
    <3>3. /\ \A k \in Server : k # n => pc'[k] = pc[k] /\ granted'[k] = granted[k]
          /\ granted'[n] \subseteq votes
      BY <3>1, Zenon DEF NextResult, TypeOK
    <3>4. \A p \in votes : p \in granted[n] \/ (r.voteGranted /\ r.from = p)
      OBVIOUS
    <3>5. Counts
      BY <3>1, <3>3, <3>4, Zenon
    <3>. QED BY <3>2, <3>5, Zenon
  <2>. QED BY <1>3, <2>1, <2>2, Zenon DEF CollectVote
<1>4. ASSUME NEW n \in Server, NEW p \in Server, RequestVoteFails(n, p) PROVE G
  <2>1. Reqs
    BY <1>4, OrphanedWaiting, SMTT(30) DEF RequestVoteFails, TypeOK
  <2>2. Resps
    BY <1>4, Zenon DEF RequestVoteFails
  <2>3. Counts
    BY <1>4, Zenon DEF RequestVoteFails, NextResult, TypeOK
  <2>. QED BY <2>1, <2>2, <2>3, Zenon
<1>5. ASSUME NEW n \in Server, NEW m \in rvReqs, HandleRequestVote(n, m) PROVE G
  <2>1. Counts
    BY <1>5, Zenon DEF HandleRequestVote, loopVars
  <2>2. m.to = n
    BY <1>5 DEF HandleRequestVote
  <2>3. CASE RejectVote(n, m)
    <3>1. Reply(m, ps[n].currentTerm, FALSE)
      BY Zenon, <2>3 DEF RejectVote
    <3>2. Reqs /\ Resps
      BY Zenon, <3>1, ReplyFacts
    <3>. QED BY <2>1, <3>2, Zenon
  <2>4. CASE GrantVote(n, m)
    <3>1. Reply(m, m.term, TRUE)
      BY Zenon, <2>4 DEF GrantVote
    <3>2. <<m.to, m.term, m.from>> \in voted'
      BY <2>2, <2>4, Zenon DEF GrantVote
    <3>3. Reqs /\ Resps
      BY Zenon, <3>1, <3>2, ReplyFacts
    <3>. QED BY <2>1, <3>3, Zenon
  <2>. QED BY <1>5, <2>3, <2>4, Zenon DEF HandleRequestVote
<1>6. ASSUME NEW n \in Server, Restart(n) PROVE G
  BY <1>b, <1>6, Zenon DEF Restart, Reboot
<1>7. ASSUME NEW n \in Server, NEW m \in rvReqs, CrashBetweenSaves(n, m) PROVE G
  BY <1>b, <1>7, Zenon DEF CrashBetweenSaves, Reboot
<1>8. ASSUME UNCHANGED vars PROVE G
  BY <1>0, <1>8, Zenon DEF vars, loopVars, netVars
<1>9. ASSUME NEW n \in Server, NEW m \in aeReqs, HandleAppendEntries(n, m) PROVE G
  BY <1>0, <1>9, Zenon DEF HandleAppendEntries, loopVars
<1>10. ASSUME NEW n \in Server, NEW r \in aeResps, HeartbeatRejected(n, r) PROVE G
  BY <1>0, <1>10, Zenon DEF HeartbeatRejected, loopVars
<1>. HIDE DEF G
<1>11. (\E n \in Server : startElection(n)) \/ G
  <2>1. ASSUME NEW n \in Server, Loop(n), ~startElection(n) PROVE G
    BY <1>2, <1>3, <1>4, <2>1 DEF Loop
  <2>2. ASSUME NEW n \in Server, Handlers(n) PROVE G
    BY <1>5, <1>9, <1>10, <2>2 DEF Handlers
  <2>3. CASE Next
    <3>1. PICK n \in Server : \/ Loop(n) \/ Handlers(n) \/ Restart(n)
                              \/ \E m \in rvReqs : CrashBetweenSaves(n, m)
      BY <2>3 DEF Next
    <3>. QED BY <1>6, <1>7, <2>1, <2>2, <3>1, SMTT(30)
  <2>. QED BY <1>8, <2>3, SMTT(30)
<1>. QED BY <1>11, Zenon DEF G

\* A Candidate inside startElection counts votes of its present term only.
LEMMA CurrentStep ==
  ASSUME TypeOK, CallsMatch, CallsAreCurrent, CountedVotesAreCurrent, [Next]_vars
  PROVE  CallsAreCurrent' /\ CountedVotesAreCurrent'
<1>0. /\ \A m \in rvReqs : m.from \in Server /\ m.to \in Server
      /\ \A r \in rvResps : r.from \in Server /\ r.to \in Server
  BY DEF TypeOK, RequestVoteRequest, RequestVoteResponse
<1>1. voted \subseteq voted'
  BY VotedStep
<1>2. ASSUME NEW n \in Server, startElection(n)
      PROVE  CallsAreCurrent' /\ CountedVotesAreCurrent'
  <2>. DEFINE new == Calls(n, ps[n].currentTerm + 1)
  <2>0. ps[n].currentTerm + 1 \in Nat
    BY DEF TypeOK, PState
  <2>1. /\ pc[n] = "select" /\ rvReqs' = rvReqs \cup new /\ rvResps' = rvResps
        /\ becomeCandidate(n)
    BY <1>2, Zenon DEF startElection
  <2>2. /\ \A m \in rvReqs : m.waiting => m.from # n
        /\ \A r \in rvResps : r.to # n
    BY <2>1, Zenon DEF CallsMatch
  <2>3. \A k \in Server : k # n => /\ ps'[k] = ps[k]
                                   /\ state'[k] = state[k]
                                   /\ pc'[k] = pc[k]
                                   /\ granted'[k] = granted[k]
    BY <1>2, Zenon DEF startElection, becomeCandidate, TypeOK
  <2>4. /\ ps'[n].currentTerm = ps[n].currentTerm + 1
        /\ granted'[n] = {}
        /\ <<n, ps[n].currentTerm + 1, n>> \in voted'
    BY <1>2, Zenon DEF startElection, becomeCandidate, TypeOK, PS
  <2>5. \A m \in new : m.from = n /\ m.term = ps[n].currentTerm + 1
    <3>1. ASSUME NEW t \in Nat PROVE \A m \in Calls(n, t) : m.from = n /\ m.term = t
      BY CallsFacts
    <3>. QED BY <2>0, <3>1, Zenon
  <2>. HIDE DEF new
  <2>6. CallsAreCurrent'
    <3>1. ASSUME NEW m \in rvReqs', m.waiting, state'[m.from] = "Candidate"
          PROVE  m.term = ps'[m.from].currentTerm
      <4>1. CASE m \in new
        BY <2>4, <2>5, <4>1
      <4>2. CASE m \in rvReqs
        BY <1>0, <2>2, <2>3, <3>1, <4>2, SMTT(30) DEF CallsAreCurrent
      <4>. QED BY <2>1, <4>1, <4>2, Zenon
    <3>2. ASSUME NEW r \in rvResps', r.voteGranted, state'[r.to] = "Candidate"
          PROVE  <<r.from, ps'[r.to].currentTerm, r.to>> \in voted'
      BY <1>0, <1>1, <2>1, <2>2, <2>3, <3>2, Zenon DEF CallsAreCurrent
    <3>. QED BY <3>1, <3>2, Zenon DEF CallsAreCurrent
  <2>7. CountedVotesAreCurrent'
    BY <1>1, <2>3, <2>4, Zenon DEF CountedVotesAreCurrent
  <2>. QED BY <2>6, <2>7, SMTT(30)
<1>3. CASE ~\E n \in Server : startElection(n)
  <2>1. \A k \in Server : state'[k] = "Candidate" =>
          state[k] = "Candidate" /\ ps'[k].currentTerm = ps[k].currentTerm
    BY <1>3, CandidateStep, Zenon
  <2>2. \A m \in rvReqs' : m.waiting => m \in rvReqs
    BY <1>3, CallOrigins, Zenon
  <2>3. \A r \in rvResps' :
          \/ r \in rvResps
          \/ \E m \in rvReqs : /\ m.waiting /\ r.from = m.to /\ r.to = m.from
                               /\ r.voteGranted => <<m.to, m.term, m.from>> \in voted'
    BY <1>3, CallOrigins, Zenon
  <2>4. \A n \in Server : pc'[n] = "collect" =>
          /\ pc[n] = "collect"
          /\ \A p \in granted'[n] :
               p \in granted[n] \/ \E r \in rvResps : r.voteGranted /\ r.from = p /\ r.to = n
    BY <1>3, CallOrigins, Zenon
  <2>5. \A m \in rvReqs' : m.waiting /\ state'[m.from] = "Candidate" =>
          m.term = ps'[m.from].currentTerm
    BY <1>0, <2>1, <2>2, Zenon DEF CallsAreCurrent
  <2>6. \A r \in rvResps' : r.voteGranted /\ state'[r.to] = "Candidate" =>
          <<r.from, ps'[r.to].currentTerm, r.to>> \in voted'
    <3>. SUFFICES ASSUME NEW r \in rvResps', r.voteGranted, state'[r.to] = "Candidate"
                  PROVE  <<r.from, ps'[r.to].currentTerm, r.to>> \in voted'
      OBVIOUS
    <3>1. CASE r \in rvResps
      BY <1>0, <1>1, <2>1, <3>1, Zenon DEF CallsAreCurrent
    <3>2. ASSUME NEW m \in rvReqs, m.waiting, r.from = m.to, r.to = m.from,
                 <<m.to, m.term, m.from>> \in voted'
          PROVE  <<r.from, ps'[r.to].currentTerm, r.to>> \in voted'
      <4>1. m.term = ps'[m.from].currentTerm
        BY <1>0, <2>1, <3>2, Zenon DEF CallsAreCurrent
      <4>. QED BY <3>2, <4>1
    <3>. QED BY Zenon, <2>3, <3>1, <3>2
  <2>7. CallsAreCurrent'
    BY <2>5, <2>6, Zenon DEF CallsAreCurrent
  <2>8. CountedVotesAreCurrent'
    BY <1>1, <2>1, <2>4, SMTT(30) DEF CallsAreCurrent, CountedVotesAreCurrent
  <2>. QED BY <2>7, <2>8
<1>. QED BY <1>2, <1>3, SMTT(30)

-----------------------------------------------------------------------------
(* Elections. *)

\* Two majorities of the cluster have a node in common.
LEMMA MajoritiesMeet ==
  ASSUME NEW P \in SUBSET Server, NEW Q \in SUBSET Server,
         Cardinality(P) >= Majority, Cardinality(Q) >= Majority
  PROVE  P \cap Q # {}
<1>1. Cardinality(Server) \in Nat /\ Cardinality(P) \in Nat /\ Cardinality(Q) \in Nat
  BY ServerAssumption, FS_CardinalityType, FS_Subset, SMTT(30)
<1>2. Cardinality(P) + Cardinality(Q) > Cardinality(Server)
  BY <1>1, SMTT(30) DEF Majority
<1>. QED BY <1>2, ServerAssumption, FS_MajoritiesIntersect

\* With one vote per node and term, no term has two winners.
LEMMA OneWinner ==
  ASSUME TypeOK, OneVotePerTerm, WonByMajority
  PROVE  ElectionSafety
<1>. SUFFICES ASSUME NEW e \in won, NEW f \in won, e[2] = f[2]
              PROVE  e = f
  BY SMTT(30) DEF ElectionSafety
<1>1. PICK P \in SUBSET Server :
        Cardinality(P) >= Majority /\ \A p \in P : <<p, e[2], e[1]>> \in voted
  BY SMTT(30) DEF WonByMajority
<1>2. PICK Q \in SUBSET Server :
        Cardinality(Q) >= Majority /\ \A p \in Q : <<p, f[2], f[1]>> \in voted
  BY SMTT(30) DEF WonByMajority
<1>3. PICK p : p \in P /\ p \in Q
  BY <1>1, <1>2, MajoritiesMeet, SMTT(30)
<1>4. <<p, e[2], e[1]>> \in voted /\ <<p, e[2], f[1]>> \in voted
  BY <1>1, <1>2, <1>3, SMTT(30)
<1>5. e[1] = f[1]
  BY <1>4, SMTT(30) DEF OneVotePerTerm
<1>. QED BY <1>5 DEF TypeOK

\* becomeLeader is called with a majority of the votes of the term.
LEMMA WonStep ==
  ASSUME TypeOK, CallsMatch, CallsAreCurrent, CountedVotesAreCurrent, WonByMajority, [Next]_vars
  PROVE  WonByMajority'
<1>1. voted \subseteq voted'
  BY VotedStep, SMTT(30)
<1>2. CASE won' = won
  BY <1>1, <1>2, SMTT(30) DEF WonByMajority
<1>3. ASSUME NEW n \in Server, NEW r \in rvResps, CollectVote(n, r), VoteWins(n, r)
      PROVE  WonByMajority'
  <2>. DEFINE Q == granted[n] \cup {r.from} \cup {n}
              t == ps[n].currentTerm
  <2>1. /\ pc[n] = "collect" /\ r.to = n /\ r.voteGranted /\ state[n] = "Candidate"
        /\ 1 + Cardinality(granted[n] \cup {r.from}) >= Majority
        /\ won' = won \cup {<<n, t>>}
    BY <1>3, Zenon DEF CollectVote, VoteWins, becomeLeader
  <2>2. granted[n] \cup {r.from} \subseteq Peers(n)
    BY <2>1, Zenon DEF CallsMatch
  <2>3. Q \in SUBSET Server
    BY <2>2 DEF Peers
  <2>4. Cardinality(Q) >= Majority
    <3>1. IsFiniteSet(granted[n] \cup {r.from}) /\ n \notin granted[n] \cup {r.from}
      BY <2>2, <2>3, ServerAssumption, FS_Subset, Zenon DEF Peers
    <3>2. Cardinality(Q) = Cardinality(granted[n] \cup {r.from}) + 1
      BY Zenon, <3>1, FS_AddElement
    <3>3. Cardinality(granted[n] \cup {r.from}) \in Nat
      BY <3>1, FS_CardinalityType, Zenon
    <3>. QED BY <2>1, <3>2, <3>3, SMTT(30)
  <2>5. \A p \in Q : <<p, t, n>> \in voted
    BY <2>1, Zenon DEF CountedVotesAreCurrent, CallsAreCurrent
  <2>6. \A p \in Q : <<p, t, n>> \in voted'
    BY <1>1, <2>5, Zenon
  <2>. HIDE DEF Q, t
  <2>7. \A e \in won' : e \in won \/ e = <<n, t>>
    BY <2>1, Zenon
  <2>. QED BY <1>1, <2>3, <2>4, <2>6, <2>7 DEF WonByMajority
<1>4. ASSUME NEW n \in Server, NEW r \in rvResps, CollectVote(n, r)
      PROVE  WonByMajority'
  BY <1>2, <1>3, <1>4, Zenon DEF CollectVote, VoteSuperseded, VoteCounted, histVars
<1>5. CASE UNCHANGED vars
  BY <1>2, <1>5 DEF vars, histVars
<1>. QED
  BY Zenon, <1>2, <1>4, <1>5
     DEF Next, Loop, Handlers, HeartbeatTick, startElection, sendHeartbeats, RequestVoteFails,
         HandleRequestVote, HandleAppendEntries, HeartbeatRejected, Restart, CrashBetweenSaves,
         Reboot, histVars

\* The history of elections only grows.
LEMMA WonGrows ==
  ASSUME [Next]_vars
  PROVE  won \subseteq won'
<1>1. ASSUME NEW n \in Server, NEW r \in rvResps, CollectVote(n, r)
      PROVE  won \subseteq won'
  BY <1>1, Zenon DEF CollectVote, VoteSuperseded, VoteCounted, VoteWins, becomeLeader, histVars
<1>2. ASSUME NEW n \in Server, Loop(n) PROVE won \subseteq won'
  BY Zenon, <1>1, <1>2 DEF Loop, HeartbeatTick, startElection, sendHeartbeats, RequestVoteFails, histVars
<1>3. ASSUME NEW n \in Server, Handlers(n) PROVE won \subseteq won'
  BY <1>3, Zenon DEF Handlers, HandleRequestVote, HandleAppendEntries, HeartbeatRejected, histVars
<1>4. ASSUME NEW n \in Server, NEW file, NEW reqs, Reboot(n, file, reqs)
      PROVE  won \subseteq won'
  BY <1>4 DEF Reboot, histVars
<1>5. CASE UNCHANGED vars
  BY <1>5 DEF vars, histVars
<1>. QED BY Zenon, <1>2, <1>3, <1>4, <1>5 DEF Next, Restart, CrashBetweenSaves

\* A Leader after a step has just won, or was Leader of the same term before.
LEMMA LeaderStep ==
  ASSUME TypeOK, LeaderWonItsTerm, [Next]_vars
  PROVE  LeaderWonItsTerm'
<1>0. won \subseteq won'
  BY WonGrows, SMTT(30)
<1>. DEFINE Kept(k) == state'[k] = "Leader" =>
                         state[k] = "Leader" /\ ps'[k].currentTerm = ps[k].currentTerm
<1>a. ASSUME \A k \in Server : Kept(k) PROVE LeaderWonItsTerm'
  BY <1>0, <1>a, SMTT(30) DEF LeaderWonItsTerm
<1>b. ASSUME UNCHANGED <<ps, state>> PROVE LeaderWonItsTerm'
  BY <1>a, <1>b, SMTT(30)
<1>c. ASSUME NEW n \in Server, NEW t \in Nat, becomeFollower(n, t) PROVE LeaderWonItsTerm'
  <2>1. \A k \in Server : k # n => ps'[k] = ps[k]
    BY <1>c, FollowerFacts, Zenon
  <2>2. state' = [state EXCEPT ![n] = "Follower"]
    BY <1>c DEF becomeFollower
  <2>. QED BY <1>a, <2>1, <2>2 DEF TypeOK
<1>1. ASSUME NEW n \in Server, startElection(n) PROVE LeaderWonItsTerm'
  BY <1>a, <1>1, Zenon DEF startElection, becomeCandidate, TypeOK
<1>2. ASSUME NEW n \in Server, NEW r \in rvResps, CollectVote(n, r) PROVE LeaderWonItsTerm'
  <2>1. r.term \in Nat
    BY Zenon DEF TypeOK, RequestVoteResponse
  <2>2. CASE VoteSuperseded(n, r)
    BY <1>c, <2>1, <2>2, Zenon DEF VoteSuperseded
  <2>3. CASE VoteWins(n, r)
    BY <2>3, Zenon DEF VoteWins, becomeLeader, TypeOK, LeaderWonItsTerm
  <2>4. CASE VoteCounted(n, r)
    BY <1>b, <2>4, Zenon DEF VoteCounted
  <2>. QED BY <1>2, <2>2, <2>3, <2>4, Zenon DEF CollectVote
<1>3. ASSUME NEW n \in Server, NEW m \in rvReqs, HandleRequestVote(n, m) PROVE LeaderWonItsTerm'
  <2>1. CASE RejectVote(n, m)
    BY <1>b, <2>1, Zenon DEF RejectVote
  <2>2. CASE GrantVote(n, m)
    <3>1. \A k \in Server : k # n => ps'[k] = ps[k] /\ state'[k] = state[k]
      BY <2>2, Zenon DEF GrantVote, TypeOK
    <3>2. CASE m.term > ps[n].currentTerm
      BY <1>a, <2>2, <3>1, <3>2, Zenon DEF GrantVote, TypeOK
    <3>3. CASE ~(m.term > ps[n].currentTerm)
      <4>1. m.term = ps[n].currentTerm /\ ps'[n] = PS(m.term, m.from) /\ state' = state
        BY <2>2, <3>3, Zenon DEF GrantVote, TypeOK
      <4>. QED BY <1>a, <3>1, <4>1, SMTT(30) DEF PS
    <3>. QED BY <3>2, <3>3, Zenon
  <2>. QED BY <1>3, <2>1, <2>2, Zenon DEF HandleRequestVote
<1>4. ASSUME NEW n \in Server, NEW m \in aeReqs, HandleAppendEntries(n, m)
      PROVE  LeaderWonItsTerm'
  <2>1. m.term \in Nat
    BY DEF TypeOK, AppendEntriesRequest, RequestVoteRequest
  <2>. QED
    BY <1>b, <1>c, <1>4, <2>1, Zenon DEF HandleAppendEntries, RejectHeartbeat, AcceptHeartbeat
<1>5. ASSUME NEW n \in Server, NEW r \in aeResps, HeartbeatRejected(n, r)
      PROVE  LeaderWonItsTerm'
  <2>1. r.term \in Nat
    BY Zenon DEF TypeOK, AppendEntriesResponse
  <2>. QED BY <1>b, <1>c, <1>5, <2>1, Zenon DEF HeartbeatRejected
<1>6. ASSUME NEW n \in Server, NEW file, NEW reqs, Reboot(n, file, reqs) PROVE LeaderWonItsTerm'
  BY <1>a, <1>6, Zenon DEF Reboot, TypeOK
<1>7. CASE UNCHANGED vars
  BY <1>b, <1>7 DEF vars, nodeVars
<1>. QED
  BY Zenon, <1>b, <1>1, <1>2, <1>3, <1>4, <1>5, <1>6, <1>7
     DEF Next, Loop, Handlers, HeartbeatTick, sendHeartbeats, RequestVoteFails,
         Restart, CrashBetweenSaves, nodeVars

\* Going on to the next result does not put a node about to send heartbeats.
LEMMA NextResultNoBeat ==
  ASSUME TypeOK, NEW n \in Server, NEW p, NEW votes, NextResult(n, p, votes)
  PROVE  \A k \in Server : pc'[k] = "beat" => pc[k] = "beat"
<1>1. pc' = pc \/ pc' = [pc EXCEPT ![n] = "select"]
  BY DEF NextResult
<1>. QED BY <1>1, Zenon DEF TypeOK

\* Only a Leader, or a node that has just become one, is about to send
\* heartbeats; what happens to its term before it sends them cannot undo that
\* it won an election of an older term.
LEMMA BeatStep ==
  ASSUME IInv, TypeOK', ReliableRestart, [Next]_vars
  PROVE  BeaterWon' /\ HeartbeatSenderWon'
<1>t. /\ TypeOK /\ FreshDisk /\ LeaderWonItsTerm
      /\ BeaterWon /\ HeartbeatSenderWon
  BY SMTT(30) DEF IInv
<1>0. won \subseteq won'
  BY <1>t, WonGrows
<1>1. \A k \in Server : /\ ps[k].currentTerm \in Nat /\ ps'[k].currentTerm \in Nat
                        /\ ps[k].currentTerm =< ps'[k].currentTerm
  <2>1. \A k \in Server : ps[k].currentTerm \in Nat /\ ps'[k].currentTerm \in Nat
    BY <1>t, Zenon DEF TypeOK, PState
  <2>2. \A k \in Server : PsForward(k)
    BY <1>t, PsStep, SMTT(30)
  <2>. QED BY <2>1, <2>2, SMTT(30) DEF PsForward
<1>2. \A e \in won : e[2] \in Nat
  BY <1>t DEF TypeOK
<1>3. \A k \in Server : (\E e \in won : e[1] = k /\ e[2] =< ps[k].currentTerm)
                     => (\E e \in won' : e[1] = k /\ e[2] =< ps'[k].currentTerm)
  <2>. SUFFICES ASSUME NEW k \in Server, NEW e \in won, e[1] = k, e[2] =< ps[k].currentTerm
                PROVE  e \in won' /\ e[2] =< ps'[k].currentTerm
    OBVIOUS
  <2>. QED BY <1>0, <1>1, <1>2, SMTT(30)
<1>4. \A k \in Server : state[k] = "Leader" =>
        \E e \in won : e[1] = k /\ e[2] =< ps[k].currentTerm
  <2>. SUFFICES ASSUME NEW k \in Server, state[k] = "Leader"
                PROVE  \E e \in won : e[1] = k /\ e[2] =< ps[k].currentTerm
    OBVIOUS
  <2>1. <<k, ps[k].currentTerm>> \in won
    BY <1>t DEF LeaderWonItsTerm
  <2>2. <<k, ps[k].currentTerm>>[1] = k /\ <<k, ps[k].currentTerm>>[2] =< ps[k].currentTerm
    BY <1>1
  <2>. QED BY <2>1, <2>2, Zenon
<1>5. ASSUME \A k \in Server : pc'[k] = "beat" =>
               pc[k] = "beat" \/ state[k] = "Leader" \/ <<k, ps'[k].currentTerm>> \in won'
      PROVE  BeaterWon'
  <2>. SUFFICES ASSUME NEW k \in Server, pc'[k] = "beat"
                PROVE  \E e \in won' : e[1] = k /\ e[2] =< ps'[k].currentTerm
    BY DEF BeaterWon
  <2>1. CASE pc[k] = "beat" \/ state[k] = "Leader"
    BY <1>t, <1>3, <1>4, <2>1, Zenon DEF BeaterWon
  <2>2. CASE <<k, ps'[k].currentTerm>> \in won'
    <3>1. <<k, ps'[k].currentTerm>>[1] = k /\ <<k, ps'[k].currentTerm>>[2] =< ps'[k].currentTerm
      BY <1>1
    <3>. QED BY <2>2, <3>1
  <2>. QED BY <1>5, <2>1, <2>2
<1>6. ASSUME \A m \in aeReqs' :
               \/ \E k \in aeReqs : m.from = k.from /\ m.term = k.term
               \/ \E n \in Server : pc[n] = "beat" /\ m.from = n /\ m.term = ps[n].currentTerm
      PROVE  HeartbeatSenderWon'
  <2>. SUFFICES ASSUME NEW m \in aeReqs'
                PROVE  \E e \in won : e[1] = m.from /\ e[2] =< m.term
    BY <1>0 DEF HeartbeatSenderWon
  <2>. QED BY <1>t, <1>6 DEF HeartbeatSenderWon, BeaterWon
<1>7. ASSUME UNCHANGED <<pc, aeReqs>> PROVE BeaterWon' /\ HeartbeatSenderWon'
  BY <1>5, <1>6, <1>7
<1>8. ASSUME NEW n \in Server, HeartbeatTick(n) PROVE BeaterWon' /\ HeartbeatSenderWon'
  BY <1>t, <1>5, <1>6, <1>8, Zenon DEF HeartbeatTick, netVars, TypeOK
<1>9. ASSUME NEW n \in Server, startElection(n) PROVE BeaterWon' /\ HeartbeatSenderWon'
  BY <1>t, <1>5, <1>6, <1>9, Zenon DEF startElection, TypeOK
<1>10. ASSUME NEW n \in Server, sendHeartbeats(n) PROVE BeaterWon' /\ HeartbeatSenderWon'
  <2>1. \A m \in Calls(n, ps[n].currentTerm) : m.from = n /\ m.term = ps[n].currentTerm
    BY <1>1, CallsFacts
  <2>2. HeartbeatSenderWon'
    BY <1>6, <1>10, <2>1, Zenon DEF sendHeartbeats
  <2>3. BeaterWon'
    BY <1>t, <1>5, <1>10, Zenon DEF sendHeartbeats, TypeOK
  <2>. QED BY <2>2, <2>3
<1>11. ASSUME NEW n \in Server, NEW r \in rvResps, CollectVote(n, r)
       PROVE  BeaterWon' /\ HeartbeatSenderWon'
  <2>0. HeartbeatSenderWon'
    <3>1. aeReqs' = aeReqs
      BY <1>11, Zenon DEF CollectVote
    <3>. QED BY <1>6, <3>1, Zenon
  <2>2. CASE VoteSuperseded(n, r)
    <3>1. \A k \in Server : pc'[k] = "beat" => pc[k] = "beat"
      BY <1>t, <2>2, Zenon DEF VoteSuperseded, LeaveElection, TypeOK
    <3>. QED BY <1>5, <2>0, <3>1
  <2>3. CASE VoteWins(n, r)
    <3>1. \A k \in Server : pc'[k] = "beat" => pc[k] = "beat" \/ k = n
      BY <1>t, <2>3, Zenon DEF VoteWins, LeaveElection, TypeOK
    <3>2. ps' = ps /\ <<n, ps[n].currentTerm>> \in won'
      BY <2>3, Zenon DEF VoteWins, becomeLeader
    <3>. QED BY <1>5, <2>0, <3>1, <3>2, Zenon
  <2>4. CASE VoteCounted(n, r)
    <3>1. \A k \in Server : pc'[k] = "beat" => pc[k] = "beat"
      <4>1. PICK votes : NextResult(n, r.from, votes)
        BY <2>4 DEF VoteCounted
      <4>. QED BY <1>t, <4>1, NextResultNoBeat, Zenon
    <3>. QED BY <1>5, <2>0, <3>1
  <2>. QED BY <1>11, <2>2, <2>3, <2>4, Zenon DEF CollectVote
<1>12. ASSUME NEW n \in Server, NEW p \in Server, RequestVoteFails(n, p)
       PROVE  BeaterWon' /\ HeartbeatSenderWon'
  <2>1. HeartbeatSenderWon'
    <3>1. aeReqs' = aeReqs
      BY <1>12 DEF RequestVoteFails
    <3>. QED BY <1>6, <3>1
  <2>2. NextResult(n, p, granted[n])
    BY <1>12 DEF RequestVoteFails
  <2>3. \A k \in Server : pc'[k] = "beat" => pc[k] = "beat"
    BY <1>t, <2>2, NextResultNoBeat
  <2>. QED BY <1>5, <2>1, <2>3
<1>13. ASSUME NEW n \in Server, NEW file, NEW reqs, Reboot(n, file, reqs)
       PROVE  BeaterWon' /\ HeartbeatSenderWon'
  <2>1. \A m \in aeReqs' : \E k \in aeReqs : m.from = k.from /\ m.term = k.term
    BY <1>t, <1>13, SMTT(30) DEF Reboot, Orphaned, TypeOK, AppendEntriesRequest, RequestVoteRequest
  <2>2. HeartbeatSenderWon'
    BY <1>6, <2>1
  <2>3. BeaterWon'
    BY <1>t, <1>5, <1>13 DEF Reboot, LeaveElection, TypeOK
  <2>. QED BY <2>2, <2>3
<1>14. CASE UNCHANGED vars
  BY <1>7, <1>14 DEF vars, loopVars, netVars
<1>. QED
  BY Zenon, <1>7, <1>8, <1>9, <1>10, <1>11, <1>12, <1>13, <1>14
     DEF Next, Loop, Handlers, HandleRequestVote, HandleAppendEntries, HeartbeatRejected,
         Restart, CrashBetweenSaves, loopVars

-----------------------------------------------------------------------------
(* The theorems. *)

\* NewRaftNode on empty state directories establishes the inductive invariant.
LEMMA IInvInit == Init => IInv
<1>. SUFFICES ASSUME Init PROVE IInv
  OBVIOUS
<1>1. TypeOK
  BY PSType, ServerAssumption DEF Init, TypeOK, Roles, LoopPCs
<1>2. FreshDisk
  BY FaultAssumption DEF Init, FreshDisk
<1>3. VotesRemembered /\ OneVotePerTerm /\ WonByMajority
  BY DEF Init, VotesRemembered, OneVotePerTerm, WonByMajority
<1>4. CallsMatch
  BY SMTT(30) DEF Init, CallsMatch
<1>5. CallsAreCurrent
  BY DEF Init, CallsAreCurrent
<1>6. CountedVotesAreCurrent
  BY DEF Init, CountedVotesAreCurrent
<1>7. LeaderWonItsTerm
  BY DEF Init, LeaderWonItsTerm
<1>8. BeaterWon /\ HeartbeatSenderWon
  BY DEF Init, BeaterWon, HeartbeatSenderWon
<1>. QED BY <1>1, <1>2, <1>3, <1>4, <1>5, <1>6, <1>7, <1>8 DEF IInv

\* Every step preserves the inductive invariant.
LEMMA IInvStep ==
  ASSUME ReliableRestart, IInv, [Next]_vars
  PROVE  IInv'
<1>1. TypeOK'
  BY TypeStep DEF IInv
<1>2. FreshDisk'
  BY PsStep DEF IInv
<1>3. VotesRemembered' /\ OneVotePerTerm'
  BY <1>1, VotesStep DEF IInv
<1>4. CallsMatch'
  BY CallsMatchStep DEF IInv
<1>5. CallsAreCurrent' /\ CountedVotesAreCurrent'
  BY CurrentStep DEF IInv
<1>6. WonByMajority'
  BY WonStep DEF IInv
<1>7. LeaderWonItsTerm'
  BY LeaderStep DEF IInv
<1>8. BeaterWon' /\ HeartbeatSenderWon'
  BY <1>1, BeatStep
<1>. QED BY <1>1, <1>2, <1>3, <1>4, <1>5, <1>6, <1>7, <1>8 DEF IInv

\* The inductive invariant holds in every reachable state, provided that no node both
\* loses a save and restarts.
LEMMA IInvAlways ==
  ASSUME ReliableRestart
  PROVE  Spec => []IInv
<1>1. IInv /\ [Next]_vars => IInv'
  BY IInvStep
<1>. QED BY <1>1, IInvInit, PTL DEF Spec

\* At most one node becomes Leader of a term, in a cluster of any size, under
\* any loss, delay and reordering of RPCs, and under crashes of nodes whose
\* saveState does not fail.
THEOREM ElectionSafetyHolds ==
  ASSUME ReliableRestart
  PROVE  Spec => []ElectionSafety
<1>1. IInv => ElectionSafety
  BY OneWinner DEF IInv
<1>. QED BY <1>1, IInvAlways, PTL

\* Under the same hypothesis no node votes for two candidates of a term.
THEOREM OneVoteHolds ==
  ASSUME ReliableRestart
  PROVE  Spec => []OneVotePerTerm
<1>1. IInv => OneVotePerTerm
  BY DEF IInv
<1>. QED BY <1>1, IInvAlways, PTL

\* What the election loop keeps true even of a node that forgets a vote: its calls
\* and the votes it counts are those of its present term, and only a majority of
\* them makes it Leader.
LoopInv ==
  /\ TypeOK /\ CallsMatch /\ CallsAreCurrent /\ CountedVotesAreCurrent
  /\ WonByMajority /\ LeaderWonItsTerm

\* LoopInv holds in every reachable state, whatever is lost in a restart.
LEMMA LoopInvAlways == Spec => []LoopInv
<1>1. Init => LoopInv
  BY IInvInit DEF IInv, LoopInv
<1>2. LoopInv /\ [Next]_vars => LoopInv'
  BY TypeStep, CallsMatchStep, CurrentStep, WonStep, LeaderStep DEF LoopInv
<1>. QED BY <1>1, <1>2, PTL DEF Spec

\* A node in the Leader role has won the election of its present term, even when
\* saves are lost.
THEOREM RolesHold == Spec => []LeaderWonItsTerm
<1>1. LoopInv => LeaderWonItsTerm
  BY DEF LoopInv
<1>. QED BY <1>1, LoopInvAlways, PTL

\* A Candidate counts votes given in its present term only, although startElection
\* compares no terms when a reply comes in, even when saves are lost.
THEOREM CountedVotesHold == Spec => []CountedVotesAreCurrent
<1>1. LoopInv => CountedVotesAreCurrent
  BY DEF LoopInv
<1>. QED BY <1>1, LoopInvAlways, PTL

\* Every heartbeat comes from a node that has won an election of its term or
\* of an older one.
THEOREM HeartbeatSenderHolds ==
  ASSUME ReliableRestart
  PROVE  Spec => []HeartbeatSenderWon
<1>1. IInv => HeartbeatSenderWon
  BY DEF IInv
<1>. QED BY <1>1, IInvAlways, PTL

\* Terms never go back and a vote is never changed within a term, restarts
\* from the state file included.
THEOREM VoteFinalHolds ==
  ASSUME ReliableRestart
  PROVE  Spec => VoteIsFinal
<1>. DEFINE A == \A n \in Server :
       \/ ps'[n].currentTerm > ps[n].currentTerm
       \/ /\ ps'[n].currentTerm = ps[n].currentTerm
          /\ ps[n].votedFor # None => ps'[n].votedFor = ps[n].votedFor
<1>1. ASSUME IInv, [Next]_vars PROVE A
  BY <1>1, PsStep DEF IInv, PsForward
<1>2. IInv /\ [Next]_vars => [A]_vars
  BY <1>1
<1>. HIDE DEF A
<1>3. Spec => [][A]_vars
  BY <1>2, IInvAlways, PTL DEF Spec
<1>. QED BY <1>3 DEF A, VoteIsFinal

-----------------------------------------------------------------------------
(* The process around the node.  A full channel loses no announcement because *)
(* of what it can hold (OwnIdOnly): the node's own id, which says the same as  *)
(* the one that is thrown away.                                                *)

\* becomeLeader sends the node's own id and nothing else is ever sent.
OwnIdOnly ==
  \A n \in Server : leaderCh[n] \in {n, None} /\ received[n] \in {n, None}

HasWon(n) == \E e \in won : e[1] = n

\* What is on its way to the flag, and the flag, stand for a win.
WinBehind ==
  \A n \in Server :
    leaderCh[n] # None \/ received[n] # None \/ isLeader[n] => HasWon(n)

CoordInv ==
  /\ TypeOK /\ LeaderWonItsTerm /\ CoordinatorTypeOK
  /\ OwnIdOnly /\ WinBehind /\ LeaderIsAnnounced

\* Every step of the process is a step of its Raft node or none.
LEMMA CoordinatorStepIsRaftStep == [CoordinatorNext]_allVars => [Next]_vars
BY DEF CoordinatorNext, RaftStep, ProcessRestart, ReceiveLeader, SetLeader, Next, allVars

\* At the start nothing is won and nothing announced.
LEMMA CoordInitOK == CoordinatorInit => CoordInv
<1> SUFFICES ASSUME CoordinatorInit PROVE CoordInv  OBVIOUS
<1>1. TypeOK /\ LeaderWonItsTerm
  BY IInvInit DEF CoordinatorInit, IInv
<1>2. CoordinatorTypeOK /\ OwnIdOnly /\ WinBehind
  BY DEF CoordinatorInit, CoordinatorTypeOK, OwnIdOnly, WinBehind
<1>3. LeaderIsAnnounced
  BY DEF CoordinatorInit, Init, LeaderIsAnnounced
<1> QED  BY <1>1, <1>2, <1>3 DEF CoordInv

\* The Raft node takes a step, and announces when it becomes Leader.
LEMMA RaftStepKeeps ==
  ASSUME NEW n \in Server, CoordInv, RaftStep(n), TypeOK', LeaderWonItsTerm',
         won \subseteq won'
  PROVE  CoordInv'
<1> USE DEF CoordInv
<1>1. /\ leaderCh' = [k \in Server |->
                        IF state[k] # "Leader" /\ state'[k] = "Leader" /\ leaderCh[k] = None
                          THEN k ELSE leaderCh[k]]
      /\ received' = received /\ isLeader' = isLeader
  BY SMTT(30) DEF RaftStep, announce
<1>2. CoordinatorTypeOK' /\ OwnIdOnly'
  BY <1>1 DEF CoordinatorTypeOK, OwnIdOnly
<1>3. \A k \in Server : HasWon(k) => HasWon(k)'
  BY DEF HasWon
<1>4. \A k \in Server : state'[k] = "Leader" => HasWon(k)'
  BY Zenon DEF LeaderWonItsTerm, HasWon
<1>5. WinBehind'
  BY <1>1, <1>3, <1>4, Zenon DEF WinBehind
<1>6. LeaderIsAnnounced'
  BY <1>1 DEF LeaderIsAnnounced, OwnIdOnly
<1> QED  BY <1>2, <1>5, <1>6

\* A new process is no Leader and has nothing to announce.
LEMMA ProcessRestartKeeps ==
  ASSUME NEW n \in Server, CoordInv, ProcessRestart(n), TypeOK', LeaderWonItsTerm',
         won \subseteq won'
  PROVE  CoordInv'
<1> USE DEF CoordInv
<1>1. state' = [state EXCEPT ![n] = "Follower"]
  BY Zenon DEF ProcessRestart, Restart, CrashBetweenSaves, Reboot
<1>2. CoordinatorTypeOK' /\ OwnIdOnly'
  BY DEF ProcessRestart, CoordinatorTypeOK, OwnIdOnly
<1>3. WinBehind'
  BY Zenon DEF ProcessRestart, CoordinatorTypeOK, WinBehind, HasWon
<1>4. LeaderIsAnnounced'
  BY <1>1, Zenon DEF ProcessRestart, CoordinatorTypeOK, LeaderIsAnnounced, TypeOK
<1> QED  BY <1>2, <1>3, <1>4

\* The goroutine takes the id from the channel, and sets the flag from it.
LEMMA GoroutineKeeps ==
  ASSUME NEW n \in Server, CoordInv, ReceiveLeader(n) \/ SetLeader(n), TypeOK', LeaderWonItsTerm'
  PROVE  CoordInv'
<1> USE DEF CoordInv
<1>1. won' = won /\ state' = state
  BY Zenon DEF ReceiveLeader, SetLeader, vars, nodeVars, histVars
<1>2. CASE ReceiveLeader(n)
  <2>1. CoordinatorTypeOK' /\ OwnIdOnly'
    BY <1>2 DEF ReceiveLeader, CoordinatorTypeOK, OwnIdOnly
  <2>2. WinBehind'
    BY <1>1, <1>2, Zenon DEF ReceiveLeader, CoordinatorTypeOK, WinBehind, HasWon
  <2>3. LeaderIsAnnounced'
    BY <1>1, <1>2, ServerAssumption, Zenon DEF ReceiveLeader, CoordinatorTypeOK, OwnIdOnly, LeaderIsAnnounced
  <2> QED  BY <2>1, <2>2, <2>3
<1>3. CASE SetLeader(n)
  <2>0. isLeader' = [isLeader EXCEPT ![n] = TRUE]
    BY <1>3, Zenon DEF SetLeader, OwnIdOnly
  <2>1. CoordinatorTypeOK' /\ OwnIdOnly'
    BY <1>3, <2>0, SMTT(30) DEF SetLeader, CoordinatorTypeOK, OwnIdOnly
  <2>2. WinBehind'
    BY <1>1, <1>3, <2>0, SMTT(30) DEF SetLeader, CoordinatorTypeOK, WinBehind, HasWon
  <2>3. LeaderIsAnnounced'
    BY <1>1, <1>3, <2>0 DEF SetLeader, CoordinatorTypeOK, LeaderIsAnnounced
  <2> QED  BY <2>1, <2>2, <2>3
<1> QED  BY <1>2, <1>3

\* Every step of a process keeps CoordInv.
LEMMA CoordStep == CoordInv /\ [CoordinatorNext]_allVars => CoordInv'
<1> SUFFICES ASSUME CoordInv, [CoordinatorNext]_allVars PROVE CoordInv'  OBVIOUS
<1>1. [Next]_vars
  BY CoordinatorStepIsRaftStep
<1>2. TypeOK' /\ LeaderWonItsTerm' /\ won \subseteq won'
  BY <1>1, TypeStep, LeaderStep, WonGrows DEF CoordInv
<1>3. CASE CoordinatorNext
  BY <1>2, <1>3, RaftStepKeeps, ProcessRestartKeeps, GoroutineKeeps, SMTT(30) DEF CoordinatorNext
<1>4. CASE UNCHANGED allVars
  <2>1. UNCHANGED <<state, won, leaderCh, received, isLeader>>
    BY <1>4 DEF allVars, coordVars, vars, nodeVars, histVars
  <2> QED  BY <1>2, <2>1 DEF CoordInv, CoordinatorTypeOK, OwnIdOnly, WinBehind, HasWon,
              LeaderIsAnnounced
<1> QED  BY <1>3, <1>4

\* CoordInv holds in every reachable state of the processes.
LEMMA CoordAlways == CoordinatorSpec => []CoordInv
BY CoordInitOK, CoordStep, PTL DEF CoordinatorSpec

\* The processes run the election protocol: what is proved of Spec holds for
\* them, whatever the channel and the goroutine do.
THEOREM CoordinatorRunsRaft == CoordinatorSpec => Spec
<1>1. CoordinatorInit => Init
  BY DEF CoordinatorInit
<1> QED  BY <1>1, CoordinatorStepIsRaftStep, PTL DEF CoordinatorSpec, Spec

\* No election win is lost: the Coordinator of a Leader is active or is about
\* to be told, although becomeLeader gives up on a full channel.
THEOREM LeaderAnnouncedHolds == CoordinatorSpec => []LeaderIsAnnounced
<1>1. CoordInv => LeaderIsAnnounced
  BY DEF CoordInv
<1> QED  BY <1>1, CoordAlways, PTL

\* Route serves requests only on a node that has won an election, even when
\* saves are lost.
THEOREM CoordinatorWonHolds == CoordinatorSpec => []CoordinatorHasWon
<1>1. CoordInv => CoordinatorHasWon
  BY DEF CoordInv, WinBehind, HasWon, CoordinatorHasWon
<1> QED  BY <1>1, CoordAlways, PTL
=============================================================================
