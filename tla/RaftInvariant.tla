--------------------------- MODULE RaftInvariant ----------------------------
(* The inductive invariant behind the theorems on internal/raft. *)
EXTENDS RaftElection

\* The hypothesis of the theorems on safety.
ReliableRestart == FailingDisk \cap Crashable = {}

\* The file of a node that may restart is what the node holds in memory.
FreshDisk == \A n \in Crashable : disk[n] = ps[n]

\* No vote was given in a term the voter has not reached, and the vote of the
\* voter's present term is the one it remembers.
VotesRemembered ==
  \A v \in voted :
    /\ v[2] =< ps[v[1]].currentTerm
    /\ v[2] = ps[v[1]].currentTerm => ps[v[1]].votedFor = v[3]

\* A caller that waits for p is in its collection loop and has not read a
\* result of p; there is one request or one reply for it, never both.
CallsMatch ==
  /\ \A n \in Server : pending[n] \subseteq Peers(n) /\ granted[n] \subseteq Peers(n)
  /\ \A m \in rvReqs : m.waiting =>
       /\ pc[m.from] = "collect" /\ m.to \in pending[m.from]
       /\ \A k \in rvReqs : k.waiting /\ k.from = m.from /\ k.to = m.to => k = m
       /\ \A r \in rvResps : ~(r.from = m.to /\ r.to = m.from)
  /\ \A r \in rvResps :
       /\ pc[r.to] = "collect" /\ r.from \in pending[r.to]
       /\ \A q \in rvResps : q.from = r.from /\ q.to = r.to => q = r

\* While the caller is still a Candidate its calls are about its own term, and
\* a granted reply stands for a vote given in that term.
CallsAreCurrent ==
  /\ \A m \in rvReqs : m.waiting /\ state[m.from] = "Candidate" =>
       m.term = ps[m.from].currentTerm
  /\ \A r \in rvResps : r.voteGranted /\ state[r.to] = "Candidate" =>
       <<r.from, ps[r.to].currentTerm, r.to>> \in voted

\* Behind every election won stand the votes of a majority.
WonByMajority ==
  \A e \in won : \E Q \in SUBSET Server :
    Cardinality(Q) >= Majority /\ \A p \in Q : <<p, e[2], e[1]>> \in voted

\* A node about to send heartbeats has won an election.
BeaterWon ==
  \A n \in Server : pc[n] = "beat" =>
    \E e \in won : e[1] = n /\ e[2] =< ps[n].currentTerm

\* What every step of the event loop, the handlers and a restart keeps true:
\* disk, votes, calls in flight and elections won agree with one another.
IInv ==
  /\ TypeOK /\ FreshDisk
  /\ VotesRemembered /\ OneVotePerTerm
  /\ CallsMatch /\ CallsAreCurrent /\ CountedVotesAreCurrent
  /\ WonByMajority /\ LeaderWonItsTerm /\ BeaterWon /\ HeartbeatSenderWon
=============================================================================
