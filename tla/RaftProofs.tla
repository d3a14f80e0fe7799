----------------------------- MODULE RaftProofs -----------------------------
(***************************************************************************)
(* Proofs about the Raft servers, for any number of servers and any        *)
(* bounds: nothing durable is ever unsaved, and every term has at most one *)
(* leader.  There is one lemma per action, or group of actions that are    *)
(* alike; each says that the action keeps the invariant.                   *)
(***************************************************************************)
EXTENDS RaftInvariant

(* StartElection: the vote is the candidate's first in the new term. *)
LEMMA StartElectionStep ==
    ASSUME Inv, NEW s \in Server, StartElection(s)
    PROVE  Inv'
<1> DEFINE term == currentTerm[s] + 1
           asks == {[type |-> "RequestVote", from |-> s, to |-> p, term |-> term,
                     lastLogIndex |-> LastIndex(log[s]),
                     lastLogTerm |-> LastEntry(log[s]).Term] : p \in Server \ {s}}
<1>0. /\ currentTerm' = [currentTerm EXCEPT ![s] = term]
      /\ role' = [role EXCEPT ![s] = "CANDIDATE"]
      /\ votedFor' = [votedFor EXCEPT ![s] = s]
      /\ ballots' = [ballots EXCEPT ![s][term] = {s}]
      /\ voted' = [voted EXCEPT ![s] = @ \cup {<<term, s>>}]
      /\ Send(asks) /\ UNCHANGED <<logVars, elected>> /\ PersistSate(s)
      /\ currentTerm[s] < MaxTerm
    BY DEF StartElection
<1>1. /\ currentTerm[s] \in Nat /\ term \in Term
      /\ ElectionTypeOK
    BY <1>0, BoundAssumption DEF Inv, ElectionInv, ElectionTypeOK, Term
<1>2. ElectionTypeOK'
    BY <1>0, <1>1 DEF ElectionTypeOK, Role
<1>3. MessagesOK'
  <2>1. \A m \in asks : MessageOK(m)'
      BY <1>1 DEF MessageOK, Term
  <2>2. \A v \in Server : voted[v] \subseteq voted'[v]
      BY <1>0, <1>1 DEF ElectionTypeOK
  <2> QED BY <1>0, <2>1, <2>2, SendAdds, MessagesStay DEF Inv, ElectionInv
<1> HIDE DEF term
<1>4. /\ currentTerm'[s] = term /\ role'[s] = "CANDIDATE" /\ votedFor'[s] = s
      /\ voted'[s] = voted[s] \cup {<<term, s>>}
      /\ \A v \in Server \ {s} : /\ currentTerm'[v] = currentTerm[v]
                                 /\ role'[v] = role[v]
                                 /\ votedFor'[v] = votedFor[v]
                                 /\ voted'[v] = voted[v]
      /\ elected' = elected
      /\ term > currentTerm[s] /\ term \in Nat /\ \A v \in Server : currentTerm[v] \in Nat
    BY <1>0, <1>1 DEF ElectionTypeOK, term
<1>5. OwnVoteOK'
    BY <1>4 DEF Inv, ElectionInv, OwnVoteOK
<1>6. VoteKnown'
  <2> SUFFICES ASSUME NEW v \in Server, NEW c \in Server, NEW u \in Nat, <<u, c>> \in voted'[v]
               PROVE  /\ u <= currentTerm'[v]
                      /\ u = currentTerm'[v] =>
                            \/ votedFor'[v] = c
                            \/ c = v /\ role'[v] = "FOLLOWER" /\ <<u, v>> \notin elected
      BY <1>4 DEF VoteKnown
  <2>1. CASE <<u, c>> \in voted[v]
    <3>1. /\ u <= currentTerm[v]
          /\ u = currentTerm[v] =>
                votedFor[v] = c \/ (c = v /\ role[v] = "FOLLOWER" /\ <<u, v>> \notin elected)
        BY <2>1 DEF Inv, ElectionInv, VoteKnown
    <3> QED BY <1>4, <3>1
  <2>2. CASE v = s /\ u = term /\ c = s
      BY <1>4, <2>2
  <2> QED BY <1>4, <2>1, <2>2
<1>7. SecondVote'
  <2> SUFFICES ASSUME NEW v \in Server, NEW c \in Server, NEW d \in Server, NEW u \in Nat,
                      <<u, c>> \in voted'[v], <<u, d>> \in voted'[v], c # d
               PROVE  /\ v \in {c, d} /\ <<u, v>> \notin elected
                      /\ u = currentTerm'[v] => role'[v] = "FOLLOWER"
      BY <1>4 DEF SecondVote
  <2>1. \A e \in Server : <<u, e>> \in voted[v] => u <= currentTerm[v]
      BY DEF Inv, ElectionInv, VoteKnown
  <2>2. <<u, c>> \in voted[v] /\ <<u, d>> \in voted[v]
      BY <1>4, <2>1
  <2>3. /\ v \in {c, d} /\ <<u, v>> \notin elected
        /\ u = currentTerm[v] => role[v] = "FOLLOWER"
      BY <2>2 DEF Inv, ElectionInv, SecondVote
  <2> QED BY <1>4, <2>1, <2>2, <2>3
<1>8. BallotsCast'
  <2> SUFFICES ASSUME NEW v \in Server, NEW c \in Server, NEW u \in Term, v \in ballots'[c][u]
               PROVE  <<u, c>> \in voted'[v]
      BY DEF BallotsCast
  <2>1. v \in ballots[c][u] \/ (c = s /\ u = term /\ v = s)
      BY <1>0, <1>1 DEF ElectionTypeOK
  <2> QED BY <1>4, <2>1 DEF Inv, ElectionInv, BallotsCast
<1>9. ElectedOK'
  <2> SUFFICES ASSUME NEW c \in Server, NEW u \in Nat, <<u, c>> \in elected
               PROVE  /\ Majority({v \in Server : <<u, c>> \in voted'[v]})
                      /\ u <= currentTerm'[c]
                      /\ u = currentTerm'[c] => role'[c] # "CANDIDATE"
      BY <1>4 DEF ElectedOK, Majority
  <2>1. /\ Majority({v \in Server : <<u, c>> \in voted[v]})
        /\ u <= currentTerm[c]
        /\ u = currentTerm[c] => role[c] # "CANDIDATE"
      BY DEF Inv, ElectionInv, ElectedOK
  <2>2. {v \in Server : <<u, c>> \in voted'[v]} = {v \in Server : <<u, c>> \in voted[v]}
      BY <1>4, <2>1
  <2>3. u <= currentTerm'[c] /\ (u = currentTerm'[c] => role'[c] # "CANDIDATE")
      BY <1>4, <2>1
  <2> QED BY <2>1, <2>2, <2>3
<1>10. ElectionInv'
    BY <1>2, <1>3, <1>5, <1>6, <1>7, <1>8, <1>9 DEF ElectionInv
<1>11. SaveInv'
  <2>1. DurableOnlyOf(s)
      BY <1>0, OnlyOf DEF FieldsOnlyOf, DurableFields, Inv, SaveInv, logVars, snapshotVars
  <2>2. Persist(s)
      BY <1>0, PersistSateSaves DEF Inv, logVars, snapshotVars
  <2> QED BY <2>1, <2>2, PersistStep DEF Inv
<1> QED BY <1>10, <1>11 DEF Inv

(* RequestVote. *)
LEMMA RequestVoteStep ==
    ASSUME Inv, NEW m \in InFlight, RequestVote(m)
    PROVE  Inv'
<1> DEFINE s     == m.to
           newer == m.term > currentTerm[s]
           free  == newer \/ votedFor[s] \in {Nil, m.from}
           grant == m.term >= currentTerm[s] /\ free /\ UpToDate(s, m)
<1>1. /\ s \in Server /\ m.from \in Server /\ m.term \in Term /\ m.term \in Nat
      /\ ElectionTypeOK /\ currentTerm[s] \in Nat
    BY DEF Inv, ElectionInv, MessagesOK, MessageOK, ElectionTypeOK, RequestVote
<1>2. /\ currentTerm' = [currentTerm EXCEPT ![s] = Greater(@, m.term)]
      /\ role' = [role EXCEPT ![s] = IF newer THEN "FOLLOWER" ELSE @]
      /\ votedFor' = [votedFor EXCEPT ![s] = IF grant THEN m.from
                                             ELSE IF newer THEN Nil ELSE @]
      /\ voted' = [voted EXCEPT ![s] = IF grant THEN @ \cup {<<m.term, m.from>>} ELSE @]
      /\ PersistSateIf(s, newer \/ grant)
      /\ UNCHANGED <<logVars, ballots, elected>>
    BY DEF RequestVote
<1>3. PICK r : /\ Answer(m, r)
               /\ r = [type |-> "RequestVoteReply", from |-> s, to |-> m.from,
                       argsTerm |-> m.term, term |-> currentTerm[s], granted |-> grant]
    BY DEF RequestVote
<1>4. (newer => m.term > currentTerm[s]) /\ (~newer => m.term <= currentTerm[s])
    BY <1>1
<1>5. grant => newer \/ (m.term = currentTerm[s] /\ votedFor[s] \in {Nil, m.from})
    BY <1>1
<1>6. Greater(currentTerm[s], m.term) = IF newer THEN m.term ELSE currentTerm[s]
    BY <1>1 DEF Greater
<1> HIDE DEF newer, grant
<1>7. currentTerm' = [currentTerm EXCEPT ![s] = IF newer THEN m.term ELSE @]
    BY <1>2, <1>6
<1>8. MessagesOK'
  <2>1. \A v \in Server : voted[v] \subseteq voted'[v]
      BY <1>1, <1>2 DEF ElectionTypeOK
  <2>2. r.granted => <<m.term, m.from>> \in voted'[s]
      BY <1>1, <1>2, <1>3 DEF ElectionTypeOK
  <2>3. MessageOK(r)'
      BY <1>1, <1>3, <2>2 DEF MessageOK
  <2> QED BY <1>3, <2>1, <2>3, AnswerStep DEF Inv
<1>9. ElectionInv'
  <2>1. CASE grant
    <3>1. currentTerm' = [currentTerm EXCEPT ![s] = m.term]
        BY <1>5, <1>7, <2>1
    <3>2. role' = [role EXCEPT ![s] = IF m.term > currentTerm[s] THEN "FOLLOWER" ELSE @]
        BY <1>2 DEF newer
    <3>3. votedFor' = [votedFor EXCEPT ![s] = m.from]
        BY <1>2, <2>1
    <3>4. voted' = [voted EXCEPT ![s] = @ \cup {<<m.term, m.from>>}]
        BY <1>2, <2>1
    <3>5. m.term > currentTerm[s] \/ (m.term = currentTerm[s] /\ votedFor[s] \in {Nil, m.from})
        BY <1>4, <1>5, <2>1
    <3>6. Grants(s, m.from, m.term)
        BY <1>2, <3>1, <3>2, <3>3, <3>4, <3>5 DEF Grants
    <3> QED BY <1>1, <1>8, <3>6, GrantStep DEF Inv
  <2>2. CASE newer /\ ~grant
    <3>1. StepDown(s, m.term) /\ UNCHANGED <<voted, elected>>
        BY <1>1, <1>2, <1>7, <2>2 DEF StepDown, ElectionTypeOK
    <3>2. BallotsShrink
        BY <1>1, <1>2 DEF BallotsShrink, ElectionTypeOK
    <3> QED BY <1>1, <1>4, <1>8, <2>2, <3>1, <3>2, StepDownStep DEF Inv
  <2>3. CASE ~newer /\ ~grant
    <3>1. UNCHANGED electionVars
        BY <1>1, <1>2, <1>7, <2>3 DEF electionVars, ElectionTypeOK
    <3> QED BY <1>8, <3>1, QuietStep DEF Inv
  <2> QED BY <2>1, <2>2, <2>3
<1>10. SaveInv'
  <2>1. DurableOnlyOf(s)
      BY <1>1, <1>2, OnlyOf DEF FieldsOnlyOf, DurableFields, Inv, SaveInv, logVars, snapshotVars
  <2>2. ~(newer \/ grant) => Durable(s)' = Durable(s)
      BY <1>1, <1>2, <1>7 DEF Durable, logVars, snapshotVars, ElectionTypeOK
  <2>3. snapshot'[s] = snapshot[s]
      BY <1>2 DEF logVars, snapshotVars
  <2> QED BY <1>1, <1>2, <2>1, <2>2, <2>3, PersistSateIfStep DEF Inv
<1> QED BY <1>9, <1>10 DEF Inv

(* CountVote: a vote counted was cast, as its message tells. *)
LEMMA CountVoteStep ==
    ASSUME Inv, NEW m \in InFlight, CountVote(m)
    PROVE  Inv'
<1> DEFINE s    == m.to
           lost == ~m.granted /\ m.term > currentTerm[s]
<1>1. /\ s \in Server /\ m.from \in Server /\ m.term \in Nat /\ m.argsTerm \in Term
      /\ m.granted => <<m.argsTerm, s>> \in voted[m.from]
      /\ ElectionTypeOK /\ BallotsCast
    BY DEF Inv, ElectionInv, MessagesOK, MessageOK, CountVote
<1>2. /\ Receive(m)
      /\ ballots' = [ballots EXCEPT ![s][m.argsTerm] =
                          IF lost THEN {} ELSE IF m.granted THEN @ \cup {m.from} ELSE @]
      /\ IF lost THEN StepDown(s, m.term) ELSE UNCHANGED roleVars
      /\ PersistSateIf(s, lost)
      /\ UNCHANGED <<logVars, voted, elected>>
    BY DEF CountVote
<1>3. MessagesOK'
    BY <1>2, ReceiveStep DEF Inv
<1>4. CASE lost
  <2>1. BallotsShrink
      BY <1>1, <1>2, <1>4 DEF BallotsShrink, ElectionTypeOK
  <2>2. ElectionInv'
      BY <1>1, <1>2, <1>3, <1>4, <2>1, StepDownStep DEF Inv
  <2>3. DurableOnlyOf(s)
      BY <1>1, <1>2, <1>4, OnlyOf DEF StepDown, FieldsOnlyOf, DurableFields, Inv, SaveInv,
         logVars, snapshotVars
  <2>4. PersistSate(s) /\ snapshot'[s] = snapshot[s]
      BY <1>2, <1>4 DEF PersistSateIf, logVars, snapshotVars
  <2> QED BY <1>1, <2>2, <2>3, <2>4, PersistSateSaves, PersistStep DEF Inv
<1>5. CASE ~lost
  <2>1. /\ ballots' \in [Server -> [Term -> SUBSET Server]]
        /\ \A c \in Server, t \in Term, v \in Server :
              v \in ballots'[c][t] =>
                 v \in ballots[c][t] \/ (c = s /\ t = m.argsTerm /\ v = m.from /\ m.granted)
    <3>1. ballots \in [Server -> [Term -> SUBSET Server]]
        BY <1>1 DEF ElectionTypeOK
    <3>2. CASE m.granted
      <4>1. ballots' = [ballots EXCEPT ![s][m.argsTerm] = @ \cup {m.from}]
          BY <1>2, <1>5, <3>2
      <4> HIDE DEF s, lost
      <4> QED BY <1>1, <3>1, <3>2, <4>1
    <3>3. CASE ~m.granted
      <4>1. ballots' = ballots
          BY <1>1, <1>2, <1>5, <3>1, <3>3
      <4> QED BY <3>1, <4>1
    <3> QED BY <3>2, <3>3
  <2>2. BallotsCast'
      BY <1>1, <1>2, <2>1 DEF BallotsCast
  <2>3. UNCHANGED <<currentTerm, votedFor, role, voted, elected, logVars, persisted>>
      BY <1>2, <1>5 DEF roleVars, PersistSateIf
  <2> QED BY <1>3, <2>1, <2>2, <2>3, CountStep, VolatileStep DEF Inv
<1> QED BY <1>4, <1>5

(* FinishElection. *)
LEMMA FinishElectionStep ==
    ASSUME Inv, NEW s \in Server, NEW t \in Term, FinishElection(s, t)
    PROVE  Inv'
<1>1. /\ Majority(ballots[s][t])
      /\ ballots' = [ballots EXCEPT ![s][t] = {}]
      /\ role' = [role EXCEPT ![s] = IF Wins(s, t) THEN "LEADER" ELSE @]
      /\ elected' = IF Wins(s, t) THEN elected \cup {<<currentTerm[s], s>>} ELSE elected
      /\ UNCHANGED <<currentTerm, votedFor, logVars, voted, persisted, net>>
      /\ ElectionTypeOK
    BY DEF FinishElection, Inv, ElectionInv
<1>2. BallotsShrink
    BY <1>1 DEF BallotsShrink, ElectionTypeOK
<1>3. MessagesOK'
    BY <1>1 DEF Inv, ElectionInv, MessagesOK, MessageOK, InFlight
<1>4. ElectionInv'
  <2>1. CASE Wins(s, t)
      BY <1>1, <1>2, <1>3, <2>1, WinStep DEF Inv, Wins
  <2>2. CASE ~Wins(s, t)
    <3>1. UNCHANGED <<role, elected>>
        BY <1>1, <2>2 DEF ElectionTypeOK
    <3>2. BallotsCast'
        BY <1>1, <1>2 DEF BallotsShrink, BallotsCast, Inv, ElectionInv
    <3> QED BY <1>1, <1>2, <1>3, <3>1, <3>2, CountStep DEF Inv, BallotsShrink
  <2> QED BY <2>1, <2>2
<1>5. SaveInv'
    BY <1>1, VolatileStep DEF Inv
<1> QED BY <1>4, <1>5 DEF Inv

(* AppendEntries and InstallSnapshot step down in a newer term, or on a     *)
(* candidate of the same term.                                              *)
LEMMA AcceptLeaderStep ==
    ASSUME Inv, NEW m \in InFlight, ~StaleTerm(m), AcceptLeader(m),
           UNCHANGED electVars, MessagesOK'
    PROVE  ElectionInv'
<1>1. m.to \in Server /\ m.term \in Nat /\ currentTerm[m.to] \in Nat
    BY DEF Inv, ElectionInv, MessagesOK, MessageOK, ElectionTypeOK
<1>2. m.term >= currentTerm[m.to]
    BY <1>1 DEF StaleTerm
<1>3. \/ /\ StepDown(m.to, m.term)
         /\ \/ m.term > currentTerm[m.to]
            \/ m.term = currentTerm[m.to] /\ role[m.to] = "CANDIDATE"
      \/ UNCHANGED roleVars
    BY <1>1, <1>2 DEF AcceptLeader, StepsDown
<1> QED BY <1>1, <1>3, MayStepDown DEF Inv

(* AppendEntries. *)
LEMMA AppendEntriesStep ==
    ASSUME Inv, NEW m \in InFlight, AppendEntries(m)
    PROVE  Inv'
<1> DEFINE s == m.to
<1>1. /\ s \in Server /\ m.from \in Server /\ m.term \in Nat /\ currentTerm[s] \in Nat
    BY DEF Inv, ElectionInv, MessagesOK, MessageOK, ElectionTypeOK
<1>2. UNCHANGED electVars /\ UNCHANGED snapshotVars
    BY DEF AppendEntries, LogTooShort, PrevInSnapshot, PrevConflicts, PrevMatches, logVars
<1>3. MessagesOK'
  <2>1. \E r : /\ Answer(m, r)
               /\ r.type = "AppendEntriesReply" /\ r.from = s /\ r.to = m.from
               /\ r.term = currentTerm[s]
    <3>1. /\ Success(m).type = "AppendEntriesReply" /\ Success(m).from = s
          /\ Success(m).to = m.from /\ Success(m).term = currentTerm[s]
        BY DEF Success
    <3>2. ASSUME NEW t, NEW i
          PROVE  /\ Refusal(m, t, i).type = "AppendEntriesReply" /\ Refusal(m, t, i).from = s
                 /\ Refusal(m, t, i).to = m.from /\ Refusal(m, t, i).term = currentTerm[s]
        BY DEF Refusal
    <3>3. Answer(m, Success(m)) \/ \E t, i : Answer(m, Refusal(m, t, i))
        BY DEF AppendEntries, LogTooShort, PrevInSnapshot, PrevConflicts, PrevMatches
    <3> QED BY <3>1, <3>2, <3>3
  <2>2. PICK r : /\ Answer(m, r)
                 /\ r.type = "AppendEntriesReply" /\ r.from = s /\ r.to = m.from
                 /\ r.term = currentTerm[s]
      BY <2>1
  <2>3. MessageOK(r)'
      BY <1>1, <2>2 DEF MessageOK
  <2> QED BY <1>2, <2>2, <2>3, AnswerStep DEF Inv, electVars
<1>4. CASE StaleTerm(m)
  <2>1. UNCHANGED <<roleVars, logVars, persisted>>
      BY <1>4 DEF AppendEntries
  <2>2. ElectionInv'
      BY <1>2, <1>3, <2>1, QuietStep DEF Inv, electionVars, electVars, roleVars
  <2> QED BY <2>1, <2>2, VolatileStep DEF Inv, roleVars
<1>5. CASE ~StaleTerm(m)
  <2>1. /\ AcceptLeader(m)
        /\ LogTooShort(s, m) \/ PrevInSnapshot(s, m) \/ PrevConflicts(s, m) \/ PrevMatches(s, m)
      BY <1>5 DEF AppendEntries
  <2>2. ElectionInv'
      BY <1>2, <1>3, <1>5, <2>1, AcceptLeaderStep
  <2>3. \/ UNCHANGED log
        \/ \E l : log' = [log EXCEPT ![s] = l]
      BY <2>1 DEF LogTooShort, PrevInSnapshot, PrevConflicts, PrevMatches
  <2>4. DurableOnlyOf(s)
      BY <1>1, <1>2, <2>1, <2>3, OnlyOf DEF AcceptLeader, StepDown, roleVars, snapshotVars,
         FieldsOnlyOf, DurableFields, Inv, SaveInv
  <2>5. \E wrote : PersistSateIf(s, wrote) /\ (~wrote => Durable(s)' = Durable(s))
    <3>1. CASE LogTooShort(s, m)
        BY <1>2, <2>1, <3>1 DEF LogTooShort, AcceptLeader, roleVars, snapshotVars, Durable
    <3>2. CASE PrevInSnapshot(s, m)
        BY <1>1, <1>2, <2>1, <3>2 DEF PrevInSnapshot, AcceptLeader, roleVars, snapshotVars,
           Durable, DurableFields, Inv, SaveInv
    <3>3. CASE PrevConflicts(s, m) \/ PrevMatches(s, m)
        BY <3>3 DEF PrevConflicts, PrevMatches, PersistSateIf
    <3> QED BY <2>1, <3>1, <3>2, <3>3
  <2>6. SaveInv'
      BY <1>1, <1>2, <2>4, <2>5, PersistSateIfStep DEF Inv, snapshotVars
  <2> QED BY <2>2, <2>6 DEF Inv
<1> QED BY <1>4, <1>5

(* InstallSnapshot. *)
LEMMA InstallSnapshotStep ==
    ASSUME Inv, NEW m \in InFlight, InstallSnapshot(m)
    PROVE  Inv'
<1> DEFINE s     == m.to
           fresh == m.lastIncludedIndex > Greater(snapshotIndex[s], lastApplied[s])
<1>1. /\ s \in Server /\ m.from \in Server /\ m.term \in Nat /\ currentTerm[s] \in Nat
    BY DEF Inv, ElectionInv, MessagesOK, MessageOK, ElectionTypeOK
<1>2. UNCHANGED electVars
    BY DEF InstallSnapshot
<1>3. MessagesOK'
  <2> DEFINE reply == [type |-> "InstallSnapshotReply", from |-> s, to |-> m.from,
                       argsTerm |-> m.term, argsIndex |-> m.lastIncludedIndex,
                       term |-> currentTerm[s]]
  <2>a. Answer(m, reply)
      BY DEF InstallSnapshot
  <2>b. /\ reply.type = "InstallSnapshotReply" /\ reply.from = s /\ reply.to = m.from
        /\ reply.term = currentTerm[s]
      OBVIOUS
  <2> HIDE DEF reply
  <2>1. PICK r : /\ Answer(m, r)
                 /\ r.type = "InstallSnapshotReply" /\ r.from = s /\ r.to = m.from
                 /\ r.term = currentTerm[s]
      BY <2>a, <2>b
  <2>2. MessageOK(r)'
      BY <1>1, <2>1 DEF MessageOK
  <2> QED BY <1>2, <2>1, <2>2, AnswerStep DEF Inv, electVars
<1>4. CASE StaleTerm(m)
  <2>1. UNCHANGED <<roleVars, logVars, persisted>>
      BY <1>4 DEF InstallSnapshot
  <2>2. ElectionInv'
      BY <1>2, <1>3, <2>1, QuietStep DEF Inv, electionVars, electVars, roleVars
  <2> QED BY <2>1, <2>2, VolatileStep DEF Inv, roleVars
<1>5. CASE ~StaleTerm(m)
  <2>1. /\ AcceptLeader(m)
        /\ IF fresh THEN TakeSnapshot(s, m) ELSE UNCHANGED <<logVars, applyMsg>>
        /\ IF fresh THEN Persist(s) ELSE PersistSateIf(s, StepsDown(m))
      BY <1>5 DEF InstallSnapshot
  <2>2. ElectionInv'
      BY <1>2, <1>3, <1>5, <2>1, AcceptLeaderStep
  <2> HIDE DEF fresh
  <2>3. DurableOnlyOf(s)
      BY <1>1, <2>1, OnlyOf DEF AcceptLeader, StepDown, TakeSnapshot, roleVars, logVars, snapshotVars,
         FieldsOnlyOf, DurableFields, Inv, SaveInv
  <2>4. CASE fresh
      BY <1>1, <2>1, <2>2, <2>3, <2>4, PersistStep DEF Inv
  <2>5. CASE ~fresh
    <3>1. /\ PersistSateIf(s, StepsDown(m)) /\ snapshot'[s] = snapshot[s]
          /\ ~StepsDown(m) => Durable(s)' = Durable(s)
        BY <2>1, <2>5 DEF AcceptLeader, roleVars, logVars, snapshotVars, Durable
    <3> QED BY <1>1, <2>2, <2>3, <3>1, PersistSateIfStep DEF Inv
  <2> QED BY <2>4, <2>5
<1> QED BY <1>4, <1>5

(* A reply handler that steps down and persists, or changes nothing durable. *)
LEMMA ReplyStep ==
    ASSUME Inv, NEW m \in InFlight, Receive(m), UNCHANGED <<logVars, electVars>>,
           \/ m.term > currentTerm[m.to] /\ StepDown(m.to, m.term) /\ PersistSate(m.to)
           \/ UNCHANGED <<roleVars, persisted>>
    PROVE  Inv'
<1>1. m.to \in Server /\ m.term \in Nat
    BY DEF Inv, ElectionInv, MessagesOK, MessageOK
<1>2. MessagesOK'
    BY ReceiveStep DEF Inv, electVars
<1>3. ElectionInv'
  <2>1. \/ StepDown(m.to, m.term) /\ m.term > currentTerm[m.to]
        \/ UNCHANGED roleVars
      BY DEF roleVars
  <2> QED BY <1>1, <1>2, <2>1, MayStepDown DEF Inv
<1>4. SaveInv'
  <2>1. CASE StepDown(m.to, m.term) /\ PersistSate(m.to)
    <3>1. DurableOnlyOf(m.to)
        BY <1>1, <2>1, OnlyOf DEF StepDown, FieldsOnlyOf, DurableFields, Inv, SaveInv,
           logVars, snapshotVars
    <3>2. Persist(m.to)
        BY <1>1, <2>1, PersistSateSaves DEF Inv, logVars, snapshotVars
    <3> QED BY <1>1, <3>1, <3>2, PersistStep DEF Inv
  <2>2. CASE UNCHANGED <<roleVars, persisted>>
      BY <2>2, VolatileStep DEF Inv, roleVars
  <2> QED BY <2>1, <2>2
<1> QED BY <1>3, <1>4 DEF Inv

(* AppendEntriesReply and InstallSnapshotReply. *)
LEMMA LeaderReplyStep ==
    ASSUME Inv, NEW m \in InFlight, AppendEntriesReply(m) \/ InstallSnapshotReply(m)
    PROVE  Inv'
<1>1. CASE AppendEntriesReply(m)
  <2>1. Receive(m) /\ UNCHANGED <<logVars, electVars>>
      BY <1>1 DEF AppendEntriesReply
  <2>2. \/ m.term > currentTerm[m.to] /\ StepDown(m.to, m.term) /\ PersistSate(m.to)
        \/ UNCHANGED <<roleVars, persisted>>
      BY <1>1 DEF AppendEntriesReply, AppendSucceeded, AppendRefused
  <2> QED BY <2>1, <2>2, ReplyStep
<1>2. CASE InstallSnapshotReply(m)
  <2>1. Receive(m) /\ UNCHANGED <<logVars, electVars>>
      BY <1>2 DEF InstallSnapshotReply
  <2>2. \/ m.term > currentTerm[m.to] /\ StepDown(m.to, m.term) /\ PersistSate(m.to)
        \/ UNCHANGED <<roleVars, persisted>>
      BY <1>2 DEF InstallSnapshotReply, PersistSateIf
  <2> QED BY <2>1, <2>2, ReplyStep
<1> QED BY <1>1, <1>2

(* Start and Snapshot change the log and persist it. *)
LEMMA LocalStep ==
    ASSUME Inv, NEW s \in Server, (\E v \in Value : Start(s, v)) \/ Snapshot(s)
    PROVE  Inv'
<1>1. UNCHANGED <<roleVars, electVars, net>> /\ Persist(s)
    BY PersistSateSaves DEF Start, Snapshot, snapshotVars, Inv
<1>2. MessagesOK'
    BY <1>1, NoNewMessage DEF Inv, electVars, InFlight
<1>3. ElectionInv'
    BY <1>1, <1>2, QuietStep DEF Inv, electionVars, roleVars, electVars
<1>4. DurableOnlyOf(s)
    BY <1>1, OnlyOf DEF Start, Snapshot, roleVars, snapshotVars, FieldsOnlyOf, DurableFields,
       Inv, SaveInv
<1>5. SaveInv'
    BY <1>1, <1>4, PersistStep DEF Inv
<1> QED BY <1>3, <1>5 DEF Inv

(* Heartbeats change nothing but the network. *)
LEMMA HeartbeatStep ==
    ASSUME Inv, NEW s \in Server, Heartbeat(s)
    PROVE  Inv'
<1> DEFINE new == {Replication(s, p) : p \in Server \ {s}}
<1>1. Send(new) /\ UNCHANGED <<roleVars, logVars, electVars, persisted>>
    BY DEF Heartbeat
<1>2. \A m \in new : MessageOK(m)'
  <2> SUFFICES ASSUME NEW p \in Server, NEW m, m = Replication(s, p)
               PROVE  MessageOK(m)'
      OBVIOUS
  <2>1. currentTerm[s] \in Nat
      BY DEF Inv, ElectionInv, ElectionTypeOK
  <2>2. /\ m.type \in {"InstallSnapshot", "AppendEntries"}
        /\ m.from = s /\ m.to = p /\ m.term = currentTerm[s]
      BY DEF Replication
  <2> QED BY <2>1, <2>2 DEF MessageOK
<1> HIDE DEF new
<1>3. MessagesOK'
    BY <1>1, <1>2, SendAdds, MessagesStay DEF Inv, ElectionInv, electVars
<1> QED BY <1>1, <1>3, QuietStep, VolatileStep DEF Inv, electionVars, roleVars, electVars

(* The applier changes nothing durable. *)
LEMMA ApplierStep ==
    ASSUME Inv, NEW s \in Server, ApplierPick(s) \/ ApplierSend(s) \/ ApplierDone(s)
    PROVE  Inv'
<1>1. UNCHANGED <<roleVars, logVars, electVars, persisted, net>>
    BY DEF ApplierPick, ApplierSend, ApplierDone
<1>2. MessagesOK'
    BY <1>1, NoNewMessage DEF Inv, electVars, InFlight
<1> QED BY <1>1, <1>2, QuietStep, VolatileStep DEF Inv, electionVars, roleVars, electVars

(* Whatever it reboots from, a server forgets its ballots. *)
LEMMA RebootForgets ==
    ASSUME Inv, NEW s \in Server, NEW d, Reboot(s, d), InFlight' \subseteq InFlight
    PROVE  BallotsShrink /\ UNCHANGED <<voted, elected>> /\ MessagesOK'
<1>1. BallotsShrink
    BY DEF Reboot, BallotsShrink, Inv, ElectionInv, ElectionTypeOK
<1>2. UNCHANGED <<voted, elected>>
    BY DEF Reboot
<1> QED BY <1>1, <1>2, NoNewMessage DEF Inv

(* Restart: the term and the vote come back as they were. *)
LEMMA RestartStep ==
    ASSUME Inv, NEW s \in Server, Restart(s)
    PROVE  Inv'
<1>1. PICK d : d = persisted[s] /\ Reboot(s, d)
    BY DEF Restart
<1>2. d = Durable(s)
    BY <1>1 DEF Inv, SaveInv, NothingUnsaved
<1>3. BallotsShrink /\ UNCHANGED <<voted, elected>> /\ MessagesOK'
    BY <1>1, CrashDrops, RebootForgets DEF Restart
<1>4. /\ role' = [role EXCEPT ![s] = "FOLLOWER"]
      /\ UNCHANGED <<currentTerm, votedFor>>
  <2>1. /\ role' = [role EXCEPT ![s] = "FOLLOWER"]
        /\ currentTerm' = [currentTerm EXCEPT ![s] = d.currentTerm]
        /\ votedFor' = [votedFor EXCEPT ![s] = d.votedFor]
      BY <1>1 DEF Reboot
  <2>2. d.currentTerm = currentTerm[s] /\ d.votedFor = votedFor[s]
      BY <1>2 DEF Durable
  <2> QED BY <2>1, <2>2 DEF Inv, ElectionInv, ElectionTypeOK
<1>5. ElectionInv'
    BY <1>3, <1>4, ForgetRoleStep DEF Inv
<1>6. SaveInv'
    BY <1>1, <1>2, RebootStep DEF Inv, Durable
<1> QED BY <1>5, <1>6 DEF Inv

(* RestartInHandler: the server comes back as stepDown left it. *)
LEMMA RestartInHandlerStep ==
    ASSUME Inv, NEW m \in InFlight, RestartInHandler(m)
    PROVE  Inv'
<1> DEFINE s == m.to
<1>1. s \in Server /\ m.term \in Nat
    BY DEF Inv, ElectionInv, MessagesOK, MessageOK
<1>2. PICK d : /\ d = [persisted[s] EXCEPT !.currentTerm = m.term, !.votedFor = Nil]
               /\ Reboot(s, d)
    BY DEF RestartInHandler
<1>3. /\ d = [currentTerm  |-> d.currentTerm,  votedFor      |-> d.votedFor,
              entries      |-> d.entries,      snapshotIndex |-> d.snapshotIndex,
              snapshotTerm |-> d.snapshotTerm, snapshot      |-> d.snapshot]
      /\ d.currentTerm = m.term /\ d.votedFor = Nil
  <2>1. persisted[s] = Durable(s)
      BY <1>1 DEF Inv, SaveInv, NothingUnsaved
  <2> QED BY <1>2, <2>1 DEF Durable
<1>4. BallotsShrink /\ UNCHANGED <<voted, elected>> /\ MessagesOK'
    BY <1>1, <1>2, CrashDrops, RebootForgets DEF RestartInHandler
<1>5. /\ StepDown(s, m.term)
      /\ m.term > currentTerm[s] \/ (m.term = currentTerm[s] /\ role[s] = "CANDIDATE")
    BY <1>2, <1>3 DEF RestartInHandler, Reboot, StepDown
<1>6. ElectionInv'
    BY <1>1, <1>4, <1>5, StepDownStep DEF Inv
<1>7. SaveInv'
    BY <1>1, <1>2, <1>3, RebootStep DEF Inv
<1> QED BY <1>6, <1>7 DEF Inv

-----------------------------------------------------------------------------
(* The invariant holds initially, ... *)
LEMMA InitInv == Init => Inv
<1> SUFFICES ASSUME Init PROVE Inv
    OBVIOUS
<1>1. ElectionTypeOK
    BY DEF Init, ElectionTypeOK, Role
<1>2. MessagesOK
    BY DEF Init, MessagesOK, InFlight, BagToSet, EmptyBag, SetToBag
<1>3. OwnVoteOK /\ VoteKnown /\ SecondVote /\ BallotsCast /\ ElectedOK
    BY DEF Init, OwnVoteOK, VoteKnown, SecondVote, BallotsCast, ElectedOK
<1>4. SaveInv
    BY DEF Init, SaveInv, DurableFields, NothingUnsaved
<1> QED BY <1>1, <1>2, <1>3, <1>4 DEF Inv, ElectionInv

(* ... and is preserved by every step. *)
LEMMA NextInv == Inv /\ [Next]_vars => Inv'
<1> SUFFICES ASSUME Inv, [Next]_vars PROVE Inv'
    OBVIOUS
<1>1. ASSUME NEW s \in Server, StartElection(s) PROVE Inv'
    BY <1>1, StartElectionStep
<1>2. ASSUME NEW s \in Server, NEW t \in Term, FinishElection(s, t) PROVE Inv'
    BY <1>2, FinishElectionStep
<1>3. ASSUME NEW s \in Server, (\E v \in Value : Start(s, v)) \/ Snapshot(s) PROVE Inv'
    BY <1>3, LocalStep
<1>4. ASSUME NEW s \in Server, Heartbeat(s) PROVE Inv'
    BY <1>4, HeartbeatStep
<1>5. ASSUME NEW s \in Server, ApplierPick(s) \/ ApplierSend(s) \/ ApplierDone(s) PROVE Inv'
    BY <1>5, ApplierStep
<1>6. ASSUME NEW s \in Server, Restart(s) PROVE Inv'
    BY <1>6, RestartStep
<1>7. ASSUME NEW m \in InFlight, RequestVote(m) PROVE Inv'
    BY <1>7, RequestVoteStep
<1>8. ASSUME NEW m \in InFlight, CountVote(m) PROVE Inv'
    BY <1>8, CountVoteStep
<1>9. ASSUME NEW m \in InFlight, AppendEntries(m) PROVE Inv'
    BY <1>9, AppendEntriesStep
<1>10. ASSUME NEW m \in InFlight, AppendEntriesReply(m) \/ InstallSnapshotReply(m) PROVE Inv'
    BY <1>10, LeaderReplyStep
<1>11. ASSUME NEW m \in InFlight, InstallSnapshot(m) PROVE Inv'
    BY <1>11, InstallSnapshotStep
<1>12. ASSUME NEW m \in InFlight, RestartInHandler(m) PROVE Inv'
    BY <1>12, RestartInHandlerStep
<1>13. CASE UNCHANGED vars
  <2>1. UNCHANGED <<roleVars, logVars, electVars, persisted, net>>
      BY <1>13 DEF vars
  <2>2. MessagesOK'
      BY <2>1, NoNewMessage DEF Inv, electVars, InFlight
  <2> QED BY <2>1, <2>2, QuietStep, VolatileStep DEF Inv, electionVars, roleVars, electVars
<1> QED BY <1>1, <1>2, <1>3, <1>4, <1>5, <1>6, <1>7, <1>8, <1>9, <1>10, <1>11, <1>12, <1>13
        DEF Next

(* Two majorities have a server in common. *)
LEMMA MajoritiesMeet ==
    ASSUME NEW S \in SUBSET Server, NEW T \in SUBSET Server, Majority(S), Majority(T)
    PROVE  S \cap T # {}
<1>1. Cardinality(Server) \in Nat
    BY ServerAssumption, FS_CardinalityType
<1>2. IsFiniteSet(S) /\ IsFiniteSet(T)
    BY ServerAssumption, FS_Subset
<1>3. Cardinality(S) \in Nat /\ Cardinality(T) \in Nat
    BY <1>2, FS_CardinalityType
<1>4. Cardinality(S) + Cardinality(T) > Cardinality(Server)
    BY <1>1, <1>3 DEF Majority
<1> QED BY <1>4, ServerAssumption, FS_MajoritiesIntersect

(* A server that was elected has not voted twice, and any two winners of a  *)
(* term have a voter in common.                                             *)
LEMMA InvElectionSafety == Inv => ElectionSafety
<1> SUFFICES ASSUME Inv, NEW e \in elected, NEW f \in elected, e[1] = f[1], e[2] # f[2]
             PROVE  FALSE
    BY DEF ElectionSafety
<1> DEFINE t == e[1]
           c == e[2]
           d == f[2]
<1>1. /\ t \in Nat /\ c \in Server /\ d \in Server /\ c # d
      /\ e = <<t, c>> /\ f = <<t, d>>
    BY DEF Inv, ElectionInv, ElectionTypeOK
<1>2. /\ Majority({v \in Server : <<t, c>> \in voted[v]})
      /\ Majority({v \in Server : <<t, d>> \in voted[v]})
    BY <1>1 DEF Inv, ElectionInv, ElectedOK
<1> HIDE DEF t, c, d
<1>3. PICK v \in Server : <<t, c>> \in voted[v] /\ <<t, d>> \in voted[v]
  <2> DEFINE S == {v \in Server : <<t, c>> \in voted[v]}
             T == {v \in Server : <<t, d>> \in voted[v]}
  <2>1. S \cap T # {}
    <3>1. S \in SUBSET Server /\ T \in SUBSET Server /\ Majority(S) /\ Majority(T)
        BY <1>2
    <3> HIDE DEF S, T
    <3> QED BY <3>1, MajoritiesMeet
  <2> QED BY <2>1
<1>4. v \in {c, d} /\ <<t, v>> \notin elected
    BY <1>1, <1>3 DEF Inv, ElectionInv, SecondVote
<1> QED BY <1>1, <1>4

(* The invariant holds of the servers at all times. *)
THEOREM Invariance == Spec => []Inv
BY InitInv, NextInv, PTL DEF Spec

(* Whatever servers, messages and crashes do, at the end of every critical  *)
(* section the persister holds the live durable state (persist and          *)
(* persistSate are called wherever currentTerm, votedFor, the log or the    *)
(* snapshot changed).                                                       *)
THEOREM DurabilityTheorem == Spec => []NothingUnsaved
<1>1. Inv => NothingUnsaved
    BY DEF Inv, SaveInv
<1> QED BY <1>1, Invariance, PTL

(* At most one server is elected in a term, for any number of servers,      *)
(* messages and crashes (leaderElection, RequestVote and stepDown, which    *)
(* lets a candidate forget its vote).                                       *)
THEOREM ElectionSafetyTheorem == Spec => []ElectionSafety
BY Invariance, InvElectionSafety, PTL

=============================================================================
