-------------------------------- MODULE Raft --------------------------------
(***************************************************************************)
(* The Raft servers of src/raft: leader election, log replication,         *)
(* commitment, log compaction, persistence and the applier goroutine, over *)
(* the lossy network of src/labrpc.                                        *)
(*                                                                         *)
(* Every action is one critical section of rf.mu.  A variable named like a *)
(* field of the Raft struct is that field of every server.  The other      *)
(* variables are                                                           *)
(*   ballots    the votes countVotes has counted, per server and term of   *)
(*              the election; {} when no leaderElection goroutine of that  *)
(*              term is reading replies;                                   *)
(*   applyMsg   the applier goroutine: where it is and what it sends;      *)
(*   applied    the service's state, as the entries it is the result of;   *)
(*   persisted  what the persister holds;                                  *)
(*   net        the bag of requests and replies in flight;                 *)
(*   restarts   how many crashes there have been (bounds them);            *)
(* and the history variables voted (votes ever cast), elected (elections   *)
(* ever won) and committed (the longest log a leader ever committed).      *)
(***************************************************************************)
EXTENDS RaftLog, FiniteSets, Bags

CONSTANTS Server,        \* rf.peers
          Candidates,    \* servers whose election timer may fire
          Appliers,      \* servers whose applier goroutine gets to run
          Snapshotters,  \* servers whose service takes snapshots
          MaxTerm,       \* bound on terms
          MaxIndex,      \* bound on the index of a started command
          MaxInFlight,   \* bound on messages in flight
          MaxRestarts    \* bound on crashes, over all servers

ASSUME ServerAssumption == IsFiniteSet(Server) /\ Nil \notin Server

ASSUME BoundAssumption ==
    /\ MaxTerm \in Nat
    /\ MaxIndex \in Nat
    /\ MaxInFlight \in Nat
    /\ MaxRestarts \in Nat

ASSUME ScopeAssumption ==
    /\ Candidates \subseteq Server
    /\ Appliers \subseteq Server
    /\ Snapshotters \subseteq Server

VARIABLES currentTerm, votedFor, role, ballots,
          log, snapshotIndex, snapshotTerm, snapshot,
          commitIndex, lastApplied, nextIndex, matchIndex,
          applyMsg, applied, persisted, net, restarts,
          voted, elected, committed

roleVars     == <<currentTerm, votedFor, role>>
snapshotVars == <<snapshotIndex, snapshotTerm, snapshot>>
logVars      == <<log, snapshotVars>>
leaderVars   == <<nextIndex, matchIndex>>
applyVars    == <<lastApplied, applyMsg, applied>>
electVars    == <<ballots, voted, elected>>
vars == <<roleVars, logVars, leaderVars, applyVars, electVars,
          commitIndex, persisted, net, restarts, committed>>

Term == 1..MaxTerm
Role == {"FOLLOWER", "CANDIDATE", "LEADER"}

-----------------------------------------------------------------------------
(* RPC arguments, and replies together with the arguments the caller still  *)
(* holds when it handles them.                                              *)

VoteRequest ==
    [type : {"RequestVote"}, from : Server, to : Server, term : Nat,
     lastLogIndex : Nat, lastLogTerm : Nat]

VoteReply ==
    [type : {"RequestVoteReply"}, from : Server, to : Server,
     argsTerm : Nat, term : Nat, granted : BOOLEAN]

AppendRequest ==
    [type : {"AppendEntries"}, from : Server, to : Server, term : Nat,
     prevLogIndex : Nat, prevLogTerm : Nat, entries : Seq(Entry),
     leaderCommit : Nat]

AppendReply ==
    [type : {"AppendEntriesReply"}, from : Server, to : Server,
     argsTerm : Nat, argsMatch : Nat, term : Nat, success : BOOLEAN,
     conflictTerm : Nat, conflictIndex : Nat]

InstallRequest ==
    [type : {"InstallSnapshot"}, from : Server, to : Server, term : Nat,
     lastIncludedIndex : Nat, lastIncludedTerm : Nat, data : Seq(Entry)]

InstallReply ==
    [type : {"InstallSnapshotReply"}, from : Server, to : Server,
     argsTerm : Nat, argsIndex : Nat, term : Nat]

Message == VoteRequest \cup VoteReply \cup AppendRequest \cup AppendReply
             \cup InstallRequest \cup InstallReply

ReplyTypes == {"RequestVoteReply", "AppendEntriesReply", "InstallSnapshotReply"}

InFlight == BagToSet(net)

(* labrpc delivers a request and its reply at most once, late, in any order *)
(* or not at all.  What will be lost is lost when it is sent.               *)
Send(ms) ==
    \E arriving \in SUBSET ms :
        /\ net' = net (+) SetToBag(arriving)
        /\ BagCardinality(net') <= MaxInFlight

(* Whether the goroutine that made a call can still act on the reply. *)
Awaited(m) ==
    IF m.type = "RequestVoteReply"
    THEN ballots[m.to][m.argsTerm] # {}
    ELSE role[m.to] = "LEADER" /\ currentTerm[m.to] = m.argsTerm

(* What is in flight, less one copy of m. *)
Without(m) == net (-) SetToBag({m})

Receive(m) == net' = Without(m)

(* The request m has been handled; its reply is lost, or on its way to a    *)
(* caller that waits for it.                                                *)
Answer(m, reply) ==
    \/ Receive(m)
    \/ Awaited(reply) /\ net' = Without(m) (+) SetToBag({reply})

-----------------------------------------------------------------------------
(* Persistence (raft.go, persister.go).                                     *)

(* What stateBytes encodes, and the snapshot.  readPersist takes the first  *)
(* index of the log from snapshotIndex.                                     *)
Durable(s) ==
    [currentTerm   |-> currentTerm[s],   votedFor     |-> votedFor[s],
     entries       |-> log[s].entries,   snapshotIndex |-> snapshotIndex[s],
     snapshotTerm  |-> snapshotTerm[s],  snapshot     |-> snapshot[s]]

(* persistSate saves everything but the snapshot. *)
PersistSate(s) ==
    persisted' = [persisted EXCEPT ![s] = [Durable(s)' EXCEPT !.snapshot = persisted[s].snapshot]]

(* Slip: the state is saved, the new snapshot is not. *)
PersistNoSnapshot(s) == PersistSate(s)

(* persist saves everything. *)
Persist(s) == persisted' = [persisted EXCEPT ![s] = Durable(s)']

(* Slip: the handlers change the state and forget to save it. *)
ForgetToPersist(s, wrote) == UNCHANGED persisted

(* persistSate, if the code reaches a call of it. *)
PersistSateIf(s, wrote) == IF wrote THEN PersistSate(s) ELSE UNCHANGED persisted

ApplyMsg == [phase : {"idle", "waiting", "sending", "sent"},
             isSnapshot : BOOLEAN, index : Nat, data : Seq(Entry)]

Idle(phase) == [phase |-> phase, isSnapshot |-> FALSE, index |-> 0, data |-> <<>>]

(* The entries a server holds, those inside its snapshot included. *)
FullLog(s) == snapshot[s] \o Tail(log[s].entries)

Majority(S) == Cardinality(S) >= Cardinality(Server) \div 2 + 1

Init ==
    /\ currentTerm = [s \in Server |-> 0]
    /\ votedFor = [s \in Server |-> Nil]
    /\ role = [s \in Server |-> "FOLLOWER"]
    /\ ballots = [s \in Server |-> [t \in Term |-> {}]]
    /\ log = [s \in Server |-> MakeLog(0, 0)]
    /\ snapshotIndex = [s \in Server |-> 0]
    /\ snapshotTerm = [s \in Server |-> 0]
    /\ snapshot = [s \in Server |-> <<>>]
    /\ commitIndex = [s \in Server |-> 0]
    /\ lastApplied = [s \in Server |-> 0]
    /\ nextIndex = [s \in Server |-> [p \in Server |-> 1]]
    /\ matchIndex = [s \in Server |-> [p \in Server |-> 0]]
    /\ applyMsg = [s \in Server |-> Idle("idle")]
    /\ applied = [s \in Server |-> <<>>]
    /\ persisted = [s \in Server |-> Durable(s)]
    /\ net = EmptyBag
    /\ restarts = 0
    /\ voted = [s \in Server |-> {}]
    /\ elected = {}
    /\ committed = <<>>

-----------------------------------------------------------------------------
(* Leader election (leader_election.go).                                    *)

(* Slip: votedFor is reset to the zero value instead of "nobody". *)
StepDownToZero(s, term) ==
    /\ currentTerm' = [currentTerm EXCEPT ![s] = term]
    /\ role' = [role EXCEPT ![s] = "FOLLOWER"]
    /\ votedFor' = [votedFor EXCEPT ![s] = 0]

(* stepDown(term), without its call of persistSate. *)
StepDown(s, term) ==
    /\ currentTerm' = [currentTerm EXCEPT ![s] = term]
    /\ role' = [role EXCEPT ![s] = "FOLLOWER"]
    /\ votedFor' = [votedFor EXCEPT ![s] = Nil]

(* ticker and leaderElection up to its first Unlock: the election timeout   *)
(* has passed on a server that is not the leader.                           *)
StartElection(s) ==
    /\ s \in Candidates
    /\ role[s] # "LEADER"
    /\ currentTerm[s] < MaxTerm
    /\ LET term == currentTerm[s] + 1
       IN  /\ currentTerm' = [currentTerm EXCEPT ![s] = term]
           /\ role' = [role EXCEPT ![s] = "CANDIDATE"]
           /\ votedFor' = [votedFor EXCEPT ![s] = s]
           /\ ballots' = [ballots EXCEPT ![s][term] = {s}]
           /\ voted' = [voted EXCEPT ![s] = @ \cup {<<term, s>>}]
           /\ Send({[type |-> "RequestVote", from |-> s, to |-> p, term |-> term,
                     lastLogIndex |-> LastIndex(log[s]),
                     lastLogTerm |-> LastEntry(log[s]).Term] : p \in Server \ {s}})
    /\ UNCHANGED logVars
    /\ PersistSate(s)
    /\ UNCHANGED <<leaderVars, applyVars, commitIndex, restarts, elected, committed>>

UpToDate(s, m) ==
    \/ m.lastLogTerm > LastEntry(log[s]).Term
    \/ m.lastLogTerm = LastEntry(log[s]).Term /\ m.lastLogIndex >= LastIndex(log[s])

(* RequestVote, on server m.to. *)
RequestVote(m) ==
    LET s       == m.to
        newer   == m.term > currentTerm[s]
        free    == newer \/ votedFor[s] \in {Nil, m.from}
        grant   == m.term >= currentTerm[s] /\ free /\ UpToDate(s, m)
        reply   == [type |-> "RequestVoteReply", from |-> s, to |-> m.from,
                    argsTerm |-> m.term, term |-> currentTerm[s], granted |-> grant]
    IN  /\ m.type = "RequestVote"
        /\ currentTerm' = [currentTerm EXCEPT ![s] = Greater(@, m.term)]
        /\ role' = [role EXCEPT ![s] = IF newer THEN "FOLLOWER" ELSE @]
        /\ votedFor' = [votedFor EXCEPT ![s] = IF grant THEN m.from
                                               ELSE IF newer THEN Nil ELSE @]
        /\ voted' = [voted EXCEPT ![s] = IF grant THEN @ \cup {<<m.term, m.from>>} ELSE @]
        /\ UNCHANGED logVars
        /\ PersistSateIf(s, newer \/ grant)
        /\ Answer(m, reply)
        /\ UNCHANGED <<leaderVars, applyVars, ballots, elected, commitIndex, restarts, committed>>

(* One iteration of countVotes with a reply that arrived: it counts a vote, *)
(* or learns of a newer term and ends the election.                         *)
CountVote(m) ==
    LET s    == m.to
        lost == ~m.granted /\ m.term > currentTerm[s]
    IN  /\ m.type = "RequestVoteReply"
        /\ ballots[s][m.argsTerm] # {}
        /\ ~Majority(ballots[s][m.argsTerm])
        /\ Receive(m)
        /\ ballots' = [ballots EXCEPT ![s][m.argsTerm] =
                          IF lost THEN {} ELSE IF m.granted THEN @ \cup {m.from} ELSE @]
        /\ IF lost THEN StepDown(s, m.term) ELSE UNCHANGED roleVars
        /\ UNCHANGED logVars
        /\ PersistSateIf(s, lost)
        /\ UNCHANGED <<leaderVars, applyVars, voted, elected, commitIndex, restarts, committed>>

(* Slip: the check whose absence the comment in leaderElection recalls. *)
WinsInAnyTerm(s, term) == role[s] = "CANDIDATE"

(* The election that is over was for the term the server is still a         *)
(* candidate in.                                                            *)
Wins(s, term) == currentTerm[s] = term /\ role[s] = "CANDIDATE"

(* The rest of leaderElection after countVotes returned a majority:         *)
(* becomeLeader, unless the server has moved on meanwhile.                  *)
FinishElection(s, term) ==
    LET wins == Wins(s, term)
    IN  /\ Majority(ballots[s][term])
        /\ ballots' = [ballots EXCEPT ![s][term] = {}]
        /\ role' = [role EXCEPT ![s] = IF wins THEN "LEADER" ELSE @]
        /\ nextIndex' = [nextIndex EXCEPT ![s] =
              IF wins THEN [p \in Server |-> LastIndex(log[s]) + 1] ELSE @]
        /\ matchIndex' = [matchIndex EXCEPT ![s] =
              IF wins THEN [p \in Server |-> 0] ELSE @]
        /\ elected' = IF wins THEN elected \cup {<<currentTerm[s], s>>} ELSE elected
        /\ UNCHANGED <<currentTerm, votedFor, logVars, applyVars, commitIndex,
                       persisted, net, restarts, voted, committed>>

-----------------------------------------------------------------------------
(* Log replication, leader side (raft.go, log_replication.go).              *)

(* Start(command), on the leader. *)
Start(s, v) ==
    /\ role[s] = "LEADER"
    /\ LastIndex(log[s]) < MaxIndex
    /\ log' = [log EXCEPT ![s] = AppendEntry(@, [Term |-> currentTerm[s], Command |-> v])]
    /\ UNCHANGED <<roleVars, snapshotVars>>
    /\ PersistSate(s)
    /\ UNCHANGED <<leaderVars, applyVars, electVars, commitIndex, net, restarts, committed>>

(* What leaderLogReplication sends to peer p. *)
Replication(s, p) ==
    LET prev == nextIndex[s][p] - 1
    IN  IF prev < snapshotIndex[s]
        THEN [type |-> "InstallSnapshot", from |-> s, to |-> p,
              term |-> currentTerm[s],
              lastIncludedIndex |-> snapshotIndex[s],
              lastIncludedTerm |-> snapshotTerm[s], data |-> snapshot[s]]
        ELSE [type |-> "AppendEntries", from |-> s, to |-> p,
              term |-> currentTerm[s], prevLogIndex |-> prev,
              prevLogTerm |-> EntryAt(log[s], prev).Term,
              entries |-> Slice(log[s], prev + 1),
              leaderCommit |-> commitIndex[s]]

(* An iteration of leaderHeartbeats, after a notification or the interval. *)
Heartbeat(s) ==
    /\ role[s] = "LEADER"
    /\ Send({Replication(s, p) : p \in Server \ {s}})
    /\ UNCHANGED <<roleVars, logVars, leaderVars, applyVars, electVars,
                   commitIndex, persisted, restarts, committed>>

(* getSortedMatchIndex and the first lines of leaderCommit: the largest     *)
(* index a majority has reached.                                            *)
MajorityIndex(f) ==
    Largest({i \in {f[p] : p \in Server} : Majority({p \in Server : f[p] >= i})})

(* Slip: entries of older terms are committed by counting replicas. *)
CommitByCounting(s, f) ==
    LET c == MajorityIndex(f)
    IN  IF c > snapshotIndex[s] /\ c > commitIndex[s] THEN c ELSE commitIndex[s]

(* The commitIndex leaderCommit leaves, for the match indexes f. *)
LeaderCommit(s, f) ==
    LET c == MajorityIndex(f)
    IN  IF /\ c > snapshotIndex[s]
           /\ EntryAt(log[s], c).Term = currentTerm[s] \/ (\A p \in Server : f[p] >= c)
           /\ c > commitIndex[s]
        THEN c ELSE commitIndex[s]

(* Slip: nobody signals applyCond. *)
NoBroadcast(s) == UNCHANGED applyMsg

(* rf.applyCond.Broadcast. *)
WakeApplier(s) ==
    applyMsg' = [applyMsg EXCEPT ![s] = IF @.phase = "waiting" THEN Idle("idle") ELSE @]

(* sendAppendEntries after a successful reply. *)
AppendSucceeded(s, m) ==
    LET p     == m.from
        match == Greater(matchIndex[s][p], m.argsMatch)
        c     == IF m.argsMatch > matchIndex[s][p]
                 THEN LeaderCommit(s, [matchIndex[s] EXCEPT ![p] = match,
                                                            ![s] = LastIndex(log[s])])
                 ELSE commitIndex[s]
    IN  /\ matchIndex' = [matchIndex EXCEPT ![s][p] = match]
        /\ nextIndex' = [nextIndex EXCEPT ![s][p] = match + 1]
        /\ commitIndex' = [commitIndex EXCEPT ![s] = c]
        /\ committed' = IF c > Len(committed) THEN SubSeq(FullLog(s), 1, c) ELSE committed
        /\ IF c > commitIndex[s] THEN WakeApplier(s) ELSE UNCHANGED applyMsg
        /\ UNCHANGED <<roleVars, persisted>>

(* Where the leader retries after a conflict: behind its own entries of the *)
(* term it has at the conflicting index.                                    *)
RollBack(s, m) ==
    LET l    == log[s]
        ci   == m.conflictIndex
        skip == {i \in l.index0..ci : i = l.index0 \/ EntryAt(l, i).Term # EntryAt(l, ci).Term}
    IN  IF ci < snapshotIndex[s] \/ EntryAt(l, ci).Term = m.conflictTerm
        THEN ci + 1
        ELSE Largest(skip) + 1

(* Slip: a late refusal moves nextIndex behind matchIndex. *)
RetryBehindMatch(s, m) == RollBack(s, m)

(* Entries the peer is known to hold are not sent again. *)
RetryIndex(s, m) == Greater(matchIndex[s][m.from] + 1, RollBack(s, m))

(* sendAppendEntries after a refusal. *)
AppendRefused(s, m) ==
    IF m.term > currentTerm[s]
    THEN StepDown(s, m.term) /\ PersistSate(s) /\ UNCHANGED nextIndex
    ELSE /\ nextIndex' = [nextIndex EXCEPT ![s][m.from] = RetryIndex(s, m)]
         /\ UNCHANGED <<roleVars, persisted>>

(* The rest of sendAppendEntries, on server m.to. *)
AppendEntriesReply(m) ==
    LET s == m.to
    IN  /\ m.type = "AppendEntriesReply"
        /\ m.argsTerm = currentTerm[s]
        /\ role[s] = "LEADER"
        /\ UNCHANGED logVars
        /\ \/ m.success /\ AppendSucceeded(s, m)
           \/ ~m.success /\ AppendRefused(s, m)
                         /\ UNCHANGED <<matchIndex, commitIndex, applyMsg, committed>>
        /\ Receive(m)
        /\ UNCHANGED <<electVars, lastApplied, applied, restarts>>

(* The rest of sendInstallSnapshot, on server m.to. *)
InstallSnapshotReply(m) ==
    LET s       == m.to
        p       == m.from
        newer   == m.term > currentTerm[s]
        advance == ~newer /\ matchIndex[s][p] < m.argsIndex
    IN  /\ m.type = "InstallSnapshotReply"
        /\ m.argsTerm = currentTerm[s]
        /\ UNCHANGED logVars
        /\ IF newer THEN StepDown(s, m.term) ELSE UNCHANGED roleVars
        /\ PersistSateIf(s, newer)
        /\ matchIndex' = [matchIndex EXCEPT ![s][p] = IF advance THEN m.argsIndex ELSE @]
        /\ nextIndex' = [nextIndex EXCEPT ![s][p] = IF advance THEN m.argsIndex + 1 ELSE @]
        /\ Receive(m)
        /\ UNCHANGED <<applyVars, electVars, commitIndex, restarts, committed>>

-----------------------------------------------------------------------------
(* Log replication, follower side (log_replication.go).                     *)

(* Slip: requests of deposed leaders are obeyed. *)
NeverStale(m) == FALSE

(* The refusal of a request of an older term, by its receiver. *)
StaleTerm(m) == m.term < currentTerm[m.to]

(* AppendEntries and InstallSnapshot convert the receiver to a follower. *)
StepsDown(m) == m.term > currentTerm[m.to] \/ role[m.to] = "CANDIDATE"

AcceptLeader(m) ==
    IF StepsDown(m) THEN StepDown(m.to, m.term) ELSE UNCHANGED roleVars

Refusal(m, term, index) ==
    [type |-> "AppendEntriesReply", from |-> m.to, to |-> m.from,
     argsTerm |-> m.term, argsMatch |-> 0, term |-> currentTerm[m.to],
     success |-> FALSE, conflictTerm |-> term, conflictIndex |-> index]

(* Slip: the follower reports the end of its log as matching. *)
SuccessAtEnd(m) ==
    [type |-> "AppendEntriesReply", from |-> m.to, to |-> m.from,
     argsTerm |-> m.term, argsMatch |-> LastIndex(log[m.to]),
     term |-> currentTerm[m.to],
     success |-> TRUE, conflictTerm |-> 0, conflictIndex |-> 0]

Success(m) ==
    [type |-> "AppendEntriesReply", from |-> m.to, to |-> m.from,
     argsTerm |-> m.term, argsMatch |-> m.prevLogIndex + Len(m.entries),
     term |-> currentTerm[m.to],
     success |-> TRUE, conflictTerm |-> 0, conflictIndex |-> 0]

(* Slip: a delayed request may take commitIndex back. *)
FollowerCommitAny(s, leaderCommit) ==
    /\ commitIndex' = [commitIndex EXCEPT ![s] = Lesser(leaderCommit, LastIndex(log'[s]))]
    /\ WakeApplier(s)

(* followerCommit, after the log has been updated. *)
FollowerCommit(s, leaderCommit) ==
    IF leaderCommit > commitIndex[s]
    THEN /\ commitIndex' = [commitIndex EXCEPT ![s] = Lesser(leaderCommit, LastIndex(log'[s]))]
         /\ WakeApplier(s)
    ELSE UNCHANGED <<commitIndex, applyMsg>>

(* The log ends before prevLogIndex. *)
LogTooShort(s, m) ==
    /\ m.prevLogIndex > LastIndex(log[s])
    /\ Answer(m, Refusal(m, LastEntry(log[s]).Term, LastIndex(log[s])))
    /\ UNCHANGED <<log, snapshotVars, commitIndex, applyMsg>>
    /\ PersistSateIf(s, StepsDown(m))

(* prevLogIndex is inside the snapshot: entries the snapshot covers are     *)
(* skipped, the others overwrite the log from its placeholder on.           *)
PrevInSnapshot(s, m) ==
    LET i    == snapshotIndex[s] - m.prevLogIndex
        more == Len(m.entries) >= i
    IN  /\ m.prevLogIndex <= LastIndex(log[s])
        /\ m.prevLogIndex < snapshotIndex[s]
        /\ log' = [log EXCEPT ![s] =
              IF more THEN Place(@, snapshotIndex[s], SubSeq(m.entries, i, Len(m.entries)))
                      ELSE @]
        /\ UNCHANGED snapshotVars
        /\ IF more THEN FollowerCommit(s, m.leaderCommit) ELSE UNCHANGED <<commitIndex, applyMsg>>
        /\ Answer(m, Success(m))
        /\ PersistSateIf(s, StepsDown(m) \/ more)

(* Slip: the term of the preceding entry is not compared. *)
PrevAlwaysAgrees(s, m) == TRUE

(* The log matches the leader's at prevLogIndex. *)
PrevAgrees(s, m) == EntryAt(log[s], m.prevLogIndex).Term = m.prevLogTerm

(* The entry at prevLogIndex is of another term. *)
PrevConflicts(s, m) ==
    /\ m.prevLogIndex \in snapshotIndex[s]..LastIndex(log[s])
    /\ ~PrevAgrees(s, m)
    /\ log' = [log EXCEPT ![s] = CutOffTail(@, m.prevLogIndex)]
    /\ Answer(m, Refusal(m, EntryAt(log[s], m.prevLogIndex).Term, m.prevLogIndex))
    /\ UNCHANGED <<snapshotVars, commitIndex, applyMsg>>
    /\ PersistSate(s)

PrevMatches(s, m) ==
    /\ m.prevLogIndex \in snapshotIndex[s]..LastIndex(log[s])
    /\ PrevAgrees(s, m)
    /\ log' = [log EXCEPT ![s] = Place(@, m.prevLogIndex + 1, m.entries)]
    /\ UNCHANGED snapshotVars
    /\ FollowerCommit(s, m.leaderCommit)
    /\ Answer(m, Success(m))
    /\ PersistSate(s)

(* AppendEntries, on server m.to. *)
AppendEntries(m) ==
    LET s == m.to
    IN  /\ m.type = "AppendEntries"
        /\ \/ /\ StaleTerm(m)
              /\ Answer(m, Refusal(m, 0, 0))
              /\ UNCHANGED <<roleVars, logVars, commitIndex, applyMsg, persisted>>
           \/ /\ ~StaleTerm(m)
              /\ AcceptLeader(m)
              /\ \/ LogTooShort(s, m)
                 \/ PrevInSnapshot(s, m)
                 \/ PrevConflicts(s, m)
                 \/ PrevMatches(s, m)
        /\ UNCHANGED <<leaderVars, electVars, lastApplied, applied, restarts, committed>>

(* Slip: the entries behind the snapshot are dropped too. *)
KeepNothing(l, index, term) == MakeLog(index, term)

(* The log that InstallSnapshot leaves: entries behind the snapshot stay.   *)
LogBehind(l, index, term) ==
    IF LastIndex(l) > index THEN CutOffHead(l, index) ELSE MakeLog(index, term)

(* The part of InstallSnapshot that replaces the head of the log. *)
TakeSnapshot(s, m) ==
    LET index == m.lastIncludedIndex
        term  == m.lastIncludedTerm
    IN  /\ log' = [log EXCEPT ![s] = LogBehind(@, index, term)]
        /\ snapshotIndex' = [snapshotIndex EXCEPT ![s] = index]
        /\ snapshotTerm' = [snapshotTerm EXCEPT ![s] = term]
        /\ snapshot' = [snapshot EXCEPT ![s] = m.data]
        /\ WakeApplier(s)

(* InstallSnapshot, on server m.to. *)
InstallSnapshot(m) ==
    LET s     == m.to
        fresh == m.lastIncludedIndex > Greater(snapshotIndex[s], lastApplied[s])
        reply == [type |-> "InstallSnapshotReply", from |-> s, to |-> m.from,
                  argsTerm |-> m.term, argsIndex |-> m.lastIncludedIndex,
                  term |-> currentTerm[s]]
    IN  /\ m.type = "InstallSnapshot"
        /\ Answer(m, reply)
        /\ \/ StaleTerm(m) /\ UNCHANGED <<roleVars, logVars, applyMsg, persisted>>
           \/ /\ ~StaleTerm(m)
              /\ AcceptLeader(m)
              /\ IF fresh THEN TakeSnapshot(s, m) ELSE UNCHANGED <<logVars, applyMsg>>
              /\ IF fresh THEN Persist(s) ELSE PersistSateIf(s, StepsDown(m))
        /\ UNCHANGED <<leaderVars, electVars, commitIndex, lastApplied, applied,
                       restarts, committed>>

-----------------------------------------------------------------------------
(* The applier goroutine (applier.go), the service it feeds, and            *)
(* compaction (log_compaction.go).                                          *)

(* The applier's critical section that picks what to send, or waits. *)
ApplierPick(s) ==
    LET next == lastApplied[s] + 1
    IN  /\ s \in Appliers
        /\ applyMsg[s].phase = "idle"
        /\ applyMsg' = [applyMsg EXCEPT ![s] =
              IF snapshotIndex[s] > lastApplied[s]
              THEN [phase |-> "sending", isSnapshot |-> TRUE,
                    index |-> snapshotIndex[s], data |-> snapshot[s]]
              ELSE IF next <= commitIndex[s]
              THEN [phase |-> "sending", isSnapshot |-> FALSE,
                    index |-> next, data |-> <<EntryAt(log[s], next)>>]
              ELSE Idle("waiting")]
        /\ UNCHANGED <<roleVars, logVars, leaderVars, electVars, lastApplied, applied,
                       commitIndex, persisted, net, restarts, committed>>

(* applyCh <- msg: the service takes the message and applies it. *)
ApplierSend(s) ==
    LET m == applyMsg[s]
    IN  /\ m.phase = "sending"
        /\ applied' = [applied EXCEPT ![s] = IF m.isSnapshot THEN m.data ELSE @ \o m.data]
        /\ applyMsg' = [applyMsg EXCEPT ![s] = [m EXCEPT !.phase = "sent", !.data = <<>>]]
        /\ UNCHANGED <<roleVars, logVars, leaderVars, electVars, lastApplied,
                       commitIndex, persisted, net, restarts, committed>>

(* Slip: lastApplied does not move past a snapshot. *)
AppliedCommandsOnly(s, m) ==
    IF m.isSnapshot THEN lastApplied[s] ELSE Greater(lastApplied[s], m.index)

(* lastApplied after m has been handed over. *)
AppliedUpTo(s, m) == Greater(lastApplied[s], m.index)

(* The critical section after the send. *)
ApplierDone(s) ==
    LET m == applyMsg[s]
    IN  /\ m.phase = "sent"
        /\ applyMsg' = [applyMsg EXCEPT ![s] = Idle("idle")]
        /\ lastApplied' = [lastApplied EXCEPT ![s] = AppliedUpTo(s, m)]
        /\ commitIndex' = [commitIndex EXCEPT ![s] =
              IF m.isSnapshot /\ m.index > lastApplied[s] THEN Greater(@, m.index) ELSE @]
        /\ UNCHANGED <<roleVars, logVars, leaderVars, electVars, applied,
                       persisted, net, restarts, committed>>

(* Slip: the snapshot gets the term of the last entry. *)
LastTerm(s, index) == LastEntry(log[s]).Term

(* The term a snapshot up to index ends in. *)
SnapshotTermAt(s, index) == EntryAt(log[s], index).Term

(* Snapshot(index, data), called by the service between two messages with   *)
(* the state it has reached.                                                *)
Snapshot(s) ==
    LET index == Len(applied[s])
    IN  /\ s \in Snapshotters
        /\ index > snapshotIndex[s]
        /\ snapshot' = [snapshot EXCEPT ![s] = applied[s]]
        /\ snapshotTerm' = [snapshotTerm EXCEPT ![s] = SnapshotTermAt(s, index)]
        /\ snapshotIndex' = [snapshotIndex EXCEPT ![s] = index]
        /\ log' = [log EXCEPT ![s] = CutOffHead(@, index)]
        /\ UNCHANGED roleVars
        /\ Persist(s)
        /\ UNCHANGED <<leaderVars, applyVars, electVars, commitIndex, net, restarts, committed>>

-----------------------------------------------------------------------------
(* Crashes.                                                                 *)

(* Slip: Make takes the snapshot for applied, which the service has lost. *)
BootAtSnapshot(d) == d.snapshotIndex

(* lastApplied after Make: the snapshot is applied again. *)
BootApplied(d) == 0

(* The process stops and Make starts it again from the persisted state d.   *)
(* Goroutines waiting for replies are gone.                                 *)
Reboot(s, d) ==
    /\ restarts < MaxRestarts
    /\ restarts' = restarts + 1
    /\ currentTerm' = [currentTerm EXCEPT ![s] = d.currentTerm]
    /\ votedFor' = [votedFor EXCEPT ![s] = d.votedFor]
    /\ log' = [log EXCEPT ![s] = [index0 |-> d.snapshotIndex, entries |-> d.entries]]
    /\ snapshotIndex' = [snapshotIndex EXCEPT ![s] = d.snapshotIndex]
    /\ snapshotTerm' = [snapshotTerm EXCEPT ![s] = d.snapshotTerm]
    /\ snapshot' = [snapshot EXCEPT ![s] = d.snapshot]
    /\ persisted' = [persisted EXCEPT ![s] = d]
    /\ role' = [role EXCEPT ![s] = "FOLLOWER"]
    /\ ballots' = [ballots EXCEPT ![s] = [t \in Term |-> {}]]
    /\ commitIndex' = [commitIndex EXCEPT ![s] = 0]
    /\ lastApplied' = [lastApplied EXCEPT ![s] = BootApplied(d)]
    /\ nextIndex' = [nextIndex EXCEPT ![s] = [p \in Server |-> 1]]
    /\ matchIndex' = [matchIndex EXCEPT ![s] = [p \in Server |-> 0]]
    /\ applyMsg' = [applyMsg EXCEPT ![s] = Idle("idle")]
    /\ applied' = [applied EXCEPT ![s] = <<>>]
    /\ UNCHANGED <<voted, elected, committed>>

(* What is in flight, less the replies to goroutines of s. *)
WithoutRepliesTo(s, bag) ==
    [m \in {n \in DOMAIN bag : n.type \in ReplyTypes => n.to # s} |-> bag[m]]

(* A crash between two critical sections. *)
Restart(s) ==
    /\ Reboot(s, persisted[s])
    /\ net' = WithoutRepliesTo(s, net)

(* A crash inside a request handler, after stepDown has persisted the new   *)
(* term and before the handler persists anything else.                      *)
RestartInHandler(m) ==
    LET s == m.to
    IN  /\ m.type \notin ReplyTypes
        /\ \/ m.term > currentTerm[s]
           \/ m.type # "RequestVote" /\ m.term = currentTerm[s] /\ role[s] = "CANDIDATE"
        /\ Reboot(s, [persisted[s] EXCEPT !.currentTerm = m.term, !.votedFor = Nil])
        /\ net' = WithoutRepliesTo(s, Without(m))

-----------------------------------------------------------------------------
Next ==
    \/ \E s \in Server : StartElection(s)
    \/ \E s \in Server, t \in Term : FinishElection(s, t)
    \/ \E s \in Server, v \in Value : Start(s, v)
    \/ \E s \in Server : Heartbeat(s)
    \/ \E s \in Server : ApplierPick(s)
    \/ \E s \in Server : ApplierSend(s)
    \/ \E s \in Server : ApplierDone(s)
    \/ \E s \in Server : Snapshot(s)
    \/ \E s \in Server : Restart(s)
    \/ \E m \in InFlight : RequestVote(m)
    \/ \E m \in InFlight : CountVote(m)
    \/ \E m \in InFlight : AppendEntries(m)
    \/ \E m \in InFlight : AppendEntriesReply(m)
    \/ \E m \in InFlight : InstallSnapshot(m)
    \/ \E m \in InFlight : InstallSnapshotReply(m)
    \/ \E m \in InFlight : RestartInHandler(m)

Spec == Init /\ [][Next]_vars

-----------------------------------------------------------------------------
(* Properties.                                                              *)

DurableState == [currentTerm : Nat, votedFor : Server \cup {Nil}, entries : Seq(Entry),
                 snapshotIndex : Nat, snapshotTerm : Nat, snapshot : Seq(Entry)]

(* Every field has the type the Raft struct and the RPC structs give it,    *)
(* and indexes and terms never become negative.                             *)
TypeOK ==
    /\ currentTerm \in [Server -> Nat]
    /\ votedFor \in [Server -> Server \cup {Nil}]
    /\ role \in [Server -> Role]
    /\ ballots \in [Server -> [Term -> SUBSET Server]]
    /\ log \in [Server -> Log]
    /\ snapshotIndex \in [Server -> Nat]
    /\ snapshotTerm \in [Server -> Nat]
    /\ snapshot \in [Server -> Seq(Entry)]
    /\ commitIndex \in [Server -> Nat]
    /\ lastApplied \in [Server -> Nat]
    /\ nextIndex \in [Server -> [Server -> Nat]]
    /\ matchIndex \in [Server -> [Server -> Nat]]
    /\ applyMsg \in [Server -> ApplyMsg]
    /\ applied \in [Server -> Seq(Entry)]
    /\ persisted \in [Server -> DurableState]
    /\ IsABag(net) /\ InFlight \subseteq Message
    /\ restarts \in Nat
    /\ voted \in [Server -> SUBSET (Nat \X Server)]
    /\ elected \subseteq Nat \X Server
    /\ committed \in Seq(Entry)

(* At most one server ever wins the election of a term, although stepDown   *)
(* makes a candidate forget its vote when a leader of the same term shows   *)
(* up (leaderElection, RequestVote, stepDown).                              *)
ElectionSafety ==
    \A e, f \in elected : e[1] = f[1] => e[2] = f[2]

(* A server never casts two votes in a term: what the currentTerm and       *)
(* votedFor fields are kept on disk for.  The code breaks it.               *)
VoteOncePerTerm ==
    \A s \in Server : \A v, w \in voted[s] : v[1] = w[1] => v = w

(* At the end of every critical section the persister holds the live        *)
(* durable state, so a crash there loses nothing (persist, persistSate).    *)
NothingUnsaved == \A s \in Server : persisted[s] = Durable(s)

Holds(s, i) == i \in log[s].index0 + 1 .. LastIndex(log[s])

(* Two logs that have an entry of the same index and term are equal up to   *)
(* it, as far as both still hold the entries (AppendEntries and place).     *)
LogMatching ==
    \A s, p \in Server : \A i \in 1..Lesser(LastIndex(log[s]), LastIndex(log[p])) :
        s # p /\ Holds(s, i) /\ Holds(p, i) /\ EntryAt(log[s], i).Term = EntryAt(log[p], i).Term
        => \A j \in 1..i : Holds(s, j) /\ Holds(p, j) => EntryAt(log[s], j) = EntryAt(log[p], j)

(* What any server considers committed is what a leader committed there.    *)
CommittedAgree ==
    \A s \in Server : \A i \in 1..commitIndex[s] :
        Holds(s, i) => i <= Len(committed) /\ EntryAt(log[s], i) = committed[i]

RL == INSTANCE ReplicatedLog WITH chosen <- committed, delivered <- applied

(* The servers implement a replicated log: what a leader commits extends    *)
(* what was committed before, and the service of every server consumes that *)
(* one sequence from its start, whatever mix of entries and snapshots the   *)
(* applier hands it (leaderCommit, applier, Snapshot, InstallSnapshot).     *)
ImplementsReplicatedLog == RL!Spec

(* The leader of the latest term has every entry ever committed: neither    *)
(* the up-to-date check nor the commitment of entries of older terms that   *)
(* all servers hold lets one go missing (RequestVote, leaderCommit).        *)
LeaderCompleteness ==
    \A s \in Server :
        /\ role[s] = "LEADER"
        /\ \A e \in elected : e[1] <= currentTerm[s]
        => Prefix(committed, FullLog(s))

(* The server holds, as its leader does, every entry the leader believes it *)
(* does, late and repeated replies notwithstanding (sendAppendEntries,      *)
(* sendInstallSnapshot).                                                    *)
MatchIndexSound ==
    \A s, p \in Server :
        role[s] = "LEADER" /\ currentTerm[p] = currentTerm[s] /\ matchIndex[s][p] > 0
        => LET mine   == FullLog(s)
               theirs == FullLog(p)
           IN  /\ matchIndex[s][p] <= Lesser(Len(mine), Len(theirs))
               /\ \A i \in 1..matchIndex[s][p] : mine[i] = theirs[i]

(* The assertion of leaderLogReplication holds, and the entries it asks the *)
(* log for exist: rolling back and advancing nextIndex never crosses        *)
(* matchIndex or the end of the log.                                        *)
NextIndexSound ==
    \A s, p \in Server :
        role[s] = "LEADER" /\ p # s
        => matchIndex[s][p] < nextIndex[s][p] /\ nextIndex[s][p] <= LastIndex(log[s]) + 1

(* The assertion of AppendEntries holds for whatever is in flight: entries  *)
(* that overlap the receiver's snapshot agree with it at its last index.    *)
OverlapAgreesWithSnapshot ==
    \A m \in InFlight :
        m.type = "AppendEntries" /\ ~StaleTerm(m)
        => LET i == snapshotIndex[m.to] - m.prevLogIndex
           IN  i \in 1..Len(m.entries) => m.entries[i].Term = snapshotTerm[m.to]

(* The log starts at the snapshot and reaches whatever was committed or     *)
(* handed to the service, so entry() never reads outside it.                *)
LogCoversApplied ==
    \A s \in Server :
        /\ log[s].index0 = snapshotIndex[s]
        /\ Len(snapshot[s]) = snapshotIndex[s]
        /\ commitIndex[s] <= LastIndex(log[s])
        /\ Len(applied[s]) <= LastIndex(log[s])

(* The applier delivers command after command without a gap, and a snapshot *)
(* only when it is ahead of the service (the order the tester checks),      *)
(* although the lock is free while a message waits on applyCh.              *)
ApplyInOrder ==
    \A s \in Server :
        LET m == applyMsg[s]
        IN  m.phase = "sending" =>
              IF m.isSnapshot THEN m.index > Len(applied[s]) /\ m.index = Len(m.data)
                              ELSE m.index = Len(applied[s]) + 1

(* The applier is not asleep while it has something to deliver: every       *)
(* change that gives it work signals applyCond.                             *)
NoLostWakeup ==
    \A s \in Server :
        applyMsg[s].phase = "waiting" => Greater(snapshotIndex[s], commitIndex[s]) <= lastApplied[s]

(* Until a server restarts, its commitIndex only grows.                     *)
CommitMonotonic ==
    [][restarts' = restarts => \A s \in Server : commitIndex'[s] >= commitIndex[s]]_vars

(* A leader only appends to its log while it leads.                         *)
LeaderAppendOnly ==
    [][\A s \in Server :
          role[s] = "LEADER" /\ role'[s] = "LEADER" /\ log'[s] # log[s]
          => Prefix(FullLog(s), FullLog(s)')]_vars

(* The snapshot replaces all entries up to and including its last index: the *)
(* placeholder the log starts with has the term of the snapshot.            *)
SnapshotReplacesHead ==
    \A s \in Server : log[s].entries[1].Term = snapshotTerm[s]
=============================================================================
