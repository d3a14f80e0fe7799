------------------------------- MODULE MCRaft -------------------------------
(***************************************************************************)
(* Raft for TLC.                                                           *)
(***************************************************************************)
EXTENDS Raft, TLC

CONSTANTS s1, s2, s3, v1

(* Servers that may become leader are interchangeable, when everything else *)
(* treats them alike.                                                       *)
CandidateSymmetry == Permutations(Candidates)

(* An election goroutine that can still do something: a message of its      *)
(* election is in flight, or it is about to win.                            *)
ElectionOpen(s, t) ==
    \/ \E m \in InFlight : m.type = "RequestVote" /\ m.from = s /\ m.term = t
    \/ \E m \in InFlight : m.type = "RequestVoteReply" /\ m.to = s /\ m.argsTerm = t
    \/ Majority(ballots[s][t]) /\ currentTerm[s] = t /\ role[s] = "CANDIDATE"

(* Two states that differ only in the votes once cast, in elections that    *)
(* can no longer end and in a follower's nextIndex and matchIndex behave    *)
(* alike: nothing reads these again, and becomeLeader resets the last two.  *)
RaftView ==
    <<roleVars, logVars, commitIndex, applyVars, persisted, net, restarts,
      elected, committed,
      [s \in Server |-> [t \in Term |-> IF ElectionOpen(s, t) THEN ballots[s][t] ELSE {}]],
      [s \in Server |-> IF role[s] = "LEADER" THEN <<nextIndex[s], matchIndex[s]>> ELSE <<>>]>>

(* Values for s1, s2 and s3. *)
At(a, b, c) == [s \in Server |-> CASE s = s1 -> a [] s = s2 -> b [] OTHER -> c]

(* A log of one command per term of a sequence. *)
LogOf(terms) == [index0 |-> 0, entries |-> [i \in 1..Len(terms) + 1 |->
    IF i = 1 THEN [Term |-> 0, Command |-> Nil] ELSE [Term |-> terms[i - 1], Command |-> v1]]]

(* Reachable states to start from, so that a small bound on messages and    *)
(* terms is spent on what follows them.  OtherwiseInitial is what they      *)
(* leave as Init has it.                                                    *)
OtherwiseInitial ==
    /\ ballots = [s \in Server |-> [t \in Term |-> {}]]
    /\ snapshotIndex = [s \in Server |-> 0]
    /\ snapshotTerm = [s \in Server |-> 0]
    /\ snapshot = [s \in Server |-> <<>>]
    /\ commitIndex = [s \in Server |-> 0]
    /\ lastApplied = [s \in Server |-> 0]
    /\ matchIndex = [s \in Server |-> [p \in Server |-> 0]]
    /\ applyMsg = [s \in Server |-> Idle("idle")]
    /\ applied = [s \in Server |-> <<>>]
    /\ persisted = [s \in Server |-> Durable(s)]
    /\ net = EmptyBag
    /\ restarts = 0
    /\ committed = <<>>

(* s1 led term 1 with both votes, s2 leads term 2 with the vote of s3, each *)
(* has started a command, and none of their AppendEntries has arrived.      *)
TwoLeaders ==
    /\ currentTerm = At(1, 2, 2)
    /\ votedFor = At(s1, s2, s2)
    /\ role = At("LEADER", "LEADER", "FOLLOWER")
    /\ log = At(LogOf(<<1>>), LogOf(<<2>>), LogOf(<<>>))
    /\ nextIndex = [s \in Server |-> [p \in Server |-> 1]]
    /\ voted = At({<<1, s1>>}, {<<1, s1>>, <<2, s2>>}, {<<1, s1>>, <<2, s2>>})
    /\ elected = {<<1, s1>>, <<2, s2>>}
    /\ OtherwiseInitial

(* s1 led term 1 with both votes and started two commands, of which only    *)
(* the first has reached s2, and none s3; s2 leads term 2 with the vote of  *)
(* s3, and s1, asked for its vote, has refused it and become a follower.    *)
Succession ==
    /\ currentTerm = At(2, 2, 2)
    /\ votedFor = At(Nil, s2, s2)
    /\ role = At("FOLLOWER", "LEADER", "FOLLOWER")
    /\ log = At(LogOf(<<1, 1>>), LogOf(<<1>>), LogOf(<<>>))
    /\ nextIndex = At([p \in Server |-> 1], [p \in Server |-> 2], [p \in Server |-> 1])
    /\ voted = At({<<1, s1>>}, {<<1, s1>>, <<2, s2>>}, {<<1, s1>>, <<2, s2>>})
    /\ elected = {<<1, s1>>, <<2, s2>>}
    /\ OtherwiseInitial

(* The situation of Figure 8 of the Raft paper, reached without a crash:    *)
(* after TwoLeaders, s1 learnt of term 2 and leads term 3 with the vote of  *)
(* s3, while s2 refused its vote.                                           *)
Figure8 ==
    /\ currentTerm = At(3, 3, 3)
    /\ votedFor = At(s1, Nil, s1)
    /\ role = At("LEADER", "FOLLOWER", "FOLLOWER")
    /\ log = At(LogOf(<<1>>), LogOf(<<2>>), LogOf(<<>>))
    /\ nextIndex = At([p \in Server |-> 2], [p \in Server |-> 1], [p \in Server |-> 1])
    /\ voted = At({<<1, s1>>, <<3, s1>>}, {<<1, s1>>, <<2, s2>>},
                  {<<1, s1>>, <<2, s2>>, <<3, s1>>})
    /\ elected = {<<1, s1>>, <<2, s2>>, <<3, s1>>}
    /\ OtherwiseInitial

TwoLeadersSpec == TwoLeaders /\ [][Next]_vars

SuccessionSpec == Succession /\ [][Next]_vars

Figure8Spec == Figure8 /\ [][Next]_vars
=============================================================================
