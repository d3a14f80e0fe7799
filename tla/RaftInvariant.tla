---------------------------- MODULE RaftInvariant ----------------------------
(***************************************************************************)
(* The inductive invariant of the Raft servers, and what kinds of steps    *)
(* keep it.  RaftProofs shows that every action is of these kinds.         *)
(*                                                                         *)
(* Election safety does not follow from "a server votes once per term",    *)
(* which this code breaks: stepDown makes a candidate forget the vote it   *)
(* gave itself.  The invariant below says what is left of it.  A server    *)
(* has two votes in a term only if one of them is its own for itself and   *)
(* it can never win that term any more.                                    *)
(***************************************************************************)
EXTENDS Raft, TLAPS, FiniteSetTheorems

(* The fields an election reads and writes have their types. *)
ElectionTypeOK ==
    /\ currentTerm \in [Server -> Nat]
    /\ votedFor \in [Server -> Server \cup {Nil}]
    /\ role \in [Server -> Role]
    /\ ballots \in [Server -> [Term -> SUBSET Server]]
    /\ voted \in [Server -> SUBSET (Nat \X Server)]
    /\ elected \subseteq Nat \X Server

(* A message names servers and terms, and a granted vote was really cast. *)
MessageOK(m) ==
    /\ m.from \in Server
    /\ m.to \in Server
    /\ m.term \in Nat
    /\ m.type = "RequestVote" => m.term \in Term
    /\ m.type = "RequestVoteReply" =>
          /\ m.argsTerm \in Term
          /\ m.granted => <<m.argsTerm, m.to>> \in voted[m.from]

MessagesOK == \A m \in InFlight : MessageOK(m)

(* A candidate or leader stands by the vote it gave itself. *)
OwnVoteOK ==
    \A s \in Server : role[s] # "FOLLOWER" =>
        votedFor[s] = s /\ <<currentTerm[s], s>> \in voted[s]

(* A vote of the current term is the one in votedFor, unless it is the      *)
(* forgotten vote of a former candidate for itself.                         *)
VoteKnown ==
    \A v, c \in Server, t \in Nat : <<t, c>> \in voted[v] =>
        /\ t <= currentTerm[v]
        /\ t = currentTerm[v] =>
              votedFor[v] = c \/ (c = v /\ role[v] = "FOLLOWER" /\ <<t, v>> \notin elected)

(* Only a candidate that gave up has a second vote. *)
SecondVote ==
    \A v, c, d \in Server, t \in Nat :
        <<t, c>> \in voted[v] /\ <<t, d>> \in voted[v] /\ c # d =>
            /\ v \in {c, d}
            /\ <<t, v>> \notin elected
            /\ t = currentTerm[v] => role[v] = "FOLLOWER"

(* Ballots counted were cast. *)
BallotsCast ==
    \A v, c \in Server, t \in Term : v \in ballots[c][t] => <<t, c>> \in voted[v]

(* Elections were won by a majority, in a term the winner has reached, and  *)
(* not by a server that is still a candidate in it.                         *)
ElectedOK ==
    \A c \in Server, t \in Nat : <<t, c>> \in elected =>
        /\ Majority({v \in Server : <<t, c>> \in voted[v]})
        /\ t <= currentTerm[c]
        /\ t = currentTerm[c] => role[c] # "CANDIDATE"

ElectionInv ==
    /\ ElectionTypeOK
    /\ MessagesOK
    /\ OwnVoteOK
    /\ VoteKnown
    /\ SecondVote
    /\ BallotsCast
    /\ ElectedOK

-----------------------------------------------------------------------------
(* The network. *)

(* Sending adds at most the messages sent. *)
LEMMA SendAdds ==
    ASSUME NEW ms, Send(ms)
    PROVE  InFlight' \subseteq InFlight \cup ms
BY DEF Send, InFlight, BagToSet, SetToBag, (+)

(* Receiving a message adds none. *)
LEMMA ReceiveDrops ==
    ASSUME NEW m, Receive(m)
    PROVE  InFlight' \subseteq InFlight
BY DEF Receive, InFlight, BagToSet, SetToBag, Without, (-)

(* Answering a request adds at most the reply. *)
LEMMA AnswerAdds ==
    ASSUME NEW m, NEW reply, Answer(m, reply)
    PROVE  InFlight' \subseteq InFlight \cup {reply}
<1>1. CASE Receive(m)
    BY <1>1, ReceiveDrops
<1>2. CASE net' = Without(m) (+) SetToBag({reply})
  <2>1. DOMAIN Without(m) \subseteq DOMAIN net
      BY DEF Without, SetToBag, (-)
  <2>2. DOMAIN net' \subseteq DOMAIN Without(m) \cup {reply}
      BY <1>2 DEF SetToBag, (+)
  <2> QED BY <2>1, <2>2 DEF InFlight, BagToSet
<1> QED BY <1>1, <1>2 DEF Answer

(* A crash adds no message. *)
LEMMA CrashDrops ==
    ASSUME NEW s, NEW m,
           \/ net' = WithoutRepliesTo(s, net)
           \/ net' = WithoutRepliesTo(s, Without(m))
    PROVE  InFlight' \subseteq InFlight
BY DEF WithoutRepliesTo, InFlight, BagToSet, SetToBag, Without, (-)

(* Messages in flight stay sound while votes are only added. *)
LEMMA MessagesStay ==
    ASSUME MessagesOK, NEW new,
           InFlight' \subseteq InFlight \cup new,
           \A m \in new : MessageOK(m)',
           \A s \in Server : voted[s] \subseteq voted'[s]
    PROVE  MessagesOK'
<1> SUFFICES ASSUME NEW m \in InFlight PROVE MessageOK(m)'
    BY DEF MessagesOK
<1> QED BY DEF MessagesOK, MessageOK

-----------------------------------------------------------------------------
(* What a step may do to an election. *)

electionVars == <<currentTerm, votedFor, role, ballots, voted, elected>>

(* Ballots are closed, never stuffed. *)
BallotsShrink ==
    /\ ballots' \in [Server -> [Term -> SUBSET Server]]
    /\ \A c \in Server, t \in Term : ballots'[c][t] \subseteq ballots[c][t]

(* A step that leaves the election alone keeps the invariant. *)
LEMMA QuietStep ==
    ASSUME ElectionInv, UNCHANGED electionVars, MessagesOK'
    PROVE  ElectionInv'
<1> USE DEF ElectionInv, electionVars
<1>1. ElectionTypeOK' BY DEF ElectionTypeOK
<1>2. OwnVoteOK' BY DEF OwnVoteOK
<1>3. VoteKnown' BY DEF VoteKnown
<1>4. SecondVote' BY DEF SecondVote
<1>5. BallotsCast' BY DEF BallotsCast
<1>6. ElectedOK' BY DEF ElectedOK, Majority
<1> QED BY <1>1, <1>2, <1>3, <1>4, <1>5, <1>6

(* stepDown keeps the invariant, in a newer term or on a candidate.  In the *)
(* second case the candidate's own vote becomes its forgotten one.          *)
LEMMA StepDownStep ==
    ASSUME ElectionInv, NEW s \in Server, NEW t \in Nat,
           t > currentTerm[s] \/ (t = currentTerm[s] /\ role[s] = "CANDIDATE"),
           StepDown(s, t), BallotsShrink, UNCHANGED <<voted, elected>>, MessagesOK'
    PROVE  ElectionInv'
<1> USE DEF ElectionInv
<1>0. /\ currentTerm'[s] = t /\ role'[s] = "FOLLOWER" /\ votedFor'[s] = Nil
      /\ \A v \in Server \ {s} : /\ currentTerm'[v] = currentTerm[v]
                                 /\ role'[v] = role[v]
                                 /\ votedFor'[v] = votedFor[v]
      /\ voted' = voted /\ elected' = elected
      /\ \A v \in Server : currentTerm[v] \in Nat
    BY DEF ElectionTypeOK, StepDown
<1>1. ElectionTypeOK'
    BY DEF ElectionTypeOK, StepDown, BallotsShrink, Role
<1>2. OwnVoteOK'
    BY <1>0 DEF OwnVoteOK
<1>3. VoteKnown'
  <2> SUFFICES ASSUME NEW v \in Server, NEW c \in Server, NEW u \in Nat, <<u, c>> \in voted[v]
               PROVE  /\ u <= currentTerm'[v]
                      /\ u = currentTerm'[v] =>
                            \/ votedFor'[v] = c
                            \/ c = v /\ role'[v] = "FOLLOWER" /\ <<u, v>> \notin elected
      BY <1>0 DEF VoteKnown
  <2>1. /\ u <= currentTerm[v]
        /\ u = currentTerm[v] =>
              votedFor[v] = c \/ (c = v /\ role[v] = "FOLLOWER" /\ <<u, v>> \notin elected)
      BY DEF VoteKnown
  <2>2. role[s] = "CANDIDATE" => votedFor[s] = s /\ <<currentTerm[s], s>> \notin elected
      BY <1>0 DEF OwnVoteOK, ElectedOK
  <2>3. CASE v = s BY <1>0, <2>1, <2>2, <2>3
  <2>4. CASE v # s BY <1>0, <2>1, <2>4
  <2> QED BY <2>3, <2>4
<1>4. SecondVote'
  <2> SUFFICES ASSUME NEW v \in Server, NEW c \in Server, NEW d \in Server, NEW u \in Nat,
                      <<u, c>> \in voted[v], <<u, d>> \in voted[v], c # d
               PROVE  /\ v \in {c, d} /\ <<u, v>> \notin elected
                      /\ u = currentTerm'[v] => role'[v] = "FOLLOWER"
      BY <1>0 DEF SecondVote
  <2>1. /\ v \in {c, d} /\ <<u, v>> \notin elected
        /\ u = currentTerm[v] => role[v] = "FOLLOWER"
      BY DEF SecondVote
  <2> QED BY <1>0, <2>1
<1>5. BallotsCast'
    BY <1>0 DEF BallotsCast, BallotsShrink
<1>6. ElectedOK'
  <2> SUFFICES ASSUME NEW c \in Server, NEW u \in Nat, <<u, c>> \in elected
               PROVE  /\ Majority({v \in Server : <<u, c>> \in voted[v]})
                      /\ u <= currentTerm'[c]
                      /\ u = currentTerm'[c] => role'[c] # "CANDIDATE"
      BY <1>0 DEF ElectedOK, Majority
  <2>1. /\ Majority({v \in Server : <<u, c>> \in voted[v]})
        /\ u <= currentTerm[c]
        /\ u = currentTerm[c] => role[c] # "CANDIDATE"
      BY DEF ElectedOK
  <2> QED BY <1>0, <2>1
<1> QED BY <1>1, <1>2, <1>3, <1>4, <1>5, <1>6

(* A crash that loses only the role and the goroutines keeps it. *)
LEMMA ForgetRoleStep ==
    ASSUME ElectionInv, NEW s \in Server,
           role' = [role EXCEPT ![s] = "FOLLOWER"],
           BallotsShrink, UNCHANGED <<currentTerm, votedFor, voted, elected>>, MessagesOK'
    PROVE  ElectionInv'
<1> USE DEF ElectionInv
<1>0. \A v \in Server : role'[v] = role[v] \/ role'[v] = "FOLLOWER"
    BY DEF ElectionTypeOK
<1>1. ElectionTypeOK'
    BY DEF ElectionTypeOK, BallotsShrink, Role
<1>2. OwnVoteOK' BY <1>0 DEF OwnVoteOK
<1>3. VoteKnown' BY <1>0 DEF VoteKnown
<1>4. SecondVote' BY <1>0 DEF SecondVote
<1>5. BallotsCast' BY DEF BallotsCast, BallotsShrink
<1>6. ElectedOK' BY <1>0 DEF ElectedOK, Majority
<1> QED BY <1>1, <1>2, <1>3, <1>4, <1>5, <1>6

(* Counting or closing ballots keeps it, if those counted were cast. *)
LEMMA CountStep ==
    ASSUME ElectionInv, UNCHANGED <<currentTerm, votedFor, role, voted, elected>>,
           ballots' \in [Server -> [Term -> SUBSET Server]], BallotsCast', MessagesOK'
    PROVE  ElectionInv'
<1> USE DEF ElectionInv
<1>1. ElectionTypeOK' BY DEF ElectionTypeOK
<1>2. OwnVoteOK' BY DEF OwnVoteOK
<1>3. VoteKnown' BY DEF VoteKnown
<1>4. SecondVote' BY DEF SecondVote
<1>5. ElectedOK' BY DEF ElectedOK, Majority
<1> QED BY <1>1, <1>2, <1>3, <1>4, <1>5

(* A superset of a majority is one. *)
LEMMA MajorityGrows ==
    ASSUME NEW S, NEW T, S \subseteq T, T \subseteq Server, Majority(S)
    PROVE  Majority(T)
<1>1. IsFiniteSet(T)
    BY ServerAssumption, FS_Subset
<1>2. IsFiniteSet(S) /\ Cardinality(S) <= Cardinality(T)
    BY <1>1, FS_Subset
<1>3. Cardinality(S) \in Nat /\ Cardinality(T) \in Nat /\ Cardinality(Server) \in Nat
    BY <1>1, <1>2, ServerAssumption, FS_CardinalityType
<1> QED BY <1>2, <1>3 DEF Majority

(* Server s votes for c in the term t. *)
Grants(s, c, t) ==
    /\ t > currentTerm[s] \/ (t = currentTerm[s] /\ votedFor[s] \in {Nil, c})
    /\ currentTerm' = [currentTerm EXCEPT ![s] = t]
    /\ role' = [role EXCEPT ![s] = IF t > currentTerm[s] THEN "FOLLOWER" ELSE @]
    /\ votedFor' = [votedFor EXCEPT ![s] = c]
    /\ voted' = [voted EXCEPT ![s] = @ \cup {<<t, c>>}]
    /\ UNCHANGED <<ballots, elected>>

(* Granting a vote keeps the invariant: in the current term only a server   *)
(* that remembers no other vote grants one.                                 *)
LEMMA GrantStep ==
    ASSUME ElectionInv, NEW s \in Server, NEW c \in Server, NEW t \in Nat,
           Grants(s, c, t), MessagesOK'
    PROVE  ElectionInv'
<1> USE DEF ElectionInv, Grants
<1>0. /\ currentTerm'[s] = t /\ votedFor'[s] = c /\ currentTerm[s] <= t
      /\ role'[s] = IF t > currentTerm[s] THEN "FOLLOWER" ELSE role[s]
      /\ voted'[s] = voted[s] \cup {<<t, c>>}
      /\ \A v \in Server \ {s} : /\ currentTerm'[v] = currentTerm[v]
                                 /\ role'[v] = role[v]
                                 /\ votedFor'[v] = votedFor[v]
                                 /\ voted'[v] = voted[v]
      /\ elected' = elected /\ \A v \in Server : currentTerm[v] \in Nat
    BY DEF ElectionTypeOK
<1>1. ElectionTypeOK'
    BY DEF ElectionTypeOK, Role
<1>2. OwnVoteOK'
    BY <1>0, ServerAssumption DEF OwnVoteOK
<1>3. \A d \in Server : <<t, d>> \in voted[s] =>
          d = c \/ (d = s /\ role[s] = "FOLLOWER" /\ <<t, s>> \notin elected)
    BY <1>0, ServerAssumption DEF VoteKnown
<1>4. VoteKnown'
  <2> SUFFICES ASSUME NEW v \in Server, NEW d \in Server, NEW u \in Nat, <<u, d>> \in voted'[v]
               PROVE  /\ u <= currentTerm'[v]
                      /\ u = currentTerm'[v] =>
                            \/ votedFor'[v] = d
                            \/ d = v /\ role'[v] = "FOLLOWER" /\ <<u, v>> \notin elected
      BY <1>0 DEF VoteKnown
  <2>1. <<u, d>> \in voted[v] =>
          /\ u <= currentTerm[v]
          /\ u = currentTerm[v] =>
                votedFor[v] = d \/ (d = v /\ role[v] = "FOLLOWER" /\ <<u, v>> \notin elected)
      BY DEF VoteKnown
  <2>2. CASE v # s BY <1>0, <2>1, <2>2
  <2>3. CASE v = s
    <3>1. u <= t
        BY <1>0, <2>1, <2>3
    <3>2. u = t => d = c \/ (d = s /\ role'[s] = "FOLLOWER" /\ <<t, s>> \notin elected)
        BY <1>0, <1>3, <2>3
    <3> QED BY <1>0, <2>3, <3>1, <3>2
  <2> QED BY <2>2, <2>3
<1>5. SecondVote'
  <2> SUFFICES ASSUME NEW v \in Server, NEW a \in Server, NEW b \in Server, NEW u \in Nat,
                      <<u, a>> \in voted'[v], <<u, b>> \in voted'[v], a # b
               PROVE  /\ v \in {a, b} /\ <<u, v>> \notin elected
                      /\ u = currentTerm'[v] => role'[v] = "FOLLOWER"
      BY DEF SecondVote
  <2>1. <<u, a>> \in voted[v] /\ <<u, b>> \in voted[v] =>
          /\ v \in {a, b} /\ <<u, v>> \notin elected
          /\ u = currentTerm[v] => role[v] = "FOLLOWER"
      BY DEF SecondVote
  <2>2. CASE <<u, a>> \in voted[v] /\ <<u, b>> \in voted[v]
    <3>1. u <= currentTerm[v]
        BY <2>2 DEF VoteKnown
    <3> QED BY <1>0, <2>1, <2>2, <3>1
  <2>3. CASE v = s /\ u = t /\ (a = c \/ b = c)
    <3>1. (a # c => <<t, a>> \in voted[s]) /\ (b # c => <<t, b>> \in voted[s])
        BY <1>0, <2>3
    <3>2. /\ s \in {a, b} /\ role[s] = "FOLLOWER" /\ <<t, s>> \notin elected
      <4>1. CASE a = c
          BY <1>3, <3>1, <4>1
      <4>2. CASE b = c
          BY <1>3, <3>1, <4>2
      <4> QED BY <2>3, <4>1, <4>2
    <3> QED BY <1>0, <2>3, <3>2
  <2> QED BY <1>0, <2>2, <2>3
<1>6. BallotsCast'
  <2>1. \A v \in Server : voted[v] \subseteq voted'[v]
      BY <1>0
  <2> QED BY <2>1 DEF BallotsCast
<1>7. ElectedOK'
  <2> SUFFICES ASSUME NEW d \in Server, NEW u \in Nat, <<u, d>> \in elected
               PROVE  /\ Majority({v \in Server : <<u, d>> \in voted'[v]})
                      /\ u <= currentTerm'[d]
                      /\ u = currentTerm'[d] => role'[d] # "CANDIDATE"
      BY <1>0 DEF ElectedOK, Majority
  <2>1. /\ Majority({v \in Server : <<u, d>> \in voted[v]})
        /\ u <= currentTerm[d]
        /\ u = currentTerm[d] => role[d] # "CANDIDATE"
      BY DEF ElectedOK
  <2>2. {v \in Server : <<u, d>> \in voted[v]} \subseteq {v \in Server : <<u, d>> \in voted'[v]}
      BY <1>0
  <2>3. Majority({v \in Server : <<u, d>> \in voted'[v]})
      BY <2>1, <2>2, MajorityGrows
  <2>4. u <= currentTerm'[d] /\ (u = currentTerm'[d] => role'[d] # "CANDIDATE")
      BY <1>0, <2>1
  <2> QED BY <2>3, <2>4
<1> QED BY <1>1, <1>2, <1>4, <1>5, <1>6, <1>7

(* Winning an election keeps it. *)
LEMMA WinStep ==
    ASSUME ElectionInv, NEW s \in Server, NEW t \in Term,
           Majority(ballots[s][t]), currentTerm[s] = t, role[s] = "CANDIDATE",
           role' = [role EXCEPT ![s] = "LEADER"], elected' = elected \cup {<<t, s>>},
           BallotsShrink, UNCHANGED <<currentTerm, votedFor, voted>>, MessagesOK'
    PROVE  ElectionInv'
<1> USE DEF ElectionInv
<1>0. /\ role'[s] = "LEADER" /\ \A v \in Server \ {s} : role'[v] = role[v]
      /\ currentTerm' = currentTerm /\ voted' = voted /\ votedFor' = votedFor
      /\ t \in Nat
    BY BoundAssumption DEF ElectionTypeOK, Term
<1>1. ElectionTypeOK'
  <2>1. elected' \subseteq Nat \X Server
      BY <1>0 DEF ElectionTypeOK
  <2>2. role' \in [Server -> Role]
      BY DEF ElectionTypeOK, Role
  <2> QED BY <2>1, <2>2 DEF ElectionTypeOK, BallotsShrink
<1>2. OwnVoteOK'
    BY <1>0 DEF OwnVoteOK
<1>3. VoteKnown'
    BY <1>0 DEF VoteKnown
<1>4. SecondVote'
    BY <1>0 DEF SecondVote
<1>5. BallotsCast'
    BY <1>0 DEF BallotsCast, BallotsShrink
<1>6. ElectedOK'
  <2>1. Majority({v \in Server : <<t, s>> \in voted[v]})
    <3>1. ballots[s][t] \subseteq {v \in Server : <<t, s>> \in voted[v]}
        BY DEF BallotsCast, ElectionTypeOK
    <3> QED BY <3>1, MajorityGrows
  <2> SUFFICES ASSUME NEW d \in Server, NEW u \in Nat, <<u, d>> \in elected'
               PROVE  /\ Majority({v \in Server : <<u, d>> \in voted[v]})
                      /\ u <= currentTerm[d]
                      /\ u = currentTerm[d] => role'[d] # "CANDIDATE"
      BY <1>0, SMTT(60) DEF ElectedOK, Majority
  <2>2. CASE <<u, d>> \in elected
    <3>1. /\ Majority({v \in Server : <<u, d>> \in voted[v]})
          /\ u <= currentTerm[d]
          /\ u = currentTerm[d] => role[d] # "CANDIDATE"
        BY <2>2 DEF ElectedOK
    <3> QED BY <1>0, <3>1
  <2>3. CASE u = t /\ d = s
      BY <1>0, <2>1, <2>3
  <2> QED BY <2>2, <2>3
<1> QED BY <1>1, <1>2, <1>3, <1>4, <1>5, <1>6

(* A handler that may step down but casts no vote keeps it. *)
LEMMA MayStepDown ==
    ASSUME ElectionInv, NEW s \in Server, NEW t \in Nat,
           \/ /\ StepDown(s, t)
              /\ t > currentTerm[s] \/ (t = currentTerm[s] /\ role[s] = "CANDIDATE")
           \/ UNCHANGED roleVars,
           UNCHANGED electVars, MessagesOK'
    PROVE  ElectionInv'
<1>1. CASE /\ StepDown(s, t)
           /\ t > currentTerm[s] \/ (t = currentTerm[s] /\ role[s] = "CANDIDATE")
  <2>1. BallotsShrink
      BY DEF BallotsShrink, ElectionInv, ElectionTypeOK, electVars
  <2> QED BY <1>1, <2>1, StepDownStep DEF electVars
<1>2. CASE UNCHANGED roleVars
    BY <1>2, QuietStep DEF roleVars, electVars, electionVars
<1> QED BY <1>1, <1>2

-----------------------------------------------------------------------------
(* Persistence. *)

DurableFields ==
    /\ DOMAIN currentTerm = Server /\ DOMAIN votedFor = Server
    /\ DOMAIN log = Server /\ DOMAIN snapshot = Server
    /\ DOMAIN snapshotIndex = Server /\ DOMAIN snapshotTerm = Server

SaveInv ==
    /\ DurableFields
    /\ DOMAIN persisted = Server
    /\ NothingUnsaved

(* No durable state but that of s changes. *)
DurableOnlyOf(s) ==
    /\ DurableFields'
    /\ \A p \in Server \ {s} : Durable(p)' = Durable(p)

(* The same, field by field. *)
FieldsOnlyOf(s) ==
    /\ DurableFields'
    /\ \A p \in Server \ {s} :
          /\ currentTerm'[p] = currentTerm[p] /\ votedFor'[p] = votedFor[p]
          /\ log'[p] = log[p] /\ snapshot'[p] = snapshot[p]
          /\ snapshotIndex'[p] = snapshotIndex[p] /\ snapshotTerm'[p] = snapshotTerm[p]

LEMMA OnlyOf ==
    ASSUME NEW s, FieldsOnlyOf(s)
    PROVE  DurableOnlyOf(s)
BY DEF FieldsOnlyOf, DurableOnlyOf, Durable

(* A step that changes the durable state of s and persists it leaves        *)
(* nothing unsaved.                                                         *)
LEMMA PersistStep ==
    ASSUME SaveInv, NEW s \in Server, DurableOnlyOf(s), Persist(s)
    PROVE  SaveInv'
BY DEF SaveInv, NothingUnsaved, DurableOnlyOf, Persist

(* So does a step that changes no durable state. *)
LEMMA VolatileStep ==
    ASSUME SaveInv, UNCHANGED <<currentTerm, votedFor, logVars, persisted>>
    PROVE  SaveInv'
BY DEF SaveInv, DurableFields, NothingUnsaved, Durable, logVars, snapshotVars

(* persistSate is as good as persist while the snapshot stays the same. *)
LEMMA PersistSateSaves ==
    ASSUME SaveInv, NEW s \in Server, PersistSate(s), snapshot'[s] = snapshot[s]
    PROVE  Persist(s)
<1>1. [Durable(s)' EXCEPT !.snapshot = persisted[s].snapshot] = Durable(s)'
    BY DEF SaveInv, NothingUnsaved, Durable
<1> QED BY <1>1 DEF PersistSate, Persist

(* A handler that calls persistSate whenever it changed something, except   *)
(* the snapshot, leaves nothing unsaved.                                    *)
LEMMA PersistSateIfStep ==
    ASSUME SaveInv, NEW s \in Server, NEW wrote, DurableOnlyOf(s), PersistSateIf(s, wrote),
           snapshot'[s] = snapshot[s], ~wrote => Durable(s)' = Durable(s)
    PROVE  SaveInv'
<1>1. CASE wrote
    BY <1>1, PersistSateSaves, PersistStep DEF PersistSateIf
<1>2. CASE ~wrote
    BY <1>2 DEF SaveInv, NothingUnsaved, DurableOnlyOf, PersistSateIf
<1> QED BY <1>1, <1>2

(* So is a restart from whatever durable state d the persister holds. *)
LEMMA RebootStep ==
    ASSUME SaveInv, NEW s \in Server, NEW d, Reboot(s, d),
           d = [currentTerm  |-> d.currentTerm,  votedFor      |-> d.votedFor,
                entries      |-> d.entries,      snapshotIndex |-> d.snapshotIndex,
                snapshotTerm |-> d.snapshotTerm, snapshot      |-> d.snapshot]
    PROVE  SaveInv'
<1>1. DurableFields' /\ DOMAIN persisted' = Server
    BY DEF SaveInv, DurableFields, Reboot
<1>2. persisted'[s] = Durable(s)'
    BY DEF SaveInv, DurableFields, Reboot, Durable
<1>3. \A p \in Server \ {s} : persisted'[p] = Durable(p)'
    BY DEF SaveInv, NothingUnsaved, DurableFields, Reboot, Durable
<1> QED BY <1>1, <1>2, <1>3 DEF SaveInv, NothingUnsaved

-----------------------------------------------------------------------------
(* One lemma for each action.  Together the invariants are inductive.       *)

Inv == ElectionInv /\ SaveInv

(* An answered request leaves sound messages behind if the reply is sound. *)
LEMMA AnswerStep ==
    ASSUME ElectionInv, NEW m \in InFlight, NEW reply, Answer(m, reply),
           MessageOK(reply)', \A s \in Server : voted[s] \subseteq voted'[s]
    PROVE  MessagesOK'
<1> DEFINE new == {reply}
<1>1. InFlight' \subseteq InFlight \cup new
    BY AnswerAdds
<1>2. \A n \in new : MessageOK(n)'
    BY DEF MessageOK
<1> HIDE DEF new
<1> QED BY <1>1, <1>2, MessagesStay DEF ElectionInv

(* So does a step that adds no message. *)
LEMMA NoNewMessage ==
    ASSUME ElectionInv, InFlight' \subseteq InFlight, UNCHANGED voted
    PROVE  MessagesOK'
BY DEF ElectionInv, MessagesOK, MessageOK

(* And the receipt of a reply. *)
LEMMA ReceiveStep ==
    ASSUME ElectionInv, NEW m, Receive(m), UNCHANGED voted
    PROVE  MessagesOK'
BY ReceiveDrops, NoNewMessage
=============================================================================
