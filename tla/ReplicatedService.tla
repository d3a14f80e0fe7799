------------------------- MODULE ReplicatedService --------------------------
(***************************************************************************)
(* A service on top of Raft, as kvraft and shardctrler build it: a Clerk   *)
(* that tries the servers in turn until one answers, handlers that start   *)
(* an operation in Raft's log and sleep until it is applied, an applier    *)
(* that skips what a client has already had done, and snapshots.           *)
(*                                                                         *)
(* What the service stores is a parameter: Apply gives the states an       *)
(* operation may lead to, Answer what its handler reads afterwards.        *)
(*                                                                         *)
(* Raft is the environment of the service and no more than an agreed log:  *)
(* Commit, Deliver, DeliverSnap and Restart do to it what Choose, Deliver  *)
(* and Crash of ReplicatedLog.tla allow, which Raft.tla is checked to      *)
(* implement.  Of the snapshots ReplicatedLog allows to be delivered the   *)
(* service sees those its servers took.                                    *)
(***************************************************************************)
EXTENDS Integers, Sequences, FiniteSets

CONSTANTS Server,
          Client,         \* one Clerk each, used by one goroutine
          Requests(_, _), \* what a client may ask for as its n-th operation
          InitState,      \* the state of an empty service
          Apply(_, _),    \* the states an operation may lead to
          Answer(_, _),   \* what an operation's handler reads from the state
          MaxRaftState,   \* 0 when the service takes no snapshots
          MaxOps,         \* bound: operations of all clients
          MaxRepeats,     \* bound: log entries beyond the first of an operation
          Restarting,     \* servers that restart
          MaxRestarts     \* bound: restarts

ASSUME ServiceAssumption ==
    /\ Restarting \subseteq Server
    /\ {MaxRaftState, MaxOps, MaxRepeats, MaxRestarts} \subseteq Nat

VARIABLES
    (* Raft *)
    chosen,       \* the log the servers agree on
    lastApplied,  \* how far each server's applier has read
    (* servers *)
    state,        \* what the service stores
    lastSeqNum,   \* ClientStatus.lastSeqNum
    snap,         \* the snapshot in the persister
    waiting,      \* handlers asleep in operate: server and operation
    reading,      \* handlers woken, which have not read the state yet
    restarts,
    (* clerks *)
    sent,         \* the operations of a clerk so far; seqNum is their number
    busy,         \* the clerk's last operation has not returned
    answer        \* what the last operation returned

serverVars == <<lastApplied, state, lastSeqNum, snap>>
handlerVars == <<waiting, reading>>
clerkVars == <<sent, busy, answer>>
vars == <<chosen, serverVars, handlerVars, clerkVars, restarts>>

NoSeqNums == [c \in Client |-> 0]

-----------------------------------------------------------------------------
(* StartKVServer, StartServer and MakeClerk. *)
Init ==
    /\ chosen = <<>>
    /\ lastApplied = [s \in Server |-> 0]
    /\ state = [s \in Server |-> InitState]
    /\ lastSeqNum = [s \in Server |-> NoSeqNums]
    /\ snap = [s \in Server |-> [index |-> 0, data |-> InitState, seqs |-> NoSeqNums]]
    /\ waiting = {} /\ reading = {}
    /\ restarts = 0
    /\ sent = [c \in Client |-> <<>>]
    /\ busy = [c \in Client |-> FALSE]
    /\ answer = [c \in Client |-> <<>>]

-----------------------------------------------------------------------------
(* The clerk.                                                              *)

(* The rounds of call send the request to one server after the other, a    *)
(* new one whenever the last is refused or not answered in time; labrpc    *)
(* delays each as long as it likes.  So from its call on a request may     *)
(* come to any server any number of times, also when the call is over.     *)
Arriving == UNION {{sent[c][n] : n \in DOMAIN sent[c]} : c \in Client}

(* Get, PutAppend, Query, Join, Leave, Move: the arguments get the next    *)
(* sequence number, and call begins.                                       *)
Begin(c, req) ==
    LET seqNum == Len(sent[c]) + 1 IN
    /\ ~ busy[c]
    /\ Cardinality(Arriving) < MaxOps
    /\ sent' = [sent EXCEPT ![c] =
                  Append(@, [client |-> c, seq |-> seqNum, req |-> req])]
    /\ busy' = [busy EXCEPT ![c] = TRUE]
    /\ UNCHANGED <<chosen, serverVars, handlerVars, answer, restarts>>

(* The call of operation o has not returned yet. *)
Pending(o) == busy[o.client] /\ o.seq = Len(sent[o.client])

(* A reply that is not "wrong leader" ends the call, whichever round it    *)
(* belongs to.  That it takes time is left out, as the request took it; so *)
(* are the other handlers of the call, which nobody listens to any more.   *)
Return(o, a) ==
    /\ busy' = [busy EXCEPT ![o.client] = FALSE]
    /\ answer' = [answer EXCEPT ![o.client] = a]
    /\ waiting' = {h \in waiting : h[2] # o}
    /\ reading' = {h \in reading : h[2] # o}
    /\ UNCHANGED sent

-----------------------------------------------------------------------------
(* The handlers.  One that finds its server not to be the leader replies   *)
(* so; nothing changes, and the clerk goes on with its rounds.             *)

done(s, o) == lastSeqNum[s][o.client] >= o.seq

(* operate finds the operation done, and the handler reads and answers.    *)
OperateDone(s, o) ==
    /\ Pending(o)
    /\ done(s, o)
    /\ Return(o, Answer(state[s], o))
    /\ UNCHANGED <<chosen, serverVars, restarts>>

(* Entries of an operation that is in the log already. *)
Repeats == {i \in DOMAIN chosen : \E j \in 1 .. i - 1 : chosen[j] = chosen[i]}

(* Raft agrees on an operation.  The time it takes is left out, as the     *)
(* request may take it.                                                    *)
Commit(o) ==
    /\ (\E i \in DOMAIN chosen : chosen[i] = o) => Cardinality(Repeats) < MaxRepeats
    /\ chosen' = Append(chosen, o)

(* Slip: a handler asleep for the operation keeps others from starting it. *)
OperateStartOnce(s, o, agreed) ==
    /\ ~ done(s, o)
    /\ <<s, o>> \notin waiting
    /\ IF agreed THEN Commit(o) ELSE Pending(o) /\ UNCHANGED chosen
    /\ waiting' = waiting \union IF Pending(o) THEN {<<s, o>>} ELSE {}
    /\ UNCHANGED <<serverVars, reading, clerkVars, restarts>>

(* Start puts the operation into the log of a server that takes itself for *)
(* the leader, and the handler sleeps.  The entry is agreed on, or a new   *)
(* leader overwrites it and the handler sleeps for nothing.                *)
OperateStart(s, o, agreed) ==
    /\ ~ done(s, o)
    /\ IF agreed THEN Commit(o) ELSE Pending(o) /\ UNCHANGED chosen
    /\ waiting' = waiting \union IF Pending(o) THEN {<<s, o>>} ELSE {}
    /\ UNCHANGED <<serverVars, reading, clerkVars, restarts>>

(* A handler that was woken reads the state as it is by then. *)
Read(s, o) ==
    /\ <<s, o>> \in reading
    /\ Return(o, Answer(state[s], o))
    /\ UNCHANGED <<chosen, serverVars, restarts>>

-----------------------------------------------------------------------------
(* The applier.                                                            *)

(* Slip: a handler that is woken does not look again (an "if" around Wait  *)
(* instead of a "for").                                                    *)
BroadcastToAll(s) ==
    LET woken == {h \in waiting : h[1] = s /\ lastSeqNum'[s] # lastSeqNum[s]}
    IN  waiting' = waiting \ woken /\ reading' = reading \union woken

(* updateSeqNum broadcasts: the sleeping handlers of s that find their     *)
(* operation done leave operate.                                           *)
Broadcast(s) ==
    LET woken == {h \in waiting : h[1] = s /\ lastSeqNum'[s][h[2].client] >= h[2].seq}
    IN  waiting' = waiting \ woken /\ reading' = reading \union woken

(* Slip: no test whether the client has had the operation done. *)
ApplyOpAgain(s, o) ==
    /\ \E st \in Apply(state[s], o) : state' = [state EXCEPT ![s] = st]
    /\ lastSeqNum' = [lastSeqNum EXCEPT ![s][o.client] = o.seq]

(* applyOp: what the client has had done already is skipped. *)
ApplyOp(s, o) ==
    IF done(s, o) THEN UNCHANGED <<state, lastSeqNum>>
    ELSE /\ \E st \in Apply(state[s], o) : state' = [state EXCEPT ![s] = st]
         /\ lastSeqNum' = [lastSeqNum EXCEPT ![s][o.client] = o.seq]

(* Slip: the sequence numbers are collected before the command is applied. *)
SnapshotOldNumbers(s) ==
    snap' = [snap EXCEPT ![s] = [index |-> lastApplied'[s], data |-> state'[s],
                                 seqs |-> lastSeqNum[s]]]

(* snapshot: the state and the sequence numbers, under the index. *)
Snapshot(s) ==
    snap' = [snap EXCEPT ![s] = [index |-> lastApplied'[s], data |-> state'[s],
                                 seqs |-> lastSeqNum'[s]]]

(* RaftStateSize counts the entries behind the snapshot, those a server    *)
(* holds beyond the applied ones included: any number between what it has  *)
(* applied and what there is.                                              *)
RaftStateSizes(s) == lastApplied'[s] - snap[s].index .. Len(chosen) - snap[s].index

(* applier, a command: apply it, and take a snapshot when the log is long. *)
Deliver(s) ==
    /\ lastApplied[s] < Len(chosen)
    /\ lastApplied[s] >= snap[s].index
    /\ lastApplied' = [lastApplied EXCEPT ![s] = @ + 1]
    /\ ApplyOp(s, chosen[lastApplied[s] + 1])
    /\ \E size \in RaftStateSizes(s) :
           IF MaxRaftState > 0 /\ size >= MaxRaftState
           THEN Snapshot(s) ELSE UNCHANGED snap
    /\ Broadcast(s)
    /\ UNCHANGED <<chosen, clerkVars, restarts>>

(* applySnap: the data, and the sequence numbers that go with it. *)
ApplySnap(s, sn) ==
    /\ state' = [state EXCEPT ![s] = sn.data]
    /\ lastSeqNum' = [lastSeqNum EXCEPT ![s] = sn.seqs]

(* Slip: sequence numbers from a snapshot wake nobody. *)
DeliverSnapSilently(s, q) ==
    /\ snap[q].index > lastApplied[s]
    /\ snap[q].index >= snap[s].index
    /\ lastApplied' = [lastApplied EXCEPT ![s] = snap[q].index]
    /\ snap' = [snap EXCEPT ![s] = snap[q]]
    /\ ApplySnap(s, snap[q])
    /\ UNCHANGED <<chosen, handlerVars, clerkVars, restarts>>

(* applier, a snapshot: the server's own after a restart, or one that the  *)
(* leader q has sent and that Raft has put in its place.                   *)
DeliverSnap(s, q) ==
    /\ snap[q].index > lastApplied[s]
    /\ snap[q].index >= snap[s].index
    /\ lastApplied' = [lastApplied EXCEPT ![s] = snap[q].index]
    /\ snap' = [snap EXCEPT ![s] = snap[q]]
    /\ ApplySnap(s, snap[q])
    /\ Broadcast(s)
    /\ UNCHANGED <<chosen, clerkVars, restarts>>

(* Kill and StartKVServer: the handlers of the old instance never answer,  *)
(* and the new one begins with nothing applied.                            *)
Restart(s) ==
    /\ restarts < MaxRestarts
    /\ restarts' = restarts + 1
    /\ lastApplied' = [lastApplied EXCEPT ![s] = 0]
    /\ state' = [state EXCEPT ![s] = InitState]
    /\ lastSeqNum' = [lastSeqNum EXCEPT ![s] = NoSeqNums]
    /\ waiting' = {h \in waiting : h[1] # s}
    /\ reading' = {h \in reading : h[1] # s}
    /\ UNCHANGED <<chosen, snap, clerkVars>>

-----------------------------------------------------------------------------
HandlerStep(s, o) ==
    \/ OperateDone(s, o)
    \/ \E agreed \in BOOLEAN : OperateStart(s, o, agreed)
    \/ Read(s, o)

Next ==
    \/ \E c \in Client : \E req \in Requests(c, Len(sent[c]) + 1) : Begin(c, req)
    \/ \E s \in Server, o \in Arriving : HandlerStep(s, o)
    \/ \E s \in Server : Deliver(s)
    \/ \E s \in Restarting : Restart(s)
    \/ \E s, q \in Server : DeliverSnap(s, q)

Spec == Init /\ [][Next]_vars

(* Fairness: timers fire and goroutines run, so that a call under way asks *)
(* every server again and again, and answers arrive; and of the servers    *)
(* asked again and again one is at some time a leader whose entry is       *)
(* agreed on.                                                              *)
Current(c) == sent[c][Len(sent[c])]

Fairness ==
    /\ \A c \in Client :
        /\ WF_vars(\E s \in Server : busy[c] /\ OperateStart(s, Current(c), TRUE))
        /\ WF_vars(\E s \in Server : busy[c] /\ OperateDone(s, Current(c)))
    /\ \A s \in Server : WF_vars(Deliver(s) \/ DeliverSnap(s, s))

FairSpec == Spec /\ Fairness

-----------------------------------------------------------------------------
(* Properties of every service of this kind                                *)

(* No handler sleeps in operate once its operation is done: updateSeqNum   *)
(* wakes it, also when a snapshot brings the sequence number.              *)
NoSleeperLeft == \A h \in waiting : ~ done(h[1], h[2])

(* Every call of a clerk returns, although entries are overwritten and     *)
(* their handlers sleep for nothing, and servers restart: the rounds of    *)
(* call go on until a server has the operation done.                       *)
CallsReturn == \A c \in Client : busy[c] ~> ~ busy[c]
=============================================================================
