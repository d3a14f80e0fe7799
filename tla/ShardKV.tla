------------------------------- MODULE ShardKV -------------------------------
(***************************************************************************)
(* The sharded key/value service: replica groups, each with an agreed log  *)
(* (ReplicatedLog.tla), that serve the shards a configuration gives them,  *)
(* pollers that take a group from one configuration to the next and fetch  *)
(* the shards it gains from the groups that lose them, and clerks that     *)
(* look for the group of a shard.                                          *)
(*                                                                         *)
(* A shard has one key.  Its value is the sequence of the writes it was    *)
(* put together from.                                                      *)
(***************************************************************************)
EXTENDS ShardConfig, Functions

CONSTANTS Server,
          gid,          \* the group of each server
          Poller,       \* servers that take themselves for leaders
          Configs,      \* what the shard controller holds in the end
          Client,
          Requests(_, _), \* [type, shard] of a client's n-th operation
          MaxOps,       \* bound: operations of a client
          MaxRepeats,   \* bound: entries of an operation beyond its first,
                        \* per group
          MaxRaftState, \* 0 for no snapshots
          Restarting, MaxRestarts

ASSUME ShardKVAssumption ==
    /\ gid \in [Server -> Gid] /\ Poller \subseteq Server /\ Restarting \subseteq Server
    /\ Configs \in Seq(Config) /\ \A n \in DOMAIN Configs : Configs[n].Num = n - 1
    /\ {MaxOps, MaxRepeats, MaxRaftState, MaxRestarts} \subseteq Nat

VARIABLES
    latest,      \* number of the controller's latest configuration
    (* Raft *)
    log,         \* the entries each group has agreed on
    applied,     \* how many of them each server has applied
    (* servers *)
    config, store,
    seqs,        \* clientStatusMap
    snap,        \* the snapshot in the persister
    nextConfig,  \* not replicated
    processing,  \* configInPrecessingMap
    seqNum,      \* of the requests of the server's poller
    migration,   \* what the poller waits for
    reading,     \* GetShards handlers between their two reads
    restarts,
    (* clerks *)
    ckConfig,
    ops,         \* the operations so far
    busy,        \* the last one has not returned
    answer,      \* what the last Get returned
    sent         \* requests sent to groups so far

stateVars == <<config, store, seqs>>
pollerVars == <<nextConfig, processing, seqNum, migration, reading>>
clerkVars == <<ckConfig, ops, busy, answer>>
vars == <<latest, log, applied, stateVars, snap, pollerVars, restarts, clerkVars, sent>>

Group == {gid[s] : s \in Server}
Members(g) == {s \in Server : gid[s] = g}

(* nrand gives a poller a new client number at every start. *)
ClientId == Client \union (Poller \X (0 .. MaxRestarts))
clientId(p) == <<p, restarts[p]>>

NoSeqNums == [c \in ClientId |-> 0]
EmptyStore == [x \in Shard |-> <<>>]

(* What a poller waits for: replies to GetShards, the reply of which it    *)
(* puts the shards, replies to DeleteShards, a reply to SetConfig.         *)
Idle == [new |-> NoConfig, gets |-> {}, ch1 |-> <<>>, puts |-> {}, dels |-> {}, sets |-> {}]

(* StartServer and MakeClerk. *)
Init ==
    /\ latest = 0
    /\ log = [g \in Group |-> <<>>]
    /\ applied = [s \in Server |-> 0]
    /\ config = [s \in Server |-> NoConfig]
    /\ store = [s \in Server |-> EmptyStore]
    /\ seqs = [s \in Server |-> NoSeqNums]
    /\ snap = [s \in Server |-> [index |-> 0, config |-> NoConfig,
                                 store |-> EmptyStore, seqs |-> NoSeqNums]]
    /\ nextConfig = [s \in Server |-> NoConfig]
    /\ processing = [s \in Server |-> {}]
    /\ seqNum = [s \in Server |-> 0]
    /\ migration = [s \in Server |-> Idle]
    /\ reading = {}
    /\ restarts = [s \in Server |-> 0]
    /\ ckConfig = [c \in Client |-> NoConfig]
    /\ ops = [c \in Client |-> <<>>]
    /\ busy = [c \in Client |-> FALSE]
    /\ answer = [c \in Client |-> <<>>]
    /\ sent = {}

-----------------------------------------------------------------------------
(* The shard controller, as its clients see it.                            *)

Reconfigure ==
    /\ latest + 1 < Len(Configs)
    /\ latest' = latest + 1
    /\ UNCHANGED <<log, applied, stateVars, snap, pollerVars, restarts, clerkVars, sent>>

Query(num) == Configs[1 + IF num \in 0 .. latest THEN num ELSE latest]

-----------------------------------------------------------------------------
(* The clerk.                                                              *)

Current(c) == ops[c][Len(ops[c])]

(* One round of the loop of Get and PutAppend: the request goes to the     *)
(* servers of the shard's group, if the configuration has one.             *)
Try(o, conf) ==
    sent' = sent \union ({conf.Shards[o.shard]} \cap conf.Groups) \X {o}

Begin(c, req) ==
    LET o == [type |-> req.type, shard |-> req.shard, id |-> c, seq |-> Len(ops[c]) + 1] IN
    /\ ~ busy[c]
    /\ o.seq <= MaxOps
    /\ ops' = [ops EXCEPT ![c] = Append(@, o)]
    /\ busy' = [busy EXCEPT ![c] = TRUE]
    /\ Try(o, ckConfig[c])
    /\ UNCHANGED <<latest, log, applied, stateVars, snap, pollerVars, restarts, ckConfig, answer>>

(* Nobody answered in time, or with an error: the clerk asks for the       *)
(* latest configuration and tries again.                                   *)
Retry(c) ==
    /\ busy[c]
    /\ ckConfig' = [ckConfig EXCEPT ![c] = Query(-1)]
    /\ Try(Current(c), ckConfig'[c])
    /\ UNCHANGED <<latest, log, applied, stateVars, snap, pollerVars, restarts, ops, busy, answer>>

-----------------------------------------------------------------------------
(* The handlers of the servers.  From the time it is sent a request may    *)
(* come to any server of its group, any number of times: callOtherGroup    *)
(* goes round the servers, and labrpc delays requests.                     *)

done(s, o) == seqs[s][o.id] >= o.seq

(* Slip: GetShards does not wait. *)
AdmittedAtOnce(s, o) == TRUE

(* Slip: off by one. *)
AdmittedLater(s, o) == o.type = "GetShards" => config[s].Num > o.num

(* GetShards waits for the configuration it is asked about. *)
Admitted(s, o) == o.type = "GetShards" => config[s].Num >= o.num

Repeats(g, o) == Cardinality({i \in DOMAIN log[g] : log[g][i] = o})

(* operate on a leader: Start, and the group agrees on the entry.  (Of an  *)
(* entry that is overwritten nothing remains but a handler that sleeps.)   *)
OperateStart(s, o) ==
    LET g == gid[s] IN
    /\ Admitted(s, o)
    /\ ~ done(s, o)
    /\ Repeats(g, o) <= MaxRepeats
    /\ log' = [log EXCEPT ![g] = Append(@, o)]
    /\ UNCHANGED <<latest, applied, stateVars, snap, pollerVars, restarts, clerkVars, sent>>

(* A handler of group g finds operation o done and answers. *)
Answered(g, o) ==
    \E s \in Members(g) : Admitted(s, o) /\ done(s, o)

(* get, as the handler Get calls it after operate. *)
Readable(s, x) == config[s].Shards[x] = gid[s] /\ store[s][x] # <<>>

(* What the handlers Get and PutAppend answer. *)
Value(s, o) == IF o.type = "Get" THEN store[s][o.shard] ELSE <<>>

(* A handler that finds the operation done answers a clerk's call.  The    *)
(* clerk listens to the group it asked last.  Only OK ends its loop: also  *)
(* ErrNoKey makes it try again.                                            *)
Return(c, s) ==
    LET o == Current(c) IN
    /\ busy[c]
    /\ gid[s] = ckConfig[c].Shards[o.shard] /\ <<gid[s], o>> \in sent
    /\ done(s, o)
    /\ o.type = "Get" => Readable(s, o.shard)
    /\ busy' = [busy EXCEPT ![c] = FALSE]
    /\ answer' = [answer EXCEPT ![c] = Value(s, o)]
    /\ UNCHANGED <<latest, log, applied, stateVars, snap, pollerVars, restarts,
                   ckConfig, ops, sent>>

-----------------------------------------------------------------------------
(* The applier.                                                            *)

Larger(m, n) == IF m > n THEN m ELSE n

(* updateSeqNum *)
SeqNumOf(s, o) == [seqs EXCEPT ![s][o.id] = Larger(o.seq, @)]

(* put, append, get: only a shard of the group, else ErrWrongGroup, and    *)
(* the operation does not count as done.                                   *)
ApplyClientOp(s, o) ==
    /\ IF config[s].Shards[o.shard] # gid[s] THEN UNCHANGED <<store, seqs>>
       ELSE /\ seqs' = SeqNumOf(s, o)
            /\ store' = [store EXCEPT ![s][o.shard] =
                           CASE o.type = "Put"    -> <<o.seq>>
                             [] o.type = "Append" -> Append(@, o.seq)
                             [] o.type = "Get"    -> @]
    /\ UNCHANGED config

(* putClientSeqNumMap: sequence numbers only grow. *)
putClientSeqNumMap(s, seqNums) == [c \in ClientId |-> Larger(seqs[s][c], seqNums[c])]

(* Slip: the sequence numbers stay behind. *)
PutShardsOnly(s, o) ==
    LET new == {x \in DOMAIN o.data : config[s].Shards[x] # gid[s]}
        own == [x \in Shard |-> IF x \in new THEN gid[s] ELSE config[s].Shards[x]]
    IN  /\ store' = [store EXCEPT ![s] = [x \in Shard |-> IF x \in new THEN o.data[x] ELSE @[x]]]
        /\ config' = [config EXCEPT ![s].Shards = own]
        /\ seqs' = SeqNumOf(s, o)

(* Slip: data that a server still has from an earlier time is not replaced. *)
PutShardsBesides(s, o) ==
    LET new == {x \in DOMAIN o.data : config[s].Shards[x] # gid[s]}
        own == [x \in Shard |-> IF x \in new THEN gid[s] ELSE config[s].Shards[x]]
    IN  /\ store' = [store EXCEPT ![s] =
                       [x \in Shard |-> IF x \in new /\ @[x] = <<>> THEN o.data[x] ELSE @[x]]]
        /\ config' = [config EXCEPT ![s].Shards = own]
        /\ seqs' = [seqs EXCEPT ![s] =
                      [putClientSeqNumMap(s, o.seqs) EXCEPT ![o.id] = Larger(o.seq, @)]]

(* putShards: the shards the group does not serve yet become its own, with *)
(* their data and sequence numbers.                                        *)
PutShards(s, o) ==
    LET new == {x \in DOMAIN o.data : config[s].Shards[x] # gid[s]}
        own == [x \in Shard |-> IF x \in new THEN gid[s] ELSE config[s].Shards[x]]
    IN  /\ store' = [store EXCEPT ![s] = [x \in Shard |-> IF x \in new THEN o.data[x] ELSE @[x]]]
        /\ config' = [config EXCEPT ![s].Shards = own]
        /\ seqs' = [seqs EXCEPT ![s] =
                      [putClientSeqNumMap(s, o.seqs) EXCEPT ![o.id] = Larger(o.seq, @)]]

(* deleteShards: not what the group serves, nor what the configuration     *)
(* that this server's poller is working on gives it.                       *)
DeleteShards(s, o) ==
    LET gone == {x \in o.shards : gid[s] \notin {config[s].Shards[x], nextConfig[s].Shards[x]}}
    IN  /\ store' = [store EXCEPT ![s] = [x \in Shard |-> IF x \in gone THEN <<>> ELSE @[x]]]
        /\ seqs' = SeqNumOf(s, o)
        /\ UNCHANGED config

(* setConfig: only a later one. *)
SetConfig(s, o) ==
    /\ config' = [config EXCEPT ![s] = IF o.config.Num > @.Num THEN o.config ELSE @]
    /\ seqs' = SeqNumOf(s, o)
    /\ UNCHANGED store

ApplyOp(s, o) ==
    CASE done(s, o)                            -> UNCHANGED stateVars
      [] ~ done(s, o) /\ o.type = "GetShards"    -> seqs' = SeqNumOf(s, o) /\ UNCHANGED <<config, store>>
      [] ~ done(s, o) /\ o.type = "PutShards"    -> PutShards(s, o)
      [] ~ done(s, o) /\ o.type = "DeleteShards" -> DeleteShards(s, o)
      [] ~ done(s, o) /\ o.type = "SetConfig"    -> SetConfig(s, o)
      [] ~ done(s, o) /\ o.type \in {"Put", "Append", "Get"} -> ApplyClientOp(s, o)

(* RaftStateSize counts the entries behind the snapshot, those a server    *)
(* holds beyond the applied ones included.                                 *)
RaftStateSizes(s) ==
    applied'[s] - snap[s].index .. Len(log[gid[s]]) - snap[s].index

(* snapshot *)
Snapshot(s) ==
    snap' = [snap EXCEPT ![s] = [index |-> applied'[s], config |-> config'[s],
                                 store |-> store'[s], seqs |-> seqs'[s]]]

(* apply, a command. *)
Deliver(s) ==
    /\ applied[s] < Len(log[gid[s]])
    /\ applied[s] >= snap[s].index
    /\ applied' = [applied EXCEPT ![s] = @ + 1]
    /\ ApplyOp(s, log[gid[s]][applied[s] + 1])
    /\ \E size \in RaftStateSizes(s) :
           IF MaxRaftState > 0 /\ size >= MaxRaftState
           THEN Snapshot(s) ELSE UNCHANGED snap
    /\ UNCHANGED <<latest, log, pollerVars, restarts, clerkVars, sent>>

(* setStore *)
setStore(s, st, conf) ==
    /\ store' = [store EXCEPT ![s] = st]
    /\ config' = [config EXCEPT ![s] = conf]

(* apply, a snapshot: its own after a restart, or the leader q's.  applySnap *)
(* lets sequence numbers only grow.                                          *)
DeliverSnap(s, q) ==
    /\ gid[s] = gid[q]
    /\ snap[q].index > applied[s]
    /\ snap[q].index >= snap[s].index
    /\ applied' = [applied EXCEPT ![s] = snap[q].index]
    /\ snap' = [snap EXCEPT ![s] = snap[q]]
    /\ setStore(s, snap[q].store, snap[q].config)
    /\ seqs' = [seqs EXCEPT ![s] = putClientSeqNumMap(s, snap[q].seqs)]
    /\ UNCHANGED <<latest, log, pollerVars, restarts, clerkVars, sent>>

(* Kill and StartServer: what is not in the persister starts over. *)
Restart(s) ==
    /\ restarts[s] < MaxRestarts
    /\ restarts' = [restarts EXCEPT ![s] = @ + 1]
    /\ applied' = [applied EXCEPT ![s] = 0]
    /\ config' = [config EXCEPT ![s] = NoConfig]
    /\ store' = [store EXCEPT ![s] = EmptyStore]
    /\ seqs' = [seqs EXCEPT ![s] = NoSeqNums]
    /\ nextConfig' = [nextConfig EXCEPT ![s] = NoConfig]
    /\ processing' = [processing EXCEPT ![s] = {}]
    /\ seqNum' = [seqNum EXCEPT ![s] = 0]
    /\ migration' = [migration EXCEPT ![s] = Idle]
    /\ reading' = {r \in reading : r.server # s}
    /\ UNCHANGED <<latest, log, snap, clerkVars, sent>>

-----------------------------------------------------------------------------
(* The pollers: pollConfig, changeConfig and migration.                    *)

(* getMigrationFromGroupShardsMap: the shards group g gains from each of   *)
(* the other groups.                                                       *)
getMigrationFromGroupShardsMap(g, oldConfig, newConfig) ==
    LET gained(h) == {x \in Shard : newConfig.Shards[x] = g /\ oldConfig.Shards[x] = h}
    IN  [h \in {i \in Gid \ {g} : gained(i) # {}} |-> gained(h)]

(* The n-th request of the poller of server p from now on. *)
Numbered(p, n, args) == args @@ [id |-> clientId(p), seq |-> seqNum[p] + n]

(* callOtherGroup sends the next request of the poller to group g. *)
Send(p, g, o) ==
    /\ sent' = sent \union {<<g, o>>}
    /\ seqNum' = [seqNum EXCEPT ![p] = @ + 1]

(* The configuration changeConfig finds: the one it has found before, or   *)
(* the controller's next one, or none that is new.                         *)
newConfig(p) ==
    IF nextConfig[p].Num <= config[p].Num THEN Query(config[p].Num + 1) ELSE nextConfig[p]

pollUnchanged == <<latest, log, applied, stateVars, snap, restarts, clerkVars>>

(* configInPrecessingMap.put, which succeeds once for every number. *)
putInProcessing(p, num) ==
    /\ num \notin processing[p]
    /\ processing' = [processing EXCEPT ![p] = @ \union {num}]

(* changeConfig without a new configuration, or with one it is at already. *)
PollInVain(p) ==
    /\ migration[p] = Idle
    /\ newConfig(p).Num = config[p].Num \/ newConfig(p).Num \in processing[p]
    /\ nextConfig' = [nextConfig EXCEPT ![p] = newConfig(p)]
    /\ UNCHANGED <<pollUnchanged, processing, seqNum, migration, reading, sent>>

(* changeConfig, up to its first requests.  The query takes time, but a    *)
(* configuration that comes meanwhile is one the next poll finds.  For     *)
(* each group that has shards to give a goroutine asks for them; they take *)
(* their numbers in any order.                                             *)
ChangeConfig(p) ==
    LET new  == newConfig(p)
        from == IF config[p].Num = 0 THEN <<>>
                ELSE getMigrationFromGroupShardsMap(gid[p], config[p], new)
        args(g) == [type |-> "GetShards", num |-> new.Num, shards |-> from[g]]
    IN
    /\ migration[p] = Idle
    /\ new.Num # config[p].Num
    /\ nextConfig' = [nextConfig EXCEPT ![p] = new]
    /\ putInProcessing(p, new.Num)
    /\ \E nr \in Bijection(DOMAIN from, 1 .. Cardinality(DOMAIN from)) :
         LET gets == {<<g, Numbered(p, nr[g], args(g))>> : g \in DOMAIN from}
         IN  /\ migration' = [migration EXCEPT ![p].new = new, ![p].gets = gets]
             /\ sent' = sent \union gets
             /\ seqNum' = [seqNum EXCEPT ![p] = @ + Cardinality(gets)]
    /\ UNCHANGED <<pollUnchanged, reading>>

(* getShards.  The maps in the code's result are those of the store, not   *)
(* copies, until the reply is encoded.  Nobody writes to them as long as   *)
(* the reply is awaited: the group does not serve the shards any more, and *)
(* putShards and deleteShards put new maps in their place.                 *)
getShards(s, shards) == [x \in shards |-> store[s][x]]

(* The handler GetShards reads the shards, and then, when the applier may  *)
(* have gone on, the sequence numbers.                                     *)
ReadShards(s, o) ==
    /\ Admitted(s, o) /\ done(s, o)
    /\ reading' = reading \union
         {[server |-> s, op |-> o, data |-> getShards(s, o.shards)]}
    /\ UNCHANGED <<pollUnchanged, nextConfig, processing, seqNum, migration, sent>>

(* The goroutine passes the first reply on through ch1. *)
GotShards(p, r) ==
    LET get == <<gid[r.server], r.op>> IN
    /\ get \in migration[p].gets
    /\ reading' = {q \in reading : q.op # r.op}
    /\ migration' = [migration EXCEPT
         ![p].gets = @ \ {get},
         ![p].ch1 = Append(@, [from |-> get[1], data |-> r.data, seqs |-> seqs[r.server]])]
    /\ UNCHANGED <<pollUnchanged, nextConfig, processing, seqNum, sent>>

(* The loop of migration takes a reply and sends it to its own group. *)
PutNext(p) ==
    LET r == Head(migration[p].ch1)
        o == Numbered(p, 1, [type |-> "PutShards", data |-> r.data, seqs |-> r.seqs])
    IN
    /\ migration[p].ch1 # <<>> /\ migration[p].puts = {}
    /\ Send(p, gid[p], o)
    /\ migration' = [migration EXCEPT ![p].ch1 = Tail(@),
                                      ![p].puts = {[op |-> o, from |-> r.from]}]
    /\ UNCHANGED <<pollUnchanged, nextConfig, processing, reading>>

(* The group has the shards, and a goroutine has the old group delete them. *)
ShardsPut(p, put) ==
    LET o == Numbered(p, 1, [type |-> "DeleteShards", shards |-> DOMAIN put.op.data]) IN
    /\ Answered(gid[p], put.op)
    /\ Send(p, put.from, o)
    /\ migration' = [migration EXCEPT ![p].puts = {}, ![p].dels = @ \union {<<put.from, o>>}]
    /\ UNCHANGED <<pollUnchanged, nextConfig, processing, reading>>

ShardsDeleted(p, del) ==
    /\ Answered(del[1], del[2])
    /\ migration' = [migration EXCEPT ![p].dels = @ \ {del}]
    /\ UNCHANGED <<pollUnchanged, nextConfig, processing, seqNum, reading, sent>>

(* migration is over, and the group takes up the configuration. *)
AnnounceConfig(p) ==
    LET new == migration[p].new
        o   == Numbered(p, 1, [type |-> "SetConfig", config |-> new])
    IN
    /\ migration[p] = [Idle EXCEPT !.new = new] /\ new # NoConfig
    /\ Send(p, gid[p], o)
    /\ migration' = [migration EXCEPT ![p].sets = {o}]
    /\ UNCHANGED <<pollUnchanged, nextConfig, processing, reading>>

ConfigSet(p, o) ==
    /\ Answered(gid[p], o)
    /\ migration' = [migration EXCEPT ![p] = Idle]
    /\ UNCHANGED <<pollUnchanged, nextConfig, processing, seqNum, reading, sent>>

PollerStep(p) ==
    \/ ChangeConfig(p)
    \/ \E get \in migration[p].gets : \E s \in Members(get[1]) : ReadShards(s, get[2])
    \/ \E r \in reading : GotShards(p, r)
    \/ PutNext(p)
    \/ \E put \in migration[p].puts : ShardsPut(p, put)
    \/ \E del \in migration[p].dels : ShardsDeleted(p, del)
    \/ AnnounceConfig(p)
    \/ \E o \in migration[p].sets : ConfigSet(p, o)

-----------------------------------------------------------------------------
Next ==
    \/ Reconfigure
    \/ \E c \in Client : Retry(c) \/ (\E req \in Requests(c, Len(ops[c]) + 1) : Begin(c, req))
    \/ \E c \in Client, s \in Server : Return(c, s)
    \/ \E r \in sent : \E s \in Members(r[1]) : OperateStart(s, r[2])
    \/ \E s \in Server : Deliver(s)
    \/ \E s, q \in Server : DeliverSnap(s, q)
    \/ \E s \in Restarting : Restart(s)
    \/ \E p \in Poller : PollInVain(p) \/ PollerStep(p)

Spec == Init /\ [][Next]_vars

(* Fairness: on the servers that poll the applier runs, and so does the    *)
(* poller, a request of which callOtherGroup repeats until it is agreed on.*)
Requested(p) ==
    LET m == migration[p] IN
    m.gets \union m.dels \union ({gid[p]} \X (m.sets \union {put.op : put \in m.puts}))

PollerProgress(p) ==
    \/ PollerStep(p)
    \/ \E r \in Requested(p) : \E s \in Members(r[1]) : OperateStart(s, r[2])

Fairness ==
    \A p \in Poller : WF_vars(Deliver(p) \/ DeliverSnap(p, p)) /\ WF_vars(PollerProgress(p))

-----------------------------------------------------------------------------
(* Properties                                                              *)

UpToDate(s) == applied[s] = Len(log[gid[s]])

Serves(s, x) == config[s].Shards[x] = gid[s]

(* No shard is served by two groups: of servers that have applied all that *)
(* their groups have agreed on, those of one group at most accept          *)
(* operations on a shard.                                                  *)
OneOwner ==
    \A s, q \in Server, x \in Shard :
        UpToDate(s) /\ UpToDate(q) /\ Serves(s, x) /\ Serves(q, x) => gid[s] = gid[q]

(* The replicas of a group that have applied the same entries have the     *)
(* same configuration and sequence numbers, and the same data of the       *)
(* shards they serve, whether entry by entry or from a snapshot.  Data of  *)
(* a shard given away may differ, since deleteShards asks nextConfig,      *)
(* which each server has for itself; it must not show when the shard comes *)
(* back.                                                                   *)
ReplicasAgree ==
    \A s, q \in Server :
        gid[s] = gid[q] /\ applied[s] = applied[q] =>
            /\ config[s] = config[q] /\ seqs[s] = seqs[q]
            /\ \A x \in Shard : Serves(s, x) => store[s][x] = store[q][x]

(* The value of shard x after the first n operations of client c. *)
ValueAfter(c, x, n) ==
    LET writes == SelectSeq(SubSeq(ops[c], 1, n),
                            LAMBDA o : o.shard = x /\ o.type \in {"Put", "Append"})
        puts   == {i \in DOMAIN writes : writes[i].type = "Put"}
        first  == IF puts = {} THEN 1 ELSE CHOOSE i \in puts : \A j \in puts : j <= i
    IN  [i \in 1 .. Len(writes) - first + 1 |-> writes[first + i - 1].seq]

(* The operations of a client that have returned. *)
Acknowledged(c) == Len(ops[c]) - IF busy[c] THEN 1 ELSE 0

(* With one client that writes: the group that serves a shard has every    *)
(* write that was acknowledged, whichever group did it, once and in order, *)
(* and at most the one under way besides; and a Get returns such a value.  *)
(* Shards and the sequence numbers that guard them move together.          *)
WritesKept ==
    \A c \in Client, x \in Shard :
        LET values == {ValueAfter(c, x, n) : n \in Acknowledged(c) .. Len(ops[c])} IN
        /\ \A s \in Server : UpToDate(s) /\ Serves(s, x) => store[s][x] \in values
        /\ (ops[c] # <<>> /\ ~ busy[c] /\ Current(c).type = "Get" /\ Current(c).shard = x)
              => answer[c] \in values

(* Every group takes up every configuration: again and again all of them   *)
(* have caught up with the controller.  The groups that wait for each      *)
(* other's configurations and shards get them.                             *)
ConfigsAdopted == []<>(\A p \in Poller : config[p].Num = latest)
=============================================================================
