----------------------------- MODULE ShardCtrler -----------------------------
(***************************************************************************)
(* The shard controller: the replicated service whose state is the         *)
(* sequence of configurations made so far.  It takes no snapshots.         *)
(***************************************************************************)
EXTENDS ShardConfig, ReplicatedService

CONSTANT Orders   \* orders in which a server may walk through a map

(* These definitions are the values of the service's constants: InitState  *)
(* is NoConfigs, Apply is ApplyConfig, Answer is AnswerConfig; and         *)
(* MaxRaftState is 0.                                                      *)

(* The arguments of the clerk's operations. *)
Join(groups) == [type |-> "JOIN", groups |-> groups]
Leave(gids) == [type |-> "LEAVE", gids |-> gids]
Move(shard, g) == [type |-> "MOVE", shard |-> shard, gid |-> g]
Query(num) == [type |-> "QUERY", num |-> num]

(* Configs.init: entries[0] is the configuration without groups.  A        *)
(* sequence starts at 1, so that configuration n is element n + 1.         *)
NoConfigs == <<NoConfig>>

(* Configs.getLatestConfig *)
getLatestConfig(configs) == configs[Len(configs)]

(* Configs.append numbers the configuration. *)
append(configs, config) == Append(configs, [config EXCEPT !.Num = Len(configs)])

(* Configs.getConfig: the latest one when there is none of that number. *)
getConfig(configs, num) ==
    IF num + 1 \in DOMAIN configs THEN configs[num + 1] ELSE getLatestConfig(configs)

(* The applier: what a join, a leave, a move or a query does on a server   *)
(* that walks through its maps in the given order.                         *)
Applied(configs, req, order) ==
    LET config == getLatestConfig(configs) IN
    CASE req.type = "JOIN" ->
            append(configs, IF config.Num = 0
                            THEN ResetShards([config EXCEPT !.Groups = req.groups], order)
                            ELSE JoinGroups(config, req.groups, order))
      [] req.type = "LEAVE" -> append(configs, RemoveGroups(config, req.gids, order))
      [] req.type = "MOVE"  -> append(configs, MoveShard(config, req.shard, req.gid))
      [] req.type = "QUERY" -> configs

ApplyConfig(configs, o) == {Applied(configs, o.req, order) : order \in Orders}

(* The replies of Join, Leave, Move, which carry nothing, and of Query. *)
AnswerConfig(configs, o) ==
    IF o.req.type = "QUERY" THEN getConfig(configs, o.req.num) ELSE <<>>

(* Its steps are those of the service, without snapshots. *)
Operate(s, o) == HandlerStep(s, o)

Applier(s) == Deliver(s)

KillAndStart(s) == Restart(s)

ClerkCall(c, req) == Begin(c, req)

CtrlerNext ==
    \/ \E c \in Client : \E req \in Requests(c, Len(sent[c]) + 1) : ClerkCall(c, req)
    \/ \E s \in Server, o \in Arriving : Operate(s, o)
    \/ \E s \in Server : Applier(s)
    \/ \E s \in Restarting : KillAndStart(s)

CtrlerSpec == Init /\ [][CtrlerNext]_vars

-----------------------------------------------------------------------------
(* Properties                                                              *)

Load(config, g) == Cardinality({s \in Shard : config.Shards[s] = g})

(* Every shard belongs to a group of the configuration, or, when it has no *)
(* groups, to none.                                                        *)
Assigned(config) ==
    \A x \in Shard : IF config.Groups = {} THEN config.Shards[x] = 0
                     ELSE config.Shards[x] \in config.Groups

(* No group has more than d shards more than another. *)
EvenWithin(config, d) ==
    \A g, h \in config.Groups : Load(config, g) <= Load(config, h) + d

(* The pairs of consecutive configurations on server s. *)
Changes(s) == {<<state[s][i], state[s][i + 1]>> : i \in 1 .. Len(state[s]) - 1}

(* JoinGroups and RemoveGroups move one shard at a time, from the largest  *)
(* group or to the smallest, and stop at what looks even: whatever a Move  *)
(* has left before, they leave no shard with a group that is gone and do   *)
(* not make the shards less even; even ones, to one shard, stay even, as   *)
(* ResetShards deals them out.                                             *)
Balanced ==
    \A s \in Server : \A ch \in Changes(s) :
        /\ Assigned(ch[2])
        /\ ch[1].Groups # ch[2].Groups =>
              \A d \in 1 .. NShards : EvenWithin(ch[1], d) => EvenWithin(ch[2], d)

(* No configuration lets a group both give a shard to another one and get  *)
(* one from another: only groups that join get shards, or only groups that *)
(* leave give them, or one shard is moved.  Groups of shardkv that hand    *)
(* shards over in both directions would wait for each other for ever.      *)
NoExchange ==
    \A s \in Server : \A ch \in Changes(s) :
        LET moved == {x \in Shard : ch[1].Shards[x] # ch[2].Shards[x]}
        IN  \A x, y \in moved : ch[1].Shards[x] # 0 => ch[1].Shards[x] # ch[2].Shards[y]

(* A shard changes its group only when the old group has left, or the new  *)
(* one has joined, or by a Move of this one shard: what the tests call a   *)
(* minimal transfer.                                                       *)
MovedForCause ==
    \A s \in Server : \A ch \in Changes(s) : \A x \in Shard :
        ch[1].Shards[x] # ch[2].Shards[x] =>
            \/ ch[1].Shards[x] \notin ch[2].Groups
            \/ ch[2].Shards[x] \notin ch[1].Groups
            \/ /\ ch[1].Groups = ch[2].Groups
               /\ \A y \in Shard \ {x} : ch[1].Shards[y] = ch[2].Shards[y]

(* All servers make the same configurations, whatever order their maps are *)
(* walked through in: one server's are the beginning of another's.         *)
ReplicasAgree ==
    \A s, q \in Server : IsPrefix(state[s], state[q]) \/ IsPrefix(state[q], state[s])
=============================================================================
