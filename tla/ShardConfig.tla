----------------------------- MODULE ShardConfig -----------------------------
(***************************************************************************)
(* Configurations of the shard controller and how they change: common.go   *)
(* of shardctrler.  The servers of a group take no part in the decisions   *)
(* and are left out, so that Groups is a set of group numbers.             *)
(*                                                                         *)
(* Go walks through a map in an order of its own choice, on every server   *)
(* another one.  The order is the last argument of the operators that walk *)
(* through a map: a sequence of all group numbers.                         *)
(***************************************************************************)
EXTENDS Integers, Sequences, FiniteSets, SequencesExt

CONSTANTS NShards,   \* number of shards
          Gid        \* numbers of replica groups; 0 is no group

ASSUME ConfigAssumption == NShards \in Nat \ {0} /\ Gid \subseteq Nat \ {0}

Shard == 0 .. NShards - 1

Config == [Num : Nat, Shards : [Shard -> Gid \union {0}], Groups : SUBSET Gid]

NoConfig == [Num |-> 0, Shards |-> [s \in Shard |-> 0], Groups |-> {}]

(* The keys of a map as range delivers them. *)
Ranged(keys, order) == SelectSeq(order, LAMBDA g : g \in keys)

(* sort.Ints *)
SortInts(gids) == SortSeq(gids, LAMBDA a, b : a < b)

(* Slip: the keys are not sorted. *)
KeysOfGroups(groups, order) == Ranged(groups, order)

GetSortedKeysOfGroups(groups, order) == SortInts(Ranged(groups, order))

(* Every group, and every number a shard is assigned to, with its shards. *)
GetGroupShardsMap(config) ==
    [g \in config.Groups \union {config.Shards[s] : s \in Shard} |->
        {s \in Shard : config.Shards[s] = g}]

(* delete(m, g) *)
Without(m, g) == [h \in DOMAIN m \ {g} |-> m[h]]

(* Comparisons of two numbers of shards, as sets of pairs. *)
Fewer == {p \in (0 .. NShards) \X (0 .. NShards) : p[1] < p[2]}

More == {p \in (0 .. NShards) \X (0 .. NShards) : p[1] > p[2]}

(* The first group, in the order of the numbers, whose number of shards no *)
(* other's beats.                                                          *)
GetGidWithCmpNumShards(m, cmp, order) ==
    LET gids    == SortInts(Ranged(DOMAIN m, order))
        Size(i) == Cardinality(m[gids[i]])
        Best    == {i \in DOMAIN gids : \A j \in DOMAIN gids : <<Size(j), Size(i)>> \notin cmp}
    IN  IF gids = <<>> THEN 0
        ELSE gids[CHOOSE i \in Best : \A j \in Best : i <= j]

GetGidWithMinimumShards(m, order) == GetGidWithCmpNumShards(m, Fewer, order)

GetGidWithMaximumShards(m, order) ==
    IF 0 \in DOMAIN m THEN 0 ELSE GetGidWithCmpNumShards(m, More, order)

-----------------------------------------------------------------------------
(* The first Join: the groups take turns.  (Without a group the code would *)
(* go round for ever; groups is not empty.)                                *)
ResetShards(config, order) ==
    LET gids == GetSortedKeysOfGroups(config.Groups, order)
    IN  [config EXCEPT !.Shards = [s \in Shard |-> gids[(s % Len(gids)) + 1]]]

(* Slip: the new group takes a shard also from a group of its own size. *)
GiveOneMore(config, new_gid, cnt, order) ==
    LET m      == Without(GetGroupShardsMap(config), new_gid)
        maxGid == GetGidWithMaximumShards(m, order)
        first  == CHOOSE s \in m[maxGid] : \A t \in m[maxGid] : s <= t
    IN  IF cnt > Cardinality(m[maxGid]) /\ maxGid # 0 THEN config
        ELSE [config EXCEPT !.Shards[first] = new_gid]

(* One round of JoinGroups' inner loop: the largest group gives its first  *)
(* shard to new_gid, unless it has no more than new_gid has got by now.    *)
GiveOne(config, new_gid, cnt, order) ==
    LET m      == Without(GetGroupShardsMap(config), new_gid)
        maxGid == GetGidWithMaximumShards(m, order)
        first  == CHOOSE s \in m[maxGid] : \A t \in m[maxGid] : s <= t
    IN  IF cnt >= Cardinality(m[maxGid]) /\ maxGid # 0 THEN config
        ELSE [config EXCEPT !.Shards[first] = new_gid]

(* The loop stops for good at its first round without a shard: the rounds  *)
(* after it would give none either.                                        *)
JoinGroup(config, new_gid, order) ==
    LET round[n \in 0 .. NShards] ==
            IF n = 0 THEN config ELSE GiveOne(round[n - 1], new_gid, n - 1, order)
    IN  IF new_gid \in config.Groups THEN config
        ELSE [round[NShards] EXCEPT !.Groups = @ \union {new_gid}]

(* Slip: every Join deals the shards out anew. *)
JoinAndReset(config, groups, order) ==
    ResetShards([config EXCEPT !.Groups = @ \union groups], order)

JoinGroups(config, groups, order) ==
    FoldLeft(LAMBDA c, g : JoinGroup(c, g, order), config,
             GetSortedKeysOfGroups(groups, order))

(* One round of RemoveGroups' inner loop: the smallest group takes shard s *)
(* of the group that leaves.                                               *)
TakeOne(config, gid, s, order) ==
    [config EXCEPT !.Shards[s] =
        GetGidWithMinimumShards(Without(GetGroupShardsMap(config), gid), order)]

RemoveGroup(config, gid, order) ==
    LET removeShards == SelectSeq([i \in 1 .. NShards |-> i - 1],
                                  LAMBDA s : config.Shards[s] = gid)
    IN  IF gid \notin config.Groups THEN config
        ELSE FoldLeft(LAMBDA c, s : TakeOne(c, gid, s, order),
                      [config EXCEPT !.Groups = @ \ {gid}], removeShards)

(* Slip: a Leave deals the shards out anew. *)
RemoveAndReset(config, gids, order) ==
    LET left == config.Groups \ Range(gids)
    IN  IF left = {}
        THEN [config EXCEPT !.Groups = {}, !.Shards = [s \in Shard |-> 0]]
        ELSE ResetShards([config EXCEPT !.Groups = left], order)

RemoveGroups(config, gids, order) ==
    FoldLeft(LAMBDA c, g : RemoveGroup(c, g, order), config, gids)

MoveShard(config, shard, gid) == [config EXCEPT !.Shards[shard] = gid]
=============================================================================
