------------------------------ MODULE MCShardKV ------------------------------
(* Instances of ShardKV for TLC: one shard, which belongs to group 1       *)
(* first, to group 2 when that joins, and to group 1 again when group 2    *)
(* leaves.  One of the groups has two servers, a1 and a2, the other b1.    *)
EXTENDS ShardKV

CONSTANTS a1, a2, b1

MCgid == [s \in Server |-> IF s = b1 THEN 2 ELSE 1]

MCgidLeaders == [s \in Server |-> IF s = b1 THEN 1 ELSE 2]

Conf(n, g, groups) == [Num |-> n, Shards |-> [x \in Shard |-> g], Groups |-> groups]

MCConfigs == <<Conf(0, 0, {}), Conf(1, 1, {1}), Conf(2, 2, {1, 2}), Conf(3, 1, {1})>>

(* They are the configurations the shard controller makes. *)
ASSUME ConfigsOfController ==
    LET Made(n, c) == [c EXCEPT !.Num = n]
        first  == Made(1, ResetShards([NoConfig EXCEPT !.Groups = {1}], <<1, 2>>))
        second == Made(2, JoinGroups(first, {2}, <<1, 2>>))
        third  == Made(3, RemoveGroups(second, <<2>>, <<1, 2>>))
    IN  MCConfigs = <<NoConfig, first, second, third>>

MCRequests(c, n) ==
    [type : IF n = 1 THEN {"Append"} ELSE {"Append", "Get"}, shard : Shard]

-----------------------------------------------------------------------------
(* A state that Init leads to, so that the run is spent on what follows.   *)
(* The shard has come from group 1, the servers a1 and a2, to group 2, and *)
(* b1 has just asked group 1 to delete it, which may take until group 1 is *)
(* to have it back.  Group 1 did the client's first write, and group 2     *)
(* answered it.                                                            *)
MovedOnce ==
    LET conf(n)        == MCConfigs[n + 1]
        by(p, n, args) == args @@ [id |-> <<p, 0>>, seq |-> n]
        set(p, n)      == by(p, n, [type |-> "SetConfig", config |-> conf(n)])
        write(c) == [type |-> "Append", shard |-> 0, id |-> c, seq |-> 1]
        data == [x \in Shard |-> <<1>>]
        nums == [c \in ClientId |-> IF c \in Client THEN 1 ELSE IF c[2] = 0 THEN 2 ELSE 0]
        get  == by(b1, 2, [type |-> "GetShards", num |-> 2, shards |-> Shard])
        put  == by(b1, 3, [type |-> "PutShards", data |-> data, seqs |-> nums])
        del  == by(b1, 4, [type |-> "DeleteShards", shards |-> Shard])
        AtB(b, a) == [s \in Server |-> IF s = b1 THEN b ELSE a]
    IN
    /\ latest = 2
    /\ log = << <<set(a1, 1)>> \o SetToSeq({write(c) : c \in Client}) \o <<set(a1, 2), get>>,
                <<set(b1, 1), put>> >>
    /\ applied = [s \in Server |-> Len(log[gid[s]])]
    /\ config = AtB([conf(1) EXCEPT !.Shards = conf(2).Shards], conf(2))
    /\ store = [s \in Server |-> data]
    /\ seqs = AtB([nums EXCEPT ![<<b1, 0>>] = 3], nums)
    /\ snap = [s \in Server |-> [index |-> applied[s], config |-> config[s],
                                 store |-> store[s], seqs |-> seqs[s]]]
    /\ nextConfig = [s \in Server |-> IF s \in Poller THEN conf(2) ELSE NoConfig]
    /\ processing = [s \in Server |-> IF s \in Poller THEN {1, 2} ELSE {}]
    /\ seqNum = [s \in Server |-> CASE s = a1 -> 2 [] s = a2 -> 0 [] s = b1 -> 4]
    /\ migration = AtB([Idle EXCEPT !.new = conf(2), !.dels = {<<1, del>>}], Idle)
    /\ reading = {}
    /\ restarts = [s \in Server |-> 0]
    /\ ckConfig = [c \in Client |-> conf(2)]
    /\ ops = [c \in Client |-> <<write(c)>>]
    /\ busy = [c \in Client |-> FALSE]
    /\ answer = [c \in Client |-> <<>>]
    /\ sent = {<<1, del>>} \union {2} \X {write(c) : c \in Client} \union
              UNION {{g} \X Range(log[g]) : g \in Group}

MovedOnceSpec == MovedOnce /\ [][Next]_vars /\ Fairness

(* The servers of group 2 are alike in an instance where both poll. *)
Alike == Permutations({a1, a2})
=============================================================================
