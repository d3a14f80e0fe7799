--------------------------- MODULE MCShardCtrler ---------------------------
(* An instance of ShardCtrler for TLC: one client, whose requests          *)
(* join, leave, move and query in many orders.                             *)
EXTENDS ShardCtrler

(* Shards are moved to group 2, which has joined by then, from another.    *)
(* Joins and leaves follow on even and on uneven configurations.           *)
MCRequests(c, n) ==
    CASE n = 1 -> {Join({1, 2}), Join({1, 2, 3})}
      [] n = 2 -> {Join({3}), Join({3, 4}), Leave(<<1>>), Move(0, 2)}
      [] n = 3 -> {Join({4}), Join({1, 4}), Leave(<<1, 2>>), Leave(<<2, 1>>), Move(2, 2)}
      [] n = 4 -> {Join({1}), Join({4}), Leave(<<3>>), Leave(<<2>>), Query(-1), Query(2)}
      [] OTHER -> {}

MCOrders == {<<0, 1, 2, 3, 4>>, <<4, 3, 2, 1, 0>>}
=============================================================================
