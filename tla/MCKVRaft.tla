------------------------------ MODULE MCKVRaft ------------------------------
(* An instance of KVRaft for TLC: one client writes, the other reads.      *)
EXTENDS KVRaft

CONSTANTS c1, c2

MCKinds(c, n) ==
    CASE c = c1 -> {"Put", "Append"}
      [] c = c2 -> {"Get"}
=============================================================================
