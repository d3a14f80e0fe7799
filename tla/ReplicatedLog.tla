---------------------------- MODULE ReplicatedLog ----------------------------
(***************************************************************************)
(* What the services of this repository rely on Raft for: one sequence of  *)
(* entries, which only ever grows, and on every server a service that      *)
(* consumes it from the start, entry by entry or by a snapshot that stands *)
(* for a prefix, and starts over after a crash.                            *)
(***************************************************************************)
EXTENDS Integers, Sequences

CONSTANT Server

VARIABLES chosen,     \* the agreed sequence
          delivered   \* what the service of each server has consumed

vars == <<chosen, delivered>>

Prefix(s, t) == Len(s) <= Len(t) /\ s = SubSeq(t, 1, Len(s))

Init == chosen = <<>> /\ delivered = [s \in Server |-> <<>>]

(* More entries are agreed on. *)
Choose ==
    /\ Len(chosen') > Len(chosen)
    /\ Prefix(chosen, chosen')
    /\ UNCHANGED delivered

(* One ApplyMsg reaches a service: the next entry, or a longer prefix. *)
Deliver(s) ==
    /\ Len(delivered'[s]) > Len(delivered[s])
    /\ Prefix(delivered[s], delivered'[s])
    /\ Prefix(delivered'[s], chosen)
    /\ delivered' = [delivered EXCEPT ![s] = delivered'[s]]
    /\ UNCHANGED chosen

(* A server restarts with an empty service. *)
Crash(s) ==
    /\ delivered' = [delivered EXCEPT ![s] = <<>>]
    /\ UNCHANGED chosen

Next == Choose \/ \E s \in Server : Deliver(s) \/ Crash(s)

Spec == Init /\ [][Next]_vars
=============================================================================
