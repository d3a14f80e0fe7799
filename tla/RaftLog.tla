------------------------------ MODULE RaftLog ------------------------------
(***************************************************************************)
(* The log of a Raft server (src/raft/log.go): a slice of entries and the  *)
(* index of its first element.  The first element is a placeholder for the *)
(* entry the latest snapshot ends with (index 0, term 0 before any         *)
(* snapshot), so a log is never empty.  Log indexes are the ones the code  *)
(* uses; position 1 of l.entries holds index l.index0.                     *)
(***************************************************************************)
EXTENDS Integers, Sequences

CONSTANTS Value,  \* commands a client may start
          Nil     \* no server, no command

Entry == [Term : Nat, Command : Value \cup {Nil}]

Log == [index0 : Nat, entries : {es \in Seq(Entry) : es # <<>>}]

Lesser(a, b) == IF a < b THEN a ELSE b

Greater(a, b) == IF a > b THEN a ELSE b

Largest(S) == CHOOSE i \in S : \A j \in S : j <= i

Prefix(s, t) == Len(s) <= Len(t) /\ s = SubSeq(t, 1, Len(s))

(* A log of one placeholder entry of the given term. *)
MakeLog(start, term) ==
    [index0 |-> start, entries |-> <<[Term |-> term, Command |-> Nil]>>]

LastIndex(l) == l.index0 + Len(l.entries) - 1

EntryAt(l, index) == l.entries[index - l.index0 + 1]

LastEntry(l) == l.entries[Len(l.entries)]

AppendEntry(l, e) == [l EXCEPT !.entries = Append(@, e)]

(* The entries from index on. *)
Slice(l, index) == SubSeq(l.entries, index - l.index0 + 1, Len(l.entries))

(* Keep the entries from index on. *)
CutOffHead(l, index) == [index0 |-> index, entries |-> Slice(l, index)]

(* Drop the entries from index on, but never the placeholder. *)
CutOffTail(l, index) ==
    [l EXCEPT !.entries = SubSeq(@, 1, Greater(index - l.index0, 1))]

(* Overwrite the log from index on with the entries of a.  What lies beyond *)
(* them stays, unless its first entry has a lower term than the last one    *)
(* before it.                                                               *)
Place(l, index, a) ==
    LET before == SubSeq(l.entries, 1, index - l.index0) \o a
        i      == Len(before)
        rest   == SubSeq(l.entries, i + 1, Len(l.entries))
    IN  [l EXCEPT !.entries =
            IF rest # <<>> /\ before[i].Term > rest[1].Term
            THEN before
            ELSE before \o rest]
=============================================================================
