----------------------------- MODULE MCPorcupine -----------------------------
(***************************************************************************)
(* Histories for the checker: three operations on a key x at the times     *)
(* 1 .. MaxTime, any of which may be alike, and in some one on a key y.    *)
(***************************************************************************)
EXTENDS Porcupine

CONSTANT MaxTime

Timed(key, op, value, out) ==
    {[key |-> key, op |-> op, value |-> value, out |-> out, call |-> c, return |-> r] :
        c \in 1 .. MaxTime, r \in 1 .. MaxTime}

Operations(key, op, value, out) ==
    {o \in Timed(key, op, value, out) : o.call <= o.return}

Writes(i) == Operations("x", "append", i, <<>>) \union Operations("x", "put", i, <<>>)

Gets(key, outs) == UNION {Operations(key, "get", 0, out) : out \in outs}

(* Two writes and a get; *)
WriteWriteGet ==
    Operations("x", "append", 1, <<>>) \X Writes(2)
        \X Gets("x", {<<1>>, <<2>>, <<1, 2>>, <<2, 1>>})

(* an early write and two gets that need not agree on it. *)
WriteGetGet ==
    {o \in Operations("x", "append", 1, <<>>) : o.call = 1} \X Gets("x", {<<>>, <<1>>}) \X Gets("x", {<<>>, <<1>>})

(* The operation on y begins and ends with the others; it reads what was   *)
(* there or what was not.                                                  *)
Other == {o \in Gets("y", {<<>>, <<1>>}) : o.call = 1 /\ o.return = 1}

MCHistories == WriteWriteGet \union {Append(h, o) : h \in WriteGetGet, o \in Other}
=============================================================================
