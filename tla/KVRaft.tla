------------------------------- MODULE KVRaft -------------------------------
(***************************************************************************)
(* The key/value service of kvraft: the replicated service whose state is  *)
(* a map from keys to strings.  A string is the sequence of the writes it  *)
(* was put together from, each named by its client and sequence number.    *)
(***************************************************************************)
EXTENDS ReplicatedService

CONSTANTS Key,
          Kinds(_, _)  \* "Get", "Put", "Append": a client's n-th operation

(* These definitions are the values of the service's constants: Requests   *)
(* is KVRequests, InitState is EmptyStore, Apply is ApplyKV and Answer is  *)
(* AnswerKV.                                                               *)
KVRequests(c, n) == [type : Kinds(c, n), key : Key]

(* What a write contributes to the string it is part of. *)
Written(o) == <<o.client, o.seq>>

(* Store.init: no key has a value, which get reads as the empty string. *)
EmptyStore == [k \in Key |-> <<>>]

(* Store.get *)
get(data, key) == data[key]

(* Store.put *)
put(data, key, value) == [data EXCEPT ![key] = <<value>>]

(* Store.append *)
append(data, key, value) == [data EXCEPT ![key] = Append(@, value)]

(* The switch of applyOp. *)
ApplyKV(data, o) ==
    CASE o.req.type = "Put"    -> {put(data, o.req.key, Written(o))}
      [] o.req.type = "Append" -> {append(data, o.req.key, Written(o))}
      [] OTHER                 -> {data}

(* The replies of the handlers Get and PutAppend: the value, or nothing. *)
AnswerKV(data, o) == IF o.req.type = "Get" THEN get(data, o.req.key) ELSE <<>>

-----------------------------------------------------------------------------
(* What the service should do, from the log alone. *)

(* An operation takes effect at the first of its places in the log. *)
Effective(log, i) == \A j \in 1 .. i - 1 : log[j] # log[i]

(* The writes to key k among the first n entries, each once. *)
Writes(log, k, n) ==
    {i \in 1 .. n : /\ log[i].req.key = k
                    /\ log[i].req.type # "Get"
                    /\ Effective(log, i)}

(* Those that no later Put has replaced. *)
Live(log, k, n) ==
    {i \in Writes(log, k, n) :
        \A p \in Writes(log, k, n) : log[p].req.type = "Put" => p <= i}

(* The m-th smallest number of a set. *)
TheOne(S) == CHOOSE i \in S : TRUE
Nth(S, m) == TheOne({i \in S : Cardinality({j \in S : j <= i}) = m})

(* The value of a key after the first n entries of the log. *)
ValueAt(log, k, n) ==
    [m \in 1 .. Cardinality(Live(log, k, n)) |-> Written(log[Nth(Live(log, k, n), m)])]

-----------------------------------------------------------------------------
(* Properties                                                              *)

(* Every server's store is what the entries it has applied say, with each  *)
(* operation taken once: however often a clerk had its operation put into  *)
(* the log (applyOp's done test), and whether the server applied entries,  *)
(* its own snapshot after a restart or another server's.                   *)
ExactlyOnce ==
    \A s \in Server, k \in Key : state[s][k] = ValueAt(chosen, k, lastApplied[s])

(* The sequence numbers are those of the first n entries: each client's    *)
(* largest one.                                                            *)
NumbersAt(seqs, n) ==
    \A c \in Client :
        LET mine == {chosen[i].seq : i \in {j \in 1 .. n : chosen[j].client = c}}
        IN  seqs[c] \in mine \union {0} /\ \A m \in mine : m <= seqs[c]

(* What is taken for done and what the data holds belong to one place of   *)
(* the log, on a server and in its snapshot: the sequence numbers are      *)
(* those of the entries applied, and a snapshot's index, data and numbers  *)
(* agree, although snapshot encodes the data and the numbers one after the *)
(* other and applySnap puts them in one after the other.  Numbers ahead of *)
(* the data would lose a write when its entry comes again or for the first *)
(* time after a restart; numbers behind it would apply one twice.          *)
OnePlace ==
    \A s \in Server :
        /\ NumbersAt(lastSeqNum[s], lastApplied[s])
        /\ NumbersAt(snap[s].seqs, snap[s].index)
        /\ \A k \in Key : snap[s].data[k] = ValueAt(chosen, k, snap[s].index)

(* A call that returns took effect while it was under way: its operation,  *)
(* which no log holds before the call, has a place in the log by then, and *)
(* a Get answers with the value its key has at that place or at a later    *)
(* one.  The order of the log is then a linearization of the calls.        *)
Linearizable ==
    [][\A c \in Client : busy[c] /\ ~ busy'[c] =>
         LET o == Current(c) IN
         \E i \in DOMAIN chosen :
            /\ chosen[i] = o
            /\ o.req.type = "Get" =>
                 \E n \in i .. Len(chosen) : answer'[c] = ValueAt(chosen, o.req.key, n)
      ]_vars
=============================================================================
