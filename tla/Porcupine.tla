------------------------------ MODULE Porcupine ------------------------------
(***************************************************************************)
(* The linearizability checker the tests of kvraft and shardkv judge their *)
(* histories by: checkParallel, which looks at each key by itself, and     *)
(* checkSingle, a search that takes calls out of a doubly linked list of   *)
(* events and puts them back.  The key/value model is that of models/kv.go.*)
(*                                                                         *)
(* A string is the sequence of the values it was put together from.  What  *)
(* is collected for pictures of a history (longest) is left out.           *)
(***************************************************************************)
EXTENDS Integers, Sequences, FiniteSets, SequencesExt

CONSTANTS Histories,  \* sequences of operations
          Timeouts    \* whether a timeout may happen

VARIABLES
    history,      \* the operations; an operation's id is its place
    computeInfo,
    (* checkSingle, for every key *)
    entries,      \* the events of the key's operations by time
    next, prev,   \* the list; nodes are places in entries, 0 is headEntry
    entry, linearized, cache, calls, state,
    result,       \* "none" until it is in the channel results
    (* checkParallel *)
    received,     \* the keys whose results were received
    ok, timedOut, kill,
    verdict       \* "none" until checkParallel returns

searchVars == <<next, prev, entry, linearized, cache, calls, state, result>>
mainVars == <<received, ok, timedOut, kill, verdict>>
vars == <<history, computeInfo, entries, searchVars, mainVars>>

-----------------------------------------------------------------------------
(* The model of a key's value: Init and Step.                              *)

InitValue == <<>>

StepOk(st, o) == o.op = "get" => o.out = st

StepState(st, o) ==
    CASE o.op = "get"    -> st
      [] o.op = "put"    -> <<o.value>>
      [] o.op = "append" -> Append(st, o.value)

(* Partition *)
Keys(h) == {h[id].key : id \in DOMAIN h}

-----------------------------------------------------------------------------
(* The events of a history and their list.                                 *)

(* byTime.Less *)
Less(a, b) ==
    a.time < b.time \/ (a.time = b.time /\ a.kind = "call" /\ b.kind = "return")

(* makeEntries.  Sort is not stable: events that are alike come in either  *)
(* order.                                                                  *)
makeEntries(h, key, ascending) ==
    LET ids == SelectSeq([id \in DOMAIN h |-> id], LAMBDA id : h[id].key = key)
        events(id) == <<[kind |-> "call", id |-> id, time |-> h[id].call],
                        [kind |-> "return", id |-> id, time |-> h[id].return]>>
        Before(a, b) == Less(a, b) \/ (~ Less(b, a) /\ ascending = (a.id < b.id))
    IN  SortSeq(FoldLeft(LAMBDA es, id : es \o events(id), <<>>, ids), Before)

(* makeLinkedEntries and insertBefore: the events in their order, behind   *)
(* headEntry.                                                              *)
makeLinkedEntries(es) == [next |-> [n \in 0 .. Len(es) |-> n + 1],
                          prev |-> [n \in 1 .. Len(es) |-> n - 1]]

Nil(key) == Len(entries[key]) + 1

(* The return event of a call; for a return event there is none. *)
match(key, n) ==
    CHOOSE m \in DOMAIN entries[key] :
        entries[key][m].kind = "return" /\ entries[key][m].id = entries[key][n].id

(* An assignment to a pointer; nil has none. *)
Assign(links, n, value) == IF n \in DOMAIN links THEN [links EXCEPT ![n] = value] ELSE links

(* lift: the call n and its return leave the list. *)
lift(key, n) ==
    LET m  == match(key, n)
        n1 == Assign(next[key], prev[key][n], next[key][n])
        p1 == Assign(prev[key], next[key][n], prev[key][n])
    IN  [next |-> Assign(n1, p1[m], n1[m]), prev |-> Assign(p1, n1[m], p1[m])]

(* Slip: the node after the call is not told of it. *)
UnliftOneWay(key, n) ==
    LET m  == match(key, n)
        n1 == Assign(next[key], prev[key][m], m)
        p1 == Assign(prev[key], next[key][m], m)
    IN  [next |-> Assign(n1, p1[n], n), prev |-> p1]

(* unlift: they come back, the return first. *)
unlift(key, n) ==
    LET m  == match(key, n)
        n1 == Assign(next[key], prev[key][m], m)
        p1 == Assign(prev[key], next[key][m], m)
    IN  [next |-> Assign(n1, p1[n], n), prev |-> Assign(p1, n1[n], n)]

-----------------------------------------------------------------------------
(* checkOperations, checkParallel and checkSingle begin.                   *)
Init ==
    /\ history \in Histories
    /\ computeInfo \in BOOLEAN
    /\ \E ascending \in BOOLEAN :
         entries = [k \in Keys(history) |-> makeEntries(history, k, ascending)]
    /\ next = [k \in Keys(history) |-> makeLinkedEntries(entries[k]).next]
    /\ prev = [k \in Keys(history) |-> makeLinkedEntries(entries[k]).prev]
    /\ entry = [k \in Keys(history) |-> 1]
    /\ linearized = [k \in Keys(history) |-> {}]
    /\ cache = [k \in Keys(history) |-> {}]
    /\ calls = [k \in Keys(history) |-> <<>>]
    /\ state = [k \in Keys(history) |-> InitValue]
    /\ result = [k \in Keys(history) |-> "none"]
    /\ received = {}
    /\ ok = TRUE /\ timedOut = FALSE /\ kill = FALSE
    /\ verdict = "none"

-----------------------------------------------------------------------------
(* One round of the loop of checkSingle.                                   *)

Searching(k) == result[k] = "none" /\ next[k][0] # Nil(k) /\ ~ kill

IsCall(k) == entries[k][entry[k]].kind = "call"

Current(k) == entries[k][entry[k]].id

(* The calls taken so far and the state they lead to, with the current one. *)
NewCacheEntry(k) ==
    [linearized |-> linearized[k] \union {Current(k)},
     state |-> StepState(state[k], history[Current(k)])]

(* Slip: a call is looked up by the set it leads to only, not by the state. *)
CacheContainsSet(k) ==
    \E c \in cache[k] : c.linearized = NewCacheEntry(k).linearized

cacheContains(k) == NewCacheEntry(k) \in cache[k]

Possible(k) == StepOk(state[k], history[Current(k)]) /\ ~ cacheContains(k)

(* The call is taken next, and the search goes on from the first event. *)
Take(k) ==
    /\ Searching(k) /\ IsCall(k) /\ Possible(k)
    /\ LET links == lift(k, entry[k]) IN
         /\ next' = [next EXCEPT ![k] = links.next]
         /\ prev' = [prev EXCEPT ![k] = links.prev]
         /\ entry' = [entry EXCEPT ![k] = links.next[0]]
    /\ cache' = [cache EXCEPT ![k] = @ \union {NewCacheEntry(k)}]
    /\ calls' = [calls EXCEPT ![k] = Append(@, [entry |-> entry[k], state |-> state[k]])]
    /\ state' = [state EXCEPT ![k] = NewCacheEntry(k).state]
    /\ linearized' = [linearized EXCEPT ![k] = @ \union {Current(k)}]
    /\ UNCHANGED <<history, computeInfo, entries, result, mainVars>>

(* The call cannot be taken here, or what it leads to was tried already. *)
Skip(k) ==
    /\ Searching(k) /\ IsCall(k) /\ ~ Possible(k)
    /\ entry' = [entry EXCEPT ![k] = next[k][@]]
    /\ UNCHANGED <<history, computeInfo, entries, next, prev, linearized, cache, calls,
                   state, result, mainVars>>

(* A return whose call is not taken: the last call taken is put back. *)
Backtrack(k) ==
    /\ Searching(k) /\ ~ IsCall(k) /\ calls[k] # <<>>
    /\ LET top   == Last(calls[k])
           links == unlift(k, top.entry)
       IN  /\ next' = [next EXCEPT ![k] = links.next]
           /\ prev' = [prev EXCEPT ![k] = links.prev]
           /\ entry' = [entry EXCEPT ![k] = links.next[top.entry]]
           /\ state' = [state EXCEPT ![k] = top.state]
           /\ linearized' = [linearized EXCEPT ![k] = @ \ {entries[k][top.entry].id}]
    /\ calls' = [calls EXCEPT ![k] = Front(@)]
    /\ UNCHANGED <<history, computeInfo, entries, cache, result, mainVars>>

(* checkSingle returns: the list is empty, the flag kill is seen, or there *)
(* is no call to put back; its goroutine sends the result.                 *)
Finish(k) ==
    /\ result[k] = "none"
    /\ \/ /\ next[k][0] = Nil(k)
          /\ result' = [result EXCEPT ![k] = "linearizable"]
       \/ /\ next[k][0] # Nil(k)
          /\ kill \/ (~ IsCall(k) /\ calls[k] = <<>>)
          /\ result' = [result EXCEPT ![k] = "not"]
    /\ UNCHANGED <<history, computeInfo, entries, next, prev, entry, linearized, cache,
                   calls, state, mainVars>>

-----------------------------------------------------------------------------
(* checkParallel waits for results and for the timeout.                    *)

Partitions == DOMAIN result

Outcome(good, late) == CASE ~ good -> "Illegal" [] good /\ late -> "Unknown" [] OTHER -> "Ok"

(* It returns at once, or with computeInfo only after every goroutine.     *)
Leave(good, late, have) ==
    verdict' = IF computeInfo /\ have # Partitions THEN "draining" ELSE Outcome(good, late)

Receive(k) ==
    /\ verdict = "none" /\ result[k] # "none" /\ k \notin received
    /\ received' = received \union {k}
    /\ ok' = (ok /\ result[k] = "linearizable")
    /\ kill' = (~ ok' /\ ~ computeInfo)
    /\ IF kill' \/ received' = Partitions
         THEN Leave(ok', FALSE, received')
         ELSE verdict' = verdict
    /\ UNCHANGED <<history, computeInfo, entries, searchVars, timedOut>>

Timeout ==
    /\ Timeouts /\ verdict = "none"
    /\ timedOut' = TRUE /\ kill' = TRUE
    /\ Leave(ok, TRUE, received)
    /\ UNCHANGED <<history, computeInfo, entries, searchVars, received, ok>>

(* The remaining results are received and not looked at. *)
Drain(k) ==
    /\ verdict = "draining" /\ result[k] # "none" /\ k \notin received
    /\ received' = received \union {k}
    /\ Leave(ok, timedOut, received')
    /\ UNCHANGED <<history, computeInfo, entries, searchVars, ok, timedOut, kill>>

Returned == verdict \in {"Ok", "Illegal", "Unknown"} /\ UNCHANGED vars

Next ==
    \/ \E k \in Partitions :
         Take(k) \/ Skip(k) \/ Backtrack(k) \/ Finish(k) \/ Receive(k) \/ Drain(k)
    \/ Timeout
    \/ Returned

Spec == Init /\ [][Next]_vars

-----------------------------------------------------------------------------
(* The reference: an order of all the operations of the history that keeps *)
(* an operation that returned before another was called before it, and in  *)
(* which every get reads what the earlier operations on its key left.      *)

Precedes(a, b) == history[a].return < history[b].call

Reads(order) ==
    \A i \in DOMAIN order :
        LET o       == history[order[i]]
            earlier == SelectSeq(SubSeq(order, 1, i - 1), LAMBDA j : history[j].key = o.key)
            value   == FoldLeft(LAMBDA st, j : StepState(st, history[j]), InitValue, earlier)
        IN  StepOk(value, o)

Linearizable ==
    \E order \in SetToSeqs(DOMAIN history) :
        /\ \A i, j \in DOMAIN order : i < j => ~ Precedes(order[j], order[i])
        /\ Reads(order)

(* checkParallel says Ok of linearizable histories only, and Illegal of    *)
(* the others only; it gives no answer only after a timeout.  This is what *)
(* the search with its cache, the partition by keys, the flag kill and the *)
(* ways out of the loop of checkParallel together have to achieve.         *)
VerdictRight ==
    /\ verdict = "Ok" => Linearizable
    /\ verdict = "Illegal" => ~ Linearizable
    /\ verdict = "Unknown" => timedOut

(* However calls were lifted and unlifted, the list behind headEntry holds *)
(* exactly the events of the calls that are not taken, in the order of     *)
(* time, and the way back through prev is the way there: lift and unlift   *)
(* undo each other on the pointers they leave in the nodes taken out.      *)
ListRestored ==
    \A k \in Partitions :
        LET left == {n \in DOMAIN entries[k] : entries[k][n].id \notin linearized[k]}
            After(n) == {m \in left : m > n}
        IN  \A n \in left \union {0} :
                LET m == next[k][n] IN
                /\ After(n) = {} <=> m = Nil(k)
                /\ m # Nil(k) => m \in After(n) /\ (\A l \in After(n) : m <= l) /\ prev[k][m] = n
=============================================================================
