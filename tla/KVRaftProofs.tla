---------------------------- MODULE KVRaftProofs ----------------------------
(***************************************************************************)
(* Proofs about the key/value service, for any number of servers, clients, *)
(* keys, operations, repeated log entries, snapshots and restarts.         *)
(***************************************************************************)
EXTENDS KVRaftStore

-----------------------------------------------------------------------------
(* The inductive invariant.                                                *)

(* The constants of ReplicatedService are those of the key/value service.  *)
IsKVService ==
    /\ InitState = EmptyStore
    /\ \A c \in Client, n \in Nat :
          Requests(c, n) = KVRequests(c, n) /\ Kinds(c, n) \subseteq Kind
    /\ \A data, o : Apply(data, o) = ApplyKV(data, o) /\ Answer(data, o) = AnswerKV(data, o)

TypeOK ==
    /\ chosen \in Seq(Op)
    /\ lastApplied \in [Server -> Nat]
    /\ lastSeqNum \in [Server -> [Client -> Nat]]
    /\ snap = [s \in Server |-> snap[s]]
    /\ \A s \in Server : snap[s].index \in Nat /\ snap[s].seqs \in [Client -> Nat]
    /\ sent \in [Client -> Seq(Op)]
    /\ busy \in [Client -> BOOLEAN]
    /\ waiting \subseteq Server \X Op
    /\ reading \subseteq Server \X Op

(* Nothing is applied or in a snapshot that is not in the log. *)
Bounded ==
    \A s \in Server : lastApplied[s] <= Len(chosen) /\ snap[s].index <= Len(chosen)

(* Sequence numbers count the operations of a client, *)
Numbered ==
    \A c \in Client : \A n \in 1 .. Len(sent[c]) :
        sent[c][n].client = c /\ sent[c][n].seq = n

(* so that they and the client tell an operation. *)
Sent(o) == o.seq \in 1 .. Len(sent[o.client]) /\ sent[o.client][o.seq] = o

OnlySent ==
    /\ \A i \in 1 .. Len(chosen) : Sent(chosen[i])
    /\ \A h \in waiting \union reading : Sent(h[2]) /\ Pending(h[2])

(* A clerk goes on to its next operation when the last one is in the log:  *)
(* the operations of a client come in order.                               *)
InLog(log, o, n) == \E j \in 1 .. n : log[j] = o

Returned ==
    \A c \in Client : \A n \in 1 .. Len(sent[c]) :
        n < Len(sent[c]) \/ ~ busy[c] => InLog(chosen, sent[c][n], Len(chosen))

InOrder ==
    \A i \in 1 .. Len(chosen) : \A n \in 1 .. chosen[i].seq - 1 :
        InLog(chosen, sent[chosen[i].client][n], i - 1)

(* Sequence numbers are the largest ones among the first n entries. *)
Largest(log, seqs, n) ==
    /\ \A i \in 1 .. n : log[i].seq <= seqs[log[i].client]
    /\ \A c \in Client : seqs[c] # 0 =>
          \E i \in 1 .. n : log[i].client = c /\ log[i].seq = seqs[c]

SeqNumsRight ==
    \A s \in Server : /\ Largest(chosen, lastSeqNum[s], lastApplied[s])
                      /\ Largest(chosen, snap[s].seqs, snap[s].index)

(* A server's store, and that of a snapshot, is the one of its entries. *)
StoresRight ==
    /\ state = [s \in Server |-> Store(chosen, lastApplied[s])]
    /\ \A s \in Server : snap[s].data = Store(chosen, snap[s].index)

(* A handler that was woken has its operation applied. *)
ReadersRight == \A h \in reading : InLog(chosen, h[2], lastApplied[h[1]])

Inv ==
    /\ TypeOK /\ Bounded
    /\ Numbered /\ OnlySent /\ Returned /\ InOrder
    /\ SeqNumsRight /\ StoresRight /\ ReadersRight
    /\ NoSleeperLeft

-----------------------------------------------------------------------------
(* Operations and the log.                                                 *)

LEMMA ArrivingIsSent ==
    ASSUME Inv, NEW o \in Arriving
    PROVE  o \in Op /\ Sent(o)
<1>1. PICK c \in Client : \E n \in DOMAIN sent[c] : o = sent[c][n]
    BY DEF Arriving
<1>2. PICK n \in DOMAIN sent[c] : o = sent[c][n]
    BY <1>1
<1>3. sent[c] \in Seq(Op) /\ n \in 1 .. Len(sent[c])
    BY DEF Inv, TypeOK
<1>4. o \in Op
    BY <1>2, <1>3
<1>5. o.client = c /\ o.seq = n
    BY <1>2, <1>3 DEF Inv, Numbered
<1> QED BY <1>2, <1>3, <1>4, <1>5 DEF Sent

(* The operations that sequence numbers stand for are in the log. *)
LEMMA NumberedIsIn ==
    ASSUME Inv, NEW seqs \in [Client -> Nat], NEW last \in Nat, last <= Len(chosen),
           Largest(chosen, seqs, last),
           NEW o \in Op, Sent(o), seqs[o.client] >= o.seq
    PROVE  InLog(chosen, o, last)
<1> DEFINE c == o.client
           top == seqs[c]
<1>1. c \in Client /\ o.seq \in Nat /\ o.seq # 0 /\ top \in Nat /\ top >= o.seq
    BY DEF Op
<1>2. Len(chosen) \in Nat
    BY DEF Inv, TypeOK
<1>3. PICK i \in 1 .. last : chosen[i].client = c /\ chosen[i].seq = top
    BY <1>1 DEF Largest
<1>4. i \in 1 .. Len(chosen) /\ i \in Nat
    BY <1>2
<1>5. Sent(chosen[i])
    BY <1>4 DEF Inv, OnlySent
<1>6. CASE top = o.seq
  <2>1. chosen[i] = o
      BY <1>3, <1>5, <1>6 DEF Sent
  <2> QED BY <2>1 DEF InLog
<1>7. CASE top # o.seq
  <2>1. o.seq \in 1 .. chosen[i].seq - 1
      BY <1>1, <1>3, <1>7
  <2>2. InLog(chosen, sent[c][o.seq], i - 1)
      BY <1>3, <1>4, <2>1 DEF Inv, InOrder
  <2>3. sent[c][o.seq] = o
      BY DEF Sent
  <2>4. \A j \in 1 .. i - 1 : j \in 1 .. last
      BY <1>2, <1>4
  <2> QED BY <2>2, <2>3, <2>4 DEF InLog
<1> QED BY <1>6, <1>7

(* A server that has an operation done has applied it. *)
LEMMA DoneIsApplied ==
    ASSUME Inv, NEW s \in Server, NEW o \in Op, Sent(o), done(s, o)
    PROVE  InLog(chosen, o, lastApplied[s])
<1>1. /\ lastSeqNum[s] \in [Client -> Nat] /\ lastApplied[s] \in Nat
      /\ lastApplied[s] <= Len(chosen)
      /\ Largest(chosen, lastSeqNum[s], lastApplied[s])
    BY DEF Inv, TypeOK, Bounded, SeqNumsRight
<1>2. lastSeqNum[s][o.client] >= o.seq
    BY DEF done
<1> QED BY <1>1, <1>2, NumberedIsIn

(* The applier skips an entry exactly when it is not the first of its      *)
(* operation.                                                              *)
LEMMA DoneIsRepeated ==
    ASSUME Inv, NEW s \in Server, lastApplied[s] < Len(chosen)
    PROVE  LET i == lastApplied[s] + 1 IN
           /\ i \in 1 .. Len(chosen) /\ chosen[i] \in Op /\ Sent(chosen[i])
           /\ done(s, chosen[i]) <=> ~ Effective(chosen, i)
<1> DEFINE last == lastApplied[s]
           o == chosen[last + 1]
<1>1. last \in Nat /\ Len(chosen) \in Nat /\ chosen \in Seq(Op)
    BY DEF Inv, TypeOK
<1>2. last + 1 \in 1 .. Len(chosen) /\ o \in Op /\ Sent(o)
    BY <1>1 DEF Inv, OnlySent
<1> HIDE DEF o
<1>3. ASSUME done(s, o) PROVE ~ Effective(chosen, last + 1)
  <2>1. PICK j \in 1 .. last : chosen[j] = o
      BY <1>2, <1>3, DoneIsApplied DEF InLog
  <2>2. j \in 1 .. (last + 1) - 1
      BY <1>1
  <2> QED BY <2>1, <2>2 DEF Effective, o
<1>4. ASSUME ~ Effective(chosen, last + 1) PROVE done(s, o)
  <2>1. PICK j \in 1 .. (last + 1) - 1 : chosen[j] = o
      BY <1>4 DEF Effective, o
  <2>2. j \in 1 .. last
      BY <1>1
  <2>3. o.seq <= lastSeqNum[s][o.client]
      BY <2>1, <2>2 DEF Inv, SeqNumsRight, Largest
  <2> QED BY <1>2, <2>3 DEF done, Inv, TypeOK, Op
<1> QED BY <1>2, <1>3, <1>4 DEF o

-----------------------------------------------------------------------------
(* The steps.                                                              *)

LEMMA InitInv == ASSUME IsKVService, Init PROVE Inv
<1>1. TypeOK
    BY DEF Init, TypeOK, NoSeqNums
<1>2. Bounded /\ Numbered /\ OnlySent /\ Returned /\ InOrder
    BY DEF Init, Bounded, Numbered, OnlySent, Returned, InOrder
<1>3. SeqNumsRight
    BY DEF Init, SeqNumsRight, Largest, NoSeqNums
<1>4. Store(<<>>, 0) = EmptyStore
    BY StoreAtZero
<1>5. StoresRight
    BY <1>4 DEF Init, StoresRight, IsKVService
<1>6. ReadersRight /\ NoSleeperLeft
    BY DEF Init, ReadersRight, NoSleeperLeft
<1> QED BY <1>1, <1>2, <1>3, <1>5, <1>6 DEF Inv

(* A call begins when all earlier operations of the clerk are in the log. *)
LEMMA BeginStep ==
    ASSUME IsKVService, Inv, NEW c \in Client, NEW req \in Requests(c, Len(sent[c]) + 1),
           Begin(c, req)
    PROVE  Inv'
<1> DEFINE len == Len(sent[c])
           o == [client |-> c, seq |-> len + 1, req |-> req]
<1> USE DEF Inv
<1>1. UNCHANGED <<chosen, lastApplied, state, lastSeqNum, snap, waiting, reading>>
    BY DEF Begin, serverVars, handlerVars
<1>2. /\ ~ busy[c] /\ sent' = [sent EXCEPT ![c] = Append(sent[c], o)]
      /\ busy' = [busy EXCEPT ![c] = TRUE]
    BY DEF Begin
<1>3. sent[c] \in Seq(Op) /\ len \in Nat
    BY DEF TypeOK
<1>4. o \in Op
  <2>1. len + 1 \in Nat \ {0}
      BY <1>3
  <2> HIDE DEF len
  <2>2. Requests(c, len + 1) = KVRequests(c, len + 1) /\ Kinds(c, len + 1) \subseteq Kind
      BY <2>1 DEF IsKVService
  <2>3. req \in [type : Kinds(c, len + 1), key : Key]
      BY <2>2 DEF KVRequests, len
  <2> QED BY <2>1, <2>2, <2>3 DEF Op
<1> HIDE DEF o
<1>5. sent'[c] = Append(sent[c], o) /\ \A d \in Client \ {c} : sent'[d] = sent[d]
    BY <1>2 DEF TypeOK
<1>6. /\ sent'[c] \in Seq(Op) /\ Len(sent'[c]) = len + 1 /\ sent'[c][len + 1] = o
      /\ \A n \in 1 .. len : sent'[c][n] = sent[c][n]
    BY <1>3, <1>4, <1>5, AppendProperties
<1>7. TypeOK'
  <2>1. sent' \in [Client -> Seq(Op)]
      BY <1>2, <1>3, <1>4, <1>5, <1>6 DEF TypeOK
  <2> QED BY <1>1, <1>2, <2>1 DEF TypeOK
<1>8. Bounded' /\ SeqNumsRight' /\ StoresRight' /\ ReadersRight' /\ NoSleeperLeft'
    BY <1>1 DEF Bounded, SeqNumsRight, StoresRight, ReadersRight, NoSleeperLeft, done
<1>9. ASSUME NEW d \in Client
      PROVE  /\ Len(sent[d]) \in Nat /\ Len(sent'[d]) \in Nat
             /\ Len(sent[d]) <= Len(sent'[d])
             /\ \A n \in 1 .. Len(sent[d]) : sent'[d][n] = sent[d][n]
  <2>1. Len(sent[d]) \in Nat
      BY DEF TypeOK
  <2>2. CASE d = c
      BY <1>3, <1>6, <2>2
  <2>3. CASE d # c
      BY <1>5, <2>1, <2>3
  <2> QED BY <2>1, <2>2, <2>3
<1>10. ASSUME NEW p \in Op, Sent(p)
       PROVE  p.seq \in 1 .. Len(sent'[p.client]) /\ sent'[p.client][p.seq] = p
    BY <1>9, <1>10 DEF Sent, Op
<1>11. Numbered'
  <2> SUFFICES ASSUME NEW d \in Client, NEW n \in 1 .. Len(sent'[d])
               PROVE  sent'[d][n].client = d /\ sent'[d][n].seq = n
      BY DEF Numbered
  <2>1. CASE d = c /\ n = len + 1
      BY <1>6, <2>1 DEF o
  <2>2. CASE ~ (d = c /\ n = len + 1)
    <3>1. n \in 1 .. Len(sent[d])
        BY <1>3, <1>5, <1>6, <2>2
    <3> QED BY <1>9, <3>1 DEF Numbered
  <2> QED BY <2>1, <2>2
<1>12. OnlySent'
  <2>1. ASSUME NEW j \in 1 .. Len(chosen) PROVE Sent(chosen[j])'
    <3>1. chosen[j] \in Op /\ Sent(chosen[j])
        BY DEF TypeOK, OnlySent
    <3> QED BY <1>1, <1>10, <3>1 DEF Sent
  <2>2. ASSUME NEW h \in waiting \union reading PROVE (Sent(h[2]) /\ Pending(h[2]))'
    <3>1. h[2] \in Op /\ Sent(h[2]) /\ Pending(h[2])
        BY DEF TypeOK, OnlySent
    <3>2. Sent(h[2])'
        BY <1>10, <3>1 DEF Sent
    <3>3. h[2].client \in Client \ {c}
        BY <1>2, <3>1 DEF Pending, Op
    <3>4. Pending(h[2])'
        BY <1>2, <1>5, <3>1, <3>3 DEF Pending, TypeOK
    <3> QED BY <3>2, <3>4
  <2> QED BY <1>1, <2>1, <2>2 DEF OnlySent
<1>13. Returned'
  <2> SUFFICES ASSUME NEW d \in Client, NEW n \in 1 .. Len(sent'[d]),
                      n < Len(sent'[d]) \/ ~ busy'[d]
               PROVE  InLog(chosen, sent'[d][n], Len(chosen))
      BY <1>1 DEF Returned
  <2>1. CASE d = c
    <3>1. n \in 1 .. len
        BY <1>2, <1>3, <1>6, <2>1 DEF TypeOK
    <3> QED BY <1>2, <1>6, <2>1, <3>1 DEF Returned
  <2>2. CASE d # c
      BY <1>2, <1>5, <2>2 DEF Returned, TypeOK
  <2> QED BY <2>1, <2>2
<1>14. InOrder'
  <2> SUFFICES ASSUME NEW j \in 1 .. Len(chosen), NEW n \in 1 .. chosen[j].seq - 1
               PROVE  InLog(chosen, sent'[chosen[j].client][n], j - 1)
      BY <1>1 DEF InOrder
  <2>1. chosen[j] \in Op /\ Sent(chosen[j])
      BY DEF TypeOK, OnlySent
  <2>2. chosen[j].client \in Client /\ n \in 1 .. Len(sent[chosen[j].client])
      BY <1>9, <2>1 DEF Sent, Op
  <2>3. sent'[chosen[j].client][n] = sent[chosen[j].client][n]
      BY <1>9, <2>2
  <2> QED BY <2>3 DEF InOrder
<1> QED BY <1>7, <1>8, <1>11, <1>12, <1>13, <1>14

(* A call returns when its operation is in the log. *)
LEMMA ReturnStep ==
    ASSUME Inv, NEW o \in Op, NEW a, Sent(o), Pending(o), InLog(chosen, o, Len(chosen)),
           Return(o, a), UNCHANGED <<chosen, serverVars>>
    PROVE  Inv'
<1> DEFINE c == o.client
<1> USE DEF Inv
<1>1. UNCHANGED <<chosen, lastApplied, state, lastSeqNum, snap, sent>>
    BY DEF Return, serverVars
<1>2. /\ busy' = [busy EXCEPT ![c] = FALSE]
      /\ waiting' = {h \in waiting : h[2] # o}
      /\ reading' = {h \in reading : h[2] # o}
    BY DEF Return
<1>3. c \in Client /\ busy[c] /\ o.seq = Len(sent[c]) /\ sent[c][o.seq] = o
    BY DEF Pending, Sent, Op
<1>4. TypeOK'
    BY <1>1, <1>2 DEF TypeOK
<1>5. Bounded' /\ Numbered' /\ InOrder' /\ SeqNumsRight' /\ StoresRight'
    BY <1>1 DEF Bounded, Numbered, InOrder, SeqNumsRight, StoresRight
<1>6. ReadersRight' /\ NoSleeperLeft'
    BY <1>1, <1>2 DEF ReadersRight, NoSleeperLeft, done
<1>7. OnlySent'
  <2>1. ASSUME NEW h \in waiting' \union reading' PROVE (Sent(h[2]) /\ Pending(h[2]))'
    <3>1. /\ h \in waiting \union reading /\ h[2] # o /\ h[2] \in Op
          /\ Sent(h[2]) /\ Pending(h[2])
        BY <1>2 DEF OnlySent, TypeOK
    <3>2. h[2].client # c
        BY <1>3, <3>1 DEF Sent, Pending
    <3> QED BY <1>1, <1>2, <3>1, <3>2 DEF Sent, Pending, TypeOK, Op
  <2> QED BY <1>1, <2>1 DEF OnlySent, Sent
<1>8. Returned'
  <2> SUFFICES ASSUME NEW d \in Client, NEW n \in 1 .. Len(sent[d]),
                      n < Len(sent[d]) \/ ~ busy'[d]
               PROVE  InLog(chosen, sent[d][n], Len(chosen))
      BY <1>1 DEF Returned
  <2>1. CASE d = c /\ ~ (n < Len(sent[d]))
    <3>1. n = o.seq
        BY <1>3, <2>1 DEF TypeOK
    <3> QED BY <1>3, <2>1, <3>1
  <2>2. CASE d # c \/ n < Len(sent[d])
      BY <1>2, <2>2 DEF Returned, TypeOK
  <2> QED BY <2>1, <2>2
<1> QED BY <1>4, <1>5, <1>6, <1>7, <1>8

(* The log grows by an operation all of whose predecessors are in it. *)
LEMMA OperateStartStep ==
    ASSUME Inv, NEW s \in Server, NEW o \in Arriving, NEW agreed \in BOOLEAN,
           OperateStart(s, o, agreed)
    PROVE  Inv'
<1> DEFINE len == Len(chosen)
<1> USE DEF Inv
<1>1. o \in Op /\ Sent(o)
    BY ArrivingIsSent
<1>2. chosen \in Seq(Op) /\ len \in Nat
    BY DEF TypeOK
<1>3. chosen' = chosen \/ chosen' = Append(chosen, o)
    BY DEF OperateStart, Commit
<1>4. /\ chosen' \in Seq(Op) /\ Len(chosen') \in Nat /\ len <= Len(chosen')
      /\ \A j \in 1 .. len : chosen'[j] = chosen[j]
      /\ \A j \in 1 .. Len(chosen') : j \in 1 .. len \/ (j = len + 1 /\ chosen'[j] = o)
  <2>1. CASE chosen' = chosen
      BY <1>2, <2>1
  <2>2. CASE chosen' = Append(chosen, o)
    <3>1. /\ chosen' \in Seq(Op) /\ Len(chosen') = len + 1 /\ chosen'[len + 1] = o
          /\ \A j \in 1 .. len : chosen'[j] = chosen[j]
        BY <1>1, <1>2, <2>2, AppendProperties
    <3> QED BY <1>2, <3>1
  <2> QED BY <1>3, <2>1, <2>2
<1>5. UNCHANGED <<lastApplied, state, lastSeqNum, snap, reading, sent, busy>>
    BY DEF OperateStart, serverVars, clerkVars
<1>6. waiting' = waiting \/ (waiting' = waiting \union {<<s, o>>} /\ Pending(o))
    BY DEF OperateStart
<1> HIDE DEF len
<1>7. \A n \in Nat : n <= len => \A j \in 1 .. n : j \in 1 .. len /\ chosen'[j] = chosen[j]
    BY <1>2, <1>4
<1>8. \A x, n : n \in Nat /\ n <= len /\ InLog(chosen, x, n) => InLog(chosen', x, n)
    BY <1>7 DEF InLog
<1>9. TypeOK'
    BY <1>1, <1>4, <1>5, <1>6 DEF TypeOK
<1>10. /\ Numbered'
       /\ \A t \in Server : /\ lastApplied[t] \in Nat /\ lastApplied[t] <= len
                            /\ snap[t].index \in Nat /\ snap[t].index <= len
    BY <1>5 DEF Numbered, Bounded, TypeOK, len
<1>11. Bounded'
    BY <1>2, <1>4, <1>5, <1>10 DEF Bounded
<1>12. OnlySent'
  <2>1. ASSUME NEW j \in 1 .. Len(chosen') PROVE Sent(chosen'[j])
      BY <1>1, <1>4 DEF OnlySent, len
  <2>2. ASSUME NEW h \in waiting' \union reading' PROVE Sent(h[2]) /\ Pending(h[2])
      BY <1>1, <1>5, <1>6 DEF OnlySent
  <2> QED BY <1>5, <2>1, <2>2 DEF OnlySent, Sent, Pending
<1>13. Returned'
  <2> SUFFICES ASSUME NEW d \in Client, NEW n \in 1 .. Len(sent[d]),
                      n < Len(sent[d]) \/ ~ busy[d]
               PROVE  InLog(chosen', sent[d][n], Len(chosen'))
      BY <1>5 DEF Returned
  <2>1. PICK j \in 1 .. len : chosen[j] = sent[d][n]
      BY DEF Returned, InLog, len
  <2>2. j \in 1 .. Len(chosen') /\ chosen'[j] = sent[d][n]
      BY <1>2, <1>4, <2>1
  <2> QED BY <2>2 DEF InLog
<1>14. InOrder'
  <2> SUFFICES ASSUME NEW j \in 1 .. Len(chosen'), NEW n \in 1 .. chosen'[j].seq - 1
               PROVE  InLog(chosen', sent[chosen'[j].client][n], j - 1)
      BY <1>5 DEF InOrder
  <2>1. CASE j \in 1 .. len
    <3>1. InLog(chosen, sent[chosen[j].client][n], j - 1)
        BY <1>4, <2>1 DEF InOrder, len
    <3>2. j - 1 \in Nat /\ j - 1 <= len /\ chosen'[j] = chosen[j]
        BY <1>2, <1>4, <2>1
    <3> QED BY <1>8, <3>1, <3>2
  <2>2. CASE j = len + 1 /\ chosen'[j] = o
    <3>1. /\ o.client \in Client /\ n \in 1 .. Len(sent[o.client])
          /\ n < Len(sent[o.client])
      <4>1. o.client \in Client /\ o.seq \in Nat /\ Len(sent[o.client]) \in Nat
          BY <1>1 DEF Op, TypeOK
      <4>2. o.seq <= Len(sent[o.client]) /\ n \in 1 .. o.seq - 1
          BY <1>1, <2>2 DEF Sent
      <4> QED BY <4>1, <4>2
    <3>2. InLog(chosen, sent[o.client][n], len)
        BY <3>1 DEF Returned, len
    <3>3. j - 1 = len
        BY <1>2, <2>2
    <3> QED BY <1>2, <1>8, <2>2, <3>2, <3>3
  <2> QED BY <1>4, <2>1, <2>2
<1>15. SeqNumsRight'
  <2>1. ASSUME NEW seqs, NEW n \in Nat, n <= len, Largest(chosen, seqs, n)
        PROVE  Largest(chosen', seqs, n)
      BY <1>7, <2>1 DEF Largest
  <2> QED BY <1>5, <1>10, <2>1 DEF SeqNumsRight
<1>16. StoresRight'
  <2>1. \A n \in Nat : n <= len => Store(chosen', n) = Store(chosen, n)
      BY <1>7, StoreOfPrefix
  <2> QED BY <1>5, <1>10, <2>1 DEF StoresRight
<1>17. ReadersRight'
  <2> SUFFICES ASSUME NEW h \in reading
               PROVE  InLog(chosen', h[2], lastApplied[h[1]])
      BY <1>5 DEF ReadersRight
  <2>1. h[1] \in Server /\ InLog(chosen, h[2], lastApplied[h[1]])
      BY DEF ReadersRight, TypeOK
  <2> QED BY <1>8, <1>10, <2>1
<1>18. NoSleeperLeft'
  <2>1. ~ done(s, o)
      BY DEF OperateStart
  <2> QED BY <1>5, <1>6, <2>1 DEF NoSleeperLeft, done
<1> QED BY <1>9, <1>10, <1>11, <1>12, <1>13, <1>14, <1>15, <1>16, <1>17, <1>18

(* The applier of s gets to the n-th entry, and wakes whom it has to. *)
LEMMA ApplierStep ==
    ASSUME Inv, NEW s \in Server, NEW n \in Nat, n <= Len(chosen), lastApplied[s] <= n,
           NEW seqs \in [Client -> Nat], Largest(chosen, seqs, n), NEW sn,
           sn.index = n, sn.data = Store(chosen, n), sn.seqs = seqs,
           UNCHANGED <<chosen, sent, busy>>,
           lastApplied' = [lastApplied EXCEPT ![s] = n],
           lastSeqNum' = [lastSeqNum EXCEPT ![s] = seqs],
           state' = [state EXCEPT ![s] = Store(chosen, n)],
           snap' = snap \/ snap' = [snap EXCEPT ![s] = sn],
           Broadcast(s)
    PROVE  Inv'
<1> USE DEF Inv
<1>1. /\ lastApplied'[s] = n /\ lastSeqNum'[s] = seqs
      /\ \A t \in Server \ {s} : lastApplied'[t] = lastApplied[t] /\ lastSeqNum'[t] = lastSeqNum[t]
    BY DEF TypeOK
<1>2. \A t \in Server : snap'[t] = snap[t] \/ (t = s /\ snap'[t] = sn)
    BY DEF TypeOK
<1>3. snap' = [t \in Server |-> snap'[t]]
    BY DEF TypeOK
<1>4. /\ waiting' = {h \in waiting : ~ (h[1] = s /\ seqs[h[2].client] >= h[2].seq)}
      /\ reading' = reading \union {h \in waiting : h[1] = s /\ seqs[h[2].client] >= h[2].seq}
    BY <1>1 DEF Broadcast
<1>5. TypeOK'
  <2>1. waiting' \subseteq Server \X Op /\ reading' \subseteq Server \X Op
      BY <1>4 DEF TypeOK
  <2>2. \A t \in Server : snap'[t].index \in Nat /\ snap'[t].seqs \in [Client -> Nat]
      BY <1>2 DEF TypeOK
  <2>3. lastApplied' \in [Server -> Nat] /\ lastSeqNum' \in [Server -> [Client -> Nat]]
      BY DEF TypeOK
  <2> QED BY <1>3, <2>1, <2>2, <2>3 DEF TypeOK
<1>6. Bounded'
    BY <1>1, <1>2 DEF Bounded
<1>7. Numbered' /\ Returned' /\ InOrder'
    BY DEF Numbered, Returned, InOrder
<1>8. OnlySent'
  <2>1. \A h \in waiting' \union reading' : h \in waiting \union reading
      BY <1>4
  <2> QED BY <2>1 DEF OnlySent, Sent, Pending
<1>9. SeqNumsRight'
    BY <1>1, <1>2 DEF SeqNumsRight
<1>10. StoresRight'
  <2>1. \A t \in Server : state'[t] = Store(chosen, lastApplied'[t])
      BY <1>1 DEF StoresRight
  <2>2. state' = [t \in Server |-> state'[t]]
      BY DEF StoresRight
  <2>3. \A t \in Server : snap'[t].data = Store(chosen, snap'[t].index)
      BY <1>2 DEF StoresRight
  <2> QED BY <2>1, <2>2, <2>3 DEF StoresRight
<1>11. ReadersRight'
  <2> SUFFICES ASSUME NEW h \in reading'
               PROVE  InLog(chosen, h[2], lastApplied'[h[1]])
      BY DEF ReadersRight
  <2>1. CASE h \in reading
    <3>1. h[1] \in Server /\ InLog(chosen, h[2], lastApplied[h[1]])
        BY <2>1 DEF ReadersRight, TypeOK
    <3>2. lastApplied[h[1]] \in Nat /\ lastApplied'[h[1]] \in Nat
          /\ lastApplied[h[1]] <= lastApplied'[h[1]]
      <4>1. lastApplied[h[1]] \in Nat
          BY <3>1 DEF TypeOK
      <4>2. CASE h[1] = s
          BY <1>1, <4>1, <4>2
      <4>3. CASE h[1] # s
          BY <1>1, <3>1, <4>1, <4>3
      <4> QED BY <4>2, <4>3
    <3>3. \A i \in 1 .. lastApplied[h[1]] : i \in 1 .. lastApplied'[h[1]]
        BY <3>2
    <3> QED BY <3>1, <3>3 DEF InLog
  <2>2. CASE h \in waiting /\ h[1] = s /\ seqs[h[2].client] >= h[2].seq
    <3>1. h[2] \in Op /\ Sent(h[2])
        BY <2>2 DEF TypeOK, OnlySent
    <3> QED BY <1>1, <2>2, <3>1, NumberedIsIn
  <2> QED BY <1>4, <2>1, <2>2
<1>12. NoSleeperLeft'
  <2> SUFFICES ASSUME NEW h \in waiting'
               PROVE  ~ (lastSeqNum'[h[1]][h[2].client] >= h[2].seq)
      BY DEF NoSleeperLeft, done
  <2>1. h \in waiting /\ h[1] \in Server
      BY <1>4 DEF TypeOK
  <2>2. CASE h[1] = s
      BY <1>1, <1>4, <2>2
  <2>3. CASE h[1] # s
      BY <1>1, <2>1, <2>3 DEF NoSleeperLeft, done
  <2> QED BY <2>2, <2>3
<1> QED BY <1>5, <1>6, <1>7, <1>8, <1>9, <1>10, <1>11, <1>12

(* A command: the server applies it when it is the first entry of its      *)
(* operation, and skips it otherwise.                                      *)
LEMMA DeliverStep ==
    ASSUME IsKVService, Inv, NEW s \in Server, Deliver(s)
    PROVE  Inv'
<1> DEFINE last == lastApplied[s]
           n == last + 1
           o == chosen[n]
           seqs == lastSeqNum'[s]
           sn == [index |-> n, data |-> Store(chosen, n), seqs |-> seqs]
<1> USE DEF Inv
<1>1. last \in Nat /\ Len(chosen) \in Nat /\ last < Len(chosen)
    BY DEF Deliver, TypeOK
<1>2. /\ n \in 1 .. Len(chosen) /\ o \in Op
      /\ done(s, o) <=> ~ Effective(chosen, n)
    BY <1>1, DoneIsRepeated
<1>3. n \in Nat /\ n <= Len(chosen) /\ last <= n
    BY <1>1
<1>4. /\ lastApplied' = [lastApplied EXCEPT ![s] = n]
      /\ ApplyOp(s, o)
      /\ Snapshot(s) \/ snap' = snap
      /\ Broadcast(s)
      /\ UNCHANGED <<chosen, sent, busy>>
    BY DEF Deliver, clerkVars
<1> HIDE DEF o
<1>5. /\ lastSeqNum' = [lastSeqNum EXCEPT ![s] = seqs] /\ seqs \in [Client -> Nat]
      /\ Largest(chosen, seqs, n)
  <2>1. o.client \in Client /\ o.seq \in Nat
      BY <1>2 DEF Op
  <2>2. /\ lastSeqNum[s] \in [Client -> Nat] /\ Largest(chosen, lastSeqNum[s], last)
      BY DEF TypeOK, SeqNumsRight
  <2>3. \A j \in 1 .. n : j \in 1 .. last \/ (j = n /\ chosen[j] = o)
      BY <1>1 DEF o
  <2>4. \A j \in 1 .. last : j \in 1 .. n
      BY <1>1
  <2>5. CASE done(s, o)
    <3>1. lastSeqNum' = lastSeqNum
        BY <1>4, <2>5 DEF ApplyOp
    <3>2. o.seq <= lastSeqNum[s][o.client]
        BY <2>1, <2>2, <2>5 DEF done
    <3>3. Largest(chosen, lastSeqNum[s], n)
        BY <2>2, <2>3, <2>4, <3>2 DEF Largest
    <3> QED BY <2>2, <3>1, <3>3 DEF TypeOK
  <2>6. CASE ~ done(s, o)
    <3>1. lastSeqNum' = [lastSeqNum EXCEPT ![s] = [lastSeqNum[s] EXCEPT ![o.client] = o.seq]]
        BY <1>4, <2>6 DEF ApplyOp
    <3>2. seqs = [lastSeqNum[s] EXCEPT ![o.client] = o.seq]
        BY <3>1 DEF TypeOK
    <3>3. lastSeqNum' = [lastSeqNum EXCEPT ![s] = seqs]
        BY <3>1, <3>2
    <3> HIDE DEF seqs
    <3>4. seqs \in [Client -> Nat]
        BY <2>1, <2>2, <3>2
    <3>5. lastSeqNum[s][o.client] < o.seq
        BY <2>1, <2>2, <2>6 DEF done
    <3>6. \A j \in 1 .. n : chosen[j].seq <= seqs[chosen[j].client]
      <4>1. ASSUME NEW j \in 1 .. last PROVE chosen[j].seq <= seqs[chosen[j].client]
        <5>1. chosen[j].client \in Client /\ chosen[j].seq \in Nat
          <6>1. j \in 1 .. Len(chosen)
              BY <1>1
          <6>2. chosen[j] \in Op
              BY <6>1 DEF TypeOK
          <6> QED BY <6>2 DEF Op
        <5>2. chosen[j].seq <= lastSeqNum[s][chosen[j].client]
            BY <2>2 DEF Largest
        <5> QED BY <2>1, <2>2, <3>2, <3>5, <5>1, <5>2
      <4>2. o.seq <= seqs[o.client]
          BY <2>1, <2>2, <3>2
      <4> QED BY <2>3, <4>1, <4>2
    <3>7. ASSUME NEW c \in Client, seqs[c] # 0
          PROVE  \E j \in 1 .. n : chosen[j].client = c /\ chosen[j].seq = seqs[c]
      <4>1. CASE c = o.client
        <5>1. seqs[c] = o.seq /\ n \in 1 .. n
            BY <1>1, <2>2, <3>2, <4>1
        <5> QED BY <4>1, <5>1 DEF o
      <4>2. CASE c # o.client
        <5>1. seqs[c] = lastSeqNum[s][c]
            BY <2>2, <3>2, <4>2
        <5> QED BY <2>2, <2>4, <3>7, <5>1 DEF Largest
      <4> QED BY <4>1, <4>2
    <3> QED BY <3>3, <3>4, <3>6, <3>7 DEF Largest
  <2> QED BY <2>5, <2>6
<1>6. state' = [state EXCEPT ![s] = Store(chosen, n)]
  <2>1. state[s] = Store(chosen, last) /\ state = [t \in Server |-> state[t]]
      BY DEF StoresRight
  <2>2. CASE done(s, o)
    <3>1. state' = state
        BY <1>4, <2>2 DEF ApplyOp
    <3>2. Store(chosen, n) = Store(chosen, last)
        BY <1>1, <1>2, <2>2, StoreStep DEF o
    <3> QED BY <2>1, <3>1, <3>2
  <2>3. CASE ~ done(s, o)
    <3>1. PICK st \in Apply(state[s], o) : state' = [state EXCEPT ![s] = st]
        BY <1>4, <2>3 DEF ApplyOp
    <3>2. Apply(state[s], o) = ApplyKV(state[s], o)
        BY DEF IsKVService
    <3>3. ApplyKV(Store(chosen, last), o) = {Store(chosen, n)}
        BY <1>1, <1>2, <2>3, StoreStep DEF o
    <3>4. st = Store(chosen, n)
        BY <2>1, <3>2, <3>3
    <3> QED BY <3>1, <3>4
  <2> QED BY <2>2, <2>3
<1>7. snap' = snap \/ snap' = [snap EXCEPT ![s] = sn]
  <2>1. lastApplied'[s] = n /\ state'[s] = Store(chosen, n)
      BY <1>4, <1>6 DEF TypeOK, StoresRight
  <2> QED BY <1>4, <2>1 DEF Snapshot
<1>8. sn.index = n /\ sn.data = Store(chosen, n) /\ sn.seqs = seqs
    OBVIOUS
<1> HIDE DEF n, seqs, sn
<1> QED BY <1>3, <1>4, <1>5, <1>6, <1>7, <1>8, ApplierStep

(* A snapshot: it stands for the entries up to its index. *)
LEMMA DeliverSnapStep ==
    ASSUME Inv, NEW s \in Server, NEW q \in Server, DeliverSnap(s, q)
    PROVE  Inv'
<1> DEFINE sn == snap[q]
           n == sn.index
           seqs == sn.seqs
<1> USE DEF Inv
<1>1. /\ n \in Nat /\ n <= Len(chosen) /\ lastApplied[s] <= n
      /\ seqs \in [Client -> Nat] /\ Largest(chosen, seqs, n)
      /\ sn.data = Store(chosen, n)
    BY DEF TypeOK, Bounded, SeqNumsRight, StoresRight, DeliverSnap
<1>2. /\ lastApplied' = [lastApplied EXCEPT ![s] = n]
      /\ lastSeqNum' = [lastSeqNum EXCEPT ![s] = seqs]
      /\ state' = [state EXCEPT ![s] = Store(chosen, n)]
      /\ snap' = [snap EXCEPT ![s] = sn]
      /\ Broadcast(s)
      /\ UNCHANGED <<chosen, sent, busy>>
    BY <1>1 DEF DeliverSnap, ApplySnap, clerkVars
<1>3. sn.index = n /\ sn.seqs = seqs
    OBVIOUS
<1> HIDE DEF sn, n, seqs
<1> QED BY <1>1, <1>2, <1>3, ApplierStep

(* A restarted server has applied nothing, and its handlers are gone. *)
LEMMA RestartStep ==
    ASSUME IsKVService, Inv, NEW s \in Server, Restart(s)
    PROVE  Inv'
<1> USE DEF Inv
<1>1. /\ lastApplied' = [lastApplied EXCEPT ![s] = 0]
      /\ state' = [state EXCEPT ![s] = InitState]
      /\ lastSeqNum' = [lastSeqNum EXCEPT ![s] = NoSeqNums]
      /\ waiting' = {h \in waiting : h[1] # s}
      /\ reading' = {h \in reading : h[1] # s}
      /\ UNCHANGED <<chosen, snap, sent, busy>>
    BY DEF Restart, clerkVars
<1>2. /\ lastApplied'[s] = 0 /\ lastSeqNum'[s] = NoSeqNums
      /\ \A t \in Server \ {s} : lastApplied'[t] = lastApplied[t] /\ lastSeqNum'[t] = lastSeqNum[t]
    BY <1>1 DEF TypeOK
<1>3. TypeOK'
    BY <1>1 DEF TypeOK, NoSeqNums
<1>4. Bounded'
  <2>1. 0 <= Len(chosen)
      BY DEF TypeOK
  <2> QED BY <1>1, <1>2, <2>1 DEF Bounded
<1>5. Numbered' /\ OnlySent' /\ Returned' /\ InOrder'
    BY <1>1 DEF Numbered, OnlySent, Sent, Pending, Returned, InOrder
<1>6. SeqNumsRight'
  <2>1. Largest(chosen, NoSeqNums, 0)
      BY DEF Largest, NoSeqNums
  <2> QED BY <1>1, <1>2, <2>1 DEF SeqNumsRight
<1>7. StoresRight'
  <2>1. Store(chosen, 0) = InitState
      BY StoreAtZero DEF IsKVService
  <2>2. \A t \in Server : state'[t] = Store(chosen, lastApplied'[t])
      BY <1>1, <1>2, <2>1 DEF StoresRight
  <2>3. state' = [t \in Server |-> state'[t]]
      BY <1>1 DEF StoresRight
  <2> QED BY <1>1, <2>2, <2>3 DEF StoresRight
<1>8. ReadersRight' /\ NoSleeperLeft'
    BY <1>1, <1>2 DEF ReadersRight, NoSleeperLeft, done, TypeOK
<1> QED BY <1>3, <1>4, <1>5, <1>6, <1>7, <1>8

(* The calls that may return: their operations are under way, and applied  *)
(* by the server that answers.                                             *)
LEMMA AnswerReady ==
    ASSUME Inv, NEW s \in Server, NEW o \in Arriving, OperateDone(s, o) \/ Read(s, o)
    PROVE  /\ o \in Op /\ Sent(o) /\ Pending(o)
           /\ InLog(chosen, o, lastApplied[s]) /\ InLog(chosen, o, Len(chosen))
           /\ Return(o, Answer(state[s], o)) /\ UNCHANGED <<chosen, serverVars>>
<1>1. o \in Op /\ Sent(o)
    BY ArrivingIsSent
<1>2. Return(o, Answer(state[s], o)) /\ UNCHANGED <<chosen, serverVars>>
    BY DEF OperateDone, Read
<1>3. Pending(o) /\ InLog(chosen, o, lastApplied[s])
  <2>1. CASE OperateDone(s, o)
      BY <1>1, <2>1, DoneIsApplied DEF OperateDone
  <2>2. CASE Read(s, o)
    <3>1. <<s, o>> \in reading
        BY <2>2 DEF Read
    <3> QED BY <3>1 DEF Inv, OnlySent, ReadersRight
  <2> QED BY <2>1, <2>2
<1>4. InLog(chosen, o, Len(chosen))
  <2>1. lastApplied[s] \in Nat /\ Len(chosen) \in Nat /\ lastApplied[s] <= Len(chosen)
      BY DEF Inv, TypeOK, Bounded
  <2> QED BY <1>3, <2>1 DEF InLog
<1> QED BY <1>1, <1>2, <1>3, <1>4

LEMMA NextInv == ASSUME IsKVService, Inv, [Next]_vars PROVE Inv'
<1>1. CASE \E c \in Client : \E req \in Requests(c, Len(sent[c]) + 1) : Begin(c, req)
    BY <1>1, BeginStep
<1>2. ASSUME NEW s \in Server, NEW o \in Arriving, HandlerStep(s, o) PROVE Inv'
  <2>1. CASE \E agreed \in BOOLEAN : OperateStart(s, o, agreed)
      BY <2>1, OperateStartStep
  <2>2. CASE OperateDone(s, o) \/ Read(s, o)
      BY <2>2, AnswerReady, ReturnStep
  <2> QED BY <1>2, <2>1, <2>2 DEF HandlerStep
<1>3. CASE \E s \in Server : Deliver(s)
    BY <1>3, DeliverStep
<1>4. CASE \E s \in Restarting : Restart(s)
    BY <1>4, RestartStep, ServiceAssumption
<1>5. CASE \E s, q \in Server : DeliverSnap(s, q)
    BY <1>5, DeliverSnapStep
<1>6. CASE UNCHANGED vars
  <2>1. UNCHANGED <<chosen, lastApplied, state, lastSeqNum, snap, waiting, reading, sent, busy>>
      BY <1>6 DEF vars, serverVars, handlerVars, clerkVars
  <2> QED BY <2>1 DEF Inv, TypeOK, Bounded, Numbered, OnlySent, Sent, Pending, Returned, InOrder,
                      SeqNumsRight, StoresRight, ReadersRight, NoSleeperLeft, done
<1> QED BY <1>1, <1>2, <1>3, <1>4, <1>5, <1>6 DEF Next

-----------------------------------------------------------------------------
(* The theorems.                                                           *)

(* The key/value service keeps the invariant. *)
THEOREM Invariance == ASSUME IsKVService PROVE Spec => []Inv
<1>1. Init => Inv
    BY InitInv
<1>2. Inv /\ [Next]_vars => Inv'
    BY NextInv
<1> QED BY <1>1, <1>2, PTL DEF Spec

(* Every server's store is the one that the entries it has applied stand   *)
(* for, each operation taken once: applyOp's test of the sequence number   *)
(* and snapshots that carry the numbers suffice, however often clerks      *)
(* retry and servers restart.                                              *)
THEOREM ExactlyOnceTheorem == ASSUME IsKVService PROVE Spec => []ExactlyOnce
<1>1. Inv => ExactlyOnce
    BY DEF Inv, StoresRight, Store, ExactlyOnce
<1> QED BY <1>1, Invariance, PTL

(* A server's sequence numbers, and the index, the data and the numbers of *)
(* a snapshot, are those of one place of the log.                          *)
THEOREM OnePlaceTheorem == ASSUME IsKVService PROVE Spec => []OnePlace
<1>1. ASSUME NEW seqs \in [Client -> Nat], NEW n \in Nat, Largest(chosen, seqs, n)
      PROVE  NumbersAt(seqs, n)
  <2> SUFFICES ASSUME NEW c \in Client
               PROVE  LET mine == {chosen[i].seq : i \in {j \in 1 .. n : chosen[j].client = c}}
                      IN  seqs[c] \in mine \union {0} /\ \A m \in mine : m <= seqs[c]
      BY DEF NumbersAt
  <2> QED BY <1>1 DEF Largest
<1>2. Inv => OnePlace
  <2> SUFFICES ASSUME Inv, NEW s \in Server
               PROVE  /\ NumbersAt(lastSeqNum[s], lastApplied[s])
                      /\ NumbersAt(snap[s].seqs, snap[s].index)
                      /\ \A k \in Key : snap[s].data[k] = ValueAt(chosen, k, snap[s].index)
      BY DEF OnePlace
  <2>1. NumbersAt(lastSeqNum[s], lastApplied[s]) /\ NumbersAt(snap[s].seqs, snap[s].index)
      BY <1>1, Zenon DEF Inv, TypeOK, SeqNumsRight
  <2>2. \A k \in Key : snap[s].data[k] = ValueAt(chosen, k, snap[s].index)
      BY Zenon DEF Inv, StoresRight, Store
  <2> QED BY <2>1, <2>2
<1> QED BY <1>2, Invariance, PTL

(* No handler of operate sleeps on when its operation is done. *)
THEOREM NoSleeperLeftTheorem == ASSUME IsKVService PROVE Spec => []NoSleeperLeft
<1>1. Inv => NoSleeperLeft
    BY DEF Inv
<1> QED BY <1>1, Invariance, PTL

(* Every client has an answer, at first none. *)
Answers == answer = [c \in Client |-> answer[c]]

LEMMA AnswersStay == Answers /\ [Next]_vars => Answers'
<1> SUFFICES ASSUME Answers, [Next]_vars PROVE Answers'
    OBVIOUS
<1>1. answer' = answer \/ \E c, a : answer' = [answer EXCEPT ![c] = a]
    BY DEF Next, vars, clerkVars, Begin, HandlerStep, OperateDone, OperateStart, Read, Return,
           Deliver, DeliverSnap, Restart
<1> QED BY <1>1 DEF Answers

(* A step that ends a call has an operation of the log to answer for, and  *)
(* answers from the store of that place or of a later one.                 *)
LEMMA LinearizableStep ==
    ASSUME IsKVService, Inv, Answers, Next, NEW c \in Client, busy[c], ~ busy'[c]
    PROVE  LET o == Current(c) IN
           \E i \in DOMAIN chosen :
              /\ chosen[i] = o
              /\ o.req.type = "Get" =>
                   \E n \in i .. Len(chosen) : answer'[c] = ValueAt(chosen, o.req.key, n)
<1>1. PICK s \in Server, o \in Arriving : OperateDone(s, o) \/ Read(s, o)
  <2>1. busy' # busy
      OBVIOUS
  <2>2. ~ \E d \in Client : \E req \in Requests(d, Len(sent[d]) + 1) : Begin(d, req)
      BY DEF Begin, Inv, TypeOK
  <2> QED BY <2>1, <2>2 DEF Next, HandlerStep, OperateStart, Deliver, DeliverSnap, Restart,
                            clerkVars
<1>2. /\ o \in Op /\ Sent(o) /\ Pending(o) /\ InLog(chosen, o, lastApplied[s])
      /\ Return(o, Answer(state[s], o))
    BY <1>1, AnswerReady
<1>3. busy' = [busy EXCEPT ![o.client] = FALSE]
      /\ answer' = [answer EXCEPT ![o.client] = Answer(state[s], o)]
    BY <1>2 DEF Return
<1>4. o.client = c
    BY <1>3 DEF Inv, TypeOK
<1>5. Current(c) = o
    BY <1>2, <1>4 DEF Current, Sent, Pending
<1>6. answer'[c] = AnswerKV(state[s], o)
  <2>1. answer'[c] = Answer(state[s], o)
      BY <1>3, <1>4 DEF Answers
  <2> QED BY <2>1 DEF IsKVService
<1>7. /\ lastApplied[s] \in Nat /\ lastApplied[s] <= Len(chosen)
      /\ chosen \in Seq(Op) /\ Len(chosen) \in Nat
    BY DEF Inv, TypeOK, Bounded
<1>8. PICK i \in 1 .. lastApplied[s] : chosen[i] = o
    BY <1>2 DEF InLog
<1>9. i \in DOMAIN chosen /\ lastApplied[s] \in i .. Len(chosen)
    BY <1>7
<1>10. ASSUME o.req.type = "Get"
       PROVE  answer'[c] = ValueAt(chosen, o.req.key, lastApplied[s])
  <2>1. state[s] = [k \in Key |-> ValueAt(chosen, k, lastApplied[s])] /\ o.req.key \in Key
      BY <1>2 DEF Inv, StoresRight, Store, Op
  <2> QED BY <1>6, <1>10, <2>1 DEF AnswerKV, get
<1> QED BY <1>5, <1>8, <1>9, <1>10

(* The service is linearizable: every call takes effect in the log while   *)
(* it is under way, and a Get answers from a store no older than its place *)
(* there, although the handler reads after operate has let go of the lock. *)
THEOREM LinearizableTheorem == ASSUME IsKVService PROVE Spec => Linearizable
<1>1. Init => Answers
    BY DEF Init, Answers
<1>2. Spec => []Answers
    BY <1>1, AnswersStay, PTL DEF Spec
<1>3. Inv /\ Answers /\ [Next]_vars =>
        [\A c \in Client : busy[c] /\ ~ busy'[c] =>
           LET o == Current(c) IN
           \E i \in DOMAIN chosen :
              /\ chosen[i] = o
              /\ o.req.type = "Get" =>
                   \E n \in i .. Len(chosen) : answer'[c] = ValueAt(chosen, o.req.key, n)
        ]_vars
    BY LinearizableStep
<1> QED BY <1>2, <1>3, Invariance, PTL DEF Spec, Linearizable
=============================================================================
