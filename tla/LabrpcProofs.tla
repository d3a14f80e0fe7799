---------------------------- MODULE LabrpcProofs ----------------------------
(***************************************************************************)
(* Proofs about Labrpc, for any number of servers, calls and restarts.     *)
(***************************************************************************)
EXTENDS Labrpc, SequenceTheorems, TLAPS

-----------------------------------------------------------------------------
(* The inductive invariant.                                                *)

CallPhase == Results \union {"idle", "sent", "delayed", "waiting", "received", "checked"}
HarnessPhase == {"down", "copied", "booted", "up", "isolated", "deleted"}

TypeOK ==
    /\ servers \in [Server -> Nat]
    /\ pc \in [Call -> CallPhase]
    /\ instance \in [Call -> Nat]
    /\ handler \in [Call -> {"none", "running", "done"}]
    /\ harness \in [Server -> HarnessPhase]
    /\ persister \in Seq(SUBSET Call)
    /\ saved \in [Server -> 0 .. Len(persister)]
    /\ disk \in [Server -> Seq(Nat)]
    /\ memory \in [Server -> Seq(SUBSET Call)]

(* An instance has a persister of its own, which holds what it knows.      *)
OwnPersister ==
    /\ \A n \in Server : Len(memory[n]) = Len(disk[n])
    /\ \A n \in Server : \A i \in 1 .. Len(disk[n]) :
          /\ disk[n][i] \in 1 .. Len(persister)
          /\ persister[disk[n][i]] = memory[n][i]
    /\ \A n, m \in Server : \A i \in 1 .. Len(disk[n]), j \in 1 .. Len(disk[m]) :
          disk[n][i] = disk[m][j] => n = m /\ i = j

(* Servers do not share the persister they are to start with, and from     *)
(* StartServer's copy until the instance reads it, nobody uses it.         *)
FreshCopy ==
    /\ \A n, m \in Server : saved[n] # 0 /\ saved[n] = saved[m] => n = m
    /\ \A n \in Server : harness[n] = "copied" =>
          /\ saved[n] # 0
          /\ \A m \in Server : \A j \in 1 .. Len(disk[m]) : disk[m][j] # saved[n]

(* Until ShutdownServer has taken the name away, the newest instance saves *)
(* to the persister that its successor's is copied from.                   *)
NewestSaves ==
    /\ \A n \in Server : harness[n] \in {"booted", "up", "isolated"} =>
          Len(disk[n]) # 0 /\ disk[n][Len(disk[n])] = saved[n]
    /\ \A n \in Server : servers[n] # 0 =>
          harness[n] \in {"up", "isolated"} /\ servers[n] = Len(disk[n])

(* A call knows a real instance, and what its handler has done is known to *)
(* that instance.                                                          *)
CallsRight ==
    \A c \in Call :
        /\ pc[c] \in {"idle", "sent", "delayed"} => handler[c] = "none"
        /\ pc[c] \in {"delayed", "waiting", "received"} \/ handler[c] # "none" =>
              instance[c] \in 1 .. Len(disk[connections[c]])
        /\ handler[c] = "done" => c \in memory[connections[c]][instance[c]]
        /\ pc[c] = "received" => handler[c] = "done"

(* PositiveReplyKept, from the moment the reply has been checked. *)
CheckedKept ==
    \A c \in Call : pc[c] \in {"checked", "true"} =>
        /\ saved[connections[c]] # 0
        /\ c \in persister[saved[connections[c]]]

Inv == TypeOK /\ OwnPersister /\ FreshCopy /\ NewestSaves /\ CallsRight /\ CheckedKept

-----------------------------------------------------------------------------
LEMMA InitInv == Init => Inv
<1> SUFFICES ASSUME Init PROVE Inv
    OBVIOUS
<1>1. TypeOK
    BY DEF Init, TypeOK, CallPhase, HarnessPhase
<1>2. OwnPersister /\ FreshCopy /\ NewestSaves
    BY DEF Init, OwnPersister, FreshCopy, NewestSaves
<1>3. CallsRight /\ CheckedKept
    BY DEF Init, CallsRight, CheckedKept
<1> QED BY <1>1, <1>2, <1>3 DEF Inv

(* The steps of Call and processReq, Handle aside, leave the servers, the  *)
(* persisters and the harness alone.                                       *)
LEMMA CallStep ==
    ASSUME Inv, NEW c \in Call, CallSend(c) \/ NetworkStep(c)
    PROVE  Inv'
<1> USE LabrpcAssumption DEF Inv
<1>1. TypeOK'
    BY DEF TypeOK, CallPhase, CallSend, NetworkStep, ReadEndnameInfo, Unreachable, DropRequest,
           Dispatch, Received, FoundDead, CheckReply, Reply, Step, Results, netVars,
           diskVars
<1>2. UNCHANGED <<servers, diskVars, harness>>
    BY DEF CallSend, NetworkStep, ReadEndnameInfo, Unreachable, DropRequest,
           Dispatch, Received, FoundDead, CheckReply, Reply, netVars
<1>3. OwnPersister' /\ FreshCopy' /\ NewestSaves'
    BY <1>2 DEF diskVars, OwnPersister, FreshCopy, NewestSaves
<1>4. CallsRight'
  <2>1. CASE ReadEndnameInfo(c)
      BY <1>2, <2>1 DEF TypeOK, NewestSaves, CallsRight, ReadEndnameInfo, Step, diskVars
  <2>2. CASE Dispatch(c)
      BY <1>2, <2>2 DEF TypeOK, CallsRight, Dispatch, Step, diskVars
  <2>3. CASE CallSend(c) \/ Unreachable(c) \/ DropRequest(c) \/ Received(c) \/ FoundDead(c)
      BY <1>2, <2>3 DEF TypeOK, CallsRight, CallSend, Unreachable, DropRequest, Received,
                        FoundDead, Step, diskVars
  <2>4. CASE CheckReply(c) \/ \E ok \in Results : Reply(c, ok)
      BY <1>2, <2>4 DEF TypeOK, CallsRight, CheckReply, Reply, Results, Step, diskVars
  <2> QED BY <2>1, <2>2, <2>3, <2>4 DEF NetworkStep
<1>5. CheckedKept'
  <2>1. CASE CheckReply(c)
    <3>1. ASSUME pc'[c] = "checked" PROVE c \in persister[saved[connections[c]]]
                                          /\ saved[connections[c]] # 0
      <4> DEFINE n == connections[c]
      <4>1. servers[n] = instance[c] /\ pc[c] = "received"
          BY <2>1, <3>1 DEF TypeOK, CheckReply, Step, IsServerDead
      <4>2. handler[c] = "done" /\ instance[c] \in 1 .. Len(disk[n])
          BY <4>1 DEF CallsRight
      <4>3. disk[n][instance[c]] = saved[n]
          BY <4>1, <4>2 DEF TypeOK, NewestSaves
      <4> QED BY <4>2, <4>3 DEF TypeOK, OwnPersister, CallsRight
    <3> QED BY <1>2, <2>1, <3>1 DEF TypeOK, CheckedKept, CheckReply, Step, diskVars
  <2>2. CASE \E ok \in Results : Reply(c, ok)
      BY <1>2, <2>2 DEF TypeOK, CheckedKept, Reply, Results, Step, diskVars
  <2>3. CASE CallSend(c) \/ Unreachable(c) \/ DropRequest(c) \/ Received(c) \/ FoundDead(c)
      BY <1>2, <2>3 DEF TypeOK, CheckedKept, CallSend, Unreachable, DropRequest, Received,
                        FoundDead, Step, diskVars
  <2>4. CASE ReadEndnameInfo(c) \/ Dispatch(c)
      BY <1>2, <2>4 DEF TypeOK, CheckedKept, ReadEndnameInfo, Dispatch, Step, diskVars
  <2> QED BY <2>1, <2>2, <2>3, <2>4 DEF NetworkStep
<1> QED BY <1>1, <1>3, <1>4, <1>5

(* What a handler saves is added to what its persister holds, whichever    *)
(* instance it belongs to, and no other persister changes.                 *)
LEMMA HandleStep ==
    ASSUME Inv, NEW c \in Call, Handle(c)
    PROVE  Inv'
<1> DEFINE n == connections[c]
           i == instance[c]
           k == disk[n][i]
<1> USE LabrpcAssumption DEF Inv
<1>1. n \in Server /\ i \in 1 .. Len(disk[n])
    BY DEF Handle, CallsRight
<1>2. i \in 1 .. Len(memory[n]) /\ k \in 1 .. Len(persister) /\ persister[k] = memory[n][i]
    BY <1>1 DEF OwnPersister
<1>3. memory' = [memory EXCEPT ![n] = [memory[n] EXCEPT ![i] = memory[n][i] \union {c}]]
    BY DEF Handle
<1>4. /\ memory[n] \in Seq(SUBSET Call) /\ memory[n][i] \union {c} \in SUBSET Call
      /\ persister \in Seq(SUBSET Call)
    BY <1>1, <1>2 DEF TypeOK
<1>5. /\ memory'[n] \in Seq(SUBSET Call) /\ Len(memory'[n]) = Len(memory[n])
      /\ \A j \in 1 .. Len(memory[n]) :
            memory'[n][j] = IF j = i THEN memory[n][i] \union {c} ELSE memory[n][j]
  <2>1. memory'[n] = [memory[n] EXCEPT ![i] = memory[n][i] \union {c}]
      BY <1>1, <1>3 DEF TypeOK
  <2> HIDE DEF n, i
  <2> QED BY <1>2, <1>4, <2>1, ExceptSeq
<1>6. persister' = [persister EXCEPT ![k] = memory[n][i] \union {c}]
    BY <1>2, <1>5 DEF Handle
<1>7. /\ persister' \in Seq(SUBSET Call) /\ Len(persister') = Len(persister)
      /\ \A j \in 1 .. Len(persister) :
            persister'[j] = IF j = k THEN persister[k] \union {c} ELSE persister[j]
  <2> HIDE DEF n, i, k
  <2> QED BY <1>2, <1>4, <1>6, ExceptSeq
<1>8. \A m \in Server \ {n} : memory'[m] = memory[m]
    BY <1>3 DEF TypeOK
<1>9. UNCHANGED <<servers, pc, instance, saved, disk, harness>>
    BY DEF Handle, netVars
<1>10. handler' = [handler EXCEPT ![c] = "done"] /\ handler[c] = "running"
    BY DEF Handle
<1> HIDE DEF n, i, k
<1>11. TypeOK'
  <2>1. memory' \in [Server -> Seq(SUBSET Call)]
      BY <1>1, <1>3, <1>5, <1>8 DEF TypeOK
  <2> QED BY <1>7, <1>9, <1>10, <2>1 DEF TypeOK
<1>12. OwnPersister'
  <2>1. \A m \in Server : Len(memory'[m]) = Len(disk[m])
      BY <1>5, <1>8 DEF OwnPersister
  <2>2. ASSUME NEW m \in Server, NEW j \in 1 .. Len(disk[m])
        PROVE  persister'[disk[m][j]] = memory'[m][j]
    <3>1. CASE m = n /\ j = i
        BY <1>1, <1>2, <1>5, <1>7, <3>1 DEF k
    <3>2. CASE ~ (m = n /\ j = i)
      <4>1. disk[m][j] # k
          BY <1>1, <3>2 DEF OwnPersister, k
      <4>2. memory'[m][j] = memory[m][j]
          BY <1>5, <1>8, <3>2 DEF OwnPersister
      <4> QED BY <1>7, <4>1, <4>2 DEF OwnPersister
    <3> QED BY <3>1, <3>2
  <2> QED BY <1>7, <1>9, <2>1, <2>2 DEF OwnPersister
<1>13. FreshCopy' /\ NewestSaves'
    BY <1>9 DEF FreshCopy, NewestSaves
<1>14. CallsRight'
  <2> SUFFICES ASSUME NEW d \in Call
               PROVE  /\ pc[d] \in {"idle", "sent", "delayed"} => handler'[d] = "none"
                      /\ pc[d] \in {"delayed", "waiting", "received"} \/ handler'[d] # "none" =>
                            instance[d] \in 1 .. Len(disk[connections[d]])
                      /\ handler'[d] = "done" => d \in memory'[connections[d]][instance[d]]
                      /\ pc[d] = "received" => handler'[d] = "done"
      BY <1>9 DEF CallsRight
  <2>1. CASE d = c
      BY <1>1, <1>2, <1>5, <1>10, <2>1 DEF CallsRight, TypeOK, n, i
  <2>2. CASE d # c
    <3>1. handler'[d] = handler[d]
        BY <1>10, <2>2 DEF TypeOK
    <3>2. ASSUME handler[d] = "done" PROVE d \in memory'[connections[d]][instance[d]]
      <4>1. /\ connections[d] \in Server
            /\ instance[d] \in 1 .. Len(memory[connections[d]])
            /\ d \in memory[connections[d]][instance[d]]
          BY <3>2 DEF CallsRight, OwnPersister
      <4> QED BY <1>5, <1>8, <4>1
    <3> QED BY <3>1, <3>2 DEF CallsRight
  <2> QED BY <2>1, <2>2
<1>15. CheckedKept'
  <2> SUFFICES ASSUME NEW d \in Call, pc[d] \in {"checked", "true"}
               PROVE  saved[connections[d]] # 0 /\ d \in persister'[saved[connections[d]]]
      BY <1>9 DEF CheckedKept
  <2>1. saved[connections[d]] \in 1 .. Len(persister) /\ d \in persister[saved[connections[d]]]
      BY DEF CheckedKept, TypeOK
  <2> QED BY <1>7, <2>1
<1> QED BY <1>11, <1>12, <1>13, <1>14, <1>15

(* A copy is a persister nobody uses yet, with what the one before holds.  *)
LEMMA CopyStep ==
    ASSUME Inv, NEW n \in Server, CopyForStart(n) \/ CopyForShutdown(n)
    PROVE  Inv'
<1> DEFINE old == IF saved[n] = 0 THEN {} ELSE persister[saved[n]]
<1> USE LabrpcAssumption DEF Inv
<1>1. UNCHANGED <<servers, pc, instance, handler, disk, memory>>
    BY DEF CopyForStart, CopyForShutdown, netVars, callVars
<1>2. /\ persister' = Append(persister, old)
      /\ saved' = [saved EXCEPT ![n] = Len(persister) + 1]
    BY DEF CopyForStart, CopyForShutdown, FreshPersister
<1>3. /\ harness' = [harness EXCEPT ![n] = harness'[n]]
      /\ harness'[n] \in {"copied", "down"}
      /\ harness[n] \in {"down", "deleted"}
    BY DEF CopyForStart, CopyForShutdown, HarnessStep, TypeOK
<1>4. /\ persister \in Seq(SUBSET Call) /\ old \in SUBSET Call
      /\ Len(persister) \in Nat
    BY DEF TypeOK
<1>5. /\ persister' \in Seq(SUBSET Call) /\ Len(persister') = Len(persister) + 1
      /\ \A j \in 1 .. Len(persister) : persister'[j] = persister[j]
      /\ persister'[Len(persister) + 1] = old
  <2> HIDE DEF old
  <2> QED BY <1>2, <1>4, AppendProperties
<1> HIDE DEF old
<1>6. TypeOK'
  <2>1. saved' \in [Server -> 0 .. Len(persister')]
    <3>1. \A m \in Server : saved[m] \in 0 .. Len(persister) + 1
        BY <1>4 DEF TypeOK
    <3> QED BY <1>2, <1>4, <1>5, <3>1 DEF TypeOK
  <2>2. harness' \in [Server -> HarnessPhase]
      BY <1>3 DEF TypeOK, HarnessPhase
  <2> QED BY <1>1, <1>5, <2>1, <2>2 DEF TypeOK
<1>7. OwnPersister'
  <2>1. ASSUME NEW m \in Server, NEW j \in 1 .. Len(disk[m])
        PROVE  disk[m][j] \in 1 .. Len(persister') /\ persister'[disk[m][j]] = memory[m][j]
    <3>1. disk[m][j] \in 1 .. Len(persister) /\ persister[disk[m][j]] = memory[m][j]
        BY DEF OwnPersister
    <3> QED BY <1>4, <1>5, <3>1
  <2> QED BY <1>1, <2>1 DEF OwnPersister
<1>8. FreshCopy'
  <2>1. \A m \in Server : \A j \in 1 .. Len(disk[m]) : disk[m][j] # Len(persister) + 1
      BY <1>4 DEF OwnPersister
  <2>2. \A m \in Server : saved[m] # Len(persister) + 1
      BY <1>4 DEF TypeOK
  <2>3. /\ saved'[n] = Len(persister) + 1 /\ saved'[n] # 0
        /\ \A m \in Server \ {n} : saved'[m] = saved[m] /\ harness'[m] = harness[m]
      BY <1>2, <1>3, <1>4 DEF TypeOK
  <2> QED BY <1>1, <2>1, <2>2, <2>3 DEF FreshCopy
<1>9. NewestSaves'
    BY <1>1, <1>2, <1>3 DEF NewestSaves, TypeOK
<1>10. CallsRight'
    BY <1>1 DEF CallsRight
<1>11. CheckedKept'
  <2> SUFFICES ASSUME NEW d \in Call, pc[d] \in {"checked", "true"}
               PROVE  saved'[connections[d]] # 0 /\ d \in persister'[saved'[connections[d]]]
      BY <1>1 DEF CheckedKept
  <2>1. /\ saved[connections[d]] \in 1 .. Len(persister)
        /\ d \in persister[saved[connections[d]]]
      BY DEF CheckedKept, TypeOK
  <2>2. CASE connections[d] = n
      BY <1>2, <1>4, <1>5, <2>1, <2>2 DEF TypeOK, old
  <2>3. CASE connections[d] # n
      BY <1>2, <1>5, <2>1, <2>3 DEF TypeOK
  <2> QED BY <2>2, <2>3
<1> QED BY <1>6, <1>7, <1>8, <1>9, <1>10, <1>11

(* A new instance takes the copy made for it. *)
LEMMA BootStep ==
    ASSUME Inv, NEW n \in Server, Boot(n)
    PROVE  Inv'
<1> DEFINE last == Len(disk[n]) + 1
<1> USE LabrpcAssumption DEF Inv
<1>1. UNCHANGED <<servers, pc, instance, handler, persister, saved>>
    BY DEF Boot, netVars, callVars
<1>2. harness[n] = "copied" /\ harness' = [harness EXCEPT ![n] = "booted"]
    BY DEF Boot, HarnessStep
<1>3. /\ saved[n] \in 1 .. Len(persister) /\ persister[saved[n]] \in SUBSET Call
      /\ \A m \in Server : \A j \in 1 .. Len(disk[m]) : disk[m][j] # saved[n]
  <2>1. /\ saved[n] # 0
        /\ \A m \in Server : \A j \in 1 .. Len(disk[m]) : disk[m][j] # saved[n]
      BY <1>2 DEF FreshCopy
  <2>2. saved[n] \in 1 .. Len(persister)
      BY <2>1 DEF TypeOK
  <2> QED BY <2>1, <2>2 DEF TypeOK
<1>4. /\ disk[n] \in Seq(Nat) /\ memory[n] \in Seq(SUBSET Call)
      /\ Len(memory[n]) = Len(disk[n]) /\ Len(disk[n]) \in Nat
    BY DEF TypeOK, OwnPersister
<1>5. /\ disk' = [disk EXCEPT ![n] = Append(disk[n], saved[n])]
      /\ memory' = [memory EXCEPT ![n] = Append(memory[n], persister[saved[n]])]
    BY DEF Boot
<1>6. /\ disk'[n] = Append(disk[n], saved[n])
      /\ memory'[n] = Append(memory[n], persister[saved[n]])
      /\ \A m \in Server \ {n} : disk'[m] = disk[m] /\ memory'[m] = memory[m]
    BY <1>5 DEF TypeOK
<1>7. /\ disk'[n] \in Seq(Nat) /\ Len(disk'[n]) = last /\ disk'[n][last] = saved[n]
      /\ \A j \in 1 .. Len(disk[n]) : disk'[n][j] = disk[n][j]
    BY <1>3, <1>4, <1>6, AppendProperties
<1>8. /\ memory'[n] \in Seq(SUBSET Call) /\ Len(memory'[n]) = last
      /\ memory'[n][last] = persister[saved[n]]
      /\ \A j \in 1 .. Len(disk[n]) : memory'[n][j] = memory[n][j]
    BY <1>3, <1>4, <1>6, AppendProperties
<1>9. TypeOK'
    BY <1>1, <1>2, <1>5, <1>7, <1>8, <1>6 DEF TypeOK, HarnessPhase
<1>10. \A m \in Server : \A j \in 1 .. Len(disk'[m]) :
          IF m = n /\ j = last
          THEN disk'[m][j] = saved[n] /\ memory'[m][j] = persister[saved[n]]
          ELSE /\ j \in 1 .. Len(disk[m])
               /\ disk'[m][j] = disk[m][j] /\ memory'[m][j] = memory[m][j]
  <2> SUFFICES ASSUME NEW m \in Server, NEW j \in 1 .. Len(disk'[m])
               PROVE  IF m = n /\ j = last
                      THEN disk'[m][j] = saved[n] /\ memory'[m][j] = persister[saved[n]]
                      ELSE /\ j \in 1 .. Len(disk[m])
                           /\ disk'[m][j] = disk[m][j] /\ memory'[m][j] = memory[m][j]
      OBVIOUS
  <2>1. CASE m = n /\ j = last
      BY <1>7, <1>8, <2>1
  <2>2. CASE m = n /\ j # last
    <3>1. j \in 1 .. Len(disk[n])
        BY <1>4, <1>7, <2>2
    <3> QED BY <1>7, <1>8, <2>2, <3>1
  <2>3. CASE m # n
      BY <1>6, <2>3
  <2> QED BY <2>1, <2>2, <2>3
<1> HIDE DEF last
<1>11. OwnPersister'
  <2>1. \A m \in Server : Len(memory'[m]) = Len(disk'[m])
      BY <1>6, <1>7, <1>8 DEF OwnPersister
  <2>2. ASSUME NEW m \in Server, NEW j \in 1 .. Len(disk'[m])
        PROVE  disk'[m][j] \in 1 .. Len(persister) /\ persister[disk'[m][j]] = memory'[m][j]
      BY <1>3, <1>10 DEF OwnPersister
  <2>3. ASSUME NEW m \in Server, NEW q \in Server, NEW i \in 1 .. Len(disk'[m]),
               NEW j \in 1 .. Len(disk'[q]), disk'[m][i] = disk'[q][j]
        PROVE  m = q /\ i = j
      BY <1>3, <1>10, <2>3 DEF OwnPersister
  <2> QED BY <1>1, <2>1, <2>2, <2>3 DEF OwnPersister
<1>12. FreshCopy'
  <2>1. \A m \in Server : harness'[m] = "copied" => m # n /\ harness[m] = "copied"
      BY <1>2 DEF TypeOK
  <2> QED BY <1>1, <1>3, <1>10, <2>1 DEF FreshCopy
<1>13. NewestSaves'
  <2>1. servers[n] = 0
      BY <1>2 DEF NewestSaves
  <2>2. \A m \in Server \ {n} : harness'[m] = harness[m]
      BY <1>2 DEF TypeOK
  <2>3. Len(disk'[n]) # 0
      BY <1>4, <1>7 DEF last
  <2> QED BY <1>1, <1>6, <1>7, <2>1, <2>2, <2>3 DEF NewestSaves
<1>14. CallsRight'
  <2>1. ASSUME NEW m \in Server, NEW j \in 1 .. Len(disk[m])
        PROVE  j \in 1 .. Len(disk'[m]) /\ memory'[m][j] = memory[m][j]
    <3>1. CASE m = n
      <4>1. j \in 1 .. last
          BY <1>4, <3>1 DEF last
      <4> QED BY <1>7, <1>8, <3>1, <4>1
    <3>2. CASE m # n
        BY <1>6, <3>2
    <3> QED BY <3>1, <3>2
  <2> QED BY <1>1, <2>1 DEF CallsRight
<1>15. CheckedKept'
    BY <1>1 DEF CheckedKept
<1> QED BY <1>9, <1>11, <1>12, <1>13, <1>14, <1>15

(* The other steps of the harness only move names and ends. *)
LEMMA NameStep ==
    ASSUME Inv, NEW n \in Server, AddServer(n) \/ Disconnect(n) \/ DeleteServer(n)
    PROVE  Inv'
<1> USE LabrpcAssumption DEF Inv
<1>1. UNCHANGED <<callVars, diskVars>>
    BY DEF AddServer, Disconnect, DeleteServer
<1>2. OwnPersister' /\ CallsRight' /\ CheckedKept'
    BY <1>1 DEF callVars, diskVars, OwnPersister, CallsRight, CheckedKept
<1>3. CASE AddServer(n)
  <2>1. /\ harness[n] = "booted" /\ harness' = [harness EXCEPT ![n] = "up"]
        /\ servers' = [servers EXCEPT ![n] = Len(disk[n])]
      BY <1>3 DEF AddServer, HarnessStep
  <2>2. Len(disk[n]) \in Nat
      BY DEF TypeOK
  <2>3. TypeOK'
      BY <1>1, <2>1, <2>2 DEF TypeOK, HarnessPhase, callVars, diskVars
  <2>4. FreshCopy'
      BY <1>1, <2>1 DEF TypeOK, FreshCopy, diskVars
  <2>5. NewestSaves'
      BY <1>1, <2>1 DEF TypeOK, NewestSaves, diskVars
  <2> QED BY <1>2, <2>3, <2>4, <2>5
<1>4. CASE Disconnect(n)
  <2>1. /\ harness[n] = "up" /\ harness' = [harness EXCEPT ![n] = "isolated"]
        /\ servers' = servers
      BY <1>4 DEF Disconnect, HarnessStep
  <2>2. TypeOK' /\ FreshCopy' /\ NewestSaves'
      BY <1>1, <2>1 DEF TypeOK, HarnessPhase, FreshCopy, NewestSaves, callVars, diskVars
  <2> QED BY <1>2, <2>2
<1>5. CASE DeleteServer(n)
  <2>1. /\ harness[n] = "isolated" /\ harness' = [harness EXCEPT ![n] = "deleted"]
        /\ servers' = [servers EXCEPT ![n] = 0]
      BY <1>5 DEF DeleteServer, HarnessStep
  <2>2. TypeOK' /\ FreshCopy' /\ NewestSaves'
      BY <1>1, <2>1 DEF TypeOK, HarnessPhase, FreshCopy, NewestSaves, callVars, diskVars
  <2> QED BY <1>2, <2>2
<1> QED BY <1>3, <1>4, <1>5

LEMMA NextInv == Inv /\ [Next]_vars => Inv'
<1> SUFFICES ASSUME Inv, [Next]_vars PROVE Inv'
    OBVIOUS
<1>1. CASE \E c \in Call : CallSend(c) \/ NetworkStep(c) \/ Handle(c)
    BY <1>1, CallStep, HandleStep
<1>2. CASE \E n \in Server : Shutdown(n) \/ Start(n)
    BY <1>2, CopyStep, BootStep, NameStep DEF Shutdown, Start
<1>3. CASE (\E c \in Call, yes \in BOOLEAN : Enable(c, yes)) \/ UNCHANGED vars
  <2>1. UNCHANGED <<servers, callVars, diskVars, harness>>
      BY <1>3 DEF Enable, vars, netVars
  <2> QED BY <2>1 DEF callVars, diskVars, Inv, TypeOK, OwnPersister, FreshCopy, NewestSaves,
                      CallsRight, CheckedKept
<1> QED BY <1>1, <1>2, <1>3 DEF Next

(* Labrpc keeps the invariant, whatever the servers and the calls are. *)
THEOREM Invariance == Spec => []Inv
<1> QED BY InitInv, NextInv, PTL DEF Spec

(* What processReq lets a caller know to be written is what the next       *)
(* instance of the server starts with: the check after the handler and     *)
(* DeleteServer before the copy suffice, for any number of servers, calls  *)
(* and restarts.                                                           *)
THEOREM PositiveReplyKeptTheorem == Spec => []PositiveReplyKept
<1>1. Inv => PositiveReplyKept
    BY DEF Inv, CheckedKept, PositiveReplyKept
<1> QED BY <1>1, Invariance, PTL
=============================================================================
