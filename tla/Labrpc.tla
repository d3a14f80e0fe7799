------------------------------- MODULE Labrpc --------------------------------
(***************************************************************************)
(* The simulated network, and the test harness that kills and restarts     *)
(* servers under it.  A killed server cannot really be stopped: the        *)
(* network and the harness see to it that nobody hears of it any more and  *)
(* that what it still saves is not what its successor starts with.         *)
(*                                                                         *)
(* The handlers are those of a service that saves what it is asked to      *)
(* write before it answers.  What is encoded and by which method a request *)
(* is handled is left out.                                                 *)
(***************************************************************************)
EXTENDS Integers, Sequences, FiniteSets

CONSTANTS Server,      \* server names
          Call,        \* the calls that clients and other servers make
          connections, \* the server that the end of a call is connected to
          PeerCall,    \* the calls over the ends of other servers
          MaxStarts    \* bound: instances of a server

ASSUME LabrpcAssumption ==
    /\ connections \in [Call -> Server]
    /\ PeerCall \subseteq Call
    /\ MaxStarts \in Nat \ {0}

VARIABLES
    (* the network *)
    enabled,   \* the ends, one for each call
    servers,   \* the instance that has a server's name, or 0
    (* the calls *)
    pc,        \* how far processReq and Call have come
    instance,  \* the instance the request is for
    handler,   \* of the request: "none", "running", "done"
    (* the servers and the harness *)
    harness,   \* what the harness does with a server
    persister, \* the persisters that were ever made: what was written
    saved,     \* the persister the next instance is to start with, or 0
    disk,      \* the persister each instance uses
    memory     \* what each instance knows to be written

netVars == <<enabled, servers>>
callVars == <<pc, instance, handler>>
diskVars == <<persister, saved, disk, memory>>
vars == <<netVars, callVars, diskVars, harness>>

Results == {"true", "false"}

(* MakeNetwork, MakeEnd and Connect; no server has been started. *)
Init ==
    /\ enabled = [c \in Call |-> TRUE]
    /\ servers = [n \in Server |-> 0]
    /\ pc = [c \in Call |-> "idle"]
    /\ instance = [c \in Call |-> 0]
    /\ handler = [c \in Call |-> "none"]
    /\ harness = [n \in Server |-> "down"]
    /\ persister = <<>>
    /\ saved = [n \in Server |-> 0]
    /\ disk = [n \in Server |-> <<>>]
    /\ memory = [n \in Server |-> <<>>]

-----------------------------------------------------------------------------
(* Call and processReq.                                                    *)

Step(c, from, to) == pc[c] = from /\ pc' = [pc EXCEPT ![c] = to]

(* Call sends the request, and the network starts processReq. *)
CallSend(c) ==
    /\ Step(c, "idle", "sent")
    /\ UNCHANGED <<netVars, instance, handler, diskVars, harness>>

(* readEndnameInfo finds the end enabled and a server. *)
ReadEndnameInfo(c) ==
    /\ Step(c, "sent", "delayed")
    /\ enabled[c] /\ servers[connections[c]] # 0
    /\ instance' = [instance EXCEPT ![c] = servers[connections[c]]]
    /\ UNCHANGED <<netVars, handler, diskVars, harness>>

(* Or it does not, and after a while there is no reply. *)
Unreachable(c) ==
    /\ Step(c, "sent", "false")
    /\ ~ (enabled[c] /\ servers[connections[c]] # 0)
    /\ UNCHANGED <<netVars, instance, handler, diskVars, harness>>

(* An unreliable network delays the request, and drops it or not. *)
DropRequest(c) ==
    /\ Step(c, "delayed", "false")
    /\ UNCHANGED <<netVars, instance, handler, diskVars, harness>>

Dispatch(c) ==
    /\ Step(c, "delayed", "waiting")
    /\ handler' = [handler EXCEPT ![c] = "running"]
    /\ UNCHANGED <<netVars, instance, diskVars, harness>>

(* The handler of the instance, killed or not, saves what it is asked to   *)
(* write to the instance's persister, and returns.  It may never do so.    *)
Handle(c) ==
    LET n == connections[c]
        i == instance[c]
    IN
    /\ handler[c] = "running"
    /\ handler' = [handler EXCEPT ![c] = "done"]
    /\ memory' = [memory EXCEPT ![n][i] = @ \union {c}]
    /\ persister' = [persister EXCEPT ![disk[n][i]] = memory'[n][i]]
    /\ UNCHANGED <<netVars, pc, instance, saved, disk, harness>>

(* Slip: a server that was replaced does not count as dead. *)
IsServerGone(c) == ~ enabled[c] \/ servers[connections[c]] = 0

IsServerDead(c) == ~ enabled[c] \/ servers[connections[c]] # instance[c]

(* The wait ends with the handler's reply ... *)
Received(c) ==
    /\ Step(c, "waiting", "received")
    /\ handler[c] = "done"
    /\ UNCHANGED <<netVars, instance, handler, diskVars, harness>>

(* ... or when the server turns out to be dead. *)
FoundDead(c) ==
    /\ Step(c, "waiting", "false")
    /\ IsServerDead(c)
    /\ UNCHANGED <<netVars, instance, handler, diskVars, harness>>

(* Slip: the reply is good whoever gave it. *)
CheckNothing(c) ==
    /\ Step(c, "received", "checked")
    /\ UNCHANGED <<netVars, instance, handler, diskVars, harness>>

(* The reply of a server that is dead by now is not a reply. *)
CheckReply(c) ==
    /\ Step(c, "received", IF IsServerDead(c) THEN "false" ELSE "checked")
    /\ UNCHANGED <<netVars, instance, handler, diskVars, harness>>

(* The reply is dropped, or sent at once or after a long delay. *)
Reply(c, ok) ==
    /\ Step(c, "checked", ok)
    /\ UNCHANGED <<netVars, instance, handler, diskVars, harness>>

-----------------------------------------------------------------------------
(* The harness: ShutdownServer and StartServer.                            *)

HarnessStep(n, from, to) == harness[n] = from /\ harness' = [harness EXCEPT ![n] = to]

(* A fresh persister with what the last one holds, or with nothing. *)
FreshPersister(n) ==
    /\ persister' = Append(persister, IF saved[n] = 0 THEN {} ELSE persister[saved[n]])
    /\ saved' = [saved EXCEPT ![n] = Len(persister) + 1]

(* StartServer makes the persister, ... *)
CopyForStart(n) ==
    /\ Len(disk[n]) < MaxStarts
    /\ HarnessStep(n, "down", "copied")
    /\ FreshPersister(n)
    /\ UNCHANGED <<netVars, callVars, disk, memory>>

(* ... has the new instance read it, ... *)
Boot(n) ==
    /\ HarnessStep(n, "copied", "booted")
    /\ disk' = [disk EXCEPT ![n] = Append(@, saved[n])]
    /\ memory' = [memory EXCEPT ![n] = Append(@, persister[saved[n]])]
    /\ UNCHANGED <<netVars, callVars, persister, saved>>

(* ... and gives it the server's name. *)
AddServer(n) ==
    /\ HarnessStep(n, "booted", "up")
    /\ servers' = [servers EXCEPT ![n] = Len(disk[n])]
    /\ UNCHANGED <<enabled, callVars, diskVars>>

(* ShutdownServer cuts the server off from the other servers, ... *)
Disconnect(n) ==
    /\ HarnessStep(n, "up", "isolated")
    /\ enabled' = [c \in Call |-> enabled[c] /\ ~ (c \in PeerCall /\ connections[c] = n)]
    /\ UNCHANGED <<servers, callVars, diskVars>>

(* ... takes its name away, ... *)
DeleteServer(n) ==
    /\ HarnessStep(n, "isolated", "deleted")
    /\ servers' = [servers EXCEPT ![n] = 0]
    /\ UNCHANGED <<enabled, callVars, diskVars>>

(* ... and sees to it that nobody starts with what the old instance saves  *)
(* from now on.                                                            *)
CopyForShutdown(n) ==
    /\ HarnessStep(n, "deleted", "down")
    /\ FreshPersister(n)
    /\ UNCHANGED <<netVars, callVars, disk, memory>>

(* connect, disconnect, partition, ConnectClient and DisconnectClient,     *)
(* which do not come between the steps of ShutdownServer.                  *)
Enable(c, yes) ==
    /\ \A n \in Server : harness[n] \notin {"isolated", "deleted"}
    /\ enabled[c] # yes
    /\ enabled' = [enabled EXCEPT ![c] = yes]
    /\ UNCHANGED <<servers, callVars, diskVars, harness>>

-----------------------------------------------------------------------------
(* What the network does about a call by itself. *)
NetworkStep(c) ==
    \/ ReadEndnameInfo(c) \/ Unreachable(c)
    \/ DropRequest(c) \/ Dispatch(c)
    \/ Received(c) \/ FoundDead(c)
    \/ CheckReply(c) \/ (\E ok \in Results : Reply(c, ok))

Shutdown(n) == Disconnect(n) \/ DeleteServer(n) \/ CopyForShutdown(n)

Start(n) == CopyForStart(n) \/ Boot(n) \/ AddServer(n)

Next ==
    \/ \E c \in Call : CallSend(c) \/ NetworkStep(c) \/ Handle(c)
    \/ \E c \in Call, yes \in BOOLEAN : Enable(c, yes)
    \/ \E n \in Server : Shutdown(n) \/ Start(n)

Spec == Init /\ [][Next]_vars

(* Fairness: the goroutines of the network run.  Handlers may wait for     *)
(* ever, and so may the harness.                                           *)
FairSpec == Spec /\ \A c \in Call : WF_vars(NetworkStep(c))

-----------------------------------------------------------------------------
(* Properties                                                              *)

(* What a positive reply says is written is in the persister the next      *)
(* instance of the server starts with, although the handler may have run   *)
(* while the server was replaced: processReq looks for DeleteServer after  *)
(* the handler has returned, and ShutdownServer calls it before it copies  *)
(* the persister.                                                          *)
PositiveReplyKept ==
    \A c \in Call : pc[c] = "true" => c \in persister[saved[connections[c]]]

(* A call to an instance that has been replaced or taken down returns,     *)
(* also when its handler never does.                                       *)
DeadServerAnswered ==
    \A c \in Call :
        (pc[c] = "waiting" /\ servers[connections[c]] # instance[c]) ~> pc[c] \in Results
=============================================================================
