------------------------------ MODULE MapReduce ------------------------------
(***************************************************************************)
(* The MapReduce of src/mr: a coordinator that hands out map tasks and     *)
(* then reduce tasks, recovers those not finished in time, and workers     *)
(* that do them and leave files for each other, and may crash at any time. *)
(*                                                                         *)
(* Handlers and timeout goroutines of the coordinator are one critical     *)
(* section of c.Mutex each.  The main goroutine calls Done without it, and *)
(* reads one task per step.  Coordinator and workers are on one machine:   *)
(* calls are lost only with the process that makes or serves them.         *)
(***************************************************************************)
EXTENDS Integers

CONSTANTS Worker,   \* worker processes
          NMap,     \* number of input files
          NReduce   \* nReduce

ASSUME TaskAssumption == NMap \in Nat /\ NReduce \in Nat \ {0}

MapTasks    == {"map"} \X (0..NMap - 1)
ReduceTasks == {"reduce"} \X (0..NReduce - 1)
Task        == MapTasks \cup ReduceTasks

VARIABLES State,         \* task.State
          mapTasksDone,  \* c.mapTasksDone
          done,          \* c.done
          timers,        \* goroutines waiting for the timeout of a task
          phase,         \* what each worker, and the call it makes, is at
          task,          \* the task a worker was given last
          next,          \* the file of its task a worker handles next
          alive,         \* whether the worker process is alive
          main,          \* main/mrcoordinator: polling, lingering, exited
          polled,        \* the reduce task Done looks at in main
          intermediate,  \* mr-X-Y.m files
          output         \* mr-out-Y.r files

coordinatorVars == <<State, mapTasksDone, done, timers>>
workerVars      == <<phase, task, next>>
mainVars        == <<main, polled>>
files           == <<intermediate, output>>
vars == <<coordinatorVars, workerVars, mainVars, files, alive>>

(* A worker is calling FetchTask, waits inside that call on c.Cond, works   *)
(* on a task, calls MapTaskFinished or ReduceTaskFinished, has returned, or *)
(* has stopped in log.Fatalf for want of a file.                            *)
Phase == {"fetch", "wait", "work", "finish", "returned", "fatal"}

Init ==
    /\ State = [t \in Task |-> "WAITTING"]
    /\ mapTasksDone = FALSE
    /\ done = FALSE
    /\ timers = [t \in Task |-> 0]
    /\ phase = [w \in Worker |-> "fetch"]
    /\ task = [w \in Worker |-> <<"reduce", 0>>]
    /\ next = [w \in Worker |-> 0]
    /\ alive = [w \in Worker |-> TRUE]
    /\ main = "polling"
    /\ polled = 0
    /\ intermediate = {}
    /\ output = {}

Serving == main # "exited"

(* Slip: a task that has been handed out counts as finished. *)
NoneWaiting(tasks, st) == \A t \in tasks : st[t] # "WAITTING"

AllFinished(tasks, st) == \A t \in tasks : st[t] = "FINISHED"

(* What MapTasksDone and Done return, and remember, in task states st. *)
MapTasksDone(st) == mapTasksDone \/ AllFinished(MapTasks, st)
Done(st)         == done \/ AllFinished(ReduceTasks, st)

(* p with every worker in Cond.Wait awake. *)
Broadcast(p) == [w \in Worker |-> IF p[w] = "wait" THEN "fetch" ELSE p[w]]

(* fetchMapTask, fetchReduceTask: t is the first task to hand out. *)
FirstWaiting(tasks, t) ==
    /\ t \in tasks
    /\ State[t] = "WAITTING"
    /\ \A u \in tasks : State[u] = "WAITTING" => t[2] <= u[2]

(* Slip: reduce tasks are handed out when no map task is left to hand out. *)
EitherPhase(mapsDone) == Task

(* The tasks FetchTask looks for one in. *)
Current(mapsDone) == IF mapsDone THEN ReduceTasks ELSE MapTasks

(* Slip: no timeout is started. *)
StartedUntimed(t) ==
    /\ State' = [State EXCEPT ![t] = "STARTED"]
    /\ UNCHANGED timers

(* mapTaskStarted, reduceTaskStarted. *)
Started(t) ==
    /\ State' = [State EXCEPT ![t] = "STARTED"]
    /\ timers' = [timers EXCEPT ![t] = @ + 1]

(* FetchTask up to its return or the next Cond.Wait.  A call that wakes up  *)
(* in the second loop passes the first as it did before, since              *)
(* mapTasksDone stays set.                                                  *)
FetchTask(w) ==
    LET mapsDone == MapTasksDone(State)
        finished == mapsDone /\ Done(State)
        tasks    == Current(mapsDone)
    IN  /\ Serving
        /\ phase[w] = "fetch"
        /\ mapTasksDone' = mapsDone
        /\ done' = IF mapsDone THEN Done(State) ELSE done
        /\ \/ /\ finished
              /\ phase' = [phase EXCEPT ![w] = "returned"]
              /\ UNCHANGED <<State, timers, task, next>>
           \/ /\ ~finished
              /\ \E t \in tasks :
                    /\ FirstWaiting(tasks, t)
                    /\ Started(t)
                    /\ phase' = [phase EXCEPT ![w] = "work"]
                    /\ task' = [task EXCEPT ![w] = t]
                    /\ next' = [next EXCEPT ![w] = 0]
           \/ /\ ~finished
              /\ \A t \in tasks : State[t] # "WAITTING"
              /\ phase' = [phase EXCEPT ![w] = "wait"]
              /\ UNCHANGED <<State, timers, task, next>>
        /\ UNCHANGED <<mainVars, files, alive>>

(* Slip: the timeout does not look whether the task has been finished. *)
AlwaysLate(t) == TRUE

(* Slip: the timeout recovers only tasks nobody has been given. *)
StillWaiting(t) == State[t] = "WAITTING"

(* The timeout finds the task unfinished. *)
Late(t) == State[t] # "FINISHED"

(* The timeout goroutine of mapTaskStarted and reduceTaskStarted. *)
Recover(t) ==
    /\ Serving
    /\ timers[t] > 0
    /\ timers' = [timers EXCEPT ![t] = @ - 1]
    /\ State' = [State EXCEPT ![t] = IF Late(t) THEN "WAITTING" ELSE @]
    /\ phase' = IF Late(t) THEN Broadcast(phase) ELSE phase
    /\ UNCHANGED <<mapTasksDone, done, task, next, mainVars, files, alive>>

(* Slip: nobody is told that the map tasks are done. *)
WakeOnDone(t, st) == t \in ReduceTasks /\ Done(st)

(* Whether finishing t, which leaves st, wakes the waiting calls. *)
WakesAll(t, st) == IF t \in MapTasks THEN MapTasksDone(st) ELSE Done(st)

(* MapTaskFinished, ReduceTaskFinished, and the return of the call. *)
TaskFinished(w) ==
    LET t    == task[w]
        st   == [State EXCEPT ![t] = "FINISHED"]
        back == [phase EXCEPT ![w] = "fetch"]
    IN  /\ Serving
        /\ phase[w] = "finish"
        /\ State' = st
        /\ mapTasksDone' = IF t \in MapTasks THEN MapTasksDone(st) ELSE mapTasksDone
        /\ done' = IF t \in ReduceTasks THEN Done(st) ELSE done
        /\ phase' = IF WakesAll(t, st) THEN Broadcast(back) ELSE back
        /\ UNCHANGED <<timers, task, next, mainVars, files, alive>>

-----------------------------------------------------------------------------
(* Workers (worker.go).                                                     *)

(* Slip: the worker goes on past the last file. *)
OneMore(n) == n <= NReduce

(* The loop of doMapTask over the partitions goes on. *)
MorePartitions(n) == n < NReduce

(* An iteration of that loop, whose rename makes a file appear at once. *)
WritePartition(w) ==
    /\ phase[w] = "work"
    /\ task[w] \in MapTasks
    /\ MorePartitions(next[w])
    /\ intermediate' = intermediate \cup {<<task[w][2], next[w]>>}
    /\ next' = [next EXCEPT ![w] = @ + 1]
    /\ UNCHANGED <<coordinatorVars, phase, task, mainVars, output, alive>>

(* doMapTask calls callMapTaskFinished. *)
EndMapTask(w) ==
    /\ phase[w] = "work"
    /\ task[w] \in MapTasks
    /\ ~MorePartitions(next[w])
    /\ phase' = [phase EXCEPT ![w] = "finish"]
    /\ UNCHANGED <<coordinatorVars, task, next, mainVars, files, alive>>

(* doReduceTask reads the file of one map task, or stops without it. *)
ReadPartition(w) ==
    LET found == <<next[w], task[w][2]>> \in intermediate
    IN  /\ phase[w] = "work"
        /\ task[w] \in ReduceTasks
        /\ next[w] < NMap
        /\ phase' = [phase EXCEPT ![w] = IF found THEN @ ELSE "fatal"]
        /\ next' = [next EXCEPT ![w] = IF found THEN @ + 1 ELSE @]
        /\ UNCHANGED <<coordinatorVars, task, mainVars, files, alive>>

(* The rest of doReduceTask, up to callReduceTaskFinished. *)
WriteOutput(w) ==
    /\ phase[w] = "work"
    /\ task[w] \in ReduceTasks
    /\ next[w] >= NMap
    /\ output' = output \cup {task[w][2]}
    /\ phase' = [phase EXCEPT ![w] = "finish"]
    /\ UNCHANGED <<coordinatorVars, task, next, mainVars, intermediate, alive>>

(* A call to a coordinator that has exited fails, and the next one cannot   *)
(* even connect: log.Fatal in call.                                         *)
CannotCall(w) ==
    /\ ~Serving
    /\ phase[w] \in {"fetch", "wait", "finish"}
    /\ phase' = [phase EXCEPT ![w] = "returned"]
    /\ UNCHANGED <<coordinatorVars, task, next, mainVars, files, alive>>

(* The worker process dies.  The coordinator goes on with a call it had     *)
(* received, and may give the dead worker a task.                           *)
Crash(w) ==
    /\ alive[w]
    /\ phase[w] \notin {"returned", "fatal"}
    /\ alive' = [alive EXCEPT ![w] = FALSE]
    /\ UNCHANGED <<coordinatorVars, workerVars, mainVars, files>>

Handler(w) == FetchTask(w) \/ TaskFinished(w)

Work(w) ==
    /\ alive[w]
    /\ \/ WritePartition(w) \/ EndMapTask(w)
       \/ ReadPartition(w) \/ WriteOutput(w)
       \/ CannotCall(w)

-----------------------------------------------------------------------------
(* main of mrcoordinator.go, with its unlocked calls of Done.               *)

(* One step of Done: c.done at first, then one reduce task after another,   *)
(* starting over a second after one that is not finished.                   *)
Poll ==
    /\ main = "polling"
    /\ \/ /\ polled = 0 /\ done
          /\ main' = "lingering"
          /\ UNCHANGED <<polled, done>>
       \/ /\ polled < NReduce
          /\ polled = 0 => ~done
          /\ polled' = IF State[<<"reduce", polled>>] = "FINISHED" THEN polled + 1 ELSE 0
          /\ UNCHANGED <<main, done>>
       \/ /\ polled = NReduce
          /\ done' = TRUE
          /\ main' = "lingering"
          /\ UNCHANGED polled
    /\ UNCHANGED <<State, mapTasksDone, timers, workerVars, files, alive>>

(* The process ends after another second. *)
Exit ==
    /\ main = "lingering"
    /\ main' = "exited"
    /\ UNCHANGED <<coordinatorVars, workerVars, polled, files, alive>>

Next ==
    \/ \E w \in Worker : FetchTask(w)
    \/ \E w \in Worker : TaskFinished(w)
    \/ \E w \in Worker : Work(w)
    \/ \E w \in Worker : Crash(w)
    \/ \E t \in Task : Recover(t)
    \/ Poll
    \/ Exit

(* Timeouts fire, main polls, and a worker that is alive goes on, its calls *)
(* included.  Nothing is assumed of the calls of dead workers.              *)
Fairness ==
    /\ \A w \in Worker : WF_vars(alive[w] /\ Handler(w))
    /\ \A w \in Worker : WF_vars(Work(w))
    /\ \A t \in Task : WF_vars(Recover(t))
    /\ WF_vars(Poll)
    /\ WF_vars(Exit)

Spec == Init /\ [][Next]_vars

FairSpec == Spec /\ Fairness
-----------------------------------------------------------------------------
(* Properties.                                                              *)

(* Types; file indexes stay inside what the tasks of the job can name.      *)
TypeOK ==
    /\ State \in [Task -> {"WAITTING", "STARTED", "FINISHED"}]
    /\ mapTasksDone \in BOOLEAN
    /\ done \in BOOLEAN
    /\ timers \in [Task -> Nat]
    /\ phase \in [Worker -> Phase]
    /\ task \in [Worker -> Task]
    /\ next \in [Worker -> Nat]
    /\ alive \in [Worker -> BOOLEAN]
    /\ main \in {"polling", "lingering", "exited"}
    /\ polled \in 0..NReduce
    /\ intermediate \subseteq (0..NMap - 1) \X (0..NReduce - 1)
    /\ output \subseteq 0..NReduce - 1

(* A task that has been reported finished is never handed out again, also   *)
(* when its timeout fires late or a second worker was given it meanwhile    *)
(* (the recovery goroutines against MapTaskFinished, ReduceTaskFinished).   *)
FinishedForGood ==
    [][\A t \in Task : State[t] = "FINISHED" => State'[t] = "FINISHED"]_vars

(* No worker stops in log.Fatalf because an intermediate file is missing:   *)
(* the files of all map tasks are complete before a reduce task starts,     *)
(* whatever workers crashed or were overtaken on the way (FetchTask,        *)
(* doMapTask, doReduceTask).                                                *)
NoMissingInput == \A w \in Worker : phase[w] # "fatal"

(* The coordinator leaves its loop only when every output file is there,    *)
(* although Done reads the states without the lock (main, Done).            *)
OutputComplete == main # "polling" => output = 0..NReduce - 1

(* A call sleeps on c.Cond only while there is no task for it and the job   *)
(* is not done: whatever changes that broadcasts (FetchTask).               *)
NoLostWakeup ==
    (\E w \in Worker : phase[w] = "wait") =>
        LET mapsDone == MapTasksDone(State)
        IN  /\ \A t \in Current(mapsDone) : State[t] # "WAITTING"
            /\ mapsDone => ~AllFinished(ReduceTasks, State)

(* Every task that is handed out and not finished has exactly one timeout   *)
(* running, and one that waits to be handed out has none, so timeouts       *)
(* neither get lost nor pile up (mapTaskStarted, reduceTaskStarted).        *)
OneTimeout ==
    \A t \in Task : /\ State[t] = "STARTED" => timers[t] = 1
                    /\ State[t] = "WAITTING" => timers[t] = 0

(* If some worker does not crash, the job ends: the coordinator exits with  *)
(* every output file written, and every worker that is alive has returned.  *)
JobEnds ==
    (\E w \in Worker : []alive[w]) =>
        <>(/\ main = "exited"
           /\ output = 0..NReduce - 1
           /\ \A w \in Worker : alive[w] => phase[w] = "returned")
=============================================================================
