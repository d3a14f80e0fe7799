-------------------------- MODULE MapReduceProofs --------------------------
(***************************************************************************)
(* Proofs about MapReduce, for any number of workers, map tasks and reduce *)
(* tasks.                                                                  *)
(***************************************************************************)
EXTENDS MapReduce, TLAPS

-----------------------------------------------------------------------------
(* The inductive invariant.                                                 *)

(* What the coordinator remembers is so. *)
FlagsRight ==
    /\ mapTasksDone => AllFinished(MapTasks, State)
    /\ done => AllFinished(ReduceTasks, State)

(* Map task m has left all its files. *)
Mapped(m) == \A r \in 0..NReduce - 1 : <<m, r>> \in intermediate

(* A map task leaves its files in order, and all of them before it is       *)
(* finished.                                                                *)
MapFiles ==
    /\ \A m \in 0..NMap - 1 : State[<<"map", m>>] = "FINISHED" => Mapped(m)
    /\ \A w \in Worker, m \in 0..NMap - 1 : task[w] = <<"map", m>> =>
          /\ phase[w] = "work" =>
                \A r \in 0..NReduce - 1 : r < next[w] => <<m, r>> \in intermediate
          /\ phase[w] = "finish" => Mapped(m)

(* A reduce task is worked on after all map tasks are finished, and leaves  *)
(* its file before it is finished itself.                                   *)
ReduceFiles ==
    /\ \A r \in 0..NReduce - 1 : State[<<"reduce", r>>] = "FINISHED" => r \in output
    /\ \A w \in Worker, r \in 0..NReduce - 1 : task[w] = <<"reduce", r>> =>
          /\ phase[w] \in {"work", "finish"} => AllFinished(MapTasks, State)
          /\ phase[w] = "finish" => r \in output

(* The tasks main has looked at are finished. *)
PollRight ==
    /\ \A r \in 0..NReduce - 1 : r < polled => State[<<"reduce", r>>] = "FINISHED"
    /\ main # "polling" => AllFinished(ReduceTasks, State)

Inv ==
    /\ TypeOK
    /\ FlagsRight
    /\ MapFiles
    /\ ReduceFiles
    /\ PollRight
    /\ NoMissingInput
    /\ OneTimeout

(* Steps that finish no task and write no file: what the invariant says of  *)
(* tasks survives when finished tasks stay finished.                        *)
Stays == \A t \in Task : State[t] = "FINISHED" => State'[t] = "FINISHED"

-----------------------------------------------------------------------------
(* Tasks are pairs of a kind and a number. *)
LEMMA Tasks ==
    /\ \A m \in 0..NMap - 1 : <<"map", m>> \in MapTasks
    /\ \A r \in 0..NReduce - 1 : <<"reduce", r>> \in ReduceTasks
    /\ \A t \in MapTasks : t[2] \in 0..NMap - 1 /\ t = <<"map", t[2]>>
    /\ \A t \in ReduceTasks : t[2] \in 0..NReduce - 1 /\ t = <<"reduce", t[2]>>
    /\ \A t \in MapTasks : t \notin ReduceTasks
    /\ <<"reduce", 0>> \in ReduceTasks
  BY TaskAssumption DEF MapTasks, ReduceTasks

(* The initial state satisfies the invariant. *)
LEMMA InitInv == Init => Inv
  <1> SUFFICES ASSUME Init PROVE Inv
    OBVIOUS
  <1>a. mapTasksDone \in BOOLEAN /\ done \in BOOLEAN /\ alive \in [Worker -> BOOLEAN]
    BY Zenon DEF Init
  <1>b. /\ State \in [Task -> {"WAITTING", "STARTED", "FINISHED"}]
        /\ timers \in [Task -> Nat]
        /\ phase \in [Worker -> Phase]
        /\ task \in [Worker -> Task]
        /\ next \in [Worker -> Nat]
        /\ main \in {"polling", "lingering", "exited"}
        /\ polled \in 0..NReduce
    BY Tasks, TaskAssumption DEF Init, Phase, Task
  <1>1. TypeOK
    BY <1>a, <1>b DEF TypeOK, Init
  <1>2. FlagsRight /\ PollRight /\ NoMissingInput /\ OneTimeout
    BY Tasks, TaskAssumption DEF Init, FlagsRight, PollRight, NoMissingInput, OneTimeout, Task
  <1>3. MapFiles /\ ReduceFiles
    BY Tasks DEF Init, MapFiles, ReduceFiles, Task
  <1> QED
    BY <1>1, <1>2, <1>3 DEF Inv

(* What the invariant says of files and flags, when no file goes, finished  *)
(* tasks stay finished, and workers either keep their place or start over.  *)
LEMMA FilesStay ==
  ASSUME TypeOK, MapFiles, ReduceFiles, Stays,
         intermediate' = intermediate, output' = output, task' = task, next' = next,
         State' \in [Task -> {"WAITTING", "STARTED", "FINISHED"}],
         \A t \in Task : State'[t] = "FINISHED" => State[t] = "FINISHED",
         \A w \in Worker : phase'[w] \in {"work", "finish"} => phase'[w] = phase[w]
  PROVE  MapFiles' /\ ReduceFiles'
  <1>1. MapFiles'
    BY Tasks DEF MapFiles, Mapped, Task
  <1>2. ReduceFiles'
    BY Tasks DEF ReduceFiles, AllFinished, Stays, Task
  <1> QED
    BY <1>1, <1>2

(* A task timing out finishes nothing and leaves finished tasks alone. *)
LEMMA RecoverStep ==
  ASSUME Inv, NEW t \in Task, Recover(t)
  PROVE  Inv' /\ Stays
  <1> USE DEF Inv
  <1>1. /\ State' \in [Task -> {"WAITTING", "STARTED", "FINISHED"}]
        /\ timers' \in [Task -> Nat]
        /\ phase' \in [Worker -> Phase]
    BY DEF Recover, TypeOK, Late, Broadcast, Phase
  <1>2. TypeOK'
    BY <1>1 DEF Recover, TypeOK, mainVars, files
  <1>3. Stays /\ \A u \in Task : State'[u] = "FINISHED" => State[u] = "FINISHED"
    BY DEF Recover, TypeOK, Late, Stays
  <1>4. \A w \in Worker : /\ phase'[w] \in {"work", "finish"} => phase'[w] = phase[w]
                          /\ phase'[w] # "fatal"
    BY DEF Recover, TypeOK, Broadcast, Phase, NoMissingInput
  <1>5. MapFiles' /\ ReduceFiles'
    BY <1>1, <1>3, <1>4, FilesStay DEF Recover, files
  <1>6. FlagsRight' /\ PollRight'
    BY <1>3, Tasks DEF Recover, FlagsRight, PollRight, AllFinished, Stays, Task, mainVars, TypeOK
  <1>7. OneTimeout'
    BY DEF Recover, OneTimeout, TypeOK, Late
  <1> QED
    BY <1>2, <1>3, <1>4, <1>5, <1>6, <1>7 DEF NoMissingInput

(* Handing out a task, a reduce task only once all map tasks are finished. *)
LEMMA FetchTaskStep ==
  ASSUME Inv, NEW w \in Worker, FetchTask(w)
  PROVE  Inv' /\ Stays
  <1> USE DEF Inv
  <1> DEFINE mapsDone == MapTasksDone(State)
  <1>1. /\ mapsDone => AllFinished(MapTasks, State)
        /\ Done(State) => AllFinished(ReduceTasks, State)
    BY DEF MapTasksDone, Done, FlagsRight
  <1>2. mapTasksDone' \in BOOLEAN /\ done' \in BOOLEAN
    BY Zenon DEF FetchTask, MapTasksDone, Done, TypeOK
  <1>3. CASE UNCHANGED <<State, timers, task, next>>
             /\ \E p \in {"returned", "wait"} : phase' = [phase EXCEPT ![w] = p]
    <2>1. phase' \in [Worker -> Phase] /\ \A u \in Worker :
             /\ phase'[u] \in {"work", "finish"} => phase'[u] = phase[u]
             /\ phase'[u] # "fatal"
      BY <1>3 DEF TypeOK, Phase, NoMissingInput
    <2>2. TypeOK'
      BY <1>2, <1>3, <2>1 DEF FetchTask, TypeOK, mainVars, files
    <2>3. MapFiles' /\ ReduceFiles'
      BY <1>3, <2>1, FilesStay DEF FetchTask, files, TypeOK, Stays
    <2>4. FlagsRight'
      BY <1>1, <1>3 DEF FetchTask, FlagsRight, AllFinished
    <2>5. PollRight' /\ OneTimeout' /\ Stays
      BY <1>3 DEF FetchTask, PollRight, AllFinished, OneTimeout, mainVars, Stays
    <2> QED
      BY <2>1, <2>2, <2>3, <2>4, <2>5 DEF NoMissingInput
  <1>4. ASSUME NEW t \in Current(mapsDone), FirstWaiting(Current(mapsDone), t), Started(t),
               phase' = [phase EXCEPT ![w] = "work"],
               task' = [task EXCEPT ![w] = t],
               next' = [next EXCEPT ![w] = 0]
        PROVE  Inv' /\ Stays
    <2>1. t \in Task /\ State[t] = "WAITTING"
      BY <1>4 DEF Current, Task, FirstWaiting
    <2>2. /\ State' \in [Task -> {"WAITTING", "STARTED", "FINISHED"}]
          /\ timers' \in [Task -> Nat]
          /\ phase' \in [Worker -> Phase]
          /\ task' \in [Worker -> Task]
          /\ next' \in [Worker -> Nat]
      BY <1>4, <2>1 DEF TypeOK, Started, Phase
    <2>3. TypeOK'
      BY <1>2, <2>2 DEF FetchTask, TypeOK, mainVars, files
    <2>4. Stays /\ \A u \in Task : State'[u] = "FINISHED" => State[u] = "FINISHED"
      BY <1>4, <2>1 DEF TypeOK, Started, Stays
    <2>5. MapFiles'
      BY <1>4, <2>4, Tasks DEF FetchTask, MapFiles, Mapped, TypeOK, files, Task
    <2>6. t \in ReduceTasks => AllFinished(MapTasks, State)
      BY <1>1, <1>4, Tasks DEF Current
    <2>7. ReduceFiles'
      BY <1>4, <2>4, <2>6, Tasks
      DEF FetchTask, ReduceFiles, TypeOK, files, Task, AllFinished, Stays
    <2>8. FlagsRight'
      BY <1>1, <2>4 DEF FetchTask, FlagsRight, AllFinished, Stays, Task
    <2>9. PollRight'
      BY <2>4, Tasks DEF FetchTask, PollRight, AllFinished, Stays, Task, mainVars, TypeOK
    <2>10. NoMissingInput' /\ OneTimeout'
      BY <1>4, <2>1 DEF NoMissingInput, OneTimeout, TypeOK, Started
    <2> QED
      BY <2>3, <2>4, <2>5, <2>7, <2>8, <2>9, <2>10
  <1> QED
    BY <1>3, <1>4 DEF FetchTask

(* A worker reports a task whose files are written. *)
LEMMA TaskFinishedStep ==
  ASSUME Inv, NEW w \in Worker, TaskFinished(w)
  PROVE  Inv' /\ Stays
  <1> USE DEF Inv
  <1> DEFINE t == task[w]
  <1>1. t \in Task /\ State' = [State EXCEPT ![t] = "FINISHED"] /\ phase[w] = "finish"
    BY DEF TaskFinished, TypeOK
  <1>2. Stays /\ \A u \in Task : u # t => State'[u] = State[u]
    BY <1>1 DEF TypeOK, Stays
  <1>3. /\ phase' \in [Worker -> Phase]
        /\ \A u \in Worker : /\ phase'[u] \in {"work", "finish"} => phase'[u] = phase[u]
                             /\ phase'[u] # "fatal"
    BY DEF TaskFinished, Broadcast, TypeOK, Phase, NoMissingInput
  <1>4. mapTasksDone' \in BOOLEAN /\ done' \in BOOLEAN
    BY Zenon DEF TaskFinished, MapTasksDone, Done, TypeOK
  <1>5. TypeOK'
    BY <1>1, <1>3, <1>4 DEF TaskFinished, TypeOK, mainVars, files
  <1>a. UNCHANGED <<task, next, intermediate, output>>
    BY DEF TaskFinished, files
  <1>6. MapFiles'
    <2>1. ASSUME NEW m \in 0..NMap - 1, State'[<<"map", m>>] = "FINISHED" PROVE Mapped(m)'
      BY <1>1, <1>2, <1>a, <2>1, Tasks DEF MapFiles, Mapped, Task
    <2>2. ASSUME NEW u \in Worker, NEW m \in 0..NMap - 1, task'[u] = <<"map", m>>
          PROVE  /\ phase'[u] = "work" =>
                       \A r \in 0..NReduce - 1 : r < next'[u] => <<m, r>> \in intermediate'
                 /\ phase'[u] = "finish" => Mapped(m)'
      BY <1>3, <1>a, <2>2 DEF MapFiles, Mapped
    <2> QED
      BY <2>1, <2>2 DEF MapFiles
  <1>7. ReduceFiles'
    <2>1. ASSUME NEW r \in 0..NReduce - 1, State'[<<"reduce", r>>] = "FINISHED"
          PROVE  r \in output'
      BY <1>1, <1>2, <1>a, <2>1, Tasks DEF ReduceFiles, Task
    <2>2. AllFinished(MapTasks, State) => AllFinished(MapTasks, State)'
      BY <1>2 DEF AllFinished, Stays, Task
    <2>3. ASSUME NEW u \in Worker, NEW r \in 0..NReduce - 1, task'[u] = <<"reduce", r>>
          PROVE  /\ phase'[u] \in {"work", "finish"} => AllFinished(MapTasks, State)'
                 /\ phase'[u] = "finish" => r \in output'
      BY <1>3, <1>a, <2>2, <2>3 DEF ReduceFiles
    <2> QED
      BY <2>1, <2>3 DEF ReduceFiles
  <1>8. FlagsRight'
    BY <1>1, <1>2, Tasks
    DEF TaskFinished, FlagsRight, MapTasksDone, Done, AllFinished, Stays, Task
  <1>9. PollRight'
    BY <1>2, Tasks DEF TaskFinished, PollRight, AllFinished, Stays, Task, mainVars, TypeOK
  <1>10. OneTimeout'
    BY <1>1 DEF TaskFinished, OneTimeout, TypeOK
  <1> QED
    BY <1>2, <1>3, <1>5, <1>6, <1>7, <1>8, <1>9, <1>10 DEF NoMissingInput

(* A worker at its task: it finds the files it needs and leaves its own. *)
LEMMA WorkStep ==
  ASSUME Inv, NEW w \in Worker, Work(w)
  PROVE  Inv' /\ Stays
  <1> USE DEF Inv
  <1>1. UNCHANGED <<coordinatorVars, task, mainVars, alive>>
    BY DEF Work, WritePartition, EndMapTask, ReadPartition, WriteOutput, CannotCall, workerVars
  <1>2. FlagsRight' /\ PollRight' /\ OneTimeout' /\ Stays
    BY <1>1 DEF FlagsRight, PollRight, OneTimeout, AllFinished, Stays, coordinatorVars, mainVars
  <1>3. CASE WritePartition(w)
    <2>1. task[w] \in MapTasks /\ next[w] \in 0..NReduce - 1 /\ phase' = phase
      BY <1>3, TaskAssumption DEF WritePartition, MorePartitions, TypeOK
    <2>2. /\ next' = [next EXCEPT ![w] = @ + 1]
          /\ intermediate' = intermediate \cup {<<task[w][2], next[w]>>}
          /\ output' = output
      BY <1>3 DEF WritePartition
    <2>3. TypeOK'
      BY <1>1, <2>1, <2>2, Tasks DEF TypeOK, coordinatorVars, mainVars
    <2>4. MapFiles'
      <3>1. ASSUME NEW m \in 0..NMap - 1, Mapped(m) PROVE Mapped(m)'
        BY <2>2, <3>1 DEF Mapped
      <3>2. ASSUME NEW u \in Worker, NEW m \in 0..NMap - 1, task[u] = <<"map", m>>,
                   phase[u] = "work", NEW r \in 0..NReduce - 1, r < next'[u]
            PROVE  <<m, r>> \in intermediate'
        <4>1. CASE r < next[u]
          BY <2>2, <3>2, <4>1 DEF MapFiles
        <4>2. CASE u = w /\ r = next[w]
          BY <2>2, <3>2, <4>2
        <4> QED
          BY <2>1, <2>2, <3>2, <4>1, <4>2 DEF TypeOK
      <3> QED
        BY <1>1, <2>1, <3>1, <3>2 DEF MapFiles, coordinatorVars
    <2>5. ReduceFiles' /\ NoMissingInput'
      BY <1>1, <2>1, <2>2 DEF ReduceFiles, AllFinished, NoMissingInput, coordinatorVars
    <2> QED
      BY <1>2, <2>3, <2>4, <2>5
  <1>4. CASE EndMapTask(w)
    <2>1. /\ task[w] \in MapTasks /\ phase[w] = "work" /\ ~(next[w] < NReduce)
          /\ phase' = [phase EXCEPT ![w] = "finish"]
          /\ UNCHANGED <<next, intermediate, output>>
      BY <1>4 DEF EndMapTask, MorePartitions, files
    <2>2. TypeOK' /\ NoMissingInput'
      BY <1>1, <2>1 DEF TypeOK, Phase, NoMissingInput, coordinatorVars, mainVars
    <2>3. MapFiles'
      BY <1>1, <2>1, TaskAssumption DEF MapFiles, Mapped, TypeOK, coordinatorVars
    <2>4. ReduceFiles'
      BY <1>1, <2>1, Tasks DEF ReduceFiles, AllFinished, TypeOK, coordinatorVars
    <2> QED
      BY <1>2, <2>2, <2>3, <2>4
  <1>5. CASE ReadPartition(w)
    <2>1. /\ task[w] \in ReduceTasks /\ phase[w] = "work" /\ next[w] \in 0..NMap - 1
          /\ UNCHANGED <<intermediate, output>>
      BY <1>5, TaskAssumption DEF ReadPartition, TypeOK, files
    <2>2. <<next[w], task[w][2]>> \in intermediate
      BY <2>1, Tasks DEF ReduceFiles, AllFinished, MapFiles, Mapped
    <2>3. phase' = phase /\ next' = [next EXCEPT ![w] = @ + 1]
      BY <1>5, <2>2 DEF ReadPartition, TypeOK
    <2>4. TypeOK' /\ NoMissingInput'
      BY <1>1, <2>1, <2>3 DEF TypeOK, NoMissingInput, coordinatorVars, mainVars
    <2>5. MapFiles'
      BY <1>1, <2>1, <2>3, Tasks DEF MapFiles, Mapped, TypeOK, coordinatorVars
    <2>6. ReduceFiles'
      BY <1>1, <2>1, <2>3 DEF ReduceFiles, AllFinished, coordinatorVars
    <2> QED
      BY <1>2, <2>4, <2>5, <2>6
  <1>6. CASE WriteOutput(w)
    <2>1. /\ task[w] \in ReduceTasks /\ phase[w] = "work"
          /\ phase' = [phase EXCEPT ![w] = "finish"]
          /\ output' = output \cup {task[w][2]}
          /\ UNCHANGED <<next, intermediate>>
      BY <1>6 DEF WriteOutput
    <2>2. TypeOK' /\ NoMissingInput'
      BY <1>1, <2>1, Tasks DEF TypeOK, Phase, NoMissingInput, coordinatorVars, mainVars
    <2>3. MapFiles'
      BY <1>1, <2>1, Tasks DEF MapFiles, Mapped, TypeOK, coordinatorVars
    <2>4. ReduceFiles'
      BY <1>1, <2>1, Tasks DEF ReduceFiles, AllFinished, TypeOK, coordinatorVars
    <2> QED
      BY <1>2, <2>2, <2>3, <2>4
  <1>7. CASE CannotCall(w)
    <2>1. phase' = [phase EXCEPT ![w] = "returned"] /\ UNCHANGED <<next, files>>
      BY <1>7 DEF CannotCall
    <2>2. TypeOK' /\ NoMissingInput'
      BY <1>1, <2>1 DEF TypeOK, Phase, NoMissingInput, coordinatorVars, mainVars, files
    <2>3. MapFiles' /\ ReduceFiles'
      BY <1>1, <2>1, FilesStay, <1>2 DEF TypeOK, coordinatorVars, files
    <2> QED
      BY <1>2, <2>2, <2>3
  <1> QED
    BY <1>3, <1>4, <1>5, <1>6, <1>7 DEF Work

(* The death of a worker, the end of the coordinator, and no step at all. *)
LEMMA QuietStep ==
  ASSUME Inv, UNCHANGED <<State, mapTasksDone, done, timers, workerVars, files, polled>>,
         alive' \in [Worker -> BOOLEAN],
         main' \in {"polling", "lingering", "exited"},
         main' # "polling" => main # "polling" \/ done
  PROVE  Inv' /\ Stays
  <1> USE DEF Inv
  <1>1. TypeOK'
    BY DEF TypeOK, workerVars, files
  <1>2. MapFiles' /\ ReduceFiles' /\ NoMissingInput'
    BY DEF MapFiles, Mapped, ReduceFiles, AllFinished, NoMissingInput, workerVars, files
  <1>3. FlagsRight' /\ PollRight' /\ OneTimeout' /\ Stays
    BY DEF FlagsRight, PollRight, OneTimeout, AllFinished, Stays
  <1> QED
    BY <1>1, <1>2, <1>3

LEMMA CrashStep ==
  ASSUME Inv, NEW w \in Worker, Crash(w)
  PROVE  Inv' /\ Stays
  <1>1. alive' \in [Worker -> BOOLEAN]
    BY Zenon DEF Crash, Inv, TypeOK
  <1> QED
    BY <1>1, QuietStep DEF Crash, Inv, TypeOK, coordinatorVars, mainVars

(* The unlocked poll: what it has seen finished still is. *)
LEMMA PollStep ==
  ASSUME Inv, Poll
  PROVE  Inv' /\ Stays
  <1> USE DEF Inv
  <1>1. CASE polled = 0 /\ done /\ main' = "lingering" /\ UNCHANGED <<polled, done>>
    BY <1>1, QuietStep DEF Poll, TypeOK
  <1>2. CASE /\ polled < NReduce
             /\ polled' = IF State[<<"reduce", polled>>] = "FINISHED" THEN polled + 1 ELSE 0
             /\ UNCHANGED <<main, done>>
    <2>1. polled' \in 0..NReduce
      BY <1>2, TaskAssumption DEF TypeOK
    <2>2. TypeOK'
      BY <1>2, <2>1 DEF Poll, TypeOK, workerVars, files
    <2>3. MapFiles' /\ ReduceFiles' /\ NoMissingInput'
      BY DEF Poll, MapFiles, Mapped, ReduceFiles, AllFinished, NoMissingInput, workerVars, files
    <2>4. FlagsRight' /\ OneTimeout' /\ Stays
      BY <1>2 DEF Poll, FlagsRight, OneTimeout, AllFinished, Stays
    <2>5. PollRight'
      BY <1>2, TaskAssumption DEF Poll, PollRight, AllFinished, TypeOK
    <2> QED
      BY <2>2, <2>3, <2>4, <2>5
  <1>3. CASE polled = NReduce /\ done' = TRUE /\ main' = "lingering" /\ UNCHANGED polled
    <2>1. AllFinished(ReduceTasks, State)
      BY <1>3, Tasks, TaskAssumption DEF PollRight, AllFinished
    <2>2. TypeOK'
      BY <1>3 DEF Poll, TypeOK, workerVars, files
    <2>3. MapFiles' /\ ReduceFiles' /\ NoMissingInput'
      BY DEF Poll, MapFiles, Mapped, ReduceFiles, AllFinished, NoMissingInput, workerVars, files
    <2>4. FlagsRight' /\ PollRight' /\ OneTimeout' /\ Stays
      BY <1>3, <2>1 DEF Poll, FlagsRight, PollRight, OneTimeout, AllFinished, Stays
    <2> QED
      BY <2>2, <2>3, <2>4
  <1> QED
    BY <1>1, <1>2, <1>3 DEF Poll

LEMMA NextInv == Inv /\ [Next]_vars => Inv' /\ Stays
  <1> SUFFICES ASSUME Inv, [Next]_vars PROVE Inv' /\ Stays
    OBVIOUS
  <1>1. CASE Exit
    BY <1>1, QuietStep DEF Exit, Inv, TypeOK, coordinatorVars, mainVars
  <1>2. CASE UNCHANGED vars
    BY <1>2, QuietStep DEF vars, Inv, TypeOK, coordinatorVars, mainVars
  <1> QED
    BY <1>1, <1>2, FetchTaskStep, TaskFinishedStep, WorkStep, CrashStep, RecoverStep, PollStep
    DEF Next

(* Finished tasks have left their files. *)
LEMMA InvOutputComplete == Inv => OutputComplete
  BY Tasks DEF Inv, OutputComplete, PollRight, AllFinished, ReduceFiles, TypeOK

-----------------------------------------------------------------------------
(* The invariant holds for any number of workers and tasks. *)
THEOREM Invariance == Spec => []Inv
  <1>1. Init => Inv
    BY InitInv
  <1>2. Inv /\ [Next]_vars => Inv'
    BY NextInv
  <1> QED
    BY <1>1, <1>2, PTL DEF Spec

(* No worker ever misses an intermediate file: doReduceTask finds what      *)
(* doMapTask left, whatever crashed and was done again in between.          *)
THEOREM NoMissingInputTheorem == Spec => []NoMissingInput
  <1>1. Inv => NoMissingInput
    BY DEF Inv
  <1> QED
    BY <1>1, Invariance, PTL

(* The coordinator leaves only when all output files are written, although  *)
(* main calls Done without the lock.                                        *)
THEOREM OutputCompleteTheorem == Spec => []OutputComplete
  BY InvOutputComplete, Invariance, PTL

(* A task in progress has exactly one timeout, one to be handed out none.   *)
THEOREM OneTimeoutTheorem == Spec => []OneTimeout
  <1>1. Inv => OneTimeout
    BY DEF Inv
  <1> QED
    BY <1>1, Invariance, PTL

(* No finished task is handed out again, late timeouts notwithstanding.     *)
THEOREM FinishedForGoodTheorem == Spec => FinishedForGood
  <1>1. Inv /\ [Next]_vars =>
          [\A t \in Task : State[t] = "FINISHED" => State'[t] = "FINISHED"]_vars
    BY NextInv DEF Stays
  <1> QED
    BY <1>1, Invariance, PTL DEF Spec, FinishedForGood
=============================================================================
