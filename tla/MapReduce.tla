------------------------------ MODULE MapReduce ------------------------------
(***************************************************************************)
(* The MapReduce coordinator (mr/coordinator.go), its workers              *)
(* (mr/worker.go) and the process that polls Done (main/mrcoordinator.go). *)
(*                                                                         *)
(* The coordinator's handlers run under its mutex, so each is one atomic   *)
(* step.  A worker's doMap renames one intermediate file per step and its  *)
(* doReduce reads one file per step, so crashes, timeouts and duplicate    *)
(* executions interleave with half-written and half-read task data.        *)
(***************************************************************************)
EXTENDS Naturals

CONSTANTS
    Workers,       \* worker processes
    NMap,          \* number of input files, len(MapTasks)
    NReduce,       \* number of reduce tasks
    Timeout,       \* the coordinator's patience (10s in the code), in clock ticks
    MaxCrashes,    \* bound: how many worker processes may die
    RenameCanFail  \* whether os.Rename, whose error is ignored, may fail

ASSUME MapReduceAssumption ==
    /\ NMap \in Nat \ {0}
    /\ NReduce \in Nat \ {0}
    /\ Timeout \in Nat
    /\ MaxCrashes \in Nat
    /\ RenameCanFail \in BOOLEAN

Maps == 0 .. NMap - 1
Reduces == 0 .. NReduce - 1

Idle == "idle"
Progressing == "progressing"
Done == "done"
Status == {Idle, Progressing, Done}

MapTask == "map"
ReduceTask == "reduce"
WaitTask == "wait"
ExitTask == "exit"

(***************************************************************************)
(* A request in flight: a worker asks for work, or reports a task.         *)
(***************************************************************************)
GetTaskArgs == [rpc : {"GetTask"}]
ReportTaskArgs == [rpc : {"ReportTask"}, TaskType : {MapTask}, TaskID : Maps]
                  \cup [rpc : {"ReportTask"}, TaskType : {ReduceTask}, TaskID : Reduces]

(* An output file that does not exist; one that does covers some map. *)
NoOutput == {}

VARIABLES
    MapTasks, ReduceTasks,      \* status of every task
    MapAge, ReduceAge,          \* ticks since StartTime, capped at Timeout + 1
    MapFinished, AllFinished,
    up,                         \* the coordinator process is running
    pc,                         \* where each worker is in its loop
    task,                       \* TaskID the worker is working on
    pos,                        \* loop index of doMap and doReduce
    acc,                        \* map outputs doReduce has read so far
    files,                      \* existing intermediate files mr-m-r
    out,                        \* content of mr-out-r: the map outputs it covers
    orphans,                    \* requests in flight whose sender has died
    crashes

coordinator == <<MapTasks, ReduceTasks, MapAge, ReduceAge, MapFinished, AllFinished>>
worker == <<pc, task, pos, acc>>
disk == <<files, out>>
vars == <<coordinator, up, worker, disk, orphans, crashes>>

TypeOK ==
    /\ MapTasks \in [Maps -> Status]
    /\ ReduceTasks \in [Reduces -> Status]
    /\ MapAge \in [Maps -> 0 .. Timeout + 1]
    /\ ReduceAge \in [Reduces -> 0 .. Timeout + 1]
    /\ MapFinished \in BOOLEAN
    /\ AllFinished \in BOOLEAN
    /\ up \in BOOLEAN
    /\ pc \in [Workers -> {"getTask", "doMap", "reportMap", "doReduce",
                           "reportReduce", "exited", "fatal"}]
    /\ task \in [Workers -> Nat]
    /\ pos \in [Workers -> Nat]
    /\ acc \in [Workers -> SUBSET Maps]
    /\ files \subseteq Maps \X Reduces
    /\ out \in [Reduces -> SUBSET Maps]
    /\ orphans \subseteq GetTaskArgs \cup ReportTaskArgs
    /\ crashes \in 0 .. MaxCrashes
-----------------------------------------------------------------------------
(***************************************************************************)
(* The coordinator's handlers                                              *)
(***************************************************************************)
(* Mutant: tasks in progress count as completed. *)
AllDoneMutant(tasks) == \A i \in DOMAIN tasks : tasks[i] # Idle

AllDone(tasks) == \A i \in DOMAIN tasks : tasks[i] = Done

(* Mutants: the status is not looked at; a task never times out. *)
ExpireMutant(tasks, age) ==
    [i \in DOMAIN tasks |-> IF age[i] > Timeout THEN Idle ELSE tasks[i]]

NeverExpireMutant(tasks, age) == tasks

Expire(tasks, age) ==
    [i \in DOMAIN tasks |->
        IF tasks[i] = Progressing /\ age[i] > Timeout THEN Idle ELSE tasks[i]]

FirstIdle(tasks, i) ==
    /\ i \in DOMAIN tasks
    /\ tasks[i] = Idle
    /\ \A j \in DOMAIN tasks : j < i => tasks[j] # Idle

(* The tasks and phase flags as the timeout scan leaves them. *)
checkTimeout ==
    LET inMap == ~AllFinished /\ ~MapFinished
        inReduce == ~AllFinished /\ MapFinished
    IN  [maps |-> IF inMap THEN Expire(MapTasks, MapAge) ELSE MapTasks,
         reduces |-> IF inReduce THEN Expire(ReduceTasks, ReduceAge) ELSE ReduceTasks,
         mapFinished |-> IF inMap THEN AllDone(MapTasks) ELSE MapFinished,
         allFinished |-> IF inReduce THEN AllDone(ReduceTasks) ELSE AllFinished]

(* The handler runs and answers with a task of this type and ID. *)
GetTask(type, id) ==
    LET c == checkTimeout IN
    /\ up
    /\ MapFinished' = c.mapFinished
    /\ AllFinished' = c.allFinished
    /\ \/ /\ type = ExitTask
          /\ c.allFinished
          /\ MapTasks' = c.maps
          /\ ReduceTasks' = c.reduces
          /\ UNCHANGED <<MapAge, ReduceAge>>
       \/ /\ type = MapTask
          /\ ~c.allFinished /\ ~c.mapFinished
          /\ FirstIdle(c.maps, id)
          /\ MapTasks' = [c.maps EXCEPT ![id] = Progressing]
          /\ MapAge' = [MapAge EXCEPT ![id] = 0]
          /\ ReduceTasks' = c.reduces
          /\ UNCHANGED ReduceAge
       \/ /\ type = ReduceTask
          /\ ~c.allFinished /\ c.mapFinished
          /\ FirstIdle(c.reduces, id)
          /\ ReduceTasks' = [c.reduces EXCEPT ![id] = Progressing]
          /\ ReduceAge' = [ReduceAge EXCEPT ![id] = 0]
          /\ MapTasks' = c.maps
          /\ UNCHANGED MapAge
       \/ /\ type = WaitTask
          /\ ~c.allFinished
          /\ LET tasks == IF c.mapFinished THEN c.reduces ELSE c.maps
             IN  \A i \in DOMAIN tasks : tasks[i] # Idle
          /\ MapTasks' = c.maps
          /\ ReduceTasks' = c.reduces
          /\ UNCHANGED <<MapAge, ReduceAge>>

(* A report counts only while the task is in progress, whoever sends it. *)
ReportTask(type, id) ==
    /\ up
    /\ \/ /\ type = MapTask /\ MapTasks[id] = Progressing
          /\ MapTasks' = [MapTasks EXCEPT ![id] = Done]
          /\ MapFinished' = AllDone(MapTasks')
          /\ UNCHANGED <<ReduceTasks, AllFinished>>
       \/ /\ type = ReduceTask /\ ReduceTasks[id] = Progressing
          /\ ReduceTasks' = [ReduceTasks EXCEPT ![id] = Done]
          /\ AllFinished' = AllDone(ReduceTasks')
          /\ UNCHANGED <<MapTasks, MapFinished>>
       \/ /\ type = MapTask => MapTasks[id] # Progressing
          /\ type = ReduceTask => ReduceTasks[id] # Progressing
          /\ UNCHANGED <<MapTasks, ReduceTasks, MapFinished, AllFinished>>
    /\ UNCHANGED <<MapAge, ReduceAge>>

(* time.Now moves on for every task in progress. *)
Tick ==
    LET Older(tasks, age) ==
            [i \in DOMAIN tasks |->
                IF tasks[i] = Progressing /\ age[i] <= Timeout THEN age[i] + 1 ELSE age[i]]
    IN  /\ up
        /\ MapAge' = Older(MapTasks, MapAge)
        /\ ReduceAge' = Older(ReduceTasks, ReduceAge)
        /\ UNCHANGED <<MapTasks, ReduceTasks, MapFinished, AllFinished, up,
                       worker, disk, orphans, crashes>>

(* Mutant: the job ends with the map phase. *)
CoordinatorExitMutant ==
    /\ up /\ MapFinished
    /\ up' = FALSE
    /\ UNCHANGED <<coordinator, worker, disk, orphans, crashes>>

(* main polls Done, an unlocked read of AllFinished, and then exits. *)
CoordinatorExit ==
    /\ up /\ AllFinished
    /\ up' = FALSE
    /\ UNCHANGED <<coordinator, worker, disk, orphans, crashes>>
-----------------------------------------------------------------------------
(***************************************************************************)
(* The worker's loop                                                       *)
(***************************************************************************)
(* Mutant: the first task is number one. *)
TakesMutant(w, do, id) ==
    /\ pc' = [pc EXCEPT ![w] = do]
    /\ task' = [task EXCEPT ![w] = id + 1]

(* The worker is going to do the task that the reply names. *)
Takes(w, do, id) ==
    /\ pc' = [pc EXCEPT ![w] = do]
    /\ task' = [task EXCEPT ![w] = id]

WorkerGetTask(w) ==
    /\ pc[w] = "getTask"
    /\ \/ \E m \in Maps : GetTask(MapTask, m) /\ Takes(w, "doMap", m)
       \/ \E r \in Reduces : GetTask(ReduceTask, r) /\ Takes(w, "doReduce", r)
       \/ GetTask(WaitTask, 0) /\ UNCHANGED <<pc, task>>
       \/ GetTask(ExitTask, 0) /\ pc' = [pc EXCEPT ![w] = "exited"] /\ UNCHANGED task
    /\ pos' = [pos EXCEPT ![w] = 0]
    /\ acc' = [acc EXCEPT ![w] = {}]
    /\ UNCHANGED <<up, disk, orphans, crashes>>

(* Mutant: the last bucket is left out. *)
doMapMutant(w) ==
    /\ pc[w] = "doMap"
    /\ files' = files \cup {<<task[w], pos[w]>>}
    /\ pos' = [pos EXCEPT ![w] = @ + 1]
    /\ pc' = [pc EXCEPT ![w] = IF pos[w] + 2 >= NReduce THEN "reportMap" ELSE @]
    /\ UNCHANGED <<coordinator, up, task, acc, out, orphans, crashes>>

(* One round of doMap's loop: write a temporary file and rename it. *)
doMap(w) ==
    /\ pc[w] = "doMap"
    /\ \/ files' = files \cup {<<task[w], pos[w]>>}
       \/ RenameCanFail /\ UNCHANGED files
    /\ pos' = [pos EXCEPT ![w] = @ + 1]
    /\ pc' = [pc EXCEPT ![w] = IF pos[w] + 1 = NReduce THEN "reportMap" ELSE @]
    /\ UNCHANGED <<coordinator, up, task, acc, out, orphans, crashes>>

(* One round of doReduce's loop: read an intermediate file, or die. *)
doReduceRead(w) ==
    /\ pc[w] = "doReduce" /\ pos[w] < NMap
    /\ \/ /\ <<pos[w], task[w]>> \in files
          /\ acc' = [acc EXCEPT ![w] = @ \cup {pos[w]}]
          /\ pos' = [pos EXCEPT ![w] = @ + 1]
          /\ UNCHANGED pc
       \/ /\ <<pos[w], task[w]>> \notin files
          /\ pc' = [pc EXCEPT ![w] = "fatal"]
          /\ UNCHANGED <<acc, pos>>
    /\ UNCHANGED <<coordinator, up, task, disk, orphans, crashes>>

(* Mutant: the last map's file is left out. *)
doReduceWriteMutant(w) ==
    /\ pc[w] = "doReduce" /\ pos[w] = NMap - 1
    /\ out' = [out EXCEPT ![task[w]] = acc[w]]
    /\ pc' = [pc EXCEPT ![w] = "reportReduce"]
    /\ UNCHANGED <<coordinator, up, task, pos, acc, files, orphans, crashes>>

(* The rest of doReduce: sort, reduce, and rename the output file. *)
doReduceWrite(w) ==
    /\ pc[w] = "doReduce" /\ pos[w] = NMap
    /\ \/ out' = [out EXCEPT ![task[w]] = acc[w]]
       \/ RenameCanFail /\ UNCHANGED out
    /\ pc' = [pc EXCEPT ![w] = "reportReduce"]
    /\ UNCHANGED <<coordinator, up, task, pos, acc, files, orphans, crashes>>

reportTask(w) ==
    /\ \/ pc[w] = "reportMap" /\ ReportTask(MapTask, task[w])
       \/ pc[w] = "reportReduce" /\ ReportTask(ReduceTask, task[w])
    /\ pc' = [pc EXCEPT ![w] = "getTask"]
    /\ UNCHANGED <<up, task, pos, acc, disk, orphans, crashes>>

(* call dies when it cannot dial the coordinator. *)
callFails(w) ==
    /\ ~up /\ pc[w] \in {"getTask", "reportMap", "reportReduce"}
    /\ pc' = [pc EXCEPT ![w] = "exited"]
    /\ UNCHANGED <<coordinator, up, task, pos, acc, disk, orphans, crashes>>

(***************************************************************************)
(* A worker process dies and a new one takes its place.  If it died inside *)
(* call, its request may already be on the way to the coordinator.         *)
(***************************************************************************)
Request(w) ==
    CASE pc[w] = "getTask" -> {[rpc |-> "GetTask"]}
      [] pc[w] = "reportMap" ->
            {[rpc |-> "ReportTask", TaskType |-> MapTask, TaskID |-> task[w]]}
      [] pc[w] = "reportReduce" ->
            {[rpc |-> "ReportTask", TaskType |-> ReduceTask, TaskID |-> task[w]]}
      [] OTHER -> {}

Crash(w) ==
    /\ crashes < MaxCrashes
    /\ pc[w] \notin {"exited", "fatal"}
    /\ crashes' = crashes + 1
    /\ orphans' \in {orphans, orphans \cup Request(w)}
    /\ pc' = [pc EXCEPT ![w] = "getTask"]
    /\ UNCHANGED <<coordinator, up, task, pos, acc, disk>>

(* The coordinator handles a request whose sender is gone. *)
HandleOrphan(m) ==
    /\ \/ /\ m.rpc = "GetTask"
          /\ \/ \E i \in Maps : GetTask(MapTask, i)
             \/ \E i \in Reduces : GetTask(ReduceTask, i)
             \/ GetTask(WaitTask, 0)
             \/ GetTask(ExitTask, 0)
       \/ m.rpc = "ReportTask" /\ ReportTask(m.TaskType, m.TaskID)
    /\ orphans' = orphans \ {m}
    /\ UNCHANGED <<up, worker, disk, crashes>>
-----------------------------------------------------------------------------
Init ==
    /\ MapTasks = [m \in Maps |-> Idle]
    /\ ReduceTasks = [r \in Reduces |-> Idle]
    /\ MapAge = [m \in Maps |-> 0]
    /\ ReduceAge = [r \in Reduces |-> 0]
    /\ MapFinished = FALSE
    /\ AllFinished = FALSE
    /\ up = TRUE
    /\ pc = [w \in Workers |-> "getTask"]
    /\ task = [w \in Workers |-> 0]
    /\ pos = [w \in Workers |-> 0]
    /\ acc = [w \in Workers |-> {}]
    /\ files = {}
    /\ out = [r \in Reduces |-> NoOutput]
    /\ orphans = {}
    /\ crashes = 0

WorkerStep(w) ==
    \/ WorkerGetTask(w)
    \/ doMap(w)
    \/ doReduceRead(w)
    \/ doReduceWrite(w)
    \/ reportTask(w)
    \/ callFails(w)

Next ==
    \/ Tick
    \/ CoordinatorExit
    \/ \E w \in Workers : WorkerStep(w) \/ Crash(w)
    \/ \E m \in orphans : HandleOrphan(m)

Spec == Init /\ [][Next]_vars

(***************************************************************************)
(* Running processes keep running and time passes; nothing forces a crash. *)
(***************************************************************************)
FairSpec ==
    /\ Spec
    /\ WF_vars(Tick)
    /\ WF_vars(CoordinatorExit)
    /\ \A w \in Workers : WF_vars(WorkerStep(w))
-----------------------------------------------------------------------------
(***************************************************************************)
(* Properties                                                              *)
(***************************************************************************)

(* A worker reports a task only after completing it, and a task marked Done *)
(* is complete: what doMap and doReduce write before reportTask is on disk, *)
(* also when the report is late or its sender has died.                     *)
ReportAfterCompletion ==
    LET MapComplete(m) == \A r \in Reduces : <<m, r>> \in files
        ReduceComplete(r) == out[r] = Maps
    IN  /\ \A w \in Workers :
              /\ pc[w] = "reportMap" => MapComplete(task[w])
              /\ pc[w] = "reportReduce" => ReduceComplete(task[w])
        /\ \A m \in Maps : MapTasks[m] = Done => MapComplete(m)
        /\ \A r \in Reduces : ReduceTasks[r] = Done => ReduceComplete(r)

(* doReduce never meets a missing intermediate file (log.Fatalf): a reduce  *)
(* task is handed out only when every map's files exist, although maps may  *)
(* still be running a second time on slow workers.                          *)
NoMissingFile == \A w \in Workers : pc[w] # "fatal"

(* An output file covers the output of every map task, however often and by *)
(* whomever its reduce task was executed.                                   *)
NoPartialOutput == \A r \in Reduces : out[r] \in {NoOutput, Maps}

(* Nobody leaves early: when the coordinator has exited, or a worker has    *)
(* been told to exit or found the coordinator gone, every output is there.  *)
NoEarlyExit ==
    (~up \/ \E w \in Workers : pc[w] = "exited") => \A r \in Reduces : out[r] = Maps

(* Accounted work stays accounted: no handler, timeout or late report takes *)
(* a task out of Done, clears a phase flag, or changes an output once it    *)
(* has been accounted for.                                                  *)
NeverUndone ==
    [][/\ MapFinished => MapFinished'
       /\ AllFinished => AllFinished'
       /\ \A m \in Maps : MapTasks[m] = Done => MapTasks'[m] = Done
       /\ \A r \in Reduces :
             ReduceTasks[r] = Done => ReduceTasks'[r] = Done /\ out'[r] = out[r]]_vars

(* The coordinator, workers and files implement the abstract job.           *)
Job == INSTANCE MapReduceJob WITH
    mapped <- {m \in Maps : MapTasks[m] = Done},
    reduced <- {r \in Reduces : ReduceTasks[r] = Done},
    output <- out,
    finished <- ~up

ImplementsJob == Job!JobSpec

(* Every job ends: whatever times out and whoever crashes, the coordinator  *)
(* and all workers eventually exit with the outputs written.                *)
Termination == <>(~up /\ \A w \in Workers : pc[w] = "exited")
==============================================================================
