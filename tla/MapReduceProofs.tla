--------------------------- MODULE MapReduceProofs ---------------------------
(***************************************************************************)
(* Proofs about MapReduce for any number of workers, input files, reduce   *)
(* tasks and crashes, any timeout, when renames do not fail.               *)
(***************************************************************************)
EXTENDS MapReduce, TLAPS

(* A leaf that names no prover is tried with Zenon, then with SMT. *)
USE ZenonT(20), SMTT(30)

(* The map outputs of m are on disk. *)
MapComplete(m) == \A r \in Reduces : <<m, r>> \in files

(* What a worker has done so far is on disk or in its memory. *)
WorkerInv(w) ==
    /\ pc[w] \in {"doMap", "reportMap"} => task[w] \in Maps
    /\ pc[w] \in {"doReduce", "reportReduce"} => task[w] \in Reduces
    /\ pc[w] = "doMap" =>
          pos[w] \in Reduces /\ \A r \in 0 .. pos[w] - 1 : <<task[w], r>> \in files
    /\ pc[w] = "reportMap" => MapComplete(task[w])
    /\ pc[w] = "doReduce" =>
          MapFinished /\ pos[w] \in 0 .. NMap /\ acc[w] = 0 .. pos[w] - 1
    /\ pc[w] = "reportReduce" => MapFinished /\ out[task[w]] = Maps
    /\ pc[w] = "exited" => AllFinished
    /\ pc[w] # "fatal"

(* A report that outlived its sender is about a completed task. *)
OrphanInv ==
    \A m \in orphans :
        m.rpc = "ReportTask" =>
            /\ m.TaskType = MapTask => MapComplete(m.TaskID)
            /\ m.TaskType = ReduceTask => MapFinished /\ out[m.TaskID] = Maps

(* The coordinator's book-keeping agrees with the disk. *)
CoordinatorInv ==
    /\ \A m \in Maps : MapTasks[m] = Done => MapComplete(m)
    /\ MapFinished <=> \A m \in Maps : MapTasks[m] = Done
    /\ \A r \in Reduces : ReduceTasks[r] = Done => out[r] = Maps
    /\ AllFinished <=> \A r \in Reduces : ReduceTasks[r] = Done
    /\ \A r \in Reduces : ReduceTasks[r] # Idle \/ out[r] # NoOutput => MapFinished
    /\ \A r \in Reduces : out[r] \in {NoOutput, Maps}
    /\ ~up => AllFinished

(* The inductive invariant. *)
Inv ==
    /\ TypeOK
    /\ \A w \in Workers : WorkerInv(w)
    /\ OrphanInv
    /\ CoordinatorInv
-----------------------------------------------------------------------------
(* The coordinator's variables have their types. *)
CoordinatorType ==
    /\ MapTasks \in [Maps -> Status]
    /\ ReduceTasks \in [Reduces -> Status]
    /\ MapAge \in [Maps -> 0 .. Timeout + 1]
    /\ ReduceAge \in [Reduces -> 0 .. Timeout + 1]
    /\ MapFinished \in BOOLEAN
    /\ AllFinished \in BOOLEAN

(* Task IDs are indices of the task arrays. *)
LEMMA TaskIDs == Maps \subseteq Nat /\ Reduces \subseteq Nat
  BY MapReduceAssumption DEF Maps, Reduces

(* checkTimeout's scan: it returns tasks in progress to Idle and changes    *)
(* nothing else, so no task enters or leaves Done.                          *)
LEMMA ExpireFacts ==
    ASSUME NEW S, NEW tasks \in [S -> Status], NEW age
    PROVE  /\ Expire(tasks, age) \in [S -> Status]
           /\ \A i \in S : Expire(tasks, age)[i] = Done <=> tasks[i] = Done
           /\ \A i \in S : tasks[i] = Idle => Expire(tasks, age)[i] = Idle
           /\ AllDone(tasks) <=> \A i \in S : tasks[i] = Done
  BY DEF Expire, AllDone, Status, Idle, Progressing, Done

(* What GetTask may do: no task enters or leaves Done, the phase flags stay *)
(* as they are, and a reduce task is handed out only in the reduce phase.   *)
LEMMA GetTaskFacts ==
    ASSUME Inv, NEW type, NEW id, GetTask(type, id)
    PROVE  /\ up
           /\ CoordinatorType'
           /\ \A m \in Maps : MapTasks'[m] = Done <=> MapTasks[m] = Done
           /\ \A r \in Reduces : ReduceTasks'[r] = Done <=> ReduceTasks[r] = Done
           /\ MapFinished' <=> MapFinished
           /\ AllFinished' <=> AllFinished
           /\ \A r \in Reduces : ReduceTasks'[r] # Idle => MapFinished
           /\ type = MapTask => id \in Maps
           /\ type = ReduceTask => id \in Reduces /\ MapFinished
           /\ type = ExitTask => AllFinished
<1>. DEFINE c == checkTimeout
<1>. USE DEF Inv, TypeOK, CoordinatorInv
<1>1. /\ c.maps \in [Maps -> Status]
      /\ \A m \in Maps : c.maps[m] = Done <=> MapTasks[m] = Done
  BY SMTT(30), ExpireFacts DEF checkTimeout
<1>2. /\ c.reduces \in [Reduces -> Status]
      /\ \A r \in Reduces : c.reduces[r] = Done <=> ReduceTasks[r] = Done
      /\ \A r \in Reduces : c.reduces[r] # Idle => MapFinished
  BY SMTT(30), ExpireFacts DEF checkTimeout
<1>3. /\ c.mapFinished \in BOOLEAN /\ (c.mapFinished <=> MapFinished)
      /\ c.allFinished \in BOOLEAN /\ (c.allFinished <=> AllFinished)
  <2>1. AllDone(MapTasks) \in BOOLEAN /\ AllDone(ReduceTasks) \in BOOLEAN
    BY DEF AllDone
  <2>2. AllDone(MapTasks) <=> MapFinished
    <3>1. DOMAIN MapTasks = Maps
      OBVIOUS
    <3>2. AllDone(MapTasks) <=> \A m \in Maps : MapTasks[m] = Done
      BY <3>1, Zenon DEF AllDone
    <3>3. MapFinished <=> \A m \in Maps : MapTasks[m] = Done
      BY Zenon
    <3>. QED
      BY <3>2, <3>3, Zenon
  <2>3. AllDone(ReduceTasks) <=> AllFinished
    <3>1. DOMAIN ReduceTasks = Reduces
      OBVIOUS
    <3>2. AllDone(ReduceTasks) <=> \A r \in Reduces : ReduceTasks[r] = Done
      BY <3>1, Zenon DEF AllDone
    <3>3. AllFinished <=> \A r \in Reduces : ReduceTasks[r] = Done
      BY Zenon
    <3>. QED
      BY <3>2, <3>3, Zenon
  <2>. QED
    BY <2>1, <2>2, <2>3 DEF checkTimeout
<1>. HIDE DEF c
<1>4. /\ MapFinished' \in BOOLEAN /\ (MapFinished' <=> MapFinished)
      /\ AllFinished' \in BOOLEAN /\ (AllFinished' <=> AllFinished)
      /\ up
  BY <1>3 DEF GetTask, c
<1>5. CASE type = ExitTask
  BY <1>1, <1>2, <1>3, <1>4, <1>5
     DEF GetTask, c, CoordinatorType, ExitTask, MapTask, ReduceTask, WaitTask
<1>6. CASE type = MapTask
  BY SMTT(30), <1>1, <1>2, <1>3, <1>4, <1>6, MapReduceAssumption
     DEF GetTask, c, CoordinatorType, FirstIdle, Status, Idle, Progressing, Done,
         ExitTask, MapTask, ReduceTask, WaitTask
<1>7. CASE type = ReduceTask
  BY SMTT(30), <1>1, <1>2, <1>3, <1>4, <1>7, MapReduceAssumption
     DEF GetTask, c, CoordinatorType, FirstIdle, Status, Idle, Progressing, Done,
         ExitTask, MapTask, ReduceTask, WaitTask
<1>8. CASE type = WaitTask
  BY <1>1, <1>2, <1>3, <1>4, <1>8
     DEF GetTask, c, CoordinatorType, ExitTask, MapTask, ReduceTask, WaitTask
<1>. QED
  BY <1>5, <1>6, <1>7, <1>8 DEF GetTask

(* What ReportTask may do when the reported task is complete: tasks only    *)
(* enter Done, flags are only raised, and the book-keeping stays right.     *)
LEMMA ReportTaskFacts ==
    ASSUME Inv, NEW type, NEW id, ReportTask(type, id), UNCHANGED disk,
           \/ type = MapTask /\ id \in Maps /\ MapComplete(id)
           \/ type = ReduceTask /\ id \in Reduces /\ MapFinished /\ out[id] = Maps
    PROVE  /\ up
           /\ CoordinatorType'
           /\ MapFinished => MapFinished'
           /\ AllFinished => AllFinished'
           /\ \A m \in Maps : MapTasks[m] = Done => MapTasks'[m] = Done
           /\ \A r \in Reduces : ReduceTasks[r] = Done => ReduceTasks'[r] = Done
           /\ \A m \in Maps : MapTasks'[m] = Done => MapComplete(m)
           /\ MapFinished' <=> \A m \in Maps : MapTasks'[m] = Done
           /\ \A r \in Reduces : ReduceTasks'[r] = Done => out[r] = Maps
           /\ AllFinished' <=> \A r \in Reduces : ReduceTasks'[r] = Done
           /\ \A r \in Reduces : ReduceTasks'[r] # Idle => MapFinished
<1>. USE DEF Inv, TypeOK, CoordinatorInv
<1>1. CASE type = MapTask /\ MapTasks[id] = Progressing
  <2>1. /\ MapTasks' = [MapTasks EXCEPT ![id] = Done]
        /\ MapFinished' = AllDone(MapTasks')
        /\ UNCHANGED <<ReduceTasks, AllFinished, MapAge, ReduceAge>>
        /\ up
    BY <1>1 DEF ReportTask, MapTask, ReduceTask
  <2>2. id \in Maps /\ MapComplete(id)
    BY <1>1 DEF MapTask, ReduceTask
  <2>3. MapTasks' \in [Maps -> Status]
    BY <2>1 DEF Status
  <2>4. /\ MapFinished' \in BOOLEAN
        /\ MapFinished' <=> \A m \in Maps : MapTasks'[m] = Done
    BY <2>1, <2>3 DEF AllDone
  <2>5. ~MapFinished
    BY <1>1, <2>2 DEF Progressing, Done
  <2>. QED
    BY <2>1, <2>2, <2>3, <2>4, <2>5 DEF CoordinatorType
<1>2. CASE type = ReduceTask /\ ReduceTasks[id] = Progressing
  <2>1. /\ ReduceTasks' = [ReduceTasks EXCEPT ![id] = Done]
        /\ AllFinished' = AllDone(ReduceTasks')
        /\ UNCHANGED <<MapTasks, MapFinished, MapAge, ReduceAge>>
        /\ up
    BY <1>2 DEF ReportTask, MapTask, ReduceTask
  <2>2. id \in Reduces /\ MapFinished /\ out[id] = Maps
    BY <1>2 DEF MapTask, ReduceTask
  <2>3. ReduceTasks' \in [Reduces -> Status]
    BY <2>1 DEF Status
  <2>4. /\ AllFinished' \in BOOLEAN
        /\ AllFinished' <=> \A r \in Reduces : ReduceTasks'[r] = Done
    BY <2>1, <2>3 DEF AllDone
  <2>5. ~AllFinished
    BY <1>2, <2>2 DEF Progressing, Done
  <2>. QED
    BY <2>1, <2>2, <2>3, <2>4, <2>5 DEF CoordinatorType
<1>3. CASE UNCHANGED coordinator /\ up
  BY <1>3 DEF coordinator, CoordinatorType
<1>. QED
  BY <1>1, <1>2, <1>3 DEF ReportTask, coordinator
-----------------------------------------------------------------------------
(* A step that only raises flags and adds files keeps what workers and late *)
(* reports rely on.                                                         *)
LEMMA WorkerInvStable ==
    ASSUME NEW w \in Workers, WorkerInv(w),
           pc'[w] = pc[w], task'[w] = task[w], pos'[w] = pos[w], acc'[w] = acc[w],
           files \subseteq files',
           MapFinished => MapFinished', AllFinished => AllFinished',
           \A r \in Reduces : out[r] = Maps => out'[r] = Maps
    PROVE  WorkerInv(w)'
  BY DEF WorkerInv, MapComplete

LEMMA OrphanInvStable ==
    ASSUME OrphanInv, orphans \subseteq GetTaskArgs \cup ReportTaskArgs,
           orphans' \subseteq orphans,
           files \subseteq files', MapFinished => MapFinished',
           \A r \in Reduces : out[r] = Maps => out'[r] = Maps
    PROVE  OrphanInv'
<1>. SUFFICES ASSUME NEW m \in orphans', m.rpc = "ReportTask"
              PROVE  /\ m.TaskType = MapTask => MapComplete(m.TaskID)'
                     /\ m.TaskType = ReduceTask => MapFinished' /\ out'[m.TaskID] = Maps
  BY DEF OrphanInv
<1>1. m \in ReportTaskArgs
  BY DEF GetTaskArgs
<1>2. m.TaskType = ReduceTask => m.TaskID \in Reduces
  BY <1>1 DEF ReportTaskArgs, MapTask, ReduceTask
<1>. QED
  BY <1>2 DEF OrphanInv, MapComplete
-----------------------------------------------------------------------------
LEMMA InitInv == Init => Inv
<1>. SUFFICES ASSUME Init PROVE Inv
  OBVIOUS
<1>. USE MapReduceAssumption DEF Init
<1>1. TypeOK
  <2>1. MapFinished \in BOOLEAN /\ AllFinished \in BOOLEAN /\ up \in BOOLEAN
    OBVIOUS
  <2>2. /\ MapTasks \in [Maps -> Status]
        /\ ReduceTasks \in [Reduces -> Status]
    BY DEF Status, Idle
  <2>3. /\ MapAge \in [Maps -> 0 .. Timeout + 1]
        /\ ReduceAge \in [Reduces -> 0 .. Timeout + 1]
    OBVIOUS
  <2>. QED
    BY SMTT(30), <2>1, <2>2, <2>3 DEF TypeOK, NoOutput
<1>2. \A w \in Workers : WorkerInv(w)
  BY DEF WorkerInv
<1>3. OrphanInv
  BY DEF OrphanInv
<1>4. CoordinatorInv
  <2>1. 0 \in Maps /\ 0 \in Reduces
    BY DEF Maps, Reduces
  <2>2. \A m \in Maps : MapTasks[m] = Idle
    BY Zenon
  <2>3. \A r \in Reduces : ReduceTasks[r] = Idle /\ out[r] = NoOutput
    BY Zenon
  <2>4. Idle # Done
    BY DEF Idle, Done
  <2>. QED
    BY <2>1, <2>2, <2>3, <2>4, Zenon DEF CoordinatorInv
<1>. QED
  BY <1>1, <1>2, <1>3, <1>4 DEF Inv

(* GetTask, whoever receives the answer, keeps the coordinator's part. *)
LEMMA GetTaskInv ==
    ASSUME Inv, NEW type, NEW id, GetTask(type, id), UNCHANGED <<up, disk>>
    PROVE  CoordinatorType' /\ CoordinatorInv'
  BY GetTaskFacts DEF Inv, CoordinatorInv, MapComplete, disk

LEMMA ReportTaskInv ==
    ASSUME Inv, NEW type, NEW id, ReportTask(type, id), UNCHANGED <<up, disk>>,
           \/ type = MapTask /\ id \in Maps /\ MapComplete(id)
           \/ type = ReduceTask /\ id \in Reduces /\ MapFinished /\ out[id] = Maps
    PROVE  CoordinatorType' /\ CoordinatorInv'
  BY ReportTaskFacts DEF Inv, CoordinatorInv, MapComplete, disk
-----------------------------------------------------------------------------
(* One lemma per action.                                                    *)
LEMMA TickInv == Inv /\ Tick => Inv'
<1>. SUFFICES ASSUME Inv, Tick PROVE Inv'
  OBVIOUS
<1>. USE DEF Inv
<1>1. TypeOK'
  BY SMTT(30), MapReduceAssumption DEF Tick, TypeOK, worker, disk
<1>2. (\A w \in Workers : WorkerInv(w)')
  BY WorkerInvStable DEF Tick, worker, disk
<1>3. OrphanInv'
  BY OrphanInvStable DEF Tick, disk, TypeOK
<1>4. CoordinatorInv'
  BY DEF Tick, CoordinatorInv, MapComplete, disk
<1>. QED
  BY <1>1, <1>2, <1>3, <1>4

LEMMA CoordinatorExitInv == Inv /\ CoordinatorExit => Inv'
<1>. SUFFICES ASSUME Inv, CoordinatorExit PROVE Inv'
  OBVIOUS
<1>. USE DEF Inv
<1>1. TypeOK'
  BY DEF CoordinatorExit, TypeOK, worker, disk, coordinator
<1>2. (\A w \in Workers : WorkerInv(w)')
  BY WorkerInvStable DEF CoordinatorExit, worker, disk, coordinator
<1>3. OrphanInv'
  BY OrphanInvStable DEF CoordinatorExit, disk, coordinator, TypeOK
<1>4. CoordinatorInv'
  BY DEF CoordinatorExit, CoordinatorInv, MapComplete, disk, coordinator
<1>. QED
  BY <1>1, <1>2, <1>3, <1>4

LEMMA WorkerGetTaskInv ==
    ASSUME NEW w \in Workers, Inv, WorkerGetTask(w)
    PROVE  Inv'
<1>. USE DEF Inv
<1>1. PICK type, id : GetTask(type, id) /\
          \/ /\ type = MapTask /\ id \in Maps
             /\ pc' = [pc EXCEPT ![w] = "doMap"]
             /\ task' = [task EXCEPT ![w] = id]
          \/ /\ type = ReduceTask /\ id \in Reduces
             /\ pc' = [pc EXCEPT ![w] = "doReduce"]
             /\ task' = [task EXCEPT ![w] = id]
          \/ type = WaitTask /\ UNCHANGED <<pc, task>>
          \/ type = ExitTask /\ pc' = [pc EXCEPT ![w] = "exited"] /\ UNCHANGED task
  BY DEF WorkerGetTask, Takes
<1>2. /\ pc[w] = "getTask"
      /\ pos' = [pos EXCEPT ![w] = 0]
      /\ acc' = [acc EXCEPT ![w] = {}]
      /\ UNCHANGED <<up, disk, orphans, crashes>>
  BY DEF WorkerGetTask, Takes
<1>3. CoordinatorType' /\ CoordinatorInv'
  BY <1>1, <1>2, GetTaskInv
<1>4. /\ MapFinished' <=> MapFinished
      /\ AllFinished' <=> AllFinished
      /\ type = ReduceTask => MapFinished
      /\ type = ExitTask => AllFinished
  BY <1>1, GetTaskFacts
<1>5. TypeOK'
  <2>1. pc' \in [Workers -> {"getTask", "doMap", "reportMap", "doReduce",
                             "reportReduce", "exited", "fatal"}]
    BY <1>1 DEF TypeOK
  <2>2. task' \in [Workers -> Nat]
    BY <1>1, TaskIDs DEF TypeOK
  <2>3. pos' \in [Workers -> Nat] /\ acc' \in [Workers -> SUBSET Maps]
    BY <1>2 DEF TypeOK
  <2>. QED
    BY <1>2, <1>3, <2>1, <2>2, <2>3 DEF TypeOK, CoordinatorType, disk
<1>6. ASSUME NEW v \in Workers PROVE WorkerInv(v)'
  <2>1. CASE v # w
    BY <1>1, <1>2, <1>4, <2>1, WorkerInvStable DEF TypeOK, disk
  <2>2. CASE v = w
    BY SMTT(30), <1>1, <1>2, <1>4, <2>2, MapReduceAssumption
       DEF WorkerInv, TypeOK, disk, Maps, Reduces, MapTask, ReduceTask, WaitTask, ExitTask
  <2>. QED
    BY <2>1, <2>2
<1>7. OrphanInv'
  BY <1>2, <1>4, OrphanInvStable DEF disk, TypeOK
<1>. QED
  BY <1>3, <1>5, <1>6, <1>7

LEMMA doMapInv ==
    ASSUME ~RenameCanFail, NEW w \in Workers, Inv, doMap(w)
    PROVE  Inv'
<1>. USE DEF Inv
<1>1. /\ pc[w] = "doMap"
      /\ files' = files \cup {<<task[w], pos[w]>>}
      /\ pos' = [pos EXCEPT ![w] = @ + 1]
      /\ pc' = [pc EXCEPT ![w] = IF pos[w] + 1 = NReduce THEN "reportMap" ELSE @]
      /\ UNCHANGED <<coordinator, up, task, acc, out, orphans, crashes>>
  BY DEF doMap
<1>2. /\ task[w] \in Maps
      /\ pos[w] \in Reduces
      /\ \A r \in 0 .. pos[w] - 1 : <<task[w], r>> \in files
  BY <1>1 DEF WorkerInv
<1>3. TypeOK'
  <2>1. pc' \in [Workers -> {"getTask", "doMap", "reportMap", "doReduce",
                             "reportReduce", "exited", "fatal"}]
    BY <1>1 DEF TypeOK
  <2>2. files' \subseteq Maps \X Reduces
    BY SMTT(30), <1>1, <1>2 DEF TypeOK
  <2>3. pos' \in [Workers -> Nat]
    BY SMTT(30), <1>1, <1>2, TaskIDs DEF TypeOK
  <2>. QED
    BY <1>1, <2>1, <2>2, <2>3 DEF TypeOK, coordinator
<1>4. ASSUME NEW v \in Workers PROVE WorkerInv(v)'
  <2>1. CASE v # w
    BY <1>1, <2>1, WorkerInvStable DEF TypeOK, coordinator
  <2>2. CASE v = w
    <3>1. \A r \in 0 .. pos[w] : <<task[w], r>> \in files'
      <4>1. pos[w] \in Nat
        BY <1>2, TaskIDs
      <4>2. \A r \in 0 .. pos[w] : r = pos[w] \/ r \in 0 .. pos[w] - 1
        BY <4>1
      <4>. QED
        BY <1>1, <1>2, <4>2
    <3>2. CASE pos[w] + 1 = NReduce
      <4>1. pc'[w] = "reportMap" /\ task'[w] = task[w]
        BY <1>1, <3>2 DEF TypeOK
      <4>2. MapComplete(task[w])'
        BY SMTT(30), <3>1, <3>2, <1>1, <1>2, MapReduceAssumption DEF MapComplete, Reduces
      <4>. QED
        BY <4>1, <4>2, <1>1, <1>2, <2>2 DEF WorkerInv
    <3>3. CASE pos[w] + 1 # NReduce
      <4>1. pc'[w] = "doMap" /\ task'[w] = task[w] /\ pos'[w] = pos[w] + 1
        BY <1>1, <3>3 DEF TypeOK
      <4>2. pos[w] + 1 \in Reduces /\ 0 .. pos[w] = 0 .. (pos[w] + 1) - 1
        BY <1>2, <3>3, MapReduceAssumption DEF Reduces
      <4>. QED
        BY <3>1, <4>1, <4>2, <1>2, <2>2 DEF WorkerInv
    <3>. QED
      BY <3>2, <3>3
  <2>. QED
    BY <2>1, <2>2
<1>5. OrphanInv'
  BY <1>1, OrphanInvStable DEF coordinator, TypeOK
<1>6. CoordinatorInv'
  BY <1>1 DEF CoordinatorInv, MapComplete, coordinator
<1>. QED
  BY <1>3, <1>4, <1>5, <1>6

LEMMA doReduceReadInv ==
    ASSUME NEW w \in Workers, Inv, doReduceRead(w)
    PROVE  Inv'
<1>. USE DEF Inv
<1>1. /\ pc[w] = "doReduce" /\ pos[w] < NMap
      /\ UNCHANGED <<coordinator, up, task, disk, orphans, crashes>>
  BY DEF doReduceRead
<1>2. /\ task[w] \in Reduces
      /\ MapFinished
      /\ pos[w] \in Maps
      /\ acc[w] = 0 .. pos[w] - 1
  BY SMTT(30), <1>1, MapReduceAssumption DEF WorkerInv, Maps
<1>3. <<pos[w], task[w]>> \in files
  BY <1>2 DEF CoordinatorInv, MapComplete
<1>4. /\ acc' = [acc EXCEPT ![w] = @ \cup {pos[w]}]
      /\ pos' = [pos EXCEPT ![w] = @ + 1]
      /\ UNCHANGED pc
  BY <1>3 DEF doReduceRead
<1>5. TypeOK'
  <2>1. acc' \in [Workers -> SUBSET Maps] /\ pos' \in [Workers -> Nat]
    BY SMTT(30), <1>2, <1>4, TaskIDs DEF TypeOK
  <2>. QED
    BY <1>1, <1>4, <2>1 DEF TypeOK, coordinator, disk
<1>6. ASSUME NEW v \in Workers PROVE WorkerInv(v)'
  <2>1. CASE v # w
    BY <1>1, <1>4, <2>1, WorkerInvStable DEF TypeOK, coordinator, disk
  <2>2. CASE v = w
    <3>1. pos'[w] = pos[w] + 1 /\ acc'[w] = acc[w] \cup {pos[w]} /\ pc'[w] = "doReduce"
      BY <1>1, <1>4 DEF TypeOK
    <3>2. pos'[w] \in 0 .. NMap /\ acc'[w] = 0 .. pos'[w] - 1
      BY SMTT(30), <1>2, <3>1, MapReduceAssumption DEF Maps
    <3>. QED
      BY <1>1, <1>2, <3>1, <3>2, <2>2 DEF WorkerInv, coordinator
  <2>. QED
    BY <2>1, <2>2
<1>7. OrphanInv'
  BY <1>1, OrphanInvStable DEF coordinator, disk, TypeOK
<1>8. CoordinatorInv'
  BY <1>1 DEF CoordinatorInv, MapComplete, coordinator, disk
<1>. QED
  BY <1>5, <1>6, <1>7, <1>8

LEMMA doReduceWriteInv ==
    ASSUME ~RenameCanFail, NEW w \in Workers, Inv, doReduceWrite(w)
    PROVE  Inv'
<1>. USE DEF Inv
<1>1. /\ pc[w] = "doReduce" /\ pos[w] = NMap
      /\ out' = [out EXCEPT ![task[w]] = acc[w]]
      /\ pc' = [pc EXCEPT ![w] = "reportReduce"]
      /\ UNCHANGED <<coordinator, up, task, pos, acc, files, orphans, crashes>>
  BY DEF doReduceWrite
<1>2. task[w] \in Reduces /\ MapFinished /\ acc[w] = Maps
  BY <1>1 DEF WorkerInv, Maps
<1>3. /\ out' \in [Reduces -> SUBSET Maps]
      /\ out'[task[w]] = Maps
      /\ \A r \in Reduces : out'[r] = out[r] \/ out'[r] = Maps
  BY <1>1, <1>2 DEF TypeOK
<1>4. TypeOK'
  BY <1>1, <1>3 DEF TypeOK, coordinator
<1>5. ASSUME NEW v \in Workers PROVE WorkerInv(v)'
  <2>1. CASE v # w
    BY <1>1, <1>3, <2>1, WorkerInvStable DEF TypeOK, coordinator
  <2>2. CASE v = w
    BY <1>1, <1>2, <1>3, <2>2 DEF WorkerInv, TypeOK, coordinator
  <2>. QED
    BY <2>1, <2>2
<1>6. OrphanInv'
  BY <1>1, <1>3, OrphanInvStable DEF coordinator, TypeOK
<1>7. CoordinatorInv'
  BY <1>1, <1>2, <1>3 DEF CoordinatorInv, MapComplete, coordinator
<1>. QED
  BY <1>4, <1>5, <1>6, <1>7

LEMMA reportTaskInv ==
    ASSUME NEW w \in Workers, Inv, reportTask(w)
    PROVE  Inv'
<1>. USE DEF Inv
<1>1. PICK type :
          /\ ReportTask(type, task[w])
          /\ \/ pc[w] = "reportMap" /\ type = MapTask
             \/ pc[w] = "reportReduce" /\ type = ReduceTask
  BY DEF reportTask
<1>2. /\ pc' = [pc EXCEPT ![w] = "getTask"]
      /\ UNCHANGED <<up, task, pos, acc, disk, orphans, crashes>>
  BY DEF reportTask
<1>3. \/ type = MapTask /\ task[w] \in Maps /\ MapComplete(task[w])
      \/ type = ReduceTask /\ task[w] \in Reduces /\ MapFinished /\ out[task[w]] = Maps
  BY SMTT(30), <1>1 DEF WorkerInv
<1>4. CoordinatorType' /\ CoordinatorInv'
  BY <1>1, <1>2, <1>3, ReportTaskInv
<1>5. (MapFinished => MapFinished') /\ (AllFinished => AllFinished')
  BY <1>1, <1>2, <1>3, ReportTaskFacts
<1>6. TypeOK'
  BY <1>2, <1>4 DEF TypeOK, CoordinatorType, disk
<1>7. ASSUME NEW v \in Workers PROVE WorkerInv(v)'
  <2>1. CASE v # w
    BY SMTT(30), <1>2, <1>5, <2>1, WorkerInvStable DEF TypeOK, disk
  <2>2. CASE v = w
    BY <1>2, <2>2 DEF WorkerInv, TypeOK
  <2>. QED
    BY <2>1, <2>2
<1>8. OrphanInv'
  BY <1>2, <1>5, OrphanInvStable DEF disk, TypeOK
<1>. QED
  BY <1>4, <1>6, <1>7, <1>8

LEMMA callFailsInv ==
    ASSUME NEW w \in Workers, Inv, callFails(w)
    PROVE  Inv'
<1>. USE DEF Inv
<1>1. /\ ~up
      /\ pc' = [pc EXCEPT ![w] = "exited"]
      /\ UNCHANGED <<coordinator, up, task, pos, acc, disk, orphans, crashes>>
  BY DEF callFails
<1>2. TypeOK'
  BY <1>1 DEF TypeOK, coordinator, disk
<1>3. ASSUME NEW v \in Workers PROVE WorkerInv(v)'
  <2>1. CASE v # w
    BY SMTT(30), <1>1, <2>1, WorkerInvStable DEF TypeOK, coordinator, disk
  <2>2. CASE v = w
    BY <1>1, <2>2 DEF WorkerInv, CoordinatorInv, TypeOK, coordinator
  <2>. QED
    BY <2>1, <2>2
<1>4. OrphanInv'
  BY <1>1, OrphanInvStable DEF coordinator, disk, TypeOK
<1>5. CoordinatorInv'
  BY <1>1 DEF CoordinatorInv, MapComplete, coordinator, disk
<1>. QED
  BY <1>2, <1>3, <1>4, <1>5

LEMMA CrashInv ==
    ASSUME NEW w \in Workers, Inv, Crash(w)
    PROVE  Inv'
<1>. USE DEF Inv
<1>1. /\ crashes < MaxCrashes /\ crashes' = crashes + 1
      /\ orphans' \in {orphans, orphans \cup Request(w)}
      /\ pc' = [pc EXCEPT ![w] = "getTask"]
      /\ UNCHANGED <<coordinator, up, task, pos, acc, disk>>
  BY DEF Crash
<1>2. ASSUME NEW m \in Request(w)
      PROVE  /\ m \in GetTaskArgs \cup ReportTaskArgs
             /\ m.rpc = "ReportTask" =>
                   /\ m.TaskType = MapTask => MapComplete(m.TaskID)
                   /\ m.TaskType = ReduceTask => MapFinished /\ out[m.TaskID] = Maps
  <2>1. CASE pc[w] = "getTask"
    BY <1>2, <2>1 DEF Request, GetTaskArgs
  <2>2. CASE pc[w] = "reportMap"
    BY SMTT(30), <1>2, <2>2 DEF Request, ReportTaskArgs, WorkerInv, MapTask, ReduceTask
  <2>3. CASE pc[w] = "reportReduce"
    BY SMTT(30), <1>2, <2>3 DEF Request, ReportTaskArgs, WorkerInv, MapTask, ReduceTask
  <2>. QED
    BY <1>2, <2>1, <2>2, <2>3 DEF Request
<1>3. TypeOK'
  <2>1. orphans' \subseteq GetTaskArgs \cup ReportTaskArgs
    BY <1>1, <1>2 DEF TypeOK
  <2>2. crashes' \in 0 .. MaxCrashes
    BY SMTT(30), <1>1, MapReduceAssumption DEF TypeOK
  <2>. QED
    BY <1>1, <2>1, <2>2 DEF TypeOK, coordinator, disk
<1>4. ASSUME NEW v \in Workers PROVE WorkerInv(v)'
  <2>1. CASE v # w
    BY SMTT(30), <1>1, <2>1, WorkerInvStable DEF TypeOK, coordinator, disk
  <2>2. CASE v = w
    BY <1>1, <2>2 DEF WorkerInv, TypeOK
  <2>. QED
    BY <2>1, <2>2
<1>5. OrphanInv'
  BY <1>1, <1>2 DEF OrphanInv, MapComplete, coordinator, disk
<1>6. CoordinatorInv'
  BY <1>1 DEF CoordinatorInv, MapComplete, coordinator, disk
<1>. QED
  BY <1>3, <1>4, <1>5, <1>6

LEMMA HandleOrphanInv ==
    ASSUME NEW m \in orphans, Inv, HandleOrphan(m)
    PROVE  Inv'
<1>. USE DEF Inv
<1>1. /\ orphans' = orphans \ {m}
      /\ UNCHANGED <<up, worker, disk, crashes>>
  BY DEF HandleOrphan
<1>2. /\ CoordinatorType' /\ CoordinatorInv'
      /\ MapFinished => MapFinished'
      /\ AllFinished => AllFinished'
  <2>1. CASE \E type, id : GetTask(type, id)
    BY SMTT(30), <1>1, <2>1, GetTaskInv, GetTaskFacts
  <2>2. CASE m.rpc = "ReportTask" /\ ReportTask(m.TaskType, m.TaskID)
    <3>1. m \in ReportTaskArgs
      BY <2>2 DEF TypeOK, GetTaskArgs
    <3>2. \/ m.TaskType = MapTask /\ m.TaskID \in Maps
          \/ m.TaskType = ReduceTask /\ m.TaskID \in Reduces
      BY <3>1 DEF ReportTaskArgs
    <3>3. \/ m.TaskType = MapTask /\ m.TaskID \in Maps /\ MapComplete(m.TaskID)
          \/ m.TaskType = ReduceTask /\ m.TaskID \in Reduces /\ MapFinished
             /\ out[m.TaskID] = Maps
      BY <2>2, <3>2 DEF OrphanInv
    <3>. QED
      BY <1>1, <2>2, <3>3, ReportTaskInv, ReportTaskFacts
  <2>. QED
    BY <2>1, <2>2 DEF HandleOrphan
<1>3. TypeOK'
  BY <1>1, <1>2 DEF TypeOK, CoordinatorType, worker, disk
<1>4. ASSUME NEW v \in Workers PROVE WorkerInv(v)'
  BY <1>1, <1>2, WorkerInvStable DEF worker, disk
<1>5. OrphanInv'
  BY <1>1, <1>2, OrphanInvStable DEF disk, TypeOK
<1>. QED
  BY <1>2, <1>3, <1>4, <1>5

LEMMA StutterInv == Inv /\ UNCHANGED vars => Inv'
<1>. SUFFICES ASSUME Inv, UNCHANGED vars PROVE Inv'
  OBVIOUS
<1>. USE DEF vars, coordinator, worker, disk
<1>1. TypeOK'
  BY DEF Inv, TypeOK
<1>2. \A w \in Workers : WorkerInv(w)'
  BY DEF Inv, WorkerInv, MapComplete
<1>3. OrphanInv'
  BY DEF Inv, OrphanInv, MapComplete
<1>4. CoordinatorInv'
  BY DEF Inv, CoordinatorInv, MapComplete
<1>. QED
  BY <1>1, <1>2, <1>3, <1>4 DEF Inv

LEMMA NextInv == ASSUME ~RenameCanFail PROVE Inv /\ [Next]_vars => Inv'
  BY TickInv, CoordinatorExitInv, WorkerGetTaskInv, doMapInv, doReduceReadInv,
     doReduceWriteInv, reportTaskInv, callFailsInv, CrashInv, HandleOrphanInv, StutterInv
     DEF Next, WorkerStep
-----------------------------------------------------------------------------
(* The inductive invariant holds of every reachable state. *)
THEOREM Invariance == ASSUME ~RenameCanFail PROVE Spec => []Inv
<1>1. Init => Inv
  BY InitInv
<1>2. Inv /\ [Next]_vars => Inv'
  BY NextInv
<1>. QED
  BY <1>1, <1>2, PTL DEF Spec

(* The variables of coordinator, workers and disk keep their types. *)
THEOREM TypeCorrect == ASSUME ~RenameCanFail PROVE Spec => []TypeOK
<1>1. Inv => TypeOK
  BY DEF Inv
<1>. QED
  BY <1>1, Invariance, PTL

(* Any report, also a late one or one whose sender died, is about a task    *)
(* whose files are on disk, and so is the coordinator's Done.               *)
THEOREM ReportsAreSound == ASSUME ~RenameCanFail PROVE Spec => []ReportAfterCompletion
<1>1. Inv => ReportAfterCompletion
  BY SMTT(30) DEF Inv, ReportAfterCompletion, WorkerInv, CoordinatorInv, MapComplete
<1>. QED
  BY <1>1, Invariance, PTL

(* No worker dies in doReduce for want of an intermediate file.             *)
THEOREM FilesArePresent == ASSUME ~RenameCanFail PROVE Spec => []NoMissingFile
<1>1. Inv => NoMissingFile
  BY DEF Inv, NoMissingFile, WorkerInv
<1>. QED
  BY <1>1, Invariance, PTL

(* Every output file covers all maps. *)
THEOREM OutputsAreComplete == ASSUME ~RenameCanFail PROVE Spec => []NoPartialOutput
<1>1. Inv => NoPartialOutput
  BY DEF Inv, NoPartialOutput, CoordinatorInv
<1>. QED
  BY <1>1, Invariance, PTL

(* Whoever has left the job, coordinator or worker, left after all outputs  *)
(* were complete.                                                           *)
THEOREM NobodyLeavesEarly == ASSUME ~RenameCanFail PROVE Spec => []NoEarlyExit
<1>1. Inv => NoEarlyExit
  BY DEF Inv, NoEarlyExit, WorkerInv, CoordinatorInv
<1>. QED
  BY <1>1, Invariance, PTL
-----------------------------------------------------------------------------
(* Each step either leaves the job's view of the state alone, or accounts   *)
(* for one map, writes one output, accounts for one reduce, or ends.        *)
JobStutter ==
    /\ \A m \in Maps : MapTasks'[m] = Done <=> MapTasks[m] = Done
    /\ \A r \in Reduces : ReduceTasks'[r] = Done <=> ReduceTasks[r] = Done
    /\ UNCHANGED <<out, up>>

LEMMA GetTaskStutters ==
    ASSUME Inv, NEW type, NEW id, GetTask(type, id), UNCHANGED <<up, disk>>
    PROVE  JobStutter
  BY GetTaskFacts DEF JobStutter, disk

LEMMA ReportTaskSteps ==
    ASSUME Inv, NEW type, NEW id, ReportTask(type, id), UNCHANGED <<up, disk>>,
           \/ type = MapTask /\ id \in Maps /\ MapComplete(id)
           \/ type = ReduceTask /\ id \in Reduces /\ MapFinished /\ out[id] = Maps
    PROVE  \/ JobStutter
           \/ /\ id \in Maps /\ MapTasks[id] # Done
              /\ MapTasks' = [MapTasks EXCEPT ![id] = Done]
              /\ UNCHANGED <<ReduceTasks, out, up>>
           \/ /\ id \in Reduces /\ ReduceTasks[id] # Done /\ out[id] = Maps
              /\ ReduceTasks' = [ReduceTasks EXCEPT ![id] = Done]
              /\ UNCHANGED <<MapTasks, out, up>>
  BY DEF ReportTask, JobStutter, Inv, CoordinatorInv, disk, Progressing, Done,
         MapTask, ReduceTask

(* The kinds of step there are, seen from the job. *)
StepKinds ==
    \/ JobStutter
    \/ \E m \in Maps :
          /\ MapTasks[m] # Done
          /\ MapTasks' = [MapTasks EXCEPT ![m] = Done]
          /\ UNCHANGED <<ReduceTasks, out, up>>
    \/ \E r \in Reduces :
          /\ ReduceTasks[r] # Done /\ out[r] = Maps
          /\ ReduceTasks' = [ReduceTasks EXCEPT ![r] = Done]
          /\ UNCHANGED <<MapTasks, out, up>>
    \/ \E r \in Reduces :
          /\ MapFinished
          /\ out' = [out EXCEPT ![r] = Maps]
          /\ UNCHANGED <<MapTasks, ReduceTasks, up>>
    \/ /\ up /\ AllFinished /\ up' = FALSE
       /\ UNCHANGED <<MapTasks, ReduceTasks, out>>

LEMMA NextStepKinds ==
    ASSUME ~RenameCanFail, Inv, [Next]_vars
    PROVE  StepKinds
<1>1. CASE Tick
  BY <1>1 DEF Tick, StepKinds, JobStutter, disk
<1>2. CASE CoordinatorExit
  BY <1>2 DEF CoordinatorExit, StepKinds, coordinator, disk
<1>3. ASSUME NEW w \in Workers, WorkerStep(w) PROVE StepKinds
  <2>1. CASE WorkerGetTask(w)
    <3>1. \E type, id : GetTask(type, id)
      BY <2>1 DEF WorkerGetTask, Takes
    <3>2. UNCHANGED <<up, disk>>
      BY <2>1 DEF WorkerGetTask, Takes
    <3>. QED
      BY <3>1, <3>2, GetTaskStutters DEF StepKinds
  <2>2. CASE doMap(w)
    BY <2>2 DEF doMap, StepKinds, JobStutter, coordinator
  <2>3. CASE doReduceRead(w)
    BY <2>3 DEF doReduceRead, StepKinds, JobStutter, coordinator, disk
  <2>4. CASE doReduceWrite(w)
    BY SMTT(30), <2>4 DEF doReduceWrite, StepKinds, Inv, WorkerInv, Maps, coordinator
  <2>5. CASE reportTask(w)
    BY <2>5, ReportTaskSteps DEF reportTask, StepKinds, Inv, WorkerInv
  <2>6. CASE callFails(w)
    BY <2>6 DEF callFails, StepKinds, JobStutter, coordinator, disk
  <2>. QED
    BY <1>3, <2>1, <2>2, <2>3, <2>4, <2>5, <2>6 DEF WorkerStep
<1>4. ASSUME NEW w \in Workers, Crash(w) PROVE StepKinds
  BY <1>4 DEF Crash, StepKinds, JobStutter, coordinator, disk
<1>5. ASSUME NEW m \in orphans, HandleOrphan(m) PROVE StepKinds
  <2>1. UNCHANGED <<up, disk>>
    BY <1>5 DEF HandleOrphan
  <2>2. CASE \E type, id : GetTask(type, id)
    BY <2>1, <2>2, GetTaskStutters DEF StepKinds
  <2>3. CASE m.rpc = "ReportTask" /\ ReportTask(m.TaskType, m.TaskID)
    <3>1. m \in ReportTaskArgs
      BY <2>3 DEF Inv, TypeOK, GetTaskArgs
    <3>2. \/ m.TaskType = MapTask /\ m.TaskID \in Maps
          \/ m.TaskType = ReduceTask /\ m.TaskID \in Reduces
      BY <3>1 DEF ReportTaskArgs
    <3>3. \/ m.TaskType = MapTask /\ m.TaskID \in Maps /\ MapComplete(m.TaskID)
          \/ m.TaskType = ReduceTask /\ m.TaskID \in Reduces /\ MapFinished
             /\ out[m.TaskID] = Maps
      BY <2>3, <3>2 DEF Inv, OrphanInv
    <3>. QED
      BY <2>1, <2>3, <3>3, ReportTaskSteps DEF StepKinds
  <2>. QED
    BY <1>5, <2>2, <2>3 DEF HandleOrphan
<1>6. CASE UNCHANGED vars
  BY <1>6 DEF vars, coordinator, disk, StepKinds, JobStutter
<1>. QED
  BY <1>1, <1>2, <1>3, <1>4, <1>5, <1>6 DEF Next

(* The coordinator, its workers and the files implement the abstract job:   *)
(* initial states map to initial states, steps to steps or stutters.        *)
THEOREM Refinement == ASSUME ~RenameCanFail PROVE Spec => ImplementsJob
<1>1. Init => Job!JobInit
  BY DEF Init, Job!JobInit, Idle, Done
<1>2. ASSUME Inv, [Next]_vars
      PROVE  [Job!JobNext]_Job!jvars
  <2>1. CASE JobStutter
    BY <2>1 DEF JobStutter, Job!jvars
  <2>2. ASSUME NEW m \in Maps, MapTasks[m] # Done,
               MapTasks' = [MapTasks EXCEPT ![m] = Done],
               UNCHANGED <<ReduceTasks, out, up>>
        PROVE  Job!CompleteMap(m)
    BY <1>2, <2>2 DEF Job!CompleteMap, Inv, TypeOK
  <2>3. ASSUME NEW r \in Reduces, ReduceTasks[r] # Done, out[r] = Maps,
               ReduceTasks' = [ReduceTasks EXCEPT ![r] = Done],
               UNCHANGED <<MapTasks, out, up>>
        PROVE  Job!CompleteReduce(r)
    BY <1>2, <2>3 DEF Job!CompleteReduce, Inv, TypeOK
  <2>4. ASSUME NEW r \in Reduces, MapFinished,
               out' = [out EXCEPT ![r] = Maps],
               UNCHANGED <<MapTasks, ReduceTasks, up>>
        PROVE  Job!WriteOutput(r) \/ UNCHANGED Job!jvars
    <3>1. {m \in Maps : MapTasks[m] = Done} = Maps
      BY <1>2, <2>4 DEF Inv, CoordinatorInv
    <3>2. CASE out[r] = NoOutput
      BY <2>4, <3>1, <3>2 DEF Job!WriteOutput
    <3>3. CASE out[r] = Maps
      <4>1. out' = out
        BY <1>2, <2>4, <3>3 DEF Inv, TypeOK
      <4>. QED
        BY <2>4, <4>1 DEF Job!jvars
    <3>. QED
      BY <1>2, <3>2, <3>3 DEF Inv, CoordinatorInv
  <2>5. ASSUME up, AllFinished, up' = FALSE, UNCHANGED <<MapTasks, ReduceTasks, out>>
        PROVE  Job!Finish
    BY <1>2, <2>5 DEF Job!Finish, Inv, CoordinatorInv
  <2>. QED
    BY <1>2, NextStepKinds, <2>1, <2>2, <2>3, <2>4, <2>5 DEF StepKinds, Job!JobNext
<1>. QED
  BY <1>1, <1>2, Invariance, PTL DEF Spec, ImplementsJob, Job!JobSpec

(* No step undoes accounted work. *)
THEOREM WorkIsNeverUndone == ASSUME ~RenameCanFail PROVE Spec => NeverUndone
<1>. DEFINE Kept ==
        /\ MapFinished => MapFinished'
        /\ AllFinished => AllFinished'
        /\ \A m \in Maps : MapTasks[m] = Done => MapTasks'[m] = Done
        /\ \A r \in Reduces :
              ReduceTasks[r] = Done => ReduceTasks'[r] = Done /\ out'[r] = out[r]
<1>1. ASSUME Inv, Inv', [Next]_vars
      PROVE  Kept
  <2>1. /\ \A m \in Maps : MapTasks[m] = Done => MapTasks'[m] = Done
        /\ \A r \in Reduces :
              ReduceTasks[r] = Done => ReduceTasks'[r] = Done /\ out'[r] = out[r]
    BY <1>1, NextStepKinds DEF StepKinds, JobStutter, Inv, TypeOK, CoordinatorInv
  <2>. QED
    BY SMTT(30), <1>1, <2>1 DEF Inv, CoordinatorInv
<1>2. Inv /\ Inv' /\ [Next]_vars => [Kept]_vars
  BY <1>1
<1>. QED
  BY <1>2, Invariance, PTL DEF Spec, NeverUndone
==============================================================================
