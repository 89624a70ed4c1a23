# TLA+ models of the 6.5840 labs

This directory models and verifies the Go programs under `src/src/`: a
MapReduce library, a versioned key/value server with a lock on top of it, a
Raft library, shard configurations, and the simulated network and test harness
they run on. The modules are written from the code. Paths below are relative
to `src/src/`.

`PROJECT.json` lists the components, the TLC runs, the code lines each
definition stands for, the hazards of the code, the findings and the theorems.

## 1. Inventory

| Part | Code | Modules | Concurrency and faults |
|---|---|---|---|
| MapReduce coordinator and workers | `mr/`, `main/mrcoordinator.go` | `MapReduce`, `MapReduceJob` | RPC handlers under a mutex; worker processes that crash, are slow, and run a task twice; a 10 s timeout |
| MapReduce applications, sequential reference | `mrapps/`, `main/mrsequential.go`, `main/mrworker.go` | `MapReduceJob` (reference only) | user code |
| Key/value server and clerk | `kvsrv1/server.go`, `kvsrv1/client.go`, `kvsrv1/rpc/` | `KVSrv`, `KVStore` | lost requests and lost replies, retries |
| Lock | `kvsrv1/lock/lock.go` | `Lock` | competing clients, `ErrMaybe` |
| Clients and checks of the key/value tests, of the lock's too | `kvtest1/kvtest.go` | `KVTest` | concurrent clients, lossy network |
| Linearizability check | `models1/kv.go`, `kvtest1/porcupine.go` | `KVModel`, `KVTest` | histories of overlapping operations |
| Raft peers | `raft1/raft.go`, `raft1/raft_struct.go` | `Raft` | goroutines with and without the lock, reordering, loss, restarts |
| Raft test support | `raft1/server.go`, `raft1/test.go` | `ApplyCh`; `Raft` (`checkLogs`, `checkOneLeader`) | three mutexes and an unbuffered channel |
| Simulated network | `labrpc/labrpc.go` | `LabRPC`, `RPC` | dropped requests and replies, disabled ends, killed servers |
| Test harness | `tester1/srv.go`, `group.go`, `clnts.go`, `persister.go`, `config.go` | `Tester`, `AnnotatedTester` | shutdown, restart and partition while Calls are under way |
| Annotations of failures | `tester1/annotation.go` | `Annotation`, `AnnotatedTester` | what a test reports against what it has done |
| Shard configurations | `shardkv1/shardcfg/shardcfg.go` | `ShardConfig` | sequential |
| Replicated state machine, key/value over Raft, sharded key/value | `kvraft1/`, `shardkv1/` | none | stubs in this repository |
| Gob wrapper, old main programs | `labgob/`, `main/` | none | encoding |

How they interact: every service talks through `labrpc` (MapReduce alone uses
Go's `net/rpc` over a Unix socket). The harness owns the network, starts and
kills servers, and hands each incarnation a copy of the last one's Persister.
The lock and the test clients use the key/value server only through its clerk,
and their modules extend `KVSrv` accordingly.

## 2. Modules and their correspondence to the code

A critical section of a mutex is one step. Work between critical sections, in
another goroutine or in another process is a step of its own. Definitions keep
the names of the code where TLA+ allows it.

**MapReduce.** `MapTasks`, `ReduceTasks`, `MapFinished` and `AllFinished` are
the coordinator's fields; `MapAge` and `ReduceAge` are the time since
`StartTime`, in ticks, capped just beyond the timeout. `GetTask` (with
`checkTimeout`) and `ReportTask` are the handlers. A worker is at one of the
places of its loop (`pc`); `doMap` renames one intermediate file per step and
`doReduceRead` reads one per step. `files` and `out` are the disk, which
survives a worker's `Crash`. The content of an output file is the set of maps
it covers. A worker that dies inside `call` may leave a request behind
(`orphans`) that is handled later. Worker processes that die are replaced by
new ones, as in the tests. `MapReduceJob` is the job without workers, files and
timeouts.

**KVSrv.** `Kvmap` and `exists` are the server's map. `Get` and `Put` are the
handlers, `Invoke` starts a clerk's operation, `CallFails` is a Call that
returns false before or after the handler ran, and `Return` ends the operation
with `Result`, which turns `ErrVersion` into `ErrMaybe` after a retry.
`performed` is a history variable: how often the current Put took effect.
`KVStore` is the linearizable store of `models1/kv.go`: each operation takes
effect at one instant between call and return.

**Lock** extends `KVSrv`: `lpc` is the place of each client in `MakeLock`,
`Acquire` and `Release`; each of its steps issues a clerk operation or uses its
result. **KVTest** extends `Lock`: the clients run one of `OneClientPut`,
`OneClientAppend`, `PutAtLeastOnce` (with `SpawnClientsAndWait`) and `oneClient`
of the lock's test, which writes a key inside the lock; then the `Checker`
judges by `CheckPutConcurrent`, `CheckAppends` or `CheckGet`, and by the
history. A `Fatalf` is the location `fatal`. **KVModel** is that last check. It
keeps, for each key, every order of the operations that `models1/kv.go` still
allows (`history`), so that a history is linearizable iff an order is left;
`Accepts` and `Step` are the model's `Step`, `OpLogAppend` adds what returns.

**LabRPC** follows a Call through `processReq`: sent, accepted, waiting for the
handler, reply rechecked, delivered. `enabled`, `servers`, `reliable` and `done`
are the network's state. **Tester** adds servers with incarnations (`gen`,
`live`), Persisters (`saved`) and the clerk's ends. An operation of the tester
is a list of steps (`todo`) between which the network goes on, in the order of
the code (`ShutdownServer`: disconnect, `DeleteServer`, `shutdownServer`). A
service is abstracted to a handler that saves its request before it returns.
`Cleanup` deletes the clerk's ends, kills the services and closes the network; that a
service is killed (`Killed`) shows in that its handlers need not return any more.
**RPC** is what a caller may rely on: a Call that returned true was executed,
none is executed twice, one that returned false may be executed later, and
nothing that was executed is forgotten.

`revived` of `Tester` is a history variable: the killed incarnations that were
connected while they were down. `restart` of the Raft tests brings that about,
because `ConnectAll` connects every server, up or not, and the goroutines of a
killed peer then talk to the others again (`group.go:254` says "Shutdown a
server by isolating it"). `KilledAreCutOff` says that this is the only way.
`Restart` of `Raft` does not model it: there the old incarnation is gone, but for
the requests it had sent.

**Annotation** is the state behind the continuous annotation of failures:
`finfo`, the annotation that is going on, and whether one was ended that never
began. **AnnotatedTester** puts it beside `Tester`: `script` is the list of
calls a test is about to make (disconnect and report, shut down and report,
restart and report, partition and heal), of which those to the tester take
several steps. The same module runs Calls beside the operations of the tester;
a behaviour does the one or the other (`mode`), since annotations do not depend
on Calls.

**Raft.** The fields of `Raft` are variables of the same name (indices are
those of the Go slice plus one). `spawned` counts goroutines that have been
started and have not run yet, `elections` holds the executions of
`becomeCandidate`, `jobs` those of `tryToCommit` with their waiter (about to
start, awake, asleep in `cond.Wait`, done), and `calls` the goroutines that send
`AppendEntries`. What such a goroutine does without `rf.mu` is divided as the
lines of the code are: it reads `LeaderCommit`, `PrevLogIndex`, `PrevLogTerm`
and `Entries` in a step each (`readLeaderCommit` ... `readEntries`), so that the
arguments may come from different states of the peer; it computes the new
`nextIndex` in one step (`heartBeatReply`, `commitReply`) and writes it in
another (`writeNextIndex`), so that an update may be lost; and `tryToCommit`
adopts a term one step after it has compared it (`commitAdopt`). `Unlocked`
keeps the sections of `rf.mu` apart where a heartbeat holds it across two steps.
A Call that returns false may leave its request on the way: it is `late`, is
executed at any later time or never, and nobody hears its reply. `panicked`
records an index out of range. `logs` is what the tester's reader of `applyCh`
has recorded; the applier sends what there is before an index is out of range.
`Restart` starts from nothing, because nobody calls `persist` and `readPersist`
is empty. The goroutines of the old incarnation end, and requests it has sent
stay as late ones.

**ApplyCh** is the way of committed entries out of a peer, at the level of the
locks: the applier, which holds `rf.mu` while it sends on an unbuffered channel;
the reader, which takes `ts.mu` and then each `rs.mu` in `checkLogs`; and the
goroutine of the test, which takes the same mutexes in `GetState`, `one` and
`nCommitted`. What the entries are is left to `Raft`.

**ShardConfig.** `Rebalance` is its two loops, written as recursive functions;
`JoinBalance` and `LeaveBalance` may fail half-way and keep what they have done
to `Groups`, as the code does.

## 3. Runs

Passing runs, with the number of distinct states:

| Run | Instance | States | What it shows |
|---|---|---|---|
| `mapreduce` | 2 workers, 2 maps, 2 reduces, timeout 0, 1 crash | 96 k | a reported or accounted task is on disk; no reduce meets a missing file; no partial output; nobody exits early; nothing accounted is undone; the system implements `MapReduceJob`; the job ends |
| `kvsrv` | 2 clerks, 1 key, 2 values, versions 0 to 2, any number of losses | 181 k | Put is performed at most once and its answer is true; the whole implements `KVStore` |
| `kvtest` | 2 clients and the checker, 2 iterations or rounds, 2 losses (1 with the lock) | 342 k | no check of the tests fails; a client reads its own put; acknowledged appends are kept and made once; every history has an order that the model allows; the lock excludes, its fatal branches are unreachable, `Release` has released when it returns; the test ends, with everyone through |
| `tester` | 3 servers; 1 Call and 3 operations on two of them, or 13 annotated operations on all | 202 k | a positive reply is persisted; a registered server is the live incarnation, except during its shutdown or start; killed incarnations are cut off; links are whole; Calls implement `RPC` and return; the annotation shows the servers that are down and the groups the network really has; nothing is ended that did not begin |
| `shardconfig` | 4 shards, 5 groups, 4 changes | 46 k | `CheckConfig` passes after every successful change; as few shards move as any balanced assignment needs |
| `raft_replication` | 3 peers under one leader: a second command while the first is on its way, or a command, a heartbeat and a loss; or two elections and a loss | 355 k | logs match; committed entries are on a majority; acknowledged entries stay; no panic; no waiter sleeps through its majority; the leader applies in the end what it accepted; `becomeCandidate` always returns |
| `raft_leader_changes` | 3 peers: two elections with a loss and a restart; or a deposed leader beside a new one, with two commands, or a command and a heartbeat; or a deposed one whose term grows while it is told of the new one; or a restart during replication | 541 k | types, which hold only because `nextIndex` stops at 1; an entry's `Index` is its place in the log; a term falls only by a restart or an adoption without the lock |

Runs that end in a counterexample, each a disagreement between the code and
something the repository says (quoted in `PROJECT.json`, "findings"):

| Run | Violated | Why |
|---|---|---|
| `mapreduce_rename_fails` | `ReportAfterCompletion` | the error of `os.Rename` is ignored and the task is reported |
| `raft_two_leaders` | `ElectionSafety` | `becomeLeader` runs in a goroutine and does not look at state and term again |
| `raft_diverge` | `StateMachineSafety` | a heartbeat advances `commitIndex` over entries that were not compared |
| `raft_panic` | `NoPanic` | a `tryToCommit` of a deposed leader moves `nextIndex` behind the end of a log that was cut |
| `raft_apply_blocks` | `RaftDoesNotBlock` | the applier sends with `rf.mu` held, `GetState` of the test's server waits for `rf.mu` with `rs.mu` held, and the reader waits for `rs.mu` in `checkLogs`: a circle |

### Bounds and why they are enough

- *MapReduce.* Two workers suffice for a duplicate execution beside the
  original; two maps and two reduces for half-written and half-read data; one
  crash for an orphaned request. Timeout 0 means that a task expires after one
  tick, so that every order of expiry, late report and re-assignment occurs.
  The invariants and the refinement are also proved for all values.
- *Key/value.* Two clerks race on one key; versions 0 to 2 give right, old and
  future versions. Losses are unbounded in `kvsrv`. `KVTest` needs a bound on
  losses for its liveness properties: two (`MaxLosses`) can hit an operation and
  its retry; with the lock one (`MaxLockLosses`) makes a Put of `Acquire`, of
  `Release` or inside the lock answer `ErrMaybe`. The safety of server, clerk,
  lock and of the clients that put and append is proved for any number of clerks
  and losses.
- *Tester.* With a Call, three operations (`MaxCallOps`) on two servers
  (`Targets`) cover shutdown, restart and reconnection around it. Calls do not
  influence each other in `labrpc` except through the tester, so one is enough.
  With annotations, `MaxOps` counts every operation of a script: 13 are enough
  to shut all three servers down and restart them, and for a shutdown, the
  restart of another server with its `ConnectAll`, and a reconnection. The
  properties about Calls are also proved for all values.
- *Raft.* Where the beginning of a behaviour is not what a run is about it starts
  later: `raft_replication` in `Sent`, `Led` or `Fresh`, `raft_leader_changes` in
  `Fresh`, `Deposed`, `Refused` or `Led`, `raft_diverge` in `Deposed`,
  `raft_panic` in `Overtaken`. All of these are reachable from `Init`, up to the
  counters and to late requests that are lost. The counters (`MaxElections`,
  `MaxStarts`, `MaxBeats`, `MaxLosses`, `MaxRestarts`) bound what would otherwise
  never end, and each beginning leaves a different part of them. Two commands are
  enough for two executions of `tryToCommit` that write `nextIndex` of one peer,
  and for a shorter request that arrives after a longer one; a command and a
  heartbeat for a `nextIndex` that is moved back in between; one loss for a
  request that arrives after its repetition. With more leader changes than
  `raft_replication` has, `CommittedOnMajority` and `AcknowledgedHeld` fail too,
  by the defects of the violation runs; where it has commands, its one election
  is over, and it says only that replication under one leader is right. That is
  also proved for all values. `raft_replication` fixes the leader and has no
  symmetry, because of its liveness properties.
- *ApplyCh.* Two servers and two entries; the circle needs one of each.
- *ShardConfig.* Four shards leave a remainder for three groups, and are fewer
  than five groups, so that some group serves nothing and `Rebalance` has to find
  it; four changes cover join, leave, failure and repair. The code's own number,
  12, is divided by every number of groups up to four; with five groups and three
  changes it was checked once (224 k states), as were seven shards and four
  groups (40 k states), with the same result. Balance is also proved for all
  values.

`CHECK_DEADLOCK FALSE` stands where the system may stop: a job, a test or a
program that has ended, or a bound that is used up.

### Fairness

- *MapReduce*: weak fairness of the clock, of the polling in `main`, and of
  each worker's loop: processes run while they live. None for `Crash` and none
  for the handling of a dead worker's request.
- *KVTest* with *Lock*: weak fairness of each client and of serving and answering
  Calls; the bounded losses say that the network eventually stops losing. Only
  then do the retry loops of the clerk end.
- *Tester*: weak fairness of the network's goroutines and timers, and of a
  handler as long as its server is not killed. A handler of a killed server
  may be stuck for ever, and `CallsReturn` holds all the same, because
  `processReq` polls the server. It leaves out one case: after `Cleanup` the
  services are killed but still registered, and a server's own Call whose
  handler does not return then waits for ever. No test waits for one.
- *Raft*: in `raft_replication` weak fairness of the work of elections (handlers,
  replies, `becomeLeader`, the return of `becomeCandidate`) and of the work of
  replication (senders, handlers, waiters, applier): goroutines run and a Call of
  `labrpc` returns. It is the work as a whole, not each goroutine, that goes on.
  None for timers, Start, losses and late requests.
- *ApplyCh*: strong fairness of every goroutine, because a `sync.Mutex` that is
  released again and again is given to each waiter in the end (its starvation
  mode). The counterexample is not one of a goroutine that is passed over.

## 4. Proofs

TLAPS checks the theorems below, for every value of the constants that satisfies
the modules' assumptions. Each rests on an inductive invariant, because what
the properties say follows only from what processes and messages still under
way are known to have done.

**`MapReduceProofs`** (`Inv`; assumes that renames do not fail, the case
`RenameCanFail = FALSE`). `WorkerInv` says what is on disk for each place of a
worker's loop; `OrphanInv` says the same of a report that has outlived its
sender; `CoordinatorInv` ties the statuses to the files and the phase flags to
the statuses. The order in the code matters here: `files` precede the report,
all maps precede the first reduce. Results: `TypeCorrect`, `ReportsAreSound`,
`FilesArePresent`, `OutputsAreComplete`, `NobodyLeavesEarly`,
`WorkIsNeverUndone` and `Refinement`
(every step is a step of `MapReduceJob` or a stutter).

**`KVSrvProofs`** (`IInv`). The key is `PutOK`: a Put that has been performed
has been overtaken by its key's version, so the server refuses it when it comes
again; and it can come again only after a retry, so the clerk answers
`ErrMaybe`. Results: `TypeCorrect`, `AnswersTrue`, and `Linearizable` (the
system implements `KVStore`).

Its last section is about the lock (`LInv`, on top of `IInv`). What a Get has
read is the lock's present value or its version is past (`SeenOK`); a Put of
`Acquire` that can still succeed found the lock free or its own, and whoever
owns the lock has its name in it (`PutsOK`). Results: `LockTypeCorrect`,
`Exclusion`, `NotFatal`, `Released`.

**`KVTestSteps`, `KVTestProofs`** (`TestInv`, on top of `IInv`). The programs
`OneClientPut`, `OneClientAppend` and `PutAtLeastOnce`, for any number of
clients, iterations and lost Calls. `KVTestSteps` has the server, the clerks and
two of the programs, `KVTestProofs` has `OneClientAppend`, the test and the
theorems. The invariant says of each program what is known at each of its
places:

- `PutInv`: a Put that was performed is what the next version holds, until
  somebody overwrites it, and a Get of that version has read it.
- `AppendInv`: the numbers of a client's entries increase along the list
  (`AppendList`); a client has at least as many entries as acknowledged appends
  and at most one more for each `ErrMaybe` (`EnteredOK`).
- `OnceInv`: the version of a client's own key is what its last
  `PutAtLeastOnce` returned, plus one if a Put under way has been performed.

Results: `TestTypeCorrect`, `ClientsNeverFatalf`, `ReadsOwnPut` and
`AcknowledgedAppends`. The first three say nothing of a run of `oneClient`, the
program of the lock's test, which is model-checked; the lock itself is what
`KVSrvProofs` is about. `ClientsNeverFatalf` is the part of `NoFatalf` that is
about the clients: that the Checker's totals and its scan of the list come out
right is model-checked. All four assume that lists of entries are among the
values that a key may have (`ListsAreValues`), as in the run `kvtest`.

**`TesterProofs`** (`IInv`). What is left of a shutdown or a start says what
has been done (`Underway`); the registered server is the one whose Persister is
in use; a handler that has finished has saved, unless its incarnation is not
registered any more, which `processReq` notices before it delivers (`CallOK`).
For the cut-off servers `CutOff` adds that a server counts as connected only
when it is up or was revived, and that it is isolated before the rest of its
shutdown is done; for the refinement `SavedWhenFinished` adds that a Call is in
a Persister only if its handler has finished. Results: `TypeCorrect`,
`RegisteredHolds`, `RepliesPersisted`, `ServersCutOff`, and `CallsImplementRPC`: the effect of a
Call is the step that saves it in the Persister in use, so saving in a
superseded one is a stutter, and a Call returns true only after that step.

**`RaftProofs`** (`RInv`). `LogIndexed` is not inductive, because a follower
takes entries from a Call: `CallsIndexed` says that the entries under way follow
the one that `PrevLogIndex` names, also those of late requests whose sender has
been restarted, and `CallsHaveJobs` that the `tryToCommit` a Call belongs to is
still there when its reply is used (a restart removes both).
The lemma `MergeIndexed` shows that cutting a log at the first different entry
and appending the rest keeps every entry in its place. Results: `TypeCorrect`,
`EntriesInPlace`, `NoLostMajority` (each success wakes the waiter in the step
that counts it), `TermsFallNowhereElse`. They hold although two leaders of one
term may write.

**`RaftReignProofs`** (`ReignInv`, on top of `RInv`). The safety of replication
as far as this code has it: during the first reign (`FirstReign`: at most one
election has been called and no peer has been restarted), with any number of
peers, commands, heartbeats and lost, late or reordered Calls. Beyond it the
properties are false, as `raft_two_leaders`, `raft_diverge` and `raft_panic`
show, and a restarted peer may take part in committing another entry in the place
of one it has forgotten (section 5), so that no theorem can do without the
condition. `Reign(L)` says that everything under way belongs to `L` and its
term (`Alone`), that all logs are beginnings of `L`'s log and Calls carry pieces
of it (`Replicates`), that `nextIndex` points into the log (`NextInLog`), that the
`Counter` of a `tryToCommit` is at most one more than the peers that hold its entry and are
sent nothing more on its behalf (`JobsCount`, `CallsCount`), that what is
committed is held by a majority (`Commits`) and what is applied is a beginning
of `L`'s log (`Applies`). `MergeGrows` is the reason that a late and short
`AppendEntries` takes nothing away. Results: `FirstReignNoPanic`,
`FirstReignLogMatching`, `FirstReignCommitted`, `FirstReignAcknowledged`,
`FirstReignStateMachine`.

**`ShardConfigProofs`** (`ShardInv`). `RebalanceEven`: the second loop of
`Rebalance` ends, after at most one round for each shard, with an even
distribution. The difficulty is termination, since a shard may move more than
once a priori. The argument is that a group that has received a shard is never
again the most loaded one (`Received`), so each round takes a shard out of a
group that has received none, and the number of shards outside the groups that
have falls with every round (`Progress`). `BalancedHolds`: after a successful
change `CheckConfig` passes.

*Induction and counting.* The induction theorems of the library cannot be used
with these provers, since they take an operator. Where induction is needed (the
loops of `Rebalance`) it is done by hand: the set of numbers for which the
claim fails would have a least element. The steps of `KVTestProofs` and
`RaftReignProofs` take what they need of finite sets as hypotheses
(`FiniteCounts`, `PeerCounts`); these are proved from the library at the end, in
front of the theorems, which do not have them.

*Provers.* Each of these modules begins with `USE ZenonT(20), SMTT(30)`: a leaf
goes to Zenon first and to SMT when Zenon gives up, which is several times
faster than the other order. A leaf that only one of them proves names it, and
the arithmetic that a long proof needs stands in small lemmas of its own
(`Sizes`, `Counts`, `EntryNumbers`, ...), where SMT sees nothing else.

Model-checked only: all liveness properties (fairness and `ENABLED` are out of
the prover's reach); `HistoryIsLegal`, a statement about all orders of a history;
`MovesFewest`, which compares with every balanced assignment; the Checker's part
of `NoFatalf`; the client of the lock's test; `LinksAreWhole`; the annotations; and Raft's properties under
several leaders.

## 5. What the models leave out

- *Data.* Keys, values and commands are members of small sets; sorting,
  hashing, encoding, printing and statistics are left out.
- *MapReduce.* `mapreduce.md:260` plans to stop a worker whose task timed out;
  the code does not, and the model follows the code. The unlocked read in
  `Done` is modelled as reading the current value.
- *Raft.* `raft.go` does not compile as it stands: line 253 declares
  `commitINdex`, which is not used, and line 255 compares with `commitIndex`,
  which is not declared, to decide whether to print. The model is of the program
  without the declaration and the print; line 254 between them is modelled.
  `matchIndex` is never read and left out. `args.Entries` shares the array of
  `rf.log` until `labgob` encodes it; the model takes its value when the slice is
  made. A field that is read without the lock is read in one step, with the
  value it has then. `tryToCommit` looks at `state` in the test of its wait loop
  without `rf.mu` and takes the lock afterwards; one step (`commit`) has the same
  effect, since the loop does not test again.
  `persist` is empty, and nobody calls it. A restarted peer has therefore forgotten
  its log, term and vote, and may elect a leader without what it had helped to
  commit: with two elections, two commands and one restart TLC finds
  `StateMachineSafety` violated, in 18 states. Since this part is not written yet,
  no run is kept for it.
  The goroutines of a killed peer go on after `Kill`; they are cut off by the
  harness, and what they do after `ConnectAll` has connected them again (see
  `revived`) is not modelled.
  The waiter of a deposed leader's `tryToCommit` may sleep for ever, and a
  goroutine of it whose peer has moved on to a later term is refused and sends
  for ever; both are modelled, and nothing is claimed about their end.
  `commitAdopt` can lower a term that has grown since it was compared:
  `TermsGrow` says that nothing else but a restart does.
- *Key/value.* `models1/kv.go:62` does not accept `ErrNoKey` for a Put with a
  version on a missing key, although the server returns it; `KVStore` follows
  the server, `KVModel` the code. The tests that make such a Put
  (`kvsrv_test.go:40` and `:89`) check no history, and the clients whose history
  is checked do not make one.
  The check at `kvtest.go:217` joins two complaints with `&&` and
  is weaker than `OwnPutIsRead`. `PutAtLeastOnce` always starts from version 0.
  The clerk passes one `reply` to all its retries (`client.go:54`), and `labgob`
  does not overwrite with zero values; this is safe because a Call that returns
  false leaves `reply` alone (`labrpc.go:119`).
- *Harness.* One group and one clerk; `ConnectTo` leaves ends to servers that
  are no longer allowed enabled, as the code does. `MakePartition`, which leaves
  unused zero entries for even sizes, is replaced by given partitions.
- *Annotations.* Points, intervals, checkers, colours, text, and the writing of
  the file (also on a signal) are left out. The comment `Reset the checker begin
  timestamp.` sits on an assignment to a local copy, which shows only when a
  check ends twice. `annotateContinuousEnd` goes on after `Nothing to end`;
  `NothingStray` says that the tests do not bring it about.
- *Stubs.* `kvraft1` and the services of `shardkv1` have no behaviour yet.

## 6. Plan

Done: MapReduce with its refinement and proofs; the key/value server with
linearizability; the lock; the clients of the tests, with proofs about all but
the lock's, and the check of their histories; Raft with its findings, its
waiters, the proofs about logs, terms and waiters, and those about the first
reign; the locks around `applyCh`; the network and harness, with the RPC they
implement; the annotations of failures; shard configurations, with the proof
that they are balanced.

Next:

1. `KVTest`: `oneClient` of the lock's test, so that `NoFatalf` is proved for all
   four programs.
2. `Tester`: `LinksAreWhole` as a theorem; several groups and `MakePartition`.
3. `Raft`: a killed peer that is connected again; `ElectionSafety` within the elections that no stale
   `becomeLeader` disturbs.
4. `KVSrv` over `RPC`, whose Calls `Tester` has been shown to implement, in place
   of its own loss of requests and replies.
5. `rsm`, `kvraft1` and `shardkv1` when they are implemented.
