------------------------------- MODULE KVTest --------------------------------
(***************************************************************************)
(* The clients that the tests run against the key/value server, and the    *)
(* checks they make on what they leave behind (kvtest1/kvtest.go):         *)
(*   OneClientPut     races with the others to put to one key;             *)
(*   OneClientAppend  appends to a list under one key, by Get and Put;     *)
(*   PutAtLeastOnce   repeats a Put to a key of its own until it is OK;    *)
(*   oneClient        takes the lock of module Lock and writes to a key    *)
(*                    that the lock guards (kvsrv1/lock/lock_test.go).     *)
(* SpawnClientsAndWait runs one of them in several clients and waits until *)
(* all have stopped; then the Checker reads the key and judges, and so     *)
(* does checkPorcupine (module KVModel) on the history of operations.  A   *)
(* call of Fatalf ends in the location "fatal".                            *)
(***************************************************************************)
EXTENDS Lock, Sequences, FiniteSetsExt

CONSTANTS
    Checker,     \* the clerk of the test itself
    SharedKey,   \* "k"
    GuardedKey,  \* "l0"
    MaxIter,     \* bound: how many puts or appends each client attempts
    MaxLockLosses \* bound: how many Calls fail in the lock's test

Clients == Clerks \ {Checker}

(* The key of its own that a client uses in PutAtLeastOnce is named after it. *)
ASSUME TestAssumption ==
    /\ IsFiniteSet(Clerks) /\ Checker \in Clerks /\ Clients # {}
    /\ {SharedKey, GuardedKey} \cup Clients \subseteq Keys \ {LockKey}
    /\ MaxIter \in Nat \ {0}
    /\ MaxRounds > 0
    /\ MaxLockLosses \in 0 .. MaxLosses

VARIABLES
    fn,         \* what the clients run
    reliable,   \* whether the network is
    tpc,        \* where each clerk's program is
    iter,       \* the iterations of a client
    ver,        \* the version a client will put with
    err,        \* what the latest Put of OnePut returned
    res,        \* each client's ClntRes
    history     \* the orders that remain for the operations on each key

client == <<tpc, iter, ver, err, res>>
lock == <<lpc, rounds>>
testVars == <<vars, fn, reliable, client, lock, losses, history>>

INSTANCE KVModel

Fns == {"OneClientPut", "OneClientAppend", "PutAtLeastOnce", "oneClient"}
TestLocations ==
    {"loop", "put", "get", "read", "append", "once", "done",
     "made", "look", "enter", "leave",
     "setup", "wait", "check", "passed", "fatal"}

Entry(c, n) == [Id |-> c, N |-> n]
Entries == [Id : Clients, N : Nat]

TestTypeOK ==
    /\ LockTypeOK
    /\ \A k \in exists \ {LockKey} :
          Kvmap[k].Value \in Seq(Entries) /\ Kvmap[k].Version \in Nat \ {0}
    /\ fn \in Fns
    /\ reliable \in BOOLEAN
    /\ tpc \in [Clerks -> TestLocations]
    /\ iter \in [Clients -> 0 .. MaxIter]
    /\ ver \in [Clients -> Nat]
    /\ err \in [Clients -> {OK, ErrVersion, ErrMaybe}]
    /\ res \in [Clients -> [Nok : Nat, Nmaybe : Nat]]
    /\ DOMAIN history = Keys
-----------------------------------------------------------------------------
(* The clerk's program is at l, and the operation it called has returned. *)
At(c, l) == tpc[c] = l /\ phase[c] = "idle"
Jump(c, l) == tpc' = [tpc EXCEPT ![c] = l]

GetJson(c, k) == Invoke(c, [op |-> "Get", Key |-> k])
PutJson(c, k, v, n) == Invoke(c, [op |-> "Put", Key |-> k, Value |-> v, Version |-> n])

Fatalf(c) == Jump(c, "fatal") /\ UNCHANGED <<vars, iter, ver, err, res>>

(* Get and Put of kvtest1/porcupine.go enter an operation that has returned *)
(* in the OpLog, with its interval.                                         *)
OpLogAppend(c) ==
    LET k == op[c].Key
        pending == {d \in Clerks : phase[d] # "idle" /\ op[d].Key = k}
    IN  history' = [history EXCEPT ![k] = Returned(@, c, pending, op, result'[c])]

(* checkPorcupine, at the end or at any time: no order is left for a key. *)
Illegal == \E k \in Keys : history[k] = {}

(* The counters of OneClientPut and of OneClientAppend. *)
Counted(c, e) ==
    IF e = OK THEN [res EXCEPT ![c].Nok = @ + 1] ELSE [res EXCEPT ![c].Nmaybe = @ + 1]

(* The head of a client's loop: another iteration, or it has been told that *)
(* it is done.  Clients are given the time for at least one iteration.      *)
Iterate(c, f) ==
    /\ fn = f /\ At(c, "loop") /\ At(Checker, "wait")
    /\ iter[c] < MaxIter
    /\ iter' = [iter EXCEPT ![c] = @ + 1]

Stop(c) ==
    /\ At(c, "loop") /\ iter[c] > 0
    /\ Jump(c, "done")
    /\ UNCHANGED <<vars, iter, ver, err, res>>
-----------------------------------------------------------------------------
(***************************************************************************)
(* OneClientPut and OnePut                                                 *)
(***************************************************************************)
OnePutWrite(c, n) == PutJson(c, SharedKey, <<Entry(c, n)>>, n) /\ Jump(c, "put")

OneClientPut(c) ==
    /\ Iterate(c, "OneClientPut")
    /\ OnePutWrite(c, ver[c])
    /\ UNCHANGED <<ver, err, res>>

OnePutAnswered(c) ==
    /\ At(c, "put")
    /\ \/ result[c].Err = ErrNoKey /\ Fatalf(c)
       \/ /\ result[c].Err # ErrNoKey
          /\ err' = [err EXCEPT ![c] = result[c].Err]
          /\ GetJson(c, SharedKey)
          /\ Jump(c, "get")
          /\ UNCHANGED <<iter, ver, res>>

(* "my put?" *)
Mine(c) == err[c] = OK /\ result[c].Version = ver[c] + 1

WrongValue(c) ==
    LET e == result[c].Value[1] IN Mine(c) /\ e.Id # c /\ e.N # ver[c]

OnePutRead(c) ==
    /\ At(c, "get")
    /\ \/ (result[c].Err = ErrNoKey \/ WrongValue(c)) /\ Fatalf(c)
       \/ /\ result[c].Err = OK /\ ~WrongValue(c)
          /\ ver' = [ver EXCEPT ![c] = result[c].Version]
          /\ \/ /\ err[c] = ErrVersion
                /\ OnePutWrite(c, result[c].Version)
                /\ UNCHANGED res
             \/ /\ err[c] # ErrVersion
                /\ res' = Counted(c, err[c])
                /\ Jump(c, "loop")
                /\ UNCHANGED vars
          /\ UNCHANGED <<iter, err>>
-----------------------------------------------------------------------------
(***************************************************************************)
(* OneClientAppend                                                         *)
(***************************************************************************)
AppendRead(c) == GetJson(c, SharedKey) /\ Jump(c, "read")

OneClientAppend(c) ==
    /\ Iterate(c, "OneClientAppend")
    /\ AppendRead(c)
    /\ UNCHANGED <<ver, err, res>>

(* Mutant: the entry is numbered one too low. *)
AppendNumberMutant(c) ==
    /\ At(c, "read")
    /\ PutJson(c, SharedKey, Append(result[c].Value, Entry(c, iter[c] - 2)),
               result[c].Version)
    /\ Jump(c, "append")
    /\ UNCHANGED <<iter, ver, err, res>>

AppendWrite(c) ==
    /\ At(c, "read")
    /\ \/ result[c].Err = ErrNoKey /\ Fatalf(c)
       \/ /\ result[c].Err = OK
          /\ PutJson(c, SharedKey, Append(result[c].Value, Entry(c, iter[c] - 1)),
                     result[c].Version)
          /\ Jump(c, "append")
          /\ UNCHANGED <<iter, ver, err, res>>

(* Mutant: the client tries again also after ErrMaybe. *)
AppendAgainMutant(c) ==
    /\ At(c, "append")
    /\ \/ /\ result[c].Err = OK
          /\ res' = Counted(c, OK)
          /\ Jump(c, "loop")
          /\ UNCHANGED <<vars, iter, ver, err>>
       \/ /\ result[c].Err # OK
          /\ AppendRead(c)
          /\ UNCHANGED <<iter, ver, err, res>>

AppendAnswered(c) ==
    /\ At(c, "append")
    /\ \/ /\ result[c].Err \in {OK, ErrMaybe}
          /\ res' = Counted(c, result[c].Err)
          /\ Jump(c, "loop")
          /\ UNCHANGED <<vars, iter, ver, err>>
       \/ /\ result[c].Err \notin {OK, ErrMaybe}
          /\ AppendRead(c)
          /\ UNCHANGED <<iter, ver, err, res>>
-----------------------------------------------------------------------------
(***************************************************************************)
(* PutAtLeastOnce                                                          *)
(***************************************************************************)
OnceWrite(c, i, n) == PutJson(c, c, <<Entry(c, i)>>, n) /\ Jump(c, "once")

PutAtLeastOnce(c) ==
    /\ Iterate(c, "PutAtLeastOnce")
    /\ OnceWrite(c, iter[c] + 1, ver[c])
    /\ UNCHANGED <<ver, err, res>>

OnceAnswered(c) ==
    LET e == result[c].Err
        next == IF e = ErrNoKey THEN ver[c] ELSE ver[c] + 1
    IN  /\ At(c, "once")
        /\ \/ e = ErrNoKey /\ ver[c] # 0 /\ Fatalf(c)
           \/ /\ e # ErrNoKey \/ ver[c] = 0
              /\ ver' = [ver EXCEPT ![c] = next]
              /\ \/ e = OK /\ Jump(c, "loop") /\ UNCHANGED vars
                 \/ e # OK /\ OnceWrite(c, iter[c], next)
              /\ UNCHANGED <<iter, err, res>>
-----------------------------------------------------------------------------
(***************************************************************************)
(* oneClient of the lock's test; it calls the clerk without the OpLog      *)
(***************************************************************************)
(* The guarded key's "" is the empty list. *)
GuardedPut(c, v, n) ==
    Invoke(c, [op |-> "Put", Key |-> GuardedKey, Value |-> v, Version |-> n])

(* The steps of MakeLock, Acquire and Release; Left calls Release. *)
LockStep(c) ==
    /\ fn = "oneClient"
    /\ lpc[c] = "ready" => tpc[c] = "made"
    /\ lpc[c] # "held"
    /\ Client(c)
    /\ tpc' = [tpc EXCEPT ![c] = IF lpc'[c] = "fatal" THEN "fatal"
                                ELSE IF lpc[c] = "release" THEN "made" ELSE @]
    /\ UNCHANGED <<iter, ver, err, res>>

MakeGuarded(c) ==
    /\ fn = "oneClient" /\ At(c, "loop") /\ Read(c, "ready")
    /\ GuardedPut(c, <<>>, 0)
    /\ Jump(c, "made")
    /\ UNCHANGED <<lock, losses, iter, ver, err, res>>

Acquired(c) ==
    /\ At(c, "made") /\ lpc[c] = "held"
    /\ Invoke(c, [op |-> "Get", Key |-> GuardedKey])
    /\ Jump(c, "look")
    /\ UNCHANGED <<lock, losses, iter, ver, err, res>>

(* "two clients acquired lock" *)
Enter(c) ==
    /\ At(c, "look")
    /\ \/ (result[c].Err # OK \/ result[c].Value # <<>>) /\ Fatalf(c)
       \/ /\ result[c].Err = OK /\ result[c].Value = <<>>
          /\ ver' = [ver EXCEPT ![c] = result[c].Version]
          /\ GuardedPut(c, <<Entry(c, 0)>>, result[c].Version)
          /\ Jump(c, "enter")
          /\ UNCHANGED <<iter, err, res>>
    /\ UNCHANGED <<lock, losses>>

(* The second Put, and then Release. *)
Leave(c) ==
    /\ At(c, "enter")
    /\ \/ result[c].Err \notin {OK, ErrMaybe} /\ Fatalf(c)
       \/ /\ result[c].Err \in {OK, ErrMaybe}
          /\ GuardedPut(c, <<>>, ver[c] + 1)
          /\ Jump(c, "leave")
          /\ UNCHANGED <<iter, ver, err, res>>
    /\ UNCHANGED <<lock, losses>>

Left(c) ==
    /\ At(c, "leave") /\ lpc[c] = "held"
    /\ \/ result[c].Err \notin {OK, ErrMaybe} /\ Fatalf(c) /\ UNCHANGED <<lock, losses>>
       \/ /\ result[c].Err \in {OK, ErrMaybe}
          /\ ReleaseStart(c)
          /\ UNCHANGED client

(* The time is up: the client has been told that it is done. *)
StopLocking(c) ==
    /\ At(c, "made") /\ Read(c, "ready") /\ rounds[c] = MaxRounds
    /\ Jump(c, "done")
    /\ UNCHANGED <<vars, lock, losses, iter, ver, err, res>>

LockTest(c) ==
    \/ LockStep(c) \/ MakeGuarded(c) \/ Acquired(c) \/ Enter(c)
    \/ Leave(c) \/ Left(c) \/ StopLocking(c)
-----------------------------------------------------------------------------
(***************************************************************************)
(* The test itself                                                         *)
(***************************************************************************)
(* Clients that append start from an empty list. *)
Setup ==
    /\ At(Checker, "setup")
    /\ PutJson(Checker, SharedKey, <<>>, 0)
    /\ Jump(Checker, "wait")
    /\ UNCHANGED <<iter, ver, err, res>>

(* SpawnClientsAndWait has returned, and the key, or one of the keys, is    *)
(* read.                                                                    *)
Check ==
    /\ fn # "oneClient"
    /\ At(Checker, "wait") /\ \A c \in Clients : tpc[c] = "done"
    /\ \E k \in IF fn = "PutAtLeastOnce" THEN Clients ELSE {SharedKey} :
          GetJson(Checker, k)
    /\ Jump(Checker, "check")
    /\ UNCHANGED <<iter, ver, err, res>>

Total(field) == FoldSet(LAMBDA c, n : n + res[c][field], 0, Clients)

CheckPutConcurrent(n) ==
    IF reliable THEN n = Total("Nok") ELSE n <= Total("Nok") + Total("Nmaybe")

(* One pass over the list: the next N expected of each client, how many it *)
(* has skipped, and whether an N came too late.                            *)
ScanEntry(s, e) ==
    [expect |-> [s.expect EXCEPT ![e.Id] = e.N + 1],
     skipped |-> IF e.N > s.expect[e.Id]
                 THEN [s.skipped EXCEPT ![e.Id] = @ + (e.N - s.expect[e.Id])]
                 ELSE s.skipped,
     old |-> s.old \/ s.expect[e.Id] > e.N]

Scan(es) ==
    LET none == [c \in Clients |-> 0]
        upTo[i \in 0 .. Len(es)] ==
            IF i = 0 THEN [expect |-> none, skipped |-> none, old |-> FALSE]
            ELSE ScanEntry(upTo[i - 1], es[i])
    IN  upTo[Len(es)]

CheckAppends(es, n) ==
    LET s == Scan(es) IN
    /\ ~s.old
    /\ Len(es) + 1 = n
    /\ \A c \in Clients :
          /\ s.skipped[c] <= res[c].Nmaybe
          /\ s.expect[c] <= res[c].Nok + res[c].Nmaybe

(* The value of a client's latest PutAtLeastOnce and the version it returned. *)
CheckGet(c, es, n) == es = <<Entry(c, iter[c])>> /\ n = ver[c]

Passes ==
    LET r == result[Checker] IN
    /\ r.Err = OK
    /\ CASE fn = "OneClientPut" -> CheckPutConcurrent(r.Version)
         [] fn = "OneClientAppend" -> CheckAppends(r.Value, r.Version)
         [] fn = "PutAtLeastOnce" -> CheckGet(op[Checker].Key, r.Value, r.Version)

Judge ==
    /\ At(Checker, "check")
    /\ Jump(Checker, IF Passes THEN "passed" ELSE "fatal")
    /\ UNCHANGED <<vars, iter, ver, err, res>>

(* The lock's test has nothing more to check. *)
runClients ==
    /\ fn = "oneClient"
    /\ At(Checker, "wait") /\ \A c \in Clients : tpc[c] = "done"
    /\ Jump(Checker, "passed")
    /\ UNCHANGED <<vars, iter, ver, err, res>>
-----------------------------------------------------------------------------
TestInit ==
    /\ LockInit
    /\ fn \in Fns
    /\ reliable \in BOOLEAN
    /\ tpc = [c \in Clerks |->
                IF c \in Clients THEN "loop"
                ELSE IF fn = "OneClientAppend" THEN "setup" ELSE "wait"]
    /\ iter = [c \in Clients |-> 0]
    /\ ver = [c \in Clients |-> 0]
    /\ err = [c \in Clients |-> OK]
    /\ res = [c \in Clients |-> [Nok |-> 0, Nmaybe |-> 0]]
    /\ history = [k \in Keys |-> {KvInit}]

Run(c) ==
    /\ \/ LockTest(c)
       \/ /\ \/ Stop(c)
             \/ OneClientPut(c) \/ OnePutAnswered(c) \/ OnePutRead(c)
             \/ OneClientAppend(c) \/ AppendWrite(c) \/ AppendAnswered(c)
             \/ PutAtLeastOnce(c) \/ OnceAnswered(c)
          /\ UNCHANGED <<lock, losses>>
    /\ UNCHANGED <<fn, reliable, history>>

Test ==
    /\ Setup \/ Check \/ Judge \/ runClients
    /\ UNCHANGED <<fn, reliable, lock, losses, history>>

Operate(c) ==
    /\ Network(c)
    /\ \/ fn # "oneClient" /\ phase'[c] = "idle" /\ OpLogAppend(c)
       \/ (fn = "oneClient" \/ phase'[c] # "idle") /\ UNCHANGED history
    /\ UNCHANGED <<fn, reliable, client>>

CallIsLost(c) ==
    /\ ~reliable
    /\ fn = "oneClient" => losses < MaxLockLosses
    /\ Lose(c)
    /\ UNCHANGED <<fn, reliable, client, history>>

TestNext ==
    \/ Test
    \/ \E c \in Clients : Run(c)
    \/ \E c \in Clerks : Operate(c) \/ CallIsLost(c)

TestSpec == TestInit /\ [][TestNext]_testVars

(* Clients and test keep running, and once no more Calls fail every Call is *)
(* served and answered.                                                     *)
TestFairSpec ==
    /\ TestSpec
    /\ WF_testVars(Test \/ Operate(Checker))
    /\ \A c \in Clients : WF_testVars(Run(c) \/ Operate(c))
-----------------------------------------------------------------------------
(***************************************************************************)
(* Properties                                                              *)
(***************************************************************************)

(* The tests never call Fatalf on this server and clerk, whatever Calls are *)
(* lost and however the clients are interleaved: no client gets an error it *)
(* does not expect, and the Checker's counts of puts, its scan of the       *)
(* appended list and its expected version come out right.                   *)
NoFatalf == \A c \in Clerks : tpc[c] # "fatal"

(* A client whose Put was OK and that reads the next version reads its own  *)
(* value.  The test at kvtest.go:217 is weaker: it complains only if the    *)
(* client and the version are both wrong.                                   *)
OwnPutIsRead ==
    \A c \in Clients :
        At(c, "get") /\ Mine(c) => result[c].Value = <<Entry(c, ver[c])>>

(* No acknowledged append is lost, and none is made twice: between its      *)
(* iterations a client has as many entries in the list as were acknowledged, *)
(* and at most one more for each ErrMaybe.                                  *)
AppendsKept ==
    fn = "OneClientAppend" =>
        \A c \in Clients :
            LET list == Kvmap[SharedKey].Value
                mine == {i \in DOMAIN list : list[i].Id = c}
            IN  At(c, "loop") /\ iter[c] > 0 =>
                    Cardinality(mine) \in res[c].Nok .. res[c].Nok + res[c].Nmaybe

(* checkPorcupine never finds the history illegal: with the errors that the *)
(* clerks return, ErrMaybe included, the operations have at any time an     *)
(* order that agrees with their intervals and with KvModel.                 *)
HistoryIsLegal == ~Illegal

(* Once the network stops losing Calls the test comes to an end: no client  *)
(* repeats a Put with a stale version for ever, and no lost answer leaves   *)
(* the lock taken, so that every client gets through all its Acquires and   *)
(* Releases.                                                                *)
TestEnds == <>[](tpc[Checker] \in {"passed", "fatal"})
==============================================================================
