-------------------------------- MODULE Lock ---------------------------------
(***************************************************************************)
(* The lock of kvsrv1/lock/lock.go, which clients build from one key of    *)
(* the key/value server with the Clerk's Get and Put (module KVSrv).  The  *)
(* key holds Unlocked or the ClientID of the holder.  Every client makes   *)
(* its lock and then acquires and releases it several times.               *)
(***************************************************************************)
EXTENDS KVSrv

CONSTANTS
    LockKey,     \* lk.LockKey, the same for all clients
    Unlocked,    \* the value of a free lock
    MaxRounds,   \* bound: how often each client acquires the lock
    MaxLosses    \* bound: how many Calls fail

(* A client's ClientID, kvtest.RandValue(8), is represented by the client: *)
(* IDs differ from one another and from Unlocked.                          *)
ASSUME LockAssumption ==
    /\ LockKey \in Keys
    /\ Unlocked \in Values
    /\ Clerks \subseteq Values
    /\ Unlocked \notin Clerks
    /\ Empty \notin Values
    /\ MaxRounds \in Nat
    /\ MaxLosses \in Nat

VARIABLES
    lpc,      \* where each client is; "ready" is outside Acquire and Release
    rounds,   \* how often it has called Acquire
    losses    \* how many Calls have failed

lockVars == <<vars, lpc, rounds, losses>>

Locations ==
    {"start", "make", "ready", "first", "retry", "second", "confirm",
     "held", "release", "fatal"}

LockTypeOK ==
    /\ TypeOK
    /\ lpc \in [Clerks -> Locations]
    /\ rounds \in [Clerks -> 0 .. MaxRounds]
    /\ losses \in 0 .. MaxLosses
-----------------------------------------------------------------------------
LockGet == [op |-> "Get", Key |-> LockKey]
LockPut(v, n) == [op |-> "Put", Key |-> LockKey, Value |-> v, Version |-> n]

Goto(c, l) == lpc' = [lpc EXCEPT ![c] = l] /\ UNCHANGED <<rounds, losses>>

(* The client's Get has returned, with or without a value. *)
Read(c, at) == lpc[c] = at /\ phase[c] = "idle"
Missing(c) == result[c].Err = ErrNoKey

(* Mutant: a client does not recognise its own ClientID. *)
AvailableMutant(c) == result[c].Value = Unlocked

Available(c) == result[c].Value \in {Unlocked, c}

MakeLockGet(c) == lpc[c] = "start" /\ Invoke(c, LockGet) /\ Goto(c, "make")

(* Mutant: the key of a missing lock is not created. *)
MakeLockPutMutant(c) ==
    /\ Read(c, "make")
    /\ UNCHANGED vars /\ Goto(c, "ready")

MakeLockPut(c) ==
    /\ Read(c, "make")
    /\ \/ Missing(c) /\ Invoke(c, LockPut(Unlocked, 0))
       \/ ~Missing(c) /\ UNCHANGED vars
    /\ Goto(c, "ready")

(* Acquire is called. *)
AcquireStart(c) ==
    /\ lpc[c] = "ready" /\ rounds[c] < MaxRounds
    /\ Invoke(c, LockGet)
    /\ lpc' = [lpc EXCEPT ![c] = "first"]
    /\ rounds' = [rounds EXCEPT ![c] = @ + 1]
    /\ UNCHANGED losses

(* The body of a loop of Acquire after its Get: a Put of the own ClientID   *)
(* if the lock is free or already ours, otherwise a sleep and another Get.  *)
TryLock(c, at, next) ==
    /\ Read(c, at)
    /\ \/ Missing(c) /\ UNCHANGED vars /\ Goto(c, "fatal")
       \/ /\ ~Missing(c) /\ Available(c)
          /\ Invoke(c, LockPut(c, result[c].Version))
          /\ Goto(c, next)
       \/ /\ ~Missing(c) /\ ~Available(c)
          /\ Invoke(c, LockGet)
          /\ Goto(c, at)

(* The first loop tries one Put and does not look at its result. *)
AcquireFirst(c) == TryLock(c, "first", "retry")
AcquireRetry(c) == lpc[c] = "retry" /\ Invoke(c, LockGet) /\ Goto(c, "second")

(* Mutant: any answer to the Put ends Acquire. *)
AcquireConfirmMutant(c) ==
    Read(c, "confirm") /\ UNCHANGED vars /\ Goto(c, "held")

(* The second loop goes on until a Put of the own ClientID returns OK. *)
AcquireSecond(c) == TryLock(c, "second", "confirm")
AcquireConfirm(c) ==
    /\ Read(c, "confirm")
    /\ \/ result[c].Err = OK /\ UNCHANGED vars /\ Goto(c, "held")
       \/ result[c].Err # OK /\ Invoke(c, LockGet) /\ Goto(c, "second")

ReleaseStart(c) == lpc[c] = "held" /\ Invoke(c, LockGet) /\ Goto(c, "release")

(* Mutant: Release writes the version that comes after the one it read. *)
ReleasePutMutant(c) ==
    /\ Read(c, "release")
    /\ Invoke(c, LockPut(Unlocked, result[c].Version + 1)) /\ Goto(c, "ready")

ReleasePut(c) ==
    /\ Read(c, "release")
    /\ \/ /\ ~Missing(c) /\ result[c].Value = c
          /\ Invoke(c, LockPut(Unlocked, result[c].Version))
          /\ Goto(c, "ready")
       \/ /\ Missing(c) \/ result[c].Value # c
          /\ UNCHANGED vars
          /\ Goto(c, "fatal")
-----------------------------------------------------------------------------
LockInit ==
    /\ Init
    /\ lpc = [c \in Clerks |-> "start"]
    /\ rounds = [c \in Clerks |-> 0]
    /\ losses = 0

Client(c) ==
    \/ MakeLockGet(c) \/ MakeLockPut(c)
    \/ AcquireStart(c) \/ AcquireFirst(c) \/ AcquireRetry(c)
    \/ AcquireSecond(c) \/ AcquireConfirm(c)
    \/ ReleaseStart(c) \/ ReleasePut(c)

Network(c) == (Serve(c) \/ Return(c)) /\ UNCHANGED <<lpc, rounds, losses>>

Lose(c) ==
    /\ losses < MaxLosses
    /\ CallFails(c)
    /\ losses' = losses + 1
    /\ UNCHANGED <<lpc, rounds>>

LockNext == \E c \in Clerks : Client(c) \/ Network(c) \/ Lose(c)

LockSpec == LockInit /\ [][LockNext]_lockVars
-----------------------------------------------------------------------------
(***************************************************************************)
(* Properties                                                              *)
(***************************************************************************)

(* From the end of Acquire until Release has begun to write.                *)
Holds(c) == lpc[c] \in {"held", "release"}

(* Mutual exclusion: Acquire never returns to a client while another one    *)
(* holds the lock, whatever Calls were lost and sent again.                 *)
MutualExclusion == \A c, d \in Clerks : Holds(c) /\ Holds(d) => c = d

(* The log.Fatalf calls of Acquire and Release are unreachable: the lock's  *)
(* key exists, and a client that releases the lock finds its own ClientID.  *)
NeverFatal == \A c \in Clerks : lpc[c] # "fatal"

(* Release ignores what its Put returns.  It may: whether that is OK or     *)
(* ErrMaybe, the lock has been given back when Release returns.             *)
ReleaseTakesEffect ==
    \A c \in Clerks :
        Read(c, "ready") /\ rounds[c] > 0 => performed[c] = 1
==============================================================================
