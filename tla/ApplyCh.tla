------------------------------- MODULE ApplyCh -------------------------------
(***************************************************************************)
(* How committed entries leave Raft in the tests, and the locks on the     *)
(* way.  The applier of a peer (raft1/raft.go) sends them on applyCh, an   *)
(* unbuffered channel, and keeps rf.mu while it sends.  A reader           *)
(* (raft1/server.go) takes them from the channel and compares them with    *)
(* what all servers have applied, under ts.mu and every rs.mu              *)
(* (raft1/test.go).  The driver is the goroutine of the test, which calls  *)
(* the servers between two waits.                                          *)
(***************************************************************************)
EXTENDS Naturals

CONSTANTS
    n,          \* the number of servers, ts.n
    Driver,     \* the goroutine of the test
    Free,       \* the holder of a mutex that nobody holds
    MaxIndex    \* bound: how many entries are committed

Server == 1 .. n

VARIABLES
    commitIndex, lastApplied,   \* of each peer
    applier,   \* where the applier of each peer is
    rfmu,      \* whether rf.mu of each peer is held: by its applier alone for long
    rsmu,      \* who holds rs.mu of each server
    tsmu,      \* who holds ts.mu
    reader,    \* each reader: where it is, and the server whose Logs are next
    driver     \* the same of the driver

raft == <<commitIndex, lastApplied, applier, rfmu>>
vars == <<raft, rsmu, tsmu, reader, driver>>

At(l, i) == [at |-> l, i |-> i]
-----------------------------------------------------------------------------
(* AppendEntries or tryToCommit raises commitIndex and broadcasts applyCond, *)
(* with rf.mu.  A heartbeat may make several entries committed at once.      *)
apply(s) ==
    /\ rfmu[s] = Free
    /\ \E i \in commitIndex[s] + 1 .. MaxIndex : commitIndex' = [commitIndex EXCEPT ![s] = i]
    /\ applier' = [applier EXCEPT ![s] = IF @ = "wait" THEN "lock" ELSE @]
    /\ UNCHANGED <<lastApplied, rfmu, rsmu, tsmu, reader, driver>>

ApplierLock(s) ==
    /\ applier[s] = "lock" /\ rfmu[s] = Free
    /\ rfmu' = [rfmu EXCEPT ![s] = s]
    /\ applier' = [applier EXCEPT ![s] = "next"]
    /\ UNCHANGED <<commitIndex, lastApplied, rsmu, tsmu, reader, driver>>

ApplierNext(s) ==
    /\ applier[s] = "next"
    /\ \/ /\ commitIndex[s] > lastApplied[s]
          /\ lastApplied' = [lastApplied EXCEPT ![s] = @ + 1]
          /\ applier' = [applier EXCEPT ![s] = "send"]
          /\ UNCHANGED rfmu
       \/ /\ commitIndex[s] <= lastApplied[s]
          /\ rfmu' = [rfmu EXCEPT ![s] = Free]
          /\ applier' = [applier EXCEPT ![s] = "wait"]
          /\ UNCHANGED lastApplied
    /\ UNCHANGED <<commitIndex, rsmu, tsmu, reader, driver>>

(* rf.applyCh <- applyMsg, and the reader's end of it. *)
ApplierSend(s) ==
    /\ applier[s] = "send" /\ reader[s].at = "receive"
    /\ applier' = [applier EXCEPT ![s] = "next"]
    /\ reader' = [reader EXCEPT ![s] = At("check", 1)]
    /\ UNCHANGED <<commitIndex, lastApplied, rfmu, rsmu, tsmu, driver>>
-----------------------------------------------------------------------------
(* checkLogs: ts.mu, and rs.mu of one server after the other. *)
checkLogs(s) ==
    /\ reader[s].at = "check" /\ tsmu = Free
    /\ tsmu' = s
    /\ reader' = [reader EXCEPT ![s] = At("Logs", 1)]
    /\ UNCHANGED <<raft, rsmu, driver>>

ReaderLogs(s) ==
    /\ reader[s].at = "Logs"
    /\ \/ /\ reader[s].i \in Server /\ rsmu[reader[s].i] = Free
          /\ reader' = [reader EXCEPT ![s].i = @ + 1]
          /\ UNCHANGED tsmu
       \/ /\ reader[s].i > n
          /\ reader' = [reader EXCEPT ![s] = At("receive", 1)]
          /\ tsmu' = Free
    /\ UNCHANGED <<raft, rsmu, driver>>
-----------------------------------------------------------------------------
(***************************************************************************)
(* The driver                                                              *)
(***************************************************************************)
Calls(l) == driver.at = l /\ driver.i \in Server
Done(l) ==
    /\ driver.at = l /\ driver.i > n
    /\ driver' = At("idle", 1)

(* checkOneLeader, checkTerms and checkNoLeader ask one connected server    *)
(* after the other for its state; one tries to Start a command on them;     *)
(* nCommitted reads the logs of all.                                        *)
Call ==
    /\ driver.at = "idle"
    /\ \/ \E l \in {"checkOneLeader", "one"} : driver' = At(l, 1) /\ UNCHANGED tsmu
       \/ tsmu = Free /\ tsmu' = Driver /\ driver' = At("nCommitted", 1)
    /\ UNCHANGED <<raft, rsmu, reader>>

NotConnected ==
    /\ \E l \in {"checkOneLeader", "one"} : Calls(l) /\ driver' = At(l, driver.i + 1)
    /\ UNCHANGED <<raft, rsmu, tsmu, reader>>

(* GetState of rfsrv takes rs.mu and, holding it, calls GetState of Raft. *)
GetState ==
    /\ Calls("checkOneLeader") /\ rsmu[driver.i] = Free
    /\ rsmu' = [rsmu EXCEPT ![driver.i] = Driver]
    /\ driver' = At("GetState", driver.i)
    /\ UNCHANGED <<raft, tsmu, reader>>

RaftGetState ==
    /\ Calls("GetState") /\ rfmu[driver.i] = Free
    /\ rsmu' = [rsmu EXCEPT ![driver.i] = Free]
    /\ driver' = At("checkOneLeader", driver.i + 1)
    /\ UNCHANGED <<raft, tsmu, reader>>

(* one takes rs.mu only to read rs.raft, and Start takes rf.mu. *)
one ==
    /\ Calls("one") /\ rsmu[driver.i] = Free
    /\ driver' = At("Start", driver.i)
    /\ UNCHANGED <<raft, rsmu, tsmu, reader>>

Start ==
    /\ Calls("Start") /\ rfmu[driver.i] = Free
    /\ driver' \in {At("idle", 1), At("one", driver.i + 1)}
    /\ UNCHANGED <<raft, rsmu, tsmu, reader>>

nCommitted ==
    /\ \/ /\ Calls("nCommitted") /\ rsmu[driver.i] = Free
          /\ driver' = At("nCommitted", driver.i + 1)
          /\ UNCHANGED tsmu
       \/ Done("nCommitted") /\ tsmu' = Free
    /\ UNCHANGED <<raft, rsmu, reader>>

Return ==
    /\ Done("checkOneLeader") \/ Done("one")
    /\ UNCHANGED <<raft, rsmu, tsmu, reader>>

Drive ==
    \/ Call \/ NotConnected \/ GetState \/ RaftGetState
    \/ one \/ Start \/ nCommitted \/ Return
-----------------------------------------------------------------------------
Init ==
    /\ commitIndex = [s \in Server |-> 0]
    /\ lastApplied = [s \in Server |-> 0]
    /\ applier = [s \in Server |-> "lock"]
    /\ rfmu = [s \in Server |-> Free]
    /\ rsmu = [s \in Server |-> Free]
    /\ tsmu = Free
    /\ reader = [s \in Server |-> At("receive", 1)]
    /\ driver = At("idle", 1)

Apply(s) == ApplierLock(s) \/ ApplierNext(s) \/ ApplierSend(s)
Check(s) == checkLogs(s) \/ ReaderLogs(s)

Next == Drive \/ \E s \in Server : apply(s) \/ Apply(s) \/ Check(s)

(* Every goroutine runs, and a goroutine that waits for a mutex gets it if  *)
(* the mutex is released again and again (sync.Mutex's starvation mode).    *)
FairSpec ==
    /\ Init /\ [][Next]_vars
    /\ SF_vars(Drive)
    /\ \A s \in Server : SF_vars(Apply(s)) /\ SF_vars(Check(s))
-----------------------------------------------------------------------------
(* The readers keep reading "so that Raft doesn't block holding locks"      *)
(* (server.go:113): the applier of a peer, which holds rf.mu while it       *)
(* sends, does not stay in the send for ever.                               *)
RaftDoesNotBlock ==
    \A s \in Server : applier[s] = "send" ~> applier[s] # "send"
==============================================================================
