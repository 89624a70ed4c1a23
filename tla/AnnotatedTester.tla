--------------------------- MODULE AnnotatedTester ---------------------------
(***************************************************************************)
(* A test of raft1, rsm or kvraft1 at work: it takes the servers of Tester *)
(* down, up and apart, and reports to Annotation what it has done.  script *)
(* holds the calls that the test is going to make, each of which may take  *)
(* several steps of the tester.                                            *)
(* The same module puts Calls into Tester: a behaviour is either that of a *)
(* test with its annotations and no Call, or one with Calls and no such    *)
(* order of the tester's operations (mode).                                *)
(***************************************************************************)
EXTENDS Tester

CONSTANTS
    Order,        \* the servers, in the order of sg.srvs
    Targets,      \* with Calls, the servers that the operations are about
    MaxCallOps    \* with Calls, the bound on the tester's operations

ASSUME OrderAssumption ==
    Order \in Seq(Servers) /\ Servers = {Order[k] : k \in DOMAIN Order}

VARIABLES finfo, continuous, stray, script, mode

INSTANCE Annotation

annotation == <<finfo, continuous, stray>>
allVars == <<vars, annotation, script, mode>>
-----------------------------------------------------------------------------
(***************************************************************************)
(* What the tests do                                                       *)
(***************************************************************************)
ToDo(fn, arg) == [fn |-> fn, arg |-> arg]

(* The same call for every server. *)
Each(fn) == [k \in 1 .. Len(Order) |-> ToDo(fn, Order[k])]

Play(calls) ==
    /\ mode = "annotate"
    /\ script = <<>> /\ todo = <<>> /\ ops + Len(calls) <= MaxOps
    /\ script' = calls
    /\ UNCHANGED <<vars, annotation, mode>>

(* A Partition is in effect: finfo knows nothing of it. *)
Partitioned == finfo = mkFrameworkInfo /\ continuous # {}

disconnectOne(i) ==
    /\ ~Partitioned
    /\ Play(<<ToDo("DisconnectAll", i), ToDo("AnnotateConnection", i)>>)

connectOne(i) ==
    /\ ~Partitioned /\ Up(i)
    /\ Play(<<ToDo("ConnectOne", i), ToDo("AnnotateConnection", i)>>)

shutdown(i) ==
    /\ ~Partitioned /\ Up(i)
    /\ Play(<<ToDo("ShutdownServer", i), ToDo("AnnotateShutdown", {i})>>)

shutdownAll ==
    /\ ~Partitioned /\ \A i \in Servers : Up(i)
    /\ Play(Each("ShutdownServer") \o <<ToDo("AnnotateShutdown", Servers)>>)

(* Every server is connected, also the ones that are down. *)
restart(i) == <<ToDo("StartServer", i)>> \o Each("ConnectOne") \o <<ToDo("AnnotateRestart", {i})>>

(* A test that only shuts servers down and restarts them. *)
restartOne(i) ==
    /\ ~Up(i) /\ finfo.connected = mkFrameworkInfo.connected
    /\ Play(restart(i))

(* A test that disconnects them as well. *)
churn(i) ==
    /\ ~Up(i)
    /\ Play(restart(i) \o <<ToDo("ConnectOne", i), ToDo("AnnotateConnection", i)>>)

(* StartServers, in the tests that shut all servers down. *)
restartAll(report) ==
    /\ finfo = [mkFrameworkInfo EXCEPT !.crashed = Servers]
    /\ \A i \in Servers : ~Up(i)
    /\ Play(Each("StartServer") \o Each("ConnectOne") \o <<ToDo(report, Servers)>>)

partition(p) ==
    /\ finfo = mkFrameworkInfo
    /\ Play(<<ToDo("Partition", p), ToDo("AnnotateTwoPartitions", p)>>)

heal ==
    /\ Partitioned
    /\ Play(Each("ConnectOne") \o <<ToDo("AnnotateClearFailure", {})>>)

Test ==
    \/ \E i \in Servers :
          disconnectOne(i) \/ connectOne(i) \/ shutdown(i) \/ restartOne(i) \/ churn(i)
    \/ \E report \in {"AnnotateRestart", "AnnotateClearFailure"} : restartAll(report)
    \/ \E p \in Partitions : partition(p)
    \/ shutdownAll \/ heal
-----------------------------------------------------------------------------
(***************************************************************************)
(* The calls of the script, and the steps of the tester's operations       *)
(***************************************************************************)
Makes(fn, A(_)) ==
    /\ script # <<>> /\ todo = <<>> /\ Head(script).fn = fn
    /\ A(Head(script).arg)
    /\ script' = Tail(script)
    /\ UNCHANGED mode

Operates ==
    /\ \/ Makes("DisconnectAll", DisconnectAll)
       \/ Makes("ConnectOne", ConnectOne)
       \/ Makes("ShutdownServer", ShutdownServer)
       \/ Makes("StartServer", StartServer)
       \/ Makes("Partition", Partition)
    /\ UNCHANGED annotation

set(s) == {s[n] : n \in DOMAIN s}

Reports ==
    /\ \/ Makes("AnnotateConnection", LAMBDA i : AnnotateConnection(connected))
       \/ Makes("AnnotateShutdown", AnnotateShutdown)
       \/ Makes("AnnotateRestart", AnnotateRestart)
       \/ Makes("AnnotateTwoPartitions", LAMBDA p : AnnotateTwoPartitions(set(p[1]), set(p[2])))
       \/ Makes("AnnotateClearFailure", LAMBDA x : AnnotateClearFailure)
    /\ UNCHANGED vars

TesterGoesOn ==
    /\ mode = "annotate" /\ todo # <<>>
    /\ TesterStep
    /\ UNCHANGED <<annotation, script, mode>>

(* With Calls, what is bounded is how many operations there are, and which  *)
(* servers they and the Calls are about.                                    *)
WithinBounds ==
    /\ ops' <= MaxCallOps
    /\ todo = <<>> /\ todo' # <<>> => Head(todo').srv \in Targets
    /\ srvs' \in {Servers, {}} \cup {{i} : i \in Targets}
    /\ \A c \in CallIds :
          call'[c].phase = "idle"
          \/ (call'[c].end.to \in Targets /\ call'[c].end.from \in Targets \cup {Clerk})

CallsGoOn ==
    /\ mode = "calls"
    /\ Next
    /\ WithinBounds
    /\ UNCHANGED <<annotation, script, mode>>

TestInit ==
    /\ Init
    /\ finfo = mkFrameworkInfo /\ continuous = {} /\ stray = FALSE
    /\ script = <<>>
    /\ mode \in {"calls"} \cup (IF reliable THEN {"annotate"} ELSE {})

TestNext == Test \/ Operates \/ Reports \/ TesterGoesOn \/ CallsGoOn

TestSpec == TestInit /\ [][TestNext]_allVars /\ Fairness
-----------------------------------------------------------------------------
(***************************************************************************)
(* Properties                                                              *)
(***************************************************************************)

(* Whenever a test has reported what it did, the failure annotation shows   *)
(* the servers that are down, and the others grouped as the enabled ends    *)
(* of the network really join them, whatever sequence of disconnections,    *)
(* shutdowns, restarts and partitions has led there.                        *)
FailuresAreShown ==
    mode = "annotate" /\ script = <<>> /\ todo = <<>> =>
        LET up == {i \in Servers : Up(i)}
            reach(i) == {j \in up : j = i \/ End(i, j) \in enabled}
            truth == [partition |-> {reach(i) : i \in up}, crash |-> Servers \ up]
        IN  IF continuous = {} THEN truth = [partition |-> {Servers}, crash |-> {}]
            ELSE truth \in continuous

(* "Nothing to end since there's no on-going continuous annotation" does    *)
(* not happen: annotateContinuousEnd would append an annotation without a   *)
(* beginning.                                                               *)
NothingStray == ~stray
==============================================================================
