----------------------------- MODULE Annotation ------------------------------
(***************************************************************************)
(* The annotation of failures in a test's visualization (tester1/          *)
(* annotation.go).  The tests report what they do to the servers, finfo    *)
(* keeps it, and a continuous annotation with the tag "$ Failure" shows    *)
(* which servers can reach each other and which ones are down.             *)
(* Of its text only what it says is kept, and of the annotations that have *)
(* ended only whether one is among them that never began.                  *)
(***************************************************************************)
CONSTANT Servers

VARIABLES
    finfo,        \* connected, a flag per server, and crashed, a set, of FrameworkInfo
    continuous,   \* the Description of the annotation that is going on, if any
    stray         \* an annotation was ended that did not exist

mkFrameworkInfo == [connected |-> [i \in Servers |-> TRUE], crashed |-> {}]

(* The annotation that went on before, if any, has ended. *)
annotateContinuousColor(desp) ==
    /\ continuous' = {desp}
    /\ UNCHANGED stray

(* If there is none, the zero value of one is appended all the same. *)
annotateContinuousEnd ==
    /\ continuous' = {}
    /\ stray' = (stray \/ continuous = {})

(* Each disconnected server sits in its own partition, the connected ones in *)
(* one; the crashed ones are listed apart.                                   *)
Description(info) ==
    LET alive == Servers \ info.crashed
        conn == {i \in alive : info.connected[i]}
    IN  [partition |-> {{i} : i \in alive \ conn} \cup ({conn} \ {{}}),
         crash |-> info.crashed]

annotateFault(info) ==
    \/ info = mkFrameworkInfo /\ annotateContinuousEnd
    \/ info # mkFrameworkInfo /\ annotateContinuousColor(Description(info))

ReportMutant(info) == finfo' = info /\ annotateFault(info)

(* finfo becomes info; nothing else is done if that is no change. *)
Report(info) ==
    /\ finfo' = info
    /\ \/ info = finfo /\ UNCHANGED <<continuous, stray>>
       \/ info # finfo /\ annotateFault(info)

AnnotateConnection(connection) == Report([finfo EXCEPT !.connected = connection])

AnnotateShutdown(ids) == Report([finfo EXCEPT !.crashed = @ \cup ids])

RestartMutant(ids) ==
    /\ finfo' = [finfo EXCEPT !.crashed = @ \ ids]
    /\ UNCHANGED <<continuous, stray>>

AnnotateRestart(ids) == Report([finfo EXCEPT !.crashed = @ \ ids])

(* It does not look at finfo, and does not change it. *)
AnnotateTwoPartitions(p1, p2) ==
    /\ annotateContinuousColor([partition |-> {p1, p2} \ {{}}, crash |-> {}])
    /\ UNCHANGED finfo

AnnotateClearFailure ==
    /\ finfo' = mkFrameworkInfo
    /\ annotateContinuousEnd
==============================================================================
