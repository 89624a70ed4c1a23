---------------------------- MODULE MapReduceJob ----------------------------
(***************************************************************************)
(* What a MapReduce job promises, with no workers, files or timeouts:      *)
(* every map is accounted for before any output appears, an output covers  *)
(* every map (as in main/mrsequential.go, which reduces over the output of *)
(* all input files), each task is accounted for once, and the job is       *)
(* declared over only after the last reduce.                               *)
(***************************************************************************)
CONSTANTS Maps, Reduces, NoOutput

VARIABLES
    mapped,    \* maps accounted for
    reduced,   \* reduces accounted for
    output,    \* content of each output file
    finished   \* the job has been declared over

jvars == <<mapped, reduced, output, finished>>

JobInit ==
    /\ mapped = {}
    /\ reduced = {}
    /\ output = [r \in Reduces |-> NoOutput]
    /\ finished = FALSE

CompleteMap(m) ==
    /\ m \notin mapped
    /\ mapped' = mapped \cup {m}
    /\ UNCHANGED <<reduced, output, finished>>

WriteOutput(r) ==
    /\ mapped = Maps
    /\ output[r] = NoOutput
    /\ output' = [output EXCEPT ![r] = Maps]
    /\ UNCHANGED <<mapped, reduced, finished>>

CompleteReduce(r) ==
    /\ r \notin reduced
    /\ output[r] = Maps
    /\ reduced' = reduced \cup {r}
    /\ UNCHANGED <<mapped, output, finished>>

Finish ==
    /\ ~finished
    /\ reduced = Reduces
    /\ finished' = TRUE
    /\ UNCHANGED <<mapped, reduced, output>>

JobNext ==
    \/ \E m \in Maps : CompleteMap(m)
    \/ \E r \in Reduces : WriteOutput(r) \/ CompleteReduce(r)
    \/ Finish

JobSpec == JobInit /\ [][JobNext]_jvars
==============================================================================
