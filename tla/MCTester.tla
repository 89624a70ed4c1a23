------------------------------ MODULE MCTester -------------------------------
(* An instance of AnnotatedTester for TLC. *)
EXTENDS AnnotatedTester

CONSTANTS s1, s2, s3

MCOrder == <<s1, s2, s3>>

(* The second one heals the first; it is used with annotations only. *)
MCPartitions == {<< <<s1, s3>>, <<s2>> >>, << <<s3, s1, s2>>, <<>> >>}
==============================================================================
