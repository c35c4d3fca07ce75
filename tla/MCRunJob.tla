------------------------------ MODULE MCRunJob ------------------------------
(***************************************************************************)
(* Instances of RunJob for TLC.                                            *)
(***************************************************************************)
EXTENDS RunJob

CONSTANTS s1, i1, i2, o1

OneSub == {s1}
TwoInputs == {i1, i2, o1}
Owned == [f \in Files |-> s1]
Kinds == [f \in Files |-> IF f = o1 THEN "OUT" ELSE "IN"]
Spack == [s \in Subs |-> "Spack"]

\* 25 h 01 min 05 s
LongRun == [node_count |-> 0, cpu_cores |-> 0, max_wall_time |-> 90065, max_cpu_time |-> 0]
=============================================================================
