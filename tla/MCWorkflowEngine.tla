-------------------------- MODULE MCWorkflowEngine --------------------------
(***************************************************************************)
(* Small workflows for TLC.                                                *)
(***************************************************************************)
EXTENDS WorkflowEngine
CONSTANTS a, b, c, d, s, t

NoSubs == <<>>
Fan == {<<a, b>>, <<a, c>>}
Join == {<<a, c>>, <<b, c>>}
Triangle == {<<a, b>>, <<a, c>>, <<b, c>>}
\* A join below a and b, with a milestone beside it.
Side == Triangle \cup {<<a, d>>}
BatchOfA == [x \in {s, t} |-> a]
=============================================================================
