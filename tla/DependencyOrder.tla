-------------------------- MODULE DependencyOrder --------------------------
(***************************************************************************)
(* What the workflow engine promises about order, and nothing else: a node *)
(* is released for processing only after every one of its predecessors has *)
(* succeeded.  The status documentation calls a node that is not released  *)
(* yet Standby: it waits for the preceding jobs to complete, and only then *)
(* can its processing begin (models/workflow_engine/node_instance.rs).     *)
(*                                                                         *)
(* WorkflowEngine implements this specification with two histories: the    *)
(* nodes whose Running status a scheduler has committed, and the nodes for *)
(* which a Success result has been saved.                                  *)
(***************************************************************************)
CONSTANTS Node,       \* the nodes of one workflow instance
          Pred        \* Pred[n] is the set of predecessors of n

VARIABLES released,   \* the nodes released for processing so far
          succeeded   \* the nodes that have succeeded so far

vars == <<released, succeeded>>

Init ==
  /\ released = {}
  /\ succeeded = {}

\* A scheduler releases a set of nodes whose predecessors have all succeeded.
Release ==
  \E S \in SUBSET Node :
    /\ \A n \in S : Pred[n] \subseteq succeeded
    /\ released' = released \cup S
    /\ UNCHANGED succeeded

\* A released node succeeds.
Succeed ==
  \E n \in released :
    /\ succeeded' = succeeded \cup {n}
    /\ UNCHANGED released

Next == Release \/ Succeed

Spec == Init /\ [][Next]_vars

=============================================================================
