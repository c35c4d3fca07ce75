------------------------------- MODULE Outcome -------------------------------
(***************************************************************************)
(* What the models of drafts and of packages share: lists, None, and the   *)
(* outcome of a chain of checks, "ok", an "error" that is returned to the  *)
(* caller, or a "panic", an unwrap of None.  The first check that does not *)
(* end "ok" ends the chain.                                                *)
(***************************************************************************)
EXTENDS Integers, Sequences, SequencesExt, FiniteSetsExt

CONSTANT NoContents   \* None, in the place of what a slot holds

\* A list, whatever is in it.
IsSeq(list) == list \in Seq(ToSet(list))

Failures == {"error", "panic"}

FirstBad(outcomes) ==
  LET bad == {i \in DOMAIN outcomes : outcomes[i] \in Failures}
  IN IF bad = {} THEN "ok" ELSE outcomes[Min(bad)]

\* The outcome of a loop over seq whose body ends in Body(element).
Check(seq, Body(_)) == FirstBad([i \in DOMAIN seq |-> Body(seq[i])])

ErrorUnless(condition) == IF condition THEN "ok" ELSE "error"
PanicUnless(condition) == IF condition THEN "ok" ELSE "panic"
=============================================================================
