--------------------------- MODULE MCTaskScheduler ---------------------------
(* Instances of TaskScheduler for model checking.                          *)
EXTENDS TaskScheduler

CONSTANTS t1, m1, m2, u1, c1, c2, d2

\* One task: a use case, then two collections.
OneTask == [m \in {m1} |-> t1]
OneBody == [m \in {m1} |-> <<u1, c1, c2>>]
OneStartOf == [s \in {u1, c1, c2} |-> m1]
OneKind == [s \in {u1, c1, c2} |-> IF s = u1 THEN "usecase" ELSE "collect"]

\* One task that is started twice: the message is delivered again.
TwiceTask == [m \in {m1, m2} |-> t1]
TwiceBody == [m \in {m1, m2} |-> IF m = m1 THEN <<u1>> ELSE <<d2>>]
TwiceStartOf == [s \in {u1, d2} |-> IF s = u1 THEN m1 ELSE m2]
TwiceKind == [s \in {u1, d2} |-> IF s = u1 THEN "usecase" ELSE "deploy"]
=============================================================================
