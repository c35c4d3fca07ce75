---------------------------- MODULE MCFileUpload ----------------------------
(* Instances of FileUpload: which uploads meet, and what may disturb them,  *)
(* is chosen in Init.                                                       *)
EXTENDS FileUpload

CONSTANTS a, b, u1, u2, m1, m2, h1, h2

File(m, h) == [snapshot |-> FALSE, meta |-> m, hash |-> h]
Snapshot(m, h) == [snapshot |-> TRUE, meta |-> m, hash |-> h]
Ask(made, cut, f, g, faults, extras, deletes) ==
  [made |-> made, parts |-> cut, up |-> [u \in {u1, u2} |-> IF u = u1 THEN f ELSE g],
   faults |-> faults, extras |-> extras, deletes |-> deletes]

\* One upload, a fault and an extra or a deletion.
Alone ==
  {Ask({u1}, {1, 2}, File(m1, h1), File(m1, h1), 1, 1, 0),
   Ask({u1}, {1, 2}, Snapshot(m1, h1), Snapshot(m1, h1), 1, 0, 1)}
\* The same content for two ids, in the net disk and as a snapshot.
SharedFile == {Ask({u1, u2}, {1}, File(m1, h1), File(m2, h1), 0, 0, 0)}
SharedSnapshot == {Ask({u1, u2}, {1}, Snapshot(m1, h1), Snapshot(m2, h1), 1, 0, 2)}
\* A removal and a flash upload of the same content, and nothing fails.
RemovedWhileReused == {Ask({u1, u2}, {1}, Snapshot(m1, h1), Snapshot(m2, h1), 0, 0, 1)}
AllAsks == Alone \cup SharedFile \cup SharedSnapshot
=============================================================================
