----------------------------- MODULE MCNetDisk -----------------------------
EXTENDS NetDisk, TLC

CONSTANTS u, v, d, f, m, n, x, r1, r2, r3, t1, t2

OwnerC == [o \in {d, f} |-> IF o = d THEN u ELSE v]
FlowOfC == [o \in {m, n} |-> f]

Ask(k, t, w, by) == [kind |-> k, target |-> t, user |-> w, via |-> by, name |-> x]

\* A draft's file by its owner and by another user, node files sent by the
\* runner and as a flash upload, files of the user's own in the root, in a
\* directory that may not be there, with another user, and in another file.
RequestsC ==
  {Ask("draft", d, w, "handler") : w \in {u, v}}
  \cup {Ask("node", k, v, "runner") : k \in {m, n}} \cup {Ask("node", n, v, "handler")}
  \cup {Ask("normal", None, w, "handler") : w \in {u, v}}
  \cup {Ask("normal", i, u, "handler") : i \in {RootId(u), NodeId(n)}}
  \cup {Ask("normal", FileId(r), u, "handler") : r \in Uploads}

\* The uploads, and the times of day, are interchangeable.
Symmetry == Permutations(Uploads) \cup Permutations(Stamps)
=============================================================================
