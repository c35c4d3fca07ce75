------------------------------- MODULE MCDraft -------------------------------
(* Drafts of two nodes that try every check of the validation, and chains of *)
(* three nodes with batches of batches, slots filled no times and slots with *)
(* two strategies among them.                                                *)
EXTENDS Draft

Own(n, s, count) == [i \in 1..count |-> <<"own", n, s, i>>]
Input(kind, contents, optional, uploaded) ==
  [kind |-> kind, contents |-> contents, optional |-> optional, uploaded |-> uploaded]
Given1(n, s) == Input("Text", Own(n, s, 1), FALSE, TRUE)
Batch(slot, kind, count, rename) ==
  [slot |-> slot, kind |-> kind, count |-> count, rename |-> rename]
Match(slot, count) == Batch(slot, "MatchRegex", count, TRUE)
From(slot) == Batch(slot, "FromBatchOutputs", 0, TRUE)
Edge(from, to, slotFrom, slotTo) ==
  [from |-> from, to |-> to, slots |-> <<[from |-> slotFrom, to |-> slotTo]>>]

FirstSlots ==
  {Input("Text", Own("a", "x", c), o, TRUE) : c \in 0..2, o \in BOOLEAN}
  \union {Input("File", Own("a", "x", c), FALSE, u) : c \in 0..1, u \in BOOLEAN}
  \union {Input(k, NoContents, FALSE, TRUE) : k \in {"Text", "File"}}

SecondSlots ==
  {Input(k, c, o, TRUE) :
     k \in {"Text", "File"}, c \in {NoContents, <<>>, Own("b", "y", 1)}, o \in BOOLEAN}

\* Two nodes; c stands for a node the draft does not have.
Pairs ==
  [nodes : {<<"a", "b">>},
   inputs : {("a" :> ("x" :> x)) @@ ("b" :> ((s :> y) @@ ("z" :> Given1("b", "z")))) @@ ("c" :> <<>>) :
               x \in FirstSlots, y \in SecondSlots, s \in {"x", "y"}},
   outputs : {("a" :> ("x" :> k)) @@ ("b" :> <<>>) @@ ("c" :> <<>>) : k \in {"Text", "File"}},
   batches : {("a" :> a) @@ ("b" :> b) @@ ("c" :> <<>>) :
                a \in {<<>>, <<Match("x", 2)>>, <<Batch("x", "MatchRegex", 2, FALSE)>>,
                       <<Batch("x", "OriginalBatch", 0, TRUE)>>, <<From("x")>>},
                b \in {<<>>, <<From("x")>>, <<From("y"), Match("z", 2)>>}},
   clusters : {("a" :> 1) @@ ("b" :> k) @@ ("c" :> 1) : k \in {0, 1}},
   relations : {<<>>, <<Edge("a", "b", "x", "y")>>, <<Edge("a", "b", "x", "x")>>,
                <<Edge("a", "c", "x", "y")>>}]

\* a -> b -> c, and maybe a -> c: outputs have the names of the batch slots they carry.
Chains ==
  [nodes : {<<"c", "b", "a">>},
   inputs : {("a" :> (("x" :> Given1("a", "x")) @@ ("w" :> Given1("a", "w"))))
             @@ ("b" :> (("y" :> Input("Text", <<>>, FALSE, TRUE)) @@ ("z" :> Given1("b", "z"))))
             @@ ("c" :> (("v" :> Input("Text", <<>>, FALSE, TRUE)) @@ ("u" :> Given1("c", "u"))))},
   outputs : {("a" :> ("x" :> "Text")) @@ ("b" :> ("y" :> "Text")) @@ ("c" :> <<>>)},
   batches : {("a" :> a) @@ ("b" :> b) @@ ("c" :> c) :
                a \in {<<>>, <<Match("x", 3)>>, <<Match("x", 2), Match("w", 2)>>, <<Match("w", 3)>>,
                       <<Match("w", 0)>>, <<Match("x", 2), Match("x", 2)>>},
                b \in {<<>>, <<From("y")>>, <<From("y"), Match("z", 2)>>, <<Match("z", 2), From("y")>>,
                       <<Match("z", 0), From("y")>>},
                c \in {<<>>, <<From("v")>>, <<From("v"), Match("u", 3)>>}},
   clusters : {("a" :> 1) @@ ("b" :> 1) @@ ("c" :> 1)},
   relations : {<<Edge("a", "b", "x", "y"), Edge("b", "c", "y", "v")>>,
                <<Edge("b", "c", "y", "v"), Edge("a", "b", "x", "y"), Edge("a", "c", "x", "v")>>}]

MCNodes == {"a", "b", "c"}
MCSlots == <<"u", "v", "w", "x", "y", "z">>
MCDrafts == Pairs \union Chains
=============================================================================
