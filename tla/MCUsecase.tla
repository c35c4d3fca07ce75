------------------------------ MODULE MCUsecase ------------------------------
(* Packages of a text slot s1 and a file slot s2: those that try every way to *)
(* mount them, and those that try every kind of output.                       *)
EXTENDS Usecase

Ref(to, desc, nth, sort, keys) == [to |-> to, desc |-> desc, nth |-> nth, sort |-> sort, keys |-> keys]
Arg(desc, nth, sort) == Ref("arg", desc, nth, sort, {})
Env(desc, nth) == Ref("env", desc, nth, 0, {})
In == Ref("stdin", "", 0, 0, {})
File(desc) == Ref("file", desc, 0, 0, {})
Keys(desc, keys) == Ref("template", desc, 0, 0, keys)

\* z is a descriptor of nothing.
TextRefs ==
  {<<>>, <<Arg("a", 0, 0)>>, <<Arg("a", 1, 0), Arg("b", 0, 1)>>, <<Arg("z", 0, 0)>>,
   <<Arg("b", 0, 2)>>, <<Env("e", 0), In>>, <<Keys("t", {"k"})>>, <<Keys("t", {}), Env("z", 0)>>,
   <<Arg("a", 0, 0), Keys("z", {"k"})>>, <<Arg("a", 0, 0), Keys("t", {"k"})>>}
FileSlotRefs ==
  {<<>>, <<Arg("a", 1, 0)>>, <<Arg("a", 0, 0), File("in1")>>, <<Arg("b", 0, 1), File("in2")>>,
   <<File("z")>>, <<Env("f", 0), File("in1")>>, <<In, File("in2"), File("in1")>>,
   <<Keys("t", {"k"})>>, <<Keys("u", {"k", "l"}), Arg("b", 1, 1)>>}

Template(desc, content, names) == [desc |-> desc, content |-> content, names |-> names]
TemplateSets ==
  {<<>>, <<Template("t", <<Arg("a", 0, 0)>>, <<>>)>>, <<Template("t", <<>>, <<File("in1")>>)>>,
   <<Template("t", <<Env("e", 0)>>, <<Arg("b", 0, 1), File("in2")>>)>>,
   <<Template("t", <<Keys("u", {"k"})>>, <<>>)>>, <<Template("t", <<>>, <<File("z")>>)>>,
   <<Template("t", <<In>>, <<>>), Template("u", <<Arg("a", 0, 0)>>, <<In, Arg("a", 1, 0)>>)>>,
   <<Template("t", <<Arg("a", 0, 0)>>, <<>>), Template("u", <<>>, <<Env("f", 0), Arg("a", 0, 0)>>)>>}

Args == ("a" :> <<<<"-u">>, Hole, Hole>>) @@ ("b" :> <<Hole>>)
Envs == ("e" :> [key |-> "E", format |-> <<Hole>>])
        @@ ("f" :> [key |-> "E", format |-> <<<<"file">>, Hole>>])
Ins == ("in1" :> [path |-> <<"in1">>, batched |-> FALSE])
       @@ ("in2" :> [path |-> <<"in2">>, batched |-> TRUE])
Outs == ("out1" :> [path |-> <<"out1">>, batched |-> FALSE])

Slot(desc, kind, optional, refs) ==
  [desc |-> desc, kind |-> kind, optional |-> optional, refs |-> refs]
Flag(desc, sort) == [desc |-> desc, sort |-> sort]
OutSlot(desc, kind, origin, material, by) ==
  [desc |-> desc, kind |-> kind, origin |-> origin, material |-> material, appointedBy |-> by]
NoneCollected == [c \in {} |-> <<>>]

Mounting ==
  [args : {Args}, envs : {Envs}, ins : {Ins}, outs : {Outs},
   slots : {<<Slot("s1", "Text", o1, r1), Slot("s2", "File", o2, r2)>> :
              o1 \in BOOLEAN, o2 \in BOOLEAN, r1 \in TextRefs, r2 \in FileSlotRefs},
   templates : TemplateSets, infos : {{"t", "u"}, {"u"}}, parses : {{"t", "u"}, {"u"}}, named : {TRUE},
   flagArgs : {<<>>, <<Flag("b", 0)>>, <<Flag("a", 2)>>},
   flagEnvs : {<<>>}, outSlots : {<<>>}, collected : {NoneCollected},
   installed : {{}}, required : {{}}, blocked : {FALSE}]

FirstOuts ==
  {OutSlot("o1", "File", "usecase", "out1", by) : by \in {NoContents, "s1", "s2", "z"}}
  \union {OutSlot("o1", "File", "usecase", "z", NoContents), OutSlot("o1", "File", "collected", "c", NoContents)}
SecondOuts ==
  {OutSlot("o2", kind, "collected", c, NoContents) : kind \in {"Text", "File"}, c \in {"c", "z"}}

Producing ==
  [args : {Args}, envs : {Envs}, ins : {Ins}, outs : {Outs},
   slots : {<<Slot("s1", "Text", o, <<Env("e", 0)>>), Slot("s2", "File", FALSE, <<>>)>> : o \in BOOLEAN},
   templates : {<<>>}, infos : {{}}, parses : {{}}, named : BOOLEAN, flagArgs : {<<>>, <<Flag("z", 1)>>},
   flagEnvs : {<<>>, <<"f">>, <<"z">>},
   outSlots : {<<x>> : x \in FirstOuts} \union {<<x, y>> : x \in FirstOuts, y \in SecondOuts}
              \union {<<y>> : y \in SecondOuts},
   collected : {"c" :> [from |-> from, file |-> file, to |-> to] :
                  from \in {"stdout", "file"}, file \in {"o1", "z"}, to \in {"Text", "File"}},
   installed : {{}, {{}}, {{"x"}, {}}, {{"x"}}}, required : {{"x"}}, blocked : BOOLEAN]

MCPackages == Mounting \union Producing

Texts == {NoContents, <<<<<<"v">>>>>>, <<<<<<"v">>>>, <<<<"w">>>>>>, <<<<Hole>>>>}
Files == {NoContents, <<<<"f">>>>, <<<<"f">>, <<"g">>>>}
MCGivens == {("s1" :> x) @@ ("s2" :> y) : x \in Texts, y \in Files}
=============================================================================
