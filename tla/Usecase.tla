------------------------------- MODULE Usecase -------------------------------
(***************************************************************************)
(* From a package to the task of a node: the two packages of a use case    *)
(* and its software are validated and previewed (package_validate), parsed *)
(* to a node of a draft (parse_node), and, when the node is scheduled with *)
(* what its slots were given, to a task (parse_task).                      *)
(*                                                                         *)
(* The slots of a use case mount what they are given on materials of the   *)
(* software: the holes of an argument, placed by its sort, those of an     *)
(* environment variable, the standard input, the keys of a template, an    *)
(* input file.  A template in turn mounts its content or its file name.    *)
(* All that mounts something is a ref: [to, desc, nth, sort, keys].        *)
(***************************************************************************)
EXTENDS Integers, Sequences, FiniteSets, SequencesExt, FiniteSetsExt, Folds, Outcome

CONSTANTS
  Packages,     \* what is validated: a use case and its software
  Givens        \* what the slots of a scheduled node may hold: [slot -> contents]

\* A package is a record: args, the format of every argument by descriptor; envs, the key
\* and format of every variable; ins and outs, the path of every input and output file
\* material and whether it is batched; slots, a sequence of [desc, kind, optional, refs];
\* templates, a sequence of [desc, content, names], two sequences of refs; infos, the
\* templates whose file is in the package; parses, those whose file is a template; named,
\* whether the metadata of the use case hold a name and a description; flagArgs, a
\* sequence of [desc, sort]; flagEnvs, a sequence of descriptors; outSlots, a sequence of
\* [desc, kind, origin, material, appointedBy]; collected, by descriptor, [from, file,
\* to]; installed, the lists of install arguments under which the software is installed;
\* required, those it is asked with; blocked, whether its version is on the block list.
\* None of this is required of a package but what package_validate looks at.
ASSUME PackagesAssumption ==
  \A p \in Packages :
    /\ IsSeq(p.slots) /\ IsSeq(p.templates) /\ IsSeq(p.outSlots)
    /\ IsSeq(p.flagArgs) /\ IsSeq(p.flagEnvs)
    /\ \A desc \in DOMAIN p.args : IsSeq(p.args[desc])
    /\ \A slot \in ToSet(p.slots) :
         /\ slot.kind \in {"Text", "File"} /\ IsSeq(slot.refs)
         /\ \A ref \in ToSet(slot.refs) : ref.nth \in Nat
    /\ \A template \in ToSet(p.templates) :
         /\ IsSeq(template.content) /\ IsSeq(template.names)
         /\ \A ref \in ToSet(template.content) \union ToSet(template.names) : ref.nth \in Nat
    /\ \A out \in ToSet(p.outSlots) :
         out.kind \in {"Text", "File"} /\ out.origin \in {"usecase", "collected"}

\* What a slot holds: nothing, texts, or the names of files.
IsContents(contents, kind) ==
  contents # NoContents =>
    /\ IsSeq(contents)
    /\ kind = "Text" => \A text \in ToSet(contents) : IsSeq(text)

ASSUME GivensAssumption ==
  \A g \in Givens, p \in Packages :
    \A slot \in ToSet(p.slots) : slot.desc \in DOMAIN g /\ IsContents(g[slot.desc], slot.kind)

VARIABLES
  package,
  stage,        \* how far the package has come: see Stages
  order,        \* the order in which the HashMap of the used templates is gone through
  preview,      \* what the author of the package was shown
  node,         \* for every slot the file name it expects and whether it is batched
  given,        \* the contents of the slots of the node
  task          \* the task

vars == <<package, stage, order, preview, node, given, task>>

\* Values and formats are sequences of symbols; {{}} is a hole.
Hole == <<"{{}}">>
Space == <<" ">>

Known(desc, materials) == desc \in DOMAIN materials
SlotNamed(s) == CHOOSE slot \in ToSet(package.slots) : slot.desc = s
HasSlot(s, kind) == \E slot \in ToSet(package.slots) : slot.desc = s /\ slot.kind = kind
TemplateNamed(t) == CHOOSE template \in ToSet(package.templates) : template.desc = t
IsTemplate(t) == \E template \in ToSet(package.templates) : template.desc = t

-----------------------------------------------------------------------------
(***************************************************************************)
(* What is mounted where.                                                  *)
(***************************************************************************)
Mount(refs, from) == [i \in DOMAIN refs |-> [ref |-> refs[i], from |-> from]]

SlotMounts ==
  FlattenSeq([i \in DOMAIN package.slots |->
                Mount(package.slots[i].refs, <<"slot", package.slots[i].desc>>)])

\* A template is used when a slot fills one of its keys.
UsedTemplates ==
  {m.ref.desc : m \in {x \in ToSet(SlotMounts) : x.ref.to = "template" /\ x.ref.keys # {}}}

TemplateMounts ==
  FlattenSeq([i \in DOMAIN order |->
                Mount(TemplateNamed(order[i]).content, <<"content", order[i]>>)
                \o Mount(TemplateNamed(order[i]).names, <<"name", order[i]>>)])

Mounts == SlotMounts \o TemplateMounts

\* The places of the mounts on one kind of material.
MountedOn(mounts, to) == {i \in DOMAIN mounts : mounts[i].ref.to = to}

\* A mutant: the places of the flags are counted from 1.
FlagMountsFromOne ==
  [i \in DOMAIN package.flagArgs |->
     [ref |-> [to |-> "arg", desc |-> package.flagArgs[i].desc, nth |-> 0,
               sort |-> package.flagArgs[i].sort - 1, keys |-> {}],
      from |-> <<"flag">>]]

\* A flag takes its place in the arguments and fills no hole.
FlagMounts ==
  [i \in DOMAIN package.flagArgs |->
     [ref |-> [to |-> "arg", desc |-> package.flagArgs[i].desc, nth |-> 0,
               sort |-> package.flagArgs[i].sort, keys |-> {}],
      from |-> <<"flag">>]]

FlagEnvMounts ==
  [i \in DOMAIN package.flagEnvs |->
     [ref |-> [to |-> "env", desc |-> package.flagEnvs[i], nth |-> 0, sort |-> 0, keys |-> {}],
      from |-> <<"flag">>]]

\* Of the mounts on a place, at, the first says its format, and the last on a hole what
\* fills it.
Place(mounts, at, Format(_)) ==
  LET filling == {i \in at : mounts[i].from # <<"flag">>}
      On(nth) == {i \in filling : mounts[i].ref.nth = nth}
  IN [format |-> Format(mounts[Min(at)].ref.desc),
      fills |-> [nth \in {mounts[i].ref.nth : i \in filling} |-> mounts[Max(On(nth))].from]]

ArgFormat(desc) == package.args[desc]
EnvKey(desc) == package.envs[desc].key
EnvFormat(desc) == package.envs[desc].format

Sorts(mounts) == {mounts[i].ref.sort : i \in MountedOn(mounts, "arg")}

ArgPlaces(mounts) ==
  [sort \in Sorts(mounts) |->
     Place(mounts, {i \in MountedOn(mounts, "arg") : mounts[i].ref.sort = sort}, ArgFormat)]

EnvPlaces(mounts) ==
  [key \in {EnvKey(mounts[i].ref.desc) : i \in MountedOn(mounts, "env")} |->
     Place(mounts, {i \in MountedOn(mounts, "env") : EnvKey(mounts[i].ref.desc) = key}, EnvFormat)]

-----------------------------------------------------------------------------
(***************************************************************************)
(* package_validate.                                                       *)
(***************************************************************************)

\* argument_format and environment_kv_format; a ref to a file material.
RefOutcome(ref) ==
  CASE ref.to = "arg" -> ErrorUnless(Known(ref.desc, package.args))
    [] ref.to = "env" -> ErrorUnless(Known(ref.desc, package.envs))
    [] ref.to = "file" -> ErrorUnless(Known(ref.desc, package.ins))
    [] OTHER -> "ok"

\* A template mounts neither its content nor its name on a template.
TemplateRefOutcome(ref) == IF ref.to = "template" THEN "error" ELSE RefOutcome(ref)

TemplateRefsOutcome(t) ==
  Check(TemplateNamed(t).content \o TemplateNamed(t).names, TemplateRefOutcome)

SlotsOutcome ==
  Check(package.slots, LAMBDA slot : Check(slot.refs, RefOutcome))

NamesOutcome ==
  Check(package.templates, LAMBDA template : Check(template.names, TemplateRefOutcome))

\* A mutant: a template without its file in the package is not missed.
UsedListed ==
  ErrorUnless(\A t \in UsedTemplates : IsTemplate(t) /\ TemplateRefsOutcome(t) = "ok")

\* The used templates are looked at in any order, as nothing but an error can come of it.
UsedOutcome ==
  ErrorUnless(\A t \in UsedTemplates :
    IsTemplate(t) /\ t \in package.infos /\ TemplateRefsOutcome(t) = "ok")

\* The slot that gives an output file its name must be a text slot.
Appointed(out) ==
  IF out.appointedBy = NoContents THEN "ok" ELSE ErrorUnless(HasSlot(out.appointedBy, "Text"))

\* The file outputs of this descriptor, the first of which is collected from.
FileOuts(desc) ==
  {i \in DOMAIN package.outSlots : package.outSlots[i].kind = "File" /\ package.outSlots[i].desc = desc}
FileOut(desc) == package.outSlots[Min(FileOuts(desc))]

\* What is collected from: the appointing slot is looked at for texts only.
FromOutcome(collected, kind) ==
  LET out == FileOut(collected.file) IN
  CASE collected.from # "file" -> "ok"
    [] collected.from = "file" /\ FileOuts(collected.file) = {} -> "panic"
    [] OTHER -> IF out.origin = "collected" \/ ~ Known(out.material, package.outs) THEN "error"
                ELSE IF kind = "Text" THEN Appointed(out) ELSE "ok"

CollectedOutcome(out) ==
  IF ~ Known(out.material, package.collected) THEN "error"
  ELSE FirstBad(<<FromOutcome(package.collected[out.material], out.kind),
                  ErrorUnless(package.collected[out.material].to = out.kind)>>)

OutOutcome(out) ==
  IF out.origin = "collected" THEN CollectedOutcome(out)
  ELSE ErrorUnless(Known(out.material, package.outs))

OutsOutcome == Check(package.outSlots, OutOutcome)

\* The sorts of the arguments, flags apart, begin with 0 and leave none out.
SortsOutcome ==
  LET sorts == Sorts(Mounts) IN
  ErrorUnless(sorts # {} => sorts = 0..Max(sorts))

Validation ==
  LET loops == FirstBad(<<SlotsOutcome, NamesOutcome, UsedOutcome, OutsOutcome>>)
  IN IF loops = "ok" THEN SortsOutcome ELSE loops

\* The last mount on the standard input counts.
StdInFrom ==
  IF MountedOn(Mounts, "stdin") = {} THEN <<"none">> ELSE Mounts[Max(MountedOn(Mounts, "stdin"))].from

\* What the author is shown.
Preview ==
  [args |-> ArgPlaces(Mounts), envs |-> EnvPlaces(Mounts), stdin |-> StdInFrom]

-----------------------------------------------------------------------------
(***************************************************************************)
(* parse_node: a slot of files expects the name of its first input file.   *)
(* The name and the description of the node are unwrapped of the metadata. *)
(***************************************************************************)
FileRefs(slot) == {i \in DOMAIN slot.refs : slot.refs[i].to = "file"}
FileDesc(slot) == slot.refs[Min(FileRefs(slot))].desc

NodeSlot(slot) ==
  IF slot.kind = "Text" \/ FileRefs(slot) = {}
  THEN [expected |-> NoContents, batched |-> FALSE]
  ELSE LET material == package.ins[FileDesc(slot)] IN
       [expected |-> IF material.batched THEN NoContents ELSE material.path,
        batched |-> material.batched]

NodeOutcome ==
  FirstBad(<<
    PanicUnless(package.named),
    Check(package.slots, LAMBDA slot :
            PanicUnless(slot.kind = "File" /\ FileRefs(slot) # {} =>
                          Known(FileDesc(slot), package.ins))),
    Check(package.outSlots, LAMBDA out :
            PanicUnless(out.kind = "File" =>
              IF out.origin = "collected"
              THEN Known(out.material, package.collected)
                   /\ package.collected[out.material].to = "File"
              ELSE Known(out.material, package.outs)))>>)

-----------------------------------------------------------------------------
(***************************************************************************)
(* parse_task.                                                             *)
(***************************************************************************)

\* get_content: nothing for an optional slot that holds None, the texts or the file names
\* with a space between them otherwise.
FileName(s, name) == IF node[s].expected = NoContents THEN name ELSE node[s].expected

Joined(values) ==
  FlattenSeq([i \in DOMAIN values |-> IF i = 1 THEN values[i] ELSE <<Space>> \o values[i]])

Literal(s) ==
  IF given[s] = NoContents THEN <<>>
  ELSE IF SlotNamed(s).kind = "Text" THEN Joined(given[s])
  ELSE Joined([i \in DOMAIN given[s] |-> <<FileName(s, given[s][i])>>])

\* get_template_file_result: the template with the values of its keys.
FilledTemplate(t) ==
  LET fills == {i \in MountedOn(SlotMounts, "template") : SlotMounts[i].ref.desc = t}
      keys == UNION {SlotMounts[i].ref.keys : i \in fills}
      filler(key) == SlotMounts[Max({i \in fills : key \in SlotMounts[i].ref.keys})]
  IN <<"filled", t, [key \in keys |-> Literal(filler(key).from[2])]>>

TemplateFile(t) == <<"file of", t>>

Value(from) ==
  CASE from[1] = "slot" -> Literal(from[2])
    [] from[1] = "content" -> <<FilledTemplate(from[2])>>
    [] OTHER -> <<TemplateFile(from[2])>>

\* A mutant: the holes are filled from the last.
FillBackwards(format, values) ==
  MapThenFoldSet(LAMBDA value, acc : ReplaceFirstSubSeq(value, <<Hole>>, acc), format,
                 LAMBDA nth : values[nth], Min, DOMAIN values)

\* The values in the order of their numbers, each in the first hole that is left.
FillHoles(format, values) ==
  MapThenFoldSet(LAMBDA value, acc : ReplaceFirstSubSeq(value, <<Hole>>, acc), format,
                 LAMBDA nth : values[nth], Max, DOMAIN values)

Fill(place) ==
  FillHoles(place.format, [nth \in DOMAIN place.fills |-> Value(place.fills[nth])])

SlotFiles ==
  UNION {{[path |-> FileName(s, given[s][i]), package |-> node[s].batched,
           form |-> <<"id", s, i>>] : i \in DOMAIN given[s]} :
         s \in {s \in DOMAIN node : HasSlot(s, "File") /\ given[s] # NoContents}}

\* A mutant: unless its name is mounted on an input file.
UnderItsNameOnly(names) == names # <<>> /\ \A i \in DOMAIN names : names[i].to # "file"

\* A template is delivered under its own name unless its name is mounted nowhere, or on
\* one input file only.
UnderItsName(names) == ~ (names = <<>> \/ (Len(names) = 1 /\ names[1].to = "file"))

ContentFile(t, path, batched) ==
  [path |-> path, package |-> batched, form |-> <<"content", FilledTemplate(t)>>]

FilesOf(t) ==
  LET names == TemplateNamed(t).names
      refs == {ref \in ToSet(names) : ref.to = "file"}
  IN {ContentFile(t, package.ins[ref.desc].path, package.ins[ref.desc].batched) : ref \in refs}
     \union (IF UnderItsName(names) THEN {ContentFile(t, TemplateFile(t), FALSE)} ELSE {})

TemplateFiles == UNION {FilesOf(t) : t \in UsedTemplates}

\* The first text of the slot that appoints the name, if there is one.
OutPath(out) ==
  IF out.appointedBy = NoContents THEN package.outs[out.material].path
  ELSE <<"appointed", given[out.appointedBy][1]>>

OutFiles ==
  {[id |-> out.desc, path |-> OutPath(out), package |-> package.outs[out.material].batched] :
     out \in {out \in ToSet(package.outSlots) : out.origin = "usecase"}}

\* A mutant: the path of the material, whatever was appointed.
CollectMaterial(collected) ==
  CASE collected.from # "file" -> <<collected.from>>
    [] collected.from = "file" /\ FileOuts(collected.file) = {} -> <<"">>
    [] OTHER -> package.outs[FileOut(collected.file).material].path

\* Where a collected output is read: the file as it was named, or the empty path.
CollectPath(collected) ==
  CASE collected.from # "file" -> <<collected.from>>
    [] collected.from = "file" /\ FileOuts(collected.file) = {} -> <<"">>
    [] OTHER -> OutPath(FileOut(collected.file))

Collects ==
  {[id |-> out.desc, from |-> CollectPath(package.collected[out.material]), kind |-> out.kind] :
     out \in {out \in ToSet(package.outSlots) : out.origin = "collected"}}

\* is_software_satisfied: every installation of the name has all that is required, so a
\* software that is not installed at all is satisfied too.
Satisfied == \A installation \in package.installed : package.required \subseteq installation

StdIn ==
  LET from == StdInFrom IN
  IF from = <<"none">> \/ (from[1] = "slot" /\ given[from[2]] = NoContents) THEN <<"none">>
  ELSE <<IF from[1] = "content" \/ (from[1] = "slot" /\ HasSlot(from[2], "Text"))
         THEN "text" ELSE "path", Value(from)>>

TaskArgs == ArgPlaces(FlagMounts \o Mounts)
TaskEnvs == EnvPlaces(FlagEnvMounts \o Mounts)

Task ==
  [args |-> [sort \in DOMAIN TaskArgs |-> Fill(TaskArgs[sort])],
   envs |-> [key \in DOMAIN TaskEnvs |-> Fill(TaskEnvs[key])],
   stdin |-> StdIn,
   files |-> SlotFiles \union TemplateFiles,
   outs |-> OutFiles,
   collects |-> Collects,
   deploy |-> ~ package.blocked /\ Satisfied]

\* The unwraps, in their order.  An appointing slot is read with its first text.
FlagsOutcome ==
  PanicUnless((\A i \in DOMAIN package.flagArgs : Known(package.flagArgs[i].desc, package.args))
              /\ \A i \in DOMAIN package.flagEnvs : Known(package.flagEnvs[i], package.envs))

SlotOutcome(slot) ==
  FirstBad(<<
    PanicUnless(given[slot.desc] = NoContents => slot.optional),
    PanicUnless(slot.kind = "Text" /\ (\E ref \in ToSet(slot.refs) : ref.to = "stdin") =>
                  given[slot.desc] # NoContents),
    IF Check(slot.refs, RefOutcome) = "ok" THEN "ok" ELSE "panic">>)

\* A file that is no template is an error, before its refs are gone through.
TemplateOutcome(t) ==
  IF IsTemplate(t) /\ t \in package.infos
  THEN FirstBad(<<ErrorUnless(t \in package.parses), PanicUnless(TemplateRefsOutcome(t) = "ok")>>)
  ELSE "panic"

AppointedOutcome(out) ==
  PanicUnless(out.appointedBy # NoContents =>
                /\ HasSlot(out.appointedBy, "Text")
                /\ given[out.appointedBy] \notin {NoContents, <<>>})

FileOutOutcome(out) ==
  FirstBad(<<PanicUnless(out.origin = "usecase" /\ Known(out.material, package.outs)),
             AppointedOutcome(out)>>)

TaskOutOutcome(out) ==
  IF out.origin = "usecase" THEN FileOutOutcome(out)
  ELSE IF ~ Known(out.material, package.collected) THEN "panic"
  ELSE LET collected == package.collected[out.material] IN
       FirstBad(<<IF collected.from = "file" /\ FileOuts(collected.file) # {}
                  THEN FileOutOutcome(FileOut(collected.file)) ELSE "ok",
                  PanicUnless(collected.to = out.kind)>>)

TaskOutcome ==
  FirstBad(<<FlagsOutcome, Check(package.slots, SlotOutcome), Check(order, TemplateOutcome),
             Check(package.outSlots, TaskOutOutcome)>>)

-----------------------------------------------------------------------------
Stages ==
  {"package", "refused", "panicked", "published", "undraftable", "drafted", "given", "sent", "lost"}

Orders == SetToSeqs(UsedTemplates)

\* Only a package that was validated is in the repository.
Validate ==
  /\ stage = "package"
  /\ \/ /\ Validation = "ok"
        /\ stage' = "published"
        /\ preview' = Preview
     \/ /\ Validation # "ok"
        /\ stage' = IF Validation = "error" THEN "refused" ELSE "panicked"
        /\ UNCHANGED preview
  /\ UNCHANGED <<package, order, node, given, task>>

ParseNode ==
  /\ stage = "published"
  /\ \/ /\ NodeOutcome = "ok"
        /\ stage' = "drafted"
        /\ node' = [s \in {slot.desc : slot \in ToSet(package.slots)} |-> NodeSlot(SlotNamed(s))]
     \/ /\ NodeOutcome # "ok"
        /\ stage' = "undraftable"
        /\ UNCHANGED node
  /\ UNCHANGED <<package, order, preview, given, task>>

\* The draft was validated, so a slot that is required holds something.  The templates will
\* be gone through in an order of its own.
Give ==
  /\ stage = "drafted"
  /\ \E g \in Givens :
       /\ \A s \in DOMAIN node : ~ SlotNamed(s).optional => g[s] \notin {NoContents, <<>>}
       /\ given' = [s \in DOMAIN node |-> g[s]]
  /\ order' \in Orders
  /\ stage' = "given"
  /\ UNCHANGED <<package, preview, node, task>>

ParseTask ==
  /\ stage = "given"
  /\ \/ /\ TaskOutcome = "ok"
        /\ stage' = "sent"
        /\ task' = Task
     \/ /\ TaskOutcome # "ok"
        /\ stage' = "lost"
        /\ UNCHANGED task
  /\ UNCHANGED <<package, order, preview, node, given>>

Init ==
  /\ package \in Packages
  /\ order \in Orders
  /\ stage = "package"
  /\ preview = <<>>
  /\ node = <<>>
  /\ given = <<>>
  /\ task = <<>>

Next == Validate \/ ParseNode \/ Give \/ ParseTask

Spec == Init /\ [][Next]_vars

-----------------------------------------------------------------------------
(***************************************************************************)
(* Properties.                                                             *)
(***************************************************************************)
Paths == {package.ins[i].path : i \in DOMAIN package.ins}
Descriptors == {slot.desc : slot \in ToSet(package.slots)}

\* The descriptors of the slots tell them apart.
DistinctSlots ==
  \A slot, other \in ToSet(package.slots) : slot.desc = other.desc => slot = other

\* What package_validate does not look at and parse_task needs: the materials of flags, a
\* slot that appoints the name of an output, an optional text on the standard input, what
\* is in the file of a template, and slots of one descriptor, which the model cannot tell
\* apart.
Unlooked ==
  \/ FlagsOutcome # "ok"
  \/ \E out \in ToSet(package.outSlots) :
       out.appointedBy # NoContents
       /\ ~ (HasSlot(out.appointedBy, "Text") /\ ~ SlotNamed(out.appointedBy).optional)
  \/ \E slot \in ToSet(package.slots) :
       slot.kind = "Text" /\ slot.optional /\ \E ref \in ToSet(slot.refs) : ref.to = "stdin"
  \/ ~ (UsedTemplates \subseteq package.parses)
  \/ ~ DistinctSlots

\* A published package becomes a node unless its metadata lack the name or the description
\* that parse_node unwraps and package_validate does not look for; and but for what else
\* is not looked at (Unlooked) the node becomes a task, whatever its slots are given:
\* parse_task neither panics nor errs, so its node is not left Standby for ever.
PublishedRuns ==
  /\ stage = "undraftable" => ~ package.named
  /\ stage = "lost" => Unlooked

\* How many of the numbers are smaller.
Rank(n, numbers) == Cardinality({m \in numbers : m < n})

\* The format with, in each hole, the value whose number has as many smaller ones as there
\* are holes before it.
ByRank(place) ==
  LET holes == {i \in DOMAIN place.format : place.format[i] = Hole}
      In(i) == {nth \in DOMAIN place.fills : Rank(nth, DOMAIN place.fills) = Rank(i, holes)}
  IN FlattenSeq([i \in DOMAIN place.format |->
                   IF i \in holes /\ In(i) # {}
                   THEN Value(place.fills[CHOOSE nth \in In(i) : TRUE]) ELSE <<place.format[i]>>])

\* The value with the smallest number goes to the first hole of an argument, the next to
\* the second, and so on, although parse_task replaces the first hole that is left, one
\* value after the other, sorted by number.  Only the order of the numbers counts, not
\* which hole they name: a value for descriptor(1) alone goes to the first hole, where the
\* doc of Argument (argument.rs:11) says that the number picks the hole.  A value that
\* holds a {} of its own is itself filled by the next, and excepted.
HolesInOrder ==
  stage = "sent" =>
    \A sort \in DOMAIN TaskArgs :
      (\A nth \in DOMAIN TaskArgs[sort].fills : Hole \notin ToSet(Value(TaskArgs[sort].fills[nth]))) =>
        task.args[sort] = ByRank(TaskArgs[sort])

\* The file an argument, a variable or the standard input names is delivered under that name.
NamedFilesDelivered ==
  LET Delivered(path) == \E file \in task.files : file.path = path
      Named == {m \in ToSet(Mounts) : m.ref.to \in {"arg", "env", "stdin"}}
  IN stage = "sent" =>
       \A m \in Named :
         CASE m.from[1] = "name" -> Delivered(TemplateFile(m.from[2]))
           [] m.from[1] = "slot" /\ HasSlot(m.from[2], "File") /\ given[m.from[2]] # NoContents ->
                \A i \in DOMAIN given[m.from[2]] : Delivered(FileName(m.from[2], given[m.from[2]][i]))
           [] OTHER -> TRUE

\* What is collected from an output file is read where that file is uploaded from, also
\* when an input slot gave it another name.
CollectedWhereWritten ==
  stage = "sent" =>
    \A out \in ToSet(package.outSlots) :
      LET collected == package.collected[out.material] IN
      out.origin = "collected" /\ collected.from = "file" =>
        \E file \in task.outs : /\ file.id = collected.file
                                /\ [id |-> out.desc, from |-> file.path, kind |-> out.kind]
                                     \in task.collects

\* The author was shown the arguments and variables of the task, if at most one template
\* is used: package_validate and parse_task go through the used ones in orders of their own.
\* The flags are left out of what is shown, so only arguments whose place no flag takes, and
\* the variables of a use case without flags for them, are those of the task.
PreviewTold ==
  stage = "sent" /\ Len(order) <= 1 =>
    /\ (\A i \in DOMAIN package.flagArgs : package.flagArgs[i].sort \notin DOMAIN preview.args) =>
         \A sort \in DOMAIN preview.args : task.args[sort] = Fill(preview.args[sort])
    /\ package.flagEnvs = <<>> =>
         task.envs = [key \in DOMAIN preview.envs |-> Fill(preview.envs[key])]
=============================================================================
