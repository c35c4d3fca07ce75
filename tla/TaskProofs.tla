------------------------------ MODULE TaskProofs ------------------------------
(***************************************************************************)
(* Proofs about Usecase, for any packages and whatever their slots are     *)
(* given: what package_validate lets pass does not panic parse_node or     *)
(* parse_task, and the task is what the author of the package was shown    *)
(* and wants: files where they are named, outputs where they are written.  *)
(*                                                                         *)
(* And about Draft, for any drafts: what the validation accepts is counted *)
(* and scheduled without a panic, its nodes are given what they need, and  *)
(* the sub nodes counted at the submission are those made at the           *)
(* scheduling, each with a combination of inputs of its own.               *)
(***************************************************************************)
EXTENDS Usecase, Draft, FoldLemmas

-----------------------------------------------------------------------------
(***************************************************************************)
(* Sequences of a package.                                                 *)
(***************************************************************************)
\* What a list is: its places are numbered from one and hold its elements.
LEMMA SeqDomain ==
  ASSUME NEW s, IsSeq(s)
  PROVE  /\ Len(s) \in Nat /\ DOMAIN s = 1..Len(s) /\ DOMAIN s \subseteq Nat
         /\ \A i \in DOMAIN s : s[i] \in ToSet(s)
         /\ \A x \in ToSet(s) : \E i \in DOMAIN s : x = s[i]
BY DEF IsSeq, ToSet

\* A sequence joined of two has their elements.
LEMMA JoinedSeq ==
  ASSUME NEW s, NEW t, IsSeq(s), IsSeq(t)
  PROVE  /\ IsSeq(s \o t) /\ Len(s \o t) = Len(s) + Len(t)
         /\ \A i \in 1..Len(s) : (s \o t)[i] = s[i]
         /\ \A i \in 1..Len(t) : (s \o t)[Len(s) + i] = t[i]
         /\ ToSet(s \o t) = ToSet(s) \cup ToSet(t)
<1> DEFINE V == ToSet(s) \cup ToSet(t)
<1>1. s \in Seq(V) /\ t \in Seq(V)
  <2>1. ToSet(s) \subseteq V /\ ToSet(t) \subseteq V
    OBVIOUS
  <2>2. \A A, B : A \subseteq B => \A q \in Seq(A) : q \in Seq(B)
    OBVIOUS
  <2> HIDE DEF V
  <2> QED
    BY <2>1, <2>2 DEF IsSeq
<1> HIDE DEF V
<1>2. /\ s \o t \in Seq(V) /\ Len(s \o t) = Len(s) + Len(t)
      /\ \A i \in 1..Len(s) : (s \o t)[i] = s[i]
      /\ \A i \in 1..Len(t) : (s \o t)[Len(s) + i] = t[i]
  BY <1>1
<1>4. ToSet(s \o t) \subseteq ToSet(s) \cup ToSet(t)
  BY <1>1 DEF ToSet
<1>5. \A i \in DOMAIN s : i \in DOMAIN (s \o t) /\ (s \o t)[i] = s[i]
  BY <1>1
<1>6. \A i \in DOMAIN t : Len(s) + i \in DOMAIN (s \o t) /\ (s \o t)[Len(s) + i] = t[i]
  BY <1>1
<1>7. ToSet(s) \cup ToSet(t) \subseteq ToSet(s \o t)
  BY <1>5, <1>6 DEF ToSet
<1>3. \A q \in Seq(V) : q \in Seq(ToSet(q))
  BY DEF ToSet
<1> QED
  BY <1>2, <1>3, <1>4, <1>7 DEF IsSeq

-----------------------------------------------------------------------------
(***************************************************************************)
(* Outcomes of loops.                                                      *)
(***************************************************************************)
\* A chain of checks none of which fails ends well.
LEMMA NoneBad ==
  ASSUME NEW o, \A i \in DOMAIN o : o[i] \notin Failures
  PROVE  FirstBad(o) = "ok"
BY DEF FirstBad

\* A chain that does not end badly has no bad outcome.
LEMMA AllGood ==
  ASSUME NEW o, DOMAIN o \subseteq Nat, FirstBad(o) \notin Failures
  PROVE  \A i \in DOMAIN o : o[i] \notin Failures
<1> DEFINE bad == {i \in DOMAIN o : o[i] \in Failures}
<1> SUFFICES ASSUME bad # {} PROVE FALSE
  OBVIOUS
<1>1. bad \subseteq Nat
  OBVIOUS
<1>2. Min(bad) \in bad
  <2> HIDE DEF bad
  <2> QED
    BY <1>1, MinIsLeast
<1> QED
  BY <1>2 DEF FirstBad

\* All of package_validate but the sorts, which go by the order of the templates.
Loops == FirstBad(<<SlotsOutcome, NamesOutcome, UsedOutcome, OutsOutcome>>)

\* A validated package passed every loop of package_validate.
LEMMA ValidParts ==
  ASSUME Loops = "ok"
  PROVE  /\ SlotsOutcome \notin Failures /\ NamesOutcome \notin Failures
         /\ UsedOutcome \notin Failures /\ OutsOutcome \notin Failures
<1> DEFINE o == <<SlotsOutcome, NamesOutcome, UsedOutcome, OutsOutcome>>
<1>1. FirstBad(o) = "ok" /\ DOMAIN o = 1..4 /\ DOMAIN o \subseteq Nat
  BY DEF Loops
<1>2. "ok" \notin Failures
  BY DEF Failures
<1>3. \A i \in DOMAIN o : o[i] \notin Failures
  <2> HIDE DEF o
  <2> QED
    BY <1>1, <1>2, AllGood
<1> QED
  BY <1>1, <1>3

\* Every ref of a slot of a validated package is to a material.
LEMMA SlotsGood ==
  ASSUME package \in Packages, SlotsOutcome \notin Failures
  PROVE  \A slot \in ToSet(package.slots) : Check(slot.refs, RefOutcome) = "ok"
<1> SUFFICES ASSUME NEW slot \in ToSet(package.slots) PROVE Check(slot.refs, RefOutcome) = "ok"
  OBVIOUS
<1>1. IsSeq(package.slots)
  BY PackagesAssumption
<1> DEFINE o == [i \in DOMAIN package.slots |-> Check(package.slots[i].refs, RefOutcome)]
           u == [j \in DOMAIN slot.refs |-> RefOutcome(slot.refs[j])]
<1>2. FirstBad(o) \notin Failures
  BY DEF SlotsOutcome, Check
<1>3. DOMAIN o \subseteq Nat /\ DOMAIN o = DOMAIN package.slots
  BY <1>1, SeqDomain
<1>4. \A i \in DOMAIN o : o[i] \notin Failures
  <2> HIDE DEF o
  <2> QED
    BY <1>2, <1>3, AllGood
<1>5. PICK i \in DOMAIN package.slots : slot = package.slots[i]
  BY <1>1, SeqDomain
<1>6. FirstBad(u) \notin Failures
  BY <1>4, <1>5 DEF Check
<1>7. DOMAIN u \subseteq Nat
  <2>1. IsSeq(slot.refs)
    BY PackagesAssumption
  <2> QED
    BY <2>1, SeqDomain
<1>8. FirstBad(u) = "ok"
  <2> HIDE DEF u
  <2> QED
    BY <1>6, <1>7, AllGood, NoneBad
<1> QED
  BY <1>8 DEF Check

\* No output slot of a validated package is bad.
LEMMA OutOutcomes ==
  ASSUME package \in Packages, OutsOutcome \notin Failures
  PROVE  \A out \in ToSet(package.outSlots) : OutOutcome(out) \notin Failures
<1>1. IsSeq(package.outSlots)
  BY PackagesAssumption
<1> DEFINE o == [i \in DOMAIN package.outSlots |-> OutOutcome(package.outSlots[i])]
<1>2. FirstBad(o) \notin Failures /\ DOMAIN o = DOMAIN package.outSlots /\ DOMAIN o \subseteq Nat
  BY <1>1, SeqDomain DEF OutsOutcome, Check
<1>3. \A i \in DOMAIN o : o[i] \notin Failures
  <2> HIDE DEF o
  <2> QED
    BY <1>2, AllGood
<1> QED
  BY <1>1, <1>2, <1>3, SeqDomain

\* Every output slot of a validated package has its material, ...
LEMMA OutsGood ==
  ASSUME package \in Packages, OutsOutcome \notin Failures
  PROVE  \A out \in ToSet(package.outSlots) :
           out.origin = "usecase" => Known(out.material, package.outs)
<1> SUFFICES ASSUME NEW out \in ToSet(package.outSlots), out.origin = "usecase"
             PROVE  Known(out.material, package.outs)
  OBVIOUS
<1>1. OutOutcome(out) \notin Failures
  BY OutOutcomes
<1> QED
  BY <1>1 DEF OutOutcome, Known, ErrorUnless, Failures

\* ... and a collected one its rule, and the output it is collected from.
LEMMA CollectedGood ==
  ASSUME package \in Packages, OutsOutcome \notin Failures,
         NEW out \in ToSet(package.outSlots), out.origin = "collected",
         NEW collected, collected = package.collected[out.material]
  PROVE  /\ Known(out.material, package.collected) /\ collected.to = out.kind
         /\ collected.from = "file" =>
              /\ FileOuts(collected.file) # {}
              /\ FileOut(collected.file) \in ToSet(package.outSlots)
              /\ FileOut(collected.file).desc = collected.file
              /\ FileOut(collected.file).kind = "File"
              /\ FileOut(collected.file).origin = "usecase"
              /\ Known(FileOut(collected.file).material, package.outs)
<1>1. OutOutcome(out) \notin Failures
  BY OutOutcomes
<1>2. Known(out.material, package.collected)
  BY <1>1 DEF OutOutcome, CollectedOutcome, Failures
<1> DEFINE o == <<FromOutcome(collected, out.kind), ErrorUnless(collected.to = out.kind)>>
<1>3. FirstBad(o) \notin Failures
  BY <1>1, <1>2 DEF OutOutcome, CollectedOutcome
<1>4. DOMAIN o = 1..2 /\ DOMAIN o \subseteq Nat
  OBVIOUS
<1>5. \A i \in DOMAIN o : o[i] \notin Failures
  <2> HIDE DEF o
  <2> QED
    BY <1>3, <1>4, AllGood
<1>6. FromOutcome(collected, out.kind) \notin Failures /\ collected.to = out.kind
  <2>1. o[1] \notin Failures /\ o[2] \notin Failures
    BY <1>4, <1>5
  <2>2. ErrorUnless(collected.to = out.kind) \notin Failures
    BY <2>1
  <2> QED
    BY <2>1, <2>2 DEF ErrorUnless, Failures
<1>7. ASSUME collected.from = "file"
      PROVE  /\ FileOuts(collected.file) # {}
             /\ FileOut(collected.file).origin # "collected"
             /\ Known(FileOut(collected.file).material, package.outs)
  BY <1>6, <1>7 DEF FromOutcome, Failures
<1>8. ASSUME collected.from = "file"
      PROVE  /\ FileOut(collected.file) \in ToSet(package.outSlots)
             /\ FileOut(collected.file).desc = collected.file
             /\ FileOut(collected.file).kind = "File"
             /\ FileOut(collected.file).origin = "usecase"
  <2>1. FileOuts(collected.file) \subseteq Nat /\ FileOuts(collected.file) # {}
    BY <1>7, <1>8, PackagesAssumption, SeqDomain DEF FileOuts
  <2>2. Min(FileOuts(collected.file)) \in FileOuts(collected.file)
    BY <2>1, MinIsLeast
  <2>3. /\ FileOut(collected.file) \in ToSet(package.outSlots)
        /\ FileOut(collected.file).desc = collected.file
        /\ FileOut(collected.file).kind = "File"
    BY <2>2, PackagesAssumption, SeqDomain DEF FileOut, FileOuts
  <2>4. FileOut(collected.file).origin \in {"usecase", "collected"}
    BY <2>3, PackagesAssumption
  <2> QED
    BY <1>7, <1>8, <2>3, <2>4
<1> QED
  BY <1>2, <1>6, <1>7, <1>8

-----------------------------------------------------------------------------
(***************************************************************************)
(* parse_node finds what it unwraps.                                       *)
(***************************************************************************)
\* parse_node finds what it unwraps, if the loops of package_validate ended well and the
\* metadata, which it does not look at, hold a name and a description.
LEMMA NodeGood ==
  ASSUME package \in Packages, Loops = "ok", package.named
  PROVE  NodeOutcome = "ok"
<1> DEFINE Slot(slot) == PanicUnless(slot.kind = "File" /\ FileRefs(slot) # {} =>
                                       Known(FileDesc(slot), package.ins))
           OutOf(out) == PanicUnless(out.kind = "File" =>
                         IF out.origin = "collected"
                         THEN Known(out.material, package.collected)
                              /\ package.collected[out.material].to = "File"
                         ELSE Known(out.material, package.outs))
<1>1. SlotsOutcome \notin Failures /\ OutsOutcome \notin Failures
  BY ValidParts
<1>2. ASSUME NEW slot \in ToSet(package.slots) PROVE Slot(slot) = "ok"
  <2> SUFFICES ASSUME FileRefs(slot) # {} PROVE Known(FileDesc(slot), package.ins)
    BY DEF PanicUnless
  <2>1. IsSeq(slot.refs) /\ Check(slot.refs, RefOutcome) = "ok"
    BY <1>1, SlotsGood, PackagesAssumption
  <2>2. Min(FileRefs(slot)) \in FileRefs(slot)
    BY <2>1, SeqDomain, MinIsLeast DEF FileRefs
  <2> DEFINE ref == slot.refs[Min(FileRefs(slot))]
             o == [j \in DOMAIN slot.refs |-> RefOutcome(slot.refs[j])]
  <2>3. FirstBad(o) \notin Failures /\ DOMAIN o \subseteq Nat
    BY <2>1, SeqDomain DEF Check, Failures
  <2>4. \A j \in DOMAIN o : o[j] \notin Failures
    <3> HIDE DEF o
    <3> QED
      BY <2>3, AllGood
  <2>5. ref.to = "file" /\ RefOutcome(ref) \notin Failures
    BY <2>2, <2>4 DEF FileRefs
  <2> QED
    BY <2>5 DEF RefOutcome, FileDesc, ErrorUnless, Failures
<1>3. ASSUME NEW out \in ToSet(package.outSlots) PROVE OutOf(out) = "ok"
  <2>1. out.origin \in {"usecase", "collected"}
    BY PackagesAssumption
  <2>2. CASE out.origin = "usecase"
    BY <1>1, <2>2, OutsGood DEF PanicUnless
  <2>3. CASE out.origin = "collected"
    BY <1>1, <2>3, CollectedGood DEF PanicUnless
  <2> QED
    BY <2>1, <2>2, <2>3
<1> DEFINE a == [i \in DOMAIN package.slots |-> Slot(package.slots[i])]
           b == [i \in DOMAIN package.outSlots |-> OutOf(package.outSlots[i])]
<1>4. (\A i \in DOMAIN a : a[i] = "ok") /\ (\A i \in DOMAIN b : b[i] = "ok")
  <2>1. IsSeq(package.slots) /\ IsSeq(package.outSlots)
    BY PackagesAssumption
  <2> HIDE DEF Slot, OutOf
  <2> QED
    BY <1>2, <1>3, <2>1, SeqDomain
<1>5. FirstBad(a) = "ok" /\ FirstBad(b) = "ok"
  <2> HIDE DEF a, b
  <2> QED
    BY <1>4, NoneBad DEF Failures
<1> DEFINE all == <<PanicUnless(package.named), FirstBad(a), FirstBad(b)>>
<1>6. FirstBad(all) = "ok"
  <2>1. \A i \in DOMAIN all : all[i] = "ok"
    <3> HIDE DEF a, b
    <3> QED
      BY <1>5 DEF PanicUnless
  <2> HIDE DEF all
  <2> QED
    BY <2>1, NoneBad DEF Failures
<1> QED
  BY <1>6 DEF NodeOutcome, Check

-----------------------------------------------------------------------------
(***************************************************************************)
(* What depends on the package only, and what on the contents of the       *)
(* slots, does not change with the rest.                                   *)
(***************************************************************************)
\* What slots mount, and which templates are used, depends on the package only.
LEMMA SameUsed ==
  ASSUME package' = package
  PROVE  SlotMounts' = SlotMounts /\ UsedTemplates' = UsedTemplates /\ Orders' = Orders
<1>1. SlotMounts' = SlotMounts
  BY DEF SlotMounts, Mount
<1>2. UsedTemplates' = UsedTemplates
  BY <1>1 DEF UsedTemplates
<1> QED
  BY <1>1, <1>2 DEF Orders

\* The mounts stay with the package and the order ...
LEMMA SameMounts ==
  ASSUME package' = package, order' = order
  PROVE  Mounts' = Mounts
<1>1. TemplateMounts' = TemplateMounts
  BY DEF TemplateMounts, TemplateNamed
<1> QED
  BY <1>1, SameUsed DEF Mounts

\* ... and with them the preview,
LEMMA SamePreview ==
  ASSUME package' = package, Mounts' = Mounts
  PROVE  Preview' = Preview
BY DEF Preview, EnvPlaces, ArgPlaces, Place, ArgFormat, Sorts, MountedOn, EnvKey, EnvFormat, StdInFrom

\* ... the outcome of parse_node
LEMMA SameNodeOutcome ==
  ASSUME package' = package
  PROVE  NodeOutcome' = NodeOutcome
BY DEF NodeOutcome, Check, Known, FileRefs, FileDesc

\* ... and those of the loops of package_validate.
LEMMA SameLoops ==
  ASSUME package' = package
  PROVE  Loops' = Loops
<1>1. UsedTemplates' = UsedTemplates
  BY SameUsed
<1>2. SlotsOutcome' = SlotsOutcome
  BY DEF SlotsOutcome, Check, RefOutcome, Known
<1>3. NamesOutcome' = NamesOutcome
  BY DEF NamesOutcome, Check, TemplateRefOutcome, RefOutcome, Known
<1>4. UsedOutcome' = UsedOutcome
  BY <1>1 DEF UsedOutcome, Check, TemplateRefsOutcome, TemplateRefOutcome, RefOutcome, Known,
     TemplateNamed, IsTemplate
<1>5. OutsOutcome' = OutsOutcome
  <2>1. ASSUME NEW desc PROVE FileOuts(desc)' = FileOuts(desc) /\ FileOut(desc)' = FileOut(desc)
    BY DEF FileOut, FileOuts
  <2>2. ASSUME NEW out PROVE Appointed(out)' = Appointed(out)
    BY DEF Appointed, HasSlot
  <2>3. ASSUME NEW collected, NEW kind
        PROVE  FromOutcome(collected, kind)' = FromOutcome(collected, kind)
    BY <2>1, <2>2 DEF FromOutcome, Known
  <2>4. ASSUME NEW out PROVE CollectedOutcome(out)' = CollectedOutcome(out)
    BY <2>3 DEF CollectedOutcome, Known
  <2>5. ASSUME NEW out PROVE OutOutcome(out)' = OutOutcome(out)
    BY <2>4 DEF OutOutcome, Known
  <2> QED
    BY <2>5 DEF OutsOutcome, Check
<1> QED
  BY <1>2, <1>3, <1>4, <1>5, Zenon DEF Loops

\* The outcome of parse_task stays with what a slot was given, too.
LEMMA SameTaskOutcome ==
  ASSUME UNCHANGED <<package, order, given>>
  PROVE  TaskOutcome' = TaskOutcome
BY DEF TaskOutcome, FlagsOutcome, SlotOutcome, TemplateOutcome, TaskOutOutcome, AppointedOutcome,
   FileOutOutcome, Check, TemplateRefsOutcome, TemplateRefOutcome, RefOutcome, Known, TemplateNamed,
   IsTemplate, FileOut, FileOuts, HasSlot

\* The task follows from the package, the order of its templates, the contents of its slots
\* and the files they expect.
LEMMA SameTask ==
  ASSUME UNCHANGED <<package, order, given, node>>
  PROVE  Task' = Task
<1>1. SlotMounts' = SlotMounts /\ UsedTemplates' = UsedTemplates /\ Mounts' = Mounts
  BY SameUsed, SameMounts
<1>2. ASSUME NEW t PROVE FilledTemplate(t)' = FilledTemplate(t)
  BY <1>1 DEF FilledTemplate, Literal, FileName, SlotNamed, MountedOn
<1>3. ASSUME NEW from PROVE Value(from)' = Value(from)
  BY <1>2 DEF Value, Literal, TemplateFile, FileName, SlotNamed
<1>4. ASSUME NEW place PROVE Fill(place)' = Fill(place)
  BY <1>3 DEF Fill
<1>5. TaskArgs' = TaskArgs
  BY <1>1 DEF TaskArgs, FlagMounts, ArgPlaces, Place, ArgFormat, MountedOn, Sorts
<1>6. TaskEnvs' = TaskEnvs
  BY <1>1 DEF TaskEnvs, FlagEnvMounts, EnvPlaces, Place, EnvKey, EnvFormat, MountedOn
<1>7. StdIn' = StdIn
  BY <1>1, <1>3 DEF StdIn, StdInFrom, MountedOn, HasSlot
<1>8. SlotFiles' = SlotFiles
  BY DEF SlotFiles, FileName, HasSlot
<1>9. TemplateFiles' = TemplateFiles
  <2>1. ASSUME NEW t PROVE FilesOf(t)' = FilesOf(t)
    BY <1>2 DEF FilesOf, ContentFile, TemplateNamed, UnderItsName, TemplateFile
  <2> QED
    BY <1>1, <2>1 DEF TemplateFiles
<1>10. ASSUME NEW out PROVE OutPath(out)' = OutPath(out)
  BY DEF OutPath
<1>11. OutFiles' = OutFiles
  BY <1>10 DEF OutFiles
<1>12. Collects' = Collects
  <2>1. ASSUME NEW desc PROVE FileOuts(desc)' = FileOuts(desc) /\ FileOut(desc)' = FileOut(desc)
    BY DEF FileOut, FileOuts
  <2>2. ASSUME NEW collected PROVE CollectPath(collected)' = CollectPath(collected)
    <3>1. (FileOuts(collected.file) = {})' <=> FileOuts(collected.file) = {}
      BY <2>1
    <3>2. OutPath(FileOut(collected.file))' = OutPath(FileOut(collected.file))
      BY DEF OutPath, FileOut, FileOuts
    <3> QED
      BY <3>1, <3>2, Zenon DEF CollectPath
  <2> QED
    BY <2>2 DEF Collects
<1>13. Satisfied' = Satisfied
  BY DEF Satisfied
<1> QED
  BY <1>4, <1>5, <1>6, <1>7, <1>8, <1>9, <1>11, <1>12, <1>13 DEF Task

-----------------------------------------------------------------------------
(***************************************************************************)
(* The invariant: what validation, the draft and the guard on what is      *)
(* given have settled by the time the task is parsed.                      *)
(***************************************************************************)
Published == {"published", "drafted", "given", "sent", "lost"}
NodeGiven == {"given", "sent", "lost"}

TypeInv == package \in Packages /\ stage \in Stages /\ order \in Orders

\* A package that is in the repository passed the loops of package_validate, and what its
\* author saw is what would be shown now, if no two templates can change places.
ValidInv ==
  stage \in Published => Loops = "ok" /\ (Len(order) <= 1 => preview = Preview)

NodeInv ==
  /\ stage = "undraftable" => ~ package.named
  /\ stage \in NodeGiven \cup {"drafted"} => DOMAIN node = Descriptors

\* Every slot holds contents of its kind, and one that is required holds something.
GivenInv ==
  stage \in NodeGiven =>
    \A s \in Descriptors :
      /\ IsContents(given[s], SlotNamed(s).kind)
      /\ ~ SlotNamed(s).optional => given[s] \notin {NoContents, <<>>}

TaskInv ==
  /\ stage = "sent" => task = Task /\ TaskOutcome = "ok"
  /\ stage = "lost" => TaskOutcome # "ok"

UsecaseInv == TypeInv /\ ValidInv /\ NodeInv /\ GivenInv /\ TaskInv

-----------------------------------------------------------------------------
(***************************************************************************)
(* What is mounted.                                                        *)
(***************************************************************************)
\* The mounts of some refs are as many, each with a ref and where it is from.
LEMMA MountSeq ==
  ASSUME NEW refs, IsSeq(refs), NEW from
  PROVE  /\ IsSeq(Mount(refs, from))
         /\ \A m \in ToSet(Mount(refs, from)) : \E ref \in ToSet(refs) : m = [ref |-> ref, from |-> from]
<1>1. Len(refs) \in Nat /\ DOMAIN refs = 1..Len(refs)
  BY SeqDomain
<1>2. Mount(refs, from) = [i \in 1..Len(refs) |-> [ref |-> refs[i], from |-> from]]
  BY <1>1 DEF Mount
<1>3. \A i \in 1..Len(refs) : Mount(refs, from)[i] \in ToSet(Mount(refs, from))
  BY <1>2 DEF ToSet
<1>4. IsSeq(Mount(refs, from))
  BY <1>1, <1>2, <1>3 DEF IsSeq
<1>5. ASSUME NEW m \in ToSet(Mount(refs, from))
      PROVE  \E ref \in ToSet(refs) : m = [ref |-> ref, from |-> from]
  BY <1>1, <1>2 DEF ToSet
<1> QED
  BY <1>4, <1>5

\* The slots mount their refs.
LEMMA SlotMountsElements ==
  ASSUME package \in Packages
  PROVE  /\ IsSeq(SlotMounts)
         /\ \A m \in ToSet(SlotMounts) :
              \E slot \in ToSet(package.slots) : \E ref \in ToSet(slot.refs) :
                m = [ref |-> ref, from |-> <<"slot", slot.desc>>]
<1> DEFINE parts == [i \in DOMAIN package.slots |->
                       Mount(package.slots[i].refs, <<"slot", package.slots[i].desc>>)]
           V == UNION {ToSet(parts[i]) : i \in DOMAIN parts}
<1>1. IsSeq(package.slots) /\ \A slot \in ToSet(package.slots) : IsSeq(slot.refs)
  BY PackagesAssumption
<1>2. Len(parts) \in Nat /\ DOMAIN parts = 1..Len(parts) /\ (Len(parts) = 0 => parts = <<>>)
  BY <1>1, SeqDomain
<1>3. \A i \in 1..Len(parts) : parts[i] \in Seq(V)
  <2> SUFFICES ASSUME NEW i \in 1..Len(parts) PROVE parts[i] \in Seq(V)
    OBVIOUS
  <2>1. package.slots[i] \in ToSet(package.slots) /\ IsSeq(package.slots[i].refs)
    BY <1>1, <1>2, SeqDomain
  <2>2. IsSeq(parts[i])
    BY <1>2, <2>1, MountSeq
  <2>3. ToSet(parts[i]) \subseteq V
    BY <1>2
  <2> HIDE DEF parts, V
  <2> QED
    BY <2>2, <2>3 DEF IsSeq
<1>4. /\ FlattenSeq(parts) \in Seq(V)
      /\ \A x \in ToSet(FlattenSeq(parts)) : \E i \in 1..Len(parts) : x \in ToSet(parts[i])
  <2> HIDE DEF parts, V
  <2> QED
    BY <1>2, <1>3, FlattenElements
<1>5. IsSeq(FlattenSeq(parts))
  <2>1. \A q \in Seq(V) : IsSeq(q)
    BY DEF IsSeq, ToSet
  <2> QED
    BY <1>4, <2>1
<1>6. ASSUME NEW i \in 1..Len(parts), NEW x \in ToSet(parts[i])
      PROVE  \E slot \in ToSet(package.slots) : \E ref \in ToSet(slot.refs) :
               x = [ref |-> ref, from |-> <<"slot", slot.desc>>]
  <2>1. package.slots[i] \in ToSet(package.slots)
    BY <1>1, <1>2, SeqDomain
  <2>2. \E ref \in ToSet(package.slots[i].refs) : x = [ref |-> ref, from |-> <<"slot", package.slots[i].desc>>]
    BY <1>1, <1>2, <2>1, MountSeq
  <2> QED
    BY <2>1, <2>2
<1>7. SlotMounts = FlattenSeq(parts)
  BY DEF SlotMounts
<1> HIDE DEF parts
<1> QED
  BY <1>4, <1>5, <1>6, <1>7

\* The used templates are finitely many, being templates of a list.
LEMMA UsedFinite ==
  ASSUME package \in Packages
  PROVE  IsFiniteSet(UsedTemplates)
<1> DEFINE D == 1..Len(SlotMounts)
           f == [i \in D |-> SlotMounts[i].ref.desc]
           R == {f[i] : i \in D}
<1>1. IsSeq(SlotMounts)
  BY SlotMountsElements
<1>2. Len(SlotMounts) \in Nat /\ DOMAIN SlotMounts = D
  BY <1>1, SeqDomain
<1>3. IsFiniteSet(D)
  BY <1>2, FS_Interval
<1>4. f \in Surjection(D, R)
  BY DEF Surjection
<1>5. IsFiniteSet(R)
  <2> HIDE DEF D, f, R
  <2> QED
    BY <1>3, <1>4, FS_Surjection
<1>6. UsedTemplates \subseteq R
  BY <1>2 DEF UsedTemplates, ToSet
<1> QED
  BY <1>5, <1>6, FS_Subset

\* An order of the used templates is a list of them.
LEMMA OrderSeq ==
  ASSUME package \in Packages, NEW o \in Orders
  PROVE  /\ Len(o) = Cardinality(UsedTemplates) /\ DOMAIN o = 1..Len(o) /\ Len(o) \in Nat
         /\ \A i \in DOMAIN o : o[i] \in UsedTemplates
<1>1. Cardinality(UsedTemplates) \in Nat
  BY UsedFinite, FS_CardinalityType
<1> QED
  BY <1>1 DEF Orders, SetToSeqs

\* At most one template is gone through in one order.
LEMMA OneOrder ==
  ASSUME package \in Packages, NEW o \in Orders, NEW q \in Orders, Len(o) <= 1
  PROVE  o = q
<1>1. IsFiniteSet(UsedTemplates) /\ Cardinality(UsedTemplates) \in {0, 1}
  BY UsedFinite, OrderSeq, FS_CardinalityType
<1>2. UsedTemplates = {} \/ \E t : UsedTemplates = {t}
  BY <1>1, FS_EmptySet, FS_Singleton
<1> DEFINE D == 1..Cardinality(UsedTemplates)
<1>3. o \in [D -> UsedTemplates] /\ q \in [D -> UsedTemplates]
  BY DEF Orders, SetToSeqs
<1> HIDE DEF D
<1> QED
  BY <1>2, <1>3

\* The templates that are used in a validated package are there.
LEMMA UsedGood ==
  ASSUME package \in Packages, UsedOutcome \notin Failures, NEW t \in UsedTemplates
  PROVE  /\ IsTemplate(t) /\ t \in package.infos /\ TemplateRefsOutcome(t) = "ok"
         /\ TemplateNamed(t) \in ToSet(package.templates)
         /\ IsSeq(TemplateNamed(t).content) /\ IsSeq(TemplateNamed(t).names)
<1>1. IsTemplate(t) /\ t \in package.infos /\ TemplateRefsOutcome(t) = "ok"
  BY DEF UsedOutcome, ErrorUnless, Failures
<1>2. TemplateNamed(t) \in ToSet(package.templates)
  BY <1>1 DEF IsTemplate, TemplateNamed
<1> QED
  BY <1>1, <1>2, PackagesAssumption

\* The used templates mount their refs.
LEMMA TemplateMountsElements ==
  ASSUME package \in Packages, UsedOutcome \notin Failures, order \in Orders
  PROVE  /\ IsSeq(TemplateMounts)
         /\ \A m \in ToSet(TemplateMounts) :
              \E t \in UsedTemplates :
                \/ \E ref \in ToSet(TemplateNamed(t).content) :
                     m = [ref |-> ref, from |-> <<"content", t>>]
                \/ \E ref \in ToSet(TemplateNamed(t).names) :
                     m = [ref |-> ref, from |-> <<"name", t>>]
<1> DEFINE Content(t) == Mount(TemplateNamed(t).content, <<"content", t>>)
           Names(t) == Mount(TemplateNamed(t).names, <<"name", t>>)
           parts == [i \in DOMAIN order |-> Content(order[i]) \o Names(order[i])]
           V == UNION {ToSet(parts[i]) : i \in DOMAIN parts}
           Of(m, t) == \/ \E ref \in ToSet(TemplateNamed(t).content) :
                            m = [ref |-> ref, from |-> <<"content", t>>]
                       \/ \E ref \in ToSet(TemplateNamed(t).names) :
                            m = [ref |-> ref, from |-> <<"name", t>>]
<1>1. ASSUME NEW t \in UsedTemplates
      PROVE  IsSeq(Content(t) \o Names(t)) /\ \A m \in ToSet(Content(t) \o Names(t)) : Of(m, t)
  <2>1. /\ IsSeq(Content(t))
        /\ \A m \in ToSet(Content(t)) : \E ref \in ToSet(TemplateNamed(t).content) :
             m = [ref |-> ref, from |-> <<"content", t>>]
    BY UsedGood, MountSeq
  <2>2. /\ IsSeq(Names(t))
        /\ \A m \in ToSet(Names(t)) : \E ref \in ToSet(TemplateNamed(t).names) :
             m = [ref |-> ref, from |-> <<"name", t>>]
    BY UsedGood, MountSeq
  <2> HIDE DEF Content, Names
  <2>3. IsSeq(Content(t) \o Names(t)) /\ ToSet(Content(t) \o Names(t)) = ToSet(Content(t)) \cup ToSet(Names(t))
    BY <2>1, <2>2, JoinedSeq
  <2> QED
    BY <2>1, <2>2, <2>3
<1> HIDE DEF Content, Names, Of
<1>2. /\ Len(parts) \in Nat /\ DOMAIN parts = 1..Len(parts) /\ (Len(parts) = 0 => parts = <<>>)
      /\ DOMAIN parts = DOMAIN order
  BY OrderSeq
<1>3. \A i \in 1..Len(parts) : parts[i] = Content(order[i]) \o Names(order[i]) /\ order[i] \in UsedTemplates
  BY <1>2, OrderSeq
<1> HIDE DEF parts
<1>4. \A i \in 1..Len(parts) : parts[i] \in Seq(V)
  <2> SUFFICES ASSUME NEW i \in 1..Len(parts) PROVE parts[i] \in Seq(V)
    OBVIOUS
  <2>1. IsSeq(parts[i]) /\ ToSet(parts[i]) \subseteq V
    BY <1>1, <1>2, <1>3
  <2> HIDE DEF V
  <2> QED
    BY <2>1 DEF IsSeq
<1>5. /\ FlattenSeq(parts) \in Seq(V)
      /\ \A x \in ToSet(FlattenSeq(parts)) : \E i \in 1..Len(parts) : x \in ToSet(parts[i])
  <2> HIDE DEF V
  <2> QED
    BY <1>2, <1>4, FlattenElements
<1>6. IsSeq(FlattenSeq(parts))
  <2>1. \A q \in Seq(V) : IsSeq(q)
    BY DEF IsSeq, ToSet
  <2> QED
    BY <1>5, <2>1
<1>7. \A m \in ToSet(FlattenSeq(parts)) : \E t \in UsedTemplates : Of(m, t)
  BY <1>1, <1>3, <1>5
<1>8. TemplateMounts = FlattenSeq(parts)
  BY DEF TemplateMounts, parts, Content, Names
<1> QED
  BY <1>6, <1>7, <1>8 DEF Of

\* All mounts are of a slot or of a used template, in whatever order.
LEMMA MountsElements ==
  ASSUME package \in Packages, UsedOutcome \notin Failures, order \in Orders
  PROVE  IsSeq(Mounts) /\ ToSet(Mounts) = ToSet(SlotMounts) \cup ToSet(TemplateMounts)
BY SlotMountsElements, TemplateMountsElements, JoinedSeq DEF Mounts

-----------------------------------------------------------------------------
(***************************************************************************)
(* The invariant holds.                                                    *)
(***************************************************************************)
\* At first nothing was validated, so nothing is to be relied on.
LEMMA InitUsecase == Init => UsecaseInv
BY DEF Init, UsecaseInv, TypeInv, ValidInv, NodeInv, GivenInv, TaskInv, Stages, Published, NodeGiven

\* Every step settles what the next ones rely on, and leaves the rest.
LEMMA NextUsecase == UsecaseInv /\ [Next]_vars => UsecaseInv'
<1> SUFFICES ASSUME UsecaseInv, [Next]_vars PROVE UsecaseInv'
  OBVIOUS
<1> USE DEF UsecaseInv
<1>1. package' = package /\ package \in Packages /\ Orders' = Orders /\ Loops' = Loops
  <2>1. package' = package
    BY DEF Next, Validate, ParseNode, Give, ParseTask, vars
  <2> QED
    BY <2>1, SameUsed, SameLoops DEF TypeInv
<1>2. Descriptors' = Descriptors /\ \A s : SlotNamed(s)' = SlotNamed(s)
  BY <1>1 DEF Descriptors, SlotNamed
<1>3. CASE Validate
  <2>1. TypeInv'
    BY <1>1, <1>3 DEF Validate, TypeInv, Stages
  <2>2. ValidInv'
    <3>1. CASE Validation = "ok"
      <4>1. Loops = "ok" /\ preview' = Preview /\ Preview' = Preview
        BY <1>3, <3>1, SameMounts, SamePreview DEF Validate, Validation, Loops
      <4> QED
        BY <1>1, <4>1 DEF ValidInv
    <3>2. CASE Validation # "ok"
      BY <1>3, <3>2 DEF Validate, ValidInv, Published
    <3> QED
      BY <3>1, <3>2
  <2>3. NodeInv' /\ GivenInv' /\ TaskInv'
    BY <1>3 DEF Validate, NodeInv, GivenInv, TaskInv, NodeGiven
  <2> QED
    BY <2>1, <2>2, <2>3
<1>4. CASE ParseNode
  <2>1. Loops = "ok" /\ (package.named => NodeOutcome = "ok")
    BY <1>1, <1>4, NodeGood DEF ParseNode, ValidInv, Published
  <2>2. TypeInv'
    BY <1>1, <1>4 DEF ParseNode, TypeInv, Stages
  <2>3. ValidInv'
    <3>1. Preview' = Preview
      BY <1>1, <1>4, SameMounts, SamePreview DEF ParseNode
    <3> QED
      BY <1>1, <1>4, <2>1, <3>1 DEF ParseNode, ValidInv, Published
  <2>4. NodeInv'
    BY <1>1, <1>2, <1>4, <2>1 DEF ParseNode, NodeInv, Descriptors, NodeGiven
  <2>5. GivenInv' /\ TaskInv'
    BY <1>4 DEF ParseNode, GivenInv, TaskInv, NodeGiven
  <2> QED
    BY <2>2, <2>3, <2>4, <2>5
<1>5. CASE Give
  <2>1. TypeInv'
    BY <1>1, <1>5 DEF Give, TypeInv, Stages
  <2>2. ValidInv'
    <3> SUFFICES ASSUME Len(order') <= 1 PROVE preview' = Preview'
      BY <1>1, <1>5 DEF Give, ValidInv, Published
    <3>1. Loops = "ok" /\ (Len(order) <= 1 => preview = Preview) /\ preview' = preview
      BY <1>5 DEF Give, ValidInv, Published
    <3>2. order' = order
      <4>1. order \in Orders /\ order' \in Orders
        BY <1>5 DEF Give, TypeInv
      <4> QED
        BY <1>1, <4>1, OneOrder
    <3>3. Preview' = Preview
      BY <1>1, <3>2, SameMounts, SamePreview
    <3> QED
      BY <1>1, <3>1, <3>2, <3>3
  <2>3. NodeInv' /\ GivenInv'
    <3>1. node' = node /\ DOMAIN node = Descriptors /\ stage' = "given"
      BY <1>5 DEF Give, NodeInv
    <3>2. PICK g \in Givens :
            /\ \A s \in Descriptors : ~ SlotNamed(s).optional => g[s] \notin {NoContents, <<>>}
            /\ given' = [s \in Descriptors |-> g[s]]
      BY <1>5, <3>1 DEF Give
    <3>3. \A s \in Descriptors : IsContents(g[s], SlotNamed(s).kind)
      <4>1. \A s \in Descriptors : SlotNamed(s) \in ToSet(package.slots) /\ SlotNamed(s).desc = s
        BY DEF Descriptors, SlotNamed
      <4> QED
        BY <1>1, <4>1, GivensAssumption
    <3>4. GivenInv'
      <4> SUFFICES ASSUME NEW s \in Descriptors
                   PROVE  /\ IsContents(given'[s], SlotNamed(s).kind)
                          /\ ~ SlotNamed(s).optional => given'[s] \notin {NoContents, <<>>}
        BY <1>2 DEF GivenInv, IsContents
      <4> QED
        BY <3>2, <3>3
    <3> QED
      BY <1>2, <3>1, <3>4 DEF NodeInv
  <2>4. TaskInv'
    BY <1>5 DEF Give, TaskInv
  <2> QED
    BY <2>1, <2>2, <2>3, <2>4
<1>6. CASE ParseTask \/ UNCHANGED vars
  <2>1. UNCHANGED <<package, order, preview, node, given>>
    BY <1>6 DEF ParseTask, vars
  <2>2. TypeInv' /\ NodeInv'
    BY <1>1, <1>2, <1>6, <2>1 DEF ParseTask, vars, TypeInv, NodeInv, Stages, NodeGiven
  <2>3. ValidInv'
    <3>1. Preview' = Preview
      BY <2>1, SameMounts, SamePreview
    <3> QED
      BY <1>1, <1>6, <2>1, <3>1 DEF ParseTask, vars, ValidInv, Published
  <2>4. GivenInv'
    BY <1>2, <1>6, <2>1 DEF ParseTask, vars, GivenInv, NodeGiven, IsContents
  <2>5. TaskInv'
    <3>1. Task' = Task /\ TaskOutcome' = TaskOutcome
      BY <2>1, SameTask, SameTaskOutcome
    <3> QED
      BY <1>6, <3>1 DEF ParseTask, vars, TaskInv
  <2> QED
    BY <2>2, <2>3, <2>4, <2>5
<1> QED
  BY <1>3, <1>4, <1>5, <1>6 DEF Next

\* What validation, the draft and the guard on the contents settle, they settle for good.
THEOREM SettledByThen == Spec => []UsecaseInv
<1>1. Init => UsecaseInv
  BY InitUsecase
<1>2. UsecaseInv /\ [Next]_vars => UsecaseInv'
  BY NextUsecase
<1> QED
  BY <1>1, <1>2, PTL DEF Spec

-----------------------------------------------------------------------------
(***************************************************************************)
(* Outputs and files.                                                      *)
(***************************************************************************)

\* What is collected from an output file is read where that file is uploaded from: since
\* package_validate found the output, CollectPath is the path that OutFiles gives it.
THEOREM CollectedThere == Spec => []CollectedWhereWritten
<1>1. ASSUME UsecaseInv PROVE CollectedWhereWritten
  <2> SUFFICES ASSUME stage = "sent", NEW out \in ToSet(package.outSlots),
                      NEW collected, collected = package.collected[out.material],
                      out.origin = "collected", collected.from = "file"
               PROVE  \E file \in task.outs :
                        /\ file.id = collected.file
                        /\ [id |-> out.desc, from |-> file.path, kind |-> out.kind] \in task.collects
    BY DEF CollectedWhereWritten
  <2>1. package \in Packages /\ OutsOutcome \notin Failures /\ task = Task
    BY <1>1, ValidParts DEF UsecaseInv, TypeInv, ValidInv, TaskInv, Published
  <2> DEFINE from == FileOut(collected.file)
             file == [id |-> from.desc, path |-> OutPath(from),
                      package |-> package.outs[from.material].batched]
  <2>2. /\ FileOuts(collected.file) # {} /\ from \in ToSet(package.outSlots)
        /\ from.desc = collected.file /\ from.origin = "usecase"
    BY <2>1, CollectedGood
  <2>3. file \in task.outs /\ file.id = collected.file /\ file.path = OutPath(from)
    BY <2>1, <2>2 DEF Task, OutFiles
  <2>4. CollectPath(collected) = OutPath(from)
    BY <2>2 DEF CollectPath
  <2>5. [id |-> out.desc, from |-> CollectPath(collected), kind |-> out.kind] \in task.collects
    BY <2>1 DEF Task, Collects
  <2> HIDE DEF file
  <2> QED
    BY <2>3, <2>4, <2>5
<1> QED
  BY <1>1, SettledByThen, PTL

\* A file that an argument, a variable or the standard input names is delivered under that
\* name: it is the file of a slot that holds something, or a template whose name is mounted
\* there, which is then not all that its name is mounted on.
THEOREM NamedDelivered == Spec => []NamedFilesDelivered
<1>1. ASSUME UsecaseInv PROVE NamedFilesDelivered
  <2> DEFINE Delivered(path) == \E file \in task.files : file.path = path
  <2> SUFFICES ASSUME stage = "sent", NEW m \in ToSet(Mounts), m.ref.to \in {"arg", "env", "stdin"}
               PROVE  /\ m.from[1] = "name" => Delivered(TemplateFile(m.from[2]))
                      /\ m.from[1] = "slot" /\ HasSlot(m.from[2], "File")
                         /\ given[m.from[2]] # NoContents =>
                           \A i \in DOMAIN given[m.from[2]] :
                             Delivered(FileName(m.from[2], given[m.from[2]][i]))
    BY Zenon DEF NamedFilesDelivered
  <2>1. /\ package \in Packages /\ order \in Orders /\ UsedOutcome \notin Failures
        /\ DOMAIN node = Descriptors /\ task = Task
    BY <1>1, ValidParts DEF UsecaseInv, TypeInv, ValidInv, NodeInv, TaskInv, Published, NodeGiven
  <2>2. task.files = SlotFiles \cup TemplateFiles
    BY <2>1 DEF Task
  <2>3. ASSUME m.from[1] = "name" PROVE Delivered(TemplateFile(m.from[2]))
    <3>1. PICK t \in UsedTemplates : \E ref \in ToSet(TemplateNamed(t).names) :
                                       m = [ref |-> ref, from |-> <<"name", t>>]
      <4>1. m \notin ToSet(SlotMounts)
        BY <2>1, <2>3, SlotMountsElements
      <4>2. m \in ToSet(TemplateMounts)
        BY <2>1, <4>1, MountsElements
      <4> QED
        BY <2>1, <2>3, <4>2, TemplateMountsElements
    <3> DEFINE names == TemplateNamed(t).names
    <3>2. IsSeq(names) /\ m.ref \in ToSet(names) /\ m.from[2] = t
      BY <2>1, <3>1, UsedGood
    <3>3. UnderItsName(names)
      <4>1. PICK i \in DOMAIN names : m.ref = names[i]
        BY <3>2, SeqDomain
      <4>2. names # <<>> /\ (Len(names) = 1 => i = 1)
        BY <3>2, <4>1, SeqDomain
      <4> QED
        BY <4>1, <4>2 DEF UnderItsName
    <3>4. ContentFile(t, TemplateFile(t), FALSE) \in TemplateFiles
      BY <3>3 DEF TemplateFiles, FilesOf
    <3>5. ContentFile(t, TemplateFile(t), FALSE).path = TemplateFile(t)
      BY DEF ContentFile
    <3> QED
      BY <2>2, <3>2, <3>4, <3>5
  <2>4. ASSUME NEW s, HasSlot(s, "File"), given[s] # NoContents, NEW i \in DOMAIN given[s]
        PROVE  Delivered(FileName(s, given[s][i]))
    <3> DEFINE file == [path |-> FileName(s, given[s][i]), package |-> node[s].batched,
                        form |-> <<"id", s, i>>]
    <3>1. s \in DOMAIN node
      BY <2>1, <2>4 DEF HasSlot, Descriptors
    <3>2. file \in SlotFiles /\ file.path = FileName(s, given[s][i])
      BY <2>4, <3>1 DEF SlotFiles
    <3> HIDE DEF file
    <3> QED
      BY <2>2, <3>2
  <2> QED
    BY <2>3, <2>4
<1> QED
  BY <1>1, SettledByThen, PTL

-----------------------------------------------------------------------------
(***************************************************************************)
(* parse_task finds what it unwraps.                                       *)
(***************************************************************************)

\* parse_task ends well where validation ended well, but for what it does not look at.
LEMMA TaskGood ==
  ASSUME UsecaseInv, stage \in NodeGiven, ~ Unlooked
  PROVE  TaskOutcome = "ok"
<1>1. /\ package \in Packages /\ order \in Orders /\ SlotsOutcome \notin Failures
      /\ UsedOutcome \notin Failures /\ OutsOutcome \notin Failures
  BY ValidParts DEF UsecaseInv, TypeInv, ValidInv, NodeGiven, Published
<1>2. ASSUME NEW slot \in ToSet(package.slots), ~ slot.optional
      PROVE  given[slot.desc] \notin {NoContents, <<>>}
  <2>1. slot.desc \in Descriptors /\ SlotNamed(slot.desc) = slot
    BY DEF Descriptors, SlotNamed, DistinctSlots, Unlooked
  <2> QED
    BY <1>2, <2>1 DEF UsecaseInv, GivenInv
<1>3. FlagsOutcome = "ok"
  BY DEF Unlooked
<1>4. ASSUME NEW slot \in ToSet(package.slots) PROVE SlotOutcome(slot) = "ok"
  <2> DEFINE o == <<PanicUnless(given[slot.desc] = NoContents => slot.optional),
                    PanicUnless(slot.kind = "Text" /\ (\E ref \in ToSet(slot.refs) : ref.to = "stdin") =>
                                  given[slot.desc] # NoContents),
                    IF Check(slot.refs, RefOutcome) = "ok" THEN "ok" ELSE "panic">>
  <2>1. given[slot.desc] = NoContents => slot.optional
    BY <1>2
  <2>2. slot.kind = "Text" /\ (\E ref \in ToSet(slot.refs) : ref.to = "stdin") =>
          given[slot.desc] # NoContents
    BY <1>2 DEF Unlooked
  <2>3. Check(slot.refs, RefOutcome) = "ok"
    BY <1>1, SlotsGood
  <2>4. o[1] = "ok" /\ o[2] = "ok" /\ o[3] = "ok" /\ DOMAIN o = 1..3
    BY <2>1, <2>2, <2>3 DEF PanicUnless
  <2>5. FirstBad(o) = "ok"
    <3> HIDE DEF o
    <3>1. \A i \in DOMAIN o : o[i] = "ok"
      BY <2>4
    <3> QED
      BY <3>1, NoneBad DEF Failures
  <2> QED
    BY <2>5 DEF SlotOutcome
<1>5. ASSUME NEW t \in UsedTemplates PROVE TemplateOutcome(t) = "ok"
  <2> DEFINE o == <<ErrorUnless(t \in package.parses), PanicUnless(TemplateRefsOutcome(t) = "ok")>>
  <2>1. IsTemplate(t) /\ t \in package.infos /\ TemplateRefsOutcome(t) = "ok"
    BY <1>1, UsedGood
  <2>2. t \in package.parses
    BY DEF Unlooked
  <2>3. \A i \in DOMAIN o : o[i] = "ok"
    BY <2>1, <2>2 DEF ErrorUnless, PanicUnless
  <2>4. FirstBad(o) = "ok"
    <3> HIDE DEF o
    <3> QED
      BY <2>3, NoneBad DEF Failures
  <2> QED
    BY <2>1, <2>4 DEF TemplateOutcome
<1>6. ASSUME NEW out \in ToSet(package.outSlots), out.origin = "usecase"
      PROVE  FileOutOutcome(out) = "ok"
  <2>1. PanicUnless(out.origin = "usecase" /\ Known(out.material, package.outs)) = "ok"
    BY <1>1, <1>6, OutsGood DEF PanicUnless
  <2>2. AppointedOutcome(out) = "ok"
    <3> SUFFICES ASSUME out.appointedBy # NoContents
                 PROVE  /\ HasSlot(out.appointedBy, "Text")
                        /\ given[out.appointedBy] \notin {NoContents, <<>>}
      BY DEF AppointedOutcome, PanicUnless
    <3>1. HasSlot(out.appointedBy, "Text") /\ ~ SlotNamed(out.appointedBy).optional
      BY DEF Unlooked
    <3>2. /\ SlotNamed(out.appointedBy) \in ToSet(package.slots)
          /\ SlotNamed(out.appointedBy).desc = out.appointedBy
      BY <3>1 DEF HasSlot, SlotNamed
    <3> QED
      BY <1>2, <3>1, <3>2
  <2> DEFINE o == <<PanicUnless(out.origin = "usecase" /\ Known(out.material, package.outs)),
                    AppointedOutcome(out)>>
  <2>3. \A i \in DOMAIN o : o[i] = "ok"
    BY <2>1, <2>2
  <2>4. FirstBad(o) = "ok"
    <3> HIDE DEF o
    <3> QED
      BY <2>3, NoneBad DEF Failures
  <2> QED
    BY <2>4 DEF FileOutOutcome
<1>7. ASSUME NEW out \in ToSet(package.outSlots) PROVE TaskOutOutcome(out) = "ok"
  <2>1. CASE out.origin = "usecase"
    BY <1>6, <2>1 DEF TaskOutOutcome
  <2>2. CASE out.origin = "collected"
    <3> DEFINE collected == package.collected[out.material]
               file == IF collected.from = "file" /\ FileOuts(collected.file) # {}
                       THEN FileOutOutcome(FileOut(collected.file)) ELSE "ok"
               o == <<file, PanicUnless(collected.to = out.kind)>>
    <3>1. /\ Known(out.material, package.collected) /\ collected.to = out.kind
          /\ collected.from = "file" =>
               /\ FileOut(collected.file) \in ToSet(package.outSlots)
               /\ FileOut(collected.file).origin = "usecase"
      BY <1>1, <2>2, CollectedGood
    <3>2. file = "ok" /\ PanicUnless(collected.to = out.kind) = "ok"
      BY <1>6, <3>1 DEF PanicUnless
    <3>3. FirstBad(o) = "ok"
      <4>1. \A i \in DOMAIN o : o[i] = "ok"
        BY <3>2
      <4> HIDE DEF o
      <4> QED
        BY <4>1, NoneBad DEF Failures
    <3> QED
      BY <2>2, <3>1, <3>3 DEF TaskOutOutcome
  <2> QED
    BY <1>1, <2>1, <2>2, PackagesAssumption
<1> DEFINE a == [i \in DOMAIN package.slots |-> SlotOutcome(package.slots[i])]
           b == [i \in DOMAIN order |-> TemplateOutcome(order[i])]
           c == [i \in DOMAIN package.outSlots |-> TaskOutOutcome(package.outSlots[i])]
           all == <<FlagsOutcome, FirstBad(a), FirstBad(b), FirstBad(c)>>
<1>8. /\ \A i \in DOMAIN a : a[i] = "ok"
      /\ \A i \in DOMAIN b : b[i] = "ok"
      /\ \A i \in DOMAIN c : c[i] = "ok"
  <2>1. IsSeq(package.slots) /\ IsSeq(package.outSlots)
    BY <1>1, PackagesAssumption
  <2> QED
    BY <1>1, <1>4, <1>5, <1>7, <2>1, SeqDomain, OrderSeq
<1>9. FirstBad(a) = "ok" /\ FirstBad(b) = "ok" /\ FirstBad(c) = "ok"
  <2> HIDE DEF a, b, c
  <2> QED
    BY <1>8, NoneBad DEF Failures
<1>10. \A i \in DOMAIN all : all[i] = "ok"
  <2> HIDE DEF a, b, c
  <2> QED
    BY <1>3, <1>9
<1>11. FirstBad(all) = "ok"
  <2> HIDE DEF all
  <2> QED
    BY <1>10, NoneBad DEF Failures
<1> QED
  BY <1>11 DEF TaskOutcome, Check

\* A published package whose metadata have a name and a description becomes a node, and
\* but for what else package_validate does not look at (Unlooked) a task, whatever its
\* slots are given.
THEOREM PublishedRunsAlways == Spec => []PublishedRuns
<1>1. ASSUME UsecaseInv PROVE PublishedRuns
  BY <1>1, TaskGood DEF PublishedRuns, UsecaseInv, NodeInv, TaskInv, NodeGiven
<1> QED
  BY <1>1, SettledByThen, PTL

-----------------------------------------------------------------------------
(***************************************************************************)
(* What the author of the package was shown.                               *)
(***************************************************************************)
Shifted(n, T) == {n + i : i \in T}

\* The least and the greatest place move with what is put in front.
LEMMA ShiftedEnds ==
  ASSUME NEW n \in Nat, NEW N \in Nat, NEW T, T \subseteq 1..N, T # {}
  PROVE  /\ Min(T) \in T /\ Min(Shifted(n, T)) = n + Min(T)
         /\ Max(T) \in T /\ Max(Shifted(n, T)) = n + Max(T)
<1> DEFINE U == Shifted(n, T)
<1>1. /\ T \subseteq Nat /\ T \subseteq 0..N /\ n + N \in Nat
      /\ U \subseteq Nat /\ U \subseteq 0..(n + N) /\ U # {}
  <2>1. \A i \in 1..N : i \in Nat /\ i \in 0..N /\ n + i \in Nat /\ n + i \in 0..(n + N)
    OBVIOUS
  <2>2. T \subseteq Nat /\ T \subseteq 0..N /\ n + N \in Nat
    OBVIOUS
  <2>3. U \subseteq Nat /\ U \subseteq 0..(n + N)
    BY <2>1 DEF Shifted
  <2>4. U # {}
    BY DEF Shifted
  <2> QED
    BY <2>2, <2>3, <2>4
<1>2. Min(T) \in T /\ (\A m \in T : Min(T) <= m) /\ Max(T) \in T /\ \A m \in T : m <= Max(T)
  BY <1>1, MinIsLeast, MaxIsGreatest
<1>3. Min(U) \in U /\ (\A m \in U : Min(U) <= m) /\ Max(U) \in U /\ \A m \in U : m <= Max(U)
  <2> HIDE DEF U
  <2>1. PICK b \in Nat : b = n + N
    BY <1>1
  <2> QED
    BY <1>1, <2>1, MinIsLeast, MaxIsGreatest
<1>4. PICK i \in T : Min(U) = n + i
  BY <1>3 DEF Shifted
<1>5. PICK k \in T : Max(U) = n + k
  BY <1>3 DEF Shifted
<1>6. n + Min(T) \in U /\ n + Max(T) \in U
  BY <1>2 DEF Shifted
<1>7. PICK least \in T : least = Min(T)
  BY <1>2
<1>8. PICK most \in T : most = Max(T)
  BY <1>2
<1>9. i = least
  <2>1. Min(U) <= n + least /\ least <= i
    BY <1>2, <1>3, <1>6, <1>7
  <2> QED
    BY <1>4, <2>1
<1>10. k = most
  <2>1. n + most <= Max(U) /\ k <= most
    BY <1>2, <1>3, <1>6, <1>8
  <2> QED
    BY <1>5, <2>1
<1> QED
  BY <1>2, <1>4, <1>5, <1>7, <1>8, <1>9, <1>10

\* Mounts before others do not change the places that they are not in themselves.
LEMMA SamePlace ==
  ASSUME NEW flags, NEW mounts, IsSeq(flags), IsSeq(mounts), NEW sort \in Sorts(mounts),
         \A i \in DOMAIN flags : flags[i].ref.sort # sort
  PROVE  sort \in Sorts(flags \o mounts) /\ ArgPlaces(flags \o mounts)[sort] = ArgPlaces(mounts)[sort]
<1> DEFINE n == Len(flags)
           N == Len(mounts)
           all == flags \o mounts
           at == {i \in MountedOn(mounts, "arg") : mounts[i].ref.sort = sort}
           atAll == {i \in MountedOn(all, "arg") : all[i].ref.sort = sort}
<1>1. /\ n \in Nat /\ N \in Nat /\ DOMAIN flags = 1..n /\ DOMAIN mounts = 1..N
      /\ \A i \in 1..N : i \in Nat
  BY SeqDomain
<1>2. DOMAIN all = 1..(n + N) /\ (\A i \in 1..n : all[i] = flags[i]) /\ \A i \in 1..N : all[n + i] = mounts[i]
  <2>1. IsSeq(all) /\ Len(all) = n + N
    BY JoinedSeq
  <2> QED
    BY <2>1, JoinedSeq, SeqDomain
<1> HIDE DEF n, N, all
<1>3. at \subseteq 1..N /\ at # {}
  BY <1>1 DEF Sorts, MountedOn
<1>4. \A j \in 1..(n + N) : j \in 1..n \/ \E i \in 1..N : j = n + i
  <2> SUFFICES ASSUME NEW j \in 1..(n + N), j \notin 1..n PROVE \E i \in 1..N : j = n + i
    OBVIOUS
  <2>1. j - n \in 1..N /\ j = n + (j - n)
    BY <1>1
  <2> QED
    BY <2>1
<1>5. \A i \in 1..N : n + i \in DOMAIN all
  BY <1>1, <1>2
<1>6. atAll = Shifted(n, at)
  <2>1. ASSUME NEW j \in atAll PROVE j \in Shifted(n, at)
    <3>1. j \in 1..(n + N) /\ all[j].ref.to = "arg" /\ all[j].ref.sort = sort
      BY <1>2 DEF MountedOn
    <3>2. j \notin 1..n
      BY <1>1, <1>2, <3>1
    <3>3. PICK i \in 1..N : j = n + i
      BY <1>4, <3>1, <3>2
    <3>4. all[j] = mounts[i]
      BY <1>2, <3>3
    <3>5. i \in at
      BY <1>1, <3>1, <3>4 DEF MountedOn
    <3> QED
      BY <3>3, <3>5 DEF Shifted
  <2>2. ASSUME NEW i \in at PROVE n + i \in atAll
    <3>1. i \in 1..N /\ mounts[i].ref.to = "arg" /\ mounts[i].ref.sort = sort
      BY <1>3 DEF MountedOn
    <3>2. all[n + i] = mounts[i] /\ n + i \in DOMAIN all
      BY <1>2, <1>5, <3>1
    <3> QED
      BY <3>1, <3>2 DEF MountedOn
  <2> HIDE DEF at, atAll
  <2> QED
    BY <2>1, <2>2 DEF Shifted
<1> DEFINE Filling(m, T) == {i \in T : m[i].from # <<"flag">>}
           On(m, T, nth) == {i \in Filling(m, T) : m[i].ref.nth = nth}
           Nths(m, T) == {m[i].ref.nth : i \in Filling(m, T)}
           fills == [nth \in Nths(mounts, at) |-> mounts[Max(On(mounts, at, nth))].from]
           fillsAll == [nth \in Nths(all, atAll) |-> all[Max(On(all, atAll, nth))].from]
<1>7. ArgPlaces(mounts)[sort] = [format |-> ArgFormat(mounts[Min(at)].ref.desc), fills |-> fills]
  BY DEF ArgPlaces, Place
<1>8. sort \in Sorts(all)
  <2>1. PICK j \in atAll : TRUE
    BY <1>3, <1>6 DEF Shifted
  <2> QED
    BY <2>1 DEF Sorts
<1>9. ArgPlaces(all)[sort] = [format |-> ArgFormat(all[Min(atAll)].ref.desc), fills |-> fillsAll]
  BY <1>8 DEF ArgPlaces, Place
<1> HIDE DEF at, atAll
<1>10. all[Min(atAll)] = mounts[Min(at)]
  <2>1. Min(at) \in at /\ Min(atAll) = n + Min(at)
    BY <1>1, <1>3, <1>6, ShiftedEnds
  <2> QED
    BY <1>2, <1>3, <2>1
<1>11. \A i \in at : all[n + i] = mounts[i]
  BY <1>2, <1>3
<1>12. Filling(all, atAll) = Shifted(n, Filling(mounts, at))
  BY <1>6, <1>11 DEF Shifted
<1>13. Nths(all, atAll) = Nths(mounts, at)
  BY <1>11, <1>12 DEF Shifted
<1>14. ASSUME NEW nth \in Nths(mounts, at)
       PROVE  all[Max(On(all, atAll, nth))] = mounts[Max(On(mounts, at, nth))]
  <2>1. On(mounts, at, nth) # {} /\ On(mounts, at, nth) \subseteq at
    OBVIOUS
  <2>2. On(all, atAll, nth) = Shifted(n, On(mounts, at, nth))
    BY <1>11, <1>12 DEF Shifted
  <2> HIDE DEF On
  <2>3. Max(On(mounts, at, nth)) \in at /\ Max(On(all, atAll, nth)) = n + Max(On(mounts, at, nth))
    <3>1. On(mounts, at, nth) \subseteq 1..N
      BY <1>3, <2>1
    <3> QED
      BY <1>1, <2>1, <2>2, <3>1, ShiftedEnds
  <2> QED
    BY <1>11, <2>3
<1>15. fillsAll = fills
  <2> HIDE DEF Nths, On
  <2> QED
    BY <1>13, <1>14
<1> HIDE DEF fills, fillsAll
<1> QED
  BY <1>7, <1>8, <1>9, <1>10, <1>15 DEF all

\* The flags are as many mounts.
LEMMA FlagMountsSeq ==
  ASSUME package \in Packages
  PROVE  IsSeq(FlagMounts) /\ DOMAIN FlagMounts = DOMAIN package.flagArgs
<1>1. IsSeq(package.flagArgs)
  BY PackagesAssumption
<1>2. Len(package.flagArgs) \in Nat /\ DOMAIN package.flagArgs = 1..Len(package.flagArgs)
  BY <1>1, SeqDomain
<1> DEFINE F(i) == [ref |-> [to |-> "arg", desc |-> package.flagArgs[i].desc, nth |-> 0,
                             sort |-> package.flagArgs[i].sort, keys |-> {}],
                    from |-> <<"flag">>]
<1>3. FlagMounts = [i \in 1..Len(package.flagArgs) |-> F(i)]
  BY <1>2 DEF FlagMounts
<1> HIDE DEF F
<1>4. \A i \in DOMAIN FlagMounts : FlagMounts[i] \in ToSet(FlagMounts)
  BY DEF ToSet
<1>5. IsSeq(FlagMounts)
  BY <1>2, <1>3, <1>4 DEF IsSeq
<1> QED
  BY <1>2, <1>3, <1>5

\* The author of a package was shown the arguments and variables of the task: what mounts
\* in front of the others, the flags, changes no place but those that it is in.
THEOREM PreviewToldAlways == Spec => []PreviewTold
<1>1. ASSUME UsecaseInv PROVE PreviewTold
  <2> SUFFICES ASSUME stage = "sent", Len(order) <= 1
               PROVE  /\ (\A i \in DOMAIN package.flagArgs :
                            package.flagArgs[i].sort \notin DOMAIN preview.args) =>
                           \A sort \in DOMAIN preview.args : task.args[sort] = Fill(preview.args[sort])
                      /\ package.flagEnvs = <<>> =>
                           task.envs = [key \in DOMAIN preview.envs |-> Fill(preview.envs[key])]
    BY DEF PreviewTold
  <2>1. /\ package \in Packages /\ order \in Orders /\ UsedOutcome \notin Failures
        /\ preview = Preview /\ task = Task
    BY <1>1, ValidParts DEF UsecaseInv, TypeInv, ValidInv, TaskInv, Published
  <2>2. preview.args = ArgPlaces(Mounts) /\ preview.envs = EnvPlaces(Mounts)
    BY <2>1 DEF Preview
  <2>3. IsSeq(Mounts)
    BY <2>1, MountsElements
  <2>4. ASSUME \A i \in DOMAIN package.flagArgs :
                 package.flagArgs[i].sort \notin DOMAIN preview.args,
               NEW sort \in DOMAIN preview.args
        PROVE  task.args[sort] = Fill(preview.args[sort])
    <3>1. IsSeq(FlagMounts) /\ DOMAIN FlagMounts = DOMAIN package.flagArgs
      BY <2>1, FlagMountsSeq
    <3>2. sort \in Sorts(Mounts) /\ \A i \in DOMAIN FlagMounts : FlagMounts[i].ref.sort # sort
      BY <2>2, <2>4, <3>1 DEF ArgPlaces, FlagMounts
    <3>3. /\ sort \in Sorts(FlagMounts \o Mounts)
          /\ ArgPlaces(FlagMounts \o Mounts)[sort] = ArgPlaces(Mounts)[sort]
      BY <2>3, <3>1, <3>2, SamePlace
    <3>4. sort \in DOMAIN TaskArgs /\ TaskArgs[sort] = preview.args[sort]
      BY <2>2, <3>3 DEF TaskArgs, ArgPlaces
    <3> QED
      BY <2>1, <3>4 DEF Task
  <2>5. ASSUME package.flagEnvs = <<>>
        PROVE  task.envs = [key \in DOMAIN preview.envs |-> Fill(preview.envs[key])]
    <3>1. FlagEnvMounts = <<>>
      BY <2>5 DEF FlagEnvMounts
    <3>2. FlagEnvMounts \o Mounts = Mounts
      BY <2>3, <3>1 DEF IsSeq
    <3>3. TaskEnvs = preview.envs
      BY <2>2, <3>2 DEF TaskEnvs
    <3> QED
      BY <2>1, <3>3 DEF Task
  <2> QED
    BY <2>4, <2>5
<1> QED
  BY <1>1, SettledByThen, PTL

-----------------------------------------------------------------------------
(***************************************************************************)
(* The holes of a format, filled one after the other.                      *)
(***************************************************************************)

\* The ranks of some numbers grow with them, and are those from 0 on.
LEMMA RankIs ==
  ASSUME NEW S, IsFiniteSet(S), S \subseteq Nat
  PROVE  /\ \A n : Rank(n, S) \in Nat
         /\ \A m \in S, n \in Nat : m < n => Rank(m, S) < Rank(n, S)
         /\ \A n \in S : Rank(n, S) < Cardinality(S)
         /\ \A j \in 0..(Cardinality(S) - 1) : \E n \in S : Rank(n, S) = j
<1> DEFINE Smaller(n) == {m \in S : m < n}
<1>1. \A n : IsFiniteSet(Smaller(n)) /\ Cardinality(Smaller(n)) \in Nat /\ Rank(n, S) = Cardinality(Smaller(n))
  <2> SUFFICES ASSUME NEW n
               PROVE  /\ IsFiniteSet(Smaller(n)) /\ Cardinality(Smaller(n)) \in Nat
                      /\ Rank(n, S) = Cardinality(Smaller(n))
    OBVIOUS
  <2>1. Smaller(n) \in SUBSET S
    OBVIOUS
  <2>2. Rank(n, S) = Cardinality(Smaller(n))
    BY DEF Rank
  <2> HIDE DEF Smaller
  <2> QED
    BY <2>1, <2>2, FS_Subset, FS_CardinalityType
<1>2. \A n : Rank(n, S) \in Nat
  BY <1>1, Zenon
<1>3. ASSUME NEW m \in S, NEW T, IsFiniteSet(T), Smaller(m) \cup {m} \subseteq T
      PROVE  Rank(m, S) < Cardinality(T)
  <2>1. m \notin Smaller(m)
    OBVIOUS
  <2> HIDE DEF Smaller
  <2>2. Cardinality(Smaller(m) \cup {m}) = Cardinality(Smaller(m)) + 1
    BY <1>1, <2>1, FS_AddElement
  <2>3. Cardinality(Smaller(m) \cup {m}) <= Cardinality(T) /\ Cardinality(T) \in Nat
    BY <1>3, FS_Subset, FS_CardinalityType
  <2>4. Rank(m, S) = Cardinality(Smaller(m)) /\ Rank(m, S) \in Nat
    BY <1>1, <1>2, Zenon
  <2> QED
    BY <2>2, <2>3, <2>4
<1>4. ASSUME NEW m \in S, NEW n \in Nat, m < n PROVE Rank(m, S) < Rank(n, S)
  <2>1. Smaller(m) \cup {m} \subseteq Smaller(n)
    <3>1. \A x \in S : x < m => x < n
      BY <1>4
    <3> QED
      BY <1>4, <3>1
  <2>2. IsFiniteSet(Smaller(n)) /\ Rank(n, S) = Cardinality(Smaller(n))
    BY <1>1, Zenon
  <2> HIDE DEF Smaller
  <2> QED
    BY <1>3, <2>1, <2>2
<1>5. ASSUME NEW n \in S PROVE Rank(n, S) < Cardinality(S)
  <2>1. Smaller(n) \cup {n} \subseteq S
    OBVIOUS
  <2> HIDE DEF Smaller
  <2> QED
    BY <1>3, <2>1
<1> DEFINE k == Cardinality(S)
           f == [n \in S |-> Rank(n, S)]
<1>6. k \in Nat
  BY FS_CardinalityType
<1>7. f \in Injection(S, 0..(k - 1))
  <2>1. \A n \in S : Rank(n, S) \in 0..(k - 1)
    BY <1>2, <1>5, <1>6
  <2>2. ASSUME NEW m \in S, NEW n \in S, m # n PROVE Rank(m, S) # Rank(n, S)
    <3>1. m < n \/ n < m
      BY <2>2
    <3> QED
      BY <1>2, <1>4, <3>1
  <2> HIDE DEF k
  <2> QED
    BY <2>1, <2>2 DEF Injection, IsInjective
<1>8. IsFiniteSet(0..(k - 1)) /\ Cardinality(0..(k - 1)) = k
  <2> HIDE DEF k
  <2>1. 0 \in Int /\ k - 1 \in Int
    BY <1>6
  <2> QED
    BY <1>6, <2>1, FS_Interval
<1>9. f \in Surjection(S, 0..(k - 1))
  <2> HIDE DEF f
  <2> QED
    BY <1>7, <1>8, FS_Injection
<1>10. \A j \in 0..(k - 1) : \E n \in S : Rank(n, S) = j
  <2> HIDE DEF k
  <2> QED
    BY <1>9 DEF Surjection
<1> QED
  BY <1>2, <1>4, <1>5, <1>10

\* Finitely many numbers have a greatest.
LEMMA GreatestOfFinite ==
  ASSUME NEW S, IsFiniteSet(S), S \subseteq Nat, NEW T \in SUBSET S, T # {}
  PROVE  Max(T) \in T /\ \A m \in T : m <= Max(T)
<1>1. IsFiniteSet(T) /\ T \subseteq Nat
  BY FS_Subset
<1>2. Cardinality(T) \in Nat /\ Cardinality(T) # 0
  BY <1>1, FS_CardinalityType, FS_EmptySet
<1>3. PICK n \in T : Rank(n, T) = Cardinality(T) - 1
  <2>1. Cardinality(T) - 1 \in 0..(Cardinality(T) - 1)
    BY <1>2
  <2> QED
    BY <1>1, <2>1, RankIs
<1>4. ASSUME NEW m \in T PROVE m <= n
  <2> SUFFICES ASSUME n < m PROVE FALSE
    BY <1>1
  <2>1. Rank(n, T) < Rank(m, T) /\ Rank(m, T) < Cardinality(T) /\ Rank(m, T) \in Nat
    BY <1>1, RankIs
  <2> QED
    BY <1>2, <1>3, <2>1
<1> QED
  BY <1>1, <1>3, <1>4 DEF Max

\* The holes of a format; the number of one is how many come before it.
Holes(format) == {i \in DOMAIN format : format[i] = Hole}
Nth(format, i) == Rank(i, Holes(format))

\* The holes of a format are finitely many numbers.
LEMMA HolesFinite ==
  ASSUME NEW V, NEW format \in Seq(V)
  PROVE  IsFiniteSet(Holes(format)) /\ Holes(format) \subseteq Nat
<1>1. DOMAIN format = 1..Len(format) /\ Len(format) \in Nat
  OBVIOUS
<1>2. IsFiniteSet(1..Len(format))
  BY <1>1, FS_Interval
<1>3. Holes(format) \subseteq 1..Len(format)
  BY <1>1 DEF Holes
<1> QED
  BY <1>1, <1>2, <1>3, FS_Subset

\* The number of a hole is a natural,
LEMMA NthIsNatural ==
  ASSUME NEW V, NEW format \in Seq(V)
  PROVE  \A i : Nth(format, i) \in Nat
BY HolesFinite, RankIs DEF Nth

\* ... greater than those of the holes before it,
LEMMA NthGrows ==
  ASSUME NEW V, NEW format \in Seq(V), NEW i \in 1..Len(format), NEW k \in 1..Len(format), k < i,
         format[k] = Hole
  PROVE  Nth(format, k) < Nth(format, i)
<1>1. k \in Holes(format)
  BY DEF Holes
<1>2. i \in Nat
  OBVIOUS
<1> QED
  BY <1>1, <1>2, HolesFinite, RankIs DEF Nth

\* ... and none is left out.
LEMMA NthFound ==
  ASSUME NEW V, NEW format \in Seq(V), NEW i \in 1..Len(format), format[i] = Hole,
         NEW j \in Nat, j <= Nth(format, i)
  PROVE  \E k \in 1..Len(format) : format[k] = Hole /\ Nth(format, k) = j
<1>1. i \in Holes(format) /\ IsFiniteSet(Holes(format)) /\ Holes(format) \subseteq Nat
  BY HolesFinite DEF Holes
<1>2. Rank(i, Holes(format)) \in Nat /\ Rank(i, Holes(format)) < Cardinality(Holes(format))
  BY <1>1, RankIs
<1>3. Cardinality(Holes(format)) \in Nat
  BY <1>1, FS_CardinalityType
<1>4. j \in 0..(Cardinality(Holes(format)) - 1)
  BY <1>2, <1>3 DEF Nth
<1>5. PICK k \in Holes(format) : Rank(k, Holes(format)) = j
  BY <1>1, <1>4, RankIs
<1>6. k \in 1..Len(format) /\ format[k] = Hole
  BY DEF Holes
<1> QED
  BY <1>5, <1>6 DEF Nth

-----------------------------------------------------------------------------
\* The format with the values of the first j holes.
Parts(format, values, j) ==
  [i \in 1..Len(format) |->
     IF format[i] = Hole /\ Nth(format, i) < j THEN values[Nth(format, i)] ELSE <<format[i]>>]

\* What the format is filled with: as many sequences without holes, numbered from 0.
AreValues(values, k, V) ==
  /\ DOMAIN values = 0..(k - 1)
  /\ \A n \in 0..(k - 1) : values[n] \in Seq(V) /\ Hole \notin ToSet(values[n])

\* A value that replaces the first hole that is left is in the hole of its number.
LEMMA NextHole ==
  ASSUME NEW V, Hole \in V, NEW format \in Seq(V), NEW k \in Nat, NEW values, AreValues(values, k, V),
         NEW j \in 0..(k - 1)
  PROVE  ReplaceFirstSubSeq(values[j], <<Hole>>, FlattenSeq(Parts(format, values, j)))
           = FlattenSeq(Parts(format, values, j + 1))
<1> DEFINE N == Len(format)
           old == Parts(format, values, j)
           new == Parts(format, values, j + 1)
<1>1. /\ N \in Nat /\ Len(old) = N /\ Len(new) = N /\ Len(old) \in Nat /\ Len(new) \in Nat
      /\ (Len(old) = 0 => old = <<>>) /\ j \in Nat
      /\ \A i \in 1..N : i \in Nat /\ Nth(format, i) \in Nat
  BY NthIsNatural DEF Parts
<1>2. \A i \in 1..N :
        /\ old[i] = IF format[i] = Hole /\ Nth(format, i) < j THEN values[Nth(format, i)] ELSE <<format[i]>>
        /\ new[i] = IF format[i] = Hole /\ Nth(format, i) < j + 1 THEN values[Nth(format, i)] ELSE <<format[i]>>
  BY DEF Parts
<1> HIDE DEF old, new
<1>3. \A i \in 1..N : Nth(format, i) < j + 1 => Nth(format, i) \in 0..(k - 1)
  BY <1>1
<1>4. \A i \in 1..N : <<format[i]>> \in Seq(V)
  OBVIOUS
<1>5. \A i \in 1..N : old[i] \in Seq(V) /\ new[i] \in Seq(V)
  <2> SUFFICES ASSUME NEW i \in 1..N PROVE old[i] \in Seq(V) /\ new[i] \in Seq(V)
    OBVIOUS
  <2>1. PICK n \in Nat : n = Nth(format, i)
    BY <1>1
  <2>2. n < j + 1 => values[n] \in Seq(V)
    BY <1>1 DEF AreValues
  <2>3. n < j => n < j + 1
    BY <1>1
  <2> QED
    BY <1>2, <1>4, <2>1, <2>2, <2>3, Zenon
<1>6a. \A m \in 1..N : ~ (format[m] = Hole /\ Nth(format, m) = j) => old[m] = new[m]
  <2> SUFFICES ASSUME NEW m \in 1..N, ~ (format[m] = Hole /\ Nth(format, m) = j) PROVE old[m] = new[m]
    OBVIOUS
  <2>1. format[m] = Hole => (Nth(format, m) < j <=> Nth(format, m) < j + 1)
    BY <1>1
  <2> QED
    BY <1>2, <2>1, Zenon
<1>6. values[j] \in Seq(V)
  BY DEF AreValues
<1>7. ASSUME NEW i \in 1..N, Hole \in ToSet(old[i])
      PROVE  format[i] = Hole /\ j <= Nth(format, i)
  <2>1. CASE format[i] = Hole /\ Nth(format, i) < j
    <3>1. Nth(format, i) \in 0..(k - 1)
      BY <1>1, <1>3, <2>1
    <3>2. old[i] = values[Nth(format, i)]
      BY <1>2, <2>1, Zenon
    <3> QED
      BY <1>7, <3>1, <3>2 DEF AreValues
  <2>2. CASE ~ (format[i] = Hole /\ Nth(format, i) < j)
    <3>1. old[i] = <<format[i]>>
      BY <1>2, <2>2
    <3>2. format[i] = Hole
      BY <1>7, <3>1 DEF ToSet
    <3> QED
      BY <1>1, <2>2, <3>2
  <2> QED
    BY <2>1, <2>2
<1>8. CASE \E i \in 1..N : format[i] = Hole /\ Nth(format, i) = j
  <2>1. PICK i \in 1..N : format[i] = Hole /\ Nth(format, i) = j
    BY <1>8
  <2>2. \A m \in 1..N : m # i => old[m] = new[m]
    <3> SUFFICES ASSUME NEW m \in 1..N, m # i PROVE old[m] = new[m]
      OBVIOUS
    <3>1. m < i \/ i < m
      OBVIOUS
    <3>2. format[m] = Hole => Nth(format, m) # j
      BY <1>1, <2>1, <3>1, NthGrows
    <3> QED
      BY <1>6a, <3>2, Zenon
  <2>3. old[i] = <<Hole>> /\ new[i] = values[j]
    <3>1. ~ (Nth(format, i) < j) /\ Nth(format, i) < j + 1
      BY <1>1, <2>1
    <3>2. old[i] = <<format[i]>> /\ new[i] = values[Nth(format, i)]
      BY <1>2, <2>1, <3>1, Zenon
    <3> QED
      BY <2>1, <3>2, Zenon
  <2>4. PICK a \in Seq(V), b \in Seq(V) :
          /\ FlattenSeq(old) = (a \o old[i]) \o b
          /\ FlattenSeq(new) = (a \o new[i]) \o b
          /\ \A x \in ToSet(a) : \E m \in 1..N : m < i /\ x \in ToSet(old[m])
    <3>1. /\ N \in Nat /\ Len(old) = N /\ Len(new) = N
          /\ \A m \in 1..N : old[m] \in Seq(V) /\ new[m] \in Seq(V)
      BY <1>1, <1>5
    <3> HIDE DEF N
    <3>2. DifferAt(i, N, V, old, new)
      BY <2>2, <3>1, FlattenDiffer
    <3> QED
      BY <3>2, Zenon DEF DifferAt
  <2>5. Hole \notin ToSet(a)
    <3> SUFFICES ASSUME Hole \in ToSet(a) PROVE FALSE
      OBVIOUS
    <3>1. PICK m \in 1..N : m < i /\ Hole \in ToSet(old[m])
      BY <2>4
    <3>2. format[m] = Hole /\ j <= Nth(format, m)
      BY <1>7, <3>1
    <3>3. Nth(format, m) < Nth(format, i)
      BY <1>1, <3>1, <3>2, NthGrows
    <3> QED
      BY <1>1, <2>1, <3>2, <3>3
  <2>6. TakesPlace(values[j], Hole, a, b)
    BY <1>6, <2>5, ReplaceFirst
  <2>7. FlattenSeq(old) = (a \o <<Hole>>) \o b /\ FlattenSeq(new) = (a \o values[j]) \o b
    BY <2>3, <2>4, Zenon
  <2> QED
    BY <2>6, <2>7, Zenon DEF TakesPlace, old, new
<1>9. CASE ~ \E i \in 1..N : format[i] = Hole /\ Nth(format, i) = j
  <2>1. \A i \in 1..N : format[i] = Hole => ~ (j <= Nth(format, i))
    <3> SUFFICES ASSUME NEW i \in 1..N, format[i] = Hole, j <= Nth(format, i) PROVE FALSE
      OBVIOUS
    <3>1. j \in Nat
      BY <1>1
    <3>2. \E m \in 1..N : format[m] = Hole /\ Nth(format, m) = j
      BY <3>1, NthFound
    <3> QED
      BY <1>9, <3>2
  <2>2. FlattenSeq(old) \in Seq(V) /\ \A x \in ToSet(FlattenSeq(old)) : \E i \in 1..N : x \in ToSet(old[i])
    <3>1. \A i \in 1..Len(old) : old[i] \in Seq(V)
      BY <1>1, <1>5
    <3>2. /\ FlattenSeq(old) \in Seq(V)
          /\ \A x \in ToSet(FlattenSeq(old)) : \E i \in 1..Len(old) : x \in ToSet(old[i])
      BY <1>1, <3>1, FlattenElements
    <3> QED
      BY <1>1, <3>2
  <2>3. Hole \notin ToSet(FlattenSeq(old))
    BY <1>7, <2>1, <2>2
  <2>4. ReplaceFirstSubSeq(values[j], <<Hole>>, FlattenSeq(old)) = FlattenSeq(old)
    BY <2>2, <2>3, ReplaceNone
  <2>5. old = new
    <3>1. \A i \in 1..N : old[i] = new[i]
      BY <1>6a, <1>9
    <3> QED
      BY <1>1, <3>1 DEF old, new, Parts
  <2> QED
    BY <2>4, <2>5 DEF old, new
<1> QED
  BY <1>8, <1>9

\* What the fold of FillHoles defines: a function on the sets of numbers.
FillEquation(f, format, values) ==
  f = [s \in SUBSET DOMAIN values |->
         IF s = {} THEN format
         ELSE ReplaceFirstSubSeq(values[Max(s)], <<Hole>>, f[s \ {Max(s)}])]

\* Sequences without holes, under finitely many numbers,
AreFills(values, V) ==
  /\ IsFiniteSet(DOMAIN values) /\ DOMAIN values \subseteq Nat
  /\ \A n \in DOMAIN values : values[n] \in Seq(V) /\ Hole \notin ToSet(values[n])

\* ... in the order of their numbers.
Ranked(values) ==
  [j \in 0..(Cardinality(DOMAIN values) - 1) |->
     values[CHOOSE n \in DOMAIN values : Rank(n, DOMAIN values) = j]]

\* Every value is at the rank of its number.
LEMMA RankedAre ==
  ASSUME NEW V, NEW values, AreFills(values, V)
  PROVE  /\ Cardinality(DOMAIN values) \in Nat
         /\ AreValues(Ranked(values), Cardinality(DOMAIN values), V)
         /\ \A n \in DOMAIN values : Ranked(values)[Rank(n, DOMAIN values)] = values[n]
<1> PICK S : S = DOMAIN values
  OBVIOUS
<1>1. IsFiniteSet(S) /\ S \subseteq Nat
  BY DEF AreFills
<1> PICK k \in Nat : k = Cardinality(S)
  BY <1>1, FS_CardinalityType
<1>2. \A j \in 0..(k - 1) : \E n \in S : Rank(n, S) = j
  BY <1>1, RankIs
<1>3. Ranked(values) = [j \in 0..(k - 1) |-> values[CHOOSE n \in S : Rank(n, S) = j]]
  BY DEF Ranked
<1>4. \A j \in 0..(k - 1) : (CHOOSE n \in S : Rank(n, S) = j) \in S
  BY <1>2
<1>5. AreValues(Ranked(values), k, V)
  BY <1>3, <1>4 DEF AreValues, AreFills
<1>6. ASSUME NEW n \in S PROVE Ranked(values)[Rank(n, S)] = values[n]
  <2>1. Rank(n, S) \in 0..(k - 1)
    <3>1. Rank(n, S) \in Nat /\ Rank(n, S) < k
      BY <1>1, RankIs
    <3> QED
      BY <3>1
  <2>2. \A m \in S : Rank(m, S) = Rank(n, S) => m = n
    <3> SUFFICES ASSUME NEW m \in S, Rank(m, S) = Rank(n, S), m # n PROVE FALSE
      OBVIOUS
    <3>1. m \in Nat /\ n \in Nat /\ (m < n \/ n < m)
      BY <1>1
    <3>2. /\ m < n => Rank(m, S) < Rank(n, S)
          /\ n < m => Rank(n, S) < Rank(m, S)
          /\ Rank(m, S) \in Nat
      BY <1>1, <3>1, RankIs
    <3> QED
      BY <3>1, <3>2
  <2>3. (CHOOSE m \in S : Rank(m, S) = Rank(n, S)) = n
    BY <2>2
  <2> QED
    BY <1>3, <2>1, <2>3
<1> QED
  BY <1>5, <1>6

\* fill: hole by hole, each value replaces the first hole that is left.
LEMMA FillIsFold ==
  ASSUME NEW V, Hole \in V, NEW format \in Seq(V), NEW values, AreFills(values, V)
  PROVE  \E h : FillEquation(h, format, values) /\ FillHoles(format, values) = h[DOMAIN values]
<1> PICK D : D = DOMAIN values
  OBVIOUS
<1> DEFINE step == [n \in D |-> [t \in Seq(V) |-> ReplaceFirstSubSeq(values[n], <<Hole>>, t)]]
           pick == [s \in SUBSET D |-> Max(s)]
<1>1. \A n \in D : values[n] \in Seq(V)
  BY DEF AreFills
<1>2. IsFiniteSet(D) /\ D \subseteq Nat
  BY DEF AreFills
<1>3. \A s \in SUBSET D : s # {} => Max(s) \in s
  BY <1>2, GreatestOfFinite
<1>4. Picks(pick, D)
  BY <1>3 DEF Picks
<1>5. \A n \in D, t \in Seq(V) : step[n][t] \in Seq(V) /\ step[n][t] = ReplaceFirstSubSeq(values[n], <<Hole>>, t)
  BY <1>1, Replaced
<1> HIDE DEF step
<1>6. PICK g \in [SUBSET D -> Seq(V)] : IsFold(g, D, format, step, pick)
  <2> HIDE DEF pick
  <2> QED
    BY <1>2, <1>4, <1>5, FoldExists
<1>7. FillEquation(g, format, values)
  <2>1. ASSUME NEW s \in SUBSET D
        PROVE  g[s] = IF s = {} THEN format
                      ELSE ReplaceFirstSubSeq(values[Max(s)], <<Hole>>, g[s \ {Max(s)}])
    <3>1. g[s] = IF s = {} THEN format ELSE step[Max(s)][g[s \ {Max(s)}]]
      BY <1>6 DEF IsFold
    <3>2. ASSUME s # {} PROVE step[Max(s)][g[s \ {Max(s)}]]
                                = ReplaceFirstSubSeq(values[Max(s)], <<Hole>>, g[s \ {Max(s)}])
      <4>1. Max(s) \in D /\ s \ {Max(s)} \in SUBSET D
        BY <1>3, <3>2
      <4>2. g[s \ {Max(s)}] \in Seq(V)
        BY <4>1
      <4> QED
        BY <1>5, <4>1, <4>2
    <3> QED
      BY <3>1, <3>2, Zenon
  <2> QED
    BY <2>1 DEF FillEquation
<1> DEFINE h == CHOOSE f : FillEquation(f, format, values)
<1>8. FillEquation(h, format, values)
  BY <1>7, Zenon
<1>9. FillHoles(format, values) = h[DOMAIN values]
  BY Zenon DEF FillHoles, MapThenFoldSet, FillEquation
<1> HIDE DEF h
<1> QED
  BY <1>8, <1>9

\* The value of every number is in the hole of its rank.
LEMMA FilledInOrder ==
  ASSUME NEW V, Hole \in V, NEW format \in Seq(V), NEW values, AreFills(values, V)
  PROVE  FillHoles(format, values)
           = FlattenSeq(Parts(format, Ranked(values), Cardinality(DOMAIN values)))
<1>1. PICK h : FillEquation(h, format, values) /\ FillHoles(format, values) = h[DOMAIN values]
  BY FillIsFold
<1> PICK S : S = DOMAIN values
  OBVIOUS
<1>2. IsFiniteSet(S) /\ S \subseteq Nat
  BY DEF AreFills
<1> PICK k \in Nat : k = Cardinality(S)
  BY <1>2, FS_CardinalityType
<1> PICK ranked : ranked = Ranked(values)
  OBVIOUS
<1>3. AreValues(ranked, k, V) /\ \A n \in S : ranked[Rank(n, S)] = values[n]
  BY RankedAre
<1>4. /\ \A n \in S : Rank(n, S) \in Nat /\ Rank(n, S) < k
      /\ \A m, n \in S : m < n => Rank(m, S) < Rank(n, S)
      /\ \A j \in 0..(k - 1) : \E n \in S : Rank(n, S) = j
  <2>1. \A n \in S : n \in Nat
    BY <1>2
  <2> QED
    BY <1>2, <2>1, RankIs
<1>5. ASSUME NEW s \in SUBSET S
      PROVE  h[s] = IF s = {} THEN format
                    ELSE ReplaceFirstSubSeq(values[Max(s)], <<Hole>>, h[s \ {Max(s)}])
  <2>1. h[s] = [r \in SUBSET DOMAIN values |->
                  IF r = {} THEN format
                  ELSE ReplaceFirstSubSeq(values[Max(r)], <<Hole>>, h[r \ {Max(r)}])][s]
    BY <1>1, Zenon DEF FillEquation
  <2> QED
    BY <2>1, Zenon
<1> DEFINE First(j) == {n \in S : Rank(n, S) < j}
           T == {j \in Nat : j <= k => h[First(j)] = FlattenSeq(Parts(format, ranked, j))}
<1>6. 0 \in T
  <2>1. h[First(0)] = format
    <3>1. First(0) = {} /\ {} \in SUBSET S
      BY <1>4
    <3> QED
      BY <1>5, <3>1
  <2>2. Parts(format, ranked, 0) = [i \in 1..Len(format) |-> <<format[i]>>]
    <3>1. \A i \in 1..Len(format) : ~ (Nth(format, i) < 0)
      BY NthIsNatural
    <3> QED
      BY <3>1 DEF Parts
  <2>3. FlattenSeq(Parts(format, ranked, 0)) = format
    BY <2>2, FlattenSymbols, Zenon
  <2> QED
    BY <2>1, <2>3
<1>7. ASSUME NEW j \in Nat, j \in T PROVE j + 1 \in T
  <2> SUFFICES ASSUME j + 1 <= k
               PROVE  h[First(j + 1)] = FlattenSeq(Parts(format, ranked, j + 1))
    OBVIOUS
  <2>1. j \in 0..(k - 1) /\ j <= k
    OBVIOUS
  <2>2. PICK n \in S : Rank(n, S) = j
    BY <1>4, <2>1
  <2>3. /\ First(j + 1) \in SUBSET S /\ n \in First(j + 1)
        /\ \A m \in First(j + 1) : m <= n
    <3>1. \A m \in First(j + 1) : m <= n
      <4> SUFFICES ASSUME NEW m \in S, Rank(m, S) < j + 1, ~ (m <= n) PROVE FALSE
        OBVIOUS
      <4>1. n < m /\ n \in S
        BY <1>2
      <4>2. Rank(n, S) < Rank(m, S) /\ Rank(m, S) \in Nat
        BY <1>4, <4>1
      <4> QED
        BY <2>2, <4>2
    <3>2. n \in First(j + 1)
      BY <2>2
    <3> QED
      BY <3>1, <3>2
  <2>4. Max(First(j + 1)) = n
    <3>1. Max(First(j + 1)) \in First(j + 1) /\ \A m \in First(j + 1) : m <= Max(First(j + 1))
      <4> HIDE DEF First
      <4>1. First(j + 1) # {}
        BY <2>3
      <4> QED
        BY <1>2, <2>3, <4>1, GreatestOfFinite
    <3>2. \A m \in First(j + 1) : m \in Nat
      BY <1>2
    <3> HIDE DEF First
    <3> QED
      BY <2>3, <3>1, <3>2
  <2>5. First(j + 1) \ {n} = First(j)
    <3>1. ASSUME NEW m \in S, m # n PROVE Rank(m, S) # j
      <4>1. m < n \/ n < m
        BY <1>2, <3>1
      <4> QED
        BY <1>4, <2>2, <4>1
    <3>2. \A m \in S : Rank(m, S) < j + 1 /\ m # n <=> Rank(m, S) < j
      BY <1>4, <2>2, <3>1
    <3> QED
      BY <3>2
  <2>6. h[First(j + 1)] = ReplaceFirstSubSeq(ranked[j], <<Hole>>, h[First(j)])
    <3>1. ranked[j] = values[n] /\ First(j + 1) # {}
      BY <1>3, <2>2, <2>3
    <3> HIDE DEF First
    <3> QED
      BY <1>5, <2>3, <2>4, <2>5, <3>1, Zenon
  <2>7. h[First(j)] = FlattenSeq(Parts(format, ranked, j))
    BY <1>7, <2>1
  <2>8. ReplaceFirstSubSeq(ranked[j], <<Hole>>, FlattenSeq(Parts(format, ranked, j)))
          = FlattenSeq(Parts(format, ranked, j + 1))
    <3>1. AreValues(ranked, k, V)
      BY <1>3
    <3> HIDE DEF First, T
    <3> QED
      BY <2>1, <3>1, NextHole
  <2> QED
    BY <2>6, <2>7, <2>8, Zenon
<1>8. k \in T
  <2> HIDE DEF T
  <2> QED
    BY <1>6, <1>7, NaturalInduction
<1>9. First(k) = S
  BY <1>4
<1> QED
  BY <1>1, <1>8, <1>9

-----------------------------------------------------------------------------
(***************************************************************************)
(* The holes of a scheduled node's arguments.                              *)
(***************************************************************************)

\* Every ref that is checked to be good is to a material.
LEMMA RefsGood ==
  ASSUME NEW refs, IsSeq(refs), Check(refs, RefOutcome) = "ok", NEW ref \in ToSet(refs), ref.to = "arg"
  PROVE  Known(ref.desc, package.args)
<1> DEFINE o == [i \in DOMAIN refs |-> RefOutcome(refs[i])]
<1>1. FirstBad(o) \notin Failures /\ DOMAIN o = DOMAIN refs /\ DOMAIN o \subseteq Nat
  BY SeqDomain DEF Check, Failures
<1>2. \A i \in DOMAIN o : o[i] \notin Failures
  <2> HIDE DEF o
  <2> QED
    BY <1>1, AllGood
<1>3. RefOutcome(ref) \notin Failures
  BY <1>1, <1>2, SeqDomain
<1> QED
  BY <1>3 DEF RefOutcome, ErrorUnless, Failures

\* An argument that a template names is one that the software has.
LEMMA TemplateRefsGood ==
  ASSUME NEW refs, IsSeq(refs), Check(refs, TemplateRefOutcome) = "ok",
         NEW ref \in ToSet(refs), ref.to = "arg"
  PROVE  Known(ref.desc, package.args)
<1> DEFINE o == [i \in DOMAIN refs |-> TemplateRefOutcome(refs[i])]
<1>1. FirstBad(o) \notin Failures /\ DOMAIN o = DOMAIN refs /\ DOMAIN o \subseteq Nat
  BY SeqDomain DEF Check, Failures
<1>2. \A i \in DOMAIN o : o[i] \notin Failures
  <2> HIDE DEF o
  <2> QED
    BY <1>1, AllGood
<1>3. TemplateRefOutcome(ref) \notin Failures
  BY <1>1, <1>2, SeqDomain
<1> QED
  BY <1>3 DEF TemplateRefOutcome, RefOutcome, ErrorUnless, Failures

\* The flags of a task that is sent are arguments of the software.
LEMMA FlagsGood ==
  ASSUME TaskOutcome = "ok"
  PROVE  \A i \in DOMAIN package.flagArgs : Known(package.flagArgs[i].desc, package.args)
<1> DEFINE o == <<FlagsOutcome, Check(package.slots, SlotOutcome), Check(order, TemplateOutcome),
                  Check(package.outSlots, TaskOutOutcome)>>
<1>1. FirstBad(o) \notin Failures /\ DOMAIN o = 1..4 /\ DOMAIN o \subseteq Nat
  BY DEF TaskOutcome, Failures
<1>2. \A i \in DOMAIN o : o[i] \notin Failures
  <2> HIDE DEF o
  <2> QED
    BY <1>1, AllGood
<1>3. FlagsOutcome \notin Failures
  BY <1>1, <1>2
<1> QED
  BY <1>3 DEF FlagsOutcome, PanicUnless, Failures

\* What fills a hole.
Filler(from) ==
  from[1] \in {"content", "name"} \/ (from[1] = "slot" /\ from[2] \in Descriptors)

\* What mounts on the arguments of a task that is sent is a flag, or a filler of a hole
\* with a number, and its argument has a format.
LEMMA ArgMounts ==
  ASSUME UsecaseInv, stage = "sent", NEW m \in ToSet(FlagMounts \o Mounts), m.ref.to = "arg"
  PROVE  /\ IsSeq(FlagMounts \o Mounts)
         /\ IsSeq(ArgFormat(m.ref.desc))
         /\ m.from = <<"flag">> \/ (Filler(m.from) /\ m.ref.nth \in Nat)
<1>1. /\ package \in Packages /\ order \in Orders /\ SlotsOutcome \notin Failures
      /\ UsedOutcome \notin Failures /\ TaskOutcome = "ok"
  BY ValidParts DEF UsecaseInv, TypeInv, ValidInv, TaskInv, Published
<1>2. IsSeq(FlagMounts) /\ IsSeq(Mounts)
  BY <1>1, FlagMountsSeq, MountsElements
<1>3. IsSeq(FlagMounts \o Mounts) /\ ToSet(FlagMounts \o Mounts) = ToSet(FlagMounts) \cup ToSet(Mounts)
  BY <1>2, JoinedSeq
<1>4. Known(m.ref.desc, package.args) /\ (m.from = <<"flag">> \/ (Filler(m.from) /\ m.ref.nth \in Nat))
  <2>1. CASE m \in ToSet(FlagMounts)
    <3>1. PICK i \in DOMAIN FlagMounts : m = FlagMounts[i]
      BY <1>2, <2>1, SeqDomain
    <3>2. DOMAIN FlagMounts = DOMAIN package.flagArgs
      BY DEF FlagMounts
    <3>3. m.ref.desc = package.flagArgs[i].desc /\ m.from = <<"flag">>
      BY <3>1, <3>2 DEF FlagMounts
    <3> QED
      BY <1>1, <3>2, <3>3, FlagsGood
  <2>2. CASE m \in ToSet(SlotMounts)
    <3>1. PICK slot \in ToSet(package.slots) : \E ref \in ToSet(slot.refs) :
            m = [ref |-> ref, from |-> <<"slot", slot.desc>>]
      BY <1>1, <2>2, SlotMountsElements
    <3>2. m.ref \in ToSet(slot.refs) /\ m.from = <<"slot", slot.desc>>
      BY <3>1
    <3>3. IsSeq(slot.refs) /\ Check(slot.refs, RefOutcome) = "ok" /\ m.ref.nth \in Nat
      BY <1>1, <3>2, SlotsGood, PackagesAssumption
    <3> QED
      BY <3>2, <3>3, RefsGood DEF Filler, Descriptors
  <2>3. CASE m \in ToSet(TemplateMounts)
    <3>1. PICK t \in UsedTemplates :
            \/ \E ref \in ToSet(TemplateNamed(t).content) : m = [ref |-> ref, from |-> <<"content", t>>]
            \/ \E ref \in ToSet(TemplateNamed(t).names) : m = [ref |-> ref, from |-> <<"name", t>>]
      BY <1>1, <2>3, TemplateMountsElements
    <3> DEFINE refs == TemplateNamed(t).content \o TemplateNamed(t).names
    <3>2. IsSeq(TemplateNamed(t).content) /\ IsSeq(TemplateNamed(t).names) /\ TemplateRefsOutcome(t) = "ok"
      BY <1>1, UsedGood
    <3>3. /\ IsSeq(refs) /\ Check(refs, TemplateRefOutcome) = "ok"
          /\ ToSet(refs) = ToSet(TemplateNamed(t).content) \cup ToSet(TemplateNamed(t).names)
      BY <3>2, JoinedSeq DEF TemplateRefsOutcome
    <3>4. m.ref \in ToSet(refs) /\ m.from[1] \in {"content", "name"}
      BY <3>1, <3>3
    <3>5. m.ref.nth \in Nat
      <4>1. TemplateNamed(t) \in ToSet(package.templates)
        BY <1>1, UsedGood
      <4> QED
        BY <1>1, <3>1, <4>1, PackagesAssumption
    <3> HIDE DEF refs
    <3> QED
      BY <3>3, <3>4, <3>5, TemplateRefsGood DEF Filler
  <2> QED
    BY <1>1, <1>3, <2>1, <2>2, <2>3, MountsElements
<1>5. IsSeq(package.args[m.ref.desc])
  BY <1>1, <1>4, PackagesAssumption DEF Known
<1> QED
  BY <1>3, <1>4, <1>5 DEF ArgFormat

\* Texts with a space between them are a text.
LEMMA JoinedIsSeq ==
  ASSUME NEW values, IsSeq(values), \A i \in DOMAIN values : IsSeq(values[i])
  PROVE  IsSeq(Joined(values))
<1> DEFINE Part(i) == IF i = 1 THEN values[i] ELSE <<Space>> \o values[i]
           parts == [i \in DOMAIN values |-> Part(i)]
           V == UNION {ToSet(parts[i]) : i \in DOMAIN parts}
<1>1. Len(parts) \in Nat /\ DOMAIN parts = 1..Len(parts) /\ (Len(parts) = 0 => parts = <<>>)
  BY SeqDomain
<1>2. \A i \in 1..Len(parts) : parts[i] \in Seq(V)
  <2> SUFFICES ASSUME NEW i \in 1..Len(parts) PROVE parts[i] \in Seq(V)
    OBVIOUS
  <2>1. IsSeq(<<Space>>)
    BY DEF IsSeq, ToSet
  <2>2. IsSeq(values[i])
    BY <1>1
  <2>3. IsSeq(<<Space>> \o values[i])
    BY <2>1, <2>2, JoinedSeq
  <2>4. parts[i] = Part(i)
    BY <1>1
  <2>5. IsSeq(parts[i])
    BY <2>2, <2>3, <2>4
  <2>6. ToSet(parts[i]) \subseteq V
    BY <1>1
  <2> HIDE DEF parts, V
  <2> QED
    BY <2>5, <2>6 DEF IsSeq
<1>3. FlattenSeq(parts) \in Seq(V)
  <2> HIDE DEF parts, V
  <2> QED
    BY <1>1, <1>2, FlattenElements
<1>4. \A q \in Seq(V) : IsSeq(q)
  BY DEF IsSeq, ToSet
<1>5. IsSeq(FlattenSeq(parts))
  BY <1>3, <1>4
<1> QED
  BY <1>5 DEF Joined

\* What fills a hole is a text.
LEMMA ValueIsSeq ==
  ASSUME UsecaseInv, stage = "sent", NEW from, Filler(from)
  PROVE  IsSeq(Value(from))
<1>1. CASE from[1] = "content" \/ from[1] = "name"
  <2>1. \A x : IsSeq(<<x>>)
    BY DEF IsSeq, ToSet
  <2>2. Value(from) = <<FilledTemplate(from[2])>> \/ Value(from) = <<TemplateFile(from[2])>>
    BY <1>1, Zenon DEF Value
  <2> QED
    BY <2>1, <2>2, Zenon
<1>2. CASE from[1] = "slot" /\ from[2] \in Descriptors
  <2> PICK s \in Descriptors : s = from[2]
    BY <1>2
  <2>1. IsContents(given[s], SlotNamed(s).kind) /\ SlotNamed(s).kind \in {"Text", "File"}
    <3>1. SlotNamed(s) \in ToSet(package.slots)
      BY DEF Descriptors, SlotNamed
    <3> QED
      BY <3>1, PackagesAssumption DEF UsecaseInv, TypeInv, GivenInv, NodeGiven
  <2>2. ASSUME given[s] = NoContents PROVE IsSeq(Literal(s))
    <3>1. Literal(s) = <<>>
      BY <2>2 DEF Literal
    <3> QED
      BY <3>1 DEF IsSeq
  <2>3. ASSUME given[s] # NoContents /\ SlotNamed(s).kind = "Text" PROVE IsSeq(Literal(s))
    <3>1. IsSeq(given[s]) /\ \A i \in DOMAIN given[s] : IsSeq(given[s][i])
      BY <2>1, <2>3, SeqDomain DEF IsContents
    <3>2. Literal(s) = Joined(given[s])
      BY <2>3 DEF Literal
    <3> QED
      BY <3>1, <3>2, JoinedIsSeq
  <2>4. ASSUME given[s] # NoContents /\ SlotNamed(s).kind = "File" PROVE IsSeq(Literal(s))
    <3> DEFINE names == [i \in DOMAIN given[s] |-> <<FileName(s, given[s][i])>>]
    <3>1. Len(given[s]) \in Nat /\ DOMAIN given[s] = 1..Len(given[s])
      BY <2>1, <2>4, SeqDomain DEF IsContents
    <3>2. DOMAIN names = DOMAIN given[s] /\ \A i \in DOMAIN names : names[i] = <<FileName(s, given[s][i])>>
      OBVIOUS
    <3>3. \A i \in DOMAIN names : names[i] \in ToSet(names)
      BY DEF ToSet
    <3>4. names \in Seq(ToSet(names))
      <4>1. names = [i \in 1..Len(given[s]) |-> names[i]]
        BY <3>1
      <4> HIDE DEF names
      <4> QED
        BY <3>1, <3>2, <3>3, <4>1
    <3>5. \A i \in DOMAIN names : IsSeq(names[i])
      <4>1. \A x : IsSeq(<<x>>)
        BY DEF IsSeq, ToSet
      <4> QED
        BY <3>2, <4>1
    <3>6. IsSeq(Joined(names))
      <4> HIDE DEF names
      <4> QED
        BY <3>4, <3>5, JoinedIsSeq DEF IsSeq
    <3>7. Literal(s) = Joined(names)
      BY <2>4 DEF Literal
    <3> QED
      BY <3>6, <3>7
  <2>5. IsSeq(Literal(s))
    BY <2>1, <2>2, <2>3, <2>4
  <2> QED
    BY <1>2, <2>5 DEF Value
<1> QED
  BY <1>1, <1>2 DEF Filler

\* The place of an argument: its format is a text, what fills its holes are fillers with
\* numbers.
LEMMA ArgPlace ==
  ASSUME UsecaseInv, stage = "sent", NEW sort \in DOMAIN TaskArgs
  PROVE  /\ IsSeq(TaskArgs[sort].format)
         /\ IsFiniteSet(DOMAIN TaskArgs[sort].fills) /\ DOMAIN TaskArgs[sort].fills \subseteq Nat
         /\ \A nth \in DOMAIN TaskArgs[sort].fills : Filler(TaskArgs[sort].fills[nth])
<1> DEFINE mounts == FlagMounts \o Mounts
           at == {i \in MountedOn(mounts, "arg") : mounts[i].ref.sort = sort}
           filling == {i \in at : mounts[i].from # <<"flag">>}
           On(nth) == {i \in filling : mounts[i].ref.nth = nth}
           nths == {mounts[i].ref.nth : i \in filling}
           fills == [nth \in nths |-> mounts[Max(On(nth))].from]
<1>1. sort \in Sorts(mounts)
  BY DEF TaskArgs, ArgPlaces
<1>2. TaskArgs[sort] = [format |-> ArgFormat(mounts[Min(at)].ref.desc), fills |-> fills]
  BY <1>1 DEF TaskArgs, ArgPlaces, Place
<1>3. IsSeq(mounts)
  <2>1. package \in Packages /\ order \in Orders /\ UsedOutcome \notin Failures
    BY ValidParts DEF UsecaseInv, TypeInv, ValidInv, Published
  <2> QED
    BY <2>1, FlagMountsSeq, MountsElements, JoinedSeq
<1> HIDE DEF mounts
<1>4. Len(mounts) \in Nat /\ DOMAIN mounts = 1..Len(mounts) /\ at \subseteq 1..Len(mounts) /\ at # {}
  BY <1>1, <1>3, SeqDomain DEF Sorts, MountedOn
<1>5. ASSUME NEW i \in at
      PROVE  /\ IsSeq(ArgFormat(mounts[i].ref.desc))
             /\ mounts[i].from = <<"flag">> \/ (Filler(mounts[i].from) /\ mounts[i].ref.nth \in Nat)
  <2>1. mounts[i] \in ToSet(mounts) /\ mounts[i].ref.to = "arg"
    BY <1>3, SeqDomain DEF MountedOn
  <2> QED
    BY <2>1, ArgMounts DEF mounts
<1> HIDE DEF at
<1>6. Min(at) \in at
  <2>1. at \subseteq Nat
    BY <1>4
  <2> QED
    BY <1>4, <2>1, MinIsLeast
<1>7a. nths \subseteq Nat
  BY <1>5
<1>7. IsFiniteSet(nths)
  <2> DEFINE f == [i \in filling |-> mounts[i].ref.nth]
  <2>1. IsFiniteSet(filling)
    <3>1. IsFiniteSet(1..Len(mounts))
      BY <1>4, FS_Interval
    <3>2. filling \subseteq 1..Len(mounts)
      BY <1>4
    <3> QED
      BY <3>1, <3>2, FS_Subset
  <2>2. f \in Surjection(filling, nths)
    BY DEF Surjection
  <2> HIDE DEF filling, f, nths
  <2> QED
    BY <2>1, <2>2, FS_Surjection
<1>8. ASSUME NEW nth \in nths PROVE Filler(fills[nth])
  <2>1. On(nth) # {} /\ On(nth) \subseteq 0..Len(mounts) /\ On(nth) \subseteq filling
    <3>1. 1..Len(mounts) \subseteq 0..Len(mounts)
      BY <1>4
    <3>2. On(nth) \subseteq filling /\ filling \subseteq at
      OBVIOUS
    <3>3. On(nth) # {}
      OBVIOUS
    <3> QED
      BY <1>4, <3>1, <3>2, <3>3, Zenon
  <2>2. Max(On(nth)) \in filling
    <3> HIDE DEF On, filling
    <3> QED
      BY <1>4, <2>1, MaxIsGreatest
  <2>3. fills[nth] = mounts[Max(On(nth))].from
    BY <1>8
  <2> HIDE DEF fills, On
  <2> QED
    BY <1>5, <2>2, <2>3
<1>9. DOMAIN fills = nths
  OBVIOUS
<1>10. TaskArgs[sort].format = ArgFormat(mounts[Min(at)].ref.desc) /\ TaskArgs[sort].fills = fills
  BY <1>2 DEF at
<1> HIDE DEF fills, nths
<1> QED
  BY <1>5, <1>6, <1>7, <1>7a, <1>8, <1>9, <1>10

\* Of the values of an argument the one with the smallest number is in the first hole, and
\* so on, whichever the numbers are: each replaces the first hole that is left, provided
\* none brings a hole of its own.
THEOREM HolesFilledInOrder == Spec => []HolesInOrder
<1>1. ASSUME UsecaseInv PROVE HolesInOrder
  <2> SUFFICES ASSUME stage = "sent", NEW sort \in DOMAIN TaskArgs,
                      \A nth \in DOMAIN TaskArgs[sort].fills :
                        Hole \notin ToSet(Value(TaskArgs[sort].fills[nth]))
               PROVE  task.args[sort] = ByRank(TaskArgs[sort])
    BY DEF HolesInOrder
  <2> PICK format : format = TaskArgs[sort].format
    OBVIOUS
  <2> PICK fills : fills = TaskArgs[sort].fills
    OBVIOUS
  <2> PICK S : S = DOMAIN fills
    OBVIOUS
  <2> DEFINE values == [nth \in S |-> Value(fills[nth])]
             V == (ToSet(format) \cup {Hole}) \cup UNION {ToSet(values[n]) : n \in DOMAIN values}
  <2>1. IsSeq(format) /\ IsFiniteSet(S) /\ S \subseteq Nat /\ \A nth \in S : Filler(fills[nth])
    BY <1>1, ArgPlace
  <2>2. \A nth \in S : IsSeq(Value(fills[nth])) /\ Hole \notin ToSet(Value(fills[nth]))
    BY <1>1, <2>1, ValueIsSeq
  <2>3. task.args[sort] = FillHoles(format, values)
    <3>1. task = Task
      BY <1>1 DEF UsecaseInv, TaskInv
    <3>2. task.args[sort] = Fill(TaskArgs[sort])
      BY <3>1 DEF Task
    <3> QED
      BY <3>2 DEF Fill
  <2>4. DOMAIN values = S /\ \A nth \in S : values[nth] = Value(fills[nth])
    OBVIOUS
  <2>5. /\ ToSet(format) \subseteq V /\ Hole \in V
        /\ \A nth \in S : ToSet(values[nth]) \subseteq V
    BY <2>4
  <2> HIDE DEF values, V
  <2>6. \A q : IsSeq(q) /\ ToSet(q) \subseteq V => q \in Seq(V)
    BY DEF IsSeq
  <2>7. format \in Seq(V) /\ AreFills(values, V)
    <3>1. format \in Seq(V)
      BY <2>1, <2>5, <2>6
    <3>2. \A n \in S : values[n] \in Seq(V) /\ Hole \notin ToSet(values[n])
      BY <2>2, <2>4, <2>5, <2>6
    <3> QED
      BY <2>1, <2>4, <3>1, <3>2 DEF AreFills
  <2> PICK k \in Nat : k = Cardinality(S)
    BY <2>1, FS_CardinalityType
  <2> PICK ranked : ranked = Ranked(values)
    OBVIOUS
  <2>8. FillHoles(format, values) = FlattenSeq(Parts(format, ranked, k))
    BY <2>4, <2>5, <2>7, FilledInOrder
  <2>9. \A n \in S : ranked[Rank(n, S)] = values[n]
    BY <2>4, <2>7, RankedAre
  <2>10. /\ \A n \in S : Rank(n, S) < k
         /\ \A j \in 0..(k - 1) : \E n \in S : Rank(n, S) = j
    BY <2>1, RankIs
  <2>11. ByRank(TaskArgs[sort]) = FlattenSeq(Parts(format, ranked, k))
    <3> DEFINE In(i) == {nth \in S : Rank(nth, S) = Nth(format, i)}
               Part(i) == IF i \in Holes(format) /\ In(i) # {}
                          THEN Value(fills[CHOOSE nth \in In(i) : TRUE]) ELSE <<format[i]>>
               byRank == [i \in DOMAIN format |-> Part(i)]
    <3>1. ByRank(TaskArgs[sort]) = FlattenSeq(byRank)
      BY DEF ByRank, Nth, Holes
    <3>2. DOMAIN format = 1..Len(format) /\ \A i : Nth(format, i) \in Nat
      BY <2>7, NthIsNatural
    <3>3. ASSUME NEW i \in 1..Len(format) PROVE Part(i) = Parts(format, ranked, k)[i]
      <4>1. Parts(format, ranked, k)[i] =
              IF format[i] = Hole /\ Nth(format, i) < k THEN ranked[Nth(format, i)] ELSE <<format[i]>>
        BY DEF Parts
      <4>2. i \in Holes(format) <=> format[i] = Hole
        BY <3>2 DEF Holes
      <4>3. In(i) # {} <=> Nth(format, i) < k
        <5>1. Nth(format, i) < k => Nth(format, i) \in 0..(k - 1)
          BY <3>2
        <5> QED
          BY <2>10, <5>1
      <4>4. \A n \in In(i) : Value(fills[n]) = ranked[Nth(format, i)]
        BY <2>4, <2>9
      <4>5. In(i) # {} => Value(fills[CHOOSE nth \in In(i) : TRUE]) = ranked[Nth(format, i)]
        <5> HIDE DEF In
        <5> QED
          BY <4>4
      <4> HIDE DEF In
      <4> QED
        BY <4>1, <4>2, <4>3, <4>5, Zenon
    <3>4. byRank = Parts(format, ranked, k)
      <4>1. byRank = [i \in 1..Len(format) |-> Part(i)]
        BY <3>2
      <4>2. Parts(format, ranked, k) = [i \in 1..Len(format) |-> Parts(format, ranked, k)[i]]
        BY DEF Parts
      <4> HIDE DEF byRank, Part
      <4> QED
        BY <3>3, <4>1, <4>2
    <3> QED
      BY <3>1, <3>4
  <2> QED
    BY <2>3, <2>8, <2>11
<1> QED
  BY <1>1, SettledByThen, PTL

-----------------------------------------------------------------------------
(***************************************************************************)
(* Drafts: those that are accepted.                                        *)
(***************************************************************************)
\* A loop over a sequence that does not end badly does not in any element.
LEMMA LoopGood ==
  ASSUME NEW s, IsSeq(s), NEW body, DOMAIN body = DOMAIN s, FirstBad(body) \notin Failures
  PROVE  \A x \in ToSet(s) : \E i \in DOMAIN s : x = s[i] /\ body[i] \notin Failures
BY SeqDomain, AllGood

\* Every relation of an accepted draft is between nodes and feeds a slot of its node.
LEMMA AcceptedRelations ==
  ASSUME WellFormed(draft), DraftValidation = "ok"
  PROVE  \A r \in ToSet(draft.relations) :
           /\ r.from \in ToSet(draft.nodes) /\ r.to \in ToSet(draft.nodes)
           /\ \A sr \in ToSet(r.slots) : /\ sr.to \in DOMAIN draft.inputs[r.to]
                                         /\ sr.from \in DOMAIN draft.outputs[r.from]
                                         /\ draft.inputs[r.to][sr.to].contents # NoContents
<1> DEFINE o == <<Check(draft.relations, Relation), Check(draft.nodes, Node)>>
<1>1. FirstBad(o) = "ok" /\ DOMAIN o = 1..2
  BY DEF DraftValidation
<1>2. "ok" \notin Failures
  BY DEF Failures
<1>3. o[1] \notin Failures
  <2>1. DOMAIN o \subseteq Nat
    BY <1>1
  <2> HIDE DEF o
  <2> QED
    BY <1>1, <1>2, <2>1, AllGood
<1>4. Check(draft.relations, Relation) \notin Failures
  BY <1>3
<1> SUFFICES ASSUME NEW r \in ToSet(draft.relations)
             PROVE  /\ r.from \in ToSet(draft.nodes) /\ r.to \in ToSet(draft.nodes)
                    /\ \A sr \in ToSet(r.slots) : /\ sr.to \in DOMAIN draft.inputs[r.to]
                                                  /\ sr.from \in DOMAIN draft.outputs[r.from]
                                                  /\ draft.inputs[r.to][sr.to].contents # NoContents
  OBVIOUS
<1>5. IsSeq(draft.relations) /\ IsSeq(r.slots)
  BY DEF WellFormed
<1> DEFINE u == [i \in DOMAIN draft.relations |-> Relation(draft.relations[i])]
<1>6. FirstBad(u) \notin Failures /\ DOMAIN u = DOMAIN draft.relations
  BY <1>4 DEF Check
<1>7. PICK i \in DOMAIN draft.relations : r = draft.relations[i] /\ u[i] \notin Failures
  <2> HIDE DEF u
  <2> QED
    BY <1>5, <1>6, LoopGood
<1>8. Relation(r) \notin Failures
  BY <1>7
<1>9. IsNode(r.from) /\ IsNode(r.to)
  BY <1>8 DEF Relation, Failures
<1>10. r.from \in ToSet(draft.nodes) /\ r.to \in ToSet(draft.nodes)
  BY <1>9 DEF IsNode
<1>11. ASSUME NEW sr \in ToSet(r.slots)
       PROVE  /\ sr.to \in DOMAIN draft.inputs[r.to]
              /\ sr.from \in DOMAIN draft.outputs[r.from]
              /\ draft.inputs[r.to][sr.to].contents # NoContents
  <2> DEFINE w == [j \in DOMAIN r.slots |-> SlotRelation(r, r.slots[j])]
  <2>1. FirstBad(w) \notin Failures /\ DOMAIN w = DOMAIN r.slots
    BY <1>8, <1>9 DEF Relation, Check
  <2>2. PICK j \in DOMAIN r.slots : sr = r.slots[j] /\ w[j] \notin Failures
    <3> HIDE DEF w
    <3> QED
      BY <1>5, <2>1, LoopGood
  <2>3. SlotRelation(r, sr) \notin Failures
    BY <2>2
  <2>4. sr.to \in DOMAIN draft.inputs[r.to] /\ sr.from \in DOMAIN draft.outputs[r.from]
    BY <2>3 DEF SlotRelation, InputSlot, OutputSlot, Failures
  <2> QED
    BY <2>3, <2>4 DEF SlotRelation, InputSlot, OutputSlot, Failures
<1> QED
  BY <1>10, <1>11

\* No slot and no strategy of a node of an accepted draft is bad.
LEMMA AcceptedNodes ==
  ASSUME draft \in Drafts, DraftValidation = "ok", NEW n \in ToSet(draft.nodes)
  PROVE  /\ \A s \in DOMAIN draft.inputs[n] : InputSlotOutcome(n, s) \notin Failures
         /\ \A b \in ToSet(draft.batches[n]) : Strategy(n, b) \notin Failures
<1> DEFINE o == <<Check(draft.relations, Relation), Check(draft.nodes, Node)>>
<1>1. FirstBad(o) = "ok" /\ DOMAIN o = 1..2
  BY DEF DraftValidation
<1>2. "ok" \notin Failures
  BY DEF Failures
<1>3. o[2] \notin Failures
  <2>1. DOMAIN o \subseteq Nat
    BY <1>1
  <2> HIDE DEF o
  <2> QED
    BY <1>1, <1>2, <2>1, AllGood
<1>4. Check(draft.nodes, Node) \notin Failures
  BY <1>3
<1>5. IsSeq(draft.nodes) /\ n \in Nodes /\ IsSeq(draft.batches[n]) /\ IsSeq(Slots)
  BY DraftsAssumption DEF WellFormed
<1> DEFINE u == [i \in DOMAIN draft.nodes |-> Node(draft.nodes[i])]
<1>6. FirstBad(u) \notin Failures /\ DOMAIN u = DOMAIN draft.nodes
  BY <1>4 DEF Check
<1>7. PICK i \in DOMAIN draft.nodes : n = draft.nodes[i] /\ u[i] \notin Failures
  <2> HIDE DEF u
  <2> QED
    BY <1>5, <1>6, LoopGood
<1>8. Node(n) \notin Failures
  BY <1>7
<1> DEFINE w == <<Check(Slots, LAMBDA s : InputOutcome(n, s)),
                  ErrorUnless(draft.clusters[n] > 0),
                  Check(Strategies(n), LAMBDA b : Strategy(n, b))>>
<1>9. FirstBad(w) \notin Failures /\ DOMAIN w = 1..3
  BY <1>8 DEF Node
<1>10. w[1] \notin Failures /\ w[3] \notin Failures
  <2>1. DOMAIN w \subseteq Nat
    BY <1>9
  <2> HIDE DEF w
  <2> QED
    BY <1>9, <2>1, AllGood
<1>11. \A s \in DOMAIN draft.inputs[n] : InputSlotOutcome(n, s) \notin Failures
  <2> SUFFICES ASSUME NEW s \in DOMAIN draft.inputs[n] PROVE InputSlotOutcome(n, s) \notin Failures
    OBVIOUS
  <2>1. s \in ToSet(Slots)
    BY <1>5, DraftsAssumption DEF WellFormed
  <2> DEFINE v == [j \in DOMAIN Slots |-> InputOutcome(n, Slots[j])]
  <2>2. FirstBad(v) \notin Failures /\ DOMAIN v = DOMAIN Slots
    BY <1>10 DEF Check
  <2>3. PICK j \in DOMAIN Slots : s = Slots[j] /\ v[j] \notin Failures
    <3> HIDE DEF v
    <3> QED
      BY <1>5, <2>1, <2>2, LoopGood
  <2>4. InputOutcome(n, s) \notin Failures
    BY <2>3
  <2> QED
    BY <2>4 DEF InputOutcome, InputSlot
<1>12. \A b \in ToSet(draft.batches[n]) : Strategy(n, b) \notin Failures
  <2> SUFFICES ASSUME NEW b \in ToSet(draft.batches[n]) PROVE Strategy(n, b) \notin Failures
    OBVIOUS
  <2> DEFINE v == [j \in DOMAIN draft.batches[n] |-> Strategy(n, draft.batches[n][j])]
  <2>2. FirstBad(v) \notin Failures /\ DOMAIN v = DOMAIN draft.batches[n]
    BY <1>10 DEF Check, Strategies
  <2>3. PICK j \in DOMAIN draft.batches[n] : b = draft.batches[n][j] /\ v[j] \notin Failures
    <3> HIDE DEF v
    <3> QED
      BY <1>5, <2>2, LoopGood
  <2> QED
    BY <2>3
<1> QED
  BY <1>11, <1>12

\* When descriptors are unique, what feeds a slot of some name feeds the one of the node.
LEMMA FedThere ==
  ASSUME WellFormed(draft), DraftValidation = "ok", UniqueSlots,
         NEW n \in ToSet(draft.nodes), NEW s \in DOMAIN draft.inputs[n],
         NEW r \in ToSet(draft.relations), NEW sr \in ToSet(r.slots), sr.to = s
  PROVE  Fed(n, s)
<1>1. r.to \in ToSet(draft.nodes) /\ s \in DOMAIN draft.inputs[r.to]
  BY AcceptedRelations
<1>2. r.to = n
  BY <1>1 DEF UniqueSlots, InputSlot
<1>3. IsSeq(draft.relations)
  BY DEF WellFormed
<1>4. PICK i \in DOMAIN draft.relations : r = draft.relations[i]
  BY <1>3, SeqDomain
<1>5. i \in RelationsTo(n)
  BY <1>2, <1>4 DEF RelationsTo
<1>6. i \in Feeding(s)
  BY <1>4 DEF Feeding
<1> QED
  BY <1>5, <1>6 DEF Fed, FeedingTo

\* A required slot of an accepted draft that no node feeds has contents.
LEMMA RequiredGiven ==
  ASSUME draft \in Drafts, DraftValidation = "ok", UniqueSlots,
         NEW n \in ToSet(draft.nodes), NEW s \in DOMAIN draft.inputs[n],
         Required(n, s), ~ Fed(n, s)
  PROVE  draft.inputs[n][s].contents # <<>>
<1>1. WellFormed(draft)
  BY DraftsAssumption
<1>2. s \notin ReliedInputSlots
  <2> SUFFICES ASSUME s \in ReliedInputSlots PROVE FALSE
    OBVIOUS
  <2>1. PICK r \in ToSet(draft.relations) : \E sr \in ToSet(r.slots) : sr.to = s
    BY DEF ReliedInputSlots
  <2> QED
    BY <1>1, <2>1, FedThere
<1>3. InputSlotOutcome(n, s) \notin Failures
  BY AcceptedNodes
<1>4. ~ (Count(draft.inputs[n][s]) < 1)
  BY <1>2, <1>3 DEF InputSlotOutcome, InputSlot, Required, Failures
<1> QED
  BY <1>4 DEF Count

\* The count of the sub nodes of an accepted draft finds the relations it needs.
LEMMA CountFindsRelations ==
  ASSUME draft \in Drafts, DraftValidation = "ok", UniqueSlots
  PROVE  ~ CountPanics
<1> SUFFICES ASSUME NEW n \in ToSet(draft.nodes), NEW b \in ToSet(draft.batches[n]),
                    b.kind = "FromBatchOutputs", ~ Fed(n, b.slot)
             PROVE  FALSE
  BY DEF CountPanics, Strategies
<1>1. WellFormed(draft)
  BY DraftsAssumption
<1>2. Strategy(n, b) \notin Failures
  BY AcceptedNodes
<1>3. b.slot \in DOMAIN draft.inputs[n]
  BY <1>2 DEF Strategy, InputSlot, Failures
<1>4. FromBatchOutputs(b.slot) \notin Failures
  BY <1>2, <1>3 DEF Strategy, InputSlot, Failures
<1>5. Feeding(b.slot) # {}
  BY <1>4 DEF FromBatchOutputs, Failures
<1>6. PICK i \in DOMAIN draft.relations : \E sr \in ToSet(draft.relations[i].slots) : sr.to = b.slot
  BY <1>5 DEF Feeding
<1>7. draft.relations[i] \in ToSet(draft.relations)
  <2>1. IsSeq(draft.relations)
    BY <1>1 DEF WellFormed
  <2> QED
    BY <2>1, SeqDomain
<1> QED
  BY <1>1, <1>3, <1>6, <1>7, FedThere

\* OriginalBatch is never accepted, as Rust's ! of a count is not zero.
LEMMA OriginalRefused ==
  ASSUME draft \in Drafts, DraftValidation = "ok",
         NEW n \in ToSet(draft.nodes), NEW b \in ToSet(draft.batches[n])
  PROVE  b.kind # "OriginalBatch"
<1> SUFFICES ASSUME b.kind = "OriginalBatch" PROVE FALSE
  OBVIOUS
<1>1. Strategy(n, b) \notin Failures
  BY AcceptedNodes
<1>2. /\ b.slot \in DOMAIN draft.inputs[n]
      /\ draft.inputs[n][b.slot].contents # NoContents
      /\ ErrorUnless(~ (Not(Count(draft.inputs[n][b.slot])) >= 1)) \notin Failures
  <2>1. b.slot \in DOMAIN draft.inputs[n]
    BY <1>1 DEF Strategy, InputSlot, Failures
  <2>2. draft.inputs[n][b.slot].contents # NoContents
    BY <1>1, <2>1 DEF Strategy, InputSlot, Failures
  <2>3. Strategy(n, b) = ErrorUnless(~ (Not(Count(draft.inputs[n][b.slot])) >= 1))
    BY <2>1, <2>2 DEF Strategy, InputSlot
  <2> QED
    BY <1>1, <2>1, <2>2, <2>3
<1>3. ~ (WordMax - Len(draft.inputs[n][b.slot].contents) >= 1)
  BY <1>2 DEF ErrorUnless, Not, Count, Failures
<1>4. Len(draft.inputs[n][b.slot].contents) < WordMax /\ WordMax \in Nat
  <2>1. n \in Nodes
    BY DraftsAssumption DEF WellFormed
  <2> QED
    BY <1>2, <2>1, DraftsAssumption DEF WellFormed
<1> QED
  BY <1>3, <1>4

\* A batch of an accepted draft can be taken apart if its strategies name their files.
LEMMA BatchesApart ==
  ASSUME draft \in Drafts, DraftValidation = "ok",
         NEW n \in ToSet(draft.nodes), NEW b \in ToSet(draft.batches[n]), b.rename
  PROVE  ~ BatchPanics(n, b)
BY OriginalRefused DEF BatchPanics

-----------------------------------------------------------------------------
(***************************************************************************)
(* What is said of a draft alone stays as it is.                           *)
(***************************************************************************)
\* What is derived from the draft stays with it: slots and relations,
LEMMA SameSlots ==
  ASSUME UNCHANGED draft
  PROVE  /\ \A n : InputSlot(n)' = InputSlot(n) /\ OutputSlot(n)' = OutputSlot(n)
         /\ \A n : Strategies(n)' = Strategies(n) /\ IsNode(n)' = IsNode(n)
         /\ \A n : IsBatch(n)' = IsBatch(n) /\ RelationsTo(n)' = RelationsTo(n)
         /\ \A s : Feeding(s)' = Feeding(s)
         /\ ReliedInputSlots' = ReliedInputSlots
BY DEF InputSlot, OutputSlot, Strategies, IsNode, IsBatch, RelationsTo, Feeding,
       ReliedInputSlots

\* ... what is fed,
LEMMA SameFed ==
  ASSUME UNCHANGED draft
  PROVE  \A n, s : Fed(n, s)' = Fed(n, s)
BY SameSlots DEF Fed, FeedingTo

\* ... whether counting panics,
LEMMA SameCount ==
  ASSUME UNCHANGED draft
  PROVE  CountPanics' = CountPanics
BY SameSlots, SameFed DEF CountPanics

\* ... whether descriptors are unique,
LEMMA SameUnique ==
  ASSUME UNCHANGED draft
  PROVE  UniqueSlots' = UniqueSlots
BY SameSlots DEF UniqueSlots

\* ... and what every check finds: of the relations,
LEMMA SameRelations ==
  ASSUME UNCHANGED draft
  PROVE  Check(draft.relations, Relation)' = Check(draft.relations, Relation)
<1>1. \A r, sr : SlotRelation(r, sr)' = SlotRelation(r, sr)
  BY SameSlots DEF SlotRelation
<1>2. \A r : Relation(r)' = Relation(r)
  BY <1>1, SameSlots DEF Relation, Check
<1>3. [i \in DOMAIN draft.relations |-> Relation(draft.relations[i])]'
        = [i \in DOMAIN draft.relations |-> Relation(draft.relations[i])]
  BY <1>2
<1> QED
  BY <1>3 DEF Check

\* ... of a strategy,
LEMMA SameStrategy ==
  ASSUME UNCHANGED draft
  PROVE  \A n, b : Strategy(n, b)' = Strategy(n, b)
<1>1. \A s : FromBatchOutputs(s)' = FromBatchOutputs(s)
  BY SameSlots DEF FromBatchOutputs
<1> QED
  BY <1>1, SameSlots DEF Strategy

\* ... of an input slot,
LEMMA SameSlotOutcome ==
  ASSUME UNCHANGED draft
  PROVE  \A n, s : InputOutcome(n, s)' = InputOutcome(n, s)
BY SameSlots DEF InputOutcome, InputSlotOutcome

\* ... of the nodes,
LEMMA SameNodes ==
  ASSUME UNCHANGED draft
  PROVE  Check(draft.nodes, Node)' = Check(draft.nodes, Node)
<1>1. \A n : Node(n)' = Node(n)
  <2>1. \A n : [i \in DOMAIN Slots |-> InputOutcome(n, Slots[i])]'
                 = [i \in DOMAIN Slots |-> InputOutcome(n, Slots[i])]
    BY SameSlotOutcome
  <2>2. \A n : [i \in DOMAIN Strategies(n) |-> Strategy(n, Strategies(n)[i])]'
                 = [i \in DOMAIN Strategies(n) |-> Strategy(n, Strategies(n)[i])]
    BY SameSlots, SameStrategy
  <2> QED
    BY <2>1, <2>2 DEF Node, Check
<1>2. [i \in DOMAIN draft.nodes |-> Node(draft.nodes[i])]'
        = [i \in DOMAIN draft.nodes |-> Node(draft.nodes[i])]
  BY <1>1
<1> QED
  BY <1>2 DEF Check

\* ... of all,
LEMMA SameValidation ==
  ASSUME UNCHANGED draft
  PROVE  DraftValidation' = DraftValidation
BY SameRelations, SameNodes DEF DraftValidation

\* ... and whether a strategy panics at the scheduling.
LEMMA SamePanics ==
  ASSUME UNCHANGED draft
  PROVE  \A n, b : BatchPanics(n, b)' = BatchPanics(n, b)
BY SameSlots DEF BatchPanics

-----------------------------------------------------------------------------
(***************************************************************************)
(* How far a draft has come, and what its nodes are given.                 *)
(***************************************************************************)
\* An instance, saved or not yet, keeps the contents of the slots no node feeds.
Untouched(i) ==
  \A n \in Nodes : \A s \in DOMAIN draft.inputs[n] :
    ~ Fed(n, s) => i.contents[n][s] = draft.inputs[n][s].contents

InstancesInv == Untouched(instance) /\ \A copy \in copies : Untouched(copy)

\* What a draft went through to come as far as it has.
ProgressInv ==
  /\ progress \in {"submitted", "failed"} => DraftValidation = "ok"
  /\ progress = "panicked" => DraftValidation = "panic" \/ (DraftValidation = "ok" /\ CountPanics)
  /\ progress = "failed" =>
       \E n \in ToSet(draft.nodes) : \E b \in ToSet(draft.batches[n]) : BatchPanics(n, b)

\* What the task of a plain node was given.
PlainGiven(n) ==
  \A s \in DOMAIN draft.inputs[n] :
    IF Fed(n, s) THEN tasks[n][1][s] # <<>>
    ELSE tasks[n][1][s] = draft.inputs[n][s].contents

TasksInv ==
  \A n \in Nodes : Scheduled(n) =>
    /\ progress \in {"submitted", "failed"} /\ n \in ToSet(draft.nodes)
    /\ ~ IsBatch(n) => PlainGiven(n)

DraftInv == draft \in Drafts /\ InstancesInv /\ ProgressInv /\ TasksInv

\* A new draft was not validated and has sent nothing.
LEMMA DraftStarts == DraftInit => DraftInv
<1> SUFFICES ASSUME DraftInit PROVE DraftInv
  OBVIOUS
<1>1. draft \in Drafts /\ progress = "draft" /\ copies = {} /\ \A n \in Nodes : tasks[n] = <<>>
  BY DEF DraftInit
<1>2. Untouched(instance)
  BY DEF DraftInit, Untouched
<1>3. \A n \in Nodes : ~ Scheduled(n)
  BY <1>1 DEF Scheduled
<1> QED
  BY <1>1, <1>2, <1>3 DEF DraftInv, InstancesInv, ProgressInv, TasksInv

\* An instance stays as it is when the draft does.
LEMMA SameInstances ==
  ASSUME UNCHANGED <<draft, instance, copies>>, InstancesInv
  PROVE  InstancesInv'
BY SameFed DEF InstancesInv, Untouched

\* What was given to tasks stays with them.
LEMMA SameTasks ==
  ASSUME UNCHANGED <<draft, tasks>>, TasksInv,
         progress \in {"submitted", "failed"} => progress' \in {"submitted", "failed"}
  PROVE  TasksInv'
<1>1. \A n : /\ Scheduled(n)' = Scheduled(n) /\ IsBatch(n)' = IsBatch(n)
             /\ PlainGiven(n)' = PlainGiven(n)
  BY SameSlots, SameFed DEF Scheduled, PlainGiven
<1> QED
  BY <1>1 DEF TasksInv

\* What a draft went through stays with how far it has come.
LEMMA SameProgress ==
  ASSUME UNCHANGED <<draft, progress>>, ProgressInv
  PROVE  ProgressInv'
BY SameValidation, SameCount, SamePanics DEF ProgressInv

\* The first task of a plain node is given what it is fed, and what it has of its own.
LEMMA FilledGiven ==
  ASSUME Untouched(instance), NEW n \in Nodes, NEW s \in DOMAIN draft.inputs[n]
  PROVE  IF Fed(n, s) THEN Filled(n)[s] # <<>>
         ELSE Filled(n)[s] = draft.inputs[n][s].contents
<1>1. Filled(n)[s] = IF Fed(n, s) THEN <<Given(n, s)[1]>> ELSE instance.contents[n][s]
  BY DEF Filled, InputSlot
<1>2. \A x : <<x>> # <<>>
  OBVIOUS
<1> QED
  BY <1>1, <1>2 DEF Untouched

\* Submission, scheduling, a panic and the save of an instance keep DraftInv.
LEMMA DraftGoesOn == DraftInv /\ [DraftNext]_draftVars => DraftInv'
<1> SUFFICES ASSUME DraftInv, [DraftNext]_draftVars PROVE DraftInv'
  OBVIOUS
<1>0. draft \in Drafts /\ InstancesInv /\ ProgressInv /\ TasksInv
  BY DEF DraftInv
<1>1. CASE Submit
  <2>1. UNCHANGED <<draft, instance, copies, tasks>> /\ progress = "draft"
    BY <1>1 DEF Submit
  <2>2. ProgressInv'
    <3>1. \/ progress' = "rejected"
          \/ progress' = "panicked" /\ (DraftValidation = "panic" \/ (DraftValidation = "ok" /\ CountPanics))
          \/ progress' = "submitted" /\ DraftValidation = "ok"
      BY <1>1 DEF Submit
    <3> QED
      BY <2>1, <3>1, SameValidation, SameCount DEF ProgressInv
  <2>3. TasksInv'
    BY <1>0, <2>1, SameTasks
  <2> QED
    BY <1>0, <2>1, <2>2, <2>3, SameInstances DEF DraftInv
<1>2. CASE Schedule
  <2>1. UNCHANGED <<draft, progress, instance>> /\ progress = "submitted"
    BY <1>2 DEF Schedule
  <2>2. ProgressInv'
    BY <1>0, <2>1, SameProgress
  <2>3. Untouched(instance)
    BY <1>0 DEF InstancesInv
  <2> DEFINE Sent == [contents |-> [n \in Nodes |-> IF n \in Entry /\ ~ IsBatch(n) THEN Filled(n)
                                                    ELSE instance.contents[n]],
                      prepared |-> [n \in Nodes |-> IF n \in Entry THEN Prepared(n)
                                                    ELSE instance.prepared[n]]]
  <2>4. copies' = copies \union {Sent}
    BY <1>2 DEF Schedule
  <2>5. Untouched(Sent)
    <3> SUFFICES ASSUME NEW n \in Nodes, NEW s \in DOMAIN draft.inputs[n], ~ Fed(n, s)
                 PROVE  Sent.contents[n][s] = draft.inputs[n][s].contents
      BY DEF Untouched
    <3>1. Sent.contents[n] = IF n \in Entry /\ ~ IsBatch(n) THEN Filled(n)
                             ELSE instance.contents[n]
      OBVIOUS
    <3> QED
      BY <2>3, <3>1, FilledGiven DEF Untouched
  <2>6. InstancesInv'
    <3>1. \A i : Untouched(i) => Untouched(i)'
      BY <2>1, SameFed DEF Untouched
    <3> HIDE DEF Sent
    <3> QED
      BY <1>0, <2>1, <2>3, <2>4, <2>5, <3>1 DEF InstancesInv
  <2>7. TasksInv'
    <3> SUFFICES ASSUME NEW n \in Nodes, Scheduled(n)'
                 PROVE  /\ progress' \in {"submitted", "failed"} /\ n \in ToSet(draft'.nodes)
                        /\ ~ IsBatch(n)' => PlainGiven(n)'
      BY DEF TasksInv
    <3>1. tasks'[n] = IF n \in Entry THEN Tasks(n) ELSE tasks[n]
      BY <1>2 DEF Schedule
    <3>2. CASE n \in Entry
      <4>1. n \in ToSet(draft.nodes)
        BY <3>2 DEF Entry
      <4>2. ~ IsBatch(n) => PlainGiven(n)'
        <5> SUFFICES ASSUME ~ IsBatch(n), NEW s \in DOMAIN draft.inputs[n]
                     PROVE  IF Fed(n, s) THEN tasks'[n][1][s] # <<>>
                            ELSE tasks'[n][1][s] = draft.inputs[n][s].contents
          BY <2>1, SameFed DEF PlainGiven
        <5>1. tasks'[n][1] = Filled(n)
          BY <3>1, <3>2 DEF Tasks
        <5> QED
          BY <2>3, <5>1, FilledGiven
      <4> QED
        BY <2>1, <4>1, <4>2, SameSlots
    <3>3. CASE n \notin Entry
      <4>1. tasks'[n] = tasks[n] /\ Scheduled(n)
        BY <3>1, <3>3 DEF Scheduled
      <4>2. n \in ToSet(draft.nodes) /\ (~ IsBatch(n) => PlainGiven(n))
        BY <1>0, <4>1 DEF TasksInv
      <4>3. PlainGiven(n) => PlainGiven(n)'
        BY <2>1, <4>1, SameFed DEF PlainGiven
      <4> QED
        BY <2>1, <4>2, <4>3, SameSlots
    <3> QED
      BY <3>2, <3>3
  <2> QED
    BY <1>0, <2>1, <2>2, <2>6, <2>7 DEF DraftInv
<1>3. CASE SchedulePanics
  <2>1. /\ UNCHANGED <<draft, instance, copies, tasks>>
        /\ progress = "submitted" /\ progress' = "failed"
    BY <1>3 DEF SchedulePanics
  <2>2. DraftValidation = "ok"
    BY <1>0, <2>1 DEF ProgressInv
  <2>3. \E n \in ToSet(draft.nodes) : \E b \in ToSet(draft.batches[n]) : BatchPanics(n, b)
    BY <1>3 DEF SchedulePanics, Entry, Strategies
  <2>4. ProgressInv'
    BY <2>1, <2>2, <2>3, SameValidation, SamePanics DEF ProgressInv
  <2> QED
    BY <1>0, <2>1, <2>4, SameInstances, SameTasks DEF DraftInv
<1>4. CASE SaveInstance
  <2>1. UNCHANGED <<draft, progress, tasks>>
    BY <1>4 DEF SaveInstance
  <2>2. PICK copy \in copies : instance' = copy /\ copies' = copies \ {copy}
    BY <1>4 DEF SaveInstance
  <2>3. \A i : Untouched(i) => Untouched(i)'
    BY <2>1, SameFed DEF Untouched
  <2>4. InstancesInv'
    BY <1>0, <2>2, <2>3 DEF InstancesInv
  <2> QED
    BY <1>0, <2>1, <2>4, SameProgress, SameTasks DEF DraftInv
<1>5. CASE UNCHANGED draftVars
  <2>1. UNCHANGED <<draft, progress, instance, copies, tasks>>
    BY <1>5 DEF draftVars
  <2> QED
    BY <1>0, <2>1, SameInstances, SameProgress, SameTasks DEF DraftInv
<1> QED
  BY <1>1, <1>2, <1>3, <1>4, <1>5 DEF DraftNext

\* The invariant says of an accepted draft that it is counted and scheduled without a
\* panic, and that its plain nodes are given what they need.
LEMMA DraftRuns == DraftInv => AcceptedRuns
<1> SUFFICES ASSUME DraftInv PROVE AcceptedRuns
  OBVIOUS
<1>1. draft \in Drafts /\ ProgressInv /\ TasksInv
  BY DEF DraftInv
<1>2. ASSUME UniqueSlots, \A n \in Nodes : \A b \in ToSet(draft.batches[n]) : b.rename
      PROVE  progress # "failed" /\ (progress = "panicked" => DraftValidation = "panic")
  <2>1. ToSet(draft.nodes) \subseteq Nodes
    BY <1>1, DraftsAssumption DEF WellFormed
  <2>2. progress # "failed"
    BY <1>1, <1>2, <2>1, BatchesApart DEF ProgressInv
  <2>3. progress = "panicked" => DraftValidation = "panic"
    BY <1>1, <1>2, CountFindsRelations DEF ProgressInv
  <2> QED
    BY <2>2, <2>3
<1>3. PlainNodesGiven
  <2> SUFFICES ASSUME UniqueSlots, NEW n \in Nodes, Scheduled(n), ~ IsBatch(n),
                      NEW s \in DOMAIN draft.inputs[n], Required(n, s)
               PROVE  tasks[n][1][s] # <<>>
    BY DEF PlainNodesGiven, InputSlot
  <2>1. progress \in {"submitted", "failed"} /\ n \in ToSet(draft.nodes) /\ PlainGiven(n)
    BY <1>1 DEF TasksInv
  <2>2. DraftValidation = "ok"
    BY <1>1, <2>1 DEF ProgressInv
  <2>3. CASE Fed(n, s)
    BY <2>1, <2>3 DEF PlainGiven
  <2>4. CASE ~ Fed(n, s)
    <3>1. draft.inputs[n][s].contents # <<>>
      BY <1>1, <2>1, <2>2, <2>4, RequiredGiven
    <3> QED
      BY <2>1, <2>4, <3>1 DEF PlainGiven
  <2> QED
    BY <2>3, <2>4
<1> QED
  BY <1>2, <1>3 DEF AcceptedRuns, Strategies

\* Of any drafts whose nodes share no descriptor: one that was accepted is counted and
\* scheduled without a panic, if moreover every strategy has a rename pattern, and its
\* plain nodes are given what they need (validate_workflow_draft, schedule_next_nodes).
THEOREM AcceptedRunsAlways == DraftSpec => []AcceptedRuns
BY DraftStarts, DraftGoesOn, DraftRuns, PTL DEF DraftSpec

-----------------------------------------------------------------------------
(***************************************************************************)
(* Products, as the fold that counts makes them.                           *)
(***************************************************************************)
\* What the fold of a product defines: a function on the sets of places.
ProductEquation(f, w) ==
  f = [s \in SUBSET DOMAIN w |-> IF s = {} THEN 1 ELSE f[s \ {Max(s)}] * w[Max(s)]]

\* The products of the first factors.
IsProduct(p, w) == p[0] = 1 /\ \A i \in 1..Len(w) : p[i] = p[i - 1] * w[i]

\* A product of natural numbers is one, and positive if they are.
LEMMA TimesCloses ==
  ASSUME NEW V \in {Nat, Nat \ {0}}
  PROVE  1 \in V /\ \A a, b \in V : a * b \in V
<1>1. \A a, b \in Nat : a * b \in Nat
  OBVIOUS
<1>2. \A a, b \in Nat \ {0} : a * b \in Nat \ {0}
  OBVIOUS
<1> QED
  BY <1>1, <1>2

\* A product is made factor by factor, as sub_node_count folds the strategies.
LEMMA ProductIs ==
  ASSUME NEW V \in {Nat, Nat \ {0}}, NEW w, IsSeq(w), \A i \in 1..Len(w) : w[i] \in V
  PROVE  \E p \in [0..Len(w) -> V] : IsProduct(p, w) /\ ProductOf(w) = p[Len(w)]
<1> DEFINE N == Len(w)
           step == [n \in DOMAIN w |-> [t \in V |-> t * w[n]]]
<1>1. N \in Nat /\ DOMAIN w = 1..N
  BY SeqDomain
<1>2. \A n \in 1..N, t \in V : step[n][t] \in V /\ step[n][t] = t * w[n]
  <2>1. \A a, b \in V : a * b \in V
    BY TimesCloses
  <2> QED
    BY <1>1, <2>1
<1>3. 1 \in V
  BY TimesCloses
<1>4. \A s \in SUBSET (1..N) : s # {} => Max(s) \in 1..N
  <2> SUFFICES ASSUME NEW s \in SUBSET (1..N), s # {} PROVE Max(s) \in 1..N
    OBVIOUS
  <2>1. s \subseteq 0..N
    BY <1>1
  <2> QED
    BY <1>1, <2>1, MaxIsGreatest
<1> HIDE DEF step, N
<1>5. PICK g \in [SUBSET (1..N) -> V] : IsLeftFold(g, N, V, 1, step)
  BY <1>1, <1>2, <1>3, LeftFoldExists
<1>6. ProductEquation(g, w)
  <2>1. ASSUME NEW s \in SUBSET (1..N), s # {} PROVE g[s] = g[s \ {Max(s)}] * w[Max(s)]
    <3>1. g[s \ {Max(s)}] \in V
      OBVIOUS
    <3>2. g[s] = step[Max(s)][g[s \ {Max(s)}]]
      BY <1>5, <2>1, <3>1, Zenon DEF IsLeftFold
    <3> QED
      BY <1>2, <1>4, <2>1, <3>1, <3>2
  <2>2. g[{}] = 1
    BY <1>5 DEF IsLeftFold
  <2> QED
    BY <1>1, <2>1, <2>2 DEF ProductEquation
<1> DEFINE h == CHOOSE f : ProductEquation(f, w)
<1>7. ProductEquation(h, w)
  BY <1>6, Zenon
<1>8. ProductOf(w) = h[1..N]
  <2>1. ProductOf(w) = h[DOMAIN w]
    BY Zenon DEF ProductOf, FoldLeft, MapThenFoldSet, ProductEquation
  <2> QED
    BY <1>1, <2>1, Zenon
<1> HIDE DEF h
<1>9. IsLeftFold(h, N, V, 1, step)
  <2>1. ASSUME NEW s \in SUBSET (1..N)
        PROVE  h[s] = IF s = {} THEN 1 ELSE h[s \ {Max(s)}] * w[Max(s)]
    <3>1. h[s] = [r \in SUBSET DOMAIN w |-> IF r = {} THEN 1 ELSE h[r \ {Max(r)}] * w[Max(r)]][s]
      BY <1>7, Zenon DEF ProductEquation
    <3> QED
      BY <1>1, <3>1, Zenon
  <2>2. h[{}] = 1
    BY <2>1
  <2>3. ASSUME NEW s \in SUBSET (1..N), s # {}, h[s \ {Max(s)}] \in V
        PROVE  h[s] = step[Max(s)][h[s \ {Max(s)}]]
    <3> PICK m \in 1..N : m = Max(s)
      BY <1>4, <2>3
    <3> PICK t \in V : t = h[s \ {m}]
      BY <2>3
    <3>1. h[s] = t * w[m]
      BY <2>1, <2>3
    <3>2. step[m][t] = t * w[m]
      BY <1>2
    <3> QED
      BY <3>1, <3>2, Zenon
  <2> QED
    BY <1>2, <1>3, <2>2, <2>3 DEF IsLeftFold
<1>10. PICK p \in [0..N -> V] : IsIteration(p, N, 1, step) /\ h[1..N] = p[N]
  BY <1>1, <1>9, LeftFoldIterates
<1>11. ASSUME NEW j \in 1..N PROVE p[j] = p[j - 1] * w[j]
  <2>1. PICK i \in 0..N : i = j - 1
    BY <1>1
  <2>2. p[j] = step[j][p[i]]
    BY <1>10, <2>1, Zenon DEF IsIteration
  <2> QED
    BY <1>2, <2>1, <2>2
<1>12. IsProduct(p, w)
  BY <1>10, <1>11 DEF IsProduct, IsIteration, N
<1> QED
  BY <1>8, <1>10, <1>12 DEF N

\* No factor of a product that is not zero is zero.
LEMMA FactorsNotZero ==
  ASSUME NEW w, IsSeq(w), \A i \in 1..Len(w) : w[i] \in Nat, ProductOf(w) # 0
  PROVE  \A i \in 1..Len(w) : w[i] # 0
<1> SUFFICES ASSUME NEW i \in 1..Len(w), w[i] = 0 PROVE FALSE
  OBVIOUS
<1>1. Len(w) \in Nat
  BY SeqDomain
<1>2. PICK p \in [0..Len(w) -> Nat] : IsProduct(p, w) /\ ProductOf(w) = p[Len(w)]
  BY ProductIs
<1> DEFINE T == {j \in Nat : i <= j /\ j <= Len(w) => p[j] = 0}
<1>3. 0 \in T
  OBVIOUS
<1>4. ASSUME NEW j \in Nat, j \in T PROVE j + 1 \in T
  <2> SUFFICES ASSUME NEW k \in 1..Len(w), k = j + 1, i <= k PROVE p[k] = 0
    BY <1>1
  <2>1. p[k] = p[j] * w[k] /\ p[j] \in Nat /\ w[k] \in Nat
    <3>1. p[k] = p[k - 1] * w[k]
      BY <1>2 DEF IsProduct
    <3>2. k - 1 = j /\ j \in 0..Len(w)
      BY <1>1
    <3> QED
      BY <3>1, <3>2
  <2>2. p[j] = 0 \/ w[k] = 0
    <3>1. i = k \/ i <= j
      OBVIOUS
    <3> QED
      BY <1>1, <1>4, <3>1
  <2>3. \A a, b \in Nat : a = 0 \/ b = 0 => a * b = 0
    OBVIOUS
  <2> QED
    BY <2>1, <2>2, <2>3
<1>5. Len(w) \in T
  <2> HIDE DEF T
  <2>1. Nat \subseteq T
    BY <1>3, <1>4, NaturalInduction
  <2> QED
    BY <1>1, <2>1
<1> QED
  BY <1>1, <1>2, <1>5

-----------------------------------------------------------------------------
(***************************************************************************)
(* Where the batches of an accepted draft take their inputs from.          *)
(***************************************************************************)
\* A draft whose batches can be counted: it was accepted and the count finds what it needs.
Countable == draft \in Drafts /\ DraftValidation = "ok" /\ ~ CountPanics

\* A strategy of an accepted draft either fills its slot or takes what another node makes.
LEMMA StrategyGood ==
  ASSUME Countable, NEW n \in Nodes, NEW b \in ToSet(Strategies(n))
  PROVE  /\ n \in ToSet(draft.nodes) /\ b.slot \in DOMAIN draft.inputs[n]
         /\ \/ b.kind = "MatchRegex" /\ b.count \in Nat
            \/ b.kind = "FromBatchOutputs" /\ Fed(n, b.slot)
<1>1. WellFormed(draft) /\ draft \in Drafts /\ DraftValidation = "ok"
  BY DraftsAssumption DEF Countable
<1>2. b \in ToSet(draft.batches[n])
  BY DEF Strategies
<1>3. n \in ToSet(draft.nodes)
  <2>1. ToSet(<<>>) = {}
    BY DEF ToSet
  <2> QED
    BY <1>1, <1>2, <2>1 DEF WellFormed
<1>4. Strategy(n, b) \notin Failures
  BY <1>1, <1>2, <1>3, AcceptedNodes
<1>5. b.slot \in DOMAIN draft.inputs[n]
  BY <1>4 DEF Strategy, InputSlot, Failures
<1>6. b.kind \in {"OriginalBatch", "MatchRegex", "FromBatchOutputs"} /\ (b.kind = "MatchRegex" => b.count \in Nat)
  BY <1>1, <1>2 DEF WellFormed
<1>7. b.kind # "OriginalBatch"
  BY <1>1, <1>2, <1>3, OriginalRefused
<1>8. b.kind = "FromBatchOutputs" => Fed(n, b.slot)
  BY <1>3 DEF Countable, CountPanics
<1> QED
  BY <1>3, <1>5, <1>6, <1>7, <1>8

\* A relation that feeds a slot of a node.
Feeds(r, n, s) ==
  /\ r \in ToSet(draft.relations) /\ r.to = n /\ r.from \in Dependencies(n)
  /\ \E sr \in ToSet(r.slots) : sr.to = s

\* The first and the last relation that feeds a slot feed it, and are one if it is fed once.
LEMMA FedFrom ==
  ASSUME WellFormed(draft), NEW n, NEW s, Fed(n, s)
  PROVE  /\ Feeds(FirstFeeding(n, s), n, s) /\ Feeds(LastFeeding(n, s), n, s)
         /\ FedOnce /\ n \in Nodes /\ s \in DOMAIN InputSlot(n) => FirstFeeding(n, s) = LastFeeding(n, s)
<1>1. IsSeq(draft.relations)
  BY DEF WellFormed
<1>2. \A i \in FeedingTo(n, s) : Feeds(draft.relations[i], n, s)
  BY <1>1, SeqDomain DEF FeedingTo, RelationsTo, Feeding, Feeds, Dependencies
<1>3. FeedingTo(n, s) \subseteq 1..Len(draft.relations) /\ FeedingTo(n, s) # {} /\ Len(draft.relations) \in Nat
  BY <1>1, SeqDomain DEF FeedingTo, RelationsTo, Fed
<1>4. Min(FeedingTo(n, s)) \in FeedingTo(n, s)
  <2>1. FeedingTo(n, s) \subseteq Nat
    BY <1>3
  <2> QED
    BY <1>3, <2>1, MinIsLeast
<1>5. Max(FeedingTo(n, s)) \in FeedingTo(n, s)
  <2>1. FeedingTo(n, s) \subseteq 0..Len(draft.relations)
    BY <1>3
  <2> QED
    BY <1>3, <2>1, MaxIsGreatest
<1>6. ASSUME FedOnce, n \in Nodes, s \in DOMAIN InputSlot(n)
      PROVE  Min(FeedingTo(n, s)) = Max(FeedingTo(n, s))
  <2>1. IsFiniteSet(FeedingTo(n, s))
    <3>1. IsFiniteSet(1..Len(draft.relations))
      BY <1>3, FS_Interval
    <3> QED
      BY <1>3, <3>1, FS_Subset
  <2>2. Cardinality(FeedingTo(n, s)) <= 1
    BY <1>6 DEF FedOnce
  <2>3. \A x, y \in FeedingTo(n, s) : x = y
    <3> SUFFICES ASSUME NEW x \in FeedingTo(n, s), NEW y \in FeedingTo(n, s), x # y PROVE FALSE
      OBVIOUS
    <3>1. Cardinality(FeedingTo(n, s) \ {x}) = Cardinality(FeedingTo(n, s)) - 1
          /\ IsFiniteSet(FeedingTo(n, s) \ {x})
      BY <2>1, FS_RemoveElement
    <3>2. Cardinality(FeedingTo(n, s) \ {x}) = 0
      BY <2>1, <2>2, <3>1, FS_CardinalityType
    <3>3. FeedingTo(n, s) \ {x} = {}
      BY <3>1, <3>2, FS_EmptySet
    <3> QED
      BY <3>3
  <2> QED
    BY <1>4, <1>5, <2>3
<1> QED
  BY <1>2, <1>4, <1>5, <1>6 DEF FirstFeeding, LastFeeding

\* The slot a fed slot is fed from is one of the node that feeds it.
LEMMA FromThere ==
  ASSUME Countable, NEW n, NEW s, NEW r, Feeds(r, n, s)
  PROVE  /\ r.from \in Nodes /\ LastFromSlot(r, s) \in DOMAIN OutputSlot(r.from)
<1>1. WellFormed(draft) /\ DraftValidation = "ok"
  BY DraftsAssumption DEF Countable
<1>2. r \in ToSet(draft.relations) /\ IsSeq(r.slots) /\ \E sr \in ToSet(r.slots) : sr.to = s
  BY <1>1 DEF Feeds, WellFormed
<1>3. r.from \in Nodes
  BY <1>1, <1>2, AcceptedRelations DEF WellFormed
<1> DEFINE I == {i \in DOMAIN r.slots : r.slots[i].to = s}
<1>4. Max(I) \in I
  <2>1. I \subseteq 0..Len(r.slots) /\ Len(r.slots) \in Nat
    BY <1>2, SeqDomain
  <2>2. I # {}
    BY <1>2, SeqDomain
  <2> HIDE DEF I
  <2> QED
    BY <2>1, <2>2, MaxIsGreatest
<1>5. r.slots[Max(I)] \in ToSet(r.slots)
  <2>1. Max(I) \in DOMAIN r.slots
    BY <1>4
  <2> HIDE DEF I
  <2> QED
    BY <1>2, <2>1, SeqDomain
<1>6. r.slots[Max(I)].from \in DOMAIN draft.outputs[r.from]
  <2> HIDE DEF I
  <2> QED
    BY <1>1, <1>2, <1>5, AcceptedRelations
<1> QED
  BY <1>3, <1>6 DEF LastFromSlot, OutputSlot

-----------------------------------------------------------------------------
(***************************************************************************)
(* The count of the sub nodes, along the relations of a draft.             *)
(***************************************************************************)
Factors(n, count) == [i \in DOMAIN Strategies(n) |-> Factor(n, Strategies(n)[i], count)]

\* Counts that are right where the nodes before them are.
CountsAt(n, count) == count[n] = ProductOf(Factors(n, count))

\* The factors of a node are numbers when the counts of the nodes before it are.
LEMMA FactorsGood ==
  ASSUME Countable, NEW n \in Nodes, NEW count,
         \A m \in Dependencies(n) : count[m] \in Nat
  PROVE  /\ IsSeq(Factors(n, count)) /\ Len(Factors(n, count)) = Len(Strategies(n))
         /\ \A i \in 1..Len(Factors(n, count)) : Factors(n, count)[i] \in Nat
<1>1. IsSeq(Strategies(n)) /\ WellFormed(draft)
  BY DraftsAssumption DEF Countable, WellFormed, Strategies
<1>2. ASSUME NEW b \in ToSet(Strategies(n)) PROVE Factor(n, b, count) \in Nat
  <2>1. \/ b.kind = "MatchRegex" /\ b.count \in Nat
        \/ b.kind = "FromBatchOutputs" /\ Fed(n, b.slot)
    BY StrategyGood
  <2>2. CASE b.kind = "MatchRegex" /\ b.count \in Nat
    BY <2>2 DEF Factor
  <2>3. CASE b.kind = "FromBatchOutputs" /\ Fed(n, b.slot)
    <3>1. FirstFeeding(n, b.slot).from \in Dependencies(n)
      BY <1>1, <2>3, FedFrom DEF Feeds
    <3> QED
      BY <2>3, <3>1 DEF Factor
  <2> QED
    BY <2>1, <2>2, <2>3
<1> PICK q : q = Strategies(n)
  OBVIOUS
<1> DEFINE w == [i \in DOMAIN q |-> Factor(n, q[i], count)]
<1>3. IsSeq(q) /\ Factors(n, count) = w
  BY <1>1 DEF Factors
<1>4. DOMAIN w = 1..Len(q) /\ Len(q) \in Nat /\ \A i \in 1..Len(q) : w[i] \in Nat
  <2>1. Len(q) \in Nat /\ DOMAIN q = 1..Len(q) /\ \A i \in DOMAIN q : q[i] \in ToSet(q)
    BY <1>3, SeqDomain
  <2> QED
    BY <1>2, <2>1
<1>5. IsSeq(w) /\ Len(w) = Len(q)
  <2> HIDE DEF w
  <2>1. w = [i \in 1..Len(q) |-> w[i]]
    BY <1>3, <1>4 DEF w
  <2> QED
    BY <1>4, <2>1 DEF IsSeq, ToSet
<1> HIDE DEF w
<1> QED
  BY <1>3, <1>4, <1>5

\* The factors of a node see only the counts of the nodes before it.
LEMMA SameFactors ==
  ASSUME Countable, NEW n \in Nodes, NEW f, NEW g, \A m \in Dependencies(n) : f[m] = g[m]
  PROVE  Factors(n, f) = Factors(n, g)
<1>1. IsSeq(Strategies(n)) /\ WellFormed(draft)
  BY DraftsAssumption DEF Countable, WellFormed, Strategies
<1>2. ASSUME NEW b \in ToSet(Strategies(n)) PROVE Factor(n, b, f) = Factor(n, b, g)
  <2>1. \/ b.kind = "MatchRegex" /\ b.count \in Nat
        \/ b.kind = "FromBatchOutputs" /\ Fed(n, b.slot)
    BY StrategyGood
  <2>2. CASE b.kind = "MatchRegex"
    BY <2>2 DEF Factor
  <2>3. CASE b.kind = "FromBatchOutputs" /\ Fed(n, b.slot)
    <3>1. FirstFeeding(n, b.slot).from \in Dependencies(n)
      BY <1>1, <2>3, FedFrom DEF Feeds
    <3> QED
      BY <2>3, <3>1 DEF Factor
  <2> QED
    BY <2>1, <2>2, <2>3
<1>3. \A i \in DOMAIN Strategies(n) : Strategies(n)[i] \in ToSet(Strategies(n))
  BY <1>1, SeqDomain
<1> QED
  BY <1>2, <1>3 DEF Factors

\* The count of a node is a number when the counts of the nodes before it are.
LEMMA CountGood ==
  ASSUME Countable, NEW n \in Nodes, NEW count,
         \A m \in Dependencies(n) : count[m] \in Nat
  PROVE  ProductOf(Factors(n, count)) \in Nat
<1>1. /\ IsSeq(Factors(n, count))
      /\ \A i \in 1..Len(Factors(n, count)) : Factors(n, count)[i] \in Nat
  BY FactorsGood
<1>2. Len(Factors(n, count)) \in Nat
  BY <1>1, SeqDomain
<1>3. PICK p \in [0..Len(Factors(n, count)) -> Nat] :
        ProductOf(Factors(n, count)) = p[Len(Factors(n, count))]
  BY <1>1, ProductIs
<1> QED
  BY <1>2, <1>3

\* The nodes before a node are nodes of the draft.
LEMMA Before ==
  ASSUME Countable, NEW n
  PROVE  \A m \in Dependencies(n) : m \in ToSet(draft.nodes) /\ m \in Nodes
<1> SUFFICES ASSUME NEW m \in Dependencies(n) PROVE m \in ToSet(draft.nodes) /\ m \in Nodes
  OBVIOUS
<1>1. WellFormed(draft) /\ DraftValidation = "ok" /\ IsSeq(draft.relations)
  BY DraftsAssumption DEF Countable, WellFormed
<1>2. PICK i \in DOMAIN draft.relations : draft.relations[i].to = n /\ draft.relations[i].from = m
  BY DEF Dependencies, RelationsTo
<1>3. draft.relations[i] \in ToSet(draft.relations)
  BY <1>1, SeqDomain
<1>4. m \in ToSet(draft.nodes)
  BY <1>1, <1>2, <1>3, AcceptedRelations
<1> QED
  BY <1>1, <1>4 DEF WellFormed

\* What a node has when the nodes before it have it, every node has.
LEMMA NodeInduction ==
  ASSUME Countable, NEW T \in SUBSET Nodes,
         \A n \in Nodes : Dependencies(n) \subseteq T => n \in T
  PROVE  Nodes \subseteq T
<1> SUFFICES ASSUME Nodes \ T # {} PROVE FALSE
  OBVIOUS
<1>1. Acyclic(draft) /\ IsSeq(draft.relations)
  BY DraftsAssumption DEF Countable, WellFormed
<1>2. PICK n \in Nodes \ T : \A r \in ToSet(draft.relations) : r.to = n => r.from \notin Nodes \ T
  BY <1>1 DEF Acyclic
<1>3. Dependencies(n) \subseteq T
  <2> SUFFICES ASSUME NEW m \in Dependencies(n) PROVE m \in T
    OBVIOUS
  <2>1. PICK i \in DOMAIN draft.relations : draft.relations[i].to = n /\ draft.relations[i].from = m
    BY DEF Dependencies, RelationsTo
  <2>2. draft.relations[i] \in ToSet(draft.relations)
    BY <1>1, SeqDomain
  <2>3. m \notin Nodes \ T
    BY <1>2, <2>1, <2>2
  <2> QED
    BY <2>3, Before
<1> QED
  BY <1>3

\* A solution of the count of sub nodes.
IsCount(f) == f = [n \in Nodes |-> ProductOf([i \in DOMAIN Strategies(n) |-> Factor(n, Strategies(n)[i], f)])]

\* The sub nodes of a draft can be counted: a largest set of nodes that can be, and has
\* the nodes before each of its own, leaves none out.
LEMMA CountExists ==
  ASSUME Countable
  PROVE  \E f : IsCount(f)
<1> DEFINE Closed(K) == \A n \in K : Dependencies(n) \subseteq K
           Counted(K, f) == \A n \in K : CountsAt(n, f)
           Can(K) == Closed(K) /\ \E f \in [Nodes -> Nat] : Counted(K, f)
           Left == {L \in SUBSET Nodes : Can(Nodes \ L)}
<1>1. Nodes \in Left
  <2>1. [n \in Nodes |-> 1] \in [Nodes -> Nat] /\ Nodes \ Nodes = {}
    OBVIOUS
  <2> QED
    BY <2>1
<1>2. \A L \in Left : IsFiniteSet(L)
  BY DraftsAssumption, FS_Subset
<1>3. PICK L \in Left : \A M \in Left : ~ (M \subseteq L /\ M # L)
  <2> HIDE DEF Left
  <2> QED
    BY <1>1, <1>2, SmallestSet
<1>4. L = {}
  <2> SUFFICES ASSUME L # {} PROVE FALSE
    OBVIOUS
  <2> DEFINE K == Nodes \ L
  <2>1. PICK n \in L : Dependencies(n) \subseteq K
    <3> SUFFICES ASSUME \A n \in L : ~ (Dependencies(n) \subseteq K) PROVE FALSE
      OBVIOUS
    <3>1. \A n \in Nodes : Dependencies(n) \subseteq K => n \in K
      OBVIOUS
    <3>2. K \in SUBSET Nodes
      OBVIOUS
    <3> HIDE DEF K
    <3>3. Nodes \subseteq K
      BY <3>1, <3>2, NodeInduction
    <3> QED
      BY <3>3 DEF K
  <2>0. Can(K)
    OBVIOUS
  <2>2. PICK f \in [Nodes -> Nat] : Counted(K, f)
    BY <2>0
  <2> DEFINE g == [f EXCEPT ![n] = ProductOf(Factors(n, f))]
             M == L \ {n}
  <2>3. \A m \in Dependencies(n) : f[m] \in Nat
    BY <2>1
  <2>4. g \in [Nodes -> Nat]
    BY <2>3, CountGood
  <2>5. \A m \in K : g[m] = f[m]
    OBVIOUS
  <2>6. ASSUME NEW m \in Nodes \ M PROVE CountsAt(m, g) /\ Dependencies(m) \subseteq Nodes \ M
    <3>1. CASE m = n
      <4>1. \A k \in Dependencies(n) : f[k] = g[k]
        BY <2>1, <2>5
      <4>2. Factors(n, f) = Factors(n, g)
        <5> HIDE DEF g
        <5> QED
          BY <4>1, SameFactors
      <4>3. g[n] = ProductOf(Factors(n, f))
        OBVIOUS
      <4> HIDE DEF g
      <4> QED
        BY <2>1, <3>1, <4>2, <4>3 DEF CountsAt
    <3>2. CASE m \in K
      <4>1. Dependencies(m) \subseteq K
        BY <2>0, <3>2
      <4>2. Factors(m, f) = Factors(m, g)
        <5> HIDE DEF g
        <5> QED
          BY <2>5, <3>2, <4>1, SameFactors
      <4>3. g[m] = f[m] /\ f[m] = ProductOf(Factors(m, f))
        BY <2>2, <2>5, <3>2 DEF CountsAt
      <4> HIDE DEF g
      <4> QED
        BY <4>1, <4>2, <4>3 DEF CountsAt
    <3> QED
      BY <3>1, <3>2
  <2>7. M \in Left
    <3> HIDE DEF g
    <3> QED
      BY <2>4, <2>6
  <2> QED
    BY <1>3, <2>7
<1>5. PICK f \in [Nodes -> Nat] : \A n \in Nodes : CountsAt(n, f)
  <2>1. Nodes \ {} = Nodes
    OBVIOUS
  <2> QED
    BY <1>4, <2>1
<1>6. \A n \in Nodes : f[n] = ProductOf(Factors(n, f))
  BY <1>5 DEF CountsAt
<1>7. f = [n \in Nodes |-> ProductOf(Factors(n, f))]
  BY <1>6
<1>8. IsCount(f)
  BY <1>7 DEF IsCount, Factors
<1> QED
  BY <1>8

\* The rows of a submitted draft: those of a batch node are the product of what its
\* strategies make of the nodes before it.
Width == [n \in Nodes |-> IF IsBatch(n) THEN rows[n] ELSE 1]

\* As far as batches go, the same: the product of no factors is one.
CountedBy(f) == f \in [Nodes -> Nat] /\ \A n \in Nodes : CountsAt(n, f) /\ (~ IsBatch(n) => f[n] = 1)

\* The counts that exist are those of sub_node_count; a plain node counts as one.
LEMMA CountIs ==
  ASSUME Countable, NEW f, IsCount(f)
  PROVE  CountedBy(f)
<1>2. ASSUME NEW n \in Nodes PROVE f[n] = ProductOf(Factors(n, f))
  <2>1. f[n] = [m \in Nodes |-> ProductOf([i \in DOMAIN Strategies(m) |-> Factor(m, Strategies(m)[i], f)])][n]
    BY Zenon DEF IsCount
  <2> QED
    BY <2>1 DEF Factors
<1> DEFINE T == {n \in Nodes : f[n] \in Nat}
<1>4. ASSUME NEW n \in Nodes, Dependencies(n) \subseteq T PROVE n \in T
  BY <1>2, <1>4, CountGood
<1>5. Nodes \subseteq T
  <2>1. T \in SUBSET Nodes
    OBVIOUS
  <2> HIDE DEF T
  <2> QED
    BY <1>4, <2>1, NodeInduction
<1>6. \A n \in Nodes : f[n] \in Nat
  BY <1>5
<1>7. f = [n \in Nodes |-> f[n]]
  <2>1. \E F : f = [n \in Nodes |-> F[n]]
    <3> DEFINE F == [n \in Nodes |-> ProductOf([i \in DOMAIN Strategies(n) |-> Factor(n, Strategies(n)[i], f)])]
    <3>1. f = F /\ F = [n \in Nodes |-> F[n]]
      BY DEF IsCount
    <3> QED
      BY <3>1
  <2> QED
    BY <2>1
<1>8. ASSUME NEW n \in Nodes, ~ IsBatch(n) PROVE f[n] = 1
  <2>1. Strategies(n) = <<>>
    BY <1>8 DEF IsBatch
  <2>2. Factors(n, f) = <<>>
    BY <2>1 DEF Factors
  <2>3. PICK p \in [0..0 -> Nat] : IsProduct(p, <<>>) /\ ProductOf(<<>>) = p[0]
    <3>1. IsSeq(<<>>) /\ Len(<<>>) = 0
      BY DEF IsSeq, ToSet
    <3>2. Nat \in {Nat, Nat \ {0}} /\ \A i \in 1..Len(<<>>) : <<>>[i] \in Nat
      BY <3>1
    <3> QED
      BY <3>1, <3>2, ProductIs
  <2> QED
    BY <1>2, <2>2, <2>3 DEF IsProduct
<1> QED
  BY <1>2, <1>6, <1>7, <1>8 DEF CountedBy, CountsAt

-----------------------------------------------------------------------------
(***************************************************************************)
(* The combinations of the inputs of a batch.                              *)
(***************************************************************************)
\* A number of sub nodes, at least one.
Some == Nat \ {0}

\* Inputs a strategy can be given: some, all different.
Inputs(list) == IsSeq(list) /\ Len(list) \in Some /\ Distinct(list)

\* Combinations that are all different.
Apart(P) == {t \in Seq(Seq(P)) : Distinct(t)}

\* What the inputs of a slot make pairs of.
PairsIn(P, slot, inputs) == \A x \in ToSet(inputs) : <<slot, x>> \in P

Combined(made, acc, slot, inputs, P) ==
  /\ made \in Apart(P) /\ Len(made) = Times(Len(inputs), IF acc = <<>> THEN 1 ELSE Len(acc))
  /\ \A x \in ToSet(made) : \E e \in ToSet(inputs) :
       IF acc = <<>> THEN x = <<<<slot, e>>>>
       ELSE \E y \in ToSet(acc) : x = Append(y, <<slot, e>>)

\* A strategy makes of every combination one for each of its inputs, all different.
LEMMA CombineGood ==
  ASSUME NEW P, NEW acc \in Apart(P), NEW slot, NEW inputs, Inputs(inputs),
         PairsIn(P, slot, inputs)
  PROVE  Combined(Combine(acc, slot, inputs), acc, slot, inputs, P)
<1>1. Len(inputs) \in Nat \ {0} /\ DOMAIN inputs = 1..Len(inputs)
      /\ \A j \in 1..Len(inputs) : inputs[j] \in ToSet(inputs) /\ <<slot, inputs[j]>> \in P
  BY SeqDomain DEF Inputs, Some, PairsIn
<1>0. acc \in Seq(Seq(P)) /\ Distinct(acc) /\ Distinct(inputs)
  BY DEF Apart, Inputs
<1>2. CASE acc = <<>>
  <2> DEFINE w == [j \in DOMAIN inputs |-> <<<<slot, inputs[j]>>>>]
  <2>1. Combine(acc, slot, inputs) = w
    BY <1>2 DEF Combine
  <2>2. \A j \in 1..Len(inputs) : <<<<slot, inputs[j]>>>> \in Seq(P)
    BY <1>1
  <2>3. w \in Seq(Seq(P)) /\ Len(w) = Len(inputs)
    BY <1>1, <2>2
  <2>4. ASSUME NEW a \in 1..Len(inputs), NEW b \in 1..Len(inputs), w[a] = w[b] PROVE a = b
    <3>1. w[a][1][2] = inputs[a] /\ w[b][1][2] = inputs[b]
      BY <1>1
    <3> QED
      BY <1>0, <1>1, <2>4, <3>1 DEF Distinct
  <2>5. \A x \in ToSet(w) : \E e \in ToSet(inputs) : x = <<<<slot, e>>>>
    BY <1>1 DEF ToSet
  <2> HIDE DEF w
  <2>6. Distinct(w)
    BY <2>3, <2>4 DEF Distinct
  <2>7. w \in Apart(P)
    BY <2>3, <2>6 DEF Apart
  <2>8. Len(w) = Times(Len(inputs), 1)
    BY <1>1, <2>3, TimesOne
  <2>9. Combined(w, acc, slot, inputs, P)
    BY <1>2, <2>5, <2>7, <2>8 DEF Combined
  <2> QED
    BY <2>1, <2>9, Zenon
<1>3. CASE acc # <<>>
  <2> DEFINE Row(e) == [k \in DOMAIN acc |-> Append(acc[k], <<slot, e>>)]
             w == [j \in DOMAIN inputs |-> Row(inputs[j])]
  <2>1. Combine(acc, slot, inputs) = FlattenSeq(w)
    BY <1>3 DEF Combine
  <2>2. DOMAIN acc = 1..Len(acc) /\ Len(acc) \in Nat /\ \A k \in 1..Len(acc) : acc[k] \in Seq(P)
    BY <1>0
  <2>3. ASSUME NEW j \in 1..Len(inputs)
        PROVE  /\ Row(inputs[j]) \in Seq(Seq(P)) /\ Len(Row(inputs[j])) = Len(acc)
               /\ Distinct(Row(inputs[j]))
               /\ \A x \in ToSet(Row(inputs[j])) : \E y \in ToSet(acc) : x = Append(y, <<slot, inputs[j]>>)
    <3> PICK e \in P : e = <<slot, inputs[j]>>
      BY <1>1
    <3> DEFINE r == [k \in DOMAIN acc |-> Append(acc[k], e)]
    <3>1. Row(inputs[j]) = r
      OBVIOUS
    <3>2. \A k \in 1..Len(acc) : Append(acc[k], e) \in Seq(P)
      BY <2>2
    <3>3. r \in Seq(Seq(P)) /\ Len(r) = Len(acc)
      BY <2>2, <3>2
    <3>4. ASSUME NEW a \in 1..Len(acc), NEW b \in 1..Len(acc), r[a] = r[b] PROVE a = b
      <4>1. Append(acc[a], e) = Append(acc[b], e)
        BY <2>2, <3>4
      <4>2. acc[a] = acc[b]
        BY <2>2, <4>1, AppendInjective
      <4> QED
        BY <1>0, <4>2 DEF Distinct
    <3>5. \A x \in ToSet(r) : \E y \in ToSet(acc) : x = Append(y, e)
      BY <2>2 DEF ToSet
    <3> HIDE DEF r, Row
    <3> QED
      BY <3>1, <3>3, <3>4, <3>5 DEF Distinct
  <2>4. DOMAIN w = 1..Len(inputs) /\ Len(w) = Len(inputs) /\ \A j \in 1..Len(inputs) : w[j] = Row(inputs[j])
    BY <1>1
  <2> HIDE DEF w, Row
  <2>5. ASSUME NEW i \in 1..Len(inputs), NEW j \in 1..Len(inputs), i # j
        PROVE  ToSet(w[i]) \cap ToSet(w[j]) = {}
    <3> SUFFICES ASSUME NEW x \in ToSet(w[i]), x \in ToSet(w[j]) PROVE FALSE
      OBVIOUS
    <3>1. PICK y \in ToSet(acc) : x = Append(y, <<slot, inputs[i]>>)
      BY <2>3, <2>4
    <3>2. PICK z \in ToSet(acc) : x = Append(z, <<slot, inputs[j]>>)
      BY <2>3, <2>4
    <3>3. y \in Seq(P) /\ z \in Seq(P)
      BY <2>2 DEF ToSet
    <3> PICK e \in P : e = <<slot, inputs[i]>>
      BY <1>1
    <3> PICK f \in P : f = <<slot, inputs[j]>>
      BY <1>1
    <3>4. e = f
      BY <3>1, <3>2, <3>3, AppendInjective
    <3>5. inputs[i] = inputs[j]
      BY <3>4
    <3> QED
      BY <1>0, <2>5, <3>5 DEF Distinct
  <2>6. /\ FlattenSeq(w) \in Seq(Seq(P)) /\ Len(FlattenSeq(w)) = Times(Len(inputs), Len(acc))
        /\ Distinct(FlattenSeq(w))
        /\ \A x \in ToSet(FlattenSeq(w)) : \E i \in 1..Len(inputs) : x \in ToSet(w[i])
    <3>1. \A i \in 1..Len(inputs) : w[i] \in Seq(Seq(P)) /\ Len(w[i]) = Len(acc) /\ Distinct(w[i])
      BY <2>3, <2>4
    <3> PICK V : V = Seq(P)
      OBVIOUS
    <3> PICK N \in Nat \ {0} : N = Len(inputs)
      BY <1>1
    <3> PICK K \in Nat : K = Len(acc)
      BY <2>2
    <3>2. Len(w) = N
      BY <2>4
    <3>3. \A i \in 1..N : w[i] \in Seq(V) /\ Len(w[i]) = K /\ Distinct(w[i])
      BY <3>1
    <3>4. \A i, j \in 1..N : i # j => ToSet(w[i]) \cap ToSet(w[j]) = {}
      BY <2>5
    <3>6. Rows(w, V, K)
      BY <3>2, <3>3, <3>4 DEF Rows
    <3>5. RowsJoined(FlattenSeq(w), w, V, K)
      BY <3>2, <3>6, FlattenApart
    <3> QED
      BY <3>2, <3>5 DEF RowsJoined
  <2>7. \A x \in ToSet(FlattenSeq(w)) : \E e \in ToSet(inputs) : \E y \in ToSet(acc) : x = Append(y, <<slot, e>>)
    <3> SUFFICES ASSUME NEW x \in ToSet(FlattenSeq(w))
                 PROVE  \E e \in ToSet(inputs) : \E y \in ToSet(acc) : x = Append(y, <<slot, e>>)
      OBVIOUS
    <3>1. PICK i \in 1..Len(inputs) : x \in ToSet(w[i])
      BY <2>6
    <3>2. inputs[i] \in ToSet(inputs)
      BY <1>1 DEF ToSet
    <3>3. x \in ToSet(Row(inputs[i]))
      BY <2>4, <3>1
    <3>4. \E y \in ToSet(acc) : x = Append(y, <<slot, inputs[i]>>)
      BY <2>3, <3>3
    <3> QED
      BY <3>2, <3>4
  <2> QED
    BY <1>3, <2>1, <2>6, <2>7 DEF Apart, Combined
<1> QED
  BY <1>2, <1>3

\* What the fold of the strategies defines: a function on the sets of places.
CombineEquation(f, n) ==
  f = [s \in SUBSET DOMAIN Strategies(n) |->
         IF s = {} THEN <<>>
         ELSE Combine(f[s \ {Max(s)}], Strategies(n)[Max(s)].slot, BatchInputs(n, Strategies(n)[Max(s)]))]

\* The combinations of the first strategies.
AreCombined(c, n) ==
  c[0] = <<>> /\ \A i \in 1..Len(Strategies(n)) :
    c[i] = Combine(c[i - 1], Strategies(n)[i].slot, BatchInputs(n, Strategies(n)[i]))

GivesInputs(n) == \A i \in 1..Len(Strategies(n)) : Inputs(BatchInputs(n, Strategies(n)[i]))

Pairs(n) ==
  {Strategies(n)[i].slot : i \in 1..Len(Strategies(n))}
    \X UNION {ToSet(BatchInputs(n, Strategies(n)[i])) : i \in 1..Len(Strategies(n))}

\* One more strategy leaves them so.
LEMMA CombinedApart ==
  ASSUME NEW n, GivesInputs(n), NEW i \in 1..Len(Strategies(n)), NEW t \in Apart(Pairs(n))
  PROVE  Combined(Combine(t, Strategies(n)[i].slot, BatchInputs(n, Strategies(n)[i])),
                  t, Strategies(n)[i].slot, BatchInputs(n, Strategies(n)[i]), Pairs(n))
<1> PICK slot : slot = Strategies(n)[i].slot
  OBVIOUS
<1> PICK inputs : inputs = BatchInputs(n, Strategies(n)[i])
  OBVIOUS
<1>1. Inputs(inputs)
  BY DEF GivesInputs
<1>2. PairsIn(Pairs(n), slot, inputs)
  BY DEF Pairs, PairsIn
<1>3. Combined(Combine(t, slot, inputs), t, slot, inputs, Pairs(n))
  BY <1>1, <1>2, CombineGood
<1> QED
  BY <1>3

\* The combinations of the strategies are made by one after the other.
LEMMA CombinationsIterate ==
  ASSUME NEW n, IsSeq(Strategies(n)), GivesInputs(n)
  PROVE  \E c \in [0..Len(Strategies(n)) -> Apart(Pairs(n))] :
           AreCombined(c, n) /\ Combinations(n) = c[Len(Strategies(n))]
<1> DEFINE V == Apart(Pairs(n))
           N == Len(Strategies(n))
           Made(i, t) == Combine(t, Strategies(n)[i].slot, BatchInputs(n, Strategies(n)[i]))
           step == [i \in DOMAIN Strategies(n) |-> [t \in V |-> Made(i, t)]]
<1>1. N \in Nat /\ DOMAIN Strategies(n) = 1..N
  BY SeqDomain
<1>2. \A i \in 1..N, t \in V : Made(i, t) \in V
  BY CombinedApart DEF Combined
<1>3. \A i \in 1..N, t \in V : step[i][t] \in V /\ step[i][t] = Made(i, t)
  <2> HIDE DEF Made, V, N
  <2> QED
    BY <1>1, <1>2
<1>4. <<>> \in V
  BY DEF Apart, Distinct
<1>5. \A s \in SUBSET (1..N) : s # {} => Max(s) \in 1..N
  <2> SUFFICES ASSUME NEW s \in SUBSET (1..N), s # {} PROVE Max(s) \in 1..N
    OBVIOUS
  <2>1. s \subseteq 0..N
    BY <1>1
  <2> QED
    BY <1>1, <2>1, MaxIsGreatest
<1> HIDE DEF step, V, N, Made
<1>6. PICK g \in [SUBSET (1..N) -> V] : IsLeftFold(g, N, V, <<>>, step)
  BY <1>1, <1>3, <1>4, LeftFoldExists
<1>7. CombineEquation(g, n)
  <2>1. ASSUME NEW s \in SUBSET (1..N), s # {} PROVE g[s] = Made(Max(s), g[s \ {Max(s)}])
    <3>1. g[s \ {Max(s)}] \in V
      OBVIOUS
    <3>2. g[s] = step[Max(s)][g[s \ {Max(s)}]]
      BY <1>6, <2>1, <3>1, Zenon DEF IsLeftFold
    <3> QED
      BY <1>3, <1>5, <2>1, <3>1, <3>2
  <2>2. g[{}] = <<>>
    BY <1>6 DEF IsLeftFold
  <2> QED
    BY <1>1, <2>1, <2>2 DEF CombineEquation, Made
<1> DEFINE h == CHOOSE f : CombineEquation(f, n)
<1>8. CombineEquation(h, n)
  BY <1>7, Zenon
<1>9. Combinations(n) = h[1..N]
  <2>1. Combinations(n) = h[DOMAIN Strategies(n)]
    BY Zenon DEF Combinations, FoldLeft, MapThenFoldSet, CombineEquation
  <2> QED
    BY <1>1, <2>1, Zenon
<1> HIDE DEF h
<1>10. IsLeftFold(h, N, V, <<>>, step)
  <2>1. ASSUME NEW s \in SUBSET (1..N)
        PROVE  h[s] = IF s = {} THEN <<>> ELSE Made(Max(s), h[s \ {Max(s)}])
    <3>1. h[s] = [r \in SUBSET DOMAIN Strategies(n) |->
                    IF r = {} THEN <<>>
                    ELSE Combine(h[r \ {Max(r)}], Strategies(n)[Max(r)].slot,
                                 BatchInputs(n, Strategies(n)[Max(r)]))][s]
      BY <1>8, Zenon DEF CombineEquation
    <3> QED
      BY <1>1, <3>1, Zenon DEF Made
  <2>2. h[{}] = <<>>
    BY <2>1
  <2>3. ASSUME NEW s \in SUBSET (1..N), s # {}, h[s \ {Max(s)}] \in V
        PROVE  h[s] = step[Max(s)][h[s \ {Max(s)}]]
    BY <1>3, <1>5, <2>1, <2>3
  <2> QED
    BY <1>3, <1>4, <2>2, <2>3 DEF IsLeftFold
<1>11. PICK c \in [0..N -> V] : IsIteration(c, N, <<>>, step) /\ h[1..N] = c[N]
  BY <1>1, <1>10, LeftFoldIterates
<1>12. ASSUME NEW j \in 1..N PROVE c[j] = Made(j, c[j - 1])
  <2>1. PICK i \in 0..N : i = j - 1
    BY <1>1
  <2>2. c[j] = step[j][c[i]]
    BY <1>11, <2>1, Zenon DEF IsIteration
  <2> QED
    BY <1>3, <2>1, <2>2
<1>13. AreCombined(c, n)
  BY <1>11, <1>12 DEF AreCombined, IsIteration, N, Made
<1> QED
  BY <1>9, <1>11, <1>13 DEF N, V

\* How many inputs each strategy gives.
Lens(n) == [i \in DOMAIN Strategies(n) |-> Len(BatchInputs(n, Strategies(n)[i]))]

\* A combination has an input of every strategy, in the place of the strategy.
OfAll(x, n) ==
  /\ x \in Seq(Pairs(n)) /\ Len(x) = Len(Strategies(n))
  /\ \A l \in 1..Len(Strategies(n)) :
       x[l][1] = Strategies(n)[l].slot /\ x[l][2] \in ToSet(BatchInputs(n, Strategies(n)[l]))

\* Every strategy gives at least one input.
LEMMA LensGood ==
  ASSUME NEW n, IsSeq(Strategies(n)), GivesInputs(n)
  PROVE  /\ IsSeq(Lens(n)) /\ Len(Lens(n)) = Len(Strategies(n))
         /\ \A i \in 1..Len(Strategies(n)) :
              Lens(n)[i] = Len(BatchInputs(n, Strategies(n)[i])) /\ Lens(n)[i] \in Nat \ {0}
<1>1. DOMAIN Strategies(n) = 1..Len(Strategies(n)) /\ Len(Strategies(n)) \in Nat
  BY SeqDomain
<1>2. \A i \in 1..Len(Strategies(n)) : Len(BatchInputs(n, Strategies(n)[i])) \in Nat \ {0}
  BY DEF GivesInputs, Inputs, Some
<1>3. Lens(n) = [i \in 1..Len(Strategies(n)) |-> Lens(n)[i]]
      /\ \A i \in 1..Len(Strategies(n)) : Lens(n)[i] = Len(BatchInputs(n, Strategies(n)[i]))
  BY <1>1 DEF Lens
<1>4. \A i \in 1..Len(Strategies(n)) : Lens(n)[i] \in ToSet(Lens(n))
  BY <1>3 DEF ToSet
<1>5. Lens(n) \in Seq(ToSet(Lens(n))) /\ Len(Lens(n)) = Len(Strategies(n))
  BY <1>1, <1>3, <1>4
<1> QED
  BY <1>2, <1>3, <1>5 DEF IsSeq

\* There are as many combinations as the product of the numbers of inputs, all different,
\* and each has an input of every strategy.
LEMMA CombinationsGood ==
  ASSUME NEW n, IsSeq(Strategies(n)), Strategies(n) # <<>>, GivesInputs(n)
  PROVE  /\ Combinations(n) \in Apart(Pairs(n)) /\ Len(Combinations(n)) = ProductOf(Lens(n))
         /\ Len(Combinations(n)) \in Some
         /\ \A x \in ToSet(Combinations(n)) : OfAll(x, n)
<1> DEFINE N == Len(Strategies(n))
           Slot(l) == Strategies(n)[l].slot
           In(l) == BatchInputs(n, Strategies(n)[l])
<1>1. PICK c \in [0..N -> Apart(Pairs(n))] : AreCombined(c, n) /\ Combinations(n) = c[N]
  BY CombinationsIterate
<1>2. PICK p \in [0..N -> Nat \ {0}] : IsProduct(p, Lens(n)) /\ ProductOf(Lens(n)) = p[N]
  <2>1. \A i \in 1..Len(Lens(n)) : Lens(n)[i] \in Nat \ {0}
    BY LensGood
  <2>2. PICK p \in [0..Len(Lens(n)) -> Nat \ {0}] : IsProduct(p, Lens(n)) /\ ProductOf(Lens(n)) = p[Len(Lens(n))]
    <3>1. IsSeq(Lens(n)) /\ Nat \ {0} \in {Nat, Nat \ {0}}
      BY LensGood
    <3> QED
      BY <2>1, <3>1, ProductIs
  <2> QED
    BY <2>2, LensGood
<1>3. N \in Nat \ {0}
  BY SeqDomain DEF IsSeq
<1> DEFINE Upto(x, i) == /\ Len(x) = i
                         /\ \A l \in 1..i : x[l][1] = Slot(l) /\ x[l][2] \in ToSet(In(l))
           Good(i) == /\ Len(c[i]) = IF i = 0 THEN 0 ELSE p[i]
                      /\ \A x \in ToSet(c[i]) : Upto(x, i)
           T == {i \in Nat : i <= N => Good(i)}
<1>4. 0 \in T
  <2>1. c[0] = <<>>
    BY <1>1 DEF AreCombined
  <2>2. ToSet(c[0]) = {} /\ Len(c[0]) = 0
    BY <2>1 DEF ToSet
  <2> QED
    BY <2>2
<1>5. ASSUME NEW i \in Nat, i \in T PROVE i + 1 \in T
  <2> SUFFICES ASSUME NEW j \in 1..N, j = i + 1 PROVE Good(j)
    <3> HIDE DEF Good
    <3> QED
      BY <1>3
  <2>1. i \in 0..N /\ i = j - 1 /\ Good(i)
    BY <1>3, <1>5
  <2> PICK t \in Apart(Pairs(n)) : t = c[i]
    BY <2>1
  <2>2. c[j] = Combine(t, Slot(j), In(j))
    BY <1>1, <2>1, Zenon DEF AreCombined
  <2>3. Combined(c[j], t, Slot(j), In(j), Pairs(n))
    BY <2>2, CombinedApart
  <2>4. /\ c[j] \in Apart(Pairs(n)) /\ Len(c[j]) = Times(Len(In(j)), IF t = <<>> THEN 1 ELSE Len(t))
        /\ \A x \in ToSet(c[j]) : \E e \in ToSet(In(j)) :
             IF t = <<>> THEN x = <<<<Slot(j), e>>>>
             ELSE \E y \in ToSet(t) : x = Append(y, <<Slot(j), e>>)
    BY <2>3, Zenon DEF Combined
  <2>5. t \in Seq(Seq(Pairs(n)))
    BY DEF Apart
  <2>6. p[j] = p[i] * Len(In(j)) /\ p[i] \in Nat \ {0} /\ p[0] = 1 /\ Len(In(j)) \in Nat \ {0}
    <3>1. j \in 1..Len(Lens(n)) /\ Lens(n)[j] = Len(In(j)) /\ Len(In(j)) \in Nat \ {0}
      BY LensGood
    <3>2. p[j] = p[i] * Lens(n)[j]
      BY <1>2, <2>1, <3>1, Zenon DEF IsProduct
    <3>3. p[0] = 1
      BY <1>2 DEF IsProduct
    <3> QED
      BY <2>1, <3>1, <3>2, <3>3
  <2>7. Len(c[j]) = p[j]
    <3>1. CASE i = 0
      <4>1. t = <<>>
        BY <1>1, <3>1 DEF AreCombined
      <4>2. Len(c[j]) = Times(Len(In(j)), 1) /\ p[j] = 1 * Len(In(j))
        BY <2>4, <2>6, <3>1, <4>1
      <4> QED
        BY <2>6, <4>2 DEF Times
    <3>2. CASE i # 0
      <4>1. Len(t) = p[i]
        BY <2>1, <3>2
      <4>2. t # <<>>
        BY <2>6, <4>1
      <4>3. Len(c[j]) = Times(Len(In(j)), p[i])
        BY <2>4, <4>1, <4>2
      <4>4. \A a, b \in Nat : a * b = Times(b, a)
        BY DEF Times
      <4> QED
        BY <2>6, <4>3, <4>4
    <3> QED
      BY <3>1, <3>2
  <2>8. ASSUME NEW x \in ToSet(c[j]) PROVE Upto(x, j)
    <3>1. PICK e \in ToSet(In(j)) :
            IF t = <<>> THEN x = <<<<Slot(j), e>>>>
            ELSE \E y \in ToSet(t) : x = Append(y, <<Slot(j), e>>)
      BY <2>4
    <3>2. PICK y \in Seq(Pairs(n)) : Upto(y, i) /\ x = Append(y, <<Slot(j), e>>)
      <4>1. CASE t = <<>>
        <5>1. i = 0
          <6>1. i # 0 => Len(t) = p[i]
            BY <2>1
          <6>2. Len(t) = 0
            BY <4>1
          <6> QED
            BY <2>6, <6>1, <6>2
        <5>2. Append(<<>>, <<Slot(j), e>>) = <<<<Slot(j), e>>>>
          OBVIOUS
        <5>3. <<>> \in Seq(Pairs(n)) /\ Upto(<<>>, i)
          BY <5>1
        <5> QED
          BY <3>1, <4>1, <5>2, <5>3
      <4>2. CASE t # <<>>
        <5>1. PICK y \in ToSet(t) : x = Append(y, <<Slot(j), e>>)
          BY <3>1, <4>2
        <5>2. y \in Seq(Pairs(n))
          BY <2>5, <5>1 DEF ToSet
        <5>3. Upto(y, i)
          BY <2>1
        <5> QED
          BY <5>1, <5>2, <5>3
      <4> QED
        BY <4>1, <4>2
    <3> PICK r \in Pairs(n) : r = <<Slot(j), e>>
      BY DEF Pairs
    <3>3. Len(x) = j /\ x[j] = r /\ \A l \in 1..i : x[l] = y[l]
      <4>1. Len(y) = i /\ x = Append(y, r)
        BY <3>2
      <4> PICK P : P = Pairs(n)
        OBVIOUS
      <4>2. Len(Append(y, r)) = Len(y) + 1 /\ Append(y, r)[Len(y) + 1] = r
            /\ \A l \in 1..Len(y) : Append(y, r)[l] = y[l]
        <5>1. y \in Seq(P) /\ r \in P
          OBVIOUS
        <5> QED
          BY <5>1, AppendProperties
      <4>3. Len(x) = i + 1 /\ x[i + 1] = r /\ \A l \in 1..i : x[l] = y[l]
        BY <4>1, <4>2
      <4> QED
        BY <2>1, <4>3
    <3>4. r[1] = Slot(j) /\ r[2] = e
      OBVIOUS
    <3>5. \A l \in 1..i : y[l][1] = Slot(l) /\ y[l][2] \in ToSet(In(l))
      BY <3>2
    <3>6. \A l \in 1..j : l = j \/ l \in 1..i
      BY <2>1
    <3> HIDE DEF Slot, In
    <3> QED
      BY <3>3, <3>4, <3>5, <3>6
  <2> QED
    BY <2>7, <2>8
<1>6. Good(N)
  <2>1. Nat \subseteq T
    <3> HIDE DEF T
    <3> QED
      BY <1>4, <1>5, NaturalInduction
  <2>2. N \in T
    <3> HIDE DEF T
    <3> QED
      BY <1>3, <2>1
  <2> HIDE DEF Good, N
  <2> QED
    BY <1>3, <2>2
<1>7. Combinations(n) \in Apart(Pairs(n))
  BY <1>1, <1>3
<1>8. Len(Combinations(n)) = ProductOf(Lens(n)) /\ Len(Combinations(n)) \in Some
  BY <1>1, <1>2, <1>3, <1>6 DEF Some
<1>9. ASSUME NEW x \in ToSet(Combinations(n)) PROVE OfAll(x, n)
  <2>1. Upto(x, N)
    BY <1>1, <1>6
  <2>2. x \in Seq(Pairs(n))
    BY <1>7 DEF Apart, ToSet
  <2> QED
    BY <2>1, <2>2 DEF OfAll
<1> QED
  BY <1>7, <1>8, <1>9

-----------------------------------------------------------------------------
(***************************************************************************)
(* What a handler finds in an instance that was saved before it began.     *)
(***************************************************************************)
\* The outputs of a node in an instance it was made in: those of its sub nodes, if it
\* has rows of them.
Made(i, n) ==
  IF rows[n] > 0
  THEN \E k \in 1..rows[n] :
         /\ FedOnce => k = rows[n]
         /\ i.prepared[n] = [s \in DOMAIN OutputSlot(n) |-> [j \in 1..k |-> Out(n, s, j)]]
  ELSE i.prepared[n] = [s \in DOMAIN OutputSlot(n) |-> <<Out(n, s, 0)>>]

\* An input that is not the output of a batch node's own task.
Fine(x) == x[1] = "out" /\ rows[x[2]] > 0 => x[4] \in 1..rows[x[2]]

\* What was counted at the submission.
Counting == Countable /\ CountedBy(Width) /\ \A n \in Nodes : ~ IsBatch(n) => rows[n] = 0

\* A batch node has a row for every sub node counted, if any, a plain node none.
LEMMA RowsCounted ==
  ASSUME Counting, NEW n \in Nodes
  PROVE  /\ rows[n] \in Nat
         /\ IF IsBatch(n) THEN Width[n] = rows[n] ELSE rows[n] = 0 /\ Width[n] = 1
BY DEF Counting, CountedBy, Width

\* What a node is given by one that made its outputs is as many as that was counted for.
LEMMA GivenGood ==
  ASSUME Counting, NEW n \in Nodes, NEW s, Fed(n, s), \A d \in Dependencies(n) : Made(instance, d)
  PROVE  /\ Inputs(Given(n, s)) /\ \A x \in ToSet(Given(n, s)) : Fine(x)
         /\ FedOnce /\ s \in DOMAIN InputSlot(n) /\ Width[FirstFeeding(n, s).from] # 0 =>
              Len(Given(n, s)) = Width[FirstFeeding(n, s).from]
<1> PICK r : r = LastFeeding(n, s)
  OBVIOUS
<1> PICK d : d = r.from
  OBVIOUS
<1> PICK f : f = LastFromSlot(r, s)
  OBVIOUS
<1>1. WellFormed(draft) /\ Countable
  BY DraftsAssumption DEF Counting, Countable
<1>2. Feeds(r, n, s)
  BY <1>1, FedFrom
<1>3. d \in Nodes /\ f \in DOMAIN OutputSlot(d) /\ Made(instance, d)
  BY <1>1, <1>2, FromThere DEF Feeds
<1>4. Given(n, s) = instance.prepared[d][f]
  BY DEF Given
<1>5. ASSUME FedOnce, s \in DOMAIN InputSlot(n) PROVE FirstFeeding(n, s).from = d
  BY <1>1, <1>5, FedFrom
<1>6. CASE rows[d] > 0
  <2>1. rows[d] \in Some /\ Width[d] = rows[d]
    BY <1>3, <1>6, RowsCounted DEF Some
  <2>2. PICK k \in 1..rows[d] :
          /\ FedOnce => k = rows[d]
          /\ instance.prepared[d] = [t \in DOMAIN OutputSlot(d) |-> [j \in 1..k |-> Out(d, t, j)]]
    BY <1>3, <1>6 DEF Made
  <2> DEFINE w == [j \in 1..k |-> Out(d, f, j)]
  <2>3. Given(n, s) = w
    BY <1>3, <1>4, <2>2
  <2>4. k \in Nat \ {0}
    BY <2>1 DEF Some
  <2>5. Inputs(w)
    <3>1. \A j \in 1..k : w[j] = Out(d, f, j) /\ w[j] \in ToSet(w)
      BY DEF ToSet
    <3>2. w \in Seq(ToSet(w)) /\ Len(w) = k
      BY <2>4, <3>1
    <3>3. \A a, b \in 1..k : w[a] = w[b] => a = b
      <4>1. \A j \in 1..k : w[j][4] = j
        BY DEF Out
      <4> HIDE DEF w
      <4> QED
        BY <4>1
    <3> HIDE DEF w
    <3> QED
      BY <2>4, <3>2, <3>3 DEF Inputs, IsSeq, Some, Distinct
  <2>6. \A x \in ToSet(w) : Fine(x)
    <3> SUFFICES ASSUME NEW j \in 1..k PROVE Fine(Out(d, f, j))
      BY DEF ToSet
    <3>1. j \in 1..rows[d]
      BY <2>1 DEF Some
    <3> QED
      BY <3>1 DEF Fine, Out
  <2>7. FedOnce => Len(w) = Width[d]
    <3>1. Len(w) = k
      BY <2>4
    <3> QED
      BY <2>1, <2>2, <3>1
  <2> HIDE DEF w
  <2> QED
    BY <1>5, <2>3, <2>5, <2>6, <2>7
<1>7. CASE ~ (rows[d] > 0)
  <2>1. rows[d] = 0 /\ (Width[d] # 0 => Width[d] = 1)
    BY <1>3, <1>7, RowsCounted
  <2>2. instance.prepared[d] = [t \in DOMAIN OutputSlot(d) |-> <<Out(d, t, 0)>>]
    BY <1>3, <1>7 DEF Made
  <2>3. Given(n, s) = <<Out(d, f, 0)>>
    BY <1>3, <1>4, <2>2
  <2> PICK o : o = Out(d, f, 0)
    OBVIOUS
  <2>4. Fine(o)
    BY <2>1 DEF Fine, Out
  <2>5. Inputs(<<o>>) /\ Len(<<o>>) = 1 /\ ToSet(<<o>>) = {o}
    BY DEF Inputs, IsSeq, ToSet, Distinct, Some
  <2> QED
    BY <1>5, <2>1, <2>3, <2>4, <2>5
<1> QED
  BY <1>6, <1>7

\* What a strategy that counts for something gives once the nodes before are saved.
LEMMA StrategyGives ==
  ASSUME Counting, NEW n \in Nodes, NEW b \in ToSet(Strategies(n)),
         \A d \in Dependencies(n) : Made(instance, d), Factor(n, b, Width) # 0
  PROVE  /\ Inputs(BatchInputs(n, b)) /\ \A x \in ToSet(BatchInputs(n, b)) : Fine(x)
         /\ FedOnce => Len(BatchInputs(n, b)) = Factor(n, b, Width)
<1>1. /\ n \in ToSet(draft.nodes) /\ b.slot \in DOMAIN InputSlot(n)
      /\ \/ b.kind = "MatchRegex" /\ b.count \in Nat
         \/ b.kind = "FromBatchOutputs" /\ Fed(n, b.slot)
  BY StrategyGood DEF Counting, InputSlot
<1>2. CASE b.kind = "MatchRegex" /\ b.count \in Nat
  <2>1. b.count \in Nat \ {0}
    BY <1>2 DEF Factor
  <2> PICK k \in Nat \ {0} : k = b.count
    BY <2>1
  <2> PICK slot : slot = b.slot
    OBVIOUS
  <2> DEFINE w == [i \in 1..k |-> <<"fill", n, slot, i>>]
  <2>2. BatchInputs(n, b) = w /\ Factor(n, b, Width) = k
    BY <1>2 DEF BatchInputs, Factor
  <2>3. Inputs(w)
    <3>1. \A j \in 1..k : w[j] = <<"fill", n, slot, j>> /\ w[j] \in ToSet(w)
      BY DEF ToSet
    <3>2. w \in Seq(ToSet(w)) /\ Len(w) = k
      <4>1. w = [i \in 1..k |-> w[i]]
        OBVIOUS
      <4> HIDE DEF w
      <4> QED
        BY <3>1, <4>1
    <3>3. \A a, c \in 1..k : w[a] = w[c] => a = c
      <4>1. \A j \in 1..k : w[j][4] = j
        OBVIOUS
      <4> HIDE DEF w
      <4> QED
        BY <4>1
    <3> HIDE DEF w
    <3> QED
      BY <3>2, <3>3 DEF Inputs, IsSeq, Some, Distinct
  <2>4. \A x \in ToSet(w) : Fine(x)
    <3> SUFFICES ASSUME NEW j \in 1..k PROVE Fine(<<"fill", n, slot, j>>)
      BY DEF ToSet
    <3> QED
      BY DEF Fine
  <2>5. Len(w) = k
    OBVIOUS
  <2> HIDE DEF w
  <2> QED
    BY <2>2, <2>3, <2>4, <2>5
<1>3. CASE b.kind = "FromBatchOutputs" /\ Fed(n, b.slot)
  <2>1. BatchInputs(n, b) = Given(n, b.slot) /\ Factor(n, b, Width) = Width[FirstFeeding(n, b.slot).from]
    BY <1>3 DEF BatchInputs, Factor
  <2> PICK slot : slot = b.slot
    OBVIOUS
  <2>2. /\ Inputs(Given(n, slot)) /\ \A x \in ToSet(Given(n, slot)) : Fine(x)
        /\ FedOnce => Len(Given(n, slot)) = Width[FirstFeeding(n, slot).from]
    BY <1>1, <1>3, <2>1, GivenGood
  <2> QED
    BY <2>1, <2>2
<1> QED
  BY <1>1, <1>2, <1>3

\* A node that has rows is a batch, and all its strategies count for something.
LEMMA RowsOfFactors ==
  ASSUME Counting, NEW n \in Nodes, rows[n] > 0
  PROVE  /\ IsSeq(Strategies(n)) /\ IsBatch(n) /\ rows[n] = ProductOf(Factors(n, Width))
         /\ \A b \in ToSet(Strategies(n)) : Factor(n, b, Width) # 0
<1>1. IsSeq(Strategies(n))
  BY DraftsAssumption DEF Counting, Countable, WellFormed, Strategies
<1>2. IsBatch(n) /\ Width[n] = rows[n] /\ rows[n] # 0
  BY RowsCounted
<1>3. rows[n] = ProductOf(Factors(n, Width))
  BY <1>2 DEF Counting, CountedBy, CountsAt
<1>4. \A m \in Dependencies(n) : Width[m] \in Nat
  BY Before DEF Counting, CountedBy
<1>5. /\ IsSeq(Factors(n, Width)) /\ Len(Factors(n, Width)) = Len(Strategies(n))
      /\ \A i \in 1..Len(Factors(n, Width)) : Factors(n, Width)[i] \in Nat
  BY <1>4, FactorsGood DEF Counting
<1>6. \A i \in 1..Len(Factors(n, Width)) : Factors(n, Width)[i] # 0
  BY <1>2, <1>3, <1>5, FactorsNotZero
<1>7. ASSUME NEW b \in ToSet(Strategies(n)) PROVE Factor(n, b, Width) # 0
  <2>1. PICK i \in DOMAIN Strategies(n) : b = Strategies(n)[i]
    BY <1>1, SeqDomain
  <2>2. Factors(n, Width)[i] = Factor(n, b, Width)
    BY <2>1 DEF Factors
  <2>3. i \in 1..Len(Strategies(n))
    BY <1>1, <2>1, SeqDomain
  <2> QED
    BY <1>5, <1>6, <2>2, <2>3
<1> QED
  BY <1>1, <1>2, <1>3, <1>7

\* So the inputs are as many as were counted.
LEMMA InputsCounted ==
  ASSUME Counting, NEW n \in Nodes, rows[n] > 0, \A d \in Dependencies(n) : Made(instance, d)
  PROVE  /\ IsSeq(Strategies(n)) /\ IsBatch(n) /\ GivesInputs(n)
         /\ FedOnce => ProductOf(Lens(n)) = rows[n]
<1>1. /\ IsSeq(Strategies(n)) /\ IsBatch(n) /\ rows[n] = ProductOf(Factors(n, Width))
      /\ \A b \in ToSet(Strategies(n)) : Factor(n, b, Width) # 0
  BY RowsOfFactors
<1>2. DOMAIN Strategies(n) = 1..Len(Strategies(n)) /\ \A i \in DOMAIN Strategies(n) : Strategies(n)[i] \in ToSet(Strategies(n))
  BY <1>1, SeqDomain
<1>3. GivesInputs(n)
  BY <1>1, <1>2, StrategyGives DEF GivesInputs
<1>4. ASSUME FedOnce PROVE ProductOf(Lens(n)) = rows[n]
  <2>1. \A i \in DOMAIN Strategies(n) : Len(BatchInputs(n, Strategies(n)[i])) = Factor(n, Strategies(n)[i], Width)
    BY <1>1, <1>2, <1>4, StrategyGives
  <2>2. Lens(n) = Factors(n, Width)
    BY <2>1 DEF Lens, Factors
  <2> QED
    BY <1>1, <2>2
<1> QED
  BY <1>1, <1>3, <1>4

-----------------------------------------------------------------------------
(***************************************************************************)
(* What the tasks of a node are.                                           *)
(***************************************************************************)
\* A task whose inputs are no outputs of a batch node's own task.
TaskFine(t) == \A s \in DOMAIN t : \A k \in DOMAIN t[s] : Fine(t[s][k])

\* What the tasks of a node are, once and for all.
Done(n) ==
  /\ IsBatch(n) /\ FedOnce => Len(tasks[n]) = 1 + rows[n]
  /\ SlotsOnce(n) => \A i, j \in 2..Len(tasks[n]) : i # j =>
                     \E s \in BatchSlots(n) : tasks[n][i][s] # tasks[n][j][s]
  /\ UniqueSlots => \A i \in DOMAIN tasks[n] : TaskFine(tasks[n][i])

\* The contents of a node are those of the draft.
Kept(i, n) == i.contents[n] = [s \in DOMAIN draft.inputs[n] |-> draft.inputs[n][s].contents]

\* What a user gave is fine.
LEMMA OwnFine ==
  ASSUME Countable, UniqueSlots, NEW n \in ToSet(draft.nodes), NEW s \in DOMAIN draft.inputs[n],
         NEW k \in DOMAIN draft.inputs[n][s].contents
  PROVE  Fine(draft.inputs[n][s].contents[k])
<1>1. WellFormed(draft) /\ draft \in Drafts /\ DraftValidation = "ok" /\ n \in Nodes
  BY DraftsAssumption DEF Countable, WellFormed
<1>2. draft.inputs[n][s].contents # NoContents
  <2>1. CASE s \in ReliedInputSlots
    <3>1. PICK r \in ToSet(draft.relations) : \E sr \in ToSet(r.slots) : sr.to = s
      BY <2>1 DEF ReliedInputSlots
    <3>2. r.to \in ToSet(draft.nodes) /\ s \in DOMAIN draft.inputs[r.to]
          /\ draft.inputs[r.to][s].contents # NoContents
      BY <1>1, <3>1, AcceptedRelations
    <3>3. r.to = n
      BY <3>2 DEF UniqueSlots, InputSlot
    <3> QED
      BY <3>2, <3>3
  <2>2. CASE s \notin ReliedInputSlots
    <3>1. InputSlotOutcome(n, s) \notin Failures
      BY <1>1, AcceptedNodes
    <3> QED
      BY <2>2, <3>1 DEF InputSlotOutcome, InputSlot, Failures
  <2> QED
    BY <2>1, <2>2
<1> PICK c : c = draft.inputs[n][s].contents
  OBVIOUS
<1>3. IsSeq(c) /\ \A x \in ToSet(c) : x[1] # "out"
  BY <1>1, <1>2 DEF WellFormed
<1>4. c[k] \in ToSet(c)
  BY <1>3, SeqDomain
<1> QED
  BY <1>3, <1>4 DEF Fine

\* The contents that users gave are nobody's output.
LEMMA KeptFine ==
  ASSUME Countable, UniqueSlots, NEW n \in ToSet(draft.nodes), NEW i, Kept(i, n)
  PROVE  TaskFine(i.contents[n])
BY OwnFine DEF Kept, TaskFine

\* A plain node is done.
LEMMA PlainDone ==
  ASSUME Counting, NEW n \in ToSet(draft.nodes), ~ IsBatch(n), Kept(instance, n),
         \A d \in Dependencies(n) : Made(instance, d)
  PROVE  UniqueSlots => TaskFine(Filled(n))
<1> SUFFICES ASSUME UniqueSlots, NEW s \in DOMAIN draft.inputs[n], NEW k \in DOMAIN Filled(n)[s]
             PROVE  Fine(Filled(n)[s][k])
  BY DEF TaskFine, Filled, InputSlot
<1>1. Filled(n)[s] = IF Fed(n, s) THEN <<Given(n, s)[1]>> ELSE instance.contents[n][s]
  BY DEF Filled, InputSlot
<1>2. CASE Fed(n, s)
  <2>1. n \in Nodes
    BY DraftsAssumption DEF Counting, Countable, WellFormed
  <2>2. Inputs(Given(n, s)) /\ \A x \in ToSet(Given(n, s)) : Fine(x)
    BY <1>2, <2>1, GivenGood
  <2>3. 1 \in DOMAIN Given(n, s) /\ Given(n, s)[1] \in ToSet(Given(n, s))
    BY <2>2, SeqDomain DEF Inputs, Some
  <2> PICK x : x = Given(n, s)[1]
    OBVIOUS
  <2>4. Filled(n)[s] = <<x>> /\ k = 1
    BY <1>1, <1>2
  <2> QED
    BY <2>2, <2>3, <2>4
<1>3. CASE ~ Fed(n, s)
  <2>1. Filled(n)[s] = draft.inputs[n][s].contents
    BY <1>1, <1>3 DEF Kept
  <2> QED
    BY <2>1, OwnFine DEF Counting
<1> QED
  BY <1>2, <1>3

\* A sequence after one element.
LEMMA AfterOne ==
  ASSUME NEW a, NEW m \in Nat, NEW e, DOMAIN e = 1..m, IsSeq(e)
  PROVE  /\ Len(<<a>> \o e) = 1 + m /\ DOMAIN (<<a>> \o e) = 1..(1 + m)
         /\ (<<a>> \o e)[1] = a /\ \A i \in 1..m : (<<a>> \o e)[1 + i] = e[i]
<1> PICK V : V = ToSet(e) \cup {a}
  OBVIOUS
<1>1. \A i \in 1..m : e[i] \in V
  BY SeqDomain
<1>2. e = [i \in 1..m |-> e[i]]
  BY DEF IsSeq
<1>3. e \in Seq(V) /\ Len(e) = m /\ <<a>> \in Seq(V) /\ Len(<<a>>) = 1
  BY <1>1, <1>2
<1>4. Len(<<a>> \o e) = 1 + m /\ DOMAIN (<<a>> \o e) = 1..(1 + m)
  BY <1>3
<1>5. (<<a>> \o e)[1] = a /\ \A i \in 1..m : (<<a>> \o e)[1 + i] = e[i]
  BY <1>3
<1> QED
  BY <1>4, <1>5

\* The inputs of a sub node.
LEMMA SubNodeIs ==
  ASSUME Counting, NEW n \in ToSet(draft.nodes), rows[n] > 0, Kept(instance, n),
         \A d \in Dependencies(n) : Made(instance, d), NEW c, OfAll(c, n)
  PROVE  /\ UniqueSlots => TaskFine(SubNode(n, c))
         /\ SlotsOnce(n) => \A l \in 1..Len(Strategies(n)) :
              SubNode(n, c)[Strategies(n)[l].slot] = <<c[l][2]>>
<1> DEFINE At(s) == {i \in DOMAIN c : c[i][1] = s}
<1>1. n \in Nodes /\ IsSeq(Strategies(n))
  BY DraftsAssumption DEF Counting, Countable, WellFormed, Strategies
<1>2. /\ DOMAIN c = 1..Len(Strategies(n)) /\ Len(Strategies(n)) \in Nat
      /\ \A l \in 1..Len(Strategies(n)) :
           /\ c[l][1] = Strategies(n)[l].slot /\ c[l][2] \in ToSet(BatchInputs(n, Strategies(n)[l]))
           /\ Strategies(n)[l] \in ToSet(Strategies(n))
  BY <1>1, SeqDomain DEF OfAll
<1>3. ASSUME NEW s \in DOMAIN InputSlot(n), At(s) # {}
      PROVE  Max(At(s)) \in At(s) /\ SubNode(n, c)[s] = <<c[Max(At(s))][2]>>
  <2>1. At(s) \subseteq 0..Len(Strategies(n))
    BY <1>2
  <2>2. SubNode(n, c)[s] = <<c[Max(At(s))][2]>>
    BY <1>3 DEF SubNode
  <2> HIDE DEF At
  <2>3. Max(At(s)) \in At(s)
    BY <1>2, <1>3, <2>1, MaxIsGreatest
  <2> QED
    BY <2>2, <2>3
<1>4. ASSUME UniqueSlots, NEW s \in DOMAIN InputSlot(n), NEW k \in DOMAIN SubNode(n, c)[s]
      PROVE  Fine(SubNode(n, c)[s][k])
  <2>1. CASE At(s) # {}
    <3> PICK l \in 1..Len(Strategies(n)) : l = Max(At(s))
      BY <1>2, <1>3, <2>1
    <3> PICK x : x = c[l][2]
      OBVIOUS
    <3>1. SubNode(n, c)[s] = <<x>>
      BY <1>3, <2>1
    <3>2. Fine(x)
      BY <1>1, <1>2, RowsOfFactors, StrategyGives
    <3>3. k = 1
      BY <3>1
    <3> QED
      BY <3>1, <3>2, <3>3
  <2>2. CASE At(s) = {}
    <3>1. SubNode(n, c)[s] = instance.contents[n][s]
      BY <2>2 DEF SubNode
    <3>2. SubNode(n, c)[s] = draft.inputs[n][s].contents
      BY <3>1 DEF Kept, InputSlot
    <3> QED
      BY <1>4, <3>2, OwnFine DEF Counting, InputSlot
  <2> QED
    BY <2>1, <2>2
<1>5. ASSUME SlotsOnce(n), NEW l \in 1..Len(Strategies(n))
      PROVE  SubNode(n, c)[Strategies(n)[l].slot] = <<c[l][2]>>
  <2> PICK s : s = Strategies(n)[l].slot
    OBVIOUS
  <2>1. s \in DOMAIN InputSlot(n)
    BY <1>1, <1>2, StrategyGood DEF Counting, InputSlot
  <2>2. At(s) = {l}
    <3>1. DOMAIN Strategies(n) = 1..Len(Strategies(n))
      BY <1>1, SeqDomain
    <3> QED
      BY <1>2, <1>5, <3>1 DEF SlotsOnce
  <2>3. Max(At(s)) = l
    BY <1>3, <2>1, <2>2
  <2> QED
    BY <1>3, <2>1, <2>2, <2>3
<1>6. DOMAIN SubNode(n, c) = DOMAIN InputSlot(n)
  BY DEF SubNode
<1> QED
  BY <1>4, <1>5, <1>6 DEF TaskFine

\* A node that has rows is done.
LEMMA BatchDone ==
  ASSUME Counting, NEW n \in ToSet(draft.nodes), rows[n] > 0, Kept(instance, n),
         \A d \in Dependencies(n) : Made(instance, d)
  PROVE  /\ \E k \in 1..rows[n] :
              /\ FedOnce => k = rows[n]
              /\ Prepared(n) = [s \in DOMAIN OutputSlot(n) |-> [j \in 1..k |-> Out(n, s, j)]]
         /\ FedOnce => Len(Tasks(n)) = 1 + rows[n]
         /\ SlotsOnce(n) => \A i, j \in 2..Len(Tasks(n)) : i # j =>
                            \E s \in BatchSlots(n) : Tasks(n)[i][s] # Tasks(n)[j][s]
         /\ UniqueSlots => \A i \in DOMAIN Tasks(n) : TaskFine(Tasks(n)[i])
<1> DEFINE C == Combinations(n)
           M == Min({rows[n], Len(C)})
<1>1. /\ n \in Nodes /\ IsBatch(n) /\ IsSeq(Strategies(n)) /\ GivesInputs(n)
      /\ FedOnce => ProductOf(Lens(n)) = rows[n]
  BY DraftsAssumption, InputsCounted DEF Counting, Countable, WellFormed
<1>2. /\ C \in Apart(Pairs(n)) /\ Len(C) \in Some /\ (FedOnce => Len(C) = rows[n])
      /\ \A x \in ToSet(C) : OfAll(x, n)
  BY <1>1, CombinationsGood DEF IsBatch
<1>3. rows[n] \in Some
  BY <1>1, RowsCounted DEF Some
<1> HIDE DEF C
<1>4. /\ M \in 1..rows[n] /\ M \in 1..Len(C) /\ (FedOnce => M = rows[n])
      /\ (1..rows[n]) \cap DOMAIN C = 1..M
  <2> PICK a \in Nat \ {0} : a = rows[n]
    BY <1>3 DEF Some
  <2> PICK b \in Nat \ {0} : b = Len(C)
    BY <1>2 DEF Some
  <2>1. Min({a, b}) \in {a, b} /\ \A m \in {a, b} : Min({a, b}) <= m
    BY MinIsLeast
  <2>2. DOMAIN C = 1..Len(C)
    BY <1>2 DEF Apart
  <2>3. (1..a) \cap (1..b) = 1..Min({a, b})
    BY <2>1
  <2>4. M = Min({a, b})
    OBVIOUS
  <2>5. M \in 1..a /\ M \in 1..b /\ (FedOnce => M = a)
    BY <1>2, <2>1, <2>4
  <2>6. (1..a) \cap DOMAIN C = 1..M
    BY <2>2, <2>3, <2>4
  <2> HIDE DEF M
  <2> QED
    BY <2>5, <2>6
<1> HIDE DEF M
<1> PICK m \in Nat \ {0} : m = M
  BY <1>3, <1>4 DEF Some
<1> DEFINE e == [i \in 1..m |-> SubNode(n, C[i])]
<1>5. SubNodes(n) = e
  BY <1>4 DEF SubNodes, C
<1>6. IsSeq(e) /\ DOMAIN e = 1..m
  <2>1. e = [i \in 1..m |-> e[i]] /\ DOMAIN e = 1..m
    OBVIOUS
  <2>2. \A i \in 1..m : e[i] \in ToSet(e)
    BY DEF ToSet
  <2> HIDE DEF e
  <2> QED
    BY <2>1, <2>2 DEF IsSeq
<1>7. \A i \in 1..m : e[i] = SubNode(n, C[i])
  OBVIOUS
<1> HIDE DEF e
<1> PICK o : o = instance.contents[n]
  OBVIOUS
<1>8. Tasks(n) = <<o>> \o e
  BY <1>1, <1>5 DEF Tasks
<1>9. /\ Len(Tasks(n)) = 1 + m /\ DOMAIN Tasks(n) = 1..(1 + m)
      /\ Tasks(n)[1] = o /\ \A i \in 1..m : Tasks(n)[1 + i] = e[i]
  BY <1>6, <1>8, AfterOne
<1>10. C \in Seq(Seq(Pairs(n))) /\ Distinct(C) /\ \A i \in 1..m : i \in 1..Len(C) /\ C[i] \in ToSet(C)
  <2>1. C \in Seq(Seq(Pairs(n))) /\ Distinct(C)
    BY <1>2 DEF Apart
  <2>2. \A i \in 1..m : i \in 1..Len(C)
    BY <1>4, <2>1
  <2> QED
    BY <2>1, <2>2 DEF ToSet
<1>11. ASSUME NEW i \in 1..m
       PROVE  /\ UniqueSlots => TaskFine(e[i])
              /\ SlotsOnce(n) => \A l \in 1..Len(Strategies(n)) :
                   e[i][Strategies(n)[l].slot] = <<C[i][l][2]>>
  <2> PICK c : c = C[i]
    OBVIOUS
  <2>1. OfAll(c, n)
    BY <1>2, <1>10
  <2>2. /\ UniqueSlots => TaskFine(SubNode(n, c))
        /\ SlotsOnce(n) => \A l \in 1..Len(Strategies(n)) :
             SubNode(n, c)[Strategies(n)[l].slot] = <<c[l][2]>>
    BY <2>1, SubNodeIs
  <2>3. e[i] = SubNode(n, c)
    BY <1>7
  <2> QED
    BY <2>2, <2>3
<1>12. ASSUME SlotsOnce(n), NEW i \in 1..m, NEW j \in 1..m, i # j
       PROVE  \E s \in BatchSlots(n) : e[i][s] # e[j][s]
  <2> PICK x : x = C[i]
    OBVIOUS
  <2> PICK y : y = C[j]
    OBVIOUS
  <2>1. x # y /\ OfAll(x, n) /\ OfAll(y, n)
    BY <1>2, <1>10, <1>12 DEF Distinct
  <2>2. PICK l \in 1..Len(Strategies(n)) : x[l] # y[l]
    BY <2>1 DEF OfAll
  <2>3. x[l] \in Pairs(n) /\ y[l] \in Pairs(n) /\ x[l][1] = y[l][1]
    BY <2>1 DEF OfAll
  <2>4. x[l][2] # y[l][2]
    BY <2>2, <2>3 DEF Pairs
  <2>5. /\ e[i][Strategies(n)[l].slot] = <<x[l][2]>>
        /\ e[j][Strategies(n)[l].slot] = <<y[l][2]>>
    BY <1>11, <1>12
  <2>6. Strategies(n)[l].slot \in BatchSlots(n)
    <3>1. Strategies(n)[l] \in ToSet(Strategies(n))
      BY <1>1, SeqDomain
    <3> QED
      BY <3>1 DEF BatchSlots
  <2> QED
    BY <2>4, <2>5, <2>6
<1>13. ASSUME NEW i \in 2..(1 + m) PROVE \E a \in 1..m : i = 1 + a
  <2>1. i - 1 \in 1..m /\ i = 1 + (i - 1)
    OBVIOUS
  <2> QED
    BY <2>1
<1>14. ASSUME SlotsOnce(n), NEW i \in 2..Len(Tasks(n)), NEW j \in 2..Len(Tasks(n)), i # j
       PROVE  \E s \in BatchSlots(n) : Tasks(n)[i][s] # Tasks(n)[j][s]
  <2>1. i \in 2..(1 + m) /\ j \in 2..(1 + m)
    BY <1>9
  <2> PICK a \in 1..m : i = 1 + a
    BY <1>13, <2>1
  <2> PICK b \in 1..m : j = 1 + b
    BY <1>13, <2>1
  <2>2. Tasks(n)[i] = e[a] /\ Tasks(n)[j] = e[b] /\ a # b
    BY <1>9, <1>14
  <2> QED
    BY <1>12, <1>14, <2>2
<1>15. ASSUME UniqueSlots, NEW i \in DOMAIN Tasks(n) PROVE TaskFine(Tasks(n)[i])
  <2>1. i = 1 \/ i \in 2..(1 + m)
    BY <1>9
  <2>2. CASE i = 1
    BY <1>9, <1>15, <2>2, KeptFine DEF Counting
  <2>3. CASE i \in 2..(1 + m)
    <3> PICK a \in 1..m : i = 1 + a
      BY <1>13, <2>3
    <3> QED
      BY <1>9, <1>11, <1>15
  <2> QED
    BY <2>1, <2>2, <2>3
<1>16. Prepared(n) = [s \in DOMAIN OutputSlot(n) |-> [j \in 1..m |-> Out(n, s, j)]]
  <2>1. SubNodes(n) # <<>> /\ DOMAIN SubNodes(n) = 1..m
    BY <1>5, <1>6
  <2> QED
    BY <1>1, <2>1 DEF Prepared
<1> QED
  BY <1>4, <1>9, <1>14, <1>15, <1>16

\* A batch node without rows has its own task only, and keeps the output prepared.
LEMMA NoRows ==
  ASSUME NEW n, rows[n] = 0
  PROVE  /\ Prepared(n) = instance.prepared[n]
         /\ IsBatch(n) => Tasks(n) = <<instance.contents[n]>>
<1>1. (1..rows[n]) \cap DOMAIN Combinations(n) = {}
  OBVIOUS
<1>2. SubNodes(n) = <<>>
  BY <1>1 DEF SubNodes
<1> PICK o : o = instance.contents[n]
  OBVIOUS
<1>3. <<o>> \o <<>> = <<o>>
  OBVIOUS
<1> QED
  BY <1>2, <1>3 DEF Prepared, Tasks

-----------------------------------------------------------------------------
(***************************************************************************)
(* How far the batches of a draft have come.                               *)
(***************************************************************************)
CountInv ==
  /\ progress \in {"submitted", "failed"} => Counting
  /\ progress = "draft" => \A n \in Nodes : rows[n] = 0

\* An instance, saved or not yet, has what nothing changes.
Sound(i) ==
  \A n \in Nodes : /\ rows[n] = 0 => Made(i, n)
                   /\ IsBatch(n) \/ ~ Scheduled(n) => Kept(i, n)

SoundInv == Sound(instance) /\ \A copy \in copies : Sound(copy)

\* As long as no handler began before the one ahead of it had saved, every handler finds
\* what the nodes before its own have made.
SavedInv ==
  /\ \A c, d \in copies : c = d
  /\ copies = {} => \A n \in Nodes : Scheduled(n) => Made(instance, n)
  /\ \A copy \in copies : \A n \in Nodes : Scheduled(n) => Made(copy, n)
  /\ \A n \in Nodes : Scheduled(n) =>
       \A d \in Dependencies(n) : Scheduled(d) /\ Made(instance, d)

DoneInv == \A n \in Nodes : Scheduled(n) => Done(n)

BatchInv ==
  /\ CountInv /\ SoundInv
  /\ ~ overtaken => SavedInv /\ DoneInv

\* What batches depend on stays with the draft and the rows: the nodes before,
LEMMA SameDependencies ==
  ASSUME UNCHANGED draft
  PROVE  /\ \A n : Dependencies(n)' = Dependencies(n)
         /\ FedOnce' = FedOnce
         /\ \A n : BatchSlots(n)' = BatchSlots(n)
         /\ \A n : SlotsOnce(n)' = SlotsOnce(n)
<1>1. \A n : Dependencies(n)' = Dependencies(n)
  BY SameSlots DEF Dependencies
<1>2. FedOnce' = FedOnce
  <2>1. \A n, s : FeedingTo(n, s)' = FeedingTo(n, s)
    BY SameSlots DEF FeedingTo
  <2> QED
    BY <2>1, SameSlots DEF FedOnce
<1>3. \A n : BatchSlots(n)' = BatchSlots(n) /\ SlotsOnce(n)' = SlotsOnce(n)
  BY SameSlots DEF BatchSlots, SlotsOnce
<1> QED
  BY <1>1, <1>2, <1>3

\* ... what an instance holds of the outputs made,
LEMMA SameMade ==
  ASSUME UNCHANGED <<draft, rows>>
  PROVE  \A i, n : Made(i, n)' = Made(i, n)
<1>1. \A n : IsBatch(n)' = IsBatch(n) /\ OutputSlot(n)' = OutputSlot(n)
  BY SameSlots
<1>2. FedOnce' = FedOnce
  BY SameDependencies
<1> QED
  BY <1>1, <1>2 DEF Made

\* ... whether a task takes only outputs of sub nodes,
LEMMA SameFine ==
  ASSUME UNCHANGED <<draft, rows>>
  PROVE  \A t : TaskFine(t)' = TaskFine(t)
BY DEF TaskFine, Fine

\* ... and the counts.
LEMMA SameCounting ==
  ASSUME UNCHANGED <<draft, rows>>, Counting
  PROVE  Counting'
<1>1. Countable'
  BY SameValidation, SameCount DEF Counting, Countable
<1>2. \A n : IsBatch(n)' = IsBatch(n) /\ Strategies(n)' = Strategies(n)
  BY SameSlots
<1>3. Width' = Width
  BY <1>2 DEF Width
<1>4. \A n, s : FirstFeeding(n, s)' = FirstFeeding(n, s) /\ InputSlot(n)' = InputSlot(n)
  BY SameSlots DEF FirstFeeding, FeedingTo
<1>5. ASSUME NEW n PROVE Factors(n, Width)' = Factors(n, Width)
  <2>1. \A b : Factor(n, b, Width)' = Factor(n, b, Width)
    BY <1>3, <1>4 DEF Factor
  <2> QED
    BY <1>2, <2>1 DEF Factors
<1>6. CountedBy(Width)'
  <2>1. Width' \in [Nodes -> Nat]
    BY <1>3 DEF Counting, CountedBy
  <2>2. ASSUME NEW n \in Nodes PROVE CountsAt(n, Width)'
    <3>1. Width[n] = ProductOf(Factors(n, Width))
      BY DEF Counting, CountedBy, CountsAt
    <3>2. Width'[n] = ProductOf(Factors(n, Width)')
      BY <1>3, <1>5, <3>1
    <3> QED
      BY <3>2 DEF CountsAt
  <2>3. \A n \in Nodes : ~ IsBatch(n)' => Width'[n] = 1
    BY <1>2, <1>3 DEF Counting, CountedBy
  <2> QED
    BY <2>1, <2>2, <2>3 DEF CountedBy
<1>7. \A n \in Nodes : ~ IsBatch(n)' => rows'[n] = 0
  BY <1>2 DEF Counting
<1> QED
  BY <1>1, <1>6, <1>7 DEF Counting

\* The tasks of a node that is not scheduled now stay as they are.
LEMMA SameDone ==
  ASSUME UNCHANGED <<draft, rows>>, NEW n, tasks'[n] = tasks[n], Done(n)
  PROVE  Done(n)'
<1>1. /\ IsBatch(n)' = IsBatch(n) /\ FedOnce' = FedOnce /\ SlotsOnce(n)' = SlotsOnce(n)
      /\ BatchSlots(n)' = BatchSlots(n) /\ UniqueSlots' = UniqueSlots
      /\ \A t : TaskFine(t)' = TaskFine(t)
  BY SameSlots, SameDependencies, SameUnique, SameFine
<1> QED
  BY <1>1 DEF Done

\* The rows of a submitted draft are counted.
LEMMA SubmitCounts ==
  ASSUME Countable, UNCHANGED draft, rows' = SubNodeCount
  PROVE  Counting'
<1> DEFINE f == CHOOSE g : IsCount(g)
<1>1. IsCount(f)
  BY CountExists, Zenon
<1>2. SubNodeCount = [n \in Nodes |-> IF IsBatch(n) THEN f[n] ELSE 0]
  BY Zenon DEF SubNodeCount, IsCount
<1> HIDE DEF f
<1>3. CountedBy(f)
  BY <1>1, CountIs
<1>4. \A n : IsBatch(n)' = IsBatch(n) /\ Strategies(n)' = Strategies(n)
  BY SameSlots
<1>5. Width' = f
  <2>1. Width' = [n \in Nodes |-> IF IsBatch(n)' THEN rows'[n] ELSE 1]
    BY DEF Width
  <2>2. \A n \in Nodes : (IF IsBatch(n)' THEN rows'[n] ELSE 1) = f[n]
    BY <1>2, <1>3, <1>4 DEF CountedBy
  <2>3. f = [n \in Nodes |-> f[n]]
    BY <1>3 DEF CountedBy
  <2> QED
    BY <2>1, <2>2, <2>3
<1>6. \A n, s : FirstFeeding(n, s)' = FirstFeeding(n, s) /\ InputSlot(n)' = InputSlot(n)
  BY SameSlots DEF FirstFeeding, FeedingTo
<1>7. ASSUME NEW n PROVE Factors(n, Width)' = Factors(n, f)
  <2>1. \A b : Factor(n, b, Width)' = Factor(n, b, f)
    BY <1>5, <1>6 DEF Factor
  <2> QED
    BY <1>4, <2>1 DEF Factors
<1>8. CountedBy(Width)'
  <2>1. ASSUME NEW n \in Nodes PROVE CountsAt(n, Width)'
    <3>1. f[n] = ProductOf(Factors(n, f))
      BY <1>3 DEF CountedBy, CountsAt
    <3>2. Width'[n] = ProductOf(Factors(n, Width)')
      BY <1>5, <1>7, <3>1
    <3> QED
      BY <3>2 DEF CountsAt
  <2> QED
    BY <1>3, <1>4, <1>5, <2>1 DEF CountedBy
<1>9. Countable'
  BY SameValidation, SameCount DEF Countable
<1>10. \A n \in Nodes : ~ IsBatch(n)' => rows'[n] = 0
  BY <1>2, <1>4
<1> QED
  BY <1>8, <1>9, <1>10 DEF Counting

\* A new draft has no rows, no copies and no tasks.
LEMMA BatchStarts == DraftInit => BatchInv
<1> SUFFICES ASSUME DraftInit PROVE BatchInv
  OBVIOUS
<1>1. progress = "draft" /\ copies = {} /\ \A n \in Nodes : ~ Scheduled(n)
  BY DEF DraftInit, Scheduled
<1>2. Sound(instance)
  BY DEF DraftInit, Sound, Made, Kept, OutputSlot
<1>3. \A n \in Nodes : rows[n] = 0
  BY DEF DraftInit
<1> QED
  BY <1>1, <1>2, <1>3 DEF BatchInv, CountInv, SoundInv, SavedInv, DoneInv

\* Nothing changes for the tasks sent when neither they nor the rows do.
LEMMA SameSound ==
  ASSUME UNCHANGED <<draft, rows, tasks>>
  PROVE  \A i : Sound(i)' = Sound(i)
<1>1. \A n : /\ Scheduled(n)' = Scheduled(n) /\ IsBatch(n)' = IsBatch(n)
             /\ \A i : Made(i, n)' = Made(i, n) /\ Kept(i, n)' = Kept(i, n)
  BY SameSlots, SameMade DEF Scheduled, Kept
<1> QED
  BY <1>1 DEF Sound

\* What tasks were given stays with them,
LEMMA SameDoneInv ==
  ASSUME UNCHANGED <<draft, rows, tasks>>, DoneInv
  PROVE  DoneInv'
<1>1. \A n : Scheduled(n)' = Scheduled(n)
  BY DEF Scheduled
<1>2. \A n \in Nodes : Done(n) => Done(n)'
  BY SameDone
<1> QED
  BY <1>1, <1>2 DEF DoneInv

\* ... what is saved with the instances,
LEMMA SameSaved ==
  ASSUME UNCHANGED <<draft, rows, tasks, instance, copies>>, SavedInv
  PROVE  SavedInv'
<1>1. \A n : /\ Scheduled(n)' = Scheduled(n) /\ Dependencies(n)' = Dependencies(n)
             /\ \A i : Made(i, n)' = Made(i, n)
  BY SameMade, SameDependencies DEF Scheduled
<1>2. \A n : Made(instance, n)' = Made(instance, n)
  BY <1>1
<1> QED
  BY <1>1, <1>2 DEF SavedInv

\* ... and so all that is known of the batches.
LEMMA SameBatch ==
  ASSUME UNCHANGED <<draft, rows, tasks, instance, copies, overtaken>>, BatchInv,
         progress' \in {"submitted", "failed"} => progress \in {"submitted", "failed"},
         progress' = "draft" => progress = "draft"
  PROVE  BatchInv'
<1>1. CountInv'
  BY SameCounting DEF BatchInv, CountInv
<1>2. SoundInv'
  BY SameSound DEF BatchInv, SoundInv
<1> QED
  BY <1>1, <1>2, SameSaved, SameDoneInv DEF BatchInv

\* The submission counts the sub nodes; there are no tasks yet.
LEMMA BatchSubmit ==
  ASSUME DraftInv, BatchInv, Submit
  PROVE  BatchInv'
<1>1. /\ UNCHANGED <<draft, instance, copies, tasks, overtaken>> /\ progress = "draft"
      /\ \A n \in Nodes : ~ Scheduled(n)
  BY DEF Submit, DraftInv, TasksInv
<1>2. \/ UNCHANGED rows /\ progress' \notin {"submitted", "failed"}
      \/ /\ DraftValidation = "ok" /\ ~ CountPanics /\ rows' = SubNodeCount
         /\ progress' = "submitted"
  BY DEF Submit
<1>3. CASE UNCHANGED rows /\ progress' \notin {"submitted", "failed"}
  BY <1>1, <1>3, SameBatch
<1>4. CASE /\ DraftValidation = "ok" /\ ~ CountPanics /\ rows' = SubNodeCount
           /\ progress' = "submitted"
  <2>1. Countable
    BY <1>4 DEF Countable, DraftInv
  <2>2. Counting'
    BY <1>1, <1>4, <2>1, SubmitCounts
  <2>3. \A n : /\ Scheduled(n)' = Scheduled(n) /\ IsBatch(n)' = IsBatch(n)
               /\ OutputSlot(n)' = OutputSlot(n)
    BY <1>1, SameSlots DEF Scheduled
  <2>0. \A n \in Nodes : rows[n] = 0
    BY <1>1 DEF BatchInv, CountInv
  <2>4. \A i : Sound(i) => Sound(i)'
    BY <1>1, <2>0, <2>3 DEF Sound, Made, Kept
  <2>5. SoundInv'
    BY <1>1, <2>4 DEF BatchInv, SoundInv
  <2>6. \A n \in Nodes : ~ Scheduled(n)'
    BY <1>1, <2>3
  <2>7. ~ overtaken => \A c, d \in copies : c = d
    BY DEF BatchInv, SavedInv
  <2> QED
    BY <1>1, <1>4, <2>2, <2>5, <2>6, <2>7 DEF BatchInv, CountInv, SavedInv, DoneInv
<1> QED
  BY <1>2, <1>3, <1>4

\* The instance of a handler that saves has what was sent so far.
LEMMA BatchSave ==
  ASSUME DraftInv, BatchInv, SaveInstance
  PROVE  BatchInv'
<1>1. UNCHANGED <<draft, progress, rows, tasks, overtaken>>
  BY DEF SaveInstance
<1> PICK copy \in copies : instance' = copy /\ copies' = copies \ {copy}
  BY DEF SaveInstance
<1>2. CountInv'
  BY <1>1, SameCounting DEF BatchInv, CountInv
<1>3. SoundInv'
  <2>1. \A i : Sound(i)' = Sound(i)
    BY <1>1, SameSound
  <2> QED
    BY <2>1 DEF BatchInv, SoundInv
<1>4. ASSUME ~ overtaken PROVE SavedInv'
  <2>1. SavedInv
    BY <1>4 DEF BatchInv
  <2>2. copies' = {}
    BY <2>1 DEF SavedInv
  <2>3. \A n : /\ Scheduled(n)' = Scheduled(n) /\ Dependencies(n)' = Dependencies(n)
               /\ \A i : Made(i, n)' = Made(i, n)
    BY <1>1, SameMade, SameDependencies DEF Scheduled
  <2>4. \A n \in Nodes : Scheduled(n) => Made(copy, n)
    BY <2>1 DEF SavedInv
  <2>5. \A n : Made(instance, n)' = Made(copy, n)
    BY <2>3
  <2>6. ASSUME NEW n \in Nodes, Scheduled(n), NEW d \in Dependencies(n)
        PROVE  Scheduled(d) /\ Made(copy, d)
    <3>1. Scheduled(d)
      BY <2>1, <2>6 DEF SavedInv
    <3>2. d \in Nodes
      <4>1. Countable
        BY <2>6 DEF DraftInv, TasksInv, BatchInv, CountInv, Counting
      <4> QED
        BY <4>1, Before
    <3> QED
      BY <2>4, <3>1, <3>2
  <2> QED
    BY <2>2, <2>3, <2>4, <2>5, <2>6 DEF SavedInv
<1>5. ~ overtaken => DoneInv'
  BY <1>1, SameDoneInv DEF BatchInv
<1> QED
  BY <1>1, <1>2, <1>3, <1>4, <1>5 DEF BatchInv

\* The tasks of the entry nodes are those of what the nodes before them have saved.
LEMMA BatchSchedule ==
  ASSUME DraftInv, BatchInv, Schedule
  PROVE  BatchInv'
<1> PICK sent :
       sent = [contents |-> [n \in Nodes |-> IF n \in Entry /\ ~ IsBatch(n) THEN Filled(n)
                                             ELSE instance.contents[n]],
               prepared |-> [n \in Nodes |-> IF n \in Entry THEN Prepared(n)
                                             ELSE instance.prepared[n]]]
  OBVIOUS
<1>1. /\ UNCHANGED <<draft, progress, instance, rows>> /\ progress = "submitted"
      /\ overtaken' = (overtaken \/ copies # {})
  BY DEF Schedule
<1>2. copies' = copies \cup {sent}
  BY DEF Schedule
<1>3. Counting /\ Counting' /\ CountInv'
  BY <1>1, SameCounting DEF BatchInv, CountInv, DraftInv
<1>4. \A n \in Nodes : tasks'[n] = IF n \in Entry THEN Tasks(n) ELSE tasks[n]
  BY DEF Schedule
<1>5. Sound(instance) /\ \A copy \in copies : Sound(copy)
  BY DEF BatchInv, SoundInv
<1>6. \A n \in Nodes :
        /\ n \in Entry => ~ Scheduled(n) /\ n \in ToSet(draft.nodes) /\ Kept(instance, n)
                          /\ \A d \in Dependencies(n) : Scheduled(d)
        /\ Scheduled(n) => n \notin Entry
  BY <1>5 DEF Entry, Sound
<1>7. \A n \in Nodes : n \in Entry /\ ~ IsBatch(n) => Tasks(n) # <<>>
  BY DEF Tasks
<1>8. \A n \in Nodes : /\ Scheduled(n)' => Scheduled(n) \/ n \in Entry
                       /\ Scheduled(n) => Scheduled(n)'
                       /\ n \in Entry /\ ~ IsBatch(n) => Scheduled(n)'
  BY <1>4, <1>6, <1>7 DEF Scheduled
<1>9. \A n : /\ IsBatch(n)' = IsBatch(n) /\ Dependencies(n)' = Dependencies(n)
             /\ \A i : Made(i, n)' = Made(i, n) /\ Kept(i, n)' = Kept(i, n)
  BY <1>1, SameSlots, SameMade, SameDependencies DEF Kept
<1>10. \A n \in Nodes : sent.contents[n] = IF n \in Entry /\ ~ IsBatch(n) THEN Filled(n)
                                           ELSE instance.contents[n]
  OBVIOUS
<1>11. \A n \in Nodes : sent.prepared[n] = IF n \in Entry THEN Prepared(n) ELSE instance.prepared[n]
  OBVIOUS
<1>12. SoundInv'
  <2>1. \A i : Sound(i) => Sound(i)'
    BY <1>1, <1>8, <1>9 DEF Sound
  <2>2. ASSUME NEW n \in Nodes, rows[n] = 0 PROVE Made(sent, n)
    <3>1. Prepared(n) = instance.prepared[n]
      BY <2>2, NoRows
    <3>2. sent.prepared[n] = instance.prepared[n]
      BY <1>11, <3>1
    <3> QED
      BY <1>5, <2>2, <3>2 DEF Sound, Made
  <2>3. ASSUME NEW n \in Nodes, IsBatch(n) \/ ~ Scheduled(n)' PROVE Kept(sent, n)
    <3>1. sent.contents[n] = instance.contents[n]
      BY <1>8, <1>10, <2>3
    <3> QED
      BY <1>5, <1>8, <2>3, <3>1 DEF Sound, Kept
  <2>4. Sound(sent)'
    BY <1>1, <1>9, <2>2, <2>3 DEF Sound
  <2> QED
    BY <1>1, <1>2, <1>5, <2>1, <2>4 DEF SoundInv
<1>13. ASSUME ~ overtaken' PROVE SavedInv' /\ DoneInv'
  <2>1. copies = {} /\ SavedInv /\ DoneInv /\ copies' = {sent}
    BY <1>1, <1>2, <1>13 DEF BatchInv
  <2>2. \A n \in Nodes : Scheduled(n) => Made(instance, n)
    BY <2>1 DEF SavedInv
  <2>3. ASSUME NEW n \in Nodes, n \in Entry
        PROVE  /\ \A d \in Dependencies(n) : Scheduled(d) /\ d \in Nodes /\ Made(instance, d)
               /\ Made(sent, n) /\ Done(n)'
    <3>1. \A d \in Dependencies(n) : d \in Nodes
      BY <1>3, Before DEF Counting
    <3>2. \A d \in Dependencies(n) : Scheduled(d) /\ d \in Nodes /\ Made(instance, d)
      BY <1>6, <2>2, <2>3, <3>1
    <3>3. n \in ToSet(draft.nodes) /\ Kept(instance, n)
      BY <1>6, <2>3
    <3>4. /\ tasks'[n] = Tasks(n) /\ IsBatch(n)' = IsBatch(n) /\ FedOnce' = FedOnce
          /\ SlotsOnce(n)' = SlotsOnce(n) /\ BatchSlots(n)' = BatchSlots(n)
          /\ UniqueSlots' = UniqueSlots /\ \A t : TaskFine(t)' = TaskFine(t)
      BY <1>1, <1>4, <2>3, SameSlots, SameDependencies, SameUnique, SameFine
    <3>7. rows[n] \in Nat /\ (~ IsBatch(n) => rows[n] = 0)
      BY <1>3, RowsCounted
    <3>5. CASE rows[n] > 0
      <4>1. /\ \E k \in 1..rows[n] :
                 /\ FedOnce => k = rows[n]
                 /\ Prepared(n) = [s \in DOMAIN OutputSlot(n) |-> [j \in 1..k |-> Out(n, s, j)]]
            /\ FedOnce => Len(Tasks(n)) = 1 + rows[n]
            /\ SlotsOnce(n) => \A i, j \in 2..Len(Tasks(n)) : i # j =>
                               \E s \in BatchSlots(n) : Tasks(n)[i][s] # Tasks(n)[j][s]
            /\ UniqueSlots => \A i \in DOMAIN Tasks(n) : TaskFine(Tasks(n)[i])
        BY <1>3, <3>2, <3>3, <3>5, BatchDone
      <4>2. Made(sent, n)
        BY <1>11, <2>3, <3>5, <4>1 DEF Made
      <4>3. Done(n)'
        BY <1>1, <3>4, <4>1 DEF Done
      <4> QED
        BY <3>2, <4>2, <4>3
    <3>6. CASE rows[n] = 0
      <4>1. PICK t : Tasks(n) = <<t>> /\ (UniqueSlots => TaskFine(t))
        <5>1. CASE IsBatch(n)
          <6>1. UniqueSlots => TaskFine(instance.contents[n])
            BY <1>3, <3>3, KeptFine DEF Counting
          <6> QED
            BY <3>6, <5>1, <6>1, NoRows
        <5>2. CASE ~ IsBatch(n)
          <6>1. UniqueSlots => TaskFine(Filled(n))
            BY <1>3, <3>2, <3>3, <5>2, PlainDone
          <6> QED
            BY <5>2, <6>1 DEF Tasks
        <5> QED
          BY <5>1, <5>2
      <4>2. DOMAIN <<t>> = 1..1 /\ <<t>>[1] = t /\ Len(<<t>>) = 1
        OBVIOUS
      <4>3. Done(n)'
        BY <1>1, <3>4, <3>6, <4>1, <4>2 DEF Done
      <4>4. Made(sent, n)
        <5>1. sent.prepared[n] = instance.prepared[n]
          BY <1>11, <3>6, NoRows
        <5> QED
          BY <1>5, <3>6, <5>1 DEF Sound, Made
      <4> QED
        BY <3>2, <4>3, <4>4
    <3> QED
      BY <3>5, <3>6, <3>7
  <2>4. ASSUME NEW n \in Nodes, Scheduled(n), n \notin Entry
        PROVE  Made(sent, n) /\ Done(n)' /\ \A d \in Dependencies(n) : Scheduled(d) /\ Made(instance, d)
    <3>1. sent.prepared[n] = instance.prepared[n]
      BY <1>11, <2>4
    <3>2. Made(sent, n)
      BY <2>2, <2>4, <3>1 DEF Made
    <3>3. Done(n)'
      <4>1. tasks'[n] = tasks[n] /\ Done(n)
        BY <1>4, <2>1, <2>4 DEF DoneInv
      <4> QED
        BY <1>1, <4>1, SameDone
    <3> QED
      BY <2>1, <2>4, <3>2, <3>3 DEF SavedInv
  <2>5. ASSUME NEW n \in Nodes, Scheduled(n)'
        PROVE  /\ Made(sent, n) /\ Done(n)'
               /\ \A d \in Dependencies(n) : Scheduled(d) /\ Made(instance, d)
    BY <1>6, <1>8, <2>3, <2>4, <2>5
  <2>6. \A n \in Nodes : \A d \in Dependencies(n) : d \in Nodes
    BY <1>3, Before DEF Counting
  <2>7. \A n : Made(instance, n)' = Made(instance, n)
    BY <1>1, <1>9
  <2>8. SavedInv'
    BY <1>8, <1>9, <2>1, <2>5, <2>6, <2>7 DEF SavedInv
  <2>9. DoneInv'
    BY <2>5 DEF DoneInv
  <2> QED
    BY <2>8, <2>9
<1> QED
  BY <1>3, <1>12, <1>13 DEF BatchInv

\* Submission, scheduling, a panic and the save of an instance keep BatchInv.
LEMMA BatchGoesOn == DraftInv /\ BatchInv /\ [DraftNext]_draftVars => BatchInv'
<1> SUFFICES ASSUME DraftInv, BatchInv, [DraftNext]_draftVars PROVE BatchInv'
  OBVIOUS
<1>1. CASE Submit
  BY <1>1, BatchSubmit
<1>2. CASE Schedule
  BY <1>2, BatchSchedule
<1>3. CASE SchedulePanics
  <2>1. /\ UNCHANGED <<draft, instance, copies, tasks, rows, overtaken>> /\ progress = "submitted"
        /\ progress' = "failed"
    BY <1>3 DEF SchedulePanics
  <2> QED
    BY <2>1, SameBatch
<1>4. CASE SaveInstance
  BY <1>4, BatchSave
<1>5. CASE UNCHANGED draftVars
  <2>1. UNCHANGED <<draft, instance, copies, tasks, rows, overtaken, progress>>
    BY <1>5 DEF draftVars
  <2> QED
    BY <2>1, SameBatch
<1> QED
  BY <1>1, <1>2, <1>3, <1>4, <1>5 DEF DraftNext

\* What the invariant says of the rows and the tasks.
LEMMA BatchRows == DraftInv /\ BatchInv => RowsMatchTasks
<1> SUFFICES ASSUME DraftInv, BatchInv, FedOnce, ~ overtaken, NEW n \in Nodes, Scheduled(n), IsBatch(n)
             PROVE  Len(tasks[n]) = 1 + rows[n] /\ (rows[n] > 0 => rows[n] = ProductOf(Lens(n)))
  BY DEF RowsMatchTasks, Lens
<1>1. Counting
  BY DEF DraftInv, TasksInv, BatchInv, CountInv
<1>2. SavedInv /\ DoneInv
  BY DEF BatchInv
<1>3. Len(tasks[n]) = 1 + rows[n]
  BY <1>2 DEF DoneInv, Done
<1>4. \A d \in Dependencies(n) : Made(instance, d)
  BY <1>2 DEF SavedInv
<1>5. rows[n] > 0 => rows[n] = ProductOf(Lens(n))
  BY <1>1, <1>4, InputsCounted
<1> QED
  BY <1>3, <1>5

\* The tasks of the sub nodes differ,
LEMMA BatchDiffers == BatchInv => EveryCombination
BY DEF BatchInv, DoneInv, Done, EveryCombination

\* ... and what they take of batch nodes is of their sub nodes.
LEMMA BatchTakes == DraftInv /\ BatchInv => SubOutputsTaken
<1> SUFFICES ASSUME BatchInv, UniqueSlots, ~ overtaken, NEW n \in Nodes, NEW i \in DOMAIN tasks[n],
                    NEW s \in DOMAIN tasks[n][i], NEW k \in DOMAIN tasks[n][i][s]
             PROVE  Fine(tasks[n][i][s][k])
  BY DEF SubOutputsTaken, Fine
<1>1. Scheduled(n)
  <2>1. DOMAIN <<>> = {}
    OBVIOUS
  <2> QED
    BY <2>1 DEF Scheduled
<1>2. Done(n)
  BY <1>1 DEF BatchInv, DoneInv
<1> QED
  BY <1>2 DEF Done, TaskFine

\* The invariant holds of any drafts.
LEMMA BatchAlways == DraftSpec => [](DraftInv /\ BatchInv)
<1>1. DraftInit => DraftInv /\ BatchInv
  BY DraftStarts, BatchStarts
<1>2. DraftInv /\ BatchInv /\ [DraftNext]_draftVars => (DraftInv /\ BatchInv)'
  BY DraftGoesOn, BatchGoesOn
<1> QED
  BY <1>1, <1>2, PTL DEF DraftSpec

\* Of any drafts whose slots are fed once, and as long as every handler reads what the one
\* ahead has saved: a batch node gets a task for each of its rows, and if it has rows they
\* are as many as its combinations.  So the sub nodes that sub_node_count counts at the
\* submission are those that sub_nodes makes at the scheduling.
THEOREM RowsMatchTasksAlways == DraftSpec => []RowsMatchTasks
<1>1. DraftInv /\ BatchInv => RowsMatchTasks
  BY BatchRows
<1> QED
  BY <1>1, BatchAlways, PTL

\* Under the same conditions no two tasks of the sub nodes of a node are given the same
\* (sub_nodes, parse_sub_nodes), provided no slot of that node has two strategies.
THEOREM EveryCombinationAlways == DraftSpec => []EveryCombination
<1>1. DraftInv /\ BatchInv => EveryCombination
  BY BatchDiffers
<1> QED
  BY <1>1, BatchAlways, PTL

\* As long as every handler reads what the one ahead has saved, and of drafts whose nodes
\* share no descriptor: what a node takes from a node that has sub nodes is an output of
\* those (the clear at the first sub node).
THEOREM SubOutputsTakenAlways == DraftSpec => []SubOutputsTaken
<1>1. DraftInv /\ BatchInv => SubOutputsTaken
  BY BatchTakes
<1> QED
  BY <1>1, BatchAlways, PTL
===============================================================================
