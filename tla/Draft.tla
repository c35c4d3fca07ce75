-------------------------------- MODULE Draft --------------------------------
(***************************************************************************)
(* From a workflow draft to the tasks of its nodes: the draft is validated *)
(* (validate_related_nodes, validate_per_node), turned into a workflow     *)
(* instance with its rows of batch sub nodes (parse_node_instances), and   *)
(* then scheduled node by node, which fills the inputs a node takes from   *)
(* others and takes a batch node apart (debatch, get_batch_inputs,         *)
(* sub_nodes).  WorkflowEngine models when a node is released; here it is  *)
(* what the node is given.                                                 *)
(*                                                                         *)
(* A slot is known by its descriptor, which is unique within a node but    *)
(* not within a draft: two nodes of one use case have the same slots.      *)
(***************************************************************************)
EXTENDS Integers, Sequences, FiniteSets, SequencesExt, FiniteSetsExt, Outcome

CONSTANTS
  Nodes,        \* ids of nodes
  Slots,        \* descriptors of slots, in the order every node has them
  Drafts,       \* the drafts users submit
  WordMax       \* the largest usize: 2 ^ 64 - 1 in the build, any bound above the counts here

\* A draft is a record: nodes, a sequence; inputs, for each node its slots by descriptor
\* (kind, contents, optional, and whether its files are uploaded); outputs, the kinds of
\* its output slots by descriptor; batches, its strategies in order (slot, kind, count,
\* and whether a rename pattern is given); clusters, how many it may run on (Auto: all);
\* relations, a sequence of [from, to, slots], slots a sequence of [from, to].  What a
\* user gives is no output of a node.
WellFormed(d) ==
  /\ IsSeq(d.nodes) /\ ToSet(d.nodes) \subseteq Nodes
  /\ IsSeq(d.relations) /\ \A r \in ToSet(d.relations) : IsSeq(r.slots)
  /\ \A n \in Nodes :
       /\ IsSeq(d.batches[n]) /\ (n \notin ToSet(d.nodes) => d.batches[n] = <<>>)
       /\ \A b \in ToSet(d.batches[n]) :
            /\ b.kind \in {"OriginalBatch", "MatchRegex", "FromBatchOutputs"}
            /\ b.kind = "MatchRegex" => b.count \in Nat
       /\ DOMAIN d.inputs[n] \subseteq ToSet(Slots)
       /\ \A s \in DOMAIN d.inputs[n] :
            LET contents == d.inputs[n][s].contents IN
            contents # NoContents =>
              /\ IsSeq(contents) /\ Len(contents) < WordMax
              /\ \A input \in ToSet(contents) : input[1] # "out"

\* Of any nodes some take nothing from the others: the code does not look for cycles,
\* and counts the sub nodes of one without an end.
Acyclic(d) ==
  \A S \in SUBSET Nodes : S # {} =>
    \E n \in S : \A r \in ToSet(d.relations) : r.to = n => r.from \notin S

ASSUME DraftsAssumption ==
  /\ IsFiniteSet(Nodes) /\ IsSeq(Slots) /\ WordMax \in Nat
  /\ \A d \in Drafts : WellFormed(d) /\ Acyclic(d)

VARIABLES
  draft,        \* the draft
  progress,     \* "draft", "rejected", "panicked", "submitted" or "failed"
  instance,     \* the saved instance: the contents of every input slot, and the ids
                \* prepared for every output slot
  copies,       \* the instances held by handlers that sent their tasks and have not saved
  rows,         \* how many sub nodes each node has in the table
  tasks,        \* the tasks sent for each node, <<>> for a node not scheduled yet
  overtaken     \* whether a handler began before the one ahead of it had saved

draftVars == <<draft, progress, instance, copies, rows, tasks, overtaken>>

InputSlot(n) == draft.inputs[n]
OutputSlot(n) == draft.outputs[n]
Strategies(n) == draft.batches[n]
IsNode(n) == n \in ToSet(draft.nodes)

-----------------------------------------------------------------------------
(***************************************************************************)
(* validate_related_nodes and validate_per_node.                           *)
(***************************************************************************)
Count(slot) == Len(slot.contents)

SlotRelation(r, sr) ==
  LET from == OutputSlot(r.from)
      to == InputSlot(r.to)
  IN CASE sr.from \notin DOMAIN from \/ sr.to \notin DOMAIN to -> "error"
       [] to[sr.to].contents = NoContents -> "panic"
       [] Count(to[sr.to]) # 0 -> "error"
       [] from[sr.from] # to[sr.to].kind -> "error"
       [] OTHER -> "ok"

Relation(r) ==
  IF ~ (IsNode(r.from) /\ IsNode(r.to)) THEN "error"
  ELSE Check(r.slots, LAMBDA sr : SlotRelation(r, sr))

\* The descriptors of the slots that take their input from a node, without the node.
ReliedInputSlots == {sr.to : sr \in UNION {ToSet(r.slots) : r \in ToSet(draft.relations)}}

InputSlotOutcome(n, s) ==
  LET slot == InputSlot(n)[s] IN
  CASE s \notin ReliedInputSlots /\ slot.contents = NoContents -> "panic"
    [] s \notin ReliedInputSlots /\ Count(slot) < 1 /\ ~ slot.optional -> "error"
    [] slot.kind = "File" /\ slot.contents = NoContents -> "panic"
    [] slot.kind = "File" /\ Count(slot) > 0 /\ ~ slot.uploaded -> "error"
    [] OTHER -> "ok"

InputOutcome(n, s) == IF s \in DOMAIN InputSlot(n) THEN InputSlotOutcome(n, s) ELSE "ok"

\* Rust's ! on a usize turns every bit over.
Not(count) == WordMax - count

\* The places of the relations that feed a slot of this name, of whatever node.
Feeding(s) == {i \in DOMAIN draft.relations : \E sr \in ToSet(draft.relations[i].slots) : sr.to = s}
FromSlot(r, s) == r.slots[Min({i \in DOMAIN r.slots : r.slots[i].to = s})].from

FromBatchOutputs(s) ==
  IF Feeding(s) = {} THEN "error"
  ELSE LET r == draft.relations[Min(Feeding(s))] IN
       ErrorUnless(\E b \in ToSet(Strategies(r.from)) : b.slot = FromSlot(r, s))

Strategy(n, b) ==
  LET slot == InputSlot(n)[b.slot] IN
  IF \/ b.slot \notin DOMAIN InputSlot(n)
     \/ b.kind # "FromBatchOutputs" /\ slot.contents = NoContents
  THEN "panic"
  ELSE CASE b.kind = "MatchRegex" -> ErrorUnless(Count(slot) = 1)
         [] b.kind = "OriginalBatch" -> ErrorUnless(~ (Not(Count(slot)) >= 1))
         [] OTHER -> FromBatchOutputs(b.slot)

\* A mutant: the strategies are not looked at.
NodeInputs(n) == Check(Slots, LAMBDA s : InputOutcome(n, s))

Node(n) ==
  FirstBad(<<Check(Slots, LAMBDA s : InputOutcome(n, s)),
             ErrorUnless(draft.clusters[n] > 0),
             Check(Strategies(n), LAMBDA b : Strategy(n, b))>>)

DraftValidation == FirstBad(<<Check(draft.relations, Relation), Check(draft.nodes, Node)>>)

-----------------------------------------------------------------------------
(***************************************************************************)
(* Submission: the instance with its prepared outputs, and the rows.       *)
(***************************************************************************)
RelationsTo(n) == {i \in DOMAIN draft.relations : draft.relations[i].to = n}
Dependencies(n) == {draft.relations[i].from : i \in RelationsTo(n)}
FeedingTo(n, s) == RelationsTo(n) \cap Feeding(s)
Fed(n, s) == FeedingTo(n, s) # {}

\* The first of the relations that feed a slot.
FirstFeeding(n, s) == draft.relations[Min(FeedingTo(n, s))]

IsBatch(n) == Strategies(n) # <<>>

\* A mutant: the sub nodes of every strategy added up.
SubNodeSum ==
  LET count[n \in Nodes] ==
        FoldLeft(LAMBDA acc, b : acc + (IF b.kind = "MatchRegex" THEN b.count ELSE 1),
                 0, Strategies(n))
  IN [n \in Nodes |-> count[n]]

\* How many sub nodes a strategy makes of one, from the counts of the nodes before.
Factor(n, b, count) ==
  CASE b.kind = "OriginalBatch" -> Count(InputSlot(n)[b.slot])
    [] b.kind = "MatchRegex" -> b.count
    [] OTHER -> count[FirstFeeding(n, b.slot).from]

ProductOf(factors) == FoldLeft(LAMBDA acc, k : acc * k, 1, factors)

\* sub_node_count; a strategy without the relation it needs is an unwrap of None.
SubNodeCount ==
  LET count[n \in Nodes] ==
        ProductOf([i \in DOMAIN Strategies(n) |-> Factor(n, Strategies(n)[i], count)])
  IN [n \in Nodes |-> IF IsBatch(n) THEN count[n] ELSE 0]

CountPanics ==
  \E n \in ToSet(draft.nodes) : \E b \in ToSet(Strategies(n)) :
     b.kind = "FromBatchOutputs" /\ ~ Fed(n, b.slot)

Submit ==
  /\ progress = "draft"
  /\ \/ DraftValidation = "error" /\ progress' = "rejected" /\ UNCHANGED rows
     \/ DraftValidation = "panic" /\ progress' = "panicked" /\ UNCHANGED rows
     \/ DraftValidation = "ok" /\ CountPanics /\ progress' = "panicked" /\ UNCHANGED rows
     \/ DraftValidation = "ok" /\ ~ CountPanics /\ progress' = "submitted" /\ rows' = SubNodeCount
  /\ UNCHANGED <<draft, instance, copies, tasks, overtaken>>

-----------------------------------------------------------------------------
(***************************************************************************)
(* Scheduling: what the tasks of a node are given, from the instance read. *)
(***************************************************************************)
Out(n, s, i) == <<"out", n, s, i>>

\* The relation whose output a slot gets: each overwrites the one before.
LastFeeding(n, s) == draft.relations[Max(FeedingTo(n, s))]
LastFromSlot(r, s) == r.slots[Max({i \in DOMAIN r.slots : r.slots[i].to = s})].from
Given(n, s) == instance.prepared[LastFeeding(n, s).from][LastFromSlot(LastFeeding(n, s), s)]

\* A plain node: each slot that depends on a node gets the first of its outputs.
Filled(n) ==
  [s \in DOMAIN InputSlot(n) |->
     IF Fed(n, s) THEN <<Given(n, s)[1]>> ELSE instance.contents[n][s]]

\* get_batch_inputs: every input one strategy can give.
BatchInputs(n, b) ==
  CASE b.kind = "OriginalBatch" -> instance.contents[n][b.slot]
    [] b.kind = "MatchRegex" -> [i \in 1..b.count |-> <<"fill", n, b.slot, i>>]
    [] OTHER -> Given(n, b.slot)

\* Files that are made or renamed need a renaming pattern; inputs of text that are a
\* batch of their own fall in an unreachable!().
BatchPanics(n, b) ==
  \/ b.kind = "OriginalBatch" /\ (InputSlot(n)[b.slot].kind = "Text" \/ ~ b.rename)
  \/ b.kind = "MatchRegex" /\ InputSlot(n)[b.slot].kind = "File" /\ ~ b.rename

\* A mutant: every combination is given the first input.
CombineFirst(combinations, slot, inputs) ==
  IF combinations = <<>> THEN [i \in DOMAIN inputs |-> <<<<slot, inputs[i]>>>>]
  ELSE FlattenSeq([j \in DOMAIN inputs |->
         [k \in DOMAIN combinations |-> Append(combinations[k], <<slot, inputs[1]>>)]])

\* sub_nodes: the inputs of the strategies combined.  A combination is a sequence of
\* slots and inputs; a strategy that finds none yet begins anew.
Combine(combinations, slot, inputs) ==
  IF combinations = <<>> THEN [i \in DOMAIN inputs |-> <<<<slot, inputs[i]>>>>]
  ELSE FlattenSeq([j \in DOMAIN inputs |->
         [k \in DOMAIN combinations |-> Append(combinations[k], <<slot, inputs[j]>>)]])

Combinations(n) ==
  FoldLeft(LAMBDA acc, b : Combine(acc, b.slot, BatchInputs(n, b)), <<>>, Strategies(n))

\* update_with_inputs: the batch slots of a sub node are given their one input.
SubNode(n, combination) ==
  [s \in DOMAIN InputSlot(n) |->
     IF \E i \in DOMAIN combination : combination[i][1] = s
     THEN <<combination[Max({i \in DOMAIN combination : combination[i][1] = s})][2]>>
     ELSE instance.contents[n][s]]

\* parse_sub_nodes: the rows zipped with the combinations.
SubNodes(n) ==
  [i \in (1..rows[n]) \cap DOMAIN Combinations(n) |-> SubNode(n, Combinations(n)[i])]

\* The tasks of a node: its own, which a batch node has too, with what its slots hold.
Tasks(n) == IF IsBatch(n) THEN <<instance.contents[n]>> \o SubNodes(n) ELSE <<Filled(n)>>

\* A mutant: the id prepared at submission is kept in front.
PreparedKept(n) ==
  IF ~ IsBatch(n) THEN instance.prepared[n]
  ELSE [s \in DOMAIN OutputSlot(n) |-> [i \in 1..Len(Tasks(n)) |-> Out(n, s, i - 1)]]

\* The first sub node clears the ids of the slot, each adds its own.
Prepared(n) ==
  IF ~ IsBatch(n) \/ SubNodes(n) = <<>> THEN instance.prepared[n]
  ELSE [s \in DOMAIN OutputSlot(n) |-> [i \in DOMAIN SubNodes(n) |-> Out(n, s, i)]]

Scheduled(n) == tasks[n] # <<>>

\* The entry nodes of the next schedule: WorkflowEngine models when it comes.
Entry == {n \in ToSet(draft.nodes) : ~ Scheduled(n) /\ \A d \in Dependencies(n) : Scheduled(d)}

\* schedule_next_nodes: the tasks are sent; the instance they were made from is saved
\* afterwards.
Schedule ==
  /\ progress = "submitted" /\ Entry # {}
  /\ \A n \in Entry : \A b \in ToSet(Strategies(n)) : ~ BatchPanics(n, b)
  /\ tasks' = [n \in Nodes |-> IF n \in Entry THEN Tasks(n) ELSE tasks[n]]
  /\ copies' = copies \union
       {[contents |-> [n \in Nodes |-> IF n \in Entry /\ ~ IsBatch(n) THEN Filled(n)
                                       ELSE instance.contents[n]],
         prepared |-> [n \in Nodes |-> IF n \in Entry THEN Prepared(n)
                                       ELSE instance.prepared[n]]]}
  /\ overtaken' = (overtaken \/ copies # {})
  /\ UNCHANGED <<draft, progress, instance, rows>>

\* A handler that panics has sent nothing.
SchedulePanics ==
  /\ progress = "submitted"
  /\ \E n \in Entry : \E b \in ToSet(Strategies(n)) : BatchPanics(n, b)
  /\ progress' = "failed"
  /\ UNCHANGED <<draft, instance, copies, rows, tasks, overtaken>>

SaveInstance ==
  /\ \E copy \in copies : instance' = copy /\ copies' = copies \ {copy}
  /\ UNCHANGED <<draft, progress, rows, tasks, overtaken>>

-----------------------------------------------------------------------------
DraftInit ==
  /\ draft \in Drafts
  /\ progress = "draft"
  /\ instance = [contents |-> [n \in Nodes |-> [s \in DOMAIN draft.inputs[n] |->
                                                  draft.inputs[n][s].contents]],
                 prepared |-> [n \in Nodes |-> [s \in DOMAIN draft.outputs[n] |->
                                                  <<Out(n, s, 0)>>]]]
  /\ copies = {}
  /\ rows = [n \in Nodes |-> 0]
  /\ tasks = [n \in Nodes |-> <<>>]
  /\ overtaken = FALSE

DraftNext == Submit \/ Schedule \/ SchedulePanics \/ SaveInstance

DraftSpec == DraftInit /\ [][DraftNext]_draftVars

-----------------------------------------------------------------------------
(***************************************************************************)
(* Properties.                                                             *)
(***************************************************************************)

Required(n, s) == ~ InputSlot(n)[s].optional

\* No descriptor is used by two nodes, as when every node is of a use case of its own.
UniqueSlots ==
  \A n, m \in ToSet(draft.nodes) :
     n # m => DOMAIN InputSlot(n) \cap DOMAIN InputSlot(m) = {}

\* A plain node of an accepted draft whose descriptors are unique is sent with an input
\* for every required slot, its own or the output of a node before it
\* (validate_per_node, then the filling in schedule_next_nodes).
PlainNodesGiven ==
  UniqueSlots => \A n \in Nodes : Scheduled(n) /\ ~ IsBatch(n) =>
    \A s \in DOMAIN InputSlot(n) : Required(n, s) => tasks[n][1][s] # <<>>

FedOnce == \A n \in Nodes : \A s \in DOMAIN InputSlot(n) : Cardinality(FeedingTo(n, s)) <= 1

\* The rows made at submission (sub_node_count) are the combinations made at scheduling
\* (sub_nodes), through any chain of batches: each row gets one task and each combination
\* a row.  A row too many never finishes, and with it its node; a row too few loses a
\* task.  Excepted are a slot fed twice, of which submission counts the first feeder and
\* scheduling takes the last; a handler that read the instance before the one ahead saved
\* it, which counts other outputs; and nodes without rows, as a strategy that fills its
\* slot no times has, and those that take their batch from such a node: the one output
\* prepared for it gives them a combination, which gets no task.
RowsMatchTasks ==
  FedOnce /\ ~ overtaken => \A n \in Nodes : Scheduled(n) /\ IsBatch(n) =>
    /\ Len(tasks[n]) = 1 + rows[n]
    /\ rows[n] > 0 =>
         rows[n] = ProductOf([i \in DOMAIN Strategies(n) |->
                                Len(BatchInputs(n, Strategies(n)[i]))])

BatchSlots(n) == {b.slot : b \in ToSet(Strategies(n))}

\* No two strategies of a node are of one slot.
SlotsOnce(n) ==
  \A i, j \in DOMAIN Strategies(n) : i # j => Strategies(n)[i].slot # Strategies(n)[j].slot

\* The tasks of the sub nodes are all different in the inputs of their batch slots, so
\* with RowsMatchTasks they are all combinations of them (sub_nodes, parse_sub_nodes).
\* Two strategies of one slot, which validation accepts, give every input of the later as
\* often as the earlier has some: such nodes are excepted.
EveryCombination ==
  FedOnce /\ ~ overtaken => \A n \in Nodes : Scheduled(n) /\ SlotsOnce(n) =>
    \A i, j \in 2..Len(tasks[n]) : i # j =>
      \E s \in BatchSlots(n) : tasks[n][i][s] # tasks[n][j][s]

\* What a node takes from a batch node is an output of its sub nodes, never that of the
\* batch node's own task (the clear at the first sub node), once the handler that made
\* the sub nodes has saved the instance.
SubOutputsTaken ==
  UniqueSlots /\ ~ overtaken => \A n \in Nodes : \A i \in DOMAIN tasks[n] :
    \A s \in DOMAIN tasks[n][i] : \A k \in DOMAIN tasks[n][i][s] :
      LET input == tasks[n][i][s][k] IN
      input[1] = "out" /\ rows[input[2]] > 0 => input[4] \in 1..rows[input[2]]

\* A draft that was accepted is counted and scheduled without a panic, and its plain
\* nodes are given what they need, provided its descriptors are unique and every
\* strategy that makes files says how to name them.
AcceptedRuns ==
  /\ UniqueSlots /\ (\A n \in Nodes : \A b \in ToSet(Strategies(n)) : b.rename) =>
       progress # "failed" /\ (progress = "panicked" => DraftValidation = "panic")
  /\ PlainNodesGiven
=============================================================================
