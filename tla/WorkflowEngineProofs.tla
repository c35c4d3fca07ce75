------------------------ MODULE WorkflowEngineProofs ------------------------
(***************************************************************************)
(* Proofs about WorkflowEngine, for every workflow graph, every set of     *)
(* handlers and every bound: the types are kept, nodes are dispatched in   *)
(* the order of the graph, after their commit, and the specification       *)
(* implements DependencyOrder.  These follow from the inductive invariant  *)
(* IInv.  Of a workflow that is started once, no node is dispatched twice  *)
(* and a finished node stays: a second invariant, on top of the first.     *)
(***************************************************************************)
EXTENDS WorkflowEngine, SequenceTheorems, TLAPS

(***************************************************************************)
(* Handlers.                                                               *)
(***************************************************************************)
\* What a handler relies on stays true as more nodes are released and succeed.
LEMMA SoundMonotonic ==
  ASSUME NEW h, NEW R, NEW S, NEW R2, NEW S2, R \subseteq R2, S \subseteq S2, Sound(h, R, S)
  PROVE  Sound(h, R2, S2)
BY DEF Sound

\* A step that gives one handler a sound record, and takes no release and no
\* success back, leaves all handlers sound.
LEMMA BecomeSound ==
  ASSUME handler \in [Procs -> Handler], HandlersSound,
         NEW w \in Procs, NEW r \in Handler, Become(w, r),
         released \subseteq released', succeeded \subseteq succeeded',
         Sound(r, released', succeeded')
  PROVE  handler' \in [Procs -> Handler] /\ HandlersSound'
<1>1. handler' \in [Procs -> Handler]
  BY DEF Become
<1>2. ASSUME NEW v \in Procs
      PROVE  Sound(handler'[v], released', succeeded')
  <2>1. CASE v = w
    BY <2>1 DEF Become
  <2>2. CASE v # w
    <3>1. handler'[v] = handler[v]
      BY <2>2 DEF Become
    <3>2. Sound(handler[v], released, succeeded)
      BY DEF HandlersSound
    <3> QED
      BY <3>1, <3>2, SoundMonotonic
  <2> QED
    BY <2>1, <2>2
<1> QED
  BY <1>1, <1>2 DEF HandlersSound

\* An idle handler relies on nothing.
LEMMA IdleSound ==
  ASSUME NEW R, NEW S
  PROVE  Idle \in Handler /\ Sound(Idle, R, S)
BY DEF Idle, Handler, Sound, NoRows, NoRow, NodeRow, NodeStatus, FlowStatus, NoFlow, FlowRow,
       Steps, Active, ServingSteps, SuccessSteps

(***************************************************************************)
(* Steps.  Every action gives one handler a new record; what it writes to  *)
(* the tables, to the queue and to the agents is judged by VisibleReleased.*)
(***************************************************************************)
\* Only the record of one handler changes.
LEMMA LocalStep ==
  ASSUME IInv, NEW w \in Procs, NEW r \in Handler, Become(w, r),
         Sound(r, released, succeeded),
         UNCHANGED <<flow, node, queue, sent, posts, bills, released, succeeded>>,
         used' \in [{"start", "op", "fail", "crash"} -> Nat]
  PROVE  IInv'
<1>1. handler' \in [Procs -> Handler] /\ HandlersSound'
  BY BecomeSound DEF IInv, TypeOK
<1>2. HistoryOrdered' /\ VisibleReleased'
  BY DEF IInv, HistoryOrdered, VisibleReleased
<1> QED
  BY <1>1, <1>2 DEF IInv, TypeOK

\* The record of one handler and some tables change; no history does.
LEMMA TableStep ==
  ASSUME IInv, NEW w \in Procs, NEW r \in Handler, Become(w, r),
         Sound(r, released, succeeded),
         UNCHANGED <<released, succeeded, used>>,
         flow' \in FlowRow, node' \in [Nodes -> NodeRow], queue' \in Seq(Message),
         sent' \in [Nodes -> [Commands -> Nat]], posts' \in [Nodes -> [Results -> Nat]],
         bills' \in [Nodes -> Nat],
         \A n \in Nodes : node'[n].status \in Active => n \in released,
         \A n \in Nodes, c \in Commands : sent'[n][c] > 0 => n \in released,
         \A i \in 1..Len(queue') : queue'[i].node \in released
  PROVE  IInv'
<1>1. handler' \in [Procs -> Handler] /\ HandlersSound'
  BY BecomeSound DEF IInv, TypeOK
<1>2. HistoryOrdered' /\ VisibleReleased'
  BY DEF IInv, HistoryOrdered, VisibleReleased
<1> QED
  BY <1>1, <1>2 DEF IInv, TypeOK

\* A handler that returns.
LEMMA ReturnStep ==
  ASSUME IInv, NEW w \in Procs, Return(w),
         UNCHANGED <<flow, node, queue, sent, posts, bills, released, succeeded>>,
         used' \in [{"start", "op", "fail", "crash"} -> Nat]
  PROVE  IInv'
BY LocalStep, IdleSound DEF Return

(***************************************************************************)
(* The repository.                                                         *)
(***************************************************************************)
LEMMA SavedFlowType ==
  ASSUME TypeOK, NEW w \in Procs
  PROVE  SavedFlow(w) \in FlowRow
BY DEF SavedFlow, TypeOK, FlowRow, Handler

\* Running the statements of a handler shows progress of a node only if the
\* table or a statement did.
LEMMA SavedNodesReleased ==
  ASSUME TypeOK, NEW w \in Procs, NEW R,
         \A n \in Nodes : node[n].status \in Active => n \in R,
         \A n \in Nodes : handler[w].rows[n].status \in Active => n \in R
  PROVE  /\ SavedNodes(w) \in [Nodes -> NodeRow]
         /\ \A n \in Nodes : SavedNodes(w)[n].status \in Active => n \in R
BY DEF SavedNodes, TypeOK, Handler

LEMMA SetStatusRows ==
  ASSUME TypeOK, NEW S, NEW s \in NodeStatus
  PROVE  /\ SetStatus(S, s) \in [Nodes -> NodeRow]
         /\ \A n \in Nodes : SetStatus(S, s)[n].status \in Active => n \in S /\ s \in Active
BY DEF SetStatus, TypeOK, NodeRow, NoRow, NodeStatus, FlowStatus, Active

LEMMA NoRowsInactive ==
  NoRows \in [Nodes -> NodeRow] /\ \A n \in Nodes : NoRows[n].status \notin Active
BY DEF NoRows, NoRow, NodeRow, NodeStatus, FlowStatus, Active

\* The names of the steps and of what a handler serves.
LEMMA Names ==
  /\ {"idle", "submitNodes", "startNodes", "startSave", "schedFlow", "schedFlowSave",
      "schedStandby", "taskRows", "taskSave", "send", "sendSave", "sendTask", "finish",
      "bill", "recvSave", "allSame", "getFlow", "getStandby", "flowRead", "flowSave",
      "opNodes", "op"} \subseteq Steps
  /\ {"Submit", "Start"} \cup UserOps \cup Results
       \subseteq {"None", "Submit", "Start"} \cup UserOps \cup Results
  /\ Active \cup {"None", "Created", "Pending", "Standby"} \subseteq NodeStatus
  /\ (Active \cup {"None", "Created", "Pending"}) \subseteq FlowStatus
BY DEF Steps, NodeStatus, FlowStatus, Active

\* A flow row that is given another status.
LEMMA FlowCopy ==
  ASSUME NEW f \in FlowRow, NEW s \in FlowStatus
  PROVE  [f EXCEPT !.status = s] \in FlowRow
BY DEF FlowRow

LEMMA IdleRows == Idle.rows = NoRows /\ Idle.todo = {} /\ NoFlow \in FlowRow
BY DEF Idle, NoFlow, FlowRow, FlowStatus

(***************************************************************************)
(* submit_workflow and start_workflow.                                     *)
(***************************************************************************)
LEMMA SubmitPreserves ==
  ASSUME IInv, NEW w \in Procs, SubmitFlow(w) \/ SubmitNodes(w)
  PROVE  IInv'
<1>1. CASE SubmitFlow(w)
  <2> DEFINE r == [Idle EXCEPT !.pc = "submitNodes", !.op = "Submit"]
  <2>1. r \in Handler
    BY IdleSound, Names DEF Handler
  <2>a. Sound(r, released, succeeded)
    BY IdleSound, IdleRows, NoRowsInactive DEF Handler, Sound, ServingSteps, SuccessSteps
  <2>2. [status |-> "Created", lmt |-> 0] \in FlowRow
    BY DEF FlowRow, FlowStatus
  <2> QED
    BY <1>1, <2>1, <2>a, <2>2, TableStep DEF SubmitFlow, IInv, TypeOK, VisibleReleased
<1>2. CASE SubmitNodes(w)
  <2> DEFINE t == [n \in Nodes |-> [status |-> "Created", cluster |-> FALSE]]
  <2>1. t \in [Nodes -> NodeRow] /\ \A n \in Nodes : t[n].status \notin Active
    BY DEF NodeRow, NodeStatus, FlowStatus, Active
  <2> QED
    BY <1>2, <2>1, IdleSound, TableStep DEF SubmitNodes, Return, IInv, TypeOK, VisibleReleased
<1> QED
  BY <1>1, <1>2

LEMMA StartPreserves ==
  ASSUME IInv, NEW w \in Procs, StartWorkflow(w) \/ StartNodes(w) \/ StartSave(w)
  PROVE  IInv'
<1> USE DEF IInv
<1>h. handler[w] \in Handler
  BY DEF TypeOK
<1>1. CASE StartWorkflow(w)
  <2> DEFINE f == [flow EXCEPT !.status = "Pending"]
             r == [Idle EXCEPT !.pc = "startNodes", !.op = "Start", !.copy = f]
  <2>1. f \in FlowRow
    BY FlowCopy, Names DEF TypeOK
  <2> HIDE DEF f
  <2>2. r \in Handler
    BY <2>1, IdleSound, Names DEF Handler
  <2>3. Sound(r, released, succeeded)
    BY IdleSound, IdleRows, NoRowsInactive DEF Handler, Sound, ServingSteps, SuccessSteps
  <2>4. used' \in [{"start", "op", "fail", "crash"} -> Nat]
    BY <1>1 DEF StartWorkflow, TypeOK
  <2> QED
    BY <1>1, <2>2, <2>3, <2>4, LocalStep DEF StartWorkflow, f
<1>2. CASE StartNodes(w)
  <2> DEFINE t == SetStatus({n \in Nodes : Exists(n)}, "Pending")
             r == [handler[w] EXCEPT !.pc = "startSave", !.rows = t]
  <2>1. t \in [Nodes -> NodeRow] /\ \A n \in Nodes : t[n].status \notin Active
    BY SetStatusRows, Names DEF Active
  <2> HIDE DEF t
  <2>2. r \in Handler
    BY <1>h, <2>1, Names DEF Handler
  <2>3. Sound(r, released, succeeded)
    BY <1>h, <2>1 DEF Handler, Sound, ServingSteps, SuccessSteps
  <2> QED
    BY <1>2, <2>2, <2>3, LocalStep DEF StartNodes, TypeOK, t
<1>3. CASE StartSave(w)
  <2> DEFINE r == [handler[w] EXCEPT !.pc = "schedFlow", !.rows = NoRows]
  <2>1. r \in Handler
    BY <1>h, NoRowsInactive, Names DEF Handler
  <2>2. Sound(r, released, succeeded)
    BY <1>h, NoRowsInactive DEF Handler, Sound, ServingSteps, SuccessSteps
  <2>3. \A n \in Nodes : handler[w].rows[n].status \in Active => n \in released
    BY <1>3 DEF StartSave, At, HandlersSound, Sound
  <2>4. /\ SavedNodes(w) \in [Nodes -> NodeRow]
        /\ \A n \in Nodes : SavedNodes(w)[n].status \in Active => n \in released
    BY <2>3, SavedNodesReleased DEF VisibleReleased
  <2>5. SavedFlow(w) \in FlowRow
    BY SavedFlowType
  <2> QED
    BY <1>3, <2>1, <2>2, <2>4, <2>5, TableStep DEF StartSave, TypeOK, VisibleReleased
<1> QED
  BY <1>1, <1>2, <1>3

(***************************************************************************)
(* The graph.                                                              *)
(***************************************************************************)
\* The sub nodes of a batch have the predecessors of their parent.
LEMMA TaskPreds ==
  ASSUME NEW E \in SUBSET Roots, NEW S, \A r \in E : Pred[r] \subseteq S
  PROVE  Tasks(E) \subseteq Nodes /\ \A n \in Tasks(E) : Pred[n] \subseteq S
<1>1. Tasks(E) \subseteq Nodes
  BY DEF Tasks, Nodes
<1>2. ASSUME NEW n \in Tasks(E)
      PROVE  Pred[n] \subseteq S
  <2>1. CASE n \in E
    BY <2>1
  <2>2. CASE n \in Subs /\ ParentOf[n] \in E
    <3>1. ParentOf[n] \in Roots /\ ParentOf[n] \notin Subs
      BY <2>2, GraphAssumption
    <3>2. Pred[n] = Pred[ParentOf[n]]
      BY <2>2, <3>1 DEF Pred, RootOf, Nodes
    <3> QED
      BY <2>2, <3>2
  <2> QED
    BY <2>1, <2>2 DEF Tasks
<1> QED
  BY <1>1, <1>2

\* An entry node of the whole graph has no predecessor.
LEMMA EntryOfGraph ==
  ASSUME NEW n \in EntryIds(Roots, Relations)
  PROVE  n \in Roots /\ Pred[n] = {}
<1>1. n \in Roots /\ RootOf(n) = n
  BY GraphAssumption DEF EntryIds, RootOf
<1>2. \A r \in Roots : <<r, n>> \notin Relations
  BY DEF EntryIds
<1> QED
  BY <1>1, <1>2 DEF Pred, Nodes

\* A root that is an entry node once the relations of x are left out has no
\* predecessor but x, unless it is x: the core of the argument, for no other
\* guard of the scheduler looks at the predecessors.
LEMMA EntryAfterSuccess ==
  ASSUME NEW ids, NEW x, NEW n \in EntryIds(ids, DependenciesWithout(x)), n \in Roots, n # x
  PROVE  Pred[n] \subseteq {x}
<1>1. RootOf(n) = n /\ n \in Nodes
  BY GraphAssumption DEF RootOf, Nodes
<1>2. ASSUME NEW p \in Roots, <<p, n>> \in Relations
      PROVE  p = x
  <2>1. <<p, n>> \notin DependenciesWithout(x)
    BY DEF EntryIds
  <2> QED
    BY <1>2, <2>1 DEF DependenciesWithout
<1> QED
  BY <1>1, <1>2 DEF Pred

(***************************************************************************)
(* schedule_next_nodes: which nodes are chosen.                            *)
(***************************************************************************)
LEMMA DispatchStep ==
  ASSUME IInv, NEW w \in Procs, NEW entry, NEW t \in [Nodes -> NodeRow],
         \A n \in Nodes : t[n].status \notin Active,
         \A n \in entry \cap Roots : Pred[n] \subseteq succeeded,
         Dispatch(w, entry, t),
         UNCHANGED <<flow, node, queue, sent, posts, bills, used, released, succeeded>>
  PROVE  IInv'
<1>h. handler[w] \in Handler /\ used' \in [{"start", "op", "fail", "crash"} -> Nat]
  BY DEF IInv, TypeOK
<1>1. CASE entry = {}
  <2> DEFINE f == [handler[w].copy EXCEPT !.status = "Finished"]
             r == [handler[w] EXCEPT !.pc = "finish", !.copy = f, !.rows = t]
  <2>1. f \in FlowRow
    BY <1>h, FlowCopy, Names DEF Handler, Active
  <2>2. Become(w, r)
    BY <1>1, <1>h DEF Dispatch, Become, Handler
  <2> HIDE DEF f
  <2>3. r \in Handler
    BY <1>h, <2>1, Names DEF Handler
  <2>4. Sound(r, released, succeeded)
    BY <1>h DEF Handler, Sound, ServingSteps, SuccessSteps
  <2> QED
    BY <1>h, <2>2, <2>3, <2>4, LocalStep
<1>2. CASE entry # {}
  <2> DEFINE T == Tasks(entry \cap Roots)
             r == [handler[w] EXCEPT !.pc = "taskRows", !.todo = T, !.rows = t]
  <2>1. T \subseteq Nodes /\ \A n \in T : Pred[n] \subseteq succeeded
    BY TaskPreds
  <2>2. Become(w, r)
    BY <1>2 DEF Dispatch
  <2> HIDE DEF T
  <2>3. r \in Handler
    BY <1>h, <2>1, Names DEF Handler
  <2>4. Sound(r, released, succeeded)
    BY <1>h, <2>1 DEF Handler, Sound, ServingSteps, SuccessSteps
  <2> QED
    BY <1>h, <2>2, <2>3, <2>4, LocalStep
<1> QED
  BY <1>1, <1>2

LEMMA ScheduleStartPreserves ==
  ASSUME IInv, NEW w \in Procs, SchedFlow(w) \/ SchedFlowSave(w) \/ SchedStandby(w)
  PROVE  IInv'
<1> USE DEF IInv
<1>h. handler[w] \in Handler /\ Sound(handler[w], released, succeeded)
  BY DEF TypeOK, HandlersSound
<1>1. CASE SchedFlow(w)
  <2> DEFINE f == [flow EXCEPT !.status = "Running"]
             r == [handler[w] EXCEPT !.pc = "schedFlowSave", !.copy = f]
  <2>1. f \in FlowRow
    BY FlowCopy, Names DEF TypeOK, Active
  <2> HIDE DEF f
  <2>2. r \in Handler
    BY <1>h, <2>1, Names DEF Handler
  <2>3. Sound(r, released, succeeded)
    BY <1>h, <1>1 DEF SchedFlow, At, Handler, Sound, ServingSteps, SuccessSteps
  <2> QED
    BY <1>1, <2>2, <2>3, LocalStep DEF SchedFlow, TypeOK, f
<1>2. CASE SchedFlowSave(w)
  <2> DEFINE r == [handler[w] EXCEPT !.pc = "schedStandby"]
  <2>1. r \in Handler
    BY <1>h, Names DEF Handler
  <2>2. Sound(r, released, succeeded)
    BY <1>h, <1>2 DEF SchedFlowSave, At, Handler, Sound, ServingSteps, SuccessSteps
  <2> QED
    BY <1>2, <2>1, <2>2, SavedFlowType, TableStep DEF SchedFlowSave, TypeOK, VisibleReleased
<1>3. CASE SchedStandby(w)
  <2> DEFINE entry == EntryIds(Roots, Relations)
             standby == {n \in Tasks(Roots \ entry) : Exists(n)}
             t == SetStatus(standby, "Standby")
  <2> HIDE DEF standby
  <2>1. t \in [Nodes -> NodeRow] /\ \A n \in Nodes : t[n].status \notin Active
    BY SetStatusRows, Names DEF Active
  <2>2. \A n \in entry \cap Roots : Pred[n] \subseteq succeeded
    BY EntryOfGraph
  <2>3. CASE Dispatch(w, entry, t)
    BY <1>3, <2>1, <2>2, <2>3, DispatchStep DEF SchedStandby
  <2>4. CASE Return(w)
    BY <1>3, <2>4, ReturnStep DEF SchedStandby, TypeOK
  <2> QED
    BY <1>3, <2>3, <2>4 DEF SchedStandby, standby
<1> QED
  BY <1>1, <1>2, <1>3

LEMMA ScheduleSuccessPreserves ==
  ASSUME IInv, NEW w \in Procs, AllSame(w) \/ GetFlow(w) \/ GetStandby(w)
  PROVE  IInv'
<1> USE DEF IInv
<1>h. handler[w] \in Handler /\ Sound(handler[w], released, succeeded)
  BY DEF TypeOK, HandlersSound
<1>1. CASE AllSame(w)
  <2> DEFINE r == [handler[w] EXCEPT !.pc = "getFlow"]
  <2>1. r \in Handler
    BY <1>h, Names DEF Handler
  <2>2. Sound(r, released, succeeded)
    BY <1>h, <1>1 DEF AllSame, At, Handler, Sound, ServingSteps, SuccessSteps
  <2> QED
    BY <1>1, <2>1, <2>2, LocalStep, ReturnStep DEF AllSame, TypeOK
<1>2. CASE GetFlow(w)
  <2> DEFINE r == [handler[w] EXCEPT !.pc = "getStandby", !.copy = flow]
  <2>1. r \in Handler
    BY <1>h, Names DEF Handler, TypeOK
  <2>2. Sound(r, released, succeeded)
    BY <1>h, <1>2 DEF GetFlow, At, Handler, Sound, ServingSteps, SuccessSteps
  <2> QED
    BY <1>2, <2>1, <2>2, LocalStep DEF GetFlow, TypeOK
<1>3. CASE GetStandby(w)
  <2> DEFINE x == handler[w].node
             standby == {n \in Nodes : node[n].status = "Standby"}
             entry == EntryIds(standby, DependenciesWithout(x))
  <2>1. x \in succeeded
    BY <1>h, <1>3 DEF GetStandby, At, Sound, SuccessSteps
  <2>2. ASSUME NEW n \in entry \cap Roots
        PROVE  Pred[n] \subseteq succeeded
    <3>1. CASE n = x
      BY <2>1, <3>1 DEF HistoryOrdered
    <3>2. CASE n # x
      <4>1. Pred[n] \subseteq {x}
        BY <3>2, EntryAfterSuccess
      <4> QED
        BY <2>1, <4>1
    <3> QED
      BY <3>1, <3>2
  <2> QED
    <3>1. Dispatch(w, entry, NoRows)
      BY <1>3 DEF GetStandby
    <3>2. UNCHANGED <<flow, node, queue, sent, posts, bills, used, released, succeeded>>
      BY <1>3 DEF GetStandby
    <3> HIDE DEF entry
    <3> QED
      BY <2>2, <3>1, <3>2, NoRowsInactive, DispatchStep
<1> QED
  BY <1>1, <1>2, <1>3

(***************************************************************************)
(* schedule_next_nodes: saving and sending what was chosen.                *)
(***************************************************************************)
\* The step after a schedule serves no node and has nothing pending.
LEMMA AfterScheduleRecord ==
  ASSUME IInv, NEW w \in Procs, AfterSchedule(w)
  PROVE  \E r \in Handler : Become(w, r) /\ Sound(r, released, succeeded)
<1> DEFINE r == [handler[w] EXCEPT !.pc = "bill", !.copy = NoFlow, !.rows = NoRows]
<1>h. handler[w] \in Handler
  BY DEF IInv, TypeOK
<1>1. r \in Handler
  BY <1>h, NoRowsInactive, IdleRows, Names DEF Handler
<1>2. Sound(r, released, succeeded)
  BY <1>h, NoRowsInactive DEF Handler, Sound, ServingSteps, SuccessSteps
<1>3. CASE Return(w)
  BY <1>3, IdleSound DEF Return
<1> QED
  BY <1>1, <1>2, <1>3 DEF AfterSchedule

LEMMA FinishPreserves ==
  ASSUME IInv, NEW w \in Procs, Finish(w)
  PROVE  IInv'
<1>1. PICK r \in Handler : Become(w, r) /\ Sound(r, released, succeeded)
  BY AfterScheduleRecord DEF Finish
<1>2. \A n \in Nodes : handler[w].rows[n].status \in Active => n \in released
  BY DEF Finish, At, IInv, HandlersSound, Sound
<1>3. /\ SavedNodes(w) \in [Nodes -> NodeRow]
      /\ \A n \in Nodes : SavedNodes(w)[n].status \in Active => n \in released
  BY <1>2, SavedNodesReleased DEF IInv, VisibleReleased
<1>4. SavedFlow(w) \in FlowRow
  BY SavedFlowType DEF IInv
<1> QED
  BY <1>1, <1>3, <1>4, TableStep DEF Finish, IInv, TypeOK, VisibleReleased

LEMMA TaskRowsPreserves ==
  ASSUME IInv, NEW w \in Procs, TaskRows(w)
  PROVE  IInv'
<1> DEFINE t == RunningRows(w)
           r == [handler[w] EXCEPT !.pc = "taskSave", !.rows = t]
<1>h. handler[w] \in Handler /\ Sound(handler[w], released, succeeded)
  BY DEF IInv, TypeOK, HandlersSound
<1>1. \A n \in Nodes : [node[n] EXCEPT !.status = "Running"] \in NodeRow
  BY Names DEF IInv, TypeOK, NodeRow, Active
<1>2. t \in [Nodes -> NodeRow]
  BY <1>h, <1>1 DEF RunningRows, Handler
<1>3. \A n \in Nodes \ handler[w].todo : t[n] = handler[w].rows[n]
  BY DEF RunningRows
<1> HIDE DEF t
<1>4. r \in Handler
  BY <1>h, <1>2, Names DEF Handler
<1>5. Sound(r, released, succeeded)
  BY <1>h, <1>3 DEF TaskRows, At, Handler, Sound, ServingSteps, SuccessSteps
<1> QED
  BY <1>4, <1>5, LocalStep, ReturnStep DEF TaskRows, IInv, TypeOK, t

\* The only step that releases nodes: their predecessors have succeeded.
LEMMA TaskSavePreserves ==
  ASSUME IInv, NEW w \in Procs, TaskSave(w)
  PROVE  IInv'
<1> DEFINE r == [handler[w] EXCEPT !.pc = "send", !.rows = NoRows]
<1>h. handler[w] \in Handler /\ Sound(handler[w], released, succeeded)
  BY DEF IInv, TypeOK, HandlersSound
<1>1. /\ released' = released \cup handler[w].todo
      /\ UNCHANGED <<flow, queue, sent, posts, bills, used, succeeded>>
      /\ node' = SavedNodes(w)
      /\ Become(w, r)
  BY DEF TaskSave
<1>2. handler[w].todo \subseteq Nodes /\ \A n \in handler[w].todo : Pred[n] \subseteq succeeded
  BY <1>h DEF TaskSave, At, Sound, Handler
<1>3. \A n \in Nodes : handler[w].rows[n].status \in Active => n \in released'
  BY <1>h, <1>1 DEF Sound
<1>4. /\ SavedNodes(w) \in [Nodes -> NodeRow]
      /\ \A n \in Nodes : SavedNodes(w)[n].status \in Active => n \in released'
  BY <1>1, <1>3, SavedNodesReleased DEF IInv, VisibleReleased
<1>5. r \in Handler
  BY <1>h, NoRowsInactive, Names DEF Handler
<1>6. Sound(r, released', succeeded')
  BY <1>h, <1>1, NoRowsInactive DEF Handler, Sound, ServingSteps, SuccessSteps
<1>7. handler' \in [Procs -> Handler] /\ HandlersSound'
  BY <1>1, <1>5, <1>6, BecomeSound DEF IInv, TypeOK
<1>8. HistoryOrdered'
  BY <1>1, <1>2 DEF IInv, HistoryOrdered
<1>9. VisibleReleased'
  BY <1>1, <1>4 DEF IInv, VisibleReleased
<1> QED
  BY <1>1, <1>2, <1>4, <1>7, <1>8, <1>9 DEF IInv, TypeOK

(***************************************************************************)
(* The queue.                                                              *)
(***************************************************************************)
LEMMA AppendReleased ==
  ASSUME NEW q \in Seq(Message), NEW m \in Message, NEW R,
         \A i \in 1..Len(q) : q[i].node \in R, m.node \in R
  PROVE  /\ Append(q, m) \in Seq(Message)
         /\ \A i \in 1..Len(Append(q, m)) : Append(q, m)[i].node \in R
BY DEF Message

LEMMA TailReleased ==
  ASSUME NEW q \in Seq(Message), NEW R, q # <<>>, \A i \in 1..Len(q) : q[i].node \in R
  PROVE  /\ Head(q) \in Message /\ Head(q).node \in R
         /\ Tail(q) \in Seq(Message)
         /\ \A i \in 1..Len(Tail(q)) : Tail(q)[i].node \in R
<1>1. Len(q) \in Nat /\ Len(q) # 0 /\ 1 \in 1..Len(q)
  BY EmptySeq
<1>2. Head(q) = q[1] /\ q[1] \in Message
  BY <1>1
<1>3. /\ Tail(q) \in Seq(Message) /\ Len(Tail(q)) = Len(q) - 1
      /\ \A i \in 1..Len(Tail(q)) : Tail(q)[i] = q[i + 1]
  BY <1>1
<1> QED
  BY <1>1, <1>2, <1>3

\* One more task for a released node.
LEMMA SentReleased ==
  ASSUME TypeOK, VisibleReleased, NEW n \in released, NEW c \in Commands
  PROVE  LET s == [sent EXCEPT ![n][c] = @ + 1]
         IN  /\ s \in [Nodes -> [Commands -> Nat]]
             /\ \A m \in Nodes, d \in Commands : s[m][d] > 0 => m \in released
<1> DEFINE s == [sent EXCEPT ![n][c] = @ + 1]
<1>1. sent[n] \in [Commands -> Nat] /\ n \in Nodes
  BY DEF TypeOK
<1>2. [sent[n] EXCEPT ![c] = @ + 1] \in [Commands -> Nat]
  BY <1>1
<1>3. s \in [Nodes -> [Commands -> Nat]]
  BY <1>1, <1>2 DEF TypeOK
<1>4. \A m \in Nodes \ {n} : s[m] = sent[m]
  BY DEF TypeOK
<1> QED
  BY <1>3, <1>4 DEF VisibleReleased

(***************************************************************************)
(* Sending: every node that is sent is released.                           *)
(***************************************************************************)
LEMMA SendNoActionPreserves ==
  ASSUME IInv, NEW w \in Procs, SendNoAction(w)
  PROVE  IInv'
<1> USE DEF IInv
<1>h. handler[w] \in Handler /\ Sound(handler[w], released, succeeded)
  BY DEF TypeOK, HandlersSound
<1>1. PICK n \in handler[w].todo :
        /\ queue' = Append(queue, [node |-> n, status |-> "Success"])
        /\ Become(w, [handler[w] EXCEPT !.todo = @ \ {n}])
  BY DEF SendNoAction
<1> DEFINE T == handler[w].todo \ {n}
           r == [handler[w] EXCEPT !.todo = T]
           m == [node |-> n, status |-> "Success"]
<1>2. handler[w].todo \subseteq released /\ handler[w].pc = "send"
  BY <1>h DEF SendNoAction, At, Sound, ServingSteps
<1>3. m \in Message /\ m.node \in released
  BY <1>2 DEF Message, Results, TypeOK
<1>4. Become(w, r)
  BY <1>1, <1>h DEF Handler, Become
<1>5. T \subseteq Nodes /\ T \subseteq released
  BY <1>2 DEF TypeOK
<1>6. queue' \in Seq(Message) /\ \A i \in 1..Len(queue') : queue'[i].node \in released
  <2> HIDE DEF m
  <2>1. queue' = Append(queue, m)
    BY <1>1 DEF m
  <2> QED
    BY <1>3, <2>1, AppendReleased DEF TypeOK, VisibleReleased
<1> HIDE DEF T, m
<1>7. r \in Handler
  BY <1>h, <1>5 DEF Handler
<1>8. Sound(r, released, succeeded)
  BY <1>h, <1>2, <1>5 DEF Handler, Sound, ServingSteps, SuccessSteps
<1> QED
  BY <1>4, <1>6, <1>7, <1>8, TableStep DEF SendNoAction, TypeOK, VisibleReleased

LEMMA SendTaskPreserves ==
  ASSUME IInv, NEW w \in Procs, SendRead(w) \/ SendSave(w) \/ SendTask(w)
  PROVE  IInv'
<1> USE DEF IInv
<1>h. handler[w] \in Handler /\ Sound(handler[w], released, succeeded)
  BY DEF TypeOK, HandlersSound
<1>1. CASE SendRead(w)
  <2>1. PICK n \in handler[w].todo :
          Become(w, [handler[w] EXCEPT
            !.pc = "sendSave", !.cur = n,
            !.rows = [NoRows EXCEPT ![n] = [node[n] EXCEPT !.cluster = TRUE]]])
    BY <1>1 DEF SendRead
  <2> DEFINE t == [NoRows EXCEPT ![n] = [node[n] EXCEPT !.cluster = TRUE]]
             r == [handler[w] EXCEPT !.pc = "sendSave", !.cur = n, !.rows = t]
  <2>2. handler[w].todo \subseteq released /\ n \in Nodes
    BY <1>h, <1>1 DEF SendRead, At, Sound, ServingSteps, Handler
  <2>3. [node[n] EXCEPT !.cluster = TRUE] \in NodeRow
    BY <2>2 DEF TypeOK, NodeRow
  <2>4. t \in [Nodes -> NodeRow] /\ \A v \in Nodes : t[v].status \in Active => v = n
    BY <2>3, NoRowsInactive
  <2>5. Become(w, r)
    BY <2>1
  <2> HIDE DEF t
  <2>6. r \in Handler
    BY <1>h, <2>2, <2>4, Names DEF Handler
  <2>7. Sound(r, released, succeeded)
    BY <1>h, <2>2, <2>4 DEF Handler, Sound, ServingSteps, SuccessSteps
  <2> QED
    BY <1>1, <2>5, <2>6, <2>7, LocalStep DEF SendRead, TypeOK
<1>2. CASE SendSave(w)
  <2> DEFINE r == [handler[w] EXCEPT !.pc = "sendTask", !.rows = NoRows]
  <2>1. \A n \in Nodes : handler[w].rows[n].status \in Active => n \in released
    BY <1>h, <1>2 DEF SendSave, At, Sound
  <2>2. /\ SavedNodes(w) \in [Nodes -> NodeRow]
        /\ \A n \in Nodes : SavedNodes(w)[n].status \in Active => n \in released
    BY <2>1, SavedNodesReleased DEF VisibleReleased
  <2>3. r \in Handler
    BY <1>h, NoRowsInactive, Names DEF Handler
  <2>4. Sound(r, released, succeeded)
    BY <1>h, <1>2, NoRowsInactive DEF SendSave, At, Handler, Sound, ServingSteps, SuccessSteps
  <2> QED
    BY <1>2, <2>2, <2>3, <2>4, TableStep DEF SendSave, TypeOK, VisibleReleased
<1>3. CASE SendTask(w)
  <2> DEFINE n == handler[w].cur
             T == handler[w].todo \ {n}
             r == [handler[w] EXCEPT !.pc = "send", !.cur = NoNode, !.todo = T]
  <2>1. n \in released /\ handler[w].todo \subseteq released
    BY <1>h, <1>3 DEF SendTask, At, Sound, ServingSteps
  <2>2. "Start" \in Commands
    BY DEF Commands
  <2>3. /\ sent' \in [Nodes -> [Commands -> Nat]]
        /\ \A v \in Nodes, c \in Commands : sent'[v][c] > 0 => v \in released
    BY <1>3, <2>1, <2>2, SentReleased DEF SendTask
  <2>4. T \subseteq Nodes /\ T \subseteq released
    BY <2>1 DEF TypeOK
  <2>5. Become(w, r)
    BY <1>h, <1>3 DEF SendTask, Become, Handler
  <2>s. handler[w].pc = "sendTask"
    BY <1>3 DEF SendTask, At
  <2> HIDE DEF T, n
  <2>6. r \in Handler
    BY <1>h, <2>4, Names DEF Handler
  <2>7. Sound(r, released, succeeded)
    BY <1>h, <2>s, <2>4 DEF SendTask, At, Handler, Sound, ServingSteps, SuccessSteps
  <2> QED
    BY <1>3, <2>3, <2>5, <2>6, <2>7, TableStep DEF SendTask, TypeOK, VisibleReleased
<1> QED
  BY <1>1, <1>2, <1>3

LEMMA SendEndPreserves ==
  ASSUME IInv, NEW w \in Procs, SendMilestone(w) \/ SendDone(w) \/ Bill(w)
  PROVE  IInv'
<1> USE DEF IInv
<1>1. CASE SendMilestone(w)
  BY <1>1, ReturnStep DEF SendMilestone, TypeOK
<1>2. CASE SendDone(w)
  <2>1. PICK r \in Handler : Become(w, r) /\ Sound(r, released, succeeded)
    BY <1>2, AfterScheduleRecord DEF SendDone
  <2> QED
    BY <1>2, <2>1, SavedFlowType, TableStep DEF SendDone, TypeOK, VisibleReleased
<1>3. CASE Bill(w)
  <2> DEFINE n == handler[w].node
  <2>1. bills' \in [Nodes -> Nat]
    <3>1. bills' = [bills EXCEPT ![n] = @ + 1]
      BY <1>3 DEF Bill
    <3>2. bills \in [Nodes -> Nat]
      BY DEF TypeOK
    <3> HIDE DEF n
    <3>3. CASE n \in Nodes
      BY <3>1, <3>2, <3>3
    <3>4. CASE n \notin Nodes
      BY <3>1, <3>2, <3>4
    <3> QED
      BY <3>3, <3>4
  <2>2. Become(w, Idle) /\ Idle \in Handler /\ Sound(Idle, released, succeeded)
    BY <1>3, IdleSound DEF Bill, Return
  <2>3. UNCHANGED <<flow, node, queue, sent, posts, used, released, succeeded>>
    BY <1>3 DEF Bill
  <2> QED
    BY <2>1, <2>2, <2>3, TableStep DEF TypeOK, VisibleReleased
<1> QED
  BY <1>1, <1>2, <1>3

(***************************************************************************)
(* receive_node_status.                                                    *)
(***************************************************************************)
\* A handler that has read the row of a released node to save a result.
LEMMA ReceivingSound ==
  ASSUME IInv, NEW n \in released, NEW r \in Results
  PROVE  Receiving(n, r) \in Handler /\ Sound(Receiving(n, r), released, succeeded)
<1> DEFINE t == [NoRows EXCEPT ![n] = [node[n] EXCEPT !.status = ResultStatus(r)]]
           h == [Idle EXCEPT !.pc = "recvSave", !.op = r, !.node = n, !.rows = t]
<1>1. ResultStatus(r) \in NodeStatus
  BY DEF Results, ResultStatus, NodeStatus, FlowStatus
<1>2. n \in Nodes /\ [node[n] EXCEPT !.status = ResultStatus(r)] \in NodeRow
  BY <1>1 DEF IInv, TypeOK, NodeRow
<1>3. t \in [Nodes -> NodeRow] /\ \A m \in Nodes : t[m].status \in Active => m = n
  BY <1>2, NoRowsInactive
<1>4. Receiving(n, r) = h
  BY DEF Receiving
<1> HIDE DEF t
<1>5. h \in Handler
  BY <1>2, <1>3, IdleSound, Names DEF Handler
<1>6. Sound(h, released, succeeded)
  BY <1>3, IdleSound DEF Handler, Sound, ServingSteps, SuccessSteps
<1> QED
  BY <1>4, <1>5, <1>6

LEMMA PostPreserves ==
  ASSUME IInv, NEW w \in Procs, NEW n \in Nodes, NEW r \in Results, Post(w, n, r)
  PROVE  IInv'
<1>1. Answers(r) \in Commands
  BY DEF Results, Answers, Commands
<1>2. n \in released
  BY <1>1 DEF Post, Reportable, IInv, VisibleReleased
<1>3. Receiving(n, r) \in Handler /\ Sound(Receiving(n, r), released, succeeded)
  BY <1>2, ReceivingSound
<1>4. posts' \in [Nodes -> [Results -> Nat]]
  BY DEF Post, IInv, TypeOK
<1>5. /\ Become(w, Receiving(n, r))
      /\ UNCHANGED <<flow, node, queue, sent, bills, used, released, succeeded>>
  BY DEF Post
<1> QED
  BY <1>3, <1>4, <1>5, TableStep DEF IInv, TypeOK, VisibleReleased

LEMMA ConsumePreserves ==
  ASSUME IInv, Consume
  PROVE  IInv'
<1> DEFINE n == Head(queue).node
           r == Head(queue).status
<1>1. /\ Head(queue) \in Message /\ n \in released
      /\ queue' \in Seq(Message)
      /\ \A i \in 1..Len(queue') : queue'[i].node \in released
  BY TailReleased DEF Consume, IInv, TypeOK, VisibleReleased
<1>2. r \in Results /\ Consumer \in Procs
  BY <1>1 DEF Message, Procs
<1>3. Receiving(n, r) \in Handler /\ Sound(Receiving(n, r), released, succeeded)
  BY <1>1, <1>2, ReceivingSound
<1>4. /\ Become(Consumer, Receiving(n, r))
      /\ UNCHANGED <<flow, node, sent, posts, bills, used, released, succeeded>>
  BY DEF Consume
<1> HIDE DEF n, r
<1> QED
  BY <1>1, <1>2, <1>3, <1>4, TableStep DEF IInv, TypeOK, VisibleReleased

\* The only step that lets a node succeed: it is released.
LEMMA RecvSavePreserves ==
  ASSUME IInv, NEW w \in Procs, RecvSave(w)
  PROVE  IInv'
<1> DEFINE n == handler[w].node
           next(p) == [handler[w] EXCEPT !.rows = NoRows, !.pc = p]
<1>h. handler[w] \in Handler /\ Sound(handler[w], released, succeeded)
  BY DEF IInv, TypeOK, HandlersSound
<1>1. n \in released /\ handler[w].op \in Results /\ handler[w].pc = "recvSave"
  BY <1>h DEF RecvSave, At, Sound
<1>2. /\ succeeded' = IF handler[w].op = "Success" THEN succeeded \cup {n} ELSE succeeded
      /\ UNCHANGED <<flow, queue, sent, posts, bills, used, released>>
      /\ node' = SavedNodes(w)
  BY DEF RecvSave
<1>3. \A m \in Nodes : handler[w].rows[m].status \in Active => m \in released
  BY <1>h, <1>1 DEF Sound
<1>4. /\ SavedNodes(w) \in [Nodes -> NodeRow]
      /\ \A m \in Nodes : SavedNodes(w)[m].status \in Active => m \in released
  BY <1>3, SavedNodesReleased DEF IInv, VisibleReleased
<1>5. /\ next("allSame") \in Handler
      /\ next("flowRead") \in Handler
  BY <1>h, NoRowsInactive, Names DEF Handler
<1>6. /\ n \in succeeded' => Sound(next("allSame"), released', succeeded')
      /\ Sound(next("flowRead"), released', succeeded')
  BY <1>h, NoRowsInactive DEF Handler, Sound, ServingSteps, SuccessSteps
<1>7. \E r \in Handler : Become(w, r) /\ Sound(r, released', succeeded')
  <2>1. CASE handler[w].op = "Success"
    <3>1. Become(w, next("allSame")) /\ n \in succeeded'
      BY <1>2, <2>1, <1>h DEF RecvSave, Become, Handler
    <3> QED
      BY <1>5, <1>6, <3>1
  <2>2. CASE handler[w].op = "Continued"
    <3>1. Become(w, Idle)
      BY <2>2 DEF RecvSave, Return
    <3> QED
      BY <3>1, IdleSound
  <2>3. CASE handler[w].op \notin {"Success", "Continued"}
    <3>1. Become(w, next("flowRead"))
      BY <2>3, <1>h DEF RecvSave, Become, Handler
    <3> QED
      BY <1>5, <1>6, <3>1
  <2> QED
    BY <2>1, <2>2, <2>3
<1>8. handler' \in [Procs -> Handler] /\ HandlersSound'
  BY <1>2, <1>7, BecomeSound DEF IInv, TypeOK
<1>9. HistoryOrdered' /\ succeeded' \subseteq Nodes
  BY <1>1, <1>2 DEF IInv, HistoryOrdered, TypeOK
<1>10. VisibleReleased'
  BY <1>2, <1>4 DEF IInv, VisibleReleased
<1> QED
  BY <1>2, <1>4, <1>8, <1>9, <1>10 DEF IInv, TypeOK

LEMMA FlowPreserves ==
  ASSUME IInv, NEW w \in Procs, FlowRead(w) \/ FlowSave(w)
  PROVE  IInv'
<1> USE DEF IInv
<1>h. handler[w] \in Handler /\ Sound(handler[w], released, succeeded)
  BY DEF TypeOK, HandlersSound
<1>1. CASE FlowRead(w)
  <2> DEFINE f(x) == [flow EXCEPT !.status = x]
             r(x) == [handler[w] EXCEPT !.pc = "flowSave", !.copy = f(x)]
  <2>1. \/ Return(w)
        \/ Become(w, r("Error")) \/ Become(w, r("Paused")) \/ Become(w, r("Stopped"))
    BY <1>1 DEF FlowRead
  <2>2. handler[w].pc = "flowRead"
    BY <1>1 DEF FlowRead, At
  <2>3. ASSUME NEW x \in {"Error", "Paused", "Stopped"}, Become(w, r(x))
        PROVE  IInv'
    <3>1. f(x) \in FlowRow
      BY FlowCopy, Names DEF TypeOK, Active
    <3> HIDE DEF f
    <3>2. r(x) \in Handler
      BY <1>h, <3>1, Names DEF Handler
    <3>3. Sound(r(x), released, succeeded)
      BY <1>h, <2>2 DEF Handler, Sound, ServingSteps, SuccessSteps
    <3> HIDE DEF r
    <3> QED
      BY <1>1, <2>3, <3>2, <3>3, LocalStep DEF FlowRead, TypeOK
  <2>4. CASE Return(w)
    BY <1>1, <2>4, ReturnStep DEF FlowRead, TypeOK
  <2> QED
    BY <2>1, <2>3, <2>4
<1>2. CASE FlowSave(w)
  BY <1>2, IdleSound, SavedFlowType, TableStep DEF FlowSave, Return, TypeOK, VisibleReleased
<1> QED
  BY <1>1, <1>2

(***************************************************************************)
(* pause_workflow, continue_workflow and terminate_workflow.               *)
(***************************************************************************)
LEMMA OperateReadPreserves ==
  ASSUME IInv, NEW w \in Procs, (\E op \in UserOps : Operate(w, op)) \/ OpNodes(w)
  PROVE  IInv'
<1> USE DEF IInv
<1>h. handler[w] \in Handler /\ Sound(handler[w], released, succeeded)
  BY DEF TypeOK, HandlersSound
<1>t. \A op \in UserOps : Target(op) \in FlowStatus /\ Target(op) \in NodeStatus
  BY Names DEF UserOps, Target, Active
<1>1. CASE \E op \in UserOps : Operate(w, op)
  <2>1. PICK op \in UserOps : Operate(w, op)
    BY <1>1
  <2> DEFINE f == [flow EXCEPT !.status = Target(op)]
             r == [Idle EXCEPT !.pc = "opNodes", !.op = op, !.copy = f]
  <2>2. f \in FlowRow
    BY <1>t, FlowCopy DEF TypeOK
  <2>3. Become(w, r)
    BY <2>1 DEF Operate
  <2> HIDE DEF f
  <2>4. r \in Handler
    BY <2>2, IdleSound, Names DEF Handler
  <2>5. Sound(r, released, succeeded)
    BY IdleSound, IdleRows, NoRowsInactive DEF Handler, Sound, ServingSteps, SuccessSteps
  <2>6. used' \in [{"start", "op", "fail", "crash"} -> Nat]
    <3>1. used' = [used EXCEPT !["op"] = @ + 1]
      BY <2>1 DEF Operate
    <3> QED
      BY <3>1 DEF TypeOK
  <2> QED
    BY <2>1, <2>3, <2>4, <2>5, <2>6, LocalStep DEF Operate
<1>2. CASE OpNodes(w)
  <2> DEFINE op == handler[w].op
             T == {n \in Nodes : node[n].status \in Touched(op)}
             x == Target(op)
             t == SetStatus(T, x)
             r == [handler[w] EXCEPT !.pc = "op", !.todo = T, !.rows = t]
  <2>1. op \in UserOps /\ handler[w].pc = "opNodes"
    BY <1>h, <1>2 DEF OpNodes, At, Sound
  <2>2. Touched(op) \subseteq Active
    BY <2>1 DEF Touched, UserOps, Active
  <2>3. T \subseteq Nodes /\ T \subseteq released
    BY <2>2 DEF VisibleReleased
  <2>4. Become(w, r)
    BY <1>2 DEF OpNodes
  <2> HIDE DEF T
  <2>5. t \in [Nodes -> NodeRow] /\ \A n \in Nodes : t[n].status \in Active => n \in T
    <3>1. x \in NodeStatus
      BY <1>t, <2>1
    <3> HIDE DEF x
    <3> QED
      BY <3>1, SetStatusRows
  <2> HIDE DEF t
  <2>6. r \in Handler
    BY <1>h, <2>3, <2>5, Names DEF Handler
  <2>7. Sound(r, released, succeeded)
    BY <1>h, <2>1, <2>3, <2>5 DEF Handler, Sound, ServingSteps, SuccessSteps
  <2> QED
    BY <1>2, <2>4, <2>6, <2>7, LocalStep DEF OpNodes, TypeOK
<1> QED
  BY <1>1, <1>2

LEMMA OperateNodePreserves ==
  ASSUME IInv, NEW w \in Procs, OpNoAction(w) \/ OpAgent(w)
  PROVE  IInv'
<1> USE DEF IInv
<1>h. handler[w] \in Handler /\ Sound(handler[w], released, succeeded)
  BY DEF TypeOK, HandlersSound
<1>1. handler[w].todo \subseteq released /\ handler[w].pc = "op" /\ handler[w].op \in UserOps
  BY <1>h DEF OpNoAction, OpAgent, At, Sound, ServingSteps
<1>2. ASSUME NEW n \in handler[w].todo
      PROVE  [handler[w] EXCEPT !.todo = @ \ {n}] \in Handler
             /\ Sound([handler[w] EXCEPT !.todo = @ \ {n}], released, succeeded)
  <2> DEFINE T == handler[w].todo \ {n}
             r == [handler[w] EXCEPT !.todo = T]
  <2>1. T \subseteq Nodes /\ T \subseteq released
    BY <1>1 DEF TypeOK
  <2>2. r = [handler[w] EXCEPT !.todo = @ \ {n}]
    BY <1>h DEF Handler
  <2> HIDE DEF T
  <2>3. r \in Handler
    BY <1>h, <2>1 DEF Handler
  <2>4. Sound(r, released, succeeded)
    BY <1>h, <1>1, <2>1 DEF Handler, Sound, ServingSteps, SuccessSteps
  <2> QED
    BY <2>2, <2>3, <2>4
<1>3. CASE OpNoAction(w)
  <2>1. PICK n \in handler[w].todo :
          /\ queue' = Append(queue, [node |-> n, status |-> NoActionResult(handler[w].op)])
          /\ Become(w, [handler[w] EXCEPT !.todo = @ \ {n}])
    BY <1>3 DEF OpNoAction
  <2> DEFINE m == [node |-> n, status |-> NoActionResult(handler[w].op)]
             r == [handler[w] EXCEPT !.todo = @ \ {n}]
  <2>2. m \in Message /\ m.node \in released
    BY <1>1 DEF Message, Results, NoActionResult, UserOps, TypeOK
  <2> HIDE DEF m
  <2>3. queue' = Append(queue, m)
    BY <2>1 DEF m
  <2>4. queue' \in Seq(Message) /\ \A i \in 1..Len(queue') : queue'[i].node \in released
    BY <2>2, <2>3, AppendReleased DEF TypeOK, VisibleReleased
  <2>5. r \in Handler /\ Sound(r, released, succeeded) /\ Become(w, r)
    BY <1>2, <2>1
  <2> HIDE DEF r
  <2> QED
    BY <1>3, <2>4, <2>5, TableStep DEF OpNoAction, TypeOK, VisibleReleased
<1>4. CASE OpAgent(w)
  <2>1. PICK n \in handler[w].todo :
          /\ sent' = [sent EXCEPT ![n][CommandOf(handler[w].op)] = @ + 1]
          /\ Become(w, [handler[w] EXCEPT !.todo = @ \ {n}])
    BY <1>4 DEF OpAgent
  <2> DEFINE r == [handler[w] EXCEPT !.todo = @ \ {n}]
             c == CommandOf(handler[w].op)
  <2>2. c \in Commands /\ n \in released
    BY <1>1 DEF CommandOf, Commands, UserOps
  <2> HIDE DEF c
  <2>3. sent' = [sent EXCEPT ![n][c] = @ + 1]
    BY <2>1 DEF c
  <2>4. /\ sent' \in [Nodes -> [Commands -> Nat]]
        /\ \A v \in Nodes, d \in Commands : sent'[v][d] > 0 => v \in released
    BY <2>2, <2>3, SentReleased
  <2>5. r \in Handler /\ Sound(r, released, succeeded) /\ Become(w, r)
    BY <1>2, <2>1
  <2> HIDE DEF r
  <2> QED
    BY <1>4, <2>4, <2>5, TableStep DEF OpAgent, TypeOK, VisibleReleased
<1> QED
  BY <1>3, <1>4

LEMMA OperateEndPreserves ==
  ASSUME IInv, NEW w \in Procs, OpError(w) \/ OpSave(w)
  PROVE  IInv'
<1> USE DEF IInv
<1>1. CASE OpError(w)
  BY <1>1, ReturnStep DEF OpError, TypeOK
<1>2. CASE OpSave(w)
  <2>1. \A n \in Nodes : handler[w].rows[n].status \in Active => n \in released
    BY <1>2 DEF OpSave, At, HandlersSound, Sound
  <2>2. /\ SavedNodes(w) \in [Nodes -> NodeRow]
        /\ \A n \in Nodes : SavedNodes(w)[n].status \in Active => n \in released
    BY <2>1, SavedNodesReleased DEF VisibleReleased
  <2> QED
    BY <1>2, <2>2, IdleSound, SavedFlowType, TableStep
       DEF OpSave, Return, TypeOK, VisibleReleased
<1> QED
  BY <1>1, <1>2

(***************************************************************************)
(* Failures.                                                               *)
(***************************************************************************)
LEMMA FailurePreserves ==
  ASSUME IInv, (\E w \in Procs : HandlerError(w)) \/ Crash
  PROVE  IInv'
<1> USE DEF IInv
<1>1. CASE \E w \in Procs : HandlerError(w)
  <2>1. PICK w \in Procs : HandlerError(w)
    BY <1>1
  <2>2. used' \in [{"start", "op", "fail", "crash"} -> Nat]
    BY <2>1 DEF HandlerError, TypeOK
  <2> QED
    BY <2>1, <2>2, ReturnStep DEF HandlerError
<1>2. CASE Crash
  <2>1. handler' = [w \in Procs |-> Idle]
    BY <1>2 DEF Crash
  <2>s. handler' \in [Procs -> Handler] /\ HandlersSound'
    BY <2>1, IdleSound DEF HandlersSound
  <2>u. used' \in [{"start", "op", "fail", "crash"} -> Nat]
    BY <1>2 DEF Crash, TypeOK
  <2>2. queue' \in Seq(Message) /\ Len(queue') = 0
    BY <1>2 DEF Crash
  <2>3. HistoryOrdered' /\ VisibleReleased'
    BY <1>2, <2>2 DEF Crash, HistoryOrdered, VisibleReleased
  <2> QED
    BY <1>2, <2>s, <2>u, <2>2, <2>3 DEF Crash, TypeOK
<1> QED
  BY <1>1, <1>2

(***************************************************************************)
(* The inductive invariant.                                                *)
(***************************************************************************)
LEMMA InitIInv == Init => IInv
<1> SUFFICES ASSUME Init PROVE IInv
  OBVIOUS
<1>1. flow \in FlowRow /\ node \in [Nodes -> NodeRow]
  BY IdleRows, NoRowsInactive DEF Init
<1>2. handler \in [Procs -> Handler] /\ HandlersSound
  BY IdleSound DEF Init, HandlersSound
<1>3. TypeOK
  BY <1>1, <1>2 DEF Init, TypeOK
<1>4. HistoryOrdered /\ VisibleReleased
  BY NoRowsInactive DEF Init, HistoryOrdered, VisibleReleased
<1> QED
  BY <1>2, <1>3, <1>4 DEF IInv

LEMMA StepIInv ==
  ASSUME IInv, NEW w \in Procs, Step(w)
  PROVE  IInv'
<1>1. CASE SubmitNodes(w) \/ StartNodes(w) \/ StartSave(w)
  BY <1>1, SubmitPreserves, StartPreserves
<1>2. CASE SchedFlow(w) \/ SchedFlowSave(w) \/ SchedStandby(w)
  BY <1>2, ScheduleStartPreserves
<1>3. CASE AllSame(w) \/ GetFlow(w) \/ GetStandby(w)
  BY <1>3, ScheduleSuccessPreserves
<1>4. CASE Finish(w) \/ TaskRows(w) \/ TaskSave(w)
  BY <1>4, FinishPreserves, TaskRowsPreserves, TaskSavePreserves
<1>5. CASE SendNoAction(w) \/ SendRead(w) \/ SendSave(w) \/ SendTask(w)
  BY <1>5, SendNoActionPreserves, SendTaskPreserves
<1>6. CASE SendMilestone(w) \/ SendDone(w) \/ Bill(w)
  BY <1>6, SendEndPreserves
<1>7. CASE RecvSave(w) \/ FlowRead(w) \/ FlowSave(w)
  BY <1>7, RecvSavePreserves, FlowPreserves
<1>8. CASE OpNodes(w) \/ OpNoAction(w) \/ OpAgent(w) \/ OpError(w) \/ OpSave(w)
  BY <1>8, OperateReadPreserves, OperateNodePreserves, OperateEndPreserves
<1> QED
  BY <1>1, <1>2, <1>3, <1>4, <1>5, <1>6, <1>7, <1>8 DEF Step

LEMMA NextIInv == IInv /\ [Next]_vars => IInv'
<1> SUFFICES ASSUME IInv, [Next]_vars PROVE IInv'
  OBVIOUS
<1>1. ASSUME NEW w \in Workers, Request(w)
      PROVE  IInv'
  <2>1. w \in Procs
    BY DEF Procs
  <2> QED
    BY <1>1, <2>1, SubmitPreserves, StartPreserves, OperateReadPreserves, PostPreserves DEF Request
<1>2. CASE Consume
  BY <1>2, ConsumePreserves
<1>3. CASE \E w \in Procs : Step(w)
  BY <1>3, StepIInv
<1>4. CASE (\E w \in Procs : HandlerError(w)) \/ Crash
  BY <1>4, FailurePreserves
<1>5. CASE UNCHANGED vars
  BY <1>5 DEF vars, IInv, TypeOK, HistoryOrdered, VisibleReleased, HandlersSound
<1> QED
  BY <1>1, <1>2, <1>3, <1>4, <1>5 DEF Next

\* What every handler relies on holds in every reachable state, whatever the
\* graph, the number of handlers and the number of restarts, operations,
\* repeated results, failures and crashes.
THEOREM InductiveInvariant == Spec => []IInv
<1> QED
  BY InitIInv, NextIInv, PTL DEF Spec

\* The tables, the queue and the handlers keep their types: every status that
\* is written is one of the enumerations NodeInstanceStatus and
\* WorkflowInstanceStatus, every queued message is a TaskResult.
THEOREM TypeCorrect == Spec => []TypeOK
<1>1. IInv => TypeOK
  BY DEF IInv
<1> QED
  BY <1>1, InductiveInvariant, PTL

\* A node whose task is with an agent, or whose row shows progress, has only
\* predecessors that have succeeded (schedule.rs:65-99 with status_receiver.rs:23-40).
THEOREM Order == Spec => []DispatchedInOrder
<1>1. IInv => DispatchedInOrder
  BY DEF IInv, VisibleReleased, HistoryOrdered, DispatchedInOrder
<1> QED
  BY <1>1, InductiveInvariant, PTL

(***************************************************************************)
(* Refinement.                                                             *)
(***************************************************************************)
LEMMA InitRefines == Init => DO!Init
BY DEF Init, DO!Init

\* A save of Running rows is a release, a save of a Success lets a node
\* succeed, and every other step leaves both histories alone.
LEMMA NextRefines == IInv /\ [Next]_vars => [DO!Next]_(DO!vars)
<1> SUFFICES ASSUME IInv, [Next]_vars PROVE DO!Next \/ UNCHANGED <<released, succeeded>>
  BY DEF DO!vars
<1>1. ASSUME NEW w \in Procs, TaskSave(w)
      PROVE  DO!Next
  <2>1. /\ handler[w].todo \in SUBSET Nodes
        /\ \A n \in handler[w].todo : Pred[n] \subseteq succeeded
    BY <1>1 DEF TaskSave, At, IInv, TypeOK, Handler, HandlersSound, Sound
  <2>2. released' = released \cup handler[w].todo /\ UNCHANGED succeeded
    BY <1>1 DEF TaskSave
  <2>3. DO!Release
    BY <2>1, <2>2 DEF DO!Release
  <2> QED
    BY <2>3 DEF DO!Next
<1>2. ASSUME NEW w \in Procs, RecvSave(w)
      PROVE  DO!Next \/ UNCHANGED <<released, succeeded>>
  <2>1. handler[w].node \in released
    BY <1>2 DEF RecvSave, At, IInv, HandlersSound, Sound
  <2>2. UNCHANGED released
        /\ (succeeded' = succeeded \cup {handler[w].node} \/ UNCHANGED succeeded)
    BY <1>2 DEF RecvSave
  <2> QED
    BY <2>1, <2>2 DEF DO!Next, DO!Succeed
<1>3. ASSUME NEW w \in Procs, Step(w), ~ TaskSave(w), ~ RecvSave(w)
      PROVE  UNCHANGED <<released, succeeded>>
  BY <1>3 DEF Step, SubmitNodes, StartNodes, StartSave, SchedFlow, SchedFlowSave, SchedStandby,
     AllSame, GetFlow, GetStandby, Finish, TaskRows, SendNoAction, SendMilestone, SendRead,
     SendSave, SendTask, SendDone, Bill, FlowRead, FlowSave, OpNodes, OpNoAction, OpAgent,
     OpError, OpSave
<1>4. ASSUME NEW w \in Procs, Request(w) \/ HandlerError(w)
      PROVE  UNCHANGED <<released, succeeded>>
  BY <1>4 DEF Request, SubmitFlow, StartWorkflow, Operate, Post, HandlerError
<1>5. CASE Consume \/ Crash \/ UNCHANGED vars
  BY <1>5 DEF Consume, Crash, vars
<1> QED
  BY <1>1, <1>2, <1>3, <1>4, <1>5 DEF Next, Procs

\* The workflow engine implements DependencyOrder: no interleaving of its
\* handlers, no restart, late result, failure or crash lets a scheduler release
\* a node before all its predecessors have succeeded.
THEOREM Refinement == Spec => OrderSpec
<1>1. Spec => DO!Spec
  BY InitRefines, NextRefines, InductiveInvariant, PTL DEF Spec, DO!Spec
<1> QED
  BY <1>1 DEF OrderSpec

-----------------------------------------------------------------------------
(***************************************************************************)
(* When a workflow is started once, a task is sent after its row was       *)
(* committed; and, when nothing is operated and results arrive once, it is *)
(* sent once, and a finished node stays so.                                *)
(***************************************************************************)
\* The statuses of a node that was not released.
Waiting == {"None", "Created", "Pending", "Standby"}

\* The steps of a start before its first tasks are released, ...
Early == {"startNodes", "startSave", "schedFlow", "schedFlowSave", "schedStandby",
          "taskRows", "taskSave", "finish"}
Starting(h) == h.op = "Start" /\ h.pc \in Early

\* ... those of a scheduler that has chosen, or has sent, its tasks, ...
Chosen == {"taskRows", "taskSave", "finish", "send", "sendSave", "sendTask"}

\* ... and those that commit, or lead to a commit, of the flow row.
FlowSteps == Early \cup Chosen \cup {"getStandby", "flowSave", "opNodes", "op"}

\* Whose statement is pending: that of a node waits only in a start; ...
Writes(h, n) ==
  \/ Starting(h)
  \/ h.pc = "taskSave" /\ n \in h.todo /\ h.rows[n].status = "Running"
  \/ h.pc = "sendSave" /\ n = h.cur /\ h.rows[n].status \notin Waiting
  \/ h.pc = "recvSave" /\ n = h.node /\ h.rows[n].status = ResultStatus(h.op)
  \/ h.pc = "op" /\ h.rows[n].status = Target(h.op)

\* ... and what a handler is at, on behalf of whom.
Orderly(h, S) ==
  /\ h.pc \in {"startNodes", "startSave", "schedFlow", "schedFlowSave", "schedStandby"} =>
       h.op = "Start"
  /\ h.pc \in SuccessSteps => h.op = "Success"
  /\ h.pc \in Chosen /\ h.op # "Start" => h.op = "Success" /\ h.node \in S
  /\ h.pc = "taskSave" => \A n \in h.todo : h.rows[n].status = "Running"
  /\ h.pc \in {"sendSave", "sendTask"} => h.cur \in h.todo
  /\ h.pc \in FlowSteps => h.copy.status # "None"
  /\ \A n \in Nodes : h.rows[n] # NoRow => Writes(h, n)

HandlersOrderly == \A w \in Procs : Orderly(handler[w], succeeded)

\* Nothing happens before the workflow is submitted.
Unborn ==
  flow.status = "None" =>
    /\ flow = NoFlow /\ node = NoRows /\ queue = <<>> /\ released = {}
    /\ \A w \in Procs : handler[w] = Idle

\* Until its rows are inserted, nothing is written.
Unwritten ==
  \A w \in Procs :
    At(w, "submitNodes") => node = NoRows /\ \A v \in Procs : handler[v].rows = NoRows
                            /\ (At(v, "submitNodes") => v = w)

\* A workflow is started once, and nothing is released before.
OneStart ==
  /\ \A w \in Procs : handler[w].op = "Start" => used["start"] > 0
  /\ \A v, w \in Procs : handler[v].op = "Start" /\ handler[w].op = "Start" => v = w
  /\ used["start"] = 0 => released = {}
  /\ used["start"] <= 1
  /\ \A w \in Procs : Starting(handler[w]) => released = {}

\* A released node does not wait.
Committed == \A n \in released : node[n].status \notin Waiting

Starts == HandlersOrderly /\ Unborn /\ Unwritten /\ OneStart /\ Committed

-----------------------------------------------------------------------------
(* What a step of one handler leaves true.                                 *)

\* A step gives one handler a record and keeps the others.
LEMMA Became ==
  ASSUME TypeOK, TypeOK', NEW w \in Procs, NEW r, Become(w, r)
  PROVE  /\ r \in Handler /\ handler'[w] = r /\ handler[w] \in Handler
         /\ \A v \in Procs : v # w => handler'[v] = handler[v]
BY DEF TypeOK, Become

\* Once there is a workflow, there is one for good.
LEMMA Born ==
  ASSUME TypeOK, HandlersOrderly, Unborn, NEW w \in Procs, handler[w] # Idle \/ flow # NoFlow
  PROVE  /\ flow.status # "None"
         /\ At(w, "startSave") \/ handler[w].pc \in FlowSteps => SavedFlow(w).status # "None"
<1>1. flow.status # "None"
  BY DEF Unborn
<1>2. handler[w].pc \in FlowSteps => handler[w].copy.status # "None"
  BY DEF HandlersOrderly, Orderly
<1> QED
  BY <1>1, <1>2 DEF SavedFlow, At, FlowSteps, Early

\* An orderly handler stays so as more nodes succeed.
LEMMA OrderlyStays ==
  ASSUME NEW h, NEW S, NEW T, S \subseteq T, Orderly(h, S)
  PROVE  Orderly(h, T)
BY DEF Orderly

LEMMA IdleOrderly ==
  ASSUME NEW S
  PROVE  Orderly(Idle, S) /\ ~Starting(Idle)
<1>1. Idle.pc = "idle" /\ Idle.rows = NoRows
  BY DEF Idle
<1>2. \A n \in Nodes : NoRows[n] = NoRow
  BY DEF NoRows
<1> QED
  BY <1>1, <1>2 DEF Orderly, Starting, SuccessSteps, Chosen, FlowSteps, Early

\* A step of one handler that neither submits nor releases anything.
LEMMA StartsStep ==
  ASSUME TypeOK, TypeOK', Starts, NEW w \in Procs, NEW r, Become(w, r),
         succeeded \subseteq succeeded', Orderly(r, succeeded'),
         flow'.status # "None", r.pc # "submitNodes",
         \A v \in Procs : At(v, "submitNodes") /\ v # w => node' = NoRows /\ r.rows = NoRows,
         used'["start"] = used["start"], r.op = "Start" => handler[w].op = "Start",
         Starting(r) => Starting(handler[w]),
         released' = released, Committed'
  PROVE  Starts'
<1>1. /\ handler'[w] = r
      /\ \A v \in Procs : v # w => handler'[v] = handler[v]
  BY Became
<1>2. HandlersOrderly'
  <2> SUFFICES ASSUME NEW v \in Procs PROVE Orderly(handler'[v], succeeded')
    BY DEF HandlersOrderly
  <2>1. Orderly(handler[v], succeeded')
    BY OrderlyStays DEF Starts, HandlersOrderly
  <2> QED
    BY <1>1, <2>1
<1>3. Unborn'
  BY DEF Unborn
<1>4. Unwritten'
  <2> SUFFICES ASSUME NEW u \in Procs, handler'[u].pc = "submitNodes", NEW v \in Procs
               PROVE  /\ node' = NoRows /\ handler'[v].rows = NoRows
                      /\ handler'[v].pc = "submitNodes" => v = u
    BY DEF Unwritten, At
  <2>1. u # w /\ handler[u].pc = "submitNodes"
    BY <1>1
  <2>2. node' = NoRows /\ r.rows = NoRows
    BY <2>1 DEF At
  <2> QED
    BY <1>1, <2>1, <2>2 DEF Starts, Unwritten, At
<1>5. OneStart'
  <2>1. \A v \in Procs : handler'[v].op = "Start" => handler[v].op = "Start"
    BY <1>1
  <2>2. \A v \in Procs : Starting(handler'[v]) => Starting(handler[v])
    BY <1>1
  <2> QED
    BY <2>1, <2>2 DEF Starts, OneStart
<1> QED
  BY <1>2, <1>3, <1>4, <1>5 DEF Starts

\* A step of one handler that writes nothing.
LEMMA StartsLocal ==
  ASSUME TypeOK, TypeOK', Starts, NEW w \in Procs, NEW r, Become(w, r),
         handler[w] # Idle \/ flow # NoFlow,
         UNCHANGED <<flow, node, released, succeeded>>, used'["start"] = used["start"],
         Orderly(r, succeeded), r.pc # "submitNodes",
         node = NoRows => r.rows \in {NoRows, handler[w].rows},
         r.op = "Start" => handler[w].op = "Start",
         Starting(r) => Starting(handler[w])
  PROVE  Starts'
<1>1. flow'.status # "None"
  BY Born DEF Starts
<1>2. \A v \in Procs : At(v, "submitNodes") /\ v # w => node' = NoRows /\ r.rows = NoRows
  BY DEF Starts, Unwritten
<1>3. Committed'
  BY DEF Starts, Committed
<1> QED
  BY <1>1, <1>2, <1>3, StartsStep

\* A handler that returns.
LEMMA StartsReturn ==
  ASSUME TypeOK, TypeOK', Starts, NEW w \in Procs, Return(w), handler[w] # Idle,
         UNCHANGED <<flow, node, released, succeeded>>, used'["start"] = used["start"]
  PROVE  Starts'
<1>1. Idle.pc = "idle" /\ Idle.op = "None" /\ Idle.rows = NoRows
  BY DEF Idle
<1> QED
  BY <1>1, StartsLocal, IdleOrderly DEF Return

\* What a handler writes is not seen to wait, if its node was released.
LEMMA SavedCommitted ==
  ASSUME IInv, Starts, NEW w \in Procs, ~At(w, "submitNodes")
  PROVE  /\ \A n \in released : SavedNodes(w)[n].status \notin Waiting
         /\ \A v \in Procs : At(v, "submitNodes") /\ v # w => SavedNodes(w) = NoRows
<1>1. ASSUME NEW n \in released
      PROVE  SavedNodes(w)[n].status \notin Waiting
  <2>1. n \in Nodes /\ node[n].status \notin Waiting
    BY DEF IInv, TypeOK, Starts, Committed
  <2>2. CASE handler[w].rows[n] = NoRow
    BY <2>1, <2>2 DEF SavedNodes
  <2>3. CASE handler[w].rows[n] # NoRow
    <3>1. Writes(handler[w], n) /\ ~Starting(handler[w])
      BY <2>1, <2>3 DEF Starts, HandlersOrderly, Orderly, OneStart
    <3>2. /\ handler[w].pc = "recvSave" => handler[w].op \in Results
          /\ handler[w].pc = "op" => handler[w].op \in UserOps
      BY DEF IInv, HandlersSound, Sound
    <3>3. /\ \A r \in Results : ResultStatus(r) \notin Waiting
          /\ \A op \in UserOps : Target(op) \notin Waiting
      BY DEF Results, UserOps, ResultStatus, Target, Waiting
    <3>4. handler[w].rows[n].status \notin Waiting
      BY <3>1, <3>2, <3>3 DEF Writes, Waiting
    <3> QED
      BY <2>1, <2>3, <3>4 DEF SavedNodes
  <2> QED
    BY <2>2, <2>3
<1>2. ASSUME NEW v \in Procs, At(v, "submitNodes"), v # w
      PROVE  SavedNodes(w) = NoRows
  <2>1. node = NoRows /\ handler[w].rows = NoRows
    BY <1>2 DEF Starts, Unwritten
  <2> QED
    BY <2>1 DEF SavedNodes, NoRows
<1> QED
  BY <1>1, <1>2

\* A step of one handler that runs its statements.
LEMMA StartsSave ==
  ASSUME IInv, TypeOK', Starts, NEW w \in Procs, NEW r, Become(w, r),
         handler[w] # Idle, ~At(w, "submitNodes"),
         node' = SavedNodes(w),
         flow' = flow \/ (flow' = SavedFlow(w) /\ handler[w].pc \in FlowSteps),
         UNCHANGED <<used, released>>, succeeded \subseteq succeeded',
         Orderly(r, succeeded'), r.pc # "submitNodes", r.rows = NoRows,
         r.op = "Start" => handler[w].op = "Start",
         Starting(r) => Starting(handler[w])
  PROVE  Starts'
<1>1. flow'.status # "None"
  BY Born DEF Starts, IInv
<1>2. Committed'
  BY SavedCommitted DEF Committed
<1>3. \A v \in Procs : At(v, "submitNodes") /\ v # w => node' = NoRows /\ r.rows = NoRows
  BY SavedCommitted
<1> QED
  BY <1>1, <1>2, <1>3, StartsStep DEF IInv
-----------------------------------------------------------------------------
(* submit_workflow and start_workflow.                                     *)

LEMMA SubmitStarts ==
  ASSUME IInv, IInv', Starts, NEW w \in Procs, SubmitFlow(w) \/ SubmitNodes(w)
  PROVE  Starts'
<1>t. TypeOK /\ TypeOK'
  BY DEF IInv
<1>1. CASE SubmitFlow(w)
  <2> DEFINE r == [Idle EXCEPT !.pc = "submitNodes", !.op = "Submit"]
  <2>1. r.pc = "submitNodes" /\ r.op = "Submit" /\ r.rows = NoRows
    BY DEF Idle
  <2>2. Become(w, r) /\ UNCHANGED <<node, used, released, succeeded>>
    BY <1>1 DEF SubmitFlow
  <2>3. flow'.status = "Created"
    BY <1>1 DEF SubmitFlow
  <2> HIDE DEF r
  <2>4. /\ handler'[w] = r
        /\ \A v \in Procs : v # w => handler'[v] = handler[v]
    BY <1>t, <2>2, Became
  <2>5. node = NoRows /\ \A v \in Procs : handler[v] = Idle
    BY <1>1 DEF SubmitFlow, NoFlow, Starts, Unborn
  <2>6. Idle.pc = "idle" /\ Idle.rows = NoRows
    BY DEF Idle
  <2>7. Orderly(r, succeeded)
    BY <2>1 DEF Orderly, SuccessSteps, Chosen, FlowSteps, Early, NoRows
  <2>8. HandlersOrderly'
    BY <2>2, <2>4, <2>7 DEF Starts, HandlersOrderly
  <2>9. Unwritten'
    BY <2>1, <2>2, <2>4, <2>5, <2>6 DEF Unwritten, At
  <2>10. ~Starting(r) /\ r.op # "Start"
    BY <2>1 DEF Starting
  <2>11. OneStart'
    BY <2>2, <2>4, <2>10 DEF Starts, OneStart
  <2>12. Committed' /\ Unborn'
    BY <2>2, <2>3 DEF Starts, Committed, Unborn
  <2> QED
    BY <2>8, <2>9, <2>11, <2>12 DEF Starts
<1>2. CASE SubmitNodes(w)
  <2>1. /\ Become(w, Idle) /\ UNCHANGED <<flow, used, released, succeeded>>
        /\ At(w, "submitNodes")
    BY <1>2 DEF SubmitNodes, Return
  <2>2. Idle.pc = "idle" /\ Idle.op = "None"
    BY DEF Idle
  <2>3. \A v \in Procs : At(v, "submitNodes") => v = w
    BY <2>1 DEF Starts, Unwritten
  <2>4. released = {}
    <3>1. node = NoRows
      BY <2>1 DEF Starts, Unwritten
    <3>2. \A n \in Nodes : NoRows[n].status \in Waiting
      BY DEF NoRows, NoRow, Waiting
    <3> QED
      BY <1>t, <3>1, <3>2 DEF Starts, Committed, TypeOK
  <2>5. Committed'
    BY <2>1, <2>4 DEF Committed
  <2>6. flow'.status # "None"
    BY <1>t, <2>1, <2>2, Born DEF At, Starts
  <2> QED
    BY <1>t, <2>1, <2>2, <2>3, <2>5, <2>6, IdleOrderly, StartsStep
<1> QED
  BY <1>1, <1>2

\* Statements about all nodes say nothing of nodes that have no rows.
LEMMA SetRows ==
  ASSUME TypeOK, NEW S, NEW s
  PROVE  /\ \A n \in Nodes : SetStatus(S, s)[n] # NoRow => n \in S /\ SetStatus(S, s)[n].status = s
         /\ S \subseteq {n \in Nodes : Exists(n)} /\ node = NoRows => SetStatus(S, s) = NoRows
<1>1. ASSUME NEW n \in Nodes, SetStatus(S, s)[n] # NoRow
      PROVE  n \in S /\ SetStatus(S, s)[n].status = s
  BY <1>1 DEF SetStatus, TypeOK, NodeRow
<1>2. ASSUME S \subseteq {n \in Nodes : Exists(n)}, node = NoRows
      PROVE  SetStatus(S, s) = NoRows
  <2>1. \A n \in Nodes : n \notin S
    BY <1>2 DEF Exists, NoRows
  <2> QED
    BY <2>1 DEF SetStatus, NoRows
<1> QED
  BY <1>1, <1>2

LEMMA StartStarts ==
  ASSUME MaxStart <= 1, IInv, IInv', Starts, NEW w \in Procs,
         StartWorkflow(w) \/ StartNodes(w) \/ StartSave(w)
  PROVE  Starts'
<1>t. TypeOK /\ TypeOK' /\ handler[w] \in Handler
  BY DEF IInv, TypeOK
<1>o. Orderly(handler[w], succeeded)
  BY DEF Starts, HandlersOrderly
<1>1. CASE StartWorkflow(w)
  <2> DEFINE f == [flow EXCEPT !.status = "Pending"]
             r == [Idle EXCEPT !.pc = "startNodes", !.op = "Start", !.copy = f]
  <2>1. f.status = "Pending"
    BY <1>t DEF TypeOK, FlowRow
  <2> HIDE DEF f
  <2>2. r.pc = "startNodes" /\ r.op = "Start" /\ r.rows = NoRows /\ r.copy = f
    BY DEF Idle
  <2>3. /\ Become(w, r) /\ UNCHANGED <<flow, node, released, succeeded>>
        /\ flow # NoFlow /\ At(w, "idle")
        /\ used["start"] < MaxStart /\ used'["start"] = used["start"] + 1
    BY <1>1, <1>t DEF StartWorkflow, f, TypeOK
  <2> HIDE DEF r
  <2>4. used["start"] \in Nat /\ MaxStart \in Nat
    BY <1>t, ModelAssumption DEF TypeOK
  <2>5. used["start"] = 0 /\ used'["start"] = 1
    BY <2>3, <2>4
  <2>6. released = {} /\ \A v \in Procs : handler[v].op # "Start"
    BY <2>5 DEF Starts, OneStart
  <2>7. /\ handler'[w] = r
        /\ \A v \in Procs : v # w => handler'[v] = handler[v]
    BY <1>t, <2>3, Became
  <2>8. Orderly(r, succeeded)
    BY <2>1, <2>2 DEF Orderly, SuccessSteps, Chosen, NoRows
  <2>9. HandlersOrderly'
    BY <2>3, <2>7, <2>8 DEF Starts, HandlersOrderly
  <2>10. Unborn'
    BY <2>3 DEF Starts, Unborn
  <2>11. Unwritten'
    BY <2>2, <2>3, <2>7 DEF Starts, Unwritten, At
  <2>12. OneStart'
    BY <2>3, <2>5, <2>6, <2>7 DEF OneStart
  <2>13. Committed'
    BY <2>3, <2>6 DEF Committed
  <2> QED
    BY <2>9, <2>10, <2>11, <2>12, <2>13 DEF Starts
<1>2. CASE StartNodes(w)
  <2> DEFINE S == {n \in Nodes : Exists(n)}
             t == SetStatus(S, "Pending")
             r == [handler[w] EXCEPT !.pc = "startSave", !.rows = t]
  <2>1. node = NoRows => t = NoRows
    BY <1>t, SetRows
  <2> HIDE DEF t
  <2>2. r.pc = "startSave" /\ r.op = handler[w].op /\ r.rows = t /\ r.copy = handler[w].copy
    BY <1>t DEF Handler
  <2>3. Become(w, r) /\ handler[w].pc = "startNodes"
        /\ UNCHANGED <<flow, node, used, released, succeeded>>
    BY <1>2 DEF StartNodes, At, t
  <2> HIDE DEF r
  <2>4. handler[w].op = "Start" /\ handler[w].copy.status # "None"
    BY <1>o, <2>3 DEF Orderly, FlowSteps, Early
  <2>5. Starting(handler[w])
    BY <2>3, <2>4 DEF Starting, Early
  <2>6. Orderly(r, succeeded)
    BY <2>2, <2>4 DEF Orderly, Writes, Starting, Early, SuccessSteps, Chosen
  <2>7. handler[w] # Idle
    BY <2>3 DEF Idle
  <2> QED
    BY <1>t, <2>1, <2>2, <2>3, <2>5, <2>6, <2>7, StartsLocal
<1>3. CASE StartSave(w)
  <2> DEFINE r == [handler[w] EXCEPT !.pc = "schedFlow", !.rows = NoRows]
  <2>2. r.pc = "schedFlow" /\ r.op = handler[w].op /\ r.rows = NoRows /\ r.copy = handler[w].copy
    BY <1>t DEF Handler
  <2>3. Become(w, r) /\ handler[w].pc = "startSave" /\ UNCHANGED <<used, released, succeeded>>
        /\ node' = SavedNodes(w) /\ flow' = SavedFlow(w)
    BY <1>3 DEF StartSave, At
  <2> HIDE DEF r
  <2>4. handler[w].op = "Start" /\ handler[w].copy.status # "None"
    BY <1>o, <2>3 DEF Orderly, FlowSteps, Early
  <2>5. Starting(handler[w]) /\ handler[w].pc \in FlowSteps /\ ~At(w, "submitNodes")
    BY <2>3, <2>4 DEF Starting, Early, FlowSteps, At
  <2>6. Orderly(r, succeeded)
    BY <2>2, <2>4 DEF Orderly, SuccessSteps, Chosen, NoRows
  <2>7. handler[w] # Idle
    BY <2>3 DEF Idle
  <2> QED
    BY <1>t, <2>2, <2>3, <2>5, <2>6, <2>7, StartsSave
<1> QED
  BY <1>1, <1>2, <1>3
-----------------------------------------------------------------------------
(* schedule_next_nodes.                                                    *)

\* What a dispatch makes of a handler in state h.
Dispatched(h, r, entry, t) ==
  /\ r.op = h.op /\ r.node = h.node /\ r.rows = t
  /\ \/ r.pc = "finish" /\ r.copy.status = "Finished"
     \/ r.pc = "taskRows" /\ r.copy = h.copy /\ r.todo = Tasks(entry \cap Roots)

LEMMA DispatchRecord ==
  ASSUME TypeOK, NEW w \in Procs, NEW entry, NEW t, Dispatch(w, entry, t)
  PROVE  \E r : Become(w, r) /\ Dispatched(handler[w], r, entry, t)
<1>h. handler[w] \in Handler
  BY DEF TypeOK
<1>1. CASE entry = {}
  <2> DEFINE f == [handler[w].copy EXCEPT !.status = "Finished"]
             r == [handler[w] EXCEPT !.pc = "finish", !.copy = f, !.rows = t]
  <2>1. f.status = "Finished"
    BY <1>h DEF Handler, FlowRow
  <2>2. Become(w, r)
    BY <1>1, <1>h DEF Dispatch, Become, Handler
  <2> HIDE DEF f
  <2>3. r.pc = "finish" /\ r.op = handler[w].op /\ r.node = handler[w].node /\ r.rows = t /\ r.copy = f
    BY <1>h DEF Handler
  <2> QED
    BY <2>1, <2>2, <2>3 DEF Dispatched
<1>2. CASE entry # {}
  <2> DEFINE T == Tasks(entry \cap Roots)
             r == [handler[w] EXCEPT !.pc = "taskRows", !.todo = T, !.rows = t]
  <2>1. Become(w, r)
    BY <1>2 DEF Dispatch
  <2> HIDE DEF T
  <2>2. /\ r.pc = "taskRows" /\ r.op = handler[w].op /\ r.node = handler[w].node /\ r.rows = t
        /\ r.copy = handler[w].copy /\ r.todo = T
    BY <1>h DEF Handler
  <2> QED
    BY <2>1, <2>2 DEF T, Dispatched
<1> QED
  BY <1>1, <1>2

LEMMA ScheduleStartStarts ==
  ASSUME IInv, IInv', Starts, NEW w \in Procs, SchedFlow(w) \/ SchedFlowSave(w) \/ SchedStandby(w)
  PROVE  Starts'
<1>t. TypeOK /\ TypeOK' /\ handler[w] \in Handler
  BY DEF IInv, TypeOK
<1>o. Orderly(handler[w], succeeded)
  BY DEF Starts, HandlersOrderly
<1>1. CASE SchedFlow(w)
  <2> DEFINE f == [flow EXCEPT !.status = "Running"]
             r == [handler[w] EXCEPT !.pc = "schedFlowSave", !.copy = f]
  <2>1. f.status = "Running"
    BY <1>t DEF TypeOK, FlowRow
  <2> HIDE DEF f
  <2>2. r.pc = "schedFlowSave" /\ r.op = handler[w].op /\ r.rows = handler[w].rows /\ r.copy = f
    BY <1>t DEF Handler
  <2>3. Become(w, r) /\ handler[w].pc = "schedFlow"
        /\ UNCHANGED <<flow, node, used, released, succeeded>>
    BY <1>1 DEF SchedFlow, At, f
  <2> HIDE DEF r
  <2>4. handler[w].op = "Start"
    BY <1>o, <2>3 DEF Orderly
  <2>5. Starting(handler[w])
    BY <2>3, <2>4 DEF Starting, Early
  <2>6. Orderly(r, succeeded)
    BY <2>1, <2>2, <2>4 DEF Orderly, Writes, Starting, Early, SuccessSteps, Chosen
  <2>7. handler[w] # Idle
    BY <2>3 DEF Idle
  <2> QED
    BY <1>t, <2>2, <2>3, <2>5, <2>6, <2>7, StartsLocal
<1>2. CASE SchedFlowSave(w)
  <2> DEFINE r == [handler[w] EXCEPT !.pc = "schedStandby"]
  <2>2. r.pc = "schedStandby" /\ r.op = handler[w].op /\ r.rows = handler[w].rows
        /\ r.copy = handler[w].copy
    BY <1>t DEF Handler
  <2>3. Become(w, r) /\ handler[w].pc = "schedFlowSave" /\ UNCHANGED <<node, used, released, succeeded>>
        /\ flow' = SavedFlow(w)
    BY <1>2 DEF SchedFlowSave, At
  <2> HIDE DEF r
  <2>4. handler[w].op = "Start" /\ handler[w].copy.status # "None"
    BY <1>o, <2>3 DEF Orderly, FlowSteps, Early
  <2>5. Starting(handler[w]) /\ handler[w].pc \in FlowSteps
    BY <2>3, <2>4 DEF Starting, Early, FlowSteps
  <2>6. Orderly(r, succeeded)
    BY <2>2, <2>4 DEF Orderly, Writes, Starting, Early, SuccessSteps, Chosen
  <2>7. handler[w] # Idle
    BY <2>3 DEF Idle
  <2>8. flow'.status # "None"
    BY <1>t, <2>3, <2>5, <2>7, Born DEF Starts
  <2>9. Committed'
    BY <2>3 DEF Starts, Committed
  <2>10. \A v \in Procs : At(v, "submitNodes") /\ v # w => node' = NoRows /\ r.rows = NoRows
    BY <2>2, <2>3 DEF Starts, Unwritten
  <2> QED
    BY <1>t, <2>2, <2>3, <2>5, <2>6, <2>8, <2>9, <2>10, StartsStep
<1>3. CASE SchedStandby(w)
  <2> DEFINE entry == EntryIds(Roots, Relations)
             S == {n \in Tasks(Roots \ entry) : Exists(n)}
             t == SetStatus(S, "Standby")
  <2>1. handler[w].pc = "schedStandby" /\ UNCHANGED <<flow, node, used, released, succeeded>>
    BY <1>3 DEF SchedStandby, At
  <2>2. handler[w].op = "Start" /\ handler[w].copy.status # "None" /\ handler[w] # Idle
    BY <1>o, <2>1 DEF Orderly, FlowSteps, Early, Idle
  <2>3. Starting(handler[w])
    BY <2>1, <2>2 DEF Starting, Early
  <2>4. CASE Return(w)
    BY <1>t, <2>1, <2>2, <2>4, StartsReturn
  <2>5. CASE Dispatch(w, entry, t)
    <3>1. S \subseteq {n \in Nodes : Exists(n)}
      BY DEF Tasks, Nodes
    <3>2. node = NoRows => t = NoRows
      BY <1>t, <3>1, SetRows
    <3> HIDE DEF t, entry
    <3>3. PICK r : Become(w, r) /\ Dispatched(handler[w], r, entry, t)
      BY <1>t, <2>5, DispatchRecord
    <3>a. r.op = handler[w].op /\ r.rows = t /\ r.pc # "submitNodes"
      BY <3>3 DEF Dispatched
    <3>4. Orderly(r, succeeded)
      BY <2>2, <3>3 DEF Dispatched, Orderly, Writes, Starting, Early, SuccessSteps, Chosen
    <3> QED
      BY <1>t, <2>1, <2>2, <2>3, <3>2, <3>3, <3>a, <3>4, StartsLocal
  <2> QED
    BY <1>3, <2>4, <2>5 DEF SchedStandby
<1> QED
  BY <1>1, <1>2, <1>3

LEMMA ScheduleSuccessStarts ==
  ASSUME IInv, IInv', Starts, NEW w \in Procs, AllSame(w) \/ GetFlow(w) \/ GetStandby(w)
  PROVE  Starts'
<1>t. TypeOK /\ TypeOK' /\ handler[w] \in Handler
  BY DEF IInv, TypeOK
<1>o. Orderly(handler[w], succeeded)
  BY DEF Starts, HandlersOrderly
<1>1. /\ handler[w].pc \in SuccessSteps /\ UNCHANGED <<flow, node, used, released, succeeded>>
  BY DEF AllSame, GetFlow, GetStandby, At, SuccessSteps
<1>2. handler[w] # Idle /\ handler[w].op = "Success" /\ handler[w].node \in succeeded
  BY <1>o, <1>1 DEF Orderly, SuccessSteps, Idle, IInv, HandlersSound, Sound
<1>3. \A n \in Nodes : handler[w].rows[n] = NoRow
  BY <1>o, <1>1, <1>2 DEF Orderly, Writes, Starting, SuccessSteps
<1>4. flow.status # "None"
  BY <1>t, <1>2, Born DEF Starts
<1>5. CASE Return(w)
  BY <1>t, <1>1, <1>2, <1>5, StartsReturn
<1>6. CASE Become(w, [handler[w] EXCEPT !.pc = "getFlow"])
  <2> DEFINE r == [handler[w] EXCEPT !.pc = "getFlow"]
  <2>1. r.pc = "getFlow" /\ r.op = handler[w].op /\ r.rows = handler[w].rows
    BY <1>t DEF Handler
  <2>2. Become(w, r)
    BY <1>6
  <2> HIDE DEF r
  <2>3. Orderly(r, succeeded) /\ ~Starting(r)
    BY <1>2, <1>3, <2>1 DEF Orderly, Starting, SuccessSteps, Chosen, FlowSteps, Early
  <2> QED
    BY <1>t, <1>1, <1>2, <2>1, <2>2, <2>3, StartsLocal
<1>7. CASE GetFlow(w)
  <2> DEFINE r == [handler[w] EXCEPT !.pc = "getStandby", !.copy = flow]
  <2>1. r.pc = "getStandby" /\ r.op = handler[w].op /\ r.rows = handler[w].rows /\ r.copy = flow
    BY <1>t DEF Handler
  <2>2. Become(w, r)
    BY <1>7 DEF GetFlow
  <2> HIDE DEF r
  <2>3. Orderly(r, succeeded) /\ ~Starting(r)
    BY <1>2, <1>3, <1>4, <2>1 DEF Orderly, Starting, SuccessSteps, Chosen, Early
  <2> QED
    BY <1>t, <1>1, <1>2, <2>1, <2>2, <2>3, StartsLocal
<1>8. CASE GetStandby(w)
  <2> DEFINE entry == EntryIds({n \in Nodes : node[n].status = "Standby"},
                               DependenciesWithout(handler[w].node))
  <2>1. Dispatch(w, entry, NoRows) /\ handler[w].pc = "getStandby"
    BY <1>8 DEF GetStandby, At
  <2> HIDE DEF entry
  <2>2. PICK r : Become(w, r) /\ Dispatched(handler[w], r, entry, NoRows)
    BY <1>t, <2>1, DispatchRecord
  <2>a. r.op = handler[w].op /\ r.rows = NoRows /\ r.pc # "submitNodes"
    BY <2>2 DEF Dispatched
  <2>3. handler[w].copy.status # "None"
    BY <1>o, <2>1 DEF Orderly, FlowSteps
  <2>4. Orderly(r, succeeded) /\ ~Starting(r)
    BY <1>2, <2>2, <2>3 DEF Dispatched, Orderly, Starting, SuccessSteps, NoRows
  <2> QED
    BY <1>t, <1>1, <1>2, <2>2, <2>a, <2>4, StartsLocal
<1> QED
  BY <1>5, <1>6, <1>7, <1>8 DEF AllSame

\* A schedule that ends.
LEMMA AfterScheduleStarts ==
  ASSUME TypeOK, TypeOK', NEW w \in Procs, NEW S, AfterSchedule(w)
  PROVE  \E r : /\ Become(w, r) /\ r.rows = NoRows /\ r.pc \in {"idle", "bill"} /\ ~Starting(r)
                /\ r.op = "Start" => handler[w].op = "Start"
                /\ Orderly(r, S)
<1>h. handler[w] \in Handler
  BY DEF TypeOK
<1>1. CASE handler[w].op = "Start"
  <2>1. Become(w, Idle) /\ Idle.pc = "idle" /\ Idle.rows = NoRows
    BY <1>1 DEF AfterSchedule, Return, Idle
  <2> QED
    BY <1>1, <2>1, IdleOrderly
<1>2. CASE handler[w].op # "Start"
  <2> DEFINE r == [handler[w] EXCEPT !.pc = "bill", !.copy = NoFlow, !.rows = NoRows]
  <2>1. r.pc = "bill" /\ r.op = handler[w].op /\ r.rows = NoRows
    BY <1>h DEF Handler
  <2>2. Become(w, r)
    BY <1>2 DEF AfterSchedule
  <2> HIDE DEF r
  <2>3. Orderly(r, S) /\ ~Starting(r)
    BY <2>1 DEF Orderly, Starting, SuccessSteps, Chosen, FlowSteps, Early, NoRows
  <2> QED
    BY <1>2, <2>1, <2>2, <2>3
<1> QED
  BY <1>1, <1>2

LEMMA FinishStarts ==
  ASSUME IInv, IInv', Starts, NEW w \in Procs, Finish(w)
  PROVE  Starts'
<1>t. TypeOK /\ TypeOK'
  BY DEF IInv
<1>1. /\ handler[w].pc = "finish" /\ node' = SavedNodes(w) /\ flow' = SavedFlow(w)
      /\ AfterSchedule(w) /\ UNCHANGED <<used, released, succeeded>>
  BY DEF Finish, At
<1>2. PICK r : /\ Become(w, r) /\ r.rows = NoRows /\ r.pc \in {"idle", "bill"} /\ ~Starting(r)
               /\ r.op = "Start" => handler[w].op = "Start"
               /\ Orderly(r, succeeded)
  BY <1>t, <1>1, AfterScheduleStarts
<1>3. handler[w] # Idle /\ handler[w].pc \in FlowSteps /\ ~At(w, "submitNodes")
  BY <1>1 DEF Idle, FlowSteps, Early, At
<1>4. Orderly(r, succeeded') /\ succeeded \subseteq succeeded' /\ r.pc # "submitNodes"
  BY <1>1, <1>2
<1> QED
  BY <1>t, <1>1, <1>2, <1>3, <1>4, StartsSave
-----------------------------------------------------------------------------
(* Tasks are committed, then sent.                                         *)

LEMMA TaskRowsStarts ==
  ASSUME IInv, IInv', Starts, NEW w \in Procs, TaskRows(w)
  PROVE  Starts'
<1>t. TypeOK /\ TypeOK' /\ handler[w] \in Handler
  BY DEF IInv, TypeOK
<1>o. Orderly(handler[w], succeeded)
  BY DEF Starts, HandlersOrderly
<1>1. handler[w].pc = "taskRows" /\ UNCHANGED <<flow, node, used, released, succeeded>>
  BY DEF TaskRows, At
<1>2. handler[w] # Idle /\ handler[w].todo \subseteq Nodes /\ handler[w].copy.status # "None"
  BY <1>t, <1>o, <1>1 DEF Idle, Handler, Orderly, FlowSteps, Early
<1>3. CASE Return(w)
  BY <1>t, <1>1, <1>2, <1>3, StartsReturn
<1>4. ASSUME \A n \in handler[w].todo : Exists(n),
             Become(w, [handler[w] EXCEPT !.pc = "taskSave", !.rows = RunningRows(w)])
      PROVE  Starts'
  <2> DEFINE t == RunningRows(w)
             r == [handler[w] EXCEPT !.pc = "taskSave", !.rows = t]
  <2>1. \A n \in Nodes : t[n] = IF n \in handler[w].todo THEN [node[n] EXCEPT !.status = "Running"]
                                                         ELSE handler[w].rows[n]
    BY DEF RunningRows
  <2>2. \A n \in handler[w].todo : t[n].status = "Running"
    BY <1>t, <1>2, <2>1 DEF TypeOK, NodeRow
  <2>3. ASSUME node = NoRows
        PROVE  t = handler[w].rows
    <3>1. \A n \in Nodes : n \notin handler[w].todo
      BY <1>4, <2>3 DEF Exists, NoRows
    <3>2. handler[w].rows \in [Nodes -> NodeRow]
      BY <1>t DEF Handler
    <3> QED
      BY <3>1, <3>2 DEF RunningRows
  <2> HIDE DEF t
  <2>4. /\ r.pc = "taskSave" /\ r.op = handler[w].op /\ r.node = handler[w].node /\ r.rows = t
        /\ r.todo = handler[w].todo /\ r.copy = handler[w].copy
    BY <1>t DEF Handler
  <2>5. Become(w, r)
    BY <1>4 DEF t
  <2> HIDE DEF r
  <2>6. Starting(r) => Starting(handler[w])
    BY <1>1, <2>4 DEF Starting, Early
  <2>7. ASSUME NEW n \in Nodes, t[n] # NoRow PROVE Writes(r, n)
    <3>1. CASE n \in handler[w].todo
      BY <2>2, <2>4, <3>1 DEF Writes
    <3>2. CASE n \notin handler[w].todo
      <4>1. Writes(handler[w], n)
        BY <1>o, <2>1, <2>7, <3>2 DEF Orderly
      <4> QED
        BY <1>1, <2>4, <4>1 DEF Writes, Starting, Early
    <3> QED
      BY <3>1, <3>2
  <2>8. Orderly(r, succeeded)
    BY <1>o, <1>1, <1>2, <2>2, <2>4, <2>7 DEF Orderly, SuccessSteps, Chosen
  <2> QED
    BY <1>t, <1>1, <1>2, <2>3, <2>4, <2>5, <2>6, <2>8, StartsLocal
<1> QED
  BY <1>3, <1>4 DEF TaskRows

LEMMA TaskSaveStarts ==
  ASSUME IInv, IInv', Starts, NEW w \in Procs, TaskSave(w)
  PROVE  Starts'
<1>t. TypeOK /\ TypeOK' /\ handler[w] \in Handler
  BY DEF IInv, TypeOK
<1>o. Orderly(handler[w], succeeded)
  BY DEF Starts, HandlersOrderly
<1> DEFINE r == [handler[w] EXCEPT !.pc = "send", !.rows = NoRows]
<1>1. /\ handler[w].pc = "taskSave" /\ node' = SavedNodes(w) /\ released' = released \cup handler[w].todo
      /\ Become(w, r) /\ UNCHANGED <<flow, queue, used, succeeded>>
  BY DEF TaskSave, At
<1>2. /\ r.pc = "send" /\ r.op = handler[w].op /\ r.node = handler[w].node /\ r.rows = NoRows
      /\ r.copy = handler[w].copy
  BY <1>t DEF Handler
<1> HIDE DEF r
<1>3. handler'[w] = r /\ \A v \in Procs : v # w => handler'[v] = handler[v]
  BY <1>t, <1>1, Became
<1>4. Orderly(r, succeeded)
  BY <1>o, <1>1, <1>2 DEF Orderly, SuccessSteps, Chosen, FlowSteps, NoRows
<1>5. HandlersOrderly'
  BY <1>1, <1>3, <1>4 DEF Starts, HandlersOrderly
<1>6. flow.status # "None"
  BY <1>t, <1>1, Born DEF Starts, Idle
<1>7. Unborn'
  BY <1>1, <1>6 DEF Unborn
<1>8. ~At(w, "submitNodes") /\ r.pc # "submitNodes"
  BY <1>1, <1>2 DEF At
<1>9. Unwritten'
  <2>1. \A v \in Procs : At(v, "submitNodes") => node' = NoRows
    BY <1>1, <1>8, SavedCommitted
  <2> QED
    BY <1>2, <1>3, <1>8, <2>1 DEF Starts, Unwritten, At
<1>10. handler[w].op = "Start" \/ released # {}
  BY <1>o, <1>1 DEF Orderly, Chosen, IInv, HistoryOrdered
<1>11. used["start"] # 0 /\ \A v \in Procs : v # w => ~Starting(handler[v])
  BY <1>t, <1>10 DEF Starts, OneStart, Starting, TypeOK
<1>12. ~Starting(r)
  BY <1>2 DEF Starting, Early
<1>13. OneStart'
  <2>1. /\ \A v \in Procs : handler'[v].op = handler[v].op
        /\ \A v \in Procs : ~Starting(handler'[v])
    BY <1>2, <1>3, <1>11, <1>12
  <2> QED
    BY <1>1, <1>11, <2>1 DEF Starts, OneStart
<1>14. Committed'
  <2>1. ASSUME NEW n \in handler[w].todo
        PROVE  SavedNodes(w)[n].status \notin Waiting
    <3>1. n \in Nodes /\ handler[w].rows[n].status = "Running"
      BY <1>t, <1>o, <1>1 DEF Orderly, Handler
    <3>2. handler[w].rows[n] # NoRow
      BY <3>1 DEF NoRow
    <3> QED
      BY <3>1, <3>2 DEF SavedNodes, Waiting
  <2> QED
    BY <1>1, <1>8, <2>1, SavedCommitted DEF Committed
<1> QED
  BY <1>5, <1>7, <1>9, <1>13, <1>14 DEF Starts

\* Handlers that send, and pending statements of theirs.
LEMMA SendStarts ==
  ASSUME IInv, IInv', Starts, NEW w \in Procs,
         SendNoAction(w) \/ SendMilestone(w) \/ SendRead(w) \/ SendSave(w) \/ SendTask(w)
  PROVE  Starts'
<1>t. TypeOK /\ TypeOK' /\ handler[w] \in Handler
  BY DEF IInv, TypeOK
<1>o. Orderly(handler[w], succeeded)
  BY DEF Starts, HandlersOrderly
<1>0. handler[w].pc \in {"send", "sendSave", "sendTask"} /\ UNCHANGED <<flow, used, released, succeeded>>
  BY DEF SendNoAction, SendMilestone, SendRead, SendSave, SendTask, At
<1>a. handler[w] # Idle /\ ~Starting(handler[w]) /\ ~At(w, "submitNodes")
  BY <1>0 DEF Idle, Starting, Early, At
<1>b. handler[w].copy.status # "None" /\ (handler[w].op # "Start" => handler[w].op = "Success" /\ handler[w].node \in succeeded)
  BY <1>o, <1>0 DEF Orderly, FlowSteps, Chosen
<1>c. handler[w].pc # "sendSave" => \A n \in Nodes : handler[w].rows[n] = NoRow
  BY <1>o, <1>0 DEF Orderly, Writes, Starting, Early
<1>1. CASE SendNoAction(w)
  <2>1. PICK n : Become(w, [handler[w] EXCEPT !.todo = @ \ {n}])
    BY <1>1 DEF SendNoAction
  <2> DEFINE r == [handler[w] EXCEPT !.todo = @ \ {n}]
  <2>2. /\ r.pc = handler[w].pc /\ r.op = handler[w].op /\ r.node = handler[w].node
        /\ r.rows = handler[w].rows /\ r.copy = handler[w].copy
    BY <1>t DEF Handler
  <2>3. Become(w, r) /\ UNCHANGED node /\ handler[w].pc = "send"
    BY <1>1, <2>1 DEF SendNoAction, At
  <2> HIDE DEF r
  <2>4. Orderly(r, succeeded) /\ ~Starting(r)
    BY <1>b, <1>c, <2>2, <2>3 DEF Orderly, Starting, Early, SuccessSteps
  <2> QED
    BY <1>t, <1>0, <1>a, <2>2, <2>3, <2>4, StartsLocal
<1>2. CASE SendMilestone(w)
  BY <1>t, <1>0, <1>a, <1>2, StartsReturn DEF SendMilestone
<1>3. CASE SendRead(w)
  <2>1. PICK n \in handler[w].todo :
          Become(w, [handler[w] EXCEPT !.pc = "sendSave", !.cur = n,
                       !.rows = [NoRows EXCEPT ![n] = [node[n] EXCEPT !.cluster = TRUE]]])
    BY <1>3 DEF SendRead
  <2> DEFINE t == [NoRows EXCEPT ![n] = [node[n] EXCEPT !.cluster = TRUE]]
             r == [handler[w] EXCEPT !.pc = "sendSave", !.cur = n, !.rows = t]
  <2>2. n \in released /\ n \in Nodes
    BY <1>t, <1>3 DEF SendRead, At, IInv, HandlersSound, Sound, ServingSteps, Handler
  <2>3. node[n].status \notin Waiting /\ node[n] \in NodeRow
    BY <1>t, <2>2 DEF Starts, Committed, TypeOK
  <2>4. /\ t[n].status = node[n].status
        /\ \A m \in Nodes : m # n => t[m] = NoRow
    BY <2>2, <2>3 DEF NoRows, NodeRow
  <2>5. node # NoRows
    BY <2>2, <2>3 DEF NoRows, NoRow, Waiting
  <2> HIDE DEF t
  <2>6. /\ r.pc = "sendSave" /\ r.op = handler[w].op /\ r.node = handler[w].node
        /\ r.rows = t /\ r.copy = handler[w].copy /\ r.cur = n /\ r.todo = handler[w].todo
    BY <1>t DEF Handler
  <2>7. Become(w, r) /\ UNCHANGED node
    BY <1>3, <2>1 DEF SendRead, t
  <2> HIDE DEF r
  <2>8. Orderly(r, succeeded) /\ ~Starting(r)
    BY <1>b, <2>1, <2>3, <2>4, <2>6 DEF Orderly, Starting, Early, SuccessSteps, Writes
  <2> QED
    BY <1>t, <1>0, <1>a, <2>5, <2>6, <2>7, <2>8, StartsLocal
<1>4. CASE SendSave(w)
  <2> DEFINE r == [handler[w] EXCEPT !.pc = "sendTask", !.rows = NoRows]
  <2>1. /\ r.pc = "sendTask" /\ r.op = handler[w].op /\ r.node = handler[w].node
        /\ r.rows = NoRows /\ r.copy = handler[w].copy /\ r.cur = handler[w].cur
        /\ r.todo = handler[w].todo
    BY <1>t DEF Handler
  <2>2. Become(w, r) /\ node' = SavedNodes(w) /\ handler[w].pc = "sendSave"
    BY <1>4 DEF SendSave, At
  <2> HIDE DEF r
  <2>3. handler[w].cur \in handler[w].todo
    BY <1>o, <2>2 DEF Orderly
  <2>4. Orderly(r, succeeded) /\ ~Starting(r)
    BY <1>b, <2>1, <2>3 DEF Orderly, Starting, Early, SuccessSteps, NoRows
  <2> QED
    BY <1>t, <1>0, <1>a, <2>1, <2>2, <2>4, StartsSave
<1>5. CASE SendTask(w)
  <2> DEFINE n == handler[w].cur
             r == [handler[w] EXCEPT !.pc = "send", !.cur = NoNode, !.todo = @ \ {n}]
  <2>2. /\ r.pc = "send" /\ r.op = handler[w].op /\ r.node = handler[w].node
        /\ r.rows = handler[w].rows /\ r.copy = handler[w].copy
    BY <1>t DEF Handler
  <2>3. Become(w, r) /\ UNCHANGED node /\ handler[w].pc = "sendTask"
    BY <1>5 DEF SendTask, At
  <2> HIDE DEF r
  <2>4. Orderly(r, succeeded) /\ ~Starting(r)
    BY <1>b, <1>c, <2>2, <2>3 DEF Orderly, Starting, Early, SuccessSteps
  <2> QED
    BY <1>t, <1>0, <1>a, <2>2, <2>3, <2>4, StartsLocal
<1> QED
  BY <1>1, <1>2, <1>3, <1>4, <1>5

\* A step of one handler that writes the flow row only.
LEMMA StartsFlow ==
  ASSUME TypeOK, TypeOK', Starts, NEW w \in Procs, NEW r, Become(w, r),
         handler[w].pc \in FlowSteps, flow' = SavedFlow(w),
         UNCHANGED <<node, used, released, succeeded>>,
         Orderly(r, succeeded), r.pc # "submitNodes", r.rows = NoRows,
         r.op = "Start" => handler[w].op = "Start", ~Starting(r)
  PROVE  Starts'
<1>1. handler[w] # Idle
  BY DEF Idle, FlowSteps, Early, Chosen
<1>2. flow'.status # "None"
  BY <1>1, Born DEF Starts
<1>3. Committed'
  BY DEF Starts, Committed
<1>4. \A v \in Procs : At(v, "submitNodes") /\ v # w => node' = NoRows /\ r.rows = NoRows
  BY DEF Starts, Unwritten
<1> QED
  BY <1>2, <1>3, <1>4, StartsStep

LEMMA SendEndStarts ==
  ASSUME IInv, IInv', Starts, NEW w \in Procs, SendDone(w) \/ Bill(w) \/ FlowSave(w)
  PROVE  Starts'
<1>t. TypeOK /\ TypeOK' /\ handler[w] \in Handler
  BY DEF IInv, TypeOK
<1>1. CASE SendDone(w)
  <2>1. /\ handler[w].pc = "send" /\ flow' = SavedFlow(w)
        /\ AfterSchedule(w) /\ UNCHANGED <<node, used, released, succeeded>>
    BY <1>1 DEF SendDone, At
  <2>2. PICK r : /\ Become(w, r) /\ r.rows = NoRows /\ r.pc \in {"idle", "bill"} /\ ~Starting(r)
                 /\ r.op = "Start" => handler[w].op = "Start"
                 /\ Orderly(r, succeeded)
    BY <1>t, <2>1, AfterScheduleStarts
  <2>3. handler[w].pc \in FlowSteps /\ r.pc # "submitNodes"
    BY <2>1, <2>2 DEF FlowSteps, Chosen
  <2> QED
    BY <1>t, <2>1, <2>2, <2>3, StartsFlow
<1>2. CASE Bill(w)
  BY <1>t, <1>2, StartsReturn DEF Bill, At, Idle
<1>3. CASE FlowSave(w)
  <2>1. Idle.pc = "idle" /\ Idle.op = "None" /\ Idle.rows = NoRows
    BY DEF Idle
  <2>2. handler[w].pc \in FlowSteps
    BY <1>3 DEF FlowSave, At, FlowSteps
  <2> QED
    BY <1>t, <1>3, <2>1, <2>2, IdleOrderly, StartsFlow DEF FlowSave, Return
<1> QED
  BY <1>1, <1>2, <1>3
-----------------------------------------------------------------------------
(* receive_node_status.                                                    *)

\* A handler that takes on a result of a released node.
LEMMA ReceivingStarts ==
  ASSUME TypeOK, TypeOK', Starts, NEW w \in Procs, handler[w] # Idle \/ flow # NoFlow,
         NEW n \in released, NEW r \in Results, Become(w, Receiving(n, r)),
         UNCHANGED <<flow, node, used, released, succeeded>>
  PROVE  Starts'
<1> DEFINE t == [NoRows EXCEPT ![n] = [node[n] EXCEPT !.status = ResultStatus(r)]]
           k == [Idle EXCEPT !.pc = "recvSave", !.op = r, !.node = n, !.rows = t]
<1>1. n \in Nodes /\ node[n].status \notin Waiting /\ node[n] \in NodeRow
  BY DEF TypeOK, Starts, Committed
<1>2. /\ t[n].status = ResultStatus(r)
      /\ \A m \in Nodes : m # n => t[m] = NoRow
  BY <1>1 DEF NoRows, NodeRow
<1>3. node # NoRows
  BY <1>1 DEF NoRows, NoRow, Waiting
<1> HIDE DEF t
<1>4. k.pc = "recvSave" /\ k.op = r /\ k.node = n /\ k.rows = t
  BY DEF Idle
<1>5. Become(w, k)
  BY DEF Receiving, t
<1> HIDE DEF k
<1>6. r # "Start"
  BY DEF Results
<1>7. Orderly(k, succeeded) /\ ~Starting(k)
  BY <1>2, <1>4, <1>6 DEF Orderly, Starting, Early, SuccessSteps, Chosen, FlowSteps, Writes
<1> QED
  BY <1>3, <1>4, <1>5, <1>6, <1>7, StartsLocal

LEMMA ReceiveStarts ==
  ASSUME IInv, IInv', Starts, NEW w \in Procs,
         Consume \/ (\E n \in Nodes, r \in Results : Post(w, n, r))
  PROVE  Starts'
<1>t. TypeOK /\ TypeOK'
  BY DEF IInv
<1>1. ASSUME NEW n \in Nodes, NEW r \in Results, Post(w, n, r)
      PROVE  Starts'
  <2>1. n \in released
    BY <1>1 DEF Post, Reportable, IInv, VisibleReleased, Answers, Results, Commands
  <2>2. flow # NoFlow
    BY <2>1 DEF Starts, Unborn, NoFlow
  <2> QED
    BY <1>t, <1>1, <2>1, <2>2, ReceivingStarts DEF Post
<1>2. CASE Consume
  <2>1. queue \in Seq(Message) /\ queue # <<>>
    BY <1>t, <1>2 DEF Consume, TypeOK
  <2>2. 1 \in 1..Len(queue) /\ Head(queue) = queue[1] /\ Head(queue) \in Message
    BY <2>1
  <2>3. Head(queue).node \in released /\ Head(queue).status \in Results
    BY <2>2 DEF IInv, VisibleReleased, Message
  <2>4. flow # NoFlow /\ Consumer \in Procs
    BY <2>3 DEF Starts, Unborn, NoFlow, Procs
  <2> QED
    BY <1>t, <1>2, <2>3, <2>4, ReceivingStarts DEF Consume
<1> QED
  BY <1>1, <1>2

LEMMA RecvSaveStarts ==
  ASSUME IInv, IInv', Starts, NEW w \in Procs, RecvSave(w)
  PROVE  Starts'
<1>t. TypeOK /\ TypeOK' /\ handler[w] \in Handler
  BY DEF IInv, TypeOK
<1> DEFINE next == [handler[w] EXCEPT !.rows = NoRows]
           a == [next EXCEPT !.pc = "allSame"]
           f == [next EXCEPT !.pc = "flowRead"]
<1>1. /\ handler[w].pc = "recvSave" /\ node' = SavedNodes(w)
      /\ succeeded \subseteq succeeded' /\ UNCHANGED <<flow, used, released>>
  BY DEF RecvSave, At
<1>2. handler[w].op \in Results
  BY <1>1 DEF IInv, HandlersSound, Sound
<1>3. \/ handler[w].op = "Success" /\ Become(w, a)
      \/ Return(w)
      \/ Become(w, f)
  BY <1>2 DEF RecvSave, Results
<1>4. /\ a.pc = "allSame" /\ a.op = handler[w].op /\ a.rows = NoRows
      /\ f.pc = "flowRead" /\ f.op = handler[w].op /\ f.rows = NoRows
  BY <1>t DEF Handler
<1>5. handler[w] # Idle /\ ~At(w, "submitNodes")
  BY <1>1 DEF Idle, At
<1> HIDE DEF a, f
<1>6. CASE handler[w].op = "Success" /\ Become(w, a)
  <2>1. Orderly(a, succeeded') /\ ~Starting(a)
    BY <1>4, <1>6 DEF Orderly, Starting, Early, SuccessSteps, Chosen, FlowSteps, NoRows
  <2> QED
    BY <1>t, <1>1, <1>4, <1>5, <1>6, <2>1, StartsSave
<1>7. CASE Return(w)
  <2>1. Idle.pc = "idle" /\ Idle.op = "None" /\ Idle.rows = NoRows
    BY DEF Idle
  <2> QED
    BY <1>t, <1>1, <1>5, <1>7, <2>1, IdleOrderly, StartsSave DEF Return
<1>8. CASE Become(w, f)
  <2>1. Orderly(f, succeeded') /\ ~Starting(f)
    BY <1>4 DEF Orderly, Starting, Early, SuccessSteps, Chosen, FlowSteps, NoRows
  <2> QED
    BY <1>t, <1>1, <1>4, <1>5, <1>8, <2>1, StartsSave
<1> QED
  BY <1>3, <1>6, <1>7, <1>8

LEMMA FlowReadStarts ==
  ASSUME IInv, IInv', Starts, NEW w \in Procs, FlowRead(w)
  PROVE  Starts'
<1>t. TypeOK /\ TypeOK' /\ handler[w] \in Handler
  BY DEF IInv, TypeOK
<1>o. Orderly(handler[w], succeeded)
  BY DEF Starts, HandlersOrderly
<1>1. handler[w].pc = "flowRead" /\ UNCHANGED <<flow, node, used, released, succeeded>>
  BY DEF FlowRead, At
<1>2. handler[w] # Idle
  BY <1>1 DEF Idle
<1>3. \A n \in Nodes : handler[w].rows[n] = NoRow
  BY <1>o, <1>1 DEF Orderly, Writes, Starting, Early
<1>4. ASSUME NEW s \in {"Error", "Paused", "Stopped"},
             Become(w, [handler[w] EXCEPT !.pc = "flowSave", !.copy = [flow EXCEPT !.status = s]])
      PROVE  Starts'
  <2> DEFINE f == [flow EXCEPT !.status = s]
             r == [handler[w] EXCEPT !.pc = "flowSave", !.copy = f]
  <2>1. f.status # "None"
    BY <1>t DEF TypeOK, FlowRow
  <2> HIDE DEF f
  <2>2. r.pc = "flowSave" /\ r.op = handler[w].op /\ r.rows = handler[w].rows /\ r.copy = f
    BY <1>t DEF Handler
  <2>3. Become(w, r)
    BY <1>4 DEF f
  <2> HIDE DEF r
  <2>4. Orderly(r, succeeded) /\ ~Starting(r)
    BY <1>3, <2>1, <2>2 DEF Orderly, Starting, Early, SuccessSteps, Chosen
  <2> QED
    BY <1>t, <1>1, <1>2, <2>2, <2>3, <2>4, StartsLocal
<1>5. CASE Return(w)
  BY <1>t, <1>1, <1>2, <1>5, StartsReturn
<1> QED
  BY <1>4, <1>5 DEF FlowRead

-----------------------------------------------------------------------------
(* pause_workflow, continue_workflow and terminate_workflow.               *)

LEMMA OperateStarts ==
  ASSUME IInv, IInv', Starts, NEW w \in Procs,
         OpNodes(w) \/ OpNoAction(w) \/ OpAgent(w) \/ OpError(w) \/ (\E op \in UserOps : Operate(w, op))
  PROVE  Starts'
<1>t. TypeOK /\ TypeOK' /\ handler[w] \in Handler
  BY DEF IInv, TypeOK
<1>o. Orderly(handler[w], succeeded)
  BY DEF Starts, HandlersOrderly
<1>s. handler[w].pc \in {"opNodes", "op"} => handler[w].op \in UserOps
  BY DEF IInv, HandlersSound, Sound
<1>1. ASSUME NEW op \in UserOps, Operate(w, op)
      PROVE  Starts'
  <2> DEFINE f == [flow EXCEPT !.status = Target(op)]
             r == [Idle EXCEPT !.pc = "opNodes", !.op = op, !.copy = f]
  <2>1. f.status # "None"
    BY <1>t DEF TypeOK, FlowRow, Target, UserOps
  <2> HIDE DEF f
  <2>2. r.pc = "opNodes" /\ r.op = op /\ r.rows = NoRows /\ r.copy = f
    BY DEF Idle
  <2>3. Become(w, r) /\ flow # NoFlow /\ UNCHANGED <<flow, node, released, succeeded>>
        /\ used'["start"] = used["start"]
    BY <1>t, <1>1 DEF Operate, f, TypeOK
  <2> HIDE DEF r
  <2>4. Orderly(r, succeeded) /\ ~Starting(r) /\ op # "Start"
    BY <2>1, <2>2 DEF Orderly, Starting, Early, SuccessSteps, Chosen, NoRows, UserOps
  <2> QED
    BY <1>t, <2>2, <2>3, <2>4, StartsLocal
<1>2. CASE OpNodes(w)
  <2> DEFINE S == {n \in Nodes : node[n].status \in Touched(handler[w].op)}
             s == Target(handler[w].op)
             t == SetStatus(S, s)
             r == [handler[w] EXCEPT !.pc = "op", !.todo = S, !.rows = t]
  <2>1. handler[w].pc = "opNodes" /\ UNCHANGED <<flow, node, used, released, succeeded>>
    BY <1>2 DEF OpNodes, At
  <2>2. handler[w].op \in UserOps /\ handler[w].op # "Start" /\ handler[w].copy.status # "None"
    BY <1>o, <1>s, <2>1 DEF UserOps, Orderly, FlowSteps
  <2>3. \A n \in Nodes : t[n] # NoRow => t[n].status = s
    BY <1>t, SetRows
  <2>4. node = NoRows => t = NoRows
    <3>1. \A n \in S : node[n] # NoRow
      BY <2>2 DEF NoRow, Touched, UserOps
    <3> QED
      BY <1>t, <3>1, SetRows DEF Exists
  <2>5. Become(w, r)
    BY <1>2 DEF OpNodes
  <2> HIDE DEF t, S
  <2>6. r.pc = "op" /\ r.op = handler[w].op /\ r.rows = t /\ r.copy = handler[w].copy
    BY <1>t DEF Handler
  <2> HIDE DEF r
  <2>7. Orderly(r, succeeded) /\ ~Starting(r)
    BY <2>2, <2>3, <2>6 DEF Orderly, Starting, Early, SuccessSteps, Chosen, Writes
  <2>8. handler[w] # Idle
    BY <2>1 DEF Idle
  <2> QED
    BY <1>t, <2>1, <2>2, <2>4, <2>5, <2>6, <2>7, <2>8, StartsLocal
<1>3. ASSUME NEW n, Become(w, [handler[w] EXCEPT !.todo = @ \ {n}]), At(w, "op"),
             UNCHANGED <<flow, node, used, released, succeeded>>
      PROVE  Starts'
  <2> DEFINE r == [handler[w] EXCEPT !.todo = @ \ {n}]
  <2>1. Become(w, r)
    BY <1>3
  <2>2. r.pc = handler[w].pc /\ r.op = handler[w].op /\ r.rows = handler[w].rows /\ r.copy = handler[w].copy
    BY <1>t DEF Handler
  <2> HIDE DEF r
  <2>3. handler[w].op \in UserOps /\ handler[w].op # "Start" /\ handler[w].pc = "op"
    BY <1>s, <1>3 DEF UserOps, At
  <2>4. Orderly(r, succeeded) /\ ~Starting(r)
    BY <1>o, <2>2, <2>3 DEF Orderly, Starting, Early, SuccessSteps, Chosen, Writes
  <2>5. handler[w] # Idle
    BY <2>3 DEF Idle
  <2> QED
    BY <1>t, <1>3, <2>1, <2>2, <2>3, <2>4, <2>5, StartsLocal
<1>4. CASE OpNoAction(w)
  BY <1>3, <1>4 DEF OpNoAction
<1>5. CASE OpAgent(w)
  BY <1>3, <1>5 DEF OpAgent
<1>6. CASE OpError(w)
  BY <1>t, <1>6, StartsReturn DEF OpError, At, Idle
<1> QED
  BY <1>1, <1>2, <1>4, <1>5, <1>6

LEMMA OpSaveStarts ==
  ASSUME IInv, IInv', Starts, NEW w \in Procs, OpSave(w)
  PROVE  Starts'
<1>t. TypeOK /\ TypeOK'
  BY DEF IInv
<1>1. /\ handler[w].pc = "op" /\ node' = SavedNodes(w) /\ flow' = SavedFlow(w)
      /\ Become(w, Idle) /\ UNCHANGED <<used, released, succeeded>>
  BY DEF OpSave, At, Return
<1>2. Idle.pc = "idle" /\ Idle.op = "None" /\ Idle.rows = NoRows
  BY DEF Idle
<1>3. handler[w] # Idle /\ handler[w].pc \in FlowSteps /\ ~At(w, "submitNodes")
  BY <1>1, <1>2 DEF FlowSteps, At
<1> QED
  BY <1>t, <1>1, <1>2, <1>3, IdleOrderly, StartsSave

-----------------------------------------------------------------------------
(* The invariant.                                                          *)

LEMMA FailureStarts ==
  ASSUME IInv, IInv', Starts, Crash \/ (\E w \in Procs : HandlerError(w))
  PROVE  Starts'
<1>t. TypeOK /\ TypeOK'
  BY DEF IInv
<1>1. ASSUME NEW w \in Procs, HandlerError(w)
      PROVE  Starts'
  <2>1. used'["start"] = used["start"]
    BY <1>t, <1>1 DEF HandlerError, TypeOK
  <2> QED
    BY <1>t, <1>1, <2>1, StartsReturn DEF HandlerError, At, Idle
<1>2. CASE Crash
  <2>1. /\ \A v \in Procs : handler'[v] = Idle
        /\ queue' = <<>> /\ UNCHANGED <<flow, node, released, succeeded>>
        /\ used'["start"] = used["start"]
    BY <1>t, <1>2 DEF Crash, TypeOK
  <2>2. Idle.pc = "idle" /\ Idle.op = "None"
    BY DEF Idle
  <2>3. HandlersOrderly'
    BY <2>1, IdleOrderly DEF HandlersOrderly
  <2>4. Unborn'
    BY <2>1 DEF Starts, Unborn
  <2>5. Unwritten'
    BY <2>1, <2>2 DEF Unwritten, At
  <2>6. OneStart'
    BY <2>1, <2>2, IdleOrderly DEF Starts, OneStart
  <2>7. Committed'
    BY <2>1 DEF Starts, Committed
  <2> QED
    BY <2>3, <2>4, <2>5, <2>6, <2>7 DEF Starts
<1> QED
  BY <1>1, <1>2

LEMMA InitStarts == Init => Starts
<1> SUFFICES ASSUME Init PROVE Starts
  OBVIOUS
<1>1. Idle.pc = "idle" /\ Idle.op = "None" /\ \A w \in Procs : handler[w] = Idle
  BY DEF Init, Idle
<1>2. HandlersOrderly
  BY <1>1, IdleOrderly DEF HandlersOrderly
<1>3. Unborn /\ Committed
  BY <1>1 DEF Init, Unborn, Committed
<1>4. Unwritten
  BY <1>1 DEF Unwritten, At
<1>5. OneStart
  BY <1>1, IdleOrderly DEF Init, OneStart
<1> QED
  BY <1>2, <1>3, <1>4, <1>5 DEF Starts

LEMMA StepStarts ==
  ASSUME MaxStart <= 1, IInv, IInv', Starts, [Next]_vars
  PROVE  Starts'
<1>1. ASSUME NEW w \in Procs, Step(w)
      PROVE  Starts'
  BY <1>1, SubmitStarts, StartStarts, ScheduleStartStarts, ScheduleSuccessStarts, FinishStarts,
     TaskRowsStarts, TaskSaveStarts, SendStarts, SendEndStarts, RecvSaveStarts, FlowReadStarts,
     OperateStarts, OpSaveStarts DEF Step
<1>2. ASSUME NEW w \in Workers, Request(w)
      PROVE  Starts'
  <2>1. w \in Procs
    BY DEF Procs
  <2> QED
    BY <1>2, <2>1, SubmitStarts, StartStarts, OperateStarts, ReceiveStarts DEF Request
<1>3. CASE Consume
  BY <1>3, ReceiveStarts DEF Procs
<1>4. CASE UNCHANGED vars
  BY <1>4 DEF vars, Starts, HandlersOrderly, Unborn, Unwritten, At, OneStart, Committed
<1> QED
  BY <1>1, <1>2, <1>3, <1>4, FailureStarts DEF Next

\* A workflow that is started once: the task of a node is sent after the node was committed as
\* released, and no later write takes it back to a status of a node that waits, whatever
\* operations, crashes and repeated results there are (schedule.rs:226-235, CommitBeforeSend).
THEOREM CommittedFirst == MaxStart <= 1 => (Spec => []CommitBeforeSend)
<1> SUFFICES ASSUME MaxStart <= 1 PROVE Spec => []CommitBeforeSend
  OBVIOUS
<1>1. Init => IInv /\ Starts
  BY InitIInv, InitStarts
<1>2. IInv /\ Starts /\ [Next]_vars => (IInv /\ Starts)'
  BY NextIInv, StepStarts
<1>3. IInv /\ Starts => CommitBeforeSend
  BY DEF IInv, VisibleReleased, Starts, Committed, CommitBeforeSend, Waiting, Commands
<1> QED
  BY <1>1, <1>2, <1>3, PTL DEF Spec
-----------------------------------------------------------------------------
(* Where the statuses Standby and Finished come from.                      *)

\* Only a node with predecessors is made to wait for them; only a node whose success is saved, or is
\* about to be, is Finished.
RowsKnown ==
  /\ \A n \in Nodes :
       /\ node[n].status = "Standby" => Pred[n] # {}
       /\ node[n].status = "Finished" => n \in succeeded
  /\ \A w \in Procs, n \in Nodes :
       /\ handler[w].rows[n].status = "Standby" => Pred[n] # {}
       /\ handler[w].rows[n].status = "Finished" =>
            n \in succeeded \/ (handler[w].pc = "recvSave" /\ handler[w].op = "Success" /\ n = handler[w].node)

\* Rows are copied from the table, and the table from rows.
Copied(w, r) ==
  /\ \A n \in Nodes :
       /\ r.rows[n].status = "Standby" =>
            "Standby" \in {handler[w].rows[n].status, node[n].status} \/ Pred[n] # {}
       /\ r.rows[n].status = "Finished" =>
            \/ node[n].status = "Finished"
            \/ handler[w].rows[n].status = "Finished" /\ handler[w].pc # "recvSave"
            \/ r.pc = "recvSave" /\ r.op = "Success" /\ n = r.node
  /\ \A n \in Nodes :
       /\ node'[n].status = "Standby" => "Standby" \in {handler[w].rows[n].status, node[n].status}
       /\ node'[n].status = "Finished" => "Finished" \in {handler[w].rows[n].status, node[n].status}

LEMMA RowsStep ==
  ASSUME TypeOK, TypeOK', RowsKnown, NEW w \in Procs, NEW r, Become(w, r), Copied(w, r),
         succeeded \subseteq succeeded',
         handler[w].pc = "recvSave" /\ handler[w].op = "Success" /\ node' # node
           => handler[w].node \in succeeded'
  PROVE  RowsKnown'
<1>1. /\ handler'[w] = r
      /\ \A v \in Procs : v # w => handler'[v] = handler[v]
  BY Became
<1>2. ASSUME NEW n \in Nodes
      PROVE  /\ node'[n].status = "Standby" => Pred[n] # {}
             /\ node'[n].status = "Finished" => n \in succeeded'
  BY DEF RowsKnown, Copied
<1>3. ASSUME NEW v \in Procs, NEW n \in Nodes
      PROVE  /\ handler'[v].rows[n].status = "Standby" => Pred[n] # {}
             /\ handler'[v].rows[n].status = "Finished" =>
                  n \in succeeded' \/ (handler'[v].pc = "recvSave" /\ handler'[v].op = "Success" /\ n = handler'[v].node)
  BY <1>1 DEF RowsKnown, Copied
<1> QED
  BY <1>2, <1>3 DEF RowsKnown

\* Nothing is copied by what has no rows and changes none.
LEMMA Uncopied ==
  ASSUME NEW w, NEW r, UNCHANGED node, r.rows = NoRows
  PROVE  Copied(w, r)
BY DEF Copied, NoRows, NoRow

LEMMA SameCopied ==
  ASSUME NEW w, NEW r, UNCHANGED node, r.rows = handler[w].rows, handler[w].pc # "recvSave"
  PROVE  Copied(w, r)
BY DEF Copied

LEMMA SavedCopied ==
  ASSUME NEW w, NEW r, node' = SavedNodes(w), r.rows = NoRows
  PROVE  Copied(w, r)
BY DEF Copied, SavedNodes, NoRows, NoRow

\* A step that changes neither the table nor what has succeeded.
LEMMA RowsLocal ==
  ASSUME IInv, IInv', RowsKnown, NEW w \in Procs, NEW r, Become(w, r), Copied(w, r),
         UNCHANGED <<node, succeeded>>
  PROVE  RowsKnown'
BY RowsStep DEF IInv

\* A step after which nothing is pending, nor changed otherwise.
LEMMA RowsEnd ==
  ASSUME IInv, IInv', RowsKnown, NEW w \in Procs, NEW r, Become(w, r), r.rows = NoRows,
         node' \in {node, SavedNodes(w)}, succeeded \subseteq succeeded',
         handler[w].pc = "recvSave" /\ handler[w].op = "Success" => handler[w].node \in succeeded' \/ node' = node
  PROVE  RowsKnown'
<1>1. Copied(w, r)
  BY Uncopied, SavedCopied
<1> QED
  BY <1>1, RowsStep DEF IInv

\* A step that keeps what is pending.
LEMMA RowsSame ==
  ASSUME IInv, IInv', RowsKnown, NEW w \in Procs, NEW r, Become(w, r), r.rows = handler[w].rows,
         handler[w].pc # "recvSave", UNCHANGED <<node, succeeded>>
  PROVE  RowsKnown'
BY SameCopied, RowsLocal

\* A handler that returns.
LEMMA RowsReturn ==
  ASSUME IInv, IInv', RowsKnown, NEW w \in Procs, Return(w), UNCHANGED <<node, succeeded>>
  PROVE  RowsKnown'
BY RowsEnd DEF Return, Idle

\* The nodes that wait for others are those with predecessors.
LEMMA WaitForOthers ==
  ASSUME NEW n \in Tasks(Roots \ EntryIds(Roots, Relations))
  PROVE  n \in Nodes /\ Pred[n] # {}
<1>1. PICK r \in Roots : r \notin EntryIds(Roots, Relations) /\ (n = r \/ (n \in Subs /\ ParentOf[n] = r))
  BY DEF Tasks
<1>2. PICK d \in Relations : d[2] = r
  BY <1>1 DEF EntryIds
<1>3. d[1] \in Roots /\ d = <<d[1], r>>
  BY <1>2, GraphAssumption
<1>4. n \in Nodes /\ RootOf(n) = r
  BY <1>1, GraphAssumption DEF Nodes, RootOf
<1> QED
  BY <1>2, <1>3, <1>4 DEF Pred

LEMMA StartRows ==
  ASSUME IInv, IInv', RowsKnown, NEW w \in Procs,
         SubmitFlow(w) \/ SubmitNodes(w) \/ StartWorkflow(w) \/ StartNodes(w) \/ StartSave(w)
  PROVE  RowsKnown'
<1>t. TypeOK /\ TypeOK' /\ handler[w] \in Handler
  BY DEF IInv, TypeOK
<1>1. CASE SubmitFlow(w)
  <2> DEFINE r == [Idle EXCEPT !.pc = "submitNodes", !.op = "Submit"]
  <2>1. r.rows = NoRows
    BY DEF Idle
  <2>2. Become(w, r) /\ UNCHANGED <<node, succeeded>>
    BY <1>1 DEF SubmitFlow
  <2> QED
    BY <2>1, <2>2, RowsLocal, Uncopied
<1>2. CASE SubmitNodes(w)
  <2>1. \A n \in Nodes : node'[n].status = "Created"
    BY <1>2 DEF SubmitNodes
  <2>2. Become(w, Idle) /\ succeeded' = succeeded /\ handler[w].pc = "submitNodes"
    BY <1>2 DEF SubmitNodes, Return, At
  <2>3. Idle.rows = NoRows
    BY DEF Idle
  <2>4. Copied(w, Idle)
    BY <2>1, <2>3 DEF Copied, NoRows, NoRow
  <2> QED
    BY <1>t, <2>2, <2>4, RowsStep
<1>3. CASE StartWorkflow(w)
  <2> DEFINE r == [Idle EXCEPT !.pc = "startNodes", !.op = "Start",
                               !.copy = [flow EXCEPT !.status = "Pending"]]
  <2>1. r.rows = NoRows
    BY DEF Idle
  <2>2. Become(w, r) /\ UNCHANGED <<node, succeeded>>
    BY <1>3 DEF StartWorkflow
  <2> QED
    BY <2>1, <2>2, RowsLocal, Uncopied
<1>4. CASE StartNodes(w)
  <2> DEFINE t == SetStatus({n \in Nodes : Exists(n)}, "Pending")
             r == [handler[w] EXCEPT !.pc = "startSave", !.rows = t]
  <2>1. \A n \in Nodes : t[n].status \in {"None", "Pending"}
    BY <1>t, SetRows DEF NoRow
  <2> HIDE DEF t
  <2>2. r.rows = t
    BY <1>t DEF Handler
  <2>3. Become(w, r) /\ UNCHANGED <<node, succeeded>>
    BY <1>4 DEF StartNodes, t
  <2> HIDE DEF r
  <2>4. Copied(w, r)
    BY <2>1, <2>2, <2>3 DEF Copied
  <2> QED
    BY <2>3, <2>4, RowsLocal
<1>5. CASE StartSave(w)
  <2> DEFINE r == [handler[w] EXCEPT !.pc = "schedFlow", !.rows = NoRows]
  <2>1. r.rows = NoRows
    BY <1>t DEF Handler
  <2>2. Become(w, r) /\ node' = SavedNodes(w) /\ succeeded' = succeeded /\ handler[w].pc = "startSave"
    BY <1>5 DEF StartSave, At
  <2> QED
    BY <2>1, <2>2, RowsEnd
<1> QED
  BY <1>1, <1>2, <1>3, <1>4, <1>5

LEMMA ScheduleRows ==
  ASSUME IInv, IInv', RowsKnown, NEW w \in Procs,
         SchedFlow(w) \/ SchedFlowSave(w) \/ SchedStandby(w) \/ AllSame(w) \/ GetFlow(w) \/ GetStandby(w)
  PROVE  RowsKnown'
<1>t. TypeOK /\ TypeOK' /\ handler[w] \in Handler
  BY DEF IInv, TypeOK
<1>0. UNCHANGED <<node, succeeded>> /\ handler[w].pc # "recvSave"
  BY DEF SchedFlow, SchedFlowSave, SchedStandby, AllSame, GetFlow, GetStandby, At
<1>r. CASE Return(w)
  BY <1>0, <1>r, RowsReturn
<1>1. CASE SchedFlow(w)
  <2> DEFINE r == [handler[w] EXCEPT !.pc = "schedFlowSave", !.copy = [flow EXCEPT !.status = "Running"]]
  <2>1. Become(w, r) /\ r.rows = handler[w].rows
    BY <1>t, <1>1 DEF SchedFlow, Handler
  <2> QED
    BY <1>0, <2>1, RowsSame
<1>2. CASE SchedFlowSave(w)
  <2> DEFINE r == [handler[w] EXCEPT !.pc = "schedStandby"]
  <2>1. Become(w, r) /\ r.rows = handler[w].rows
    BY <1>t, <1>2 DEF SchedFlowSave, Handler
  <2> QED
    BY <1>0, <2>1, RowsSame
<1>3. CASE SchedStandby(w)
  <2> DEFINE entry == EntryIds(Roots, Relations)
             S == {n \in Tasks(Roots \ entry) : Exists(n)}
             t == SetStatus(S, "Standby")
  <2>1. ASSUME Dispatch(w, entry, t)
        PROVE  RowsKnown'
    <3>1. \A n \in Nodes : t[n] # NoRow => n \in S /\ t[n].status = "Standby"
      BY <1>t, SetRows
    <3>a. \A n \in S : Pred[n] # {}
      BY WaitForOthers
    <3> HIDE DEF t, entry, S
    <3>2. \A n \in Nodes : /\ t[n].status = "Standby" => Pred[n] # {}
                           /\ t[n].status # "Finished"
      BY <3>1, <3>a DEF NoRow
    <3>3. PICK r : Become(w, r) /\ Dispatched(handler[w], r, entry, t)
      BY <1>t, <2>1, DispatchRecord
    <3>4. Copied(w, r)
      BY <1>0, <3>2, <3>3 DEF Copied, Dispatched
    <3> QED
      BY <1>0, <3>3, <3>4, RowsLocal
  <2> QED
    BY <1>3, <1>r, <2>1 DEF SchedStandby
<1>4. CASE AllSame(w)
  <2> DEFINE r == [handler[w] EXCEPT !.pc = "getFlow"]
  <2>1. Become(w, r) \/ Return(w)
    BY <1>4 DEF AllSame
  <2>2. r.rows = handler[w].rows
    BY <1>t DEF Handler
  <2> QED
    BY <1>0, <1>r, <2>1, <2>2, RowsSame
<1>5. CASE GetFlow(w)
  <2> DEFINE r == [handler[w] EXCEPT !.pc = "getStandby", !.copy = flow]
  <2>1. Become(w, r) /\ r.rows = handler[w].rows
    BY <1>t, <1>5 DEF GetFlow, Handler
  <2> QED
    BY <1>0, <2>1, RowsSame
<1>6. CASE GetStandby(w)
  <2> DEFINE entry == EntryIds({n \in Nodes : node[n].status = "Standby"},
                               DependenciesWithout(handler[w].node))
  <2>1. Dispatch(w, entry, NoRows)
    BY <1>6 DEF GetStandby
  <2> HIDE DEF entry
  <2>2. PICK r : Become(w, r) /\ Dispatched(handler[w], r, entry, NoRows)
    BY <1>t, <2>1, DispatchRecord
  <2>3. r.rows = NoRows
    BY <2>2 DEF Dispatched
  <2> QED
    BY <1>0, <2>2, <2>3, RowsLocal, Uncopied
<1> QED
  BY <1>1, <1>2, <1>3, <1>4, <1>5, <1>6

LEMMA TaskRowsKnown ==
  ASSUME IInv, IInv', RowsKnown, NEW w \in Procs,
         Finish(w) \/ TaskRows(w) \/ TaskSave(w) \/ SendDone(w) \/ Bill(w)
  PROVE  RowsKnown'
<1>t. TypeOK /\ TypeOK' /\ handler[w] \in Handler
  BY DEF IInv, TypeOK
<1>1. CASE Finish(w) \/ SendDone(w)
  <2>1. /\ AfterSchedule(w) /\ node' \in {node, SavedNodes(w)} /\ succeeded' = succeeded
        /\ handler[w].pc # "recvSave"
    BY <1>1 DEF Finish, SendDone, At
  <2>2. PICK r : Become(w, r) /\ r.rows = NoRows
    BY <1>t, <2>1, AfterScheduleStarts
  <2> QED
    BY <2>1, <2>2, RowsEnd
<1>2. CASE TaskRows(w)
  <2> DEFINE t == RunningRows(w)
             r == [handler[w] EXCEPT !.pc = "taskSave", !.rows = t]
  <2>0. UNCHANGED <<node, succeeded>> /\ handler[w].pc = "taskRows"
    BY <1>2 DEF TaskRows, At
  <2>1. ASSUME NEW n \in Nodes
        PROVE  t[n].status \in {"Running", handler[w].rows[n].status}
    <3>1. node[n] \in NodeRow
      BY <1>t DEF TypeOK
    <3> QED
      BY <3>1 DEF RunningRows, NodeRow
  <2> HIDE DEF t
  <2>2. r.rows = t
    BY <1>t DEF Handler
  <2>3. ASSUME Become(w, r)
        PROVE  RowsKnown'
    <3>1. Copied(w, r)
      BY <2>0, <2>1, <2>2 DEF Copied
    <3> QED
      BY <2>0, <2>3, <3>1, RowsLocal
  <2>4. CASE Return(w)
    BY <2>0, <2>4, RowsReturn
  <2> QED
    BY <1>2, <2>3, <2>4 DEF TaskRows, t
<1>3. CASE TaskSave(w)
  <2> DEFINE r == [handler[w] EXCEPT !.pc = "send", !.rows = NoRows]
  <2>1. Become(w, r) /\ r.rows = NoRows /\ node' = SavedNodes(w) /\ succeeded' = succeeded
        /\ handler[w].pc = "taskSave"
    BY <1>t, <1>3 DEF TaskSave, Handler, At
  <2> QED
    BY <2>1, RowsEnd
<1>4. CASE Bill(w)
  BY <1>4, RowsReturn DEF Bill
<1> QED
  BY <1>1, <1>2, <1>3, <1>4

LEMMA SendRows ==
  ASSUME IInv, IInv', RowsKnown, NEW w \in Procs,
         SendNoAction(w) \/ SendMilestone(w) \/ SendRead(w) \/ SendSave(w) \/ SendTask(w)
  PROVE  RowsKnown'
<1>t. TypeOK /\ TypeOK' /\ handler[w] \in Handler
  BY DEF IInv, TypeOK
<1>0. succeeded' = succeeded /\ handler[w].pc # "recvSave"
  BY DEF SendNoAction, SendMilestone, SendRead, SendSave, SendTask, At
<1>1. CASE SendNoAction(w)
  <2>1. PICK n : Become(w, [handler[w] EXCEPT !.todo = @ \ {n}])
    BY <1>1 DEF SendNoAction
  <2> DEFINE r == [handler[w] EXCEPT !.todo = @ \ {n}]
  <2>2. r.rows = handler[w].rows /\ node' = node
    BY <1>t, <1>1 DEF Handler, SendNoAction
  <2> QED
    BY <1>0, <2>1, <2>2, RowsSame
<1>2. CASE SendMilestone(w)
  BY <1>2, RowsReturn DEF SendMilestone
<1>3. CASE SendRead(w)
  <2>1. PICK n \in handler[w].todo :
          Become(w, [handler[w] EXCEPT !.pc = "sendSave", !.cur = n,
                       !.rows = [NoRows EXCEPT ![n] = [node[n] EXCEPT !.cluster = TRUE]]])
    BY <1>3 DEF SendRead
  <2> DEFINE t == [NoRows EXCEPT ![n] = [node[n] EXCEPT !.cluster = TRUE]]
             r == [handler[w] EXCEPT !.pc = "sendSave", !.cur = n, !.rows = t]
  <2>2. ASSUME NEW m \in Nodes
        PROVE  t[m].status \in {"None", node[m].status}
    <3>1. node[m] \in NodeRow /\ NoRows[m].status = "None"
      BY <1>t DEF TypeOK, NoRows, NoRow
    <3>2. t[m] = IF m = n THEN [node[m] EXCEPT !.cluster = TRUE] ELSE NoRows[m]
      BY DEF NoRows
    <3> QED
      BY <3>1, <3>2 DEF NodeRow
  <2> HIDE DEF t
  <2>3. Become(w, r) /\ r.rows = t /\ node' = node
    BY <1>t, <1>3, <2>1 DEF SendRead, t, Handler
  <2> HIDE DEF r
  <2>4. Copied(w, r)
    BY <2>2, <2>3 DEF Copied
  <2> QED
    BY <1>0, <2>3, <2>4, RowsLocal
<1>4. CASE SendSave(w)
  <2> DEFINE r == [handler[w] EXCEPT !.pc = "sendTask", !.rows = NoRows]
  <2>1. Become(w, r) /\ r.rows = NoRows /\ node' = SavedNodes(w)
    BY <1>t, <1>4 DEF SendSave, Handler
  <2> QED
    BY <1>0, <2>1, RowsEnd
<1>5. CASE SendTask(w)
  <2> DEFINE n == handler[w].cur
             r == [handler[w] EXCEPT !.pc = "send", !.cur = NoNode, !.todo = @ \ {n}]
  <2>1. Become(w, r) /\ r.rows = handler[w].rows /\ node' = node
    BY <1>t, <1>5 DEF SendTask, Handler
  <2> QED
    BY <1>0, <2>1, RowsSame
<1> QED
  BY <1>1, <1>2, <1>3, <1>4, <1>5

\* A handler that takes on a result.
LEMMA ReceivingRows ==
  ASSUME IInv, IInv', RowsKnown, NEW w \in Procs, NEW n \in Nodes, NEW r \in Results,
         Become(w, Receiving(n, r)), UNCHANGED <<node, succeeded>>
  PROVE  RowsKnown'
<1> DEFINE t == [NoRows EXCEPT ![n] = [node[n] EXCEPT !.status = ResultStatus(r)]]
           k == [Idle EXCEPT !.pc = "recvSave", !.op = r, !.node = n, !.rows = t]
<1>1. ResultStatus(r) # "Standby" /\ (ResultStatus(r) = "Finished" => r = "Success")
  BY DEF ResultStatus, Results
<1>2. ASSUME NEW m \in Nodes
      PROVE  t[m].status = IF m = n THEN ResultStatus(r) ELSE "None"
  <2>1. node[n] \in NodeRow /\ NoRows[m].status = "None"
    BY DEF IInv, TypeOK, NoRows, NoRow
  <2>2. t[m] = IF m = n THEN [node[n] EXCEPT !.status = ResultStatus(r)] ELSE NoRows[m]
    BY DEF NoRows
  <2> QED
    BY <2>1, <2>2 DEF NodeRow
<1> HIDE DEF t
<1>3. k.pc = "recvSave" /\ k.op = r /\ k.node = n /\ k.rows = t
  BY DEF Idle
<1>4. Become(w, k)
  BY DEF Receiving, t
<1> HIDE DEF k
<1>5. Copied(w, k)
  BY <1>1, <1>2, <1>3 DEF Copied
<1> QED
  BY <1>4, <1>5, RowsLocal

LEMMA ReceiveRows ==
  ASSUME IInv, IInv', RowsKnown, NEW w \in Procs,
         \/ RecvSave(w) \/ FlowRead(w) \/ FlowSave(w) \/ Consume
         \/ \E n \in Nodes, r \in Results : Post(w, n, r)
  PROVE  RowsKnown'
<1>t. TypeOK /\ TypeOK' /\ handler[w] \in Handler
  BY DEF IInv, TypeOK
<1>1. CASE RecvSave(w)
  <2> DEFINE next == [handler[w] EXCEPT !.rows = NoRows]
             a == [next EXCEPT !.pc = "allSame"]
             f == [next EXCEPT !.pc = "flowRead"]
  <2>1. /\ handler[w].pc = "recvSave" /\ node' = SavedNodes(w) /\ succeeded \subseteq succeeded'
        /\ handler[w].op = "Success" => handler[w].node \in succeeded'
    BY <1>1 DEF RecvSave, At
  <2>2. handler[w].op \in Results
    BY <2>1 DEF IInv, HandlersSound, Sound
  <2>3. Become(w, a) \/ Become(w, Idle) \/ Become(w, f)
    BY <1>1, <2>2 DEF RecvSave, Results, Return
  <2>4. a.rows = NoRows /\ f.rows = NoRows /\ Idle.rows = NoRows
    BY <1>t DEF Handler, Idle
  <2> HIDE DEF a, f
  <2> QED
    BY <2>1, <2>3, <2>4, RowsEnd
<1>2. CASE FlowRead(w)
  <2>0. UNCHANGED <<node, succeeded>> /\ handler[w].pc = "flowRead"
    BY <1>2 DEF FlowRead, At
  <2>1. ASSUME NEW s \in {"Error", "Paused", "Stopped"},
               Become(w, [handler[w] EXCEPT !.pc = "flowSave", !.copy = [flow EXCEPT !.status = s]])
        PROVE  RowsKnown'
    <3> DEFINE r == [handler[w] EXCEPT !.pc = "flowSave", !.copy = [flow EXCEPT !.status = s]]
    <3>1. Become(w, r) /\ r.rows = handler[w].rows
      BY <1>t, <2>1 DEF Handler
    <3> QED
      BY <2>0, <3>1, RowsSame
  <2>2. CASE Return(w)
    BY <2>0, <2>2, RowsReturn
  <2> QED
    BY <1>2, <2>1, <2>2 DEF FlowRead
<1>3. CASE FlowSave(w)
  BY <1>3, RowsReturn DEF FlowSave
<1>4. CASE Consume
  <2>1. queue \in Seq(Message) /\ queue # <<>>
    BY <1>t, <1>4 DEF Consume, TypeOK
  <2>2. Head(queue) \in Message
    BY <2>1
  <2>3. Head(queue).node \in Nodes /\ Head(queue).status \in Results /\ Consumer \in Procs
    BY <2>2 DEF Message, Procs
  <2> QED
    BY <1>4, <2>3, ReceivingRows DEF Consume
<1>5. ASSUME NEW n \in Nodes, NEW r \in Results, Post(w, n, r)
      PROVE  RowsKnown'
  BY <1>5, ReceivingRows DEF Post
<1> QED
  BY <1>1, <1>2, <1>3, <1>4, <1>5

LEMMA OperateRows ==
  ASSUME IInv, IInv', RowsKnown, NEW w \in Procs,
         \/ OpNodes(w) \/ OpNoAction(w) \/ OpAgent(w) \/ OpError(w) \/ OpSave(w)
         \/ \E op \in UserOps : Operate(w, op)
  PROVE  RowsKnown'
<1>t. TypeOK /\ TypeOK' /\ handler[w] \in Handler
  BY DEF IInv, TypeOK
<1>1. ASSUME NEW op \in UserOps, Operate(w, op)
      PROVE  RowsKnown'
  <2> DEFINE r == [Idle EXCEPT !.pc = "opNodes", !.op = op,
                               !.copy = [flow EXCEPT !.status = Target(op)]]
  <2>1. Become(w, r) /\ r.rows = NoRows /\ UNCHANGED <<node, succeeded>>
    BY <1>1 DEF Operate, Idle
  <2> QED
    BY <2>1, RowsLocal, Uncopied
<1>2. CASE OpNodes(w)
  <2> DEFINE S == {n \in Nodes : node[n].status \in Touched(handler[w].op)}
             s == Target(handler[w].op)
             t == SetStatus(S, s)
             r == [handler[w] EXCEPT !.pc = "op", !.todo = S, !.rows = t]
  <2>1. handler[w].op \in UserOps /\ UNCHANGED <<node, succeeded>>
    BY <1>2 DEF OpNodes, At, IInv, HandlersSound, Sound
  <2>2. s \notin {"Standby", "Finished"}
    BY <2>1 DEF Target, UserOps
  <2>3. \A n \in Nodes : t[n].status \in {"None", s}
    BY <1>t, SetRows DEF NoRow
  <2>4. Become(w, r)
    BY <1>2 DEF OpNodes
  <2> HIDE DEF t, S, s
  <2>5. r.rows = t
    BY <1>t DEF Handler
  <2> HIDE DEF r
  <2>6. Copied(w, r)
    BY <2>1, <2>2, <2>3, <2>5 DEF Copied
  <2> QED
    BY <2>1, <2>4, <2>6, RowsLocal
<1>3. ASSUME NEW n, Become(w, [handler[w] EXCEPT !.todo = @ \ {n}]), At(w, "op"),
             UNCHANGED <<node, succeeded>>
      PROVE  RowsKnown'
  <2> DEFINE r == [handler[w] EXCEPT !.todo = @ \ {n}]
  <2>1. Become(w, r) /\ r.rows = handler[w].rows /\ handler[w].pc = "op"
    BY <1>t, <1>3 DEF Handler, At
  <2> QED
    BY <1>3, <2>1, RowsSame
<1>4. CASE OpNoAction(w)
  BY <1>3, <1>4 DEF OpNoAction
<1>5. CASE OpAgent(w)
  BY <1>3, <1>5 DEF OpAgent
<1>6. CASE OpError(w)
  BY <1>6, RowsReturn DEF OpError
<1>7. CASE OpSave(w)
  <2>1. Become(w, Idle) /\ Idle.rows = NoRows /\ node' = SavedNodes(w) /\ succeeded' = succeeded
        /\ handler[w].pc = "op"
    BY <1>7 DEF OpSave, Return, Idle, At
  <2> QED
    BY <2>1, RowsEnd
<1> QED
  BY <1>1, <1>2, <1>4, <1>5, <1>6, <1>7

LEMMA InitRows == Init => RowsKnown
<1>1. \A n \in Nodes : NoRows[n].status = "None"
  BY DEF NoRows, NoRow
<1> QED
  BY <1>1 DEF Init, Idle, RowsKnown

LEMMA StepRows ==
  ASSUME IInv, IInv', RowsKnown, [Next]_vars
  PROVE  RowsKnown'
<1>1. ASSUME NEW w \in Procs, Step(w)
      PROVE  RowsKnown'
  BY <1>1, StartRows, ScheduleRows, TaskRowsKnown, SendRows, ReceiveRows, OperateRows DEF Step
<1>2. ASSUME NEW w \in Workers, Request(w)
      PROVE  RowsKnown'
  <2>1. w \in Procs
    BY DEF Procs
  <2> QED
    BY <1>2, <2>1, StartRows, OperateRows, ReceiveRows DEF Request
<1>3. CASE Consume
  BY <1>3, ReceiveRows DEF Procs
<1>4. ASSUME NEW w \in Procs, HandlerError(w)
      PROVE  RowsKnown'
  BY <1>4, RowsReturn DEF HandlerError
<1>5. CASE Crash
  <2>1. /\ \A v \in Procs : handler'[v] = Idle
        /\ UNCHANGED <<node, succeeded>>
    BY <1>5 DEF Crash
  <2>2. \A n \in Nodes : Idle.rows[n].status = "None"
    BY DEF Idle, NoRows, NoRow
  <2> QED
    BY <2>1, <2>2 DEF RowsKnown
<1>6. CASE UNCHANGED vars
  BY <1>6 DEF vars, RowsKnown
<1> QED
  BY <1>1, <1>2, <1>3, <1>4, <1>5, <1>6 DEF Next
-----------------------------------------------------------------------------
(* What is released, sent and answered once.                               *)

\* The nodes a handler has chosen and not yet sent, and the node whose success it serves.
Carrying == {"taskRows", "taskSave", "send", "sendSave", "sendTask"}
Carried(h) == IF h.pc \in Carrying THEN h.todo ELSE {}
Served(h) == IF h.pc \in {"recvSave"} \cup SuccessSteps /\ h.op = "Success" THEN h.node ELSE NoNode

\* The nodes whose tasks go to an agent.
Plain == Nodes \ (NoActionNodes \cup MilestoneNodes)

\* A success of node x is being served, or waits to be, or was served.
Queued(x) == \E i \in 1..Len(queue) : queue[i].node = x
Served1(x) == \E w \in Procs : Served(handler[w]) = x
Awaited(x) == Queued(x) \/ Served1(x)
Answered(x) == x \in succeeded \/ Awaited(x)

\* A node that was chosen by a scheduler.
Taken(n) == n \in released \/ \E w \in Procs : n \in Carried(handler[w])

\* A node is carried by one handler, before its release by one that is about to release it; ...
OneCarrier ==
  /\ \A v, w \in Procs : \A n \in Carried(handler[v]) \cap Carried(handler[w]) : v = w
  /\ \A w \in Procs : handler[w].pc \in {"taskRows", "taskSave"} => handler[w].todo \cap released = {}
  /\ \A w \in Procs : handler[w].pc \in {"sendSave", "sendTask"} => handler[w].cur \in Plain

\* ... a task that was sent is carried by nobody, and its result is posted once; ...
SentOnce ==
  \A n \in Nodes :
    /\ sent[n]["Start"] <= 1
    /\ sent[n]["Start"] > 0 => n \in Plain /\ \A w \in Procs : n \notin Carried(handler[w])
    /\ \A c \in Commands \ {"Start"} : sent[n][c] = 0

PostedOnce ==
  \A n \in Nodes :
    /\ \A r \in Results : posts[n][r] > 0 => sent[n][Answers(r)] > 0
    /\ posts[n]["Success"] = 0 \/ posts[n]["Failed"] = 0

\* ... so is a node whose success is served, and there is one success of it to serve; ...
AnsweredOnce ==
  \A x \in Nodes : Answered(x) =>
    /\ \A w \in Procs : x \notin Carried(handler[w])
    /\ x \in Plain => posts[x]["Success"] > 0

OneAnswer ==
  /\ \A i, j \in 1..Len(queue) : queue[i].node = queue[j].node => i = j
  /\ \A i \in 1..Len(queue) : queue[i].status = "Success"
  /\ \A v, w \in Procs : Served(handler[v]) = Served(handler[w]) /\ Served(handler[v]) # NoNode => v = w
  /\ \A w \in Procs : Served(handler[w]) # NoNode => ~Queued(Served(handler[w]))

\* ... and by the time a node is chosen, the successes of its predecessors have been served.
ChosenOnce == \A n \in Nodes : Taken(n) => \A x \in Pred[n] : ~Awaited(x)

\* Nobody operates, and agents report an end.
Unoperated ==
  \A w \in Procs :
    /\ handler[w].op \notin UserOps
    /\ handler[w].pc = "recvSave" => handler[w].op \in {"Success", "Failed"}
    /\ handler[w].pc = "recvSave" /\ handler[w].op = "Failed" => posts[handler[w].node]["Failed"] > 0

Onces == OneCarrier /\ SentOnce /\ PostedOnce /\ AnsweredOnce /\ OneAnswer /\ ChosenOnce /\ Unoperated

\* Without operations, and with results that arrive once.
Undisturbed == MaxStart <= 1 /\ MaxOps = 0 /\ MaxPosts <= 1

\* Nothing that was not released is answered, ...
LEMMA AnsweredReleased ==
  ASSUME IInv, Starts, NEW x \in Nodes, Answered(x)
  PROVE  x \in released
<1>1. succeeded \subseteq released
  BY DEF IInv, HistoryOrdered
<1>2. Queued(x) => x \in released
  BY DEF IInv, VisibleReleased, Queued
<1>3. ASSUME NEW w \in Procs, Served(handler[w]) = x
      PROVE  x \in released
  <2>1. x # NoNode
    BY GraphAssumption
  <2>2. handler[w].pc \in {"recvSave"} \cup SuccessSteps /\ handler[w].node = x
    BY <1>3, <2>1 DEF Served
  <2>3. Sound(handler[w], released, succeeded)
    BY DEF IInv, HandlersSound
  <2> QED
    BY <1>1, <2>2, <2>3 DEF Sound
<1> QED
  BY <1>1, <1>2, <1>3 DEF Answered, Awaited, Served1

\* ... and nothing is chosen whose predecessors have not succeeded.
LEMMA TakenPreds ==
  ASSUME IInv, NEW n \in Nodes, Taken(n)
  PROVE  Pred[n] \subseteq succeeded
<1>1. n \in released => Pred[n] \subseteq succeeded
  BY DEF IInv, HistoryOrdered
<1>2. ASSUME NEW w \in Procs, n \in Carried(handler[w])
      PROVE  n \in released \/ Pred[n] \subseteq succeeded
  <2>1. n \in handler[w].todo /\ handler[w].pc \in Carrying
    BY <1>2 DEF Carried
  <2>2. Sound(handler[w], released, succeeded)
    BY DEF IInv, HandlersSound
  <2> QED
    BY <2>1, <2>2 DEF Sound, Carrying, ServingSteps
<1> QED
  BY <1>1, <1>2 DEF Taken

LEMMA PredNodes ==
  ASSUME NEW n \in Nodes, NEW x \in Pred[n]
  PROVE  x \in Nodes /\ x # NoNode
BY GraphAssumption DEF Pred, Nodes

-----------------------------------------------------------------------------
(* Steps that choose, send and answer nothing.                             *)

\* What such a step makes of a handler.
Rests(h, k) ==
  /\ Carried(k) \subseteq Carried(h)
  /\ Served(k) \in {NoNode, Served(h)}
  /\ k.pc \in {"taskRows", "taskSave"} => h.pc \in {"taskRows", "taskSave"} /\ k.todo = h.todo
  /\ k.pc \in {"sendSave", "sendTask"} => k.cur \in Plain
  /\ k.op \notin UserOps
  /\ k.pc = "recvSave" => k.op \in {"Success", "Failed"}
  /\ k.pc = "recvSave" /\ k.op = "Failed" => posts[k.node]["Failed"] > 0

LEMMA OncesRest ==
  ASSUME TypeOK, TypeOK', Onces,
         \A v \in Procs : Rests(handler[v], handler'[v]),
         queue' \in {queue, <<>>}, UNCHANGED <<sent, posts, released>>,
         \A x \in Nodes : x \in succeeded' => Answered(x)
  PROVE  Onces'
<1>1. \A v \in Procs : /\ Carried(handler'[v]) \subseteq Carried(handler[v])
                       /\ Served(handler'[v]) \in {NoNode, Served(handler[v])}
  BY DEF Rests
<1>2. \A x : Queued(x)' => Queued(x)
  BY DEF Queued
<1>3. \A x \in Nodes : Served1(x)' => Served1(x)
  BY <1>1, GraphAssumption DEF Served1
<1>4. \A x \in Nodes : Awaited(x)' => Awaited(x)
  BY <1>2, <1>3 DEF Awaited
<1>5. \A x \in Nodes : Answered(x)' => Answered(x)
  BY <1>4 DEF Answered
<1>6. \A n : Taken(n)' => Taken(n)
  BY <1>1 DEF Taken
<1>7. OneCarrier'
  <2>1. \A v, w \in Procs : \A n \in Carried(handler'[v]) \cap Carried(handler'[w]) : v = w
    BY <1>1 DEF Onces, OneCarrier
  <2>2. \A w \in Procs : handler'[w].pc \in {"taskRows", "taskSave"} => handler'[w].todo \cap released' = {}
    BY DEF Onces, OneCarrier, Rests
  <2>3. \A w \in Procs : handler'[w].pc \in {"sendSave", "sendTask"} => handler'[w].cur \in Plain
    BY DEF Rests
  <2> QED
    BY <2>1, <2>2, <2>3 DEF OneCarrier
<1>8. SentOnce'
  BY <1>1 DEF Onces, SentOnce
<1>9. PostedOnce'
  BY DEF Onces, PostedOnce
<1>10. AnsweredOnce'
  BY <1>1, <1>5 DEF Onces, AnsweredOnce
<1>11. OneAnswer'
  <2>1. queue' = queue \/ Len(queue') = 0
    OBVIOUS
  <2>2. /\ \A i, j \in 1..Len(queue') : queue'[i].node = queue'[j].node => i = j
        /\ \A i \in 1..Len(queue') : queue'[i].status = "Success"
    BY <2>1 DEF Onces, OneAnswer
  <2>3. \A v, w \in Procs : Served(handler'[v]) = Served(handler'[w]) /\ Served(handler'[v]) # NoNode => v = w
    BY <1>1 DEF Onces, OneAnswer
  <2>4. \A w \in Procs : Served(handler'[w]) # NoNode => ~Queued(Served(handler'[w]))
    BY <1>1 DEF Onces, OneAnswer
  <2>5. \A w \in Procs : Served(handler'[w]) # NoNode => ~(\E i \in 1..Len(queue') : queue'[i].node = Served(handler'[w]))
    BY <2>1, <2>4 DEF Queued
  <2> QED
    BY <2>2, <2>3, <2>5 DEF OneAnswer, Queued
<1>12. ChosenOnce'
  <2> SUFFICES ASSUME NEW n \in Nodes, Taken(n)', NEW x \in Pred[n], Awaited(x)'
               PROVE  FALSE
    BY DEF ChosenOnce
  <2> QED
    BY <1>4, <1>6, PredNodes DEF Onces, ChosenOnce
<1>13. Unoperated'
  BY DEF Rests, Unoperated
<1> QED
  BY <1>7, <1>8, <1>9, <1>10, <1>11, <1>12, <1>13 DEF Onces

\* A handler that is left alone rests.
LEMMA StillRests ==
  ASSUME Onces, NEW v \in Procs
  PROVE  Rests(handler[v], handler[v])
BY DEF Rests, Onces, Unoperated, OneCarrier

LEMMA IdleRests ==
  ASSUME NEW h
  PROVE  Rests(h, Idle) /\ Carried(Idle) = {} /\ Served(Idle) = NoNode
BY DEF Rests, Idle, Carried, Served, Carrying, SuccessSteps, UserOps

\* A step of one handler that chooses, sends and answers nothing.
LEMMA OncesLocal ==
  ASSUME TypeOK, TypeOK', Onces, NEW w \in Procs, NEW k, Become(w, k), Rests(handler[w], k),
         UNCHANGED <<queue, sent, posts, released, succeeded>>
  PROVE  Onces'
<1>1. \A v \in Procs : Rests(handler[v], handler'[v])
  BY Became, StillRests
<1> QED
  BY <1>1, OncesRest DEF Answered

LEMMA OncesReturn ==
  ASSUME TypeOK, TypeOK', Onces, NEW w \in Procs, Return(w),
         UNCHANGED <<queue, sent, posts, released, succeeded>>
  PROVE  Onces'
BY IdleRests, OncesLocal DEF Return

\* A step to which nothing is carried and at which no success is served.
LEMMA FreeRests ==
  ASSUME NEW h, NEW k, k.pc \notin Carrying \cup SuccessSteps \cup {"recvSave"}, k.op \notin UserOps
  PROVE  Rests(h, k)
BY DEF Rests, Carried, Served, Carrying, SuccessSteps

-----------------------------------------------------------------------------
(* A scheduler chooses.                                                    *)

\* A scheduler takes on nodes that were not chosen before, whose predecessors are not awaited.
LEMMA OncesChoose ==
  ASSUME IInv, TypeOK', Starts, Onces, NEW w \in Procs, NEW k, Become(w, k),
         k.pc = "taskRows", k.todo \subseteq Nodes, k.op \notin UserOps, Carried(handler[w]) = {},
         \A n \in k.todo : ~Taken(n) /\ Pred[n] \subseteq {Served(handler[w])},
         UNCHANGED <<queue, sent, posts, released, succeeded>>
  PROVE  Onces'
<1>t. TypeOK
  BY DEF IInv
<1>1. /\ handler'[w] = k
      /\ \A v \in Procs : v # w => handler'[v] = handler[v]
  BY <1>t, Became
<1>2. Carried(k) = k.todo /\ Served(k) = NoNode
  BY DEF Carried, Served, Carrying, SuccessSteps
<1>3. \A n \in k.todo : n \notin released /\ \A v \in Procs : n \notin Carried(handler[v])
  BY DEF Taken
<1>4. \A n \in k.todo : n \notin released' /\ ~Answered(n) /\ sent[n]["Start"] = 0
  BY <1>t, <1>3, AnsweredReleased, SMTT(30) DEF IInv, VisibleReleased, Commands, TypeOK
<1>5. \A x \in Nodes : Served1(x)' => Served1(x)
  BY <1>1, <1>2, GraphAssumption DEF Served1
<1>6. \A x \in Nodes : /\ Awaited(x)' => Awaited(x)
                       /\ Answered(x)' => Answered(x)
  BY <1>5 DEF Awaited, Answered, Queued
<1>7. OneCarrier'
  <2>1. \A v, u \in Procs : \A n \in Carried(handler'[v]) \cap Carried(handler'[u]) : v = u
    BY <1>1, <1>2, <1>3 DEF Onces, OneCarrier
  <2>2. \A v \in Procs : handler'[v].pc \in {"taskRows", "taskSave"} => handler'[v].todo \cap released' = {}
    BY <1>1, <1>4 DEF Onces, OneCarrier
  <2>3. \A v \in Procs : handler'[v].pc \in {"sendSave", "sendTask"} => handler'[v].cur \in Plain
    BY <1>1 DEF Onces, OneCarrier
  <2> QED
    BY <2>1, <2>2, <2>3 DEF OneCarrier
<1>8. SentOnce'
  BY <1>1, <1>2, <1>4 DEF Onces, SentOnce
<1>9. PostedOnce'
  BY DEF Onces, PostedOnce
<1>10. AnsweredOnce'
  BY <1>1, <1>2, <1>4, <1>6 DEF Onces, AnsweredOnce
<1>11. OneAnswer'
  BY <1>1, <1>2 DEF Onces, OneAnswer, Queued
<1>12. ChosenOnce'
  <2> SUFFICES ASSUME NEW n \in Nodes, Taken(n)', NEW x \in Pred[n], Awaited(x)'
               PROVE  FALSE
    BY DEF ChosenOnce
  <2>1. x \in Nodes /\ x # NoNode /\ Awaited(x)
    BY <1>6, PredNodes
  <2>2. ~Taken(n)
    BY <2>1 DEF Onces, ChosenOnce
  <2>3. n \in k.todo
    BY <1>1, <1>2, <2>2 DEF Taken
  <2>4. x = Served(handler[w])
    BY <2>3
  <2>5. ~Queued(x) /\ \A v \in Procs : Served(handler[v]) = x => v = w
    BY <2>1, <2>4 DEF Onces, OneAnswer
  <2>6. ~Queued(x)'
    BY <2>5 DEF Queued
  <2>7. PICK v \in Procs : Served(handler'[v]) = x
    BY <2>6 DEF Awaited, Served1
  <2> QED
    BY <1>1, <1>2, <2>1, <2>5, <2>7
<1>13. Unoperated'
  BY <1>1 DEF Onces, Unoperated
<1> QED
  BY <1>7, <1>8, <1>9, <1>10, <1>11, <1>12, <1>13 DEF Onces

\* A dispatch finishes the flow, or takes on such nodes.
LEMMA OncesDispatch ==
  ASSUME IInv, TypeOK', Starts, Onces, NEW w \in Procs, NEW entry, NEW t, Dispatch(w, entry, t),
         Carried(handler[w]) = {},
         \A n \in Tasks(entry \cap Roots) : ~Taken(n) /\ Pred[n] \subseteq {Served(handler[w])},
         UNCHANGED <<queue, sent, posts, released, succeeded>>
  PROVE  Onces'
<1>t. TypeOK
  BY DEF IInv
<1>1. PICK k : Become(w, k) /\ Dispatched(handler[w], k, entry, t)
  BY <1>t, DispatchRecord
<1>2. k.op = handler[w].op /\ k.op \notin UserOps
  BY <1>1 DEF Dispatched, Onces, Unoperated
<1>3. CASE k.pc = "finish"
  <2>1. Rests(handler[w], k)
    BY <1>2, <1>3, FreeRests DEF Carrying, SuccessSteps
  <2> QED
    BY <1>t, <1>1, <2>1, OncesLocal
<1>4. CASE k.pc = "taskRows" /\ k.todo = Tasks(entry \cap Roots)
  <2>1. k.todo \subseteq Nodes
    BY <1>4 DEF Tasks, Nodes
  <2> QED
    BY <1>1, <1>2, <1>4, <2>1, OncesChoose
<1> QED
  BY <1>1, <1>3, <1>4 DEF Dispatched

\* The sub nodes of a batch have exactly the predecessors of their parent.
LEMMA TaskPred ==
  ASSUME NEW E \in SUBSET Roots, NEW n \in Tasks(E)
  PROVE  n \in Nodes /\ \E r \in E : Pred[n] = Pred[r]
<1>1. PICK r \in E : n = r \/ (n \in Subs /\ ParentOf[n] = r)
  BY DEF Tasks
<1>2. n \in Nodes /\ r \in Nodes /\ RootOf(n) = r /\ RootOf(r) = r
  BY <1>1, GraphAssumption DEF Nodes, RootOf
<1> QED
  BY <1>2 DEF Pred

LEMMA ScheduleStartOnces ==
  ASSUME IInv, IInv', Starts, Onces, NEW w \in Procs,
         SchedFlow(w) \/ SchedFlowSave(w) \/ SchedStandby(w)
  PROVE  Onces'
<1>t. TypeOK /\ TypeOK' /\ handler[w] \in Handler
  BY DEF IInv, TypeOK
<1>o. handler[w].op \notin UserOps
  BY DEF Onces, Unoperated
<1>1. CASE SchedFlow(w)
  <2> DEFINE k == [handler[w] EXCEPT !.pc = "schedFlowSave", !.copy = [flow EXCEPT !.status = "Running"]]
  <2>1. k.pc = "schedFlowSave" /\ k.op = handler[w].op
    BY <1>t DEF Handler
  <2>2. Become(w, k) /\ UNCHANGED <<queue, sent, posts, released, succeeded>>
    BY <1>1 DEF SchedFlow
  <2> HIDE DEF k
  <2>3. Rests(handler[w], k)
    BY <1>o, <2>1, FreeRests DEF Carrying, SuccessSteps
  <2> QED
    BY <1>t, <2>2, <2>3, OncesLocal
<1>2. CASE SchedFlowSave(w)
  <2> DEFINE k == [handler[w] EXCEPT !.pc = "schedStandby"]
  <2>1. k.pc = "schedStandby" /\ k.op = handler[w].op
    BY <1>t DEF Handler
  <2>2. Become(w, k) /\ UNCHANGED <<queue, sent, posts, released, succeeded>>
    BY <1>2 DEF SchedFlowSave
  <2> HIDE DEF k
  <2>3. Rests(handler[w], k)
    BY <1>o, <2>1, FreeRests DEF Carrying, SuccessSteps
  <2> QED
    BY <1>t, <2>2, <2>3, OncesLocal
<1>3. CASE SchedStandby(w)
  <2> DEFINE entry == EntryIds(Roots, Relations)
             t == SetStatus({n \in Tasks(Roots \ entry) : Exists(n)}, "Standby")
  <2>1. handler[w].pc = "schedStandby" /\ UNCHANGED <<queue, sent, posts, released, succeeded>>
    BY <1>3 DEF SchedStandby, At
  <2>2. Return(w) \/ Dispatch(w, entry, t)
    BY <1>3 DEF SchedStandby
  <2>3. handler[w].op = "Start"
    BY <2>1 DEF Starts, HandlersOrderly, Orderly
  <2>4. released = {}
    BY <2>1, <2>3 DEF Starts, OneStart, Starting, Early
  <2>5. \A v \in Procs : Carried(handler[v]) = {}
    <3> SUFFICES ASSUME NEW v \in Procs, handler[v].pc \in Carrying, handler[v].todo # {}
                 PROVE  FALSE
      BY DEF Carried
    <3>1. v # w
      BY <2>1 DEF Carrying
    <3>2. handler[v].op # "Start"
      BY <2>3, <3>1 DEF Starts, OneStart
    <3>3. handler[v].node \in succeeded
      BY <3>2 DEF Starts, HandlersOrderly, Orderly, Carrying, Chosen
    <3> QED
      BY <2>4, <3>3 DEF IInv, HistoryOrdered
  <2>6. ASSUME NEW n \in Tasks(entry \cap Roots)
        PROVE  ~Taken(n) /\ Pred[n] \subseteq {Served(handler[w])}
    <3>1. Pred[n] = {}
      BY TaskPred, EntryOfGraph
    <3>2. ~Taken(n)
      BY <2>4, <2>5 DEF Taken
    <3> QED
      BY <3>1, <3>2
  <2> HIDE DEF entry, t
  <2>7. CASE Return(w)
    BY <1>t, <2>1, <2>7, OncesReturn
  <2>8. CASE Dispatch(w, entry, t)
    BY <1>t, <2>1, <2>5, <2>6, <2>8, OncesDispatch
  <2> QED
    BY <2>2, <2>7, <2>8
<1> QED
  BY <1>1, <1>2, <1>3

\* After a success: a node is ready when it waits for that success alone.
LEMMA ScheduleSuccessOnces ==
  ASSUME IInv, IInv', Starts, RowsKnown, Onces, NEW w \in Procs,
         AllSame(w) \/ GetFlow(w) \/ GetStandby(w)
  PROVE  Onces'
<1>t. TypeOK /\ TypeOK' /\ handler[w] \in Handler
  BY DEF IInv, TypeOK
<1>o. handler[w].op \notin UserOps
  BY DEF Onces, Unoperated
<1>0. handler[w].pc \in SuccessSteps /\ UNCHANGED <<queue, sent, posts, released, succeeded>>
  BY DEF AllSame, GetFlow, GetStandby, At, SuccessSteps
<1>1. handler[w].op = "Success" /\ handler[w].node \in succeeded
  BY <1>0 DEF Starts, HandlersOrderly, Orderly, IInv, HandlersSound, Sound
<1>2. Served(handler[w]) = handler[w].node /\ Carried(handler[w]) = {}
  BY <1>0, <1>1 DEF Served, Carried, SuccessSteps, Carrying
<1>3. ASSUME NEW k, Become(w, k), k.pc \in {"getFlow", "getStandby"}, k.op = handler[w].op,
             k.node = handler[w].node
      PROVE  Onces'
  <2>1. Carried(k) = {} /\ Served(k) = Served(handler[w])
    BY <1>1, <1>2, <1>3 DEF Carried, Carrying, Served, SuccessSteps
  <2>2. Rests(handler[w], k)
    BY <1>o, <1>3, <2>1 DEF Rests
  <2> QED
    BY <1>t, <1>0, <1>3, <2>2, OncesLocal
<1>4. CASE AllSame(w)
  <2> DEFINE k == [handler[w] EXCEPT !.pc = "getFlow"]
  <2>1. k.pc = "getFlow" /\ k.op = handler[w].op /\ k.node = handler[w].node
    BY <1>t DEF Handler
  <2>2. Become(w, k) \/ Return(w)
    BY <1>4 DEF AllSame
  <2> HIDE DEF k
  <2> QED
    BY <1>t, <1>0, <1>3, <2>1, <2>2, OncesReturn
<1>5. CASE GetFlow(w)
  <2> DEFINE k == [handler[w] EXCEPT !.pc = "getStandby", !.copy = flow]
  <2>1. k.pc = "getStandby" /\ k.op = handler[w].op /\ k.node = handler[w].node
    BY <1>t DEF Handler
  <2>2. Become(w, k)
    BY <1>5 DEF GetFlow
  <2> HIDE DEF k
  <2> QED
    BY <1>3, <2>1, <2>2
<1>6. CASE GetStandby(w)
  <2> DEFINE x == handler[w].node
             standby == {n \in Nodes : node[n].status = "Standby"}
             entry == EntryIds(standby, DependenciesWithout(x))
  <2>1. Dispatch(w, entry, NoRows)
    BY <1>6 DEF GetStandby
  <2>2. node[x].status # "Standby" /\ x \in Nodes
    BY <1>t, <1>1 DEF Starts, Committed, Waiting, IInv, HistoryOrdered, TypeOK
  <2>3. \A r \in entry \cap Roots : Pred[r] = {x}
    <3> SUFFICES ASSUME NEW r \in entry \cap Roots PROVE Pred[r] = {x}
      OBVIOUS
    <3>1. r \in Nodes /\ node[r].status = "Standby"
      BY DEF EntryIds
    <3>2. r # x /\ Pred[r] # {}
      BY <2>2, <3>1 DEF RowsKnown
    <3>3. Pred[r] \subseteq {x}
      BY <3>2, EntryAfterSuccess
    <3> QED
      BY <3>2, <3>3
  <2> HIDE DEF entry, standby
  <2>4. ASSUME NEW n \in Tasks(entry \cap Roots)
        PROVE  ~Taken(n) /\ Pred[n] \subseteq {Served(handler[w])}
    <3>1. n \in Nodes /\ Pred[n] = {x}
      BY <2>3, TaskPred
    <3>2. Awaited(x)
      BY <1>2 DEF Awaited, Served1
    <3>3. ~Taken(n)
      BY <3>1, <3>2 DEF Onces, ChosenOnce
    <3> QED
      BY <1>2, <3>1, <3>3
  <2> HIDE DEF x
  <2> QED
    BY <1>t, <1>0, <1>2, <2>1, <2>4, OncesDispatch
<1> QED
  BY <1>4, <1>5, <1>6

-----------------------------------------------------------------------------
(* Tasks are released and sent.                                            *)

\* The nodes a handler still has to send are its alone, and were neither sent nor answered.
LEMMA CarriedFacts ==
  ASSUME IInv, Onces, NEW w \in Procs, NEW n \in Carried(handler[w])
  PROVE  /\ n \in Nodes /\ sent[n]["Start"] = 0 /\ ~Answered(n)
         /\ \A v \in Procs : v # w => n \notin Carried(handler[v])
         /\ \A m \in Nodes : Taken(m) => n \notin Pred[m]
<1>1. n \in Nodes
  BY DEF Carried, IInv, TypeOK, Handler
<1>2. ~Answered(n)
  BY <1>1 DEF Onces, AnsweredOnce
<1>3. sent[n]["Start"] = 0
  <2>1. sent[n]["Start"] \in Nat
    BY <1>1 DEF IInv, TypeOK, Commands
  <2>2. ~(sent[n]["Start"] > 0)
    BY <1>1 DEF Onces, SentOnce
  <2> QED
    BY <2>1, <2>2
<1>4. \A v \in Procs : v # w => n \notin Carried(handler[v])
  BY DEF Onces, OneCarrier
<1>5. \A m \in Nodes : Taken(m) => n \notin Pred[m]
  BY <1>2, TakenPreds DEF Answered
<1> QED
  BY <1>1, <1>2, <1>3, <1>4, <1>5

LEMMA TaskOnces ==
  ASSUME IInv, IInv', Onces, NEW w \in Procs, TaskRows(w) \/ SendMilestone(w) \/ SendRead(w) \/ SendSave(w)
  PROVE  Onces'
<1>t. TypeOK /\ TypeOK' /\ handler[w] \in Handler
  BY DEF IInv, TypeOK
<1>o. handler[w].op \notin UserOps
  BY DEF Onces, Unoperated
<1>0. UNCHANGED <<queue, sent, posts, released, succeeded>>
  BY DEF TaskRows, SendMilestone, SendRead, SendSave
<1>1. ASSUME NEW k, Become(w, k), handler[w].pc \in Carrying, k.pc \in Carrying,
             k.op = handler[w].op, k.todo = handler[w].todo,
             k.pc \in {"sendSave", "sendTask"} => k.cur \in Plain,
             k.pc \in {"taskRows", "taskSave"} => handler[w].pc \in {"taskRows", "taskSave"}
      PROVE  Onces'
  <2>1. Carried(k) = Carried(handler[w]) /\ Served(k) = NoNode
    BY <1>1 DEF Carried, Served, Carrying, SuccessSteps
  <2>2. Rests(handler[w], k)
    BY <1>o, <1>1, <2>1 DEF Rests, Carrying
  <2> QED
    BY <1>t, <1>0, <1>1, <2>2, OncesLocal
<1>r. CASE Return(w)
  BY <1>t, <1>0, <1>r, OncesReturn
<1>2. CASE TaskRows(w)
  <2> DEFINE k == [handler[w] EXCEPT !.pc = "taskSave", !.rows = RunningRows(w)]
  <2>1. k.pc = "taskSave" /\ k.op = handler[w].op /\ k.todo = handler[w].todo
    BY <1>t DEF Handler
  <2>2. handler[w].pc = "taskRows" /\ (Become(w, k) \/ Return(w))
    BY <1>2 DEF TaskRows, At
  <2> HIDE DEF k
  <2> QED
    BY <1>1, <1>r, <2>1, <2>2 DEF Carrying
<1>3. CASE SendMilestone(w)
  BY <1>r, <1>3 DEF SendMilestone
<1>4. CASE SendRead(w)
  <2>1. PICK n \in handler[w].todo \ (NoActionNodes \cup MilestoneNodes) :
          Become(w, [handler[w] EXCEPT !.pc = "sendSave", !.cur = n,
                       !.rows = [NoRows EXCEPT ![n] = [node[n] EXCEPT !.cluster = TRUE]]])
    BY <1>4 DEF SendRead
  <2> DEFINE t == [NoRows EXCEPT ![n] = [node[n] EXCEPT !.cluster = TRUE]]
             k == [handler[w] EXCEPT !.pc = "sendSave", !.cur = n, !.rows = t]
  <2>2. n \in Plain
    BY <1>t, <2>1 DEF Plain, Handler
  <2>3. Become(w, k) /\ handler[w].pc = "send"
    BY <1>4, <2>1 DEF SendRead, At
  <2> HIDE DEF t
  <2>4. k.pc = "sendSave" /\ k.op = handler[w].op /\ k.todo = handler[w].todo /\ k.cur = n
    BY <1>t DEF Handler
  <2> HIDE DEF k
  <2> QED
    BY <1>1, <2>2, <2>3, <2>4 DEF Carrying
<1>5. CASE SendSave(w)
  <2> DEFINE k == [handler[w] EXCEPT !.pc = "sendTask", !.rows = NoRows]
  <2>1. k.pc = "sendTask" /\ k.op = handler[w].op /\ k.todo = handler[w].todo /\ k.cur = handler[w].cur
    BY <1>t DEF Handler
  <2>2. Become(w, k) /\ handler[w].pc = "sendSave"
    BY <1>5 DEF SendSave, At
  <2>3. handler[w].cur \in Plain
    BY <2>2 DEF Onces, OneCarrier
  <2> HIDE DEF k
  <2> QED
    BY <1>1, <2>1, <2>2, <2>3 DEF Carrying
<1> QED
  BY <1>2, <1>3, <1>4, <1>5

LEMMA TaskSaveOnces ==
  ASSUME IInv, IInv', Onces, NEW w \in Procs, TaskSave(w)
  PROVE  Onces'
<1>t. TypeOK /\ TypeOK' /\ handler[w] \in Handler
  BY DEF IInv, TypeOK
<1> DEFINE k == [handler[w] EXCEPT !.pc = "send", !.rows = NoRows]
<1>1. k.pc = "send" /\ k.op = handler[w].op /\ k.todo = handler[w].todo
  BY <1>t DEF Handler
<1>2. /\ handler[w].pc = "taskSave" /\ Become(w, k) /\ released' = released \cup handler[w].todo
      /\ UNCHANGED <<queue, sent, posts, succeeded>>
  BY DEF TaskSave, At
<1> HIDE DEF k
<1>3. handler'[w] = k /\ \A v \in Procs : v # w => handler'[v] = handler[v]
  BY <1>t, <1>2, Became
<1>4. Carried(handler[w]) = handler[w].todo /\ Carried(k) = handler[w].todo
      /\ Served(k) = NoNode /\ Served(handler[w]) = NoNode
  BY <1>1, <1>2 DEF Carried, Served, Carrying, SuccessSteps
<1>5. \A v \in Procs : Carried(handler'[v]) = Carried(handler[v]) /\ Served(handler'[v]) = Served(handler[v])
  BY <1>3, <1>4
<1>6. \A x : Awaited(x)' <=> Awaited(x)
  BY <1>2, <1>5 DEF Awaited, Queued, Served1
<1>7. \A n : Taken(n)' => Taken(n)
  BY <1>2, <1>4, <1>5 DEF Taken
<1>8. OneCarrier'
  <2>1. \A v, u \in Procs : \A n \in Carried(handler'[v]) \cap Carried(handler'[u]) : v = u
    BY <1>5 DEF Onces, OneCarrier
  <2>2. ASSUME NEW v \in Procs, handler'[v].pc \in {"taskRows", "taskSave"}
        PROVE  handler'[v].todo \cap released' = {}
    <3>1. v # w /\ handler'[v] = handler[v]
      BY <1>1, <1>3, <2>2
    <3>2. handler[v].todo \cap released = {}
      BY <2>2, <3>1 DEF Onces, OneCarrier
    <3>3. Carried(handler[v]) = handler[v].todo
      BY <2>2, <3>1 DEF Carried, Carrying
    <3>4. handler[v].todo \cap handler[w].todo = {}
      BY <1>4, <3>1, <3>3 DEF Onces, OneCarrier
    <3> QED
      BY <1>2, <3>1, <3>2, <3>4
  <2>3. \A v \in Procs : handler'[v].pc \in {"sendSave", "sendTask"} => handler'[v].cur \in Plain
    BY <1>1, <1>3 DEF Onces, OneCarrier
  <2> QED
    BY <2>1, <2>2, <2>3 DEF OneCarrier
<1>9. SentOnce'
  BY <1>2, <1>5 DEF Onces, SentOnce
<1>10. PostedOnce'
  BY <1>2 DEF Onces, PostedOnce
<1>11. AnsweredOnce'
  BY <1>2, <1>5, <1>6 DEF Onces, AnsweredOnce, Answered
<1>12. OneAnswer'
  BY <1>2, <1>5 DEF Onces, OneAnswer, Queued
<1>13. ChosenOnce'
  BY <1>6, <1>7 DEF Onces, ChosenOnce
<1>14. Unoperated'
  BY <1>1, <1>2, <1>3 DEF Onces, Unoperated
<1> QED
  BY <1>8, <1>9, <1>10, <1>11, <1>12, <1>13, <1>14 DEF Onces

LEMMA SendNoActionOnces ==
  ASSUME IInv, IInv', Onces, NEW w \in Procs, SendNoAction(w)
  PROVE  Onces'
<1>t. TypeOK /\ TypeOK' /\ handler[w] \in Handler
  BY DEF IInv, TypeOK
<1>1. PICK n \in handler[w].todo \cap NoActionNodes :
        /\ queue' = Append(queue, [node |-> n, status |-> "Success"])
        /\ Become(w, [handler[w] EXCEPT !.todo = @ \ {n}])
  BY DEF SendNoAction
<1> DEFINE k == [handler[w] EXCEPT !.todo = @ \ {n}]
<1>2. k.pc = handler[w].pc /\ k.op = handler[w].op /\ k.todo = handler[w].todo \ {n}
  BY <1>t DEF Handler
<1>3. handler[w].pc = "send" /\ Become(w, k) /\ UNCHANGED <<sent, posts, released, succeeded>>
  BY <1>1 DEF SendNoAction, At
<1> HIDE DEF k
<1>4. handler'[w] = k /\ \A v \in Procs : v # w => handler'[v] = handler[v]
  BY <1>t, <1>3, Became
<1>5. /\ Carried(handler[w]) = handler[w].todo /\ Carried(k) = handler[w].todo \ {n}
      /\ Served(handler[w]) = NoNode /\ Served(k) = NoNode
  BY <1>2, <1>3 DEF Carried, Served, Carrying, SuccessSteps
<1>6. n \in Carried(handler[w]) /\ n \notin Plain
  BY <1>1, <1>5 DEF Plain
<1>7. /\ n \in Nodes /\ n # NoNode /\ ~Answered(n)
      /\ \A v \in Procs : v # w => n \notin Carried(handler[v])
      /\ \A m \in Nodes : Taken(m) => n \notin Pred[m]
  BY <1>6, CarriedFacts, GraphAssumption
<1>8. \A v \in Procs : /\ Carried(handler'[v]) = Carried(handler[v]) \ {n}
                       /\ Served(handler'[v]) = Served(handler[v])
  BY <1>4, <1>5, <1>7
<1>9. queue \in Seq(Message)
  BY <1>t DEF TypeOK
<1>10. /\ Len(queue') = Len(queue) + 1 /\ Len(queue) \in Nat
       /\ \A i \in 1..Len(queue) : queue'[i] = queue[i]
       /\ queue'[Len(queue) + 1] = [node |-> n, status |-> "Success"]
  BY <1>1, <1>9
<1>11. \A i \in 1..Len(queue') : i \in 1..Len(queue) \/ i = Len(queue) + 1
  BY <1>10
<1>12. \A x : Queued(x)' => Queued(x) \/ x = n
  BY <1>10, <1>11 DEF Queued
<1>13. \A x : Awaited(x)' => Awaited(x) \/ x = n
  BY <1>8, <1>12 DEF Awaited, Served1
<1>14. ~Queued(n) /\ \A v \in Procs : Served(handler[v]) # n
  BY <1>7 DEF Answered, Awaited, Served1
<1>15. \A m : Taken(m)' => Taken(m)
  BY <1>3, <1>8 DEF Taken
<1>16. OneCarrier'
  BY <1>2, <1>3, <1>4, <1>8 DEF Onces, OneCarrier
<1>17. SentOnce'
  BY <1>3, <1>8 DEF Onces, SentOnce
<1>18. PostedOnce'
  BY <1>3 DEF Onces, PostedOnce
<1>19. AnsweredOnce'
  <2> SUFFICES ASSUME NEW x \in Nodes, Answered(x)'
               PROVE  /\ \A v \in Procs : x \notin Carried(handler'[v])
                      /\ x \in Plain => posts'[x]["Success"] > 0
    BY DEF AnsweredOnce
  <2>1. CASE x = n
    BY <1>6, <1>8, <2>1
  <2>2. CASE x # n
    <3>1. Answered(x)
      BY <1>3, <1>13, <2>2 DEF Answered
    <3> QED
      BY <1>3, <1>8, <3>1 DEF Onces, AnsweredOnce
  <2> QED
    BY <2>1, <2>2
<1>20. OneAnswer'
  <2>1. \A i \in 1..Len(queue) : queue[i].node # n
    BY <1>14 DEF Queued
  <2>2. ASSUME NEW i \in 1..Len(queue'), NEW j \in 1..Len(queue'), queue'[i].node = queue'[j].node
        PROVE  i = j
    <3>1. i \in 1..Len(queue) \/ i = Len(queue) + 1
      BY <1>11
    <3>2. j \in 1..Len(queue) \/ j = Len(queue) + 1
      BY <1>11
    <3> QED
      BY <1>10, <2>1, <2>2, <3>1, <3>2 DEF Onces, OneAnswer
  <2>3. \A i \in 1..Len(queue') : queue'[i].status = "Success"
    BY <1>10, <1>11 DEF Onces, OneAnswer
  <2>4. \A v, u \in Procs : Served(handler'[v]) = Served(handler'[u]) /\ Served(handler'[v]) # NoNode => v = u
    BY <1>8 DEF Onces, OneAnswer
  <2>5. \A v \in Procs : Served(handler'[v]) # NoNode =>
          ~(\E i \in 1..Len(queue') : queue'[i].node = Served(handler'[v]))
    <3> SUFFICES ASSUME NEW v \in Procs, Served(handler'[v]) # NoNode,
                        NEW i \in 1..Len(queue'), queue'[i].node = Served(handler'[v])
                 PROVE  FALSE
      OBVIOUS
    <3>1. CASE i \in 1..Len(queue)
      <4>1. queue[i].node = Served(handler[v]) /\ Served(handler[v]) # NoNode
        BY <1>8, <1>10, <3>1
      <4>2. Queued(Served(handler[v]))
        BY <3>1, <4>1 DEF Queued
      <4> QED
        BY <4>1, <4>2 DEF Onces, OneAnswer
    <3>2. CASE i = Len(queue) + 1
      BY <1>8, <1>10, <1>14, <3>2
    <3> QED
      BY <1>11, <3>1, <3>2
  <2> QED
    BY <2>2, <2>3, <2>4, <2>5 DEF OneAnswer, Queued
<1>21. ChosenOnce'
  <2> SUFFICES ASSUME NEW m \in Nodes, Taken(m)', NEW x \in Pred[m], Awaited(x)'
               PROVE  FALSE
    BY DEF ChosenOnce
  <2>1. Taken(m) /\ x # n
    BY <1>7, <1>15
  <2> QED
    BY <1>13, <2>1 DEF Onces, ChosenOnce
<1>22. Unoperated'
  BY <1>2, <1>3, <1>4 DEF Onces, Unoperated
<1> QED
  BY <1>16, <1>17, <1>18, <1>19, <1>20, <1>21, <1>22 DEF Onces

LEMMA SendTaskOnces ==
  ASSUME IInv, IInv', Starts, Onces, NEW w \in Procs, SendTask(w)
  PROVE  Onces'
<1>t. TypeOK /\ TypeOK' /\ handler[w] \in Handler
  BY DEF IInv, TypeOK
<1> DEFINE n == handler[w].cur
           k == [handler[w] EXCEPT !.pc = "send", !.cur = NoNode, !.todo = @ \ {n}]
<1>1. k.pc = "send" /\ k.op = handler[w].op /\ k.todo = handler[w].todo \ {n}
  BY <1>t DEF Handler
<1>2. /\ handler[w].pc = "sendTask" /\ Become(w, k) /\ sent' = [sent EXCEPT ![n]["Start"] = @ + 1]
      /\ UNCHANGED <<queue, posts, released, succeeded>>
  BY DEF SendTask, At
<1>3. n \in handler[w].todo /\ n \in Plain
  BY <1>2 DEF Starts, HandlersOrderly, Orderly, Onces, OneCarrier
<1> HIDE DEF k, n
<1>4. handler'[w] = k /\ \A v \in Procs : v # w => handler'[v] = handler[v]
  BY <1>t, <1>2, Became
<1>5. /\ Carried(handler[w]) = handler[w].todo /\ Carried(k) = handler[w].todo \ {n}
      /\ Served(handler[w]) = NoNode /\ Served(k) = NoNode
  BY <1>1, <1>2 DEF Carried, Served, Carrying, SuccessSteps
<1>6. /\ n \in Nodes /\ sent[n]["Start"] = 0
      /\ \A v \in Procs : v # w => n \notin Carried(handler[v])
  BY <1>3, <1>5, CarriedFacts
<1>7. \A v \in Procs : /\ Carried(handler'[v]) = Carried(handler[v]) \ {n}
                       /\ Served(handler'[v]) = Served(handler[v])
  BY <1>4, <1>5, <1>6
<1>8. /\ sent'[n]["Start"] = 1
      /\ \A c \in Commands \ {"Start"} : sent'[n][c] = sent[n][c]
      /\ \A m \in Nodes \ {n} : sent'[m] = sent[m]
  BY <1>t, <1>2, <1>6 DEF TypeOK, Commands
<1>9. \A x : Awaited(x)' <=> Awaited(x)
  BY <1>2, <1>7 DEF Awaited, Queued, Served1
<1>10. \A m : Taken(m)' => Taken(m)
  BY <1>2, <1>7 DEF Taken
<1>11. OneCarrier'
  BY <1>1, <1>2, <1>4, <1>7 DEF Onces, OneCarrier
<1>12. SentOnce'
  <2> SUFFICES ASSUME NEW m \in Nodes
               PROVE  /\ sent'[m]["Start"] <= 1
                      /\ sent'[m]["Start"] > 0 => m \in Plain /\ \A v \in Procs : m \notin Carried(handler'[v])
                      /\ \A c \in Commands \ {"Start"} : sent'[m][c] = 0
    BY DEF SentOnce
  <2>1. CASE m = n
    BY <1>3, <1>7, <1>8, <2>1 DEF Onces, SentOnce
  <2>2. CASE m # n
    BY <1>7, <1>8, <2>2 DEF Onces, SentOnce
  <2> QED
    BY <2>1, <2>2
<1>13. PostedOnce'
  <2>1. \A m \in Nodes, c \in Commands : sent[m][c] > 0 => sent'[m][c] > 0
    BY <1>6, <1>8
  <2>2. \A r \in Results : Answers(r) \in Commands
    BY DEF Results, Answers, Commands
  <2> QED
    BY <1>2, <2>1, <2>2 DEF Onces, PostedOnce
<1>14. AnsweredOnce'
  BY <1>2, <1>7, <1>9 DEF Onces, AnsweredOnce, Answered
<1>15. OneAnswer'
  BY <1>2, <1>7 DEF Onces, OneAnswer, Queued
<1>16. ChosenOnce'
  BY <1>9, <1>10 DEF Onces, ChosenOnce
<1>17. Unoperated'
  BY <1>1, <1>2, <1>4 DEF Onces, Unoperated
<1> QED
  BY <1>11, <1>12, <1>13, <1>14, <1>15, <1>16, <1>17 DEF Onces

-----------------------------------------------------------------------------
(* Starts, operations, ends and failures: nothing is chosen or sent.       *)

LEMMA StartOnces ==
  ASSUME IInv, IInv', Onces, NEW w \in Procs,
         SubmitFlow(w) \/ SubmitNodes(w) \/ StartWorkflow(w) \/ StartNodes(w) \/ StartSave(w)
  PROVE  Onces'
<1>t. TypeOK /\ TypeOK' /\ handler[w] \in Handler
  BY DEF IInv, TypeOK
<1>o. handler[w].op \notin UserOps
  BY DEF Onces, Unoperated
<1>0. UNCHANGED <<queue, sent, posts, released, succeeded>>
  BY DEF SubmitFlow, SubmitNodes, StartWorkflow, StartNodes, StartSave
<1>r. ASSUME NEW k, Become(w, k), k.pc \in {"submitNodes", "startNodes", "startSave", "schedFlow"},
             k.op \notin UserOps
      PROVE  Onces'
  <2>1. Rests(handler[w], k)
    BY <1>r, FreeRests DEF Carrying, SuccessSteps
  <2> QED
    BY <1>t, <1>0, <1>r, <2>1, OncesLocal
<1>1. CASE SubmitFlow(w)
  <2> DEFINE k == [Idle EXCEPT !.pc = "submitNodes", !.op = "Submit"]
  <2>1. k.pc = "submitNodes" /\ k.op \notin UserOps
    BY DEF Idle, UserOps
  <2>2. Become(w, k)
    BY <1>1 DEF SubmitFlow
  <2> HIDE DEF k
  <2> QED
    BY <1>r, <2>1, <2>2
<1>2. CASE SubmitNodes(w)
  BY <1>t, <1>0, <1>2, OncesReturn DEF SubmitNodes
<1>3. CASE StartWorkflow(w)
  <2> DEFINE k == [Idle EXCEPT !.pc = "startNodes", !.op = "Start", !.copy = [flow EXCEPT !.status = "Pending"]]
  <2>1. k.pc = "startNodes" /\ k.op \notin UserOps
    BY DEF Idle, UserOps
  <2>2. Become(w, k)
    BY <1>3 DEF StartWorkflow
  <2> HIDE DEF k
  <2> QED
    BY <1>r, <2>1, <2>2
<1>4. CASE StartNodes(w)
  <2> DEFINE t == SetStatus({n \in Nodes : Exists(n)}, "Pending")
             k == [handler[w] EXCEPT !.pc = "startSave", !.rows = t]
  <2>1. Become(w, k)
    BY <1>4 DEF StartNodes
  <2> HIDE DEF t
  <2>2. k.pc = "startSave" /\ k.op = handler[w].op
    BY <1>t DEF Handler
  <2> HIDE DEF k
  <2> QED
    BY <1>o, <1>r, <2>1, <2>2
<1>5. CASE StartSave(w)
  <2> DEFINE k == [handler[w] EXCEPT !.pc = "schedFlow", !.rows = NoRows]
  <2>1. k.pc = "schedFlow" /\ k.op = handler[w].op
    BY <1>t DEF Handler
  <2>2. Become(w, k)
    BY <1>5 DEF StartSave
  <2> HIDE DEF k
  <2> QED
    BY <1>o, <1>r, <2>1, <2>2
<1> QED
  BY <1>1, <1>2, <1>3, <1>4, <1>5

LEMMA EndOnces ==
  ASSUME IInv, IInv', Onces, NEW w \in Procs, Finish(w) \/ SendDone(w) \/ Bill(w) \/ HandlerError(w)
  PROVE  Onces'
<1>t. TypeOK /\ TypeOK' /\ handler[w] \in Handler
  BY DEF IInv, TypeOK
<1>o. handler[w].op \notin UserOps
  BY DEF Onces, Unoperated
<1>0. UNCHANGED <<queue, sent, posts, released, succeeded>>
  BY DEF Finish, SendDone, Bill, HandlerError
<1>r. CASE Return(w)
  BY <1>t, <1>0, <1>r, OncesReturn
<1> DEFINE k == [handler[w] EXCEPT !.pc = "bill", !.copy = NoFlow, !.rows = NoRows]
<1>1. k.pc = "bill" /\ k.op = handler[w].op
  BY <1>t DEF Handler
<1>2. Return(w) \/ Become(w, k)
  BY DEF Finish, SendDone, Bill, HandlerError, AfterSchedule
<1> HIDE DEF k
<1>3. Rests(handler[w], k)
  BY <1>o, <1>1, FreeRests DEF Carrying, SuccessSteps
<1> QED
  BY <1>t, <1>r, <1>0, <1>2, <1>3, OncesLocal

\* Nobody operates.
LEMMA OperateOnces ==
  ASSUME IInv, MaxOps = 0, Onces, NEW w \in Procs,
         \/ OpNodes(w) \/ OpNoAction(w) \/ OpAgent(w) \/ OpError(w) \/ OpSave(w)
         \/ \E op \in UserOps : Operate(w, op)
  PROVE  FALSE
<1>1. handler[w].op \notin UserOps
  BY DEF Onces, Unoperated
<1>2. handler[w].pc \notin {"opNodes", "op"}
  BY <1>1 DEF IInv, HandlersSound, Sound
<1>3. ~(used["op"] < MaxOps)
  BY DEF IInv, TypeOK
<1>4. \A op \in UserOps : ~Operate(w, op)
  BY <1>3 DEF Operate
<1> QED
  BY <1>2, <1>4 DEF OpNodes, OpNoAction, OpAgent, OpError, OpSave, At

LEMMA CrashOnces ==
  ASSUME TypeOK, TypeOK', Onces, Crash
  PROVE  Onces'
<1>1. /\ \A v \in Procs : handler'[v] = Idle
      /\ queue' = <<>> /\ UNCHANGED <<sent, posts, released, succeeded>>
  BY DEF Crash
<1>2. \A v \in Procs : Rests(handler[v], handler'[v])
  BY <1>1, IdleRests
<1> QED
  BY <1>1, <1>2, OncesRest DEF Answered

-----------------------------------------------------------------------------
(* Results arrive.                                                         *)

LEMMA RecvSaveOnces ==
  ASSUME IInv, IInv', Onces, NEW w \in Procs, RecvSave(w)
  PROVE  Onces'
<1>t. TypeOK /\ TypeOK' /\ handler[w] \in Handler
  BY DEF IInv, TypeOK
<1> DEFINE next == [handler[w] EXCEPT !.rows = NoRows]
           a == [next EXCEPT !.pc = "allSame"]
           f == [next EXCEPT !.pc = "flowRead"]
<1>1. handler[w].pc = "recvSave" /\ UNCHANGED <<queue, sent, posts, released>>
  BY DEF RecvSave, At
<1>2. handler[w].op \in {"Success", "Failed"} /\ handler[w].op \notin UserOps
  BY <1>1 DEF Onces, Unoperated
<1>3. \/ handler[w].op = "Success" /\ Become(w, a) /\ succeeded' = succeeded \cup {handler[w].node}
      \/ handler[w].op = "Failed" /\ Become(w, f) /\ succeeded' = succeeded
  BY <1>2 DEF RecvSave
<1>4. /\ a.pc = "allSame" /\ a.op = handler[w].op /\ a.node = handler[w].node
      /\ f.pc = "flowRead" /\ f.op = handler[w].op
  BY <1>t DEF Handler
<1> HIDE DEF a, f
<1>5. CASE handler[w].op = "Success" /\ Become(w, a) /\ succeeded' = succeeded \cup {handler[w].node}
  <2>1. /\ Served(handler[w]) = handler[w].node /\ Served(a) = handler[w].node
        /\ Carried(a) = {}
    BY <1>1, <1>4, <1>5 DEF Served, Carried, SuccessSteps, Carrying
  <2>2. Rests(handler[w], a)
    BY <1>2, <1>4, <2>1 DEF Rests
  <2>3. \A v \in Procs : Rests(handler[v], handler'[v])
    BY <1>t, <1>5, <2>2, Became, StillRests
  <2>4. Answered(handler[w].node)
    BY <2>1 DEF Answered, Awaited, Served1
  <2>5. \A x \in Nodes : x \in succeeded' => Answered(x)
    BY <1>5, <2>4 DEF Answered
  <2> QED
    BY <1>t, <1>1, <2>3, <2>5, OncesRest
<1>6. CASE handler[w].op = "Failed" /\ Become(w, f) /\ succeeded' = succeeded
  <2>1. Rests(handler[w], f)
    BY <1>2, <1>4, FreeRests DEF Carrying, SuccessSteps
  <2> QED
    BY <1>t, <1>1, <1>6, <2>1, OncesLocal
<1> QED
  BY <1>3, <1>5, <1>6

LEMMA FlowOnces ==
  ASSUME IInv, IInv', Onces, NEW w \in Procs, FlowRead(w) \/ FlowSave(w)
  PROVE  Onces'
<1>t. TypeOK /\ TypeOK' /\ handler[w] \in Handler
  BY DEF IInv, TypeOK
<1>o. handler[w].op \notin UserOps
  BY DEF Onces, Unoperated
<1>0. UNCHANGED <<queue, sent, posts, released, succeeded>>
  BY DEF FlowRead, FlowSave
<1>1. ASSUME NEW s \in {"Error", "Paused", "Stopped"},
             Become(w, [handler[w] EXCEPT !.pc = "flowSave", !.copy = [flow EXCEPT !.status = s]])
      PROVE  Onces'
  <2> DEFINE k == [handler[w] EXCEPT !.pc = "flowSave", !.copy = [flow EXCEPT !.status = s]]
  <2>1. Become(w, k) /\ k.pc = "flowSave" /\ k.op = handler[w].op
    BY <1>t, <1>1 DEF Handler
  <2> HIDE DEF k
  <2>2. Rests(handler[w], k)
    BY <1>o, <2>1, FreeRests DEF Carrying, SuccessSteps
  <2> QED
    BY <1>t, <1>0, <2>1, <2>2, OncesLocal
<1>2. CASE Return(w)
  BY <1>t, <1>0, <1>2, OncesReturn
<1> QED
  BY <1>1, <1>2 DEF FlowRead, FlowSave

\* The record of a handler that has received result r of node n.
LEMMA ReceivingFacts ==
  ASSUME NEW n, NEW r \in {"Success", "Failed"}
  PROVE  LET k == Receiving(n, r)
         IN  /\ k.pc = "recvSave" /\ k.op = r /\ k.node = n /\ k.op \notin UserOps
             /\ Carried(k) = {} /\ Served(k) = IF r = "Success" THEN n ELSE NoNode
<1> DEFINE t == [NoRows EXCEPT ![n] = [node[n] EXCEPT !.status = ResultStatus(r)]]
           h == [Idle EXCEPT !.pc = "recvSave", !.op = r, !.node = n, !.rows = t]
<1>1. Receiving(n, r) = h
  BY DEF Receiving
<1> HIDE DEF t
<1>2. h.pc = "recvSave" /\ h.op = r /\ h.node = n
  BY DEF Idle
<1> HIDE DEF h
<1> QED
  BY <1>1, <1>2 DEF Carried, Carrying, Served, SuccessSteps, UserOps

\* A result is posted for a task that was sent once, and not before: its node was not answered.
LEMMA PostOnces ==
  ASSUME IInv, IInv', Starts, MaxPosts <= 1, Onces, NEW w \in Procs, NEW n \in Nodes, NEW r \in Results,
         Post(w, n, r)
  PROVE  Onces'
<1>t. TypeOK /\ TypeOK'
  BY DEF IInv
<1> DEFINE k == Receiving(n, r)
<1>1. /\ handler[w].pc = "idle" /\ Become(w, k) /\ posts' = [posts EXCEPT ![n][r] = @ + 1]
      /\ UNCHANGED <<queue, sent, released, succeeded>>
      /\ Reportable(n, r)
  BY DEF Post, At
<1>2. Answers(r) \in Commands /\ sent[n][Answers(r)] > 0
  BY <1>1 DEF Reportable, Results, Answers, Commands
<1>3. Answers(r) = "Start"
  BY <1>2 DEF Onces, SentOnce
<1>4. r \in {"Success", "Failed"}
  BY <1>3 DEF Answers, Results
<1>5. n \in Plain /\ n # NoNode /\ \A v \in Procs : n \notin Carried(handler[v])
  BY <1>2, <1>3, GraphAssumption DEF Onces, SentOnce
<1>6. /\ k.pc = "recvSave" /\ k.op = r /\ k.node = n /\ k.op \notin UserOps
      /\ Carried(k) = {} /\ Served(k) = IF r = "Success" THEN n ELSE NoNode
  BY <1>4, ReceivingFacts
<1> HIDE DEF k
<1>7. Carried(handler[w]) = {} /\ Served(handler[w]) = NoNode
  BY <1>1 DEF Carried, Carrying, Served, SuccessSteps
<1>8. handler'[w] = k /\ \A v \in Procs : v # w => handler'[v] = handler[v]
  BY <1>t, <1>1, Became
<1>9. \A v \in Procs : Carried(handler'[v]) = Carried(handler[v])
  BY <1>6, <1>7, <1>8
<1>10. /\ posts'[n][r] > 0 /\ posts'[n][r] = posts[n][r] + 1 /\ posts[n][r] \in Nat
       /\ \A q \in Results \ {r} : posts'[n][q] = posts[n][q]
       /\ \A m \in Nodes \ {n} : posts'[m] = posts[m]
  BY <1>t, <1>1 DEF TypeOK
<1>11. \A m \in Nodes, q \in Results : posts[m][q] > 0 => posts'[m][q] > 0
  BY <1>10
<1>12. r = "Success" => ~Answered(n)
  <2>1. r = "Success" => posts[n]["Success"] = 0
    BY <1>1, <1>10, ModelAssumption DEF Reportable
  <2> QED
    BY <1>5, <2>1 DEF Onces, AnsweredOnce
<1>13. \A x : Queued(x)' <=> Queued(x)
  BY <1>1 DEF Queued
<1>14. \A x \in Nodes : Awaited(x)' => Awaited(x) \/ (x = n /\ r = "Success")
  <2>1. \A x \in Nodes : Served(k) = x => x = n /\ r = "Success"
    BY <1>6, GraphAssumption
  <2> QED
    BY <1>8, <1>13, <2>1 DEF Awaited, Served1
<1>15. \A m : Taken(m)' => Taken(m)
  BY <1>1, <1>9 DEF Taken
<1>16. OneCarrier'
  BY <1>1, <1>6, <1>8, <1>9 DEF Onces, OneCarrier
<1>17. SentOnce'
  BY <1>1, <1>9 DEF Onces, SentOnce
<1>18. PostedOnce'
  <2> SUFFICES ASSUME NEW m \in Nodes
               PROVE  /\ \A q \in Results : posts'[m][q] > 0 => sent'[m][Answers(q)] > 0
                      /\ posts'[m]["Success"] = 0 \/ posts'[m]["Failed"] = 0
    BY DEF PostedOnce
  <2>1. CASE m = n
    <3>1. \A q \in Results : posts'[m][q] > 0 => sent'[m][Answers(q)] > 0
      BY <1>1, <1>2, <1>10, <2>1 DEF Onces, PostedOnce
    <3>2. CASE r = "Success"
      <4>1. posts[n]["Failed"] = 0 /\ "Failed" \in Results \ {r}
        BY <1>1, <3>2 DEF Reportable, Results
      <4> QED
        BY <1>10, <2>1, <3>1, <4>1
    <3>3. CASE r = "Failed"
      <4>1. posts[n]["Success"] = 0 /\ "Success" \in Results \ {r}
        BY <1>1, <3>3 DEF Reportable, Results
      <4> QED
        BY <1>10, <2>1, <3>1, <4>1
    <3> QED
      BY <1>4, <3>1, <3>2, <3>3
  <2>2. CASE m # n
    BY <1>1, <1>10, <2>2 DEF Onces, PostedOnce
  <2> QED
    BY <2>1, <2>2
<1>19. AnsweredOnce'
  <2> SUFFICES ASSUME NEW x \in Nodes, Answered(x)'
               PROVE  /\ \A v \in Procs : x \notin Carried(handler'[v])
                      /\ x \in Plain => posts'[x]["Success"] > 0
    BY DEF AnsweredOnce
  <2>1. Answered(x) \/ (x = n /\ r = "Success")
    BY <1>1, <1>14 DEF Answered
  <2>2. CASE Answered(x)
    BY <1>9, <1>11, <2>2 DEF Onces, AnsweredOnce, Results
  <2>3. CASE x = n /\ r = "Success"
    BY <1>5, <1>9, <1>10, <2>3
  <2> QED
    BY <2>1, <2>2, <2>3
<1>20. OneAnswer'
  <2>1. ASSUME NEW v \in Procs, Served(k) # NoNode
        PROVE  Served(handler[v]) # Served(k) /\ ~Queued(Served(k))
    BY <1>6, <1>12, <2>1 DEF Answered, Awaited, Served1
  <2>2. /\ \A i, j \in 1..Len(queue') : queue'[i].node = queue'[j].node => i = j
        /\ \A i \in 1..Len(queue') : queue'[i].status = "Success"
    BY <1>1 DEF Onces, OneAnswer
  <2>3. \A v, u \in Procs : Served(handler'[v]) = Served(handler'[u]) /\ Served(handler'[v]) # NoNode => v = u
    BY <1>8, <2>1 DEF Onces, OneAnswer
  <2>4. \A v \in Procs : Served(handler'[v]) # NoNode => ~Queued(Served(handler'[v]))
    BY <1>8, <2>1 DEF Onces, OneAnswer
  <2>5. \A v \in Procs : Served(handler'[v]) # NoNode =>
          ~(\E i \in 1..Len(queue') : queue'[i].node = Served(handler'[v]))
    BY <1>1, <2>4 DEF Queued
  <2> QED
    BY <2>2, <2>3, <2>5 DEF OneAnswer, Queued
<1>21. ChosenOnce'
  <2> SUFFICES ASSUME NEW m \in Nodes, Taken(m)', NEW x \in Pred[m], Awaited(x)'
               PROVE  FALSE
    BY DEF ChosenOnce
  <2>1. Taken(m) /\ x \in Nodes
    BY <1>15, PredNodes
  <2>2. Answered(x)
    BY <2>1, TakenPreds DEF Answered
  <2>3. Awaited(x)
    BY <1>12, <1>14, <2>1, <2>2
  <2> QED
    BY <2>1, <2>3 DEF Onces, ChosenOnce
<1>22. Unoperated'
  <2> SUFFICES ASSUME NEW v \in Procs
               PROVE  /\ handler'[v].op \notin UserOps
                      /\ handler'[v].pc = "recvSave" => handler'[v].op \in {"Success", "Failed"}
                      /\ handler'[v].pc = "recvSave" /\ handler'[v].op = "Failed"
                           => posts'[handler'[v].node]["Failed"] > 0
    BY DEF Unoperated
  <2>1. CASE v = w
    BY <1>4, <1>6, <1>8, <1>10, <2>1
  <2>2. CASE v # w
    <3>1. handler[v].pc = "recvSave" => handler[v].node \in Nodes
      BY DEF IInv, HandlersSound, Sound, TypeOK
    <3> QED
      BY <1>8, <1>11, <2>2, <3>1 DEF Onces, Unoperated, Results
  <2> QED
    BY <2>1, <2>2
<1> QED
  BY <1>16, <1>17, <1>18, <1>19, <1>20, <1>21, <1>22 DEF Onces

\* The success at the head of the queue passes to the consumer.
LEMMA ConsumeOnces ==
  ASSUME IInv, IInv', Onces, Consume
  PROVE  Onces'
<1>t. TypeOK /\ TypeOK' /\ queue \in Seq(Message) /\ Consumer \in Procs
  BY DEF IInv, TypeOK, Procs
<1> DEFINE w == Consumer
           n == Head(queue).node
           k == Receiving(n, Head(queue).status)
<1>1. /\ handler[w].pc = "idle" /\ Become(w, k) /\ queue # <<>> /\ queue' = Tail(queue)
      /\ UNCHANGED <<sent, posts, released, succeeded>>
  BY DEF Consume, At
<1>2. /\ Len(queue) > 0 /\ Len(queue') = Len(queue) - 1 /\ Head(queue) = queue[1]
      /\ \A i \in 1..Len(queue') : i + 1 \in 1..Len(queue) /\ queue'[i] = queue[i + 1]
  BY <1>t, <1>1
<1>3. queue[1].status = "Success" /\ 1 \in 1..Len(queue)
  BY <1>t, <1>2 DEF Onces, OneAnswer
<1>4. n \in Nodes /\ n # NoNode /\ Queued(n)
  <2>1. Head(queue) \in Message
    BY <1>t, <1>1
  <2> QED
    BY <1>2, <1>3, <2>1, GraphAssumption DEF Message, Queued
<1>5. /\ k.pc = "recvSave" /\ k.op = "Success" /\ k.node = n /\ k.op \notin UserOps
      /\ Carried(k) = {} /\ Served(k) = n
  BY <1>2, <1>3, ReceivingFacts
<1>6. \A i \in 1..Len(queue') : queue'[i].node # n
  <2> SUFFICES ASSUME NEW i \in 1..Len(queue'), queue'[i].node = n PROVE FALSE
    OBVIOUS
  <2>1. i + 1 \in 1..Len(queue) /\ queue[i + 1].node = queue[1].node
    BY <1>2
  <2>2. i + 1 = 1
    BY <1>3, <2>1 DEF Onces, OneAnswer
  <2> QED
    BY <2>2
<1> HIDE DEF k, n, w
<1>w. w \in Procs
  BY <1>t DEF w
<1>7. handler'[w] = k /\ \A v \in Procs : v # w => handler'[v] = handler[v]
  BY <1>t, <1>w, <1>1, Became
<1>8. Carried(handler[w]) = {} /\ Served(handler[w]) = NoNode
  BY <1>1 DEF Carried, Carrying, Served, SuccessSteps
<1>9. \A v \in Procs : Carried(handler'[v]) = Carried(handler[v])
  BY <1>5, <1>7, <1>8
<1>10. \A x : Queued(x)' => Queued(x)
  BY <1>2 DEF Queued
<1>11. \A x : Awaited(x)' => Awaited(x)
  BY <1>4, <1>5, <1>7, <1>10 DEF Awaited, Served1
<1>12. \A m : Taken(m)' => Taken(m)
  BY <1>1, <1>9 DEF Taken
<1>13. OneCarrier'
  BY <1>1, <1>5, <1>7, <1>9 DEF Onces, OneCarrier
<1>14. SentOnce' /\ PostedOnce'
  BY <1>1, <1>9 DEF Onces, SentOnce, PostedOnce
<1>15. AnsweredOnce'
  BY <1>1, <1>9, <1>11 DEF Onces, AnsweredOnce, Answered
<1>16. OneAnswer'
  <2>1. ASSUME NEW i \in 1..Len(queue'), NEW j \in 1..Len(queue'), queue'[i].node = queue'[j].node
        PROVE  i = j
    <3>1. /\ i + 1 \in 1..Len(queue) /\ j + 1 \in 1..Len(queue)
          /\ queue[i + 1].node = queue[j + 1].node
      BY <1>2, <2>1
    <3>2. i + 1 = j + 1
      BY <3>1 DEF Onces, OneAnswer
    <3> QED
      BY <3>2
  <2>2. \A i \in 1..Len(queue') : queue'[i].status = "Success"
    BY <1>2 DEF Onces, OneAnswer
  <2>3. \A v \in Procs : Served(handler[v]) # n
    BY <1>4 DEF Onces, OneAnswer
  <2>4. \A v, u \in Procs : Served(handler'[v]) = Served(handler'[u]) /\ Served(handler'[v]) # NoNode => v = u
    BY <1>5, <1>7, <2>3 DEF Onces, OneAnswer
  <2>5. \A v \in Procs : Served(handler'[v]) # NoNode =>
          ~(\E i \in 1..Len(queue') : queue'[i].node = Served(handler'[v]))
    <3> SUFFICES ASSUME NEW v \in Procs, Served(handler'[v]) # NoNode,
                        NEW i \in 1..Len(queue'), queue'[i].node = Served(handler'[v])
                 PROVE  FALSE
      OBVIOUS
    <3>1. v # w
      BY <1>5, <1>6, <1>7
    <3>2. queue[i + 1].node = Served(handler[v]) /\ i + 1 \in 1..Len(queue)
      BY <1>2, <1>7, <3>1
    <3>3. Queued(Served(handler[v]))
      BY <3>2 DEF Queued
    <3> QED
      BY <1>7, <3>1, <3>3 DEF Onces, OneAnswer
  <2> QED
    BY <2>1, <2>2, <2>4, <2>5 DEF OneAnswer, Queued
<1>17. ChosenOnce'
  BY <1>11, <1>12 DEF Onces, ChosenOnce
<1>18. Unoperated'
  BY <1>1, <1>5, <1>7 DEF Onces, Unoperated
<1> QED
  BY <1>13, <1>14, <1>15, <1>16, <1>17, <1>18 DEF Onces

-----------------------------------------------------------------------------
(* The invariant, and what follows from it.                                *)

LEMMA InitOnces == Init => Onces
<1> SUFFICES ASSUME Init PROVE Onces
  OBVIOUS
<1>1. /\ \A w \in Procs : handler[w] = Idle
      /\ queue = <<>> /\ succeeded = {}
      /\ \A n \in Nodes, c \in Commands : sent[n][c] = 0
      /\ \A n \in Nodes, r \in Results : posts[n][r] = 0
  BY DEF Init
<1>2. \A w \in Procs : Carried(handler[w]) = {} /\ Served(handler[w]) = NoNode
  BY <1>1, IdleRests
<1>3. Idle.pc = "idle" /\ Idle.op = "None"
  BY DEF Idle
<1>4. \A x \in Nodes : ~Awaited(x) /\ ~Answered(x)
  BY <1>1, <1>2, GraphAssumption DEF Awaited, Answered, Queued, Served1
<1>5. OneCarrier
  BY <1>1, <1>2, <1>3 DEF OneCarrier
<1>6. SentOnce
  BY <1>1 DEF SentOnce, Commands
<1>7. PostedOnce
  BY <1>1 DEF PostedOnce, Results
<1>8. AnsweredOnce
  BY <1>4 DEF AnsweredOnce
<1>9. OneAnswer
  BY <1>1, <1>2 DEF OneAnswer
<1>10. ChosenOnce
  BY <1>4, PredNodes DEF ChosenOnce
<1>11. Unoperated
  BY <1>1, <1>3 DEF Unoperated, UserOps
<1> QED
  BY <1>5, <1>6, <1>7, <1>8, <1>9, <1>10, <1>11 DEF Onces

LEMMA StepOnces ==
  ASSUME Undisturbed, IInv, IInv', Starts, RowsKnown, Onces, [Next]_vars
  PROVE  Onces'
<1>0. MaxOps = 0 /\ MaxPosts <= 1
  BY DEF Undisturbed
<1>1. ASSUME NEW w \in Procs, Step(w)
      PROVE  Onces'
  BY <1>0, <1>1, StartOnces, ScheduleStartOnces, ScheduleSuccessOnces, TaskOnces, TaskSaveOnces,
     SendNoActionOnces, SendTaskOnces, EndOnces, RecvSaveOnces, FlowOnces, OperateOnces DEF Step
<1>2. ASSUME NEW w \in Workers, Request(w)
      PROVE  Onces'
  <2>1. w \in Procs
    BY DEF Procs
  <2> QED
    BY <1>0, <1>2, <2>1, StartOnces, PostOnces, OperateOnces DEF Request
<1>3. CASE Consume
  BY <1>3, ConsumeOnces
<1>4. ASSUME NEW w \in Procs, HandlerError(w)
      PROVE  Onces'
  BY <1>4, EndOnces
<1>5. CASE Crash
  BY <1>5, CrashOnces DEF IInv
<1>6. CASE UNCHANGED vars
  BY <1>6 DEF vars, Onces, OneCarrier, SentOnce, PostedOnce, AnsweredOnce, OneAnswer, ChosenOnce,
     Unoperated, Answered, Awaited, Queued, Served1, Taken
<1> QED
  BY <1>1, <1>2, <1>3, <1>4, <1>5, <1>6 DEF Next

\* What holds of a workflow that is left alone.
Alone == IInv /\ Starts /\ RowsKnown /\ Onces

LEMMA InitAlone == Init => Alone
BY InitIInv, InitStarts, InitRows, InitOnces DEF Alone

LEMMA NextAlone ==
  ASSUME Undisturbed
  PROVE  Alone /\ [Next]_vars => Alone'
<1> SUFFICES ASSUME Alone, [Next]_vars PROVE Alone'
  OBVIOUS
<1>1. IInv /\ Starts /\ RowsKnown /\ Onces /\ MaxStart <= 1
  BY DEF Alone, Undisturbed
<1>2. IInv'
  BY <1>1, NextIInv
<1>3. Starts' /\ RowsKnown' /\ Onces'
  BY <1>1, <1>2, StepStarts, StepRows, StepOnces
<1> QED
  BY <1>2, <1>3 DEF Alone

\* A node of a workflow that is started once, that nobody operates and whose results arrive once is
\* sent to an agent once: of the schedulers that serve the successes of its predecessors at the same
\* time (schedule.rs:65-99) one alone takes it, whatever handlers fail and the service crashes.
THEOREM DispatchedOnce == Undisturbed => (Spec => []NoDoubleDispatch)
<1> SUFFICES ASSUME Undisturbed PROVE Spec => []NoDoubleDispatch
  OBVIOUS
<1>1. Alone => NoDoubleDispatch
  BY DEF Alone, Onces, SentOnce, NoDoubleDispatch
<1> QED
  BY <1>1, InitAlone, NextAlone, PTL DEF Spec

\* A statement of a handler that is left alone does not take a Finished row back.
LEMMA SavedFinished ==
  ASSUME Alone, NEW w \in Procs, NEW n \in Nodes, node[n].status = "Finished",
         \/ StartSave(w) \/ Finish(w) \/ TaskSave(w) \/ SendSave(w) \/ RecvSave(w)
  PROVE  SavedNodes(w)[n].status = "Finished"
<1> DEFINE h == handler[w]
<1>1. n \in succeeded /\ n \in released /\ Answered(n)
  BY DEF Alone, RowsKnown, IInv, HistoryOrdered, Answered
<1>2. h.rows[n] = NoRow \/ Writes(h, n)
  BY DEF Alone, Starts, HandlersOrderly, Orderly
<1>3. ~Starting(h) /\ h.pc # "op"
  BY <1>1 DEF Alone, Starts, OneStart, StartSave, Finish, TaskSave, SendSave, RecvSave, At
<1>4. n \notin Carried(h)
  BY <1>1 DEF Alone, Onces, AnsweredOnce
<1>5. ~(h.pc = "taskSave" /\ n \in h.todo)
  BY <1>4 DEF Carried, Carrying
<1>6. ~(h.pc = "sendSave" /\ n = h.cur)
  BY <1>4 DEF Carried, Carrying, Alone, Starts, HandlersOrderly, Orderly
<1>7. ASSUME h.pc = "recvSave", n = h.node, h.rows[n].status = ResultStatus(h.op)
      PROVE  h.rows[n].status = "Finished"
  <2>1. h.op = "Success" \/ (h.op = "Failed" /\ posts[n]["Failed"] > 0)
    BY <1>7 DEF Alone, Onces, Unoperated
  <2>2. CASE h.op = "Failed" /\ posts[n]["Failed"] > 0
    <3>1. sent[n]["Start"] > 0
      BY <2>2 DEF Alone, Onces, PostedOnce, Results, Answers
    <3>2. posts[n]["Success"] > 0
      BY <1>1, <3>1 DEF Alone, Onces, SentOnce, AnsweredOnce
    <3> QED
      BY <2>2, <3>2 DEF Alone, Onces, PostedOnce
  <2> QED
    BY <1>7, <2>1, <2>2 DEF ResultStatus
<1>8. h.rows[n] = NoRow \/ h.rows[n].status = "Finished"
  BY <1>2, <1>3, <1>5, <1>6, <1>7 DEF Writes
<1> QED
  BY <1>8 DEF SavedNodes

LEMMA FinishedStep ==
  ASSUME Undisturbed, Alone, [Next]_vars, NEW n \in Nodes, node[n].status = "Finished"
  PROVE  node'[n].status = "Finished"
<1>0. MaxOps = 0 /\ IInv /\ Onces
  BY DEF Undisturbed, Alone
<1>1. node[n] # NoRow
  BY DEF NoRow
<1>2. ASSUME NEW w \in Procs, Step(w)
      PROVE  node'[n].status = "Finished"
  <2>1. CASE SubmitNodes(w)
    <3>1. node[n].status = "None"
      BY <2>1 DEF SubmitNodes, Alone, Starts, Unwritten, NoRows, NoRow
    <3> QED
      BY <3>1
  <2>2. CASE StartSave(w) \/ Finish(w) \/ TaskSave(w) \/ SendSave(w) \/ RecvSave(w)
    BY <2>2, SavedFinished DEF StartSave, Finish, TaskSave, SendSave, RecvSave
  <2>3. ~OpNodes(w) /\ ~OpNoAction(w) /\ ~OpAgent(w) /\ ~OpError(w) /\ ~OpSave(w)
    BY <1>0, OperateOnces
  <2>4. CASE \/ StartNodes(w) \/ SchedFlow(w) \/ SchedFlowSave(w) \/ SchedStandby(w)
             \/ AllSame(w) \/ GetFlow(w) \/ GetStandby(w) \/ TaskRows(w)
             \/ SendNoAction(w) \/ SendMilestone(w) \/ SendRead(w) \/ SendTask(w)
             \/ SendDone(w) \/ Bill(w) \/ FlowRead(w) \/ FlowSave(w)
    <3>1. node' = node
      BY <2>4 DEF StartNodes, SchedFlow, SchedFlowSave, SchedStandby, AllSame, GetFlow, GetStandby,
         TaskRows, SendNoAction, SendMilestone, SendRead, SendTask, SendDone, Bill, FlowRead, FlowSave
    <3> QED
      BY <3>1
  <2> QED
    BY <1>2, <2>1, <2>2, <2>3, <2>4 DEF Step
<1>3. CASE \/ \E w \in Workers : Request(w)
           \/ \E w \in Procs : HandlerError(w)
           \/ Consume \/ Crash \/ UNCHANGED vars
  <2>1. node' = node
    BY <1>3 DEF Request, SubmitFlow, StartWorkflow, Operate, Post, HandlerError, Consume, Crash, vars
  <2> QED
    BY <2>1
<1> QED
  BY <1>2, <1>3 DEF Next

\* Under the same conditions no row written by a handler that read it earlier (SendRead .. SendSave
\* of the usecase services, RecvSave of status_receiver.rs:24-37) takes a Finished node back.
THEOREM FinishedForGood == Undisturbed => (Spec => FinishedStays)
<1> SUFFICES ASSUME Undisturbed PROVE Spec => FinishedStays
  OBVIOUS
<1>1. Alone /\ [Next]_vars =>
        [\A n \in Nodes : node[n].status = "Finished" => node'[n].status = "Finished"]_vars
  BY FinishedStep
<1> QED
  BY <1>1, InitAlone, NextAlone, PTL DEF Spec, FinishedStays

=============================================================================
