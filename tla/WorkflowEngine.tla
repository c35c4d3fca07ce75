--------------------------- MODULE WorkflowEngine ---------------------------
(***************************************************************************)
(* The workflow engine of the co service: WorkflowService,                 *)
(* WorkflowScheduleService, WorkflowStatusReceiverService, the use-case    *)
(* services that hand a node to its executor, and the unit-of-work         *)
(* repository they share, for one workflow instance.                       *)
(*                                                                         *)
(* A request or an internal message is served by a handler.  Each handler  *)
(* has a repository of its own: reads go to the database at once, updates  *)
(* are statements kept in memory until save_changed runs them in one       *)
(* transaction, and a handler that returns an error drops them.  Handlers  *)
(* interleave at their awaits, so a handler is a sequence of steps: a      *)
(* group of consecutive reads, a commit, or the sending of one message.    *)
(***************************************************************************)
EXTENDS Naturals, Sequences

CONSTANTS
  Roots,            \* the nodes of the workflow specification
  Subs,             \* the sub nodes of the batch nodes
  ParentOf,         \* ParentOf[s] is the batch parent of sub node s
  Relations,        \* the <<from, to>> pairs of node_relations
  NoActionNodes,    \* the nodes of kind NoAction
  MilestoneNodes,   \* the nodes of kind Milestone; all others run on an agent
  Workers,          \* the handlers that serve HTTP requests
  Consumer,         \* the handler that serves the internal queue
  NoNode,           \* no node
  AutoTouch,        \* does the database change last_modified_time on UPDATE?
  AgentResults,     \* the results agents report in this model
  MaxStart,         \* bound on start requests
  MaxOps,           \* bound on pause, continue and terminate requests
  MaxPosts,         \* bound on the deliveries of one result of one task
  MaxFail,          \* bound on handlers that return an error at an await
  MaxCrash          \* bound on crashes of the co process

Nodes == Roots \cup Subs
Procs == Workers \cup {Consumer}

UserOps == {"Pause", "Continue", "Terminate"}
Results == {"Success", "Failed", "Paused", "Continued", "Deleted"}
Commands == {"Start", "Pause", "Continue", "Delete"}

ASSUME GraphAssumption ==
  /\ Roots \cap Subs = {}
  /\ ParentOf \in [Subs -> Roots]
  /\ Relations \subseteq Roots \X Roots
  /\ NoNode \notin Nodes

ASSUME KindAssumption ==
  /\ NoActionNodes \subseteq Nodes
  /\ MilestoneNodes \subseteq Nodes
  /\ NoActionNodes \cap MilestoneNodes = {}

ASSUME ModelAssumption ==
  /\ Consumer \notin Workers
  /\ AutoTouch \in BOOLEAN
  /\ AgentResults \subseteq Results
  /\ {MaxStart, MaxOps, MaxPosts, MaxFail, MaxCrash} \subseteq Nat

VARIABLES
  flow,       \* the row of table flow_instance: status and last_modified_time
  node,       \* the rows of table node_instance: status, and is a cluster set?
  queue,      \* the internal queue, topic node_status
  sent,       \* sent[n][c]: tasks of node n with command c sent to an agent
  posts,      \* posts[n][r]: deliveries of result r of node n so far
  bills,      \* bills[n]: billing messages sent for node n
  handler,    \* what each handler is doing
  used,       \* how much of each bound is used up
  released,   \* history: the nodes a scheduler has committed as Running
  succeeded   \* history: the nodes for which a Success result was saved

vars == <<flow, node, queue, sent, posts, bills, handler, used, released, succeeded>>

(***************************************************************************)
(* Rows, handlers and messages.  "None" is the status of a row that does   *)
(* not exist; NoRow in the rows of a handler means no pending statement.   *)
(***************************************************************************)
FlowStatus == {"None", "Created", "Pending", "Running", "Finished", "Error",
               "Stopping", "Stopped", "Pausing", "Paused", "Recovering"}
NodeStatus == FlowStatus \cup {"Standby"}

NodeRow == [status : NodeStatus, cluster : BOOLEAN]
FlowRow == [status : FlowStatus, lmt : Nat]
NoRow == [status |-> "None", cluster |-> FALSE]
NoRows == [n \in Nodes |-> NoRow]
NoFlow == [status |-> "None", lmt |-> 0]

Steps == {"idle", "submitNodes", "startNodes", "startSave", "schedFlow", "schedFlowSave",
          "schedStandby", "taskRows", "taskSave", "send", "sendSave", "sendTask", "finish",
          "bill", "recvSave", "allSame", "getFlow", "getStandby", "flowRead", "flowSave",
          "opNodes", "op"}

Handler == [pc   : Steps,                        \* the step it takes next
            op   : {"None", "Submit", "Start"} \cup UserOps \cup Results,
            node : Nodes \cup {NoNode},          \* the node of the result it serves
            cur  : Nodes \cup {NoNode},          \* the node it is sending to an agent
            todo : SUBSET Nodes,                 \* the nodes still to be served
            copy : FlowRow,                      \* its copy of the workflow instance
            rows : [Nodes -> NodeRow]]           \* its pending node statements

Idle == [pc |-> "idle", op |-> "None", node |-> NoNode, cur |-> NoNode,
         todo |-> {}, copy |-> NoFlow, rows |-> NoRows]

Message == [node : Nodes, status : Results]

TypeOK ==
  /\ flow \in FlowRow
  /\ node \in [Nodes -> NodeRow]
  /\ queue \in Seq(Message)
  /\ sent \in [Nodes -> [Commands -> Nat]]
  /\ posts \in [Nodes -> [Results -> Nat]]
  /\ bills \in [Nodes -> Nat]
  /\ handler \in [Procs -> Handler]
  /\ used \in [{"start", "op", "fail", "crash"} -> Nat]
  /\ released \subseteq Nodes
  /\ succeeded \subseteq Nodes

Init ==
  /\ flow = NoFlow
  /\ node = NoRows
  /\ queue = <<>>
  /\ sent = [n \in Nodes |-> [c \in Commands |-> 0]]
  /\ posts = [n \in Nodes |-> [r \in Results |-> 0]]
  /\ bills = [n \in Nodes |-> 0]
  /\ handler = [w \in Procs |-> Idle]
  /\ used = [b \in {"start", "op", "fail", "crash"} |-> 0]
  /\ released = {}
  /\ succeeded = {}

(***************************************************************************)
(* The graph.                                                              *)
(***************************************************************************)
\* A root together with the sub nodes of its batch.
Tasks(R) == R \cup {s \in Subs : ParentOf[s] \in R}

\* Mutant: counts the relations that leave a node, not those that lead to it.
IdsByOutDegree(ids, deps) == {n \in ids : \A d \in deps : d[1] # n}

\* find_entry_nodes_ids: the ids to which no dependency leads.
EntryIds(ids, deps) == {n \in ids : \A d \in deps : d[2] # n}

\* Mutant: only nodes that are Running hold their successors back.
RunningDependencies(x) == {d \in Relations : node[d[1]].status = "Running"}

\* Mutant: the relations of every Finished node are dropped, not only those of x.
UnfinishedDependencies(x) == {d \in Relations : node[d[1]].status # "Finished"}

\* The relations that touch neither end of node x.
DependenciesWithout(x) == {d \in Relations : d[1] # x /\ d[2] # x}

RootOf(n) == IF n \in Subs THEN ParentOf[n] ELSE n

\* The predecessors of a node; a sub node has those of its batch parent.
Pred == [n \in Nodes |-> {r \in Roots : <<r, RootOf(n)>> \in Relations}]

(***************************************************************************)
(* The repository.                                                         *)
(***************************************************************************)
\* The node table after the pending node statements of handler w have run.
SavedNodes(w) ==
  [n \in Nodes |-> IF handler[w].rows[n] = NoRow THEN node[n] ELSE handler[w].rows[n]]

\* The flow row after the pending flow statement of handler w has run: the
\* statement is filtered by the last_modified_time the handler has read.
SavedFlow(w) ==
  IF handler[w].copy.lmt = flow.lmt
    THEN [status |-> handler[w].copy.status,
          lmt |-> IF AutoTouch THEN flow.lmt + 1 ELSE flow.lmt]
    ELSE flow

\* Pending statements that set the status of the nodes of S to s.
SetStatus(S, s) ==
  [n \in Nodes |-> IF n \in S THEN [node[n] EXCEPT !.status = s] ELSE NoRow]

Exists(n) == node[n] # NoRow

At(w, step) == handler[w].pc = step

\* Handler w takes on the record r; the return of a handler drops its record.
Become(w, r) == handler' = [handler EXCEPT ![w] = r]
Return(w) == Become(w, Idle)

(***************************************************************************)
(* submit_workflow: the flow row is inserted at once, the node rows in the *)
(* transaction of save_changed.                                            *)
(***************************************************************************)
SubmitFlow(w) ==
  /\ At(w, "idle")
  /\ flow = NoFlow
  /\ flow' = [status |-> "Created", lmt |-> 0]
  /\ Become(w, [Idle EXCEPT !.pc = "submitNodes", !.op = "Submit"])
  /\ UNCHANGED <<node, queue, sent, posts, bills, used, released, succeeded>>

SubmitNodes(w) ==
  /\ At(w, "submitNodes")
  /\ node' = [n \in Nodes |-> [status |-> "Created", cluster |-> FALSE]]
  /\ Return(w)
  /\ UNCHANGED <<flow, queue, sent, posts, bills, used, released, succeeded>>

(***************************************************************************)
(* start_workflow: everything to Pending, whatever it was before.          *)
(***************************************************************************)
StartWorkflow(w) ==
  /\ At(w, "idle")
  /\ flow # NoFlow
  /\ used["start"] < MaxStart
  /\ used' = [used EXCEPT !["start"] = @ + 1]
  /\ Become(w, [Idle EXCEPT !.pc = "startNodes", !.op = "Start",
                            !.copy = [flow EXCEPT !.status = "Pending"]])
  /\ UNCHANGED <<flow, node, queue, sent, posts, bills, released, succeeded>>

StartNodes(w) ==
  /\ At(w, "startNodes")
  /\ Become(w, [handler[w] EXCEPT !.pc = "startSave",
                                  !.rows = SetStatus({n \in Nodes : Exists(n)}, "Pending")])
  /\ UNCHANGED <<flow, node, queue, sent, posts, bills, used, released, succeeded>>

StartSave(w) ==
  /\ At(w, "startSave")
  /\ node' = SavedNodes(w)
  /\ flow' = SavedFlow(w)
  /\ Become(w, [handler[w] EXCEPT !.pc = "schedFlow", !.rows = NoRows])
  /\ UNCHANGED <<queue, sent, posts, bills, used, released, succeeded>>

(***************************************************************************)
(* schedule_next_nodes, after a start: the entry nodes of the whole graph. *)
(***************************************************************************)
SchedFlow(w) ==
  /\ At(w, "schedFlow")
  /\ Become(w, [handler[w] EXCEPT !.pc = "schedFlowSave",
                                  !.copy = [flow EXCEPT !.status = "Running"]])
  /\ UNCHANGED <<flow, node, queue, sent, posts, bills, used, released, succeeded>>

SchedFlowSave(w) ==
  /\ At(w, "schedFlowSave")
  /\ flow' = SavedFlow(w)
  /\ Become(w, [handler[w] EXCEPT !.pc = "schedStandby"])
  /\ UNCHANGED <<node, queue, sent, posts, bills, used, released, succeeded>>

\* Either there is nothing to run and the instance is Finished, or the entry
\* roots with their batches become the handler's task list.
Dispatch(w, entry, rows) ==
  IF entry = {}
    THEN Become(w, [handler[w] EXCEPT !.pc = "finish", !.copy.status = "Finished",
                                      !.rows = rows])
    ELSE Become(w, [handler[w] EXCEPT !.pc = "taskRows", !.todo = Tasks(entry \cap Roots),
                                      !.rows = rows])

SchedStandby(w) ==
  LET entry   == EntryIds(Roots, Relations)
      standby == Tasks(Roots \ entry)
  IN /\ At(w, "schedStandby")
     /\ IF \A n \in Roots \ entry : Exists(n)
          THEN Dispatch(w, entry, SetStatus({n \in standby : Exists(n)}, "Standby"))
          ELSE Return(w)
     /\ UNCHANGED <<flow, node, queue, sent, posts, bills, used, released, succeeded>>

(***************************************************************************)
(* schedule_next_nodes, after the success of a node: every root must be    *)
(* Finished or Standby, or the handler fails; the entry nodes are those    *)
(* Standby nodes to which no other relation leads.                         *)
(***************************************************************************)
\* Mutant: does not admit Standby nodes.
AllSameFinished(w) ==
  /\ At(w, "allSame")
  /\ IF \A r \in Roots : node[r].status = "Finished"
       THEN Become(w, [handler[w] EXCEPT !.pc = "getFlow"])
       ELSE Return(w)
  /\ UNCHANGED <<flow, node, queue, sent, posts, bills, used, released, succeeded>>

AllSame(w) ==
  /\ At(w, "allSame")
  /\ IF \A r \in Roots : node[r].status \in {"Finished", "Standby"}
       THEN Become(w, [handler[w] EXCEPT !.pc = "getFlow"])
       ELSE Return(w)
  /\ UNCHANGED <<flow, node, queue, sent, posts, bills, used, released, succeeded>>

GetFlow(w) ==
  /\ At(w, "getFlow")
  /\ Become(w, [handler[w] EXCEPT !.pc = "getStandby", !.copy = flow])
  /\ UNCHANGED <<flow, node, queue, sent, posts, bills, used, released, succeeded>>

GetStandby(w) ==
  LET standby == {n \in Nodes : node[n].status = "Standby"}
  IN /\ At(w, "getStandby")
     /\ Dispatch(w, EntryIds(standby, DependenciesWithout(handler[w].node)), NoRows)
     /\ UNCHANGED <<flow, node, queue, sent, posts, bills, used, released, succeeded>>

(***************************************************************************)
(* schedule_next_nodes, common tail: no entry, the flow is Finished;       *)
(* otherwise all tasks are saved as Running and then sent one by one.      *)
(***************************************************************************)
\* A schedule that was started by a result goes on to bill the node.
AfterSchedule(w) ==
  IF handler[w].op = "Start"
    THEN Return(w)
    ELSE Become(w, [handler[w] EXCEPT !.pc = "bill", !.copy = NoFlow, !.rows = NoRows])

Finish(w) ==
  /\ At(w, "finish")
  /\ node' = SavedNodes(w)
  /\ flow' = SavedFlow(w)
  /\ AfterSchedule(w)
  /\ UNCHANGED <<queue, sent, posts, bills, used, released, succeeded>>

\* The pending statements of handler w, and its tasks set to Running.
RunningRows(w) ==
  [n \in Nodes |-> IF n \in handler[w].todo THEN [node[n] EXCEPT !.status = "Running"]
                                            ELSE handler[w].rows[n]]

\* Mutant: the tasks are sent before their rows are saved.
TaskRowsUnsaved(w) ==
  /\ At(w, "taskRows")
  /\ IF \A n \in handler[w].todo : Exists(n)
       THEN Become(w, [handler[w] EXCEPT !.pc = "send", !.rows = RunningRows(w)])
       ELSE Return(w)
  /\ UNCHANGED <<flow, node, queue, sent, posts, bills, used, released, succeeded>>

TaskRows(w) ==
  /\ At(w, "taskRows")
  /\ IF \A n \in handler[w].todo : Exists(n)
       THEN Become(w, [handler[w] EXCEPT !.pc = "taskSave", !.rows = RunningRows(w)])
       ELSE Return(w)
  /\ UNCHANGED <<flow, node, queue, sent, posts, bills, used, released, succeeded>>

TaskSave(w) ==
  /\ At(w, "taskSave")
  /\ node' = SavedNodes(w)
  /\ released' = released \cup handler[w].todo
  /\ Become(w, [handler[w] EXCEPT !.pc = "send", !.rows = NoRows])
  /\ UNCHANGED <<flow, queue, sent, posts, bills, used, succeeded>>

\* NoActionUsecaseService: the node succeeds through the internal queue.
SendNoAction(w) ==
  /\ At(w, "send")
  /\ \E n \in handler[w].todo \cap NoActionNodes :
       /\ queue' = Append(queue, [node |-> n, status |-> "Success"])
       /\ Become(w, [handler[w] EXCEPT !.todo = @ \ {n}])
  /\ UNCHANGED <<flow, node, sent, posts, bills, used, released, succeeded>>

\* No service is registered for milestones: send_usecase fails.
SendMilestone(w) ==
  /\ At(w, "send")
  /\ handler[w].todo \cap MilestoneNodes # {}
  /\ Return(w)
  /\ UNCHANGED <<flow, node, queue, sent, posts, bills, used, released, succeeded>>

\* Mutant: the task is sent before its cluster is saved.
SendBeforeSave(w) ==
  /\ At(w, "send")
  /\ \E n \in handler[w].todo \ (NoActionNodes \cup MilestoneNodes) :
       /\ sent' = [sent EXCEPT ![n]["Start"] = @ + 1]
       /\ Become(w, [handler[w] EXCEPT
            !.pc = "sendSave", !.cur = n,
            !.rows = [NoRows EXCEPT ![n] = [node[n] EXCEPT !.cluster = TRUE]]])
  /\ UNCHANGED <<flow, node, queue, posts, bills, used, released, succeeded>>

\* The other services read the row, set its cluster, save, and send the task.
SendRead(w) ==
  /\ At(w, "send")
  /\ \E n \in handler[w].todo \ (NoActionNodes \cup MilestoneNodes) :
       Become(w, [handler[w] EXCEPT
         !.pc = "sendSave", !.cur = n,
         !.rows = [NoRows EXCEPT ![n] = [node[n] EXCEPT !.cluster = TRUE]]])
  /\ UNCHANGED <<flow, node, queue, sent, posts, bills, used, released, succeeded>>

SendSave(w) ==
  /\ At(w, "sendSave")
  /\ node' = SavedNodes(w)
  /\ Become(w, [handler[w] EXCEPT !.pc = "sendTask", !.rows = NoRows])
  /\ UNCHANGED <<flow, queue, sent, posts, bills, used, released, succeeded>>

SendTask(w) ==
  LET n == handler[w].cur
  IN /\ At(w, "sendTask")
     /\ sent' = [sent EXCEPT ![n]["Start"] = @ + 1]
     /\ Become(w, [handler[w] EXCEPT !.pc = "send", !.cur = NoNode, !.todo = @ \ {n}])
     /\ UNCHANGED <<flow, node, queue, posts, bills, used, released, succeeded>>

\* Everything is sent: the workflow instance is written back as it was read.
SendDone(w) ==
  /\ At(w, "send")
  /\ handler[w].todo = {}
  /\ flow' = SavedFlow(w)
  /\ AfterSchedule(w)
  /\ UNCHANGED <<node, queue, sent, posts, bills, used, released, succeeded>>

Bill(w) ==
  /\ At(w, "bill")
  /\ bills' = [bills EXCEPT ![handler[w].node] = @ + 1]
  /\ Return(w)
  /\ UNCHANGED <<flow, node, queue, sent, posts, used, released, succeeded>>

(***************************************************************************)
(* receive_node_status: the row is overwritten with the reported status,   *)
(* whatever it was before; then the instance follows the result.           *)
(***************************************************************************)
ResultStatus(r) ==
  CASE r = "Success"   -> "Finished"
    [] r = "Continued" -> "Running"
    [] r = "Paused"    -> "Paused"
    [] r = "Failed"    -> "Error"
    [] r = "Deleted"   -> "Stopped"

\* The handler that has read the row of n to save result r in it.
Receiving(n, r) ==
  [Idle EXCEPT !.pc = "recvSave", !.op = r, !.node = n,
               !.rows = [NoRows EXCEPT ![n] = [node[n] EXCEPT !.status = ResultStatus(r)]]]

\* The command an agent must have been given to report result r.
Answers(r) ==
  CASE r \in {"Success", "Failed"} -> "Start"
    [] r = "Paused"                -> "Pause"
    [] r = "Continued"             -> "Continue"
    [] r = "Deleted"               -> "Delete"

\* An agent reports a result: late, repeated or out of order, but only in
\* answer to a command, and not both a success and a failure of one task.
Reportable(n, r) ==
  /\ r \in AgentResults
  /\ sent[n][Answers(r)] > 0
  /\ posts[n][r] < MaxPosts
  /\ r = "Success" => posts[n]["Failed"] = 0
  /\ r = "Failed" => posts[n]["Success"] = 0

Post(w, n, r) ==
  /\ At(w, "idle")
  /\ Reportable(n, r)
  /\ posts' = [posts EXCEPT ![n][r] = @ + 1]
  /\ Become(w, Receiving(n, r))
  /\ UNCHANGED <<flow, node, queue, sent, bills, used, released, succeeded>>

\* The internal queue is served by one handler, message after message.
Consume ==
  /\ At(Consumer, "idle")
  /\ queue # <<>>
  /\ queue' = Tail(queue)
  /\ Become(Consumer, Receiving(Head(queue).node, Head(queue).status))
  /\ UNCHANGED <<flow, node, sent, posts, bills, used, released, succeeded>>

RecvSave(w) ==
  LET n == handler[w].node
      r == handler[w].op
      next == [handler[w] EXCEPT !.rows = NoRows]
  IN /\ At(w, "recvSave")
     /\ node' = SavedNodes(w)
     /\ succeeded' = IF r = "Success" THEN succeeded \cup {n} ELSE succeeded
     /\ CASE r = "Success"   -> Become(w, [next EXCEPT !.pc = "allSame"])
          [] r = "Continued" -> Return(w)
          [] OTHER           -> Become(w, [next EXCEPT !.pc = "flowRead"])
     /\ UNCHANGED <<flow, queue, sent, posts, bills, used, released>>

\* A failure, or the last node to pause or to stop, changes the instance.
FlowRead(w) ==
  LET to(s) == Become(w, [handler[w] EXCEPT !.pc = "flowSave",
                                            !.copy = [flow EXCEPT !.status = s]])
      none(s) == \A n \in Nodes : node[n].status # s
      r == handler[w].op
  IN /\ At(w, "flowRead")
     /\ CASE r = "Failed"                        -> to("Error")
          [] r = "Paused" /\ none("Pausing")     -> to("Paused")
          [] r = "Deleted" /\ none("Stopping")   -> to("Stopped")
          [] OTHER                               -> Return(w)
     /\ UNCHANGED <<flow, node, queue, sent, posts, bills, used, released, succeeded>>

FlowSave(w) ==
  /\ At(w, "flowSave")
  /\ flow' = SavedFlow(w)
  /\ Return(w)
  /\ UNCHANGED <<node, queue, sent, posts, bills, used, released, succeeded>>

(***************************************************************************)
(* pause_workflow, continue_workflow and terminate_workflow.               *)
(***************************************************************************)
\* What an operation does: to the instance, to which nodes, and how.
Target(op) == CASE op = "Pause"     -> "Paused"
                [] op = "Continue"  -> "Running"
                [] op = "Terminate" -> "Stopped"
\* Mutant of Touched: a terminated workflow also stops the nodes that wait.
TouchedWaiting(op) == CASE op = "Pause"     -> {"Running"}
                        [] op = "Continue"  -> {"Paused"}
                        [] op = "Terminate" -> {"Running", "Paused", "Standby"}
Touched(op) == CASE op = "Pause"     -> {"Running"}
                 [] op = "Continue"  -> {"Paused"}
                 [] op = "Terminate" -> {"Running", "Paused"}
CommandOf(op) == CASE op = "Pause"     -> "Pause"
                   [] op = "Continue"  -> "Continue"
                   [] op = "Terminate" -> "Delete"

\* What the NoAction service answers to a command by itself.
NoActionResult(op) == CASE op = "Pause"     -> "Paused"
                        [] op = "Continue"  -> "Success"
                        [] op = "Terminate" -> "Deleted"

Operate(w, op) ==
  /\ At(w, "idle")
  /\ flow # NoFlow
  /\ used["op"] < MaxOps
  /\ used' = [used EXCEPT !["op"] = @ + 1]
  /\ Become(w, [Idle EXCEPT !.pc = "opNodes", !.op = op,
                            !.copy = [flow EXCEPT !.status = Target(op)]])
  /\ UNCHANGED <<flow, node, queue, sent, posts, bills, released, succeeded>>

OpNodes(w) ==
  LET op == handler[w].op
      nodes == {n \in Nodes : node[n].status \in Touched(op)}
  IN /\ At(w, "opNodes")
     /\ Become(w, [handler[w] EXCEPT !.pc = "op", !.todo = nodes,
                                     !.rows = SetStatus(nodes, Target(op))])
     /\ UNCHANGED <<flow, node, queue, sent, posts, bills, used, released, succeeded>>

OpNoAction(w) ==
  /\ At(w, "op")
  /\ \E n \in handler[w].todo \cap NoActionNodes :
       /\ queue' = Append(queue, [node |-> n, status |-> NoActionResult(handler[w].op)])
       /\ Become(w, [handler[w] EXCEPT !.todo = @ \ {n}])
  /\ UNCHANGED <<flow, node, sent, posts, bills, used, released, succeeded>>

\* A task on an agent is sent the command when its row names a cluster.
OpAgent(w) ==
  /\ At(w, "op")
  /\ \E n \in handler[w].todo \ (NoActionNodes \cup MilestoneNodes) :
       /\ node[n].cluster
       /\ sent' = [sent EXCEPT ![n][CommandOf(handler[w].op)] = @ + 1]
       /\ Become(w, [handler[w] EXCEPT !.todo = @ \ {n}])
  /\ UNCHANGED <<flow, node, queue, posts, bills, used, released, succeeded>>

\* No service for milestones, or no cluster: the error drops all statements.
OpError(w) ==
  /\ At(w, "op")
  /\ \E n \in handler[w].todo \ NoActionNodes :
       n \in MilestoneNodes \/ ~ node[n].cluster
  /\ Return(w)
  /\ UNCHANGED <<flow, node, queue, sent, posts, bills, used, released, succeeded>>

OpSave(w) ==
  /\ At(w, "op")
  /\ handler[w].todo = {}
  /\ node' = SavedNodes(w)
  /\ flow' = SavedFlow(w)
  /\ Return(w)
  /\ UNCHANGED <<queue, sent, posts, bills, used, released, succeeded>>

(***************************************************************************)
(* Failures.                                                               *)
(***************************************************************************)
\* Any await may return an error: the handler ends, its statements are lost.
HandlerError(w) ==
  /\ ~ At(w, "idle")
  /\ used["fail"] < MaxFail
  /\ used' = [used EXCEPT !["fail"] = @ + 1]
  /\ Return(w)
  /\ UNCHANGED <<flow, node, queue, sent, posts, bills, released, succeeded>>

\* The co process restarts: handlers and the in-memory queue are lost.
Crash ==
  /\ used["crash"] < MaxCrash
  /\ used' = [used EXCEPT !["crash"] = @ + 1]
  /\ handler' = [w \in Procs |-> Idle]
  /\ queue' = <<>>
  /\ UNCHANGED <<flow, node, sent, posts, bills, released, succeeded>>

(***************************************************************************)
(* The specification.                                                      *)
(***************************************************************************)
Request(w) ==
  \/ SubmitFlow(w)
  \/ StartWorkflow(w)
  \/ \E op \in UserOps : Operate(w, op)
  \/ \E n \in Nodes, r \in Results : Post(w, n, r)

Step(w) ==
  \/ SubmitNodes(w) \/ StartNodes(w) \/ StartSave(w)
  \/ SchedFlow(w) \/ SchedFlowSave(w) \/ SchedStandby(w)
  \/ AllSame(w) \/ GetFlow(w) \/ GetStandby(w)
  \/ Finish(w) \/ TaskRows(w) \/ TaskSave(w)
  \/ SendNoAction(w) \/ SendMilestone(w) \/ SendRead(w) \/ SendSave(w)
  \/ SendTask(w) \/ SendDone(w) \/ Bill(w)
  \/ RecvSave(w) \/ FlowRead(w) \/ FlowSave(w)
  \/ OpNodes(w) \/ OpNoAction(w) \/ OpAgent(w) \/ OpError(w) \/ OpSave(w)

Next ==
  \/ \E w \in Workers : Request(w)
  \/ Consume
  \/ \E w \in Procs : Step(w) \/ HandlerError(w)
  \/ Crash

Spec == Init /\ [][Next]_vars

\* The runtime polls every handler, the consumer task runs for ever, and a
\* task that an agent was given ends and its success is delivered.
Fairness ==
  /\ \A w \in Procs : WF_vars(Step(w))
  /\ WF_vars(Consume)
  /\ \A n \in Nodes : WF_vars(\E w \in Workers : Post(w, n, "Success"))

FairSpec == Spec /\ Fairness

(***************************************************************************)
(* Properties.                                                             *)
(***************************************************************************)
\* The statuses a node is given only after a scheduler has released it.
Active == {"Running", "Finished", "Error", "Stopped", "Paused"}

\* The detailed specification implements the abstract one: a node is released
\* (schedule_next_nodes commits it as Running, schedule.rs:226-235) only after
\* every predecessor in node_relations has had a Success saved, whatever
\* restarts, operations, late results and failures do in between.
DO == INSTANCE DependencyOrder WITH Node <- Nodes
OrderSpec == DO!Spec

\* The same for what is visible outside the scheduler: a node whose task is
\* with an agent, or whose row shows that it has been processed, has only
\* predecessors that have succeeded (models/workflow_engine/node_instance.rs,
\* Standby: "wait for the preceding jobs, then this job may begin").
DispatchedInOrder ==
  \A n \in Nodes :
    (\E c \in Commands : sent[n][c] > 0) \/ node[n].status \in Active
      => Pred[n] \subseteq succeeded

\* The comment at schedule.rs:234: all changed nodes are saved first, then
\* tasks are distributed.  A task with an agent is never one whose row a
\* reader of the database would still take for waiting.
CommitBeforeSend ==
  \A n \in Nodes :
    sent[n]["Start"] > 0 => node[n].status \notin {"None", "Created", "Pending", "Standby"}

\* A node of a workflow that is started once, whose results arrive once, is
\* sent to an agent once, also when the successes of several predecessors are
\* served concurrently and each scheduler looks for Standby nodes.
NoDoubleDispatch == \A n \in Nodes : sent[n]["Start"] <= 1

\* No handler writes a stale row over a result: without restarts, operations
\* and repeated results a node that is Finished stays Finished
\* (SendRead .. SendSave and RecvSave write whole rows, read earlier).
FinishedStays ==
  [][\A n \in Nodes : node[n].status = "Finished" => node'[n].status = "Finished"]_vars

\* WorkflowInstanceStatus::Finished, models/workflow_engine/workflow_instance.rs:123-125:
\* the flow of the instance is complete and all jobs have ended normally.
FinishedMeansAllDone ==
  flow.status = "Finished" => \A n \in Nodes : node[n].status = "Finished"

\* A workflow whose nodes have all received the start (NodeInstanceStatus::Pending)
\* and that is not disturbed runs to its end: every node is released in its
\* turn and all become Finished, each stage by the last result of the one
\* before it (schedule.rs:65-99), whose handlers may overlap.
EventuallyAllFinished ==
  (\A n \in Nodes : node[n].status = "Pending")
    ~> \/ \A n \in Nodes : node[n].status = "Finished"
       \/ used["op"] + used["fail"] + used["crash"] > 0

(***************************************************************************)
(* The inductive invariant behind DispatchedInOrder and OrderSpec: what    *)
(* each step of a handler may rely on.                                     *)
(***************************************************************************)
\* The steps at which the nodes a handler still has to serve are released.
ServingSteps == {"send", "sendSave", "sendTask", "op"}
\* The steps of a scheduler that was called for the success of a node.
SuccessSteps == {"allSame", "getFlow", "getStandby"}

\* Releases respect the graph; a success presupposes a release.
HistoryOrdered ==
  /\ succeeded \subseteq released
  /\ \A n \in released : Pred[n] \subseteq succeeded

\* What can be seen of a node that is not released does not show progress.
VisibleReleased ==
  /\ \A n \in Nodes : node[n].status \in Active => n \in released
  /\ \A n \in Nodes, c \in Commands : sent[n][c] > 0 => n \in released
  /\ \A i \in 1..Len(queue) : queue[i].node \in released

\* What a handler in state h may rely on when R is released and S succeeded:
\* the nodes it is about to release may be released, the nodes it serves are
\* released, the node whose success it schedules has succeeded, and no pending
\* statement shows progress of a node that is not released, unless the handler
\* is the scheduler that is about to release it.
Sound(h, R, S) ==
  /\ h.pc \in {"taskRows", "taskSave"} => \A n \in h.todo : Pred[n] \subseteq S
  /\ h.pc \in ServingSteps => h.todo \subseteq R
  /\ h.pc \in {"sendSave", "sendTask"} => h.cur \in R
  /\ h.pc = "recvSave" => h.node \in R /\ h.op \in Results
  /\ h.pc \in SuccessSteps => h.node \in S
  /\ h.pc \in {"opNodes", "op"} => h.op \in UserOps
  /\ \A n \in Nodes : h.rows[n].status \in Active =>
       n \in R \/ (h.pc = "taskSave" /\ n \in h.todo)

HandlersSound == \A w \in Procs : Sound(handler[w], released, succeeded)

IInv == TypeOK /\ HistoryOrdered /\ VisibleReleased /\ HandlersSound

=============================================================================
