---------------------------- MODULE TaskScheduler ----------------------------
(***************************************************************************)
(* The task scheduler of an agent: TaskSchedulerServiceImpl with the       *)
(* runners that call it, the tables of JSONRepository it works on, and its *)
(* view of the services that execute sub tasks.                            *)
(*                                                                         *)
(* A task is a list of sub tasks: the deployment of a software, the        *)
(* execution of a use case, the collection of outputs.  The scheduler      *)
(* starts one sub task after the other, and tells co how the task ends.    *)
(*                                                                         *)
(* Every Kafka message, every report of a sub task and every tick of the   *)
(* interval is served by a handler of its own; handlers interleave at      *)
(* their awaits and share the tables, which are locked for single reads    *)
(* and writes only.  A report to co is an HTTP request, which takes        *)
(* seconds when it is repeated.                                            *)
(*                                                                         *)
(* max_tasks_count is always 0 (service_provider.rs), so the counter of    *)
(* running sub tasks has no effect and is left out.                        *)
(***************************************************************************)
EXTENDS Naturals, SequencesExt

CONSTANTS
  Tasks,       \* the identifiers of tasks
  Starts,      \* the Start messages
  TaskOf,      \* TaskOf[m]: the task that message m starts
  Subs,        \* the sub tasks; every delivery of a message makes new ones
  StartOf,     \* StartOf[s]: the message that brings sub task s
  Body,        \* Body[m]: the sub tasks of message m, in order
  Kind,        \* Kind[s]: "deploy", "usecase" or "collect"
  Workers,     \* the handlers that run at the same time
  None,        \* no task, no sub task, no message, no row
  Busy,        \* a sub task of this task is at work
  Accepted,    \* the results that co accepts
  Operations,  \* the commands, besides Start, of this model
  MaxOps,      \* bound on those commands
  MaxTicks,    \* bound on ticks of the interval
  MaxErrors,   \* bound on errors at an await
  MaxCrashes   \* bound on restarts of the agent

Kinds == {"deploy", "usecase", "collect"}
Status == {"Queuing", "Running", "Suspended", "Completing", "Completed", "Failed"}
Results == {"Start", "Success", "Failed", "Paused", "Continued", "Deleted"}
Verdicts == {"Completed", "Failed"}

SubsOf(m) == {s \in Subs : StartOf[s] = m}
Parent(s) == TaskOf[StartOf[s]]

ASSUME TaskAssumption ==
  /\ TaskOf \in [Starts -> Tasks]
  /\ StartOf \in [Subs -> Starts]
  /\ Kind \in [Subs -> Kinds]
  /\ Body \in [Starts -> Seq(Subs)]
  /\ \A m \in Starts : ToSet(Body[m]) = SubsOf(m) /\ IsInjective(Body[m])

ASSUME SchedulerAssumption ==
  /\ None \notin Tasks \cup Subs \cup Starts \cup Status
  /\ Busy \notin Subs \cup {None}
  /\ Accepted \subseteq Results
  /\ Operations \subseteq {"Pause", "Continue", "Delete"}
  /\ {MaxOps, MaxTicks, MaxErrors, MaxCrashes} \subseteq Nat

VARIABLES
  task,       \* the rows of table tasks: their status
  sub,        \* the rows of table sub_tasks: their status
  rows,       \* the order of the rows of table sub_tasks
  running,    \* how many executions of a sub task are under way
  uploading,  \* how many of them have ended and upload their outputs
  reports,    \* how many reports of a sub task the scheduler has yet to take
  handler,    \* what each handler does
  told,       \* the results told to co
  received,   \* Start messages received
  inserted,   \* history: Start messages whose rows were inserted
  asked,      \* history: the other commands received
  started,    \* history: how often each sub task was started
  ended,      \* history: sub tasks that ended in success
  failed,     \* history: sub tasks that ended in failure
  removed,    \* history: sub tasks whose rows were deleted
  used        \* operations, ticks, jobs seen twice, errors and restarts so far

tables == <<task, sub, rows>>
services == <<running, uploading, reports>>
history == <<inserted, asked, started, ended, failed, removed>>
vars == <<tables, services, handler, told, received, history, used>>

Commands == {"start", "pause", "continue", "delete", "complete", "fail", "tick"}

\* The steps at which a handler tells co a result.
Telling == [tellStart |-> "Start", tellSuccess |-> "Success", tellFailed |-> "Failed",
            tellPaused |-> "Paused", tellResumed |-> "Continued", tellDeleted |-> "Deleted"]

Steps == {"insert", "look", "mark", "startSub", "next", "pause", "pauseSubs",
          "resume", "delete", "removeSubs", "complete", "judge", "finish", "fail",
          "clean"} \cup DOMAIN Telling

\* Rows of table sub_tasks as they were read, at the places they had in its vector.
Rows == UNION {[places -> Subs] : places \in SUBSET (Nat \ {0})}

\* A handler: the command it serves and the task of it, the task it schedules,
\* the sub task it was told of or is about to start, the status it has read,
\* the rows of the body as read and those of them still to be paused or
\* deleted, and the tasks a tick still has to clean.
Handler ==
  [op : Commands, pc : Steps, msg : Starts \cup {None}, own : Tasks \cup {None},
   task : Tasks \cup {None}, sub : Subs \cup {None, Busy}, how : Status \cup {None},
   body : Rows, todo : Rows, victims : SUBSET Tasks]

Idle == [pc |-> "idle"]

Call(op, pc, own) ==
  [op |-> op, pc |-> pc, msg |-> None, own |-> own, task |-> None, sub |-> None,
   how |-> None, body |-> <<>>, todo |-> <<>>, victims |-> {}]

Init ==
  /\ task = [t \in Tasks |-> None]
  /\ sub = [s \in Subs |-> None]
  /\ rows = <<>>
  /\ running = [s \in Subs |-> 0]
  /\ uploading = [s \in Subs |-> 0]
  /\ reports = [s \in Subs |-> [v \in Verdicts |-> 0]]
  /\ handler = [w \in Workers |-> Idle]
  /\ told = {}
  /\ received = {}
  /\ inserted = {}
  /\ asked = {}
  /\ started = [s \in Subs |-> 0]
  /\ ended = {}
  /\ failed = {}
  /\ removed = {}
  /\ used = [ops |-> 0, ticks |-> 0, seen |-> 0, errors |-> 0, crashes |-> 0]

-----------------------------------------------------------------------------
(* The tables.                                                             *)

Present(s) == sub[s] # None
BodyOf(t) == {s \in Subs : Present(s) /\ Parent(s) = t}
BodyRows(t) == Restrict(rows, {i \in DOMAIN rows : Parent(rows[i]) = t})

\* The first of the rows that were read, and the others.
FirstRow(read) == read[Min(DOMAIN read)]
OtherRows(read) == Restrict(read, DOMAIN read \ {Min(DOMAIN read)})

\* An update takes the row out of the vector and pushes it at the end.
WriteSub(s, status) ==
  /\ sub' = [sub EXCEPT ![s] = status]
  /\ rows' = Append(RemoveFirst(rows, s), s)

DropSub(s) ==
  /\ sub' = [sub EXCEPT ![s] = None]
  /\ rows' = RemoveFirst(rows, s)

WriteTask(t, status) == task' = [task EXCEPT ![t] = status]

\* Row r comes before row s.
Before(r, s) == \E i, j \in DOMAIN rows : i < j /\ rows[i] = r /\ rows[j] = s

\* The sub task to start next, of a body as it is now: none while another is at
\* work, otherwise the first that waits.
Pending(t) == {s \in BodyOf(t) : sub[s] \in {"Queuing", "Suspended"}}
AtWork(t) == {s \in BodyOf(t) : sub[s] \in {"Running", "Completing"}}

\* A mutant: the last row that waits.
LastOf(S) == {s \in S : \A r \in S : ~Before(s, r)}

FirstOf(S) == {s \in S : \A r \in S : ~Before(r, s)}

Choice(t) ==
  IF AtWork(t) # {} THEN {Busy}
  ELSE IF Pending(t) = {} THEN {None}
  ELSE FirstOf(Pending(t))

AllCompleted(t) == \A s \in BodyOf(t) : sub[s] = "Completed"

-----------------------------------------------------------------------------
(* Handlers.                                                               *)

At(w, pc) == handler[w].pc = pc
Become(w, h) == handler' = [handler EXCEPT ![w] = h]
Goto(w, pc) == handler' = [handler EXCEPT ![w].pc = pc]

\* A handler that deletes a task, or cleans one, resumes that when the
\* scheduling in the middle of it is done.
Deleting(h) == h.op \in {"delete", "tick"} /\ h.own # None

\* The call for sub tasks returns: Ok(()).
Done(w) ==
  Become(w, IF Deleting(handler[w])
            THEN [handler[w] EXCEPT !.pc = "removeSubs", !.todo = handler[w].body,
                                    !.task = None, !.sub = None, !.how = None]
            ELSE Idle)

\* A handler returns an error, which is logged; the rest of it does not happen,
\* except that a tick whose cleaning fails goes on to schedule.
Stop(w) ==
  Become(w, IF handler[w].op = "tick" /\ handler[w].own # None
            THEN Call("tick", "next", None) ELSE Idle)

\* schedule_next_task_by_id(t) is called.
Schedule(w, t) ==
  Become(w, [handler[w] EXCEPT !.pc = "look", !.task = t, !.sub = None, !.how = None])

\* The result that handler w is about to tell, and of which task.
Telltale(w) ==
  <<IF At(w, "tellStart") THEN handler[w].task ELSE handler[w].own,
    Telling[handler[w].pc]>>

\* A result that co does not accept is an error, after the retries of http_post.
Tell(w) ==
  /\ Telltale(w)[2] \in Accepted
  /\ told' = told \cup {Telltale(w)}

-----------------------------------------------------------------------------
(* What starts a handler.                                                  *)

ReceiveStart(w, m) ==
  /\ At(w, "idle")
  /\ m \notin received
  /\ received' = received \cup {m}
  /\ Become(w, [Call("start", "insert", TaskOf[m]) EXCEPT !.msg = m])
  /\ UNCHANGED <<tables, services, told, history, used>>

\* Handlers are spawned, so a command may overtake the start of its task.
ReceiveCommand(w, t, c) ==
  /\ At(w, "idle")
  /\ used.ops < MaxOps
  /\ \E m \in received : TaskOf[m] = t
  /\ used' = [used EXCEPT !.ops = @ + 1]
  /\ asked' = asked \cup {<<t, c>>}
  /\ Become(w, CASE c = "Pause"    -> Call("pause", "pause", t)
                 [] c = "Continue" -> Call("continue", "resume", t)
                 [] c = "Delete"   -> Call("delete", "delete", t))
  /\ UNCHANGED <<tables, services, told, received, inserted, started, ended, failed, removed>>

ReceiveReport(w, s, v) ==
  /\ At(w, "idle")
  /\ reports[s][v] > 0
  /\ reports' = [reports EXCEPT ![s][v] = @ - 1]
  /\ Become(w, [Call(IF v = "Completed" THEN "complete" ELSE "fail",
                     IF v = "Completed" THEN "complete" ELSE "fail",
                     Parent(s)) EXCEPT !.sub = s])
  /\ UNCHANGED <<tables, running, uploading, told, received, history, used>>

\* Every interval: clean completed tasks, those updated within two hours (the
\* comparison in the code keeps the old ones), then schedule.
Tick(w) ==
  /\ At(w, "idle")
  /\ used.ticks < MaxTicks
  /\ used' = [used EXCEPT !.ticks = @ + 1]
  /\ \E recent \in SUBSET {t \in Tasks : task[t] = "Completed"} :
       Become(w, [Call("tick", "clean", None) EXCEPT !.victims = recent])
  /\ UNCHANGED <<tables, services, told, received, history>>

-----------------------------------------------------------------------------
(* enqueue_task, schedule_next_task and schedule_next_task_by_id.          *)

\* Insert the task, replacing a row with the same identifier, and its sub
\* tasks, at the end; the sub tasks of the replaced row stay.
Insert(w) ==
  /\ At(w, "insert")
  /\ LET m == handler[w].msg IN
       /\ WriteTask(TaskOf[m], "Queuing")
       /\ sub' = [s \in Subs |-> IF s \in SubsOf(m) THEN "Queuing" ELSE sub[s]]
       /\ rows' = rows \o Body[m]
       /\ inserted' = inserted \cup {m}
       /\ Become(w, [Call("start", "look", None) EXCEPT !.task = TaskOf[m]])
  /\ UNCHANGED <<services, told, received, asked, started, ended, failed, removed, used>>

\* Any queuing task may be the first of table tasks.
NextTask(w) ==
  /\ At(w, "next")
  /\ LET queuing == {t \in Tasks : task[t] = "Queuing"} IN
       IF queuing = {} THEN Done(w) ELSE \E t \in queuing : Schedule(w, t)
  /\ UNCHANGED <<tables, services, told, received, history, used>>

\* Read the task and its body; both decide what happens after the report.
Look(w) ==
  /\ At(w, "look")
  /\ LET t == handler[w].task IN
       IF task[t] \notin {"Queuing", "Running"} THEN Stop(w)
       ELSE \E s \in Choice(t) :
              Become(w, [handler[w] EXCEPT
                !.pc = IF task[t] = "Queuing" THEN "mark" ELSE "tellStart",
                !.sub = s,
                !.how = IF s \in Subs THEN sub[s] ELSE None])
  /\ UNCHANGED <<tables, services, told, received, history, used>>

\* Write the task as running, whatever it has become.
Mark(w) ==
  /\ At(w, "mark")
  /\ LET t == handler[w].task IN
       IF task[t] = None THEN UNCHANGED task /\ Stop(w)
       ELSE WriteTask(t, "Running") /\ Goto(w, "tellStart")
  /\ UNCHANGED <<sub, rows, services, told, received, history, used>>

\* A mutant: the report of the start is not awaited.
TellStartLater(w) ==
  /\ At(w, "tellStart")
  /\ CASE handler[w].sub = Busy   -> Done(w)
       [] handler[w].sub = None   -> Stop(w)
       [] handler[w].sub \in Subs -> Goto(w, "startSub")
  /\ UNCHANGED <<tables, services, told, received, history, used>>

TellStart(w) ==
  /\ At(w, "tellStart")
  /\ Tell(w)
  /\ CASE handler[w].sub = Busy   -> Done(w)
       [] handler[w].sub = None   -> Stop(w)
       [] handler[w].sub \in Subs -> Goto(w, "startSub")
  /\ UNCHANGED <<tables, services, received, history, used>>

\* The row of the sub task has been deleted: the service fails.
MissingSub(w) ==
  /\ At(w, "startSub")
  /\ ~Present(handler[w].sub)
  /\ Stop(w)
  /\ UNCHANGED <<tables, services, told, received, history, used>>

\* Start the deployment of a software, or the downloads and the job of a use
\* case; a suspended deployment is started again.
EnqueueSub(w) ==
  /\ At(w, "startSub")
  /\ LET s == handler[w].sub IN
       /\ Present(s)
       /\ Kind[s] = "deploy" \/ (Kind[s] = "usecase" /\ handler[w].how = "Queuing")
       /\ WriteSub(s, "Running")
       /\ running' = [running EXCEPT ![s] = @ + 1]
       /\ started' = [started EXCEPT ![s] = @ + 1]
  /\ Done(w)
  /\ UNCHANGED <<task, uploading, reports, told, received, inserted, asked, ended, failed, removed, used>>

\* A suspended use case is queuing again; its job continues.
ContinueSub(w) ==
  /\ At(w, "startSub")
  /\ LET s == handler[w].sub IN
       /\ Present(s)
       /\ Kind[s] = "usecase" /\ handler[w].how = "Suspended"
       /\ WriteSub(s, "Queuing")
  /\ Done(w)
  /\ UNCHANGED <<task, services, told, received, history, used>>

\* The outputs are collected at once.
CollectSub(w) ==
  /\ At(w, "startSub")
  /\ LET s == handler[w].sub IN
       /\ Present(s)
       /\ Kind[s] = "collect"
       /\ started' = [started EXCEPT ![s] = @ + 1]
       /\ \/ /\ WriteSub(s, "Completed")
             /\ reports' = [reports EXCEPT ![s]["Completed"] = @ + 1]
             /\ ended' = ended \cup {s}
             /\ Done(w)
             /\ UNCHANGED failed
          \/ /\ WriteSub(s, "Failed")
             /\ reports' = [reports EXCEPT ![s]["Failed"] = @ + 1]
             /\ failed' = failed \cup {s}
             /\ Stop(w)
             /\ UNCHANGED ended
  /\ UNCHANGED <<task, running, uploading, told, received, inserted, asked, removed, used>>

-----------------------------------------------------------------------------
(* complete_sub_task and fail_sub_task.                                    *)

\* A mutant: a row is written whether it is there or not.
CompleteAnyway(w) ==
  /\ At(w, "complete")
  /\ WriteSub(handler[w].sub, "Completed")
  /\ Goto(w, "judge")
  /\ UNCHANGED <<task, services, told, received, history, used>>

Complete(w) ==
  /\ At(w, "complete")
  /\ LET s == handler[w].sub IN
       IF ~Present(s) THEN UNCHANGED <<sub, rows>> /\ Stop(w)
       ELSE WriteSub(s, "Completed") /\ Goto(w, "judge")
  /\ UNCHANGED <<task, services, told, received, history, used>>

\* A mutant: the next sub task is left to the interval.
JudgeOnly(w) ==
  /\ At(w, "judge")
  /\ LET t == handler[w].own IN
       IF task[t] # None /\ AllCompleted(t) THEN Goto(w, "finish") ELSE Stop(w)
  /\ UNCHANGED <<tables, services, told, received, history, used>>

\* Read the task and its body: is this the end of the task?
Judge(w) ==
  /\ At(w, "judge")
  /\ LET t == handler[w].own IN
       IF task[t] = None THEN Stop(w)
       ELSE IF AllCompleted(t) THEN Goto(w, "finish")
       ELSE Schedule(w, t)
  /\ UNCHANGED <<tables, services, told, received, history, used>>

Finish(w) ==
  /\ At(w, "finish")
  /\ LET t == handler[w].own IN
       IF task[t] = None THEN UNCHANGED task /\ Stop(w)
       ELSE WriteTask(t, "Completed") /\ Goto(w, "tellSuccess")
  /\ UNCHANGED <<sub, rows, services, told, received, history, used>>

\* The resources used are read from the row of the task, which must still exist.
TellSuccess(w) ==
  /\ At(w, "tellSuccess")
  /\ IF task[handler[w].own] = None
     THEN UNCHANGED told /\ Stop(w)
     ELSE Tell(w) /\ Goto(w, "next")
  /\ UNCHANGED <<tables, services, received, history, used>>

Fail(w) ==
  /\ At(w, "fail")
  /\ LET t == handler[w].own IN
       IF ~Present(handler[w].sub) \/ task[t] = None THEN UNCHANGED task /\ Stop(w)
       ELSE WriteTask(t, "Failed") /\ Goto(w, "tellFailed")
  /\ UNCHANGED <<sub, rows, services, told, received, history, used>>

TellFailed(w) ==
  /\ At(w, "tellFailed")
  /\ Tell(w)
  /\ Goto(w, "next")
  /\ UNCHANGED <<tables, services, received, history, used>>

-----------------------------------------------------------------------------
(* pause_task, continue_task, delete_task, delete_all_completed_tasks.     *)

\* Read the task; what was read decides whether others are scheduled later.
Pause(w) ==
  /\ At(w, "pause")
  /\ LET t == handler[w].own IN
       IF task[t] \notin {"Queuing", "Running"} THEN Stop(w)
       ELSE Become(w, [handler[w] EXCEPT !.pc = "pauseSubs", !.how = task[t],
                                         !.todo = BodyRows(t)])
  /\ UNCHANGED <<tables, services, told, received, history, used>>

\* Pause one sub task, also if it has ended: its row is suspended; a deployment
\* is aborted if the runner comes in time; a collection ignores it.
PauseSub(w) ==
  /\ At(w, "pauseSubs")
  /\ DOMAIN handler[w].todo # {}
  /\ LET s == FirstRow(handler[w].todo) IN
       IF ~Present(s) /\ Kind[s] # "collect"
       THEN UNCHANGED <<sub, rows, running>> /\ Stop(w)
       ELSE /\ Become(w, [handler[w] EXCEPT !.todo = OtherRows(@)])
            /\ IF Kind[s] = "collect" THEN UNCHANGED <<sub, rows>> ELSE WriteSub(s, "Suspended")
            /\ IF Kind[s] = "deploy"
               THEN \E n \in 0 .. running[s] : running' = [running EXCEPT ![s] = n]
               ELSE UNCHANGED running
  /\ UNCHANGED <<task, uploading, reports, told, received, history, used>>

\* All are paused: suspend the task, also on the way to its deletion.
Suspend(w) ==
  /\ At(w, "pauseSubs")
  /\ DOMAIN handler[w].todo = {}
  /\ LET t == handler[w].own IN
       IF task[t] = None THEN UNCHANGED task /\ Stop(w)
       ELSE /\ WriteTask(t, "Suspended")
            /\ Goto(w, IF handler[w].op = "pause" THEN "tellPaused" ELSE "next")
  /\ UNCHANGED <<sub, rows, services, told, received, history, used>>

TellPaused(w) ==
  /\ At(w, "tellPaused")
  /\ Tell(w)
  /\ IF handler[w].how = "Running" THEN Goto(w, "next") ELSE Become(w, Idle)
  /\ UNCHANGED <<tables, services, received, history, used>>

\* A task is queuing again, whatever it was.
Resume(w) ==
  /\ At(w, "resume")
  /\ LET t == handler[w].own IN
       IF task[t] = None THEN UNCHANGED task /\ Stop(w)
       ELSE WriteTask(t, "Queuing") /\ Goto(w, "tellResumed")
  /\ UNCHANGED <<sub, rows, services, told, received, history, used>>

TellResumed(w) ==
  /\ At(w, "tellResumed")
  /\ Tell(w)
  /\ Schedule(w, handler[w].own)
  /\ UNCHANGED <<tables, services, received, history, used>>

\* A running task is paused first, and others are scheduled in its place.
Delete(w) ==
  /\ At(w, "delete")
  /\ LET t == handler[w].own IN
       IF task[t] = None THEN Stop(w)
       ELSE Become(w, [handler[w] EXCEPT
              !.pc = IF task[t] = "Running" THEN "pauseSubs" ELSE "removeSubs",
              !.body = BodyRows(t), !.todo = BodyRows(t)])
  /\ UNCHANGED <<tables, services, told, received, history, used>>

\* Delete one sub task, its job or its deployment; a collection stays.
RemoveSub(w) ==
  /\ At(w, "removeSubs")
  /\ DOMAIN handler[w].todo # {}
  /\ LET s == FirstRow(handler[w].todo) IN
       IF Kind[s] = "collect"
       THEN /\ Become(w, [handler[w] EXCEPT !.todo = OtherRows(@)])
            /\ UNCHANGED <<sub, rows, running, removed>>
       ELSE IF ~Present(s) THEN UNCHANGED <<sub, rows, running, removed>> /\ Stop(w)
       ELSE /\ Become(w, [handler[w] EXCEPT !.todo = OtherRows(@)])
            /\ DropSub(s)
            /\ removed' = removed \cup {s}
            /\ \E n \in 0 .. running[s] : running' = [running EXCEPT ![s] = n]
  /\ UNCHANGED <<task, uploading, reports, told, received, inserted, asked, started, ended, failed, used>>

RemoveTask(w) ==
  /\ At(w, "removeSubs")
  /\ DOMAIN handler[w].todo = {}
  /\ LET t == handler[w].own IN
       IF task[t] = None THEN UNCHANGED task /\ Stop(w)
       ELSE /\ task' = [task EXCEPT ![t] = None]
            /\ IF handler[w].op = "tick"
               THEN Become(w, [Call("tick", "clean", None) EXCEPT !.victims = handler[w].victims])
               ELSE Goto(w, "tellDeleted")
  /\ UNCHANGED <<sub, rows, services, told, received, history, used>>

TellDeleted(w) ==
  /\ At(w, "tellDeleted")
  /\ Tell(w)
  /\ Become(w, Idle)
  /\ UNCHANGED <<tables, services, received, history, used>>

\* A tick deletes the tasks that were completed when it looked, then schedules.
Clean(w) ==
  /\ At(w, "clean")
  /\ IF handler[w].victims = {} THEN Become(w, Call("tick", "next", None))
     ELSE \E t \in handler[w].victims :
            Become(w, [Call("tick", "delete", t) EXCEPT !.victims = handler[w].victims \ {t}])
  /\ UNCHANGED <<tables, services, told, received, history, used>>

-----------------------------------------------------------------------------
(* The services that execute sub tasks, the network, the machine.          *)

\* A mutant: a sub task is complete when its job is.
UploadingLater(s) ==
  IF Present(s)
  THEN WriteSub(s, "Completed") /\ uploading' = [uploading EXCEPT ![s] = @ + 1]
  ELSE UNCHANGED <<sub, rows, uploading>>

\* The end of a job is seen: its outputs are uploaded.  Only running rows are
\* looked at, but the row is written after its job was asked for, when it may
\* have become anything.
Uploading(s) ==
  IF Present(s)
  THEN WriteSub(s, "Completing") /\ uploading' = [uploading EXCEPT ![s] = @ + 1]
  ELSE UNCHANGED <<sub, rows, uploading>>

JobSucceeds(s) ==
  /\ Kind[s] = "usecase"
  /\ running[s] > 0
  /\ running' = [running EXCEPT ![s] = @ - 1]
  /\ Uploading(s)
  /\ UNCHANGED <<task, reports, handler, told, received, history, used>>

\* Two ticks overlap, and both will see it: the other one is JobSucceeds, later.
JobSeenTwice(s) ==
  /\ Kind[s] = "usecase"
  /\ running[s] > 0
  /\ used.ticks + 2 <= MaxTicks
  /\ used' = [used EXCEPT !.ticks = @ + 2, !.seen = @ + 1]
  /\ Uploading(s)
  /\ UNCHANGED <<task, running, reports, handler, told, received, history>>

\* The outputs are uploaded: the sub task is reported, with or without a row.
UploadSucceeds(s) ==
  /\ uploading[s] > 0
  /\ uploading' = [uploading EXCEPT ![s] = @ - 1]
  /\ reports' = [reports EXCEPT ![s]["Completed"] = @ + 1]
  /\ ended' = ended \cup {s}
  /\ UNCHANGED <<tables, running, handler, told, received, inserted, asked, started, failed, removed, used>>

\* A sub task with a row fails.
Failing(s) ==
  IF Present(s)
  THEN /\ WriteSub(s, "Failed")
       /\ reports' = [reports EXCEPT ![s]["Failed"] = @ + 1]
       /\ failed' = failed \cup {s}
  ELSE UNCHANGED <<sub, rows, reports, failed>>

\* A mutant: an upload that has failed goes on to report its end.
UploadFailsOn(s) ==
  /\ uploading[s] > 0
  /\ uploading' = [uploading EXCEPT ![s] = @ - 1]
  /\ Present(s)
  /\ WriteSub(s, "Failed")
  /\ reports' = [reports EXCEPT ![s] = [v \in Verdicts |-> @[v] + 1]]
  /\ ended' = ended \cup {s}
  /\ failed' = failed \cup {s}
  /\ UNCHANGED <<task, running, handler, told, received, inserted, asked, started, removed, used>>

UploadFails(s) ==
  /\ uploading[s] > 0
  /\ uploading' = [uploading EXCEPT ![s] = @ - 1]
  /\ Failing(s)
  /\ UNCHANGED <<task, running, handler, told, received, inserted, asked, started, ended, removed, used>>

DeploySucceeds(s) ==
  /\ Kind[s] = "deploy"
  /\ running[s] > 0
  /\ running' = [running EXCEPT ![s] = @ - 1]
  /\ IF Present(s)
     THEN /\ WriteSub(s, "Completed")
          /\ reports' = [reports EXCEPT ![s]["Completed"] = @ + 1]
          /\ ended' = ended \cup {s}
     ELSE UNCHANGED <<sub, rows, reports, ended>>
  /\ UNCHANGED <<task, uploading, handler, told, received, inserted, asked, started, failed, removed, used>>

ExecutionFails(s) ==
  /\ running[s] > 0
  /\ running' = [running EXCEPT ![s] = @ - 1]
  /\ Failing(s)
  /\ UNCHANGED <<task, uploading, handler, told, received, inserted, asked, started, ended, removed, used>>

\* A report fails: co does not know the result, as often as it is told, or the
\* network fails, whether co has received it or not.
ReportFails(w) ==
  /\ handler[w].pc \in DOMAIN Telling
  /\ IF Telltale(w)[2] \in Accepted
     THEN /\ used.errors < MaxErrors
          /\ used' = [used EXCEPT !.errors = @ + 1]
          /\ told' \in {told, told \cup {Telltale(w)}}
     ELSE UNCHANGED <<told, used>>
  /\ Stop(w)
  /\ UNCHANGED <<tables, services, received, history>>

\* A service fails; a use case whose job is refused stays Running.
ServiceFails(w) ==
  /\ handler[w].pc \in {"startSub", "pauseSubs", "removeSubs"}
  /\ used.errors < MaxErrors
  /\ used' = [used EXCEPT !.errors = @ + 1]
  /\ \/ UNCHANGED <<sub, rows>>
     \/ /\ At(w, "startSub")
        /\ Present(handler[w].sub)
        /\ Kind[handler[w].sub] = "usecase" /\ handler[w].how = "Queuing"
        /\ WriteSub(handler[w].sub, "Running")
  /\ Stop(w)
  /\ UNCHANGED <<task, services, told, received, history>>

\* The agent is restarted.  The tables are read from their files; handlers,
\* reports and transfers are lost, deployments too; jobs may be found again.
Crash ==
  /\ used.crashes < MaxCrashes
  /\ used' = [used EXCEPT !.crashes = @ + 1]
  /\ handler' = [w \in Workers |-> Idle]
  /\ reports' = [s \in Subs |-> [v \in Verdicts |-> 0]]
  /\ uploading' = [s \in Subs |-> 0]
  /\ \E kept \in SUBSET {s \in Subs : Kind[s] = "usecase"} :
       running' = [s \in Subs |-> IF s \in kept THEN running[s] ELSE 0]
  /\ UNCHANGED <<tables, told, received, history>>
-----------------------------------------------------------------------------
(* Specifications.                                                         *)

Handling(w) ==
  \/ Insert(w) \/ NextTask(w) \/ Look(w) \/ Mark(w) \/ TellStart(w)
  \/ MissingSub(w) \/ EnqueueSub(w) \/ ContinueSub(w) \/ CollectSub(w)
  \/ Complete(w) \/ Judge(w) \/ Finish(w) \/ TellSuccess(w)
  \/ Fail(w) \/ TellFailed(w)
  \/ Pause(w) \/ PauseSub(w) \/ Suspend(w) \/ TellPaused(w)
  \/ Resume(w) \/ TellResumed(w)
  \/ Delete(w) \/ RemoveSub(w) \/ RemoveTask(w) \/ TellDeleted(w) \/ Clean(w)
  \/ ReportFails(w)

Ending(s) ==
  JobSucceeds(s) \/ UploadSucceeds(s) \/ UploadFails(s) \/ DeploySucceeds(s) \/ ExecutionFails(s)

Next ==
  \/ \E w \in Workers :
       \/ \E m \in Starts : ReceiveStart(w, m)
       \/ \E t \in Tasks, c \in Operations : ReceiveCommand(w, t, c)
       \/ \E s \in Subs, v \in Verdicts : ReceiveReport(w, s, v)
       \/ Tick(w)
       \/ Handling(w)
       \/ ServiceFails(w)
  \/ \E s \in Subs : Ending(s) \/ JobSeenTwice(s)
  \/ Crash

Spec == Init /\ [][Next]_vars

\* tokio runs every spawned handler and the loop that takes reports; what is
\* executed ends.
Fairness ==
  /\ \A w \in Workers : WF_vars(Handling(w))
  /\ \A s \in Subs, v \in Verdicts : SF_vars(\E w \in Workers : ReceiveReport(w, s, v))
  /\ \A s \in Subs : WF_vars(Ending(s))

FairSpec == Spec /\ Fairness

-----------------------------------------------------------------------------
(* Properties.                                                             *)

\* The sub tasks of a message have all been executed with success, those that
\* were deleted excepted.
Delivered(m) == m \in inserted /\ SubsOf(m) \subseteq ended \cup removed

\* What co is told is true: Success only after every sub task that some Start of
\* the task brought has succeeded, Failed only after one has failed, and an
\* answer to a command only after the command (report_* in http_client.rs).
AnswersJustified ==
  \A t \in Tasks :
    /\ <<t, "Start">> \in told => \E m \in inserted : TaskOf[m] = t
    /\ <<t, "Success">> \in told => \E m \in Starts : TaskOf[m] = t /\ Delivered(m)
    /\ <<t, "Failed">> \in told => \E s \in failed : Parent(s) = t
    /\ <<t, "Paused">> \in told => <<t, "Pause">> \in asked
    /\ <<t, "Continued">> \in told => <<t, "Continue">> \in asked
    /\ <<t, "Deleted">> \in told => <<t, "Delete">> \in asked

\* What the answers rest on.  The tables: a completed row is of a sub task that
\* has ended; rows come from messages that were inserted, and leave by deletion.
TablesSound ==
  /\ task \in [Tasks -> Status \cup {None}]
  /\ sub \in [Subs -> Status \cup {None}]
  /\ \A t \in Tasks : task[t] # None => \E m \in inserted : TaskOf[m] = t
  /\ \A s \in Subs : sub[s] = "Completed" => s \in ended
  /\ \A m \in inserted : \A s \in SubsOf(m) : Present(s) \/ s \in removed

\* The reports under way tell what has happened.
ReportsSound ==
  /\ reports \in [Subs -> [Verdicts -> Nat]]
  /\ \A s \in Subs : reports[s]["Completed"] > 0 => s \in ended
  /\ \A s \in Subs : reports[s]["Failed"] > 0 => s \in failed

HistoriesSound ==
  /\ inserted \subseteq Starts
  /\ ended \subseteq Subs
  /\ failed \subseteq Subs

Shaped(h) ==
  h \in [op : Commands, pc : Steps, msg : Starts \cup {None}, own : Tasks \cup {None},
         task : Tasks \cup {None}, sub : Subs \cup {None, Busy}, how : Status \cup {None},
         body : {h.body}, todo : {h.todo}, victims : SUBSET Tasks]

\* A handler serves a command that was received, and is only at steps of it.
ServesCommand(h) ==
  /\ h.pc = "insert" => h.msg \in Starts
  /\ h.pc = "look" => h.task \in Tasks
  /\ h.pc \notin {"insert", "clean", "next", "look", "mark", "startSub", "tellStart"} => h.own \in Tasks
  /\ h.op = "pause" => <<h.own, "Pause">> \in asked
  /\ h.op = "continue" => <<h.own, "Continue">> \in asked
  /\ h.op = "delete" => <<h.own, "Delete">> \in asked
  /\ h.pc = "tellPaused" => h.op = "pause"
  /\ h.pc \in {"resume", "tellResumed"} => h.op = "continue"
  /\ h.pc \in {"delete", "removeSubs"} => h.op \in {"delete", "tick"}
  /\ h.pc = "tellDeleted" => h.op = "delete"

\* What a handler is about to write or to tell is true.
Justified(h) ==
  /\ h.pc = "complete" => h.sub \in ended
  /\ h.pc \in {"finish", "tellSuccess"} => \E m \in Starts : TaskOf[m] = h.own /\ Delivered(m)
  /\ h.pc \in {"fail", "tellFailed"} => \E s \in failed : Parent(s) = h.own
  /\ h.pc \in {"mark", "tellStart"} =>
       /\ \E m \in inserted : TaskOf[m] = h.task
       /\ h.sub \in Subs => Parent(h.sub) = h.task
  /\ h.pc = "startSub" =>
       /\ h.sub \in Subs /\ Parent(h.sub) = h.task
       /\ <<h.task, "Start">> \in told

Sound(h) == h = Idle \/ (Shaped(h) /\ ServesCommand(h) /\ Justified(h))

\* The inductive invariant: what each step of each handler relies on, whatever
\* the other handlers, the services and restarts do between its steps.
SchedulerInv ==
  /\ TablesSound
  /\ ReportsSound
  /\ HistoriesSound
  /\ DOMAIN handler = Workers
  /\ \A w \in Workers : Sound(handler[w])
  /\ AnswersJustified

\* The task of message m is started by no other message: co sends a task once, and
\* Kafka delivers it once.
Alone(m) == \A k \in Starts : TaskOf[k] = TaskOf[m] => k = m

\* A sub task is started only when all before it have been executed, with success or
\* not, however handlers overlap between the choice and the start, and whatever fails,
\* is retried, cleaned or restarted (schedule_next_task_by_id takes the first row that
\* waits).  A task that is paused and continued is excepted: its rows change places.
InOrder ==
  [][\A m \in Starts : \A i, j \in DOMAIN Body[m] :
       /\ Alone(m) /\ used'.ops = 0
       /\ i < j
       /\ started'[Body[m][j]] > started[Body[m][j]]
       => Body[m][i] \in ended \cup failed]_vars

\* Co is told both that a task has succeeded and that it has failed only if a sub task
\* that failed was deleted, or was started more than once: by a command, or by two
\* handlers that read its row before either wrote it (schedule_next_task_by_id).  The
\* end of a job that two ticks see both is excepted: it is reported twice.
OneVerdict ==
  used.seen = 0 =>
    \A m \in Starts :
      Alone(m) /\ {<<TaskOf[m], "Success">>, <<TaskOf[m], "Failed">>} \subseteq told
        => \E s \in SubsOf(m) \cap failed : started[s] > 1 \/ s \in removed

\* A sub task whose row was deleted never has a row again and is never started: not by
\* a handler that chose it or listed it before, nor by a report or an end of its job
\* that comes later (every update in task_scheduler.rs and run_job.rs reads the row
\* again).
DeletedStays ==
  [][\A s \in removed : sub'[s] = None /\ started'[s] = started[s]]_vars

\* A sub task is started only after co has been told that its task is started.
StartKnown ==
  [][\A s \in Subs : started'[s] > started[s] => <<Parent(s), "Start">> \in told]_vars

\* Every task that is started is answered in the end, unless an operation, an
\* error at an await or a restart comes in between, or a tick cleans the completed
\* task away before its success is told.
EventuallyAnswered ==
  \A m \in Starts :
    m \in inserted
      ~> \/ {<<TaskOf[m], "Success">>, <<TaskOf[m], "Failed">>} \cap told # {}
         \/ task[TaskOf[m]] = None
         \/ used.ops + used.errors + used.crashes > 0

=============================================================================
