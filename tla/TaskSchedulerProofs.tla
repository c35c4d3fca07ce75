------------------------- MODULE TaskSchedulerProofs -------------------------
(***************************************************************************)
(* Proofs about TaskScheduler, for any tasks, messages, sub tasks,         *)
(* handlers and bounds, whatever handlers overlap, reports repeat,         *)
(* services fail and restarts intervene: what an agent tells co is true;   *)
(* a task has two verdicts only if a sub task was deleted or started       *)
(* twice; what is deleted stays deleted; and the sub tasks of a task that  *)
(* is not operated are started in order.                                   *)
(***************************************************************************)
EXTENDS TaskScheduler, WellFoundedInduction, SequenceTheorems, TLAPS

\* What has happened stays so: the histories and what was told only grow.
Grows ==
  /\ inserted \subseteq inserted'
  /\ asked \subseteq asked'
  /\ ended \subseteq ended'
  /\ failed \subseteq failed'
  /\ removed \subseteq removed'
  /\ told \subseteq told'

\* A sound handler that does nothing stays sound.
LEMMA StaysSound ==
  ASSUME NEW v \in Workers, Sound(handler[v]), handler'[v] = handler[v], Grows
  PROVE  Sound(handler[v])'
BY DEF Sound, Shaped, ServesCommand, Justified, Delivered, Grows, Idle

\* A handler that becomes a sound record is sound.
LEMMA BecomesSound ==
  ASSUME NEW v \in Workers, NEW r, Sound(r), handler'[v] = r, Grows
  PROVE  Sound(handler[v])'
BY DEF Sound, Shaped, ServesCommand, Justified, Delivered, Grows, Idle

\* Answers that were justified stay so.
LEMMA AnswersKept ==
  ASSUME AnswersJustified, told' = told, Grows
  PROVE  AnswersJustified'
BY DEF AnswersJustified, Delivered, Grows

\* A step of one handler.
LEMMA Step ==
  ASSUME SchedulerInv, NEW w \in Workers, NEW r, handler' = [handler EXCEPT ![w] = r],
         Grows, Sound(handler[w])',
         TablesSound', ReportsSound', HistoriesSound', AnswersJustified'
  PROVE  SchedulerInv'
<1>1. DOMAIN handler' = Workers
  BY DEF SchedulerInv
<1>2. ASSUME NEW v \in Workers PROVE Sound(handler[v])'
  <2>1. CASE v = w
    BY <2>1
  <2>2. CASE v # w
    <3>1. handler'[v] = handler[v] /\ Sound(handler[v])
      BY <2>2 DEF SchedulerInv
    <3> QED
      BY <3>1, StaysSound
  <2> QED
    BY <2>1, <2>2
<1> QED
  BY <1>1, <1>2 DEF SchedulerInv

\* A step of one handler that tells nothing and adds nothing to the histories.
LEMMA LocalStep ==
  ASSUME SchedulerInv, NEW w \in Workers, NEW r, handler' = [handler EXCEPT ![w] = r],
         Sound(r), UNCHANGED <<told, inserted, asked, ended, failed, removed>>,
         TablesSound', ReportsSound'
  PROVE  SchedulerInv'
<1>1. Grows
  BY DEF Grows
<1>2. handler'[w] = r
  BY DEF SchedulerInv
<1>3. Sound(handler[w])'
  BY <1>1, <1>2, BecomesSound
<1>4. AnswersJustified'
  BY <1>1, AnswersKept DEF SchedulerInv
<1>5. HistoriesSound'
  BY DEF SchedulerInv, HistoriesSound
<1> QED
  BY <1>1, <1>3, <1>4, <1>5, Step

\* A step outside the handlers.
LEMMA ServiceStep ==
  ASSUME SchedulerInv, handler' = handler, told' = told, Grows,
         TablesSound', ReportsSound', HistoriesSound'
  PROVE  SchedulerInv'
<1>1. ASSUME NEW v \in Workers PROVE Sound(handler[v])'
  <2>1. handler'[v] = handler[v] /\ Sound(handler[v])
    BY DEF SchedulerInv
  <2> QED
    BY <2>1, StaysSound
<1>2. AnswersJustified'
  BY AnswersKept DEF SchedulerInv
<1> QED
  BY <1>1, <1>2 DEF SchedulerInv

-----------------------------------------------------------------------------
(* The tables and the reports under way.                                   *)

\* A step that leaves the tables and the inserted messages alone.
LEMMA TablesKept ==
  ASSUME TablesSound, Grows, UNCHANGED <<task, sub, inserted>>
  PROVE  TablesSound'
BY DEF TablesSound, Grows, Present

\* A row of tasks that exists is written, or a row is deleted.
LEMMA TaskWritten ==
  ASSUME TablesSound, Grows, NEW t \in Tasks, NEW x \in Status \cup {None},
         task[t] # None \/ x = None,
         task' = [task EXCEPT ![t] = x], UNCHANGED <<sub, inserted>>
  PROVE  TablesSound'
BY DEF TablesSound, Grows, Present

\* A row of sub_tasks is written; "Completed" only if the sub task has ended.
LEMMA SubWritten ==
  ASSUME TablesSound, Grows, NEW s \in Subs, NEW x \in Status,
         x = "Completed" => s \in ended',
         sub' = [sub EXCEPT ![s] = x], UNCHANGED <<task, inserted>>
  PROVE  TablesSound'
BY SchedulerAssumption DEF TablesSound, Grows, Present

\* A step that leaves the reports alone.
LEMMA ReportsKept ==
  ASSUME ReportsSound, Grows, UNCHANGED reports
  PROVE  ReportsSound'
BY DEF ReportsSound, Grows

\* A report is taken.
LEMMA ReportTaken ==
  ASSUME ReportsSound, Grows, NEW s \in Subs, NEW v \in Verdicts, reports[s][v] > 0,
         reports' = [reports EXCEPT ![s][v] = @ - 1]
  PROVE  ReportsSound'
<1>1. reports[s][v] - 1 \in Nat
  BY DEF ReportsSound
<1>2. reports' \in [Subs -> [Verdicts -> Nat]]
  BY <1>1 DEF ReportsSound
<1>3. ASSUME NEW r \in Subs, NEW c \in Verdicts, reports'[r][c] > 0 PROVE reports[r][c] > 0
  BY <1>3 DEF ReportsSound
<1>4. {"Completed", "Failed"} = Verdicts
  BY DEF Verdicts
<1> QED
  BY <1>2, <1>3, <1>4 DEF ReportsSound, Grows

\* A report is made of what has happened.
LEMMA ReportMade ==
  ASSUME ReportsSound, Grows, NEW s \in Subs, NEW v \in Verdicts,
         v = "Completed" => s \in ended', v = "Failed" => s \in failed',
         reports' = [reports EXCEPT ![s][v] = @ + 1]
  PROVE  ReportsSound'
<1>1. reports[s][v] + 1 \in Nat
  BY DEF ReportsSound
<1>2. reports' \in [Subs -> [Verdicts -> Nat]]
  BY <1>1 DEF ReportsSound
<1>3. ASSUME NEW r \in Subs, NEW c \in Verdicts, ~(r = s /\ c = v) PROVE reports'[r][c] = reports[r][c]
  BY <1>3 DEF ReportsSound
<1>4. {"Completed", "Failed"} = Verdicts
  BY DEF Verdicts
<1> QED
  BY <1>2, <1>3, <1>4 DEF ReportsSound, Grows

-----------------------------------------------------------------------------
(* The records that handlers become.                                       *)

\* A handler that is at a step is a sound record.
LEMMA Serving ==
  ASSUME SchedulerInv, NEW w \in Workers, handler[w].pc \in Steps
  PROVE  /\ Shaped(handler[w])
         /\ ServesCommand(handler[w])
         /\ Justified(handler[w])
<1>1. "idle" \notin Steps
  BY DEF Steps, Telling
<1> QED
  BY <1>1 DEF SchedulerInv, Sound, Idle

\* The record of a call is a handler.
LEMMA CallShaped ==
  ASSUME NEW op \in Commands, NEW pc \in Steps, NEW own \in Tasks \cup {None}
  PROVE  Shaped(Call(op, pc, own))
BY DEF Shaped, Call

\* The records of Done, Stop and Schedule.
AfterDone(h) ==
  IF Deleting(h)
  THEN [h EXCEPT !.pc = "removeSubs", !.todo = h.body, !.task = None, !.sub = None, !.how = None]
  ELSE Idle

AfterStop(h) == IF h.op = "tick" /\ h.own # None THEN Call("tick", "next", None) ELSE Idle

Looking(h, t) == [h EXCEPT !.pc = "look", !.task = t, !.sub = None, !.how = None]

\* A handler whose call has returned is sound.
LEMMA DoneSound ==
  ASSUME NEW h, Shaped(h), ServesCommand(h)
  PROVE  Sound(AfterDone(h))
<1>1. CASE Deleting(h)
  <2> DEFINE r == AfterDone(h)
  <2>1. r = [h EXCEPT !.pc = "removeSubs", !.todo = h.body, !.task = None, !.sub = None, !.how = None]
    BY <1>1 DEF AfterDone
  <2>2. Shaped(r)
    BY <2>1 DEF Shaped, Steps
  <2>3. r.pc = "removeSubs" /\ r.op = h.op /\ r.own = h.own /\ h.own \in Tasks \cup {None}
    BY <2>1 DEF Shaped
  <2> HIDE DEF r
  <2>4. ServesCommand(r) /\ Justified(r)
    BY <1>1, <2>3 DEF ServesCommand, Justified, Deleting
  <2> QED
    BY <2>2, <2>4 DEF Sound, r
<1>2. CASE ~Deleting(h)
  BY <1>2 DEF AfterDone, Sound
<1> QED
  BY <1>1, <1>2

\* A handler that has stopped is sound.
LEMMA StopSound ==
  ASSUME NEW h
  PROVE  Sound(AfterStop(h))
<1> DEFINE r == Call("tick", "next", None)
<1>1. Shaped(r)
  BY CallShaped DEF Commands, Steps
<1>2. r.pc = "next" /\ r.op = "tick"
  BY DEF Call
<1> HIDE DEF r
<1>3. Sound(r)
  BY <1>1, <1>2 DEF Sound, ServesCommand, Justified
<1> QED
  BY <1>3 DEF AfterStop, Sound, r

\* A handler that schedules a task is sound.
LEMMA LookingSound ==
  ASSUME NEW h, Shaped(h), ServesCommand(h), NEW t \in Tasks
  PROVE  Sound(Looking(h, t))
<1> DEFINE r == Looking(h, t)
<1>1. Shaped(r)
  BY DEF Shaped, Steps, Looking
<1>2. r.pc = "look" /\ r.op = h.op /\ r.own = h.own /\ r.task = t
  BY DEF Shaped, Looking
<1> HIDE DEF r
<1>3. ServesCommand(r) /\ Justified(r)
  BY <1>2 DEF ServesCommand, Justified
<1> QED
  BY <1>1, <1>3 DEF Sound, r

\* A handler goes to another step, all else staying.
LEMMA MovedShape ==
  ASSUME NEW h, Shaped(h), NEW pc \in Steps
  PROVE  LET r == [h EXCEPT !.pc = pc] IN
         /\ Shaped(r)
         /\ r.pc = pc /\ r.op = h.op /\ r.own = h.own
         /\ r.task = h.task /\ r.sub = h.sub /\ r.msg = h.msg
BY DEF Shaped

\* A step that ends with an error, and adds to no history.
LEMMA StopStep ==
  ASSUME SchedulerInv, NEW w \in Workers, Stop(w),
         UNCHANGED <<told, inserted, asked, ended, failed, removed>>,
         TablesSound', ReportsSound'
  PROVE  SchedulerInv'
<1>1. handler' = [handler EXCEPT ![w] = AfterStop(handler[w])]
  BY DEF Stop, Become, AfterStop
<1> QED
  BY <1>1, StopSound, LocalStep

\* A step that ends with the return of the call.
LEMMA DoneStep ==
  ASSUME SchedulerInv, NEW w \in Workers, handler[w].pc \in Steps, Done(w),
         UNCHANGED <<told, inserted, asked, ended, failed, removed>>,
         TablesSound', ReportsSound'
  PROVE  SchedulerInv'
<1>1. handler' = [handler EXCEPT ![w] = AfterDone(handler[w])]
  BY DEF Done, Become, AfterDone
<1>2. Sound(AfterDone(handler[w]))
  BY Serving, DoneSound
<1> QED
  BY <1>1, <1>2, LocalStep

\* A step that ends with a call of schedule_next_task_by_id.
LEMMA ScheduleStep ==
  ASSUME SchedulerInv, NEW w \in Workers, handler[w].pc \in Steps, NEW t \in Tasks, Schedule(w, t),
         UNCHANGED <<told, inserted, asked, ended, failed, removed>>,
         TablesSound', ReportsSound'
  PROVE  SchedulerInv'
<1>1. handler' = [handler EXCEPT ![w] = Looking(handler[w], t)]
  BY DEF Schedule, Become, Looking
<1>2. Sound(Looking(handler[w], t))
  BY Serving, LookingSound
<1> QED
  BY <1>1, <1>2, LocalStep

\* A step that ends with another step of the same call.
LEMMA GotoStep ==
  ASSUME SchedulerInv, NEW w \in Workers, handler[w].pc \in Steps, NEW pc \in Steps, Goto(w, pc),
         ServesCommand([handler[w] EXCEPT !.pc = pc]), Justified([handler[w] EXCEPT !.pc = pc]),
         UNCHANGED <<told, inserted, asked, ended, failed, removed>>,
         TablesSound', ReportsSound'
  PROVE  SchedulerInv'
<1> DEFINE r == [handler[w] EXCEPT !.pc = pc]
<1>1. handler' = [handler EXCEPT ![w] = r]
  BY DEF Goto
<1>2. Shaped(r)
  BY Serving, MovedShape
<1>3. Sound(r)
  BY <1>2 DEF Sound
<1> HIDE DEF r
<1> QED
  BY <1>1, <1>3, LocalStep

\* What must be true before a result is told of a task.
Justifies(t, result) ==
  CASE result = "Start" -> \E m \in inserted : TaskOf[m] = t
    [] result = "Success" -> \E m \in Starts : TaskOf[m] = t /\ Delivered(m)
    [] result = "Failed" -> \E s \in failed : Parent(s) = t
    [] result = "Paused" -> <<t, "Pause">> \in asked
    [] result = "Continued" -> <<t, "Continue">> \in asked
    [] result = "Deleted" -> <<t, "Delete">> \in asked

\* AnswersJustified, result by result.
LEMMA AnswersJustify ==
  AnswersJustified <=> \A t \in Tasks, result \in Results : <<t, result>> \in told => Justifies(t, result)
BY DEF AnswersJustified, Results, Justifies

\* What a handler tells is true.
LEMMA TellJustified ==
  ASSUME SchedulerInv, NEW w \in Workers, handler[w].pc \in DOMAIN Telling,
         told' = told \cup {Telltale(w)},
         UNCHANGED <<inserted, asked, ended, failed, removed>>
  PROVE  AnswersJustified'
<1> DEFINE h == handler[w]
<1>1. DOMAIN Telling = {"tellStart", "tellSuccess", "tellFailed", "tellPaused", "tellResumed", "tellDeleted"}
  BY DEF Telling
<1>2. ServesCommand(h) /\ Justified(h)
  BY Serving DEF Steps
<1>3. \E t, result : Telltale(w) = <<t, result>> /\ Justifies(t, result)
  <2>1. CASE h.pc = "tellStart"
    <3>1. Telltale(w) = <<h.task, "Start">>
      BY <2>1 DEF Telltale, Telling, At
    <3>2. Justifies(h.task, "Start")
      BY <1>2, <2>1 DEF Justified, Justifies
    <3> QED
      BY <3>1, <3>2
  <2>2. CASE h.pc = "tellSuccess"
    <3>1. Telltale(w) = <<h.own, "Success">>
      BY <2>2 DEF Telltale, Telling, At
    <3>2. Justifies(h.own, "Success")
      BY <1>2, <2>2 DEF Justified, Justifies
    <3> QED
      BY <3>1, <3>2
  <2>3. CASE h.pc = "tellFailed"
    <3>1. Telltale(w) = <<h.own, "Failed">>
      BY <2>3 DEF Telltale, Telling, At
    <3>2. Justifies(h.own, "Failed")
      BY <1>2, <2>3 DEF Justified, Justifies
    <3> QED
      BY <3>1, <3>2
  <2>4. CASE h.pc = "tellPaused"
    <3>1. Telltale(w) = <<h.own, "Paused">>
      BY <2>4 DEF Telltale, Telling, At
    <3>2. Justifies(h.own, "Paused")
      BY <1>2, <2>4 DEF ServesCommand, Justifies
    <3> QED
      BY <3>1, <3>2
  <2>5. CASE h.pc = "tellResumed"
    <3>1. Telltale(w) = <<h.own, "Continued">>
      BY <2>5 DEF Telltale, Telling, At
    <3>2. Justifies(h.own, "Continued")
      BY <1>2, <2>5 DEF ServesCommand, Justifies
    <3> QED
      BY <3>1, <3>2
  <2>6. CASE h.pc = "tellDeleted"
    <3>1. Telltale(w) = <<h.own, "Deleted">>
      BY <2>6 DEF Telltale, Telling, At
    <3>2. Justifies(h.own, "Deleted")
      BY <1>2, <2>6 DEF ServesCommand, Justifies
    <3> QED
      BY <3>1, <3>2
  <2> QED
    BY <1>1, <2>1, <2>2, <2>3, <2>4, <2>5, <2>6
<1>4. PICK t, result : Telltale(w) = <<t, result>> /\ Justifies(t, result)
  BY <1>3
<1>5. ASSUME NEW u \in Tasks, NEW other \in Results, <<u, other>> \in told'
      PROVE  Justifies(u, other)
  <2>1. CASE <<u, other>> \in told
    BY <2>1, AnswersJustify DEF SchedulerInv
  <2>2. CASE <<u, other>> = Telltale(w)
    BY <1>4, <2>2
  <2> QED
    BY <1>5, <2>1, <2>2
<1>6. ASSUME NEW u \in Tasks, NEW other \in Results, <<u, other>> \in told'
      PROVE  Justifies(u, other)'
  BY <1>5, <1>6 DEF Justifies, Delivered
<1> QED
  BY <1>6 DEF AnswersJustified, Results, Justifies

\* A handler tells a result and becomes r.
LEMMA TellStep ==
  ASSUME SchedulerInv, NEW w \in Workers, handler[w].pc \in DOMAIN Telling,
         told' = told \cup {Telltale(w)},
         NEW r, handler' = [handler EXCEPT ![w] = r], Sound(r),
         UNCHANGED <<task, sub, reports, inserted, asked, ended, failed, removed>>
  PROVE  SchedulerInv'
<1>1. Grows
  BY DEF Grows
<1>2. Sound(handler[w])'
  <2>1. handler'[w] = r
    BY DEF SchedulerInv
  <2> QED
    BY <1>1, <2>1, BecomesSound
<1>3. TablesSound' /\ ReportsSound' /\ HistoriesSound'
  BY <1>1, TablesKept, ReportsKept DEF SchedulerInv, HistoriesSound
<1>4. AnswersJustified'
  BY TellJustified
<1> QED
  BY <1>1, <1>2, <1>3, <1>4, Step

\* Steps of a handler that leave the tables and the reports alone.
LEMMA QuietTables ==
  ASSUME SchedulerInv, UNCHANGED <<task, sub, reports, inserted, asked, ended, failed, removed, told>>
  PROVE  TablesSound' /\ ReportsSound' /\ Grows
<1>1. Grows
  BY DEF Grows
<1> QED
  BY <1>1, TablesKept, ReportsKept DEF SchedulerInv

\* A handler moves to a step that needs no justification.
LEMMA PlainMove ==
  ASSUME NEW h, Shaped(h), ServesCommand(h),
         NEW pc \in {"next", "judge"}, pc = "judge" => h.own \in Tasks
  PROVE  LET r == [h EXCEPT !.pc = pc] IN
         ServesCommand(r) /\ Justified(r) /\ Sound(r)
<1> DEFINE r == [h EXCEPT !.pc = pc]
<1>1. Shaped(r) /\ r.pc = pc /\ r.op = h.op /\ r.own = h.own
  BY MovedShape DEF Steps
<1> HIDE DEF r
<1>2. ServesCommand(r) /\ Justified(r)
  BY <1>1 DEF ServesCommand, Justified
<1>3. Sound(r)
  BY <1>1, <1>2 DEF Sound
<1> QED
  BY <1>2, <1>3 DEF r

-----------------------------------------------------------------------------
(* Every action keeps SchedulerInv.                                        *)

\* An agent that has received nothing has nothing to justify.
LEMMA InitInv == Init => SchedulerInv
<1> SUFFICES ASSUME Init PROVE SchedulerInv
  OBVIOUS
<1>1. TablesSound
  <2>1. "Completed" \in Status /\ None \notin Status
    BY SchedulerAssumption DEF Status
  <2> QED
    <3>1. task = [t \in Tasks |-> None] /\ sub = [s \in Subs |-> None] /\ inserted = {}
      BY DEF Init
    <3> QED
      BY <2>1, <3>1 DEF TablesSound
<1>2. ReportsSound /\ HistoriesSound
  BY DEF Init, ReportsSound, HistoriesSound, Verdicts
<1>3. DOMAIN handler = Workers /\ \A w \in Workers : Sound(handler[w])
  BY DEF Init, Sound
<1>4. AnswersJustified
  BY DEF Init, AnswersJustified
<1> QED
  BY <1>1, <1>2, <1>3, <1>4 DEF SchedulerInv

\* A fresh handler with no task read yet.
LEMMA CallFields ==
  ASSUME NEW op, NEW pc, NEW own
  PROVE  LET r == Call(op, pc, own) IN
         r.op = op /\ r.pc = pc /\ r.own = own /\ r.msg = None /\ r.task = None /\ r.sub = None
BY DEF Call

\* Receiving a Start message.
LEMMA ReceiveStartInv ==
  ASSUME SchedulerInv, NEW w \in Workers, NEW m \in Starts, ReceiveStart(w, m)
  PROVE  SchedulerInv'
<1> DEFINE r == [Call("start", "insert", TaskOf[m]) EXCEPT !.msg = m]
<1>1. handler' = [handler EXCEPT ![w] = r]
  BY DEF ReceiveStart, Become
<1>2. Shaped(r)
  <2>1. TaskOf[m] \in Tasks
    BY TaskAssumption
  <2> QED
    BY <2>1 DEF Shaped, Call, Commands, Steps
<1>3. r.op = "start" /\ r.pc = "insert" /\ r.msg = m
  BY DEF Call
<1>4. TablesSound' /\ ReportsSound'
  BY QuietTables DEF ReceiveStart, tables, services, history
<1> HIDE DEF r
<1>5. Sound(r)
  BY <1>2, <1>3 DEF Sound, ServesCommand, Justified
<1> QED
  BY <1>1, <1>4, <1>5, LocalStep DEF ReceiveStart, history

\* Receiving another command.
LEMMA ReceiveCommandInv ==
  ASSUME SchedulerInv, NEW w \in Workers, NEW t \in Tasks, NEW c \in Operations,
         ReceiveCommand(w, t, c)
  PROVE  SchedulerInv'
<1>1. Grows
  BY DEF ReceiveCommand, Grows
<1>2. TablesSound' /\ ReportsSound' /\ HistoriesSound' /\ AnswersJustified'
  BY <1>1, TablesKept, ReportsKept, AnswersKept
  DEF SchedulerInv, HistoriesSound, ReceiveCommand, tables, services
<1>3. PICK op \in {"pause", "continue", "delete"}, pc \in {"pause", "resume", "delete"} :
        /\ handler' = [handler EXCEPT ![w] = Call(op, pc, t)]
        /\ \/ op = "pause" /\ pc = "pause" /\ c = "Pause"
           \/ op = "continue" /\ pc = "resume" /\ c = "Continue"
           \/ op = "delete" /\ pc = "delete" /\ c = "Delete"
  BY SchedulerAssumption DEF ReceiveCommand, Become
<1> DEFINE r == Call(op, pc, t)
<1>4. Shaped(r)
  BY CallShaped DEF Commands, Steps
<1>5. r.op = op /\ r.pc = pc /\ r.own = t
  BY CallFields
<1>6. handler'[w] = r
  BY <1>3 DEF SchedulerInv
<1>7. <<t, c>> \in asked'
  BY DEF ReceiveCommand
<1> HIDE DEF r
<1>8. Sound(handler[w])'
  BY <1>3, <1>4, <1>5, <1>6, <1>7 DEF Sound, Shaped, ServesCommand, Justified
<1> QED
  BY <1>1, <1>2, <1>3, <1>8, Step

\* Taking a report of a sub task.
LEMMA ReceiveReportInv ==
  ASSUME SchedulerInv, NEW w \in Workers, NEW s \in Subs, NEW v \in Verdicts,
         ReceiveReport(w, s, v)
  PROVE  SchedulerInv'
<1> DEFINE op == IF v = "Completed" THEN "complete" ELSE "fail"
           r == [Call(op, op, Parent(s)) EXCEPT !.sub = s]
<1>1. handler' = [handler EXCEPT ![w] = r]
  BY DEF ReceiveReport, Become
<1>2. Shaped(r)
  <2>1. Parent(s) \in Tasks
    BY TaskAssumption DEF Parent
  <2> QED
    BY <2>1 DEF Shaped, Call, Commands, Steps
<1>3. r.op = op /\ r.pc = op /\ r.own = Parent(s) /\ r.sub = s
  BY DEF Call
<1>4. v = "Completed" \/ v = "Failed"
  BY DEF Verdicts
<1>5. Parent(s) \in Tasks
  BY TaskAssumption DEF Parent
<1>6. (v = "Completed" => s \in ended) /\ (v = "Failed" => s \in failed)
  BY DEF ReceiveReport, SchedulerInv, ReportsSound
<1> HIDE DEF r
<1>7. ServesCommand(r)
  BY <1>3, <1>5 DEF ServesCommand
<1>8. Justified(r)
  BY <1>3, <1>4, <1>6 DEF Justified
<1>9. Sound(r)
  BY <1>2, <1>7, <1>8 DEF Sound
<1>10. Grows
  BY DEF Grows, ReceiveReport, history
<1>11. TablesSound' /\ ReportsSound'
  BY <1>10, TablesKept, ReportTaken DEF SchedulerInv, ReceiveReport, tables, history
<1> QED
  BY <1>1, <1>9, <1>11, LocalStep DEF ReceiveReport, history

\* The interval.
LEMMA TickInv ==
  ASSUME SchedulerInv, NEW w \in Workers, Tick(w)
  PROVE  SchedulerInv'
<1>1. PICK recent \in SUBSET Tasks :
        handler' = [handler EXCEPT ![w] = [Call("tick", "clean", None) EXCEPT !.victims = recent]]
  BY DEF Tick, Become
<1> DEFINE r == [Call("tick", "clean", None) EXCEPT !.victims = recent]
<1>2. Shaped(r)
  BY DEF Shaped, Call, Commands, Steps
<1>3. r.op = "tick" /\ r.pc = "clean"
  BY DEF Call
<1>4. TablesSound' /\ ReportsSound'
  BY QuietTables DEF Tick, tables, services, history
<1> HIDE DEF r
<1>5. Sound(r)
  BY <1>2, <1>3 DEF Sound, ServesCommand, Justified
<1> QED
  BY <1>1, <1>4, <1>5, LocalStep DEF Tick, history, r

\* enqueue_task: the rows of the message are inserted.
LEMMA InsertInv ==
  ASSUME SchedulerInv, NEW w \in Workers, Insert(w)
  PROVE  SchedulerInv'
<1> DEFINE m == handler[w].msg
           r == [Call("start", "look", None) EXCEPT !.task = TaskOf[m]]
<1>1. m \in Starts /\ TaskOf[m] \in Tasks
  <2>1. m \in Starts
    BY Serving DEF Insert, At, Steps, ServesCommand
  <2> QED
    BY <2>1, TaskAssumption
<1>2. handler' = [handler EXCEPT ![w] = r]
  BY DEF Insert, Become
<1>3. Grows
  BY DEF Insert, Grows
<1>4. Shaped(r)
  BY <1>1 DEF Shaped, Call, Commands, Steps
<1>5. r.op = "start" /\ r.pc = "look" /\ r.task = TaskOf[m]
  BY DEF Call
<1>6. TablesSound'
  <2>1. "Queuing" \in Status /\ "Queuing" # "Completed" /\ "Queuing" # None
    BY SchedulerAssumption DEF Status
  <2>2. inserted' = inserted \cup {m}
    BY DEF Insert
  <2>3. task' = [task EXCEPT ![TaskOf[m]] = "Queuing"]
    BY DEF Insert, WriteTask
  <2>4. sub' = [s \in Subs |-> IF s \in SubsOf(m) THEN "Queuing" ELSE sub[s]]
    BY DEF Insert
  <2>5. TablesSound
    BY DEF SchedulerInv
  <2>6. (task \in [Tasks -> Status \cup {None}])' /\ (sub \in [Subs -> Status \cup {None}])'
    BY <2>1, <2>3, <2>4, <2>5 DEF TablesSound
  <2>7. ASSUME NEW t \in Tasks, task'[t] # None PROVE \E n \in inserted' : TaskOf[n] = t
    BY <2>2, <2>3, <2>5, <2>7 DEF TablesSound
  <2>8. ASSUME NEW s \in Subs, sub'[s] = "Completed" PROVE s \in ended'
    BY <2>1, <2>4, <2>5, <2>8, <1>3 DEF TablesSound, Grows
  <2>9. ASSUME NEW n \in inserted', NEW s \in SubsOf(n) PROVE sub'[s] # None \/ s \in removed'
    <3>1. s \in Subs
      BY DEF SubsOf
    <3>2. CASE s \in SubsOf(m)
      BY <2>1, <2>4, <3>1, <3>2
    <3>3. CASE s \notin SubsOf(m)
      BY <2>2, <2>4, <2>5, <3>1, <3>3, <1>3 DEF TablesSound, Grows, Present
    <3> QED
      BY <3>2, <3>3
  <2> QED
    BY <2>6, <2>7, <2>8, <2>9 DEF TablesSound, Present
<1>7. ReportsSound' /\ HistoriesSound' /\ AnswersJustified'
  BY <1>1, <1>3, ReportsKept, AnswersKept DEF SchedulerInv, HistoriesSound, Insert, services
<1>8. handler'[w] = r
  BY <1>2 DEF SchedulerInv
<1> HIDE DEF r, m
<1>9. Sound(r)
  BY <1>1, <1>4, <1>5 DEF Sound, ServesCommand, Justified
<1>10. Sound(handler[w])'
  BY <1>3, <1>8, <1>9, BecomesSound
<1> QED
  BY <1>2, <1>3, <1>6, <1>7, <1>10, Step

\* schedule_next_task.
LEMMA NextTaskInv ==
  ASSUME SchedulerInv, NEW w \in Workers, NextTask(w)
  PROVE  SchedulerInv'
<1>1. handler[w].pc \in Steps
  BY DEF NextTask, At, Steps
<1>2. UNCHANGED <<told, inserted, asked, ended, failed, removed>> /\ TablesSound' /\ ReportsSound'
  BY QuietTables DEF NextTask, tables, services, history
<1>3. CASE Done(w)
  BY <1>1, <1>2, <1>3, DoneStep
<1>4. CASE \E t \in Tasks : Schedule(w, t)
  BY <1>1, <1>2, <1>4, ScheduleStep
<1> QED
  BY <1>3, <1>4 DEF NextTask

\* schedule_next_task_by_id reads a row of tasks and its body.
LEMMA LookInv ==
  ASSUME SchedulerInv, NEW w \in Workers, Look(w)
  PROVE  SchedulerInv'
<1> DEFINE t == handler[w].task
<1>1. handler[w].pc = "look"
  BY DEF Look, At
<1>2. Shaped(handler[w]) /\ ServesCommand(handler[w])
  BY <1>1, Serving DEF Steps
<1>3. UNCHANGED <<told, inserted, asked, ended, failed, removed>> /\ TablesSound' /\ ReportsSound'
  BY QuietTables DEF Look, tables, services, history
<1>4. CASE Stop(w)
  BY <1>3, <1>4, StopStep
<1>5. CASE ~Stop(w)
  <2>1. task[t] \in {"Queuing", "Running"}
    BY <1>5 DEF Look
  <2>2. t \in Tasks /\ "Queuing" # None /\ "Running" # None
    BY <1>1, <1>2, SchedulerAssumption DEF ServesCommand, Status
  <2> DEFINE HowOf(s) == IF s \in Subs THEN sub[s] ELSE None
  <2>3. PICK s \in Choice(t), pc \in {"mark", "tellStart"} :
          handler' = [handler EXCEPT ![w] = [handler[w] EXCEPT !.pc = pc, !.sub = s, !.how = HowOf(s)]]
    BY <2>1 DEF Look, Become
  <2>4. s \in BodyOf(t) \cup {Busy, None}
    BY DEF Choice, Pending, FirstOf
  <2>5. s \in Subs \cup {None, Busy} /\ (s \in Subs => Parent(s) = t)
    BY <2>4, SchedulerAssumption DEF BodyOf
  <2>6. HowOf(s) \in Status \cup {None}
    BY <2>5 DEF SchedulerInv, TablesSound
  <2> DEFINE how == HowOf(s)
  <2> DEFINE r == [handler[w] EXCEPT !.pc = pc, !.sub = s, !.how = how]
  <2>7. Shaped(r)
    <3>1. pc \in Steps
      BY DEF Steps, Telling
    <3>2. s \in Subs \cup {None, Busy}
      BY <2>5
    <3> HIDE DEF HowOf
    <3> QED
      BY <1>2, <2>6, <3>1, <3>2 DEF Shaped
  <2>8. r.pc = pc /\ r.op = handler[w].op /\ r.own = handler[w].own /\ r.task = t /\ r.sub = s
    BY <1>2 DEF Shaped
  <2>9. \E m \in inserted : TaskOf[m] = t
    BY <2>1, <2>2 DEF SchedulerInv, TablesSound
  <2> HIDE DEF r
  <2>10. ServesCommand(r)
    BY <1>2, <2>8 DEF ServesCommand
  <2>11. Justified(r)
    BY <2>5, <2>8, <2>9 DEF Justified
  <2>12. Sound(r)
    BY <2>7, <2>10, <2>11 DEF Sound
  <2> QED
    BY <1>3, <2>3, <2>12, LocalStep DEF r
<1> QED
  BY <1>4, <1>5

\* The task is written as running.
LEMMA MarkInv ==
  ASSUME SchedulerInv, NEW w \in Workers, Mark(w)
  PROVE  SchedulerInv'
<1> DEFINE t == handler[w].task
           r == [handler[w] EXCEPT !.pc = "tellStart"]
<1>1. handler[w].pc = "mark"
  BY DEF Mark, At
<1>2. Shaped(handler[w]) /\ ServesCommand(handler[w]) /\ Justified(handler[w])
  BY <1>1, Serving DEF Steps
<1>3. UNCHANGED <<told, inserted, asked, ended, failed, removed>> /\ Grows /\ ReportsSound'
  BY ReportsKept DEF Mark, services, history, Grows, SchedulerInv
<1>4. CASE task[t] = None
  <2>1. TablesSound'
    BY <1>3, <1>4, TablesKept DEF Mark, SchedulerInv
  <2> QED
    BY <1>3, <1>4, <2>1, StopStep DEF Mark
<1>5. CASE task[t] # None
  <2>1. \E m \in inserted : TaskOf[m] = t
    BY <1>1, <1>2 DEF Justified
  <2>2. t \in Tasks
    BY <2>1, TaskAssumption DEF SchedulerInv, HistoriesSound
  <2>3. TablesSound'
    <3>1. task' = [task EXCEPT ![t] = "Running"] /\ UNCHANGED <<sub, inserted>>
      BY <1>5, <1>3 DEF Mark, WriteTask
    <3>2. "Running" \in Status \cup {None}
      BY DEF Status
    <3> QED
      BY <1>3, <1>5, <2>2, <3>1, <3>2, TaskWritten DEF SchedulerInv
  <2>4. handler' = [handler EXCEPT ![w] = r]
    BY <1>5 DEF Mark, Goto
  <2>5. Shaped(r) /\ r.pc = "tellStart" /\ r.op = handler[w].op /\ r.own = handler[w].own
        /\ r.task = t /\ r.sub = handler[w].sub
    BY <1>2, MovedShape DEF Steps, Telling
  <2> HIDE DEF r
  <2>6. Sound(r)
    BY <1>1, <1>2, <2>5 DEF Sound, ServesCommand, Justified
  <2> QED
    BY <1>3, <2>3, <2>4, <2>6, LocalStep
<1> QED
  BY <1>4, <1>5

\* The start is told to co.
LEMMA TellStartInv ==
  ASSUME SchedulerInv, NEW w \in Workers, TellStart(w)
  PROVE  SchedulerInv'
<1> DEFINE h == handler[w]
<1>1. h.pc = "tellStart"
  BY DEF TellStart, At
<1>2. Shaped(h) /\ ServesCommand(h) /\ Justified(h)
  BY <1>1, Serving DEF Steps, Telling
<1>3. h.pc \in DOMAIN Telling
  BY <1>1 DEF Telling
<1>4. Telltale(w) = <<h.task, "Start">>
  BY <1>1 DEF Telltale, Telling, At
<1>5. told' = told \cup {<<h.task, "Start">>}
  BY <1>4 DEF TellStart, Tell
<1>6. UNCHANGED <<task, sub, reports, inserted, asked, ended, failed, removed>>
  BY DEF TellStart, tables, services, history
<1>7. CASE Done(w) \/ Stop(w)
  <2>1. PICK r \in {AfterDone(h), AfterStop(h)} : handler' = [handler EXCEPT ![w] = r]
    BY <1>7 DEF Done, Stop, Become, AfterDone, AfterStop
  <2>2. Sound(r)
    BY <1>2, <2>1, DoneSound, StopSound
  <2> QED
    BY <1>3, <1>4, <1>5, <1>6, <2>1, <2>2, TellStep
<1>8. CASE h.sub \in Subs /\ Goto(w, "startSub")
  <2> DEFINE r == [h EXCEPT !.pc = "startSub"]
  <2>1. handler' = [handler EXCEPT ![w] = r]
    BY <1>8 DEF Goto
  <2>2. Shaped(r) /\ r.pc = "startSub" /\ r.op = h.op /\ r.own = h.own
        /\ r.task = h.task /\ r.sub = h.sub
    BY <1>2, MovedShape DEF Steps
  <2>3. handler'[w] = r
    BY <2>1 DEF SchedulerInv
  <2> HIDE DEF r
  <2>4. ServesCommand(r)
    BY <1>1, <1>2, <2>2 DEF ServesCommand
  <2>5. Sound(handler[w])'
    <3>1. Parent(h.sub) = h.task /\ <<h.task, "Start">> \in told'
      BY <1>1, <1>2, <1>5, <1>8 DEF Justified
    <3> QED
      BY <1>6, <1>8, <2>2, <2>3, <2>4, <3>1 DEF Sound, Shaped, ServesCommand, Justified
  <2>6. Grows
    BY <1>5, <1>6 DEF Grows
  <2>7. TablesSound' /\ ReportsSound' /\ HistoriesSound' /\ AnswersJustified'
    BY <1>3, <1>4, <1>5, <1>6, <2>6, TablesKept, ReportsKept, TellJustified DEF SchedulerInv, HistoriesSound
  <2> QED
    BY <2>1, <2>5, <2>6, <2>7, Step
<1>9. h.sub \in Subs \cup {None, Busy}
  BY <1>2 DEF Shaped
<1> QED
  BY <1>7, <1>8, <1>9 DEF TellStart

\* The sub task is gone.
LEMMA MissingSubInv ==
  ASSUME SchedulerInv, NEW w \in Workers, MissingSub(w)
  PROVE  SchedulerInv'
BY QuietTables, StopStep DEF MissingSub, tables, services, history

\* What a handler that starts a sub task knows of it.
LEMMA StartSub ==
  ASSUME SchedulerInv, NEW w \in Workers, At(w, "startSub")
  PROVE  handler[w].pc \in Steps /\ handler[w].sub \in Subs
BY Serving DEF At, Steps, Justified

\* Starting a deployment or a use case.
LEMMA EnqueueSubInv ==
  ASSUME SchedulerInv, NEW w \in Workers, EnqueueSub(w)
  PROVE  SchedulerInv'
<1>1. handler[w].pc \in Steps /\ handler[w].sub \in Subs
  BY StartSub DEF EnqueueSub
<1>2. UNCHANGED <<told, inserted, asked, ended, failed, removed>> /\ Grows /\ ReportsSound'
  BY ReportsKept DEF EnqueueSub, Grows, SchedulerInv
<1>3. sub' = [sub EXCEPT ![handler[w].sub] = "Running"] /\ UNCHANGED <<task, inserted>>
  BY DEF EnqueueSub, WriteSub
<1>4. TablesSound'
  BY <1>1, <1>2, <1>3, SubWritten DEF SchedulerInv, Status
<1> QED
  BY <1>1, <1>2, <1>4, DoneStep DEF EnqueueSub

\* Continuing a use case.
LEMMA ContinueSubInv ==
  ASSUME SchedulerInv, NEW w \in Workers, ContinueSub(w)
  PROVE  SchedulerInv'
<1>1. handler[w].pc \in Steps /\ handler[w].sub \in Subs
  BY StartSub DEF ContinueSub
<1>2. UNCHANGED <<told, inserted, asked, ended, failed, removed>> /\ Grows /\ ReportsSound'
  BY ReportsKept DEF ContinueSub, Grows, SchedulerInv, services, history
<1>3. sub' = [sub EXCEPT ![handler[w].sub] = "Queuing"] /\ UNCHANGED <<task, inserted>>
  BY <1>2 DEF ContinueSub, WriteSub
<1>4. TablesSound'
  BY <1>1, <1>2, <1>3, SubWritten DEF SchedulerInv, Status
<1> QED
  BY <1>1, <1>2, <1>4, DoneStep DEF ContinueSub

\* A collection ends at once, with success or not.
LEMMA CollectSubInv ==
  ASSUME SchedulerInv, NEW w \in Workers, CollectSub(w)
  PROVE  SchedulerInv'
<1> DEFINE s == handler[w].sub
<1>1. handler[w].pc \in Steps /\ s \in Subs
  BY StartSub DEF CollectSub
<1>2. PICK v \in Verdicts, r \in {AfterDone(handler[w]), AfterStop(handler[w])} :
        /\ sub' = [sub EXCEPT ![s] = v]
        /\ reports' = [reports EXCEPT ![s][v] = @ + 1]
        /\ v = "Completed" => s \in ended'
        /\ v = "Failed" => s \in failed'
        /\ handler' = [handler EXCEPT ![w] = r]
        /\ ended \subseteq ended' /\ failed \subseteq failed'
        /\ ended' \subseteq Subs /\ failed' \subseteq Subs
  BY <1>1 DEF CollectSub, WriteSub, Done, Stop, Become, AfterDone, AfterStop, Verdicts,
              SchedulerInv, HistoriesSound
<1>3. Grows /\ told' = told /\ UNCHANGED <<task, inserted>>
  BY <1>2 DEF CollectSub, Grows
<1>4. TablesSound'
  BY <1>1, <1>2, <1>3, SubWritten DEF SchedulerInv, Status, Verdicts
<1>5. ReportsSound'
  BY <1>1, <1>2, <1>3, ReportMade DEF SchedulerInv
<1>6. HistoriesSound' /\ AnswersJustified'
  BY <1>2, <1>3, AnswersKept DEF SchedulerInv, HistoriesSound
<1>7. Sound(r)
  BY <1>1, <1>2, Serving, DoneSound, StopSound
<1>8. Sound(handler[w])'
  <2>1. handler'[w] = r
    BY <1>2 DEF SchedulerInv
  <2> QED
    BY <1>3, <1>7, <2>1, BecomesSound
<1> QED
  BY <1>2, <1>3, <1>4, <1>5, <1>6, <1>8, Step

\* A handler writes a row of tasks that exists and goes on.
LEMMA WriteTaskStep ==
  ASSUME SchedulerInv, NEW w \in Workers, handler[w].pc \in Steps,
         NEW t \in Tasks, task[t] # None, NEW x \in Status, WriteTask(t, x),
         NEW pc \in Steps, Goto(w, pc),
         ServesCommand([handler[w] EXCEPT !.pc = pc]), Justified([handler[w] EXCEPT !.pc = pc]),
         UNCHANGED <<sub, reports, told, inserted, asked, ended, failed, removed>>
  PROVE  SchedulerInv'
<1>1. Grows
  BY DEF Grows
<1>2. TablesSound' /\ ReportsSound'
  BY <1>1, TaskWritten, ReportsKept DEF WriteTask, SchedulerInv
<1> QED
  BY <1>2, GotoStep

\* A handler that finds no row, or returns an error, stops.
LEMMA GiveUpStep ==
  ASSUME SchedulerInv, NEW w \in Workers, Stop(w),
         UNCHANGED <<task, sub, reports, told, inserted, asked, ended, failed, removed>>
  PROVE  SchedulerInv'
BY QuietTables, StopStep

\* complete_sub_task: the row is written.
LEMMA CompleteInv ==
  ASSUME SchedulerInv, NEW w \in Workers, Complete(w)
  PROVE  SchedulerInv'
<1> DEFINE h == handler[w]
           s == h.sub
<1>1. h.pc = "complete"
  BY DEF Complete, At
<1>2. h.pc \in Steps /\ "judge" \in Steps
  BY <1>1 DEF Steps
<1>3. Shaped(h) /\ ServesCommand(h) /\ s \in ended /\ h.own \in Tasks
  BY <1>1, <1>2, Serving DEF Justified, ServesCommand
<1>4. CASE ~Present(s)
  BY <1>4, GiveUpStep DEF Complete, services, history
<1>5. CASE Present(s)
  <2>1. s \in Subs
    BY <1>3 DEF SchedulerInv, HistoriesSound
  <2>2. UNCHANGED <<told, inserted, asked, ended, failed, removed>> /\ UNCHANGED reports /\ Grows
    BY DEF Complete, services, history, Grows
  <2>3. sub' = [sub EXCEPT ![s] = "Completed"] /\ UNCHANGED <<task, inserted>>
    BY <1>5, <2>2 DEF Complete, WriteSub
  <2>4. TablesSound' /\ ReportsSound'
    BY <1>3, <2>1, <2>2, <2>3, SubWritten, ReportsKept DEF SchedulerInv, Status
  <2>5. ServesCommand([h EXCEPT !.pc = "judge"]) /\ Justified([h EXCEPT !.pc = "judge"])
    BY <1>3, PlainMove
  <2> QED
    BY <1>2, <1>5, <2>2, <2>4, <2>5, GotoStep DEF Complete
<1> QED
  BY <1>4, <1>5

\* complete_sub_task: a task whose rows are all completed has succeeded.
LEMMA JudgeInv ==
  ASSUME SchedulerInv, NEW w \in Workers, Judge(w)
  PROVE  SchedulerInv'
<1> DEFINE h == handler[w]
           t == h.own
<1>1. h.pc = "judge"
  BY DEF Judge, At
<1>2. h.pc \in Steps /\ "finish" \in Steps
  BY <1>1 DEF Steps
<1>3. Shaped(h) /\ ServesCommand(h) /\ t \in Tasks
  BY <1>1, <1>2, Serving DEF ServesCommand
<1>4. UNCHANGED <<task, sub, reports, told, inserted, asked, ended, failed, removed>>
  BY DEF Judge, tables, services, history
<1>5. TablesSound' /\ ReportsSound'
  BY <1>4, QuietTables
<1>6. CASE Stop(w)
  BY <1>4, <1>6, GiveUpStep
<1>7. CASE Schedule(w, t)
  BY <1>2, <1>3, <1>4, <1>5, <1>7, ScheduleStep
<1>8. CASE task[t] # None /\ AllCompleted(t) /\ Goto(w, "finish")
  <2>1. PICK m \in inserted : TaskOf[m] = t
    BY <1>3, <1>8 DEF SchedulerInv, TablesSound
  <2>2. m \in Starts /\ Delivered(m)
    <3>1. m \in Starts
      BY DEF SchedulerInv, HistoriesSound
    <3>2. ASSUME NEW s \in SubsOf(m) PROVE s \in ended \cup removed
      <4>1. s \in Subs /\ Parent(s) = t
        BY <2>1 DEF SubsOf, Parent
      <4>2. Present(s) \/ s \in removed
        BY DEF SchedulerInv, TablesSound
      <4>3. CASE Present(s)
        BY <1>8, <4>1, <4>3 DEF AllCompleted, BodyOf, SchedulerInv, TablesSound
      <4> QED
        BY <4>2, <4>3
    <3> QED
      BY <3>1, <3>2 DEF Delivered
  <2> DEFINE r == [h EXCEPT !.pc = "finish"]
  <2>3. r.pc = "finish" /\ r.op = h.op /\ r.own = t
    BY <1>2, <1>3, MovedShape
  <2> HIDE DEF r
  <2>4. ServesCommand(r) /\ Justified(r)
    BY <1>1, <1>3, <2>1, <2>2, <2>3 DEF ServesCommand, Justified
  <2> QED
    BY <1>2, <1>4, <1>5, <1>8, <2>4, GotoStep DEF r
<1> QED
  BY <1>6, <1>7, <1>8 DEF Judge

\* complete_sub_task: the task is written as completed.
LEMMA FinishInv ==
  ASSUME SchedulerInv, NEW w \in Workers, Finish(w)
  PROVE  SchedulerInv'
<1> DEFINE h == handler[w]
           r == [h EXCEPT !.pc = "tellSuccess"]
<1>1. h.pc = "finish"
  BY DEF Finish, At
<1>2. h.pc \in Steps /\ "tellSuccess" \in Steps
  BY <1>1 DEF Steps, Telling
<1>3. Shaped(h) /\ ServesCommand(h) /\ Justified(h)
  BY <1>2, Serving
<1>4. UNCHANGED <<sub, reports, told, inserted, asked, ended, failed, removed>>
  BY DEF Finish, services, history
<1>5. CASE task[h.own] = None
  BY <1>4, <1>5, GiveUpStep DEF Finish
<1>6. CASE task[h.own] # None
  <2>1. r.pc = "tellSuccess" /\ r.op = h.op /\ r.own = h.own
    BY <1>2, <1>3, MovedShape
  <2> HIDE DEF r
  <2>2. ServesCommand(r) /\ Justified(r)
    BY <1>1, <1>3, <2>1 DEF ServesCommand, Justified
  <2>3. h.own \in Tasks /\ "Completed" \in Status
    BY <1>1, <1>3 DEF ServesCommand, Status
  <2> QED
    BY <1>2, <1>4, <1>6, <2>2, <2>3, WriteTaskStep DEF Finish, r
<1> QED
  BY <1>5, <1>6

\* A handler tells a result and goes on with other tasks.
LEMMA TellNext ==
  ASSUME SchedulerInv, NEW w \in Workers, handler[w].pc \in DOMAIN Telling, Tell(w), Goto(w, "next"),
         UNCHANGED <<task, sub, reports, inserted, asked, ended, failed, removed>>
  PROVE  SchedulerInv'
<1> DEFINE r == [handler[w] EXCEPT !.pc = "next"]
<1>1. Sound(r)
  BY Serving, PlainMove DEF Steps
<1>2. handler' = [handler EXCEPT ![w] = r]
  BY DEF Goto
<1> HIDE DEF r
<1> QED
  BY <1>1, <1>2, TellStep DEF Tell

\* The success is told to co.
LEMMA TellSuccessInv ==
  ASSUME SchedulerInv, NEW w \in Workers, TellSuccess(w)
  PROVE  SchedulerInv'
<1>1. UNCHANGED <<task, sub, reports, inserted, asked, ended, failed, removed>>
  BY DEF TellSuccess, tables, services, history
<1>2. handler[w].pc \in DOMAIN Telling
  BY DEF TellSuccess, At, Telling
<1> QED
  BY <1>1, <1>2, GiveUpStep, TellNext DEF TellSuccess

\* fail_sub_task: the task is written as failed.
LEMMA FailInv ==
  ASSUME SchedulerInv, NEW w \in Workers, Fail(w)
  PROVE  SchedulerInv'
<1> DEFINE h == handler[w]
           r == [h EXCEPT !.pc = "tellFailed"]
<1>1. h.pc = "fail"
  BY DEF Fail, At
<1>2. h.pc \in Steps /\ "tellFailed" \in Steps
  BY <1>1 DEF Steps, Telling
<1>3. Shaped(h) /\ ServesCommand(h) /\ Justified(h)
  BY <1>2, Serving
<1>4. UNCHANGED <<sub, reports, told, inserted, asked, ended, failed, removed>>
  BY DEF Fail, services, history
<1>5. CASE ~Present(h.sub) \/ task[h.own] = None
  BY <1>4, <1>5, GiveUpStep DEF Fail
<1>6. CASE ~(~Present(h.sub) \/ task[h.own] = None)
  <2>1. r.pc = "tellFailed" /\ r.op = h.op /\ r.own = h.own
    BY <1>2, <1>3, MovedShape
  <2> HIDE DEF r
  <2>2. ServesCommand(r) /\ Justified(r)
    BY <1>1, <1>3, <2>1 DEF ServesCommand, Justified
  <2>3. h.own \in Tasks /\ "Failed" \in Status
    BY <1>1, <1>3 DEF ServesCommand, Status
  <2> QED
    BY <1>2, <1>4, <1>6, <2>2, <2>3, WriteTaskStep DEF Fail, r
<1> QED
  BY <1>5, <1>6

\* The failure is told to co.
LEMMA TellFailedInv ==
  ASSUME SchedulerInv, NEW w \in Workers, TellFailed(w)
  PROVE  SchedulerInv'
<1>1. UNCHANGED <<task, sub, reports, inserted, asked, ended, failed, removed>>
  BY DEF TellFailed, tables, services, history
<1>2. handler[w].pc \in DOMAIN Telling
  BY DEF TellFailed, At, Telling
<1> QED
  BY <1>1, <1>2, TellNext DEF TellFailed

\* A handler with another list of rows to go through.
LEMMA TodoSound ==
  ASSUME NEW h, Shaped(h), ServesCommand(h), h.pc \in {"pauseSubs", "removeSubs"}, NEW todo
  PROVE  Sound([h EXCEPT !.todo = todo])
<1> DEFINE r == [h EXCEPT !.todo = todo]
<1>1. Shaped(r)
  BY DEF Shaped
<1>2. r.pc = h.pc /\ r.op = h.op /\ r.own = h.own
  BY DEF Shaped
<1> HIDE DEF r
<1>3. ServesCommand(r) /\ Justified(r)
  BY <1>2 DEF ServesCommand, Justified
<1> QED
  BY <1>1, <1>3 DEF Sound, r

\* pause_task reads the task and its body.
LEMMA PauseInv ==
  ASSUME SchedulerInv, NEW w \in Workers, Pause(w)
  PROVE  SchedulerInv'
<1> DEFINE h == handler[w]
           r == [h EXCEPT !.pc = "pauseSubs", !.how = task[h.own], !.todo = BodyRows(h.own)]
<1>1. h.pc = "pause"
  BY DEF Pause, At
<1>2. h.pc \in Steps /\ "pauseSubs" \in Steps
  BY <1>1 DEF Steps
<1>3. Shaped(h) /\ ServesCommand(h) /\ h.own \in Tasks
  BY <1>1, <1>2, Serving DEF ServesCommand
<1>4. UNCHANGED <<task, sub, reports, told, inserted, asked, ended, failed, removed>>
  BY DEF Pause, tables, services, history
<1>5. CASE Stop(w)
  BY <1>4, <1>5, GiveUpStep
<1>6. CASE handler' = [handler EXCEPT ![w] = r]
  <2>1. task[h.own] \in Status \cup {None}
    BY <1>3 DEF SchedulerInv, TablesSound
  <2>2. Shaped(r) /\ r.pc = "pauseSubs" /\ r.op = h.op /\ r.own = h.own
    BY <1>2, <1>3, <2>1 DEF Shaped
  <2> HIDE DEF r
  <2>3. Sound(r)
    BY <1>3, <2>2 DEF Sound, ServesCommand, Justified
  <2> QED
    BY <1>4, <1>6, <2>3, QuietTables, LocalStep
<1> QED
  BY <1>5, <1>6 DEF Pause, Become

\* One sub task is paused.
LEMMA PauseSubInv ==
  ASSUME SchedulerInv, NEW w \in Workers, PauseSub(w)
  PROVE  SchedulerInv'
<1> DEFINE h == handler[w]
           s == FirstRow(h.todo)
<1>1. h.pc = "pauseSubs"
  BY DEF PauseSub, At
<1>2. Shaped(h) /\ ServesCommand(h)
  BY <1>1, Serving DEF Steps
<1>3. UNCHANGED <<task, reports, told, inserted, asked, ended, failed, removed>> /\ Grows
  BY DEF PauseSub, history, Grows
<1>4. ReportsSound'
  BY <1>3, ReportsKept DEF SchedulerInv
<1>5. CASE UNCHANGED sub /\ Stop(w)
  BY <1>3, <1>5, GiveUpStep
<1>6. CASE Become(w, [h EXCEPT !.todo = OtherRows(@)])
  <2> DEFINE r == [h EXCEPT !.todo = OtherRows(h.todo)]
  <2>1. Sound(r)
    BY <1>1, <1>2, TodoSound
  <2>2. handler' = [handler EXCEPT ![w] = r]
    BY <1>6 DEF Become
  <2>3. UNCHANGED sub \/ sub' = [sub EXCEPT ![s] = "Suspended"]
    BY DEF PauseSub, WriteSub
  <2>4. TablesSound'
    <3>1. CASE UNCHANGED sub
      BY <1>3, <3>1, TablesKept DEF SchedulerInv
    <3>2. CASE sub' = [sub EXCEPT ![s] = "Suspended"] /\ s \in Subs
      BY <1>3, <3>2, SubWritten DEF SchedulerInv, Status
    <3>3. CASE sub' = [sub EXCEPT ![s] = "Suspended"] /\ s \notin Subs
      <4>1. UNCHANGED sub
        BY <3>3 DEF SchedulerInv, TablesSound
      <4> QED
        BY <1>3, <4>1, TablesKept DEF SchedulerInv
    <3> QED
      BY <2>3, <3>1, <3>2, <3>3
  <2> HIDE DEF r
  <2> QED
    BY <1>3, <1>4, <2>1, <2>2, <2>4, LocalStep
<1> QED
  BY <1>5, <1>6 DEF PauseSub

\* The task is suspended.
LEMMA SuspendInv ==
  ASSUME SchedulerInv, NEW w \in Workers, Suspend(w)
  PROVE  SchedulerInv'
<1> DEFINE h == handler[w]
           pc == IF h.op = "pause" THEN "tellPaused" ELSE "next"
           r == [h EXCEPT !.pc = pc]
<1>1. h.pc = "pauseSubs"
  BY DEF Suspend, At
<1>2. h.pc \in Steps /\ pc \in Steps
  BY <1>1 DEF Steps, Telling
<1>3. Shaped(h) /\ ServesCommand(h) /\ h.own \in Tasks
  BY <1>1, <1>2, Serving DEF ServesCommand
<1>4. UNCHANGED <<sub, reports, told, inserted, asked, ended, failed, removed>>
  BY DEF Suspend, services, history
<1>5. CASE task[h.own] = None
  BY <1>4, <1>5, GiveUpStep DEF Suspend
<1>6. CASE task[h.own] # None
  <2>1. r.pc = pc /\ r.op = h.op /\ r.own = h.own
    BY <1>2, <1>3, MovedShape
  <2> HIDE DEF r
  <2>2. ServesCommand(r) /\ Justified(r)
    BY <1>1, <1>3, <2>1 DEF ServesCommand, Justified
  <2>3. "Suspended" \in Status
    BY DEF Status
  <2> QED
    BY <1>2, <1>3, <1>4, <1>6, <2>2, <2>3, WriteTaskStep DEF Suspend, r
<1> QED
  BY <1>5, <1>6

\* The pause is told to co.
LEMMA TellPausedInv ==
  ASSUME SchedulerInv, NEW w \in Workers, TellPaused(w)
  PROVE  SchedulerInv'
<1>1. UNCHANGED <<task, sub, reports, inserted, asked, ended, failed, removed>>
  BY DEF TellPaused, tables, services, history
<1>2. handler[w].pc \in DOMAIN Telling
  BY DEF TellPaused, At, Telling
<1>3. CASE Goto(w, "next")
  BY <1>1, <1>2, <1>3, TellNext DEF TellPaused
<1>4. CASE Become(w, Idle)
  BY <1>1, <1>2, <1>4, TellStep DEF TellPaused, Tell, Become, Sound
<1> QED
  BY <1>3, <1>4 DEF TellPaused

\* continue_task: the task is queuing.
LEMMA ResumeInv ==
  ASSUME SchedulerInv, NEW w \in Workers, Resume(w)
  PROVE  SchedulerInv'
<1> DEFINE h == handler[w]
           r == [h EXCEPT !.pc = "tellResumed"]
<1>1. h.pc = "resume"
  BY DEF Resume, At
<1>2. h.pc \in Steps /\ "tellResumed" \in Steps
  BY <1>1 DEF Steps, Telling
<1>3. Shaped(h) /\ ServesCommand(h) /\ h.own \in Tasks
  BY <1>1, <1>2, Serving DEF ServesCommand
<1>4. UNCHANGED <<sub, reports, told, inserted, asked, ended, failed, removed>>
  BY DEF Resume, services, history
<1>5. CASE task[h.own] = None
  BY <1>4, <1>5, GiveUpStep DEF Resume
<1>6. CASE task[h.own] # None
  <2>1. r.pc = "tellResumed" /\ r.op = h.op /\ r.own = h.own
    BY <1>2, <1>3, MovedShape
  <2> HIDE DEF r
  <2>2. ServesCommand(r) /\ Justified(r)
    BY <1>1, <1>3, <2>1 DEF ServesCommand, Justified
  <2>3. "Queuing" \in Status
    BY DEF Status
  <2> QED
    BY <1>2, <1>3, <1>4, <1>6, <2>2, <2>3, WriteTaskStep DEF Resume, r
<1> QED
  BY <1>5, <1>6

\* The continuation is told to co.
LEMMA TellResumedInv ==
  ASSUME SchedulerInv, NEW w \in Workers, TellResumed(w)
  PROVE  SchedulerInv'
<1> DEFINE h == handler[w]
<1>1. h.pc = "tellResumed"
  BY DEF TellResumed, At
<1>2. UNCHANGED <<task, sub, reports, inserted, asked, ended, failed, removed>>
  BY DEF TellResumed, tables, services, history
<1>3. h.pc \in DOMAIN Telling /\ h.pc \in Steps
  BY <1>1 DEF Telling, Steps
<1>4. Shaped(h) /\ ServesCommand(h) /\ h.own \in Tasks
  BY <1>1, <1>3, Serving DEF ServesCommand
<1>5. handler' = [handler EXCEPT ![w] = Looking(h, h.own)]
  BY DEF TellResumed, Schedule, Become, Looking
<1>6. Sound(Looking(h, h.own))
  BY <1>4, LookingSound
<1> QED
  BY <1>2, <1>3, <1>5, <1>6, TellStep DEF TellResumed, Tell

\* delete_task reads the task and its body.
LEMMA DeleteInv ==
  ASSUME SchedulerInv, NEW w \in Workers, Delete(w)
  PROVE  SchedulerInv'
<1> DEFINE h == handler[w]
           pc == IF task[h.own] = "Running" THEN "pauseSubs" ELSE "removeSubs"
           r == [h EXCEPT !.pc = pc, !.body = BodyRows(h.own), !.todo = BodyRows(h.own)]
<1>1. h.pc = "delete"
  BY DEF Delete, At
<1>2. h.pc \in Steps /\ pc \in Steps
  BY <1>1 DEF Steps
<1>3. Shaped(h) /\ ServesCommand(h) /\ h.own \in Tasks
  BY <1>1, <1>2, Serving DEF ServesCommand
<1>4. UNCHANGED <<task, sub, reports, told, inserted, asked, ended, failed, removed>>
  BY DEF Delete, tables, services, history
<1>5. CASE Stop(w)
  BY <1>4, <1>5, GiveUpStep
<1>6. CASE handler' = [handler EXCEPT ![w] = r]
  <2>1. Shaped(r) /\ r.pc = pc /\ r.op = h.op /\ r.own = h.own
    BY <1>2, <1>3 DEF Shaped
  <2> HIDE DEF r
  <2>2. Sound(r)
    BY <1>1, <1>3, <2>1 DEF Sound, ServesCommand, Justified
  <2> QED
    BY <1>4, <1>6, <2>2, QuietTables, LocalStep
<1> QED
  BY <1>5, <1>6 DEF Delete, Become

\* A row of sub_tasks is deleted, and the history says so.
LEMMA SubDeleted ==
  ASSUME TablesSound, Grows, NEW s, removed' = removed \cup {s},
         sub' = [sub EXCEPT ![s] = None], UNCHANGED <<task, inserted>>
  PROVE  TablesSound'
<1>1. (task \in [Tasks -> Status \cup {None}])' /\ (sub \in [Subs -> Status \cup {None}])'
  BY DEF TablesSound
<1>2. ASSUME NEW t \in Tasks, task'[t] # None PROVE \E m \in inserted' : TaskOf[m] = t
  BY <1>2 DEF TablesSound
<1>3. None # "Completed"
  BY SchedulerAssumption DEF Status
<1>4. ASSUME NEW r \in Subs, sub'[r] = "Completed" PROVE r \in ended'
  BY <1>3, <1>4 DEF TablesSound, Grows
<1>5. ASSUME NEW m \in inserted', NEW r \in SubsOf(m) PROVE sub'[r] # None \/ r \in removed'
  <2>1. r \in Subs
    BY DEF SubsOf
  <2> QED
    BY <2>1 DEF TablesSound, Present
<1> QED
  BY <1>1, <1>2, <1>4, <1>5 DEF TablesSound, Present

\* One sub task is deleted.
LEMMA RemoveSubInv ==
  ASSUME SchedulerInv, NEW w \in Workers, RemoveSub(w)
  PROVE  SchedulerInv'
<1> DEFINE h == handler[w]
           s == FirstRow(h.todo)
<1>1. h.pc = "removeSubs"
  BY DEF RemoveSub, At
<1>2. Shaped(h) /\ ServesCommand(h)
  BY <1>1, Serving DEF Steps
<1>3. UNCHANGED <<task, reports, told, inserted, asked, ended, failed>>
  BY DEF RemoveSub
<1>4. CASE UNCHANGED <<sub, removed>> /\ Stop(w)
  BY <1>3, <1>4, GiveUpStep
<1>5. CASE Become(w, [h EXCEPT !.todo = OtherRows(@)])
  <2> DEFINE r == [h EXCEPT !.todo = OtherRows(h.todo)]
  <2>1. Sound(r)
    BY <1>1, <1>2, TodoSound
  <2>2. handler' = [handler EXCEPT ![w] = r]
    BY <1>5 DEF Become
  <2>3. \/ UNCHANGED <<sub, removed>>
        \/ sub' = [sub EXCEPT ![s] = None] /\ removed' = removed \cup {s}
    BY DEF RemoveSub, DropSub
  <2>4. Grows
    BY <1>3, <2>3 DEF Grows
  <2>5. TablesSound'
    BY <1>3, <2>3, <2>4, TablesKept, SubDeleted DEF SchedulerInv
  <2>6. ReportsSound' /\ HistoriesSound' /\ AnswersJustified'
    BY <1>3, <2>4, ReportsKept, AnswersKept DEF SchedulerInv, HistoriesSound
  <2>7. handler'[w] = r
    BY <2>2 DEF SchedulerInv
  <2> HIDE DEF r
  <2>8. Sound(handler[w])'
    BY <2>1, <2>4, <2>7, BecomesSound
  <2> QED
    BY <2>2, <2>4, <2>5, <2>6, <2>8, Step
<1> QED
  BY <1>4, <1>5 DEF RemoveSub

\* The row of the task is deleted.
LEMMA RemoveTaskInv ==
  ASSUME SchedulerInv, NEW w \in Workers, RemoveTask(w)
  PROVE  SchedulerInv'
<1> DEFINE h == handler[w]
<1>1. h.pc = "removeSubs"
  BY DEF RemoveTask, At
<1>2. h.pc \in Steps
  BY <1>1 DEF Steps
<1>3. Shaped(h) /\ ServesCommand(h) /\ h.own \in Tasks
  BY <1>1, <1>2, Serving DEF ServesCommand
<1>4. UNCHANGED <<sub, reports, told, inserted, asked, ended, failed, removed>>
  BY DEF RemoveTask, services, history
<1>5. CASE task[h.own] = None
  BY <1>4, <1>5, GiveUpStep DEF RemoveTask
<1>6. CASE task[h.own] # None
  <2>1. Grows
    BY <1>4 DEF Grows
  <2>2. TablesSound' /\ ReportsSound'
    BY <1>3, <1>4, <1>6, <2>1, TaskWritten, ReportsKept DEF SchedulerInv, RemoveTask
  <2>3. CASE h.op = "tick"
    <3> DEFINE r == [Call("tick", "clean", None) EXCEPT !.victims = h.victims]
    <3>1. Shaped(r) /\ r.op = "tick" /\ r.pc = "clean"
      BY <1>3 DEF Shaped, Call, Commands, Steps
    <3>2. handler' = [handler EXCEPT ![w] = r]
      BY <1>6, <2>3 DEF RemoveTask, Become
    <3> HIDE DEF r
    <3>3. Sound(r)
      BY <3>1 DEF Sound, ServesCommand, Justified
    <3> QED
      BY <1>4, <2>2, <3>2, <3>3, LocalStep
  <2>4. CASE h.op # "tick"
    <3> DEFINE r == [h EXCEPT !.pc = "tellDeleted"]
    <3>1. "tellDeleted" \in Steps
      BY DEF Steps, Telling
    <3>2. r.pc = "tellDeleted" /\ r.op = h.op /\ r.own = h.own
      BY <1>3, <3>1, MovedShape
    <3> HIDE DEF r
    <3>3. ServesCommand(r) /\ Justified(r)
      BY <1>1, <1>3, <2>4, <3>2 DEF ServesCommand, Justified
    <3> QED
      BY <1>2, <1>4, <1>6, <2>2, <2>4, <3>1, <3>3, GotoStep DEF RemoveTask, r
  <2> QED
    BY <2>3, <2>4
<1> QED
  BY <1>5, <1>6

\* The deletion is told to co.
LEMMA TellDeletedInv ==
  ASSUME SchedulerInv, NEW w \in Workers, TellDeleted(w)
  PROVE  SchedulerInv'
<1>1. UNCHANGED <<task, sub, reports, inserted, asked, ended, failed, removed>>
  BY DEF TellDeleted, tables, services, history
<1>2. handler[w].pc \in DOMAIN Telling
  BY DEF TellDeleted, At, Telling
<1> QED
  BY <1>1, <1>2, TellStep DEF TellDeleted, Tell, Become, Sound

\* A tick cleans a task, or goes on to schedule.
LEMMA CleanInv ==
  ASSUME SchedulerInv, NEW w \in Workers, Clean(w)
  PROVE  SchedulerInv'
<1> DEFINE h == handler[w]
<1>1. h.pc \in Steps
  BY DEF Clean, At, Steps
<1>2. h.victims \in SUBSET Tasks
  BY <1>1, Serving DEF Shaped
<1>3. UNCHANGED <<task, sub, reports, told, inserted, asked, ended, failed, removed>>
  BY DEF Clean, tables, services, history
<1>4. CASE Become(w, Call("tick", "next", None))
  <2> DEFINE r == Call("tick", "next", None)
  <2>1. Shaped(r) /\ r.op = "tick" /\ r.pc = "next"
    BY CallShaped, CallFields DEF Commands, Steps
  <2>2. handler' = [handler EXCEPT ![w] = r]
    BY <1>4 DEF Become
  <2> HIDE DEF r
  <2>3. Sound(r)
    BY <2>1 DEF Sound, ServesCommand, Justified
  <2> QED
    BY <1>3, <2>2, <2>3, QuietTables, LocalStep
<1>5. ASSUME NEW t \in h.victims,
             Become(w, [Call("tick", "delete", t) EXCEPT !.victims = h.victims \ {t}])
      PROVE  SchedulerInv'
  <2> DEFINE r == [Call("tick", "delete", t) EXCEPT !.victims = h.victims \ {t}]
  <2>1. t \in Tasks
    BY <1>2
  <2>2. Shaped(r)
    BY <1>2, <2>1 DEF Shaped, Call, Commands, Steps
  <2>3. r.op = "tick" /\ r.pc = "delete" /\ r.own = t
    BY DEF Call
  <2>4. handler' = [handler EXCEPT ![w] = r]
    BY <1>5 DEF Become
  <2> HIDE DEF r
  <2>5. Sound(r)
    BY <2>1, <2>2, <2>3 DEF Sound, ServesCommand, Justified
  <2> QED
    BY <1>3, <2>4, <2>5, QuietTables, LocalStep
<1> QED
  BY <1>4, <1>5 DEF Clean

\* A report fails, and co may have received it.
LEMMA ReportFailsInv ==
  ASSUME SchedulerInv, NEW w \in Workers, ReportFails(w)
  PROVE  SchedulerInv'
<1>1. UNCHANGED <<task, sub, reports, inserted, asked, ended, failed, removed>>
  BY DEF ReportFails, tables, services, history
<1>2. CASE told' = told
  BY <1>1, <1>2, GiveUpStep DEF ReportFails
<1>3. CASE told' = told \cup {Telltale(w)}
  BY <1>1, <1>3, StopSound, TellStep DEF ReportFails, Stop, Become, AfterStop
<1> QED
  BY <1>2, <1>3 DEF ReportFails

\* A service fails; a use case may stay marked as running.
LEMMA ServiceFailsInv ==
  ASSUME SchedulerInv, NEW w \in Workers, ServiceFails(w)
  PROVE  SchedulerInv'
<1> DEFINE s == handler[w].sub
<1>1. UNCHANGED <<task, reports, told, inserted, asked, ended, failed, removed>> /\ Grows /\ Stop(w)
  BY DEF ServiceFails, services, history, Grows
<1>2. CASE UNCHANGED sub
  BY <1>1, <1>2, GiveUpStep
<1>3. CASE At(w, "startSub") /\ sub' = [sub EXCEPT ![s] = "Running"]
  <2>1. s \in Subs
    BY <1>3, StartSub
  <2>2. TablesSound' /\ ReportsSound'
    BY <1>1, <1>3, <2>1, SubWritten, ReportsKept DEF SchedulerInv, Status
  <2> QED
    BY <1>1, <2>2, StopStep
<1> QED
  BY <1>2, <1>3 DEF ServiceFails, WriteSub

\* The end of a job is seen.
LEMMA UploadingInv ==
  ASSUME SchedulerInv, NEW s \in Subs, Uploading(s),
         UNCHANGED <<task, reports, handler, told, inserted, asked, ended, failed, removed>>
  PROVE  SchedulerInv'
<1>1. Grows
  BY DEF Grows
<1>2. UNCHANGED sub \/ sub' = [sub EXCEPT ![s] = "Completing"]
  BY DEF Uploading, WriteSub
<1>3. TablesSound'
  BY <1>1, <1>2, TablesKept, SubWritten DEF SchedulerInv, Status
<1>4. ReportsSound' /\ HistoriesSound'
  BY <1>1, ReportsKept DEF SchedulerInv, HistoriesSound
<1> QED
  BY <1>1, <1>3, <1>4, ServiceStep

\* The outputs are uploaded.
LEMMA UploadSucceedsInv ==
  ASSUME SchedulerInv, NEW s \in Subs, UploadSucceeds(s)
  PROVE  SchedulerInv'
<1>1. /\ UNCHANGED <<task, sub, handler, told, inserted, asked, failed, removed>>
      /\ ended' = ended \cup {s}
      /\ reports' = [reports EXCEPT ![s]["Completed"] = @ + 1]
  BY DEF UploadSucceeds, tables
<1>2. Grows
  BY <1>1 DEF Grows
<1>3. TablesSound' /\ HistoriesSound'
  BY <1>1, <1>2, TablesKept DEF SchedulerInv, HistoriesSound
<1>4. ReportsSound'
  BY <1>1, <1>2, ReportMade DEF SchedulerInv, Verdicts
<1> QED
  BY <1>1, <1>2, <1>3, <1>4, ServiceStep

\* A sub task fails.
LEMMA FailingInv ==
  ASSUME SchedulerInv, NEW s \in Subs, Failing(s),
         UNCHANGED <<task, handler, told, inserted, asked, ended, removed>>
  PROVE  SchedulerInv'
<1>1. CASE UNCHANGED <<sub, reports, failed>>
  <2>1. Grows
    BY <1>1 DEF Grows
  <2> QED
    BY <1>1, <2>1, TablesKept, ReportsKept, ServiceStep DEF SchedulerInv, HistoriesSound
<1>2. CASE /\ sub' = [sub EXCEPT ![s] = "Failed"]
           /\ reports' = [reports EXCEPT ![s]["Failed"] = @ + 1]
           /\ failed' = failed \cup {s}
  <2>1. Grows
    BY <1>2 DEF Grows
  <2>2. TablesSound'
    BY <1>2, <2>1, SubWritten DEF SchedulerInv, Status
  <2>3. ReportsSound'
    BY <1>2, <2>1, ReportMade DEF SchedulerInv, Verdicts
  <2>4. HistoriesSound'
    BY <1>2 DEF SchedulerInv, HistoriesSound
  <2> QED
    BY <2>1, <2>2, <2>3, <2>4, ServiceStep
<1> QED
  BY <1>1, <1>2 DEF Failing, WriteSub

\* A deployment succeeds.
LEMMA DeploySucceedsInv ==
  ASSUME SchedulerInv, NEW s \in Subs, DeploySucceeds(s)
  PROVE  SchedulerInv'
<1>1. UNCHANGED <<task, handler, told, inserted, asked, failed, removed>>
  BY DEF DeploySucceeds
<1>2. CASE UNCHANGED <<sub, reports, ended>>
  <2>1. Grows
    BY <1>1, <1>2 DEF Grows
  <2> QED
    BY <1>1, <1>2, <2>1, TablesKept, ReportsKept, ServiceStep DEF SchedulerInv, HistoriesSound
<1>3. CASE /\ sub' = [sub EXCEPT ![s] = "Completed"]
           /\ reports' = [reports EXCEPT ![s]["Completed"] = @ + 1]
           /\ ended' = ended \cup {s}
  <2>1. Grows
    BY <1>1, <1>3 DEF Grows
  <2>2. TablesSound'
    BY <1>1, <1>3, <2>1, SubWritten DEF SchedulerInv, Status
  <2>3. ReportsSound'
    BY <1>3, <2>1, ReportMade DEF SchedulerInv, Verdicts
  <2>4. HistoriesSound'
    BY <1>1, <1>3 DEF SchedulerInv, HistoriesSound
  <2> QED
    BY <1>1, <2>1, <2>2, <2>3, <2>4, ServiceStep
<1> QED
  BY <1>2, <1>3 DEF DeploySucceeds, WriteSub

\* The agent is restarted.
LEMMA CrashInv ==
  ASSUME SchedulerInv, Crash
  PROVE  SchedulerInv'
<1>1. UNCHANGED <<task, sub, told, inserted, asked, ended, failed, removed>> /\ Grows
  BY DEF Crash, tables, history, Grows
<1>2. TablesSound' /\ HistoriesSound' /\ AnswersJustified'
  BY <1>1, TablesKept, AnswersKept DEF SchedulerInv, HistoriesSound
<1>3. ReportsSound'
  BY DEF Crash, ReportsSound, Verdicts
<1>4. handler' = [w \in Workers |-> Idle]
  BY DEF Crash
<1>5. ASSUME NEW w \in Workers PROVE Sound(handler[w])'
  <2>1. handler'[w] = Idle
    BY <1>4
  <2>2. Sound(Idle)
    BY DEF Sound
  <2> QED
    BY <1>1, <2>1, <2>2, BecomesSound
<1> QED
  BY <1>2, <1>3, <1>4, <1>5 DEF SchedulerInv

-----------------------------------------------------------------------------
(* The theorems.                                                           *)

\* Every step keeps SchedulerInv.
LEMMA NextInv == SchedulerInv /\ [Next]_vars => SchedulerInv'
<1> SUFFICES ASSUME SchedulerInv, [Next]_vars PROVE SchedulerInv'
  OBVIOUS
<1>1. ASSUME NEW w \in Workers, Handling(w) PROVE SchedulerInv'
  BY <1>1, InsertInv, NextTaskInv, LookInv, MarkInv, TellStartInv, MissingSubInv, EnqueueSubInv,
     ContinueSubInv, CollectSubInv, CompleteInv, JudgeInv, FinishInv, TellSuccessInv, FailInv,
     TellFailedInv, PauseInv, PauseSubInv, SuspendInv, TellPausedInv, ResumeInv, TellResumedInv,
     DeleteInv, RemoveSubInv, RemoveTaskInv, TellDeletedInv, CleanInv, ReportFailsInv
  DEF Handling
<1>2. ASSUME NEW s \in Subs, Ending(s) \/ JobSeenTwice(s) PROVE SchedulerInv'
  <2>1. CASE JobSucceeds(s)
    BY <2>1, UploadingInv DEF JobSucceeds, history
  <2>2. CASE JobSeenTwice(s)
    BY <2>2, UploadingInv DEF JobSeenTwice, history
  <2>3. CASE UploadFails(s)
    BY <2>3, FailingInv DEF UploadFails
  <2>4. CASE ExecutionFails(s)
    BY <2>4, FailingInv DEF ExecutionFails
  <2> QED
    BY <1>2, <2>1, <2>2, <2>3, <2>4, UploadSucceedsInv, DeploySucceedsInv DEF Ending
<1>3. CASE UNCHANGED vars
  <2>1. UNCHANGED <<task, sub, reports, handler, told, inserted, asked, ended, failed, removed>>
    BY <1>3 DEF vars, tables, services, history
  <2>2. TablesSound' /\ ReportsSound' /\ Grows
    BY <2>1, QuietTables
  <2> QED
    BY <2>1, <2>2, ServiceStep DEF SchedulerInv, HistoriesSound
<1> QED
  BY <1>1, <1>2, <1>3, ReceiveStartInv, ReceiveCommandInv, ReceiveReportInv, TickInv,
     ServiceFailsInv, CrashInv
  DEF Next

\* The invariant holds in every state.
THEOREM SchedulerInvariant == Spec => []SchedulerInv
<1> QED
  BY InitInv, NextInv, PTL DEF Spec

\* What an agent tells co is true: Success only when every sub task of a Start
\* has succeeded or was deleted, Failed only when one has failed, an answer only
\* to a command that was given (report_* of http_client.rs).
THEOREM AnswersTrue == Spec => []AnswersJustified
<1>1. SchedulerInv => AnswersJustified
  BY DEF SchedulerInv
<1> QED
  BY <1>1, SchedulerInvariant, PTL

\* Sub tasks are counted.
Counting == started \in [Subs -> Nat]

\* A step starts a sub task only where a handler is about to start it, and it has a row.
LEMMA StartsOne ==
  ASSUME [Next]_vars
  PROVE  \/ UNCHANGED started
         \/ \E w \in Workers :
              /\ At(w, "startSub") /\ Present(handler[w].sub)
              /\ started' = [started EXCEPT ![handler[w].sub] = @ + 1]
<1>1. ASSUME NEW w \in Workers, Handling(w)
      PROVE  \/ UNCHANGED started
             \/ /\ At(w, "startSub") /\ Present(handler[w].sub)
                /\ started' = [started EXCEPT ![handler[w].sub] = @ + 1]
  <2>1. CASE EnqueueSub(w) \/ CollectSub(w)
    BY <2>1 DEF EnqueueSub, CollectSub
  <2>2. CASE Insert(w) \/ NextTask(w) \/ Look(w) \/ Mark(w) \/ TellStart(w) \/ MissingSub(w) \/ ContinueSub(w)
    BY <2>2 DEF Insert, NextTask, Look, Mark, TellStart, MissingSub, ContinueSub, history
  <2>3. CASE Complete(w) \/ Judge(w) \/ Finish(w) \/ TellSuccess(w) \/ Fail(w) \/ TellFailed(w)
    BY <2>3 DEF Complete, Judge, Finish, TellSuccess, Fail, TellFailed, history
  <2>4. CASE \/ Pause(w) \/ PauseSub(w) \/ Suspend(w) \/ TellPaused(w) \/ Resume(w) \/ TellResumed(w)
             \/ Delete(w) \/ RemoveSub(w) \/ RemoveTask(w) \/ TellDeleted(w) \/ Clean(w) \/ ReportFails(w)
    BY <2>4 DEF Pause, PauseSub, Suspend, TellPaused, Resume, TellResumed, Delete, RemoveSub,
                RemoveTask, TellDeleted, Clean, ReportFails, history
  <2> QED
    BY <1>1, <2>1, <2>2, <2>3, <2>4 DEF Handling
<1>2. ASSUME NEW w \in Workers,
             \/ \E m \in Starts : ReceiveStart(w, m)
             \/ \E t \in Tasks, c \in Operations : ReceiveCommand(w, t, c)
             \/ \E s \in Subs, v \in Verdicts : ReceiveReport(w, s, v)
             \/ Tick(w) \/ ServiceFails(w)
      PROVE  UNCHANGED started
  BY <1>2 DEF ReceiveStart, ReceiveCommand, ReceiveReport, Tick, ServiceFails, history
<1>3. ASSUME NEW s \in Subs, Ending(s) \/ JobSeenTwice(s) PROVE UNCHANGED started
  BY <1>3 DEF Ending, JobSucceeds, JobSeenTwice, UploadSucceeds, UploadFails, DeploySucceeds,
              ExecutionFails, history
<1>4. CASE Crash
  BY <1>4 DEF Crash, history
<1>5. CASE UNCHANGED vars
  BY <1>5 DEF vars, history
<1> QED
  BY <1>1, <1>2, <1>3, <1>4, <1>5 DEF Next

\* A handler that starts a sub task has told co the start of its task.
LEMMA StartKnownStep ==
  ASSUME SchedulerInv, Counting, [Next]_vars
  PROVE  /\ Counting'
         /\ \A s \in Subs : started'[s] > started[s] => <<Parent(s), "Start">> \in told
<1>1. CASE UNCHANGED started
  BY <1>1 DEF Counting
<1>2. ASSUME NEW w \in Workers, At(w, "startSub"),
             started' = [started EXCEPT ![handler[w].sub] = @ + 1]
      PROVE  /\ Counting'
             /\ \A s \in Subs : started'[s] > started[s] => <<Parent(s), "Start">> \in told
  <2>1. handler[w].sub \in Subs /\ <<Parent(handler[w].sub), "Start">> \in told
    BY <1>2, Serving DEF At, Steps, Justified
  <2>2. Counting'
    BY <1>2, <2>1 DEF Counting
  <2>3. ASSUME NEW s \in Subs, s # handler[w].sub PROVE started'[s] = started[s] /\ started[s] \in Nat
    BY <1>2, <2>3 DEF Counting
  <2> QED
    BY <2>1, <2>2, <2>3
<1> QED
  BY <1>1, <1>2, StartsOne

\* A sub task is started only after co has been told the start of its task: the
\* report is awaited, and its failure ends the handler (schedule_next_task_by_id).
THEOREM StartsKnown == Spec => StartKnown
<1>1. Init => Counting
  BY DEF Init, Counting
<1>2. SchedulerInv /\ Counting /\ [Next]_vars => Counting'
  BY StartKnownStep
<1>3. SchedulerInv /\ Counting /\ [Next]_vars =>
        [\A s \in Subs : started'[s] > started[s] => <<Parent(s), "Start">> \in told]_vars
  BY StartKnownStep
<1> QED
  BY <1>1, <1>2, <1>3, SchedulerInvariant, PTL DEF Spec, StartKnown
-----------------------------------------------------------------------------
(* The order of rows.                                                      *)

\* r comes before s in the sequence q.
Precedes(q, r, s) == \E i, j \in DOMAIN q : i < j /\ q[i] = r /\ q[j] = s

\* A set of naturals has a least element.
LEMMA LeastNumber ==
  ASSUME NEW S \in SUBSET Nat, S # {}
  PROVE  Min(S) \in S
<1>1. PICK x \in S : \A y \in S : <<y, x>> \notin OpToRel(<, Nat)
  BY NatLessThanWellFounded, WFMin
<1>2. ASSUME NEW y \in S PROVE x <= y
  <2>1. ~(y < x)
    BY <1>1 DEF OpToRel
  <2> QED
    BY <2>1
<1> QED
  BY <1>2 DEF Min

\* Taking the first s out of a sequence of rows keeps the order of the others.
LEMMA RemovedInOrder ==
  ASSUME NEW q \in Seq(Subs), NEW s
  PROVE  /\ RemoveFirst(q, s) \in Seq(Subs)
         /\ \A a, b : a # s /\ b # s /\ Precedes(q, a, b) => Precedes(RemoveFirst(q, s), a, b)
<1>1. CASE ~ \E i \in 1 .. Len(q) : q[i] = s
  BY <1>1 DEF RemoveFirst
<1>2. CASE \E i \in 1 .. Len(q) : q[i] = s
  <2> DEFINE I == {i \in 1 .. Len(q) : q[i] = s}
             k == Min(I)
             p == SubSeq(q, 1, k - 1) \o SubSeq(q, k + 1, Len(q))
             place(i) == IF i < k THEN i ELSE i - 1
  <2>1. k \in 1 .. Len(q) /\ q[k] = s
    <3>1. I \in SUBSET Nat /\ I # {}
      BY <1>2
    <3>2. k \in I
      BY <3>1, LeastNumber
    <3> QED
      BY <3>2
  <2>2. RemoveFirst(q, s) = p
    BY <1>2 DEF RemoveFirst, RemoveAt, SelectInSeq
  <2> HIDE DEF k
  <2> DEFINE front == SubSeq(q, 1, k - 1)
             back == SubSeq(q, k + 1, Len(q))
  <2>3. /\ front \in Seq(Subs) /\ Len(front) = k - 1
        /\ \A i \in 1 .. k - 1 : front[i] = q[i]
    <3>1. \A i \in 1 .. k - 1 : q[i] \in Subs
      BY <2>1
    <3>2. \A i \in 1 .. (k - 1) - 1 + 1 : front[i] = q[1 + i - 1]
      BY <2>1, <3>1, SubSeqProperties
    <3>3. front \in Seq(Subs) /\ Len(front) = k - 1
      BY <2>1, <3>1, SubSeqProperties
    <3> HIDE DEF front
    <3> QED
      BY <2>1, <3>2, <3>3
  <2>4. /\ back \in Seq(Subs) /\ Len(back) = Len(q) - k
        /\ \A i \in 1 .. Len(q) - k : back[i] = q[k + i]
    <3>1. \A i \in k + 1 .. Len(q) : q[i] \in Subs
      BY <2>1
    <3>2. \A i \in 1 .. Len(q) - (k + 1) + 1 : back[i] = q[k + 1 + i - 1]
      BY <2>1, <3>1, SubSeqProperties
    <3>3. back \in Seq(Subs) /\ Len(back) = Len(q) - k
      BY <2>1, <3>1, SubSeqProperties
    <3> HIDE DEF back
    <3> QED
      BY <2>1, <3>2, <3>3
  <2> HIDE DEF front, back
  <2>5. p = front \o back
    BY DEF front, back
  <2> HIDE DEF p
  <2>6. /\ p \in Seq(Subs) /\ Len(p) = Len(front) + Len(back)
        /\ \A i \in 1 .. Len(front) + Len(back) : p[i] = IF i <= Len(front) THEN front[i] ELSE back[i - Len(front)]
    BY <2>3, <2>4, <2>5, ConcatProperties
  <2>7. p \in Seq(Subs) /\ Len(p) = Len(q) - 1
    BY <2>1, <2>3, <2>4, <2>6
  <2>8. \A i \in 1 .. Len(q) - 1 : p[i] = IF i <= k - 1 THEN front[i] ELSE back[i - (k - 1)]
    BY <2>1, <2>7, <2>3, <2>4, <2>6
  <2>9. ASSUME NEW i \in 1 .. Len(q), i # k
        PROVE  place(i) \in 1 .. Len(p) /\ p[place(i)] = q[i]
    <3>1. CASE i < k
      <4>1. i \in 1 .. Len(q) - 1 /\ i \in 1 .. Len(p) /\ i \in 1 .. k - 1 /\ i <= k - 1
        BY <2>1, <2>7, <3>1
      <4>2. p[i] = front[i] /\ front[i] = q[i] /\ place(i) = i
        BY <2>3, <2>8, <3>1, <4>1
      <4> QED
        BY <4>1, <4>2
    <3>2. CASE i > k
      <4>1. i - 1 \in 1 .. Len(p) /\ ~(i - 1 <= k - 1) /\ i - 1 - (k - 1) = i - k /\ i - k \in 1 .. Len(q) - k
        BY <2>1, <2>7, <3>2
      <4>2. back[i - k] = q[i]
        <5>1. back[i - k] = q[k + (i - k)]
          BY <2>4, <4>1
        <5>2. k + (i - k) = i
          BY <2>1
        <5> QED
          BY <5>1, <5>2
      <4>3. place(i) = i - 1
        BY <2>1, <3>2
      <4> HIDE DEF place
      <4>4. p[i - 1] = back[i - 1 - (k - 1)]
        BY <2>7, <2>8, <4>1
      <4> QED
        BY <4>1, <4>2, <4>3, <4>4
    <3> QED
      BY <2>1, <2>9, <3>1, <3>2
  <2>10. ASSUME NEW a, NEW b, a # s, b # s, Precedes(q, a, b) PROVE Precedes(p, a, b)
    <3>1. PICK i \in 1 .. Len(q), j \in 1 .. Len(q) : i < j /\ q[i] = a /\ q[j] = b
      BY <2>10 DEF Precedes
    <3>2. i # k /\ j # k
      BY <2>1, <2>10, <3>1
    <3>3. place(i) \in DOMAIN p /\ p[place(i)] = a /\ place(j) \in DOMAIN p /\ p[place(j)] = b
      BY <2>7, <2>9, <3>1, <3>2
    <3>4. place(i) < place(j)
      BY <2>1, <3>1, <3>2
    <3> HIDE DEF place
    <3> QED
      BY <3>3, <3>4 DEF Precedes
  <2> QED
    BY <2>2, <2>7, <2>10
<1> QED
  BY <1>1, <1>2

\* A row that is written or deleted changes the order of no others.
LEMMA RowsInOrder ==
  ASSUME rows \in Seq(Subs), NEW s \in Subs, NEW x,
         WriteSub(s, x) \/ DropSub(s)
  PROVE  /\ rows' \in Seq(Subs)
         /\ \A a, b : a # s /\ b # s /\ Before(a, b) => Before(a, b)'
<1> DEFINE p == RemoveFirst(rows, s)
<1>1. p \in Seq(Subs) /\ \A a, b : a # s /\ b # s /\ Precedes(rows, a, b) => Precedes(p, a, b)
  BY RemovedInOrder
<1>2. rows' = p \/ rows' = Append(p, s)
  BY DEF WriteSub, DropSub
<1> HIDE DEF p
<1>3. rows' \in Seq(Subs)
  BY <1>1, <1>2
<1>4. ASSUME NEW a, NEW b, Precedes(p, a, b) PROVE Precedes(rows', a, b)
  BY <1>1, <1>2, <1>4 DEF Precedes
<1> QED
  BY <1>1, <1>3, <1>4 DEF Before, Precedes

\* Rows that are added at the end leave the others in order, and come in order.
LEMMA RowsAdded ==
  ASSUME rows \in Seq(Subs), NEW q \in Seq(Subs), rows' = rows \o q
  PROVE  /\ rows' \in Seq(Subs)
         /\ \A a, b : Before(a, b) => Before(a, b)'
         /\ \A i, j \in DOMAIN q : i < j => Before(q[i], q[j])'
<1>1. rows' \in Seq(Subs) /\ Len(rows') = Len(rows) + Len(q)
  OBVIOUS
<1>2. \A i \in DOMAIN rows : i \in DOMAIN rows' /\ rows'[i] = rows[i]
  OBVIOUS
<1>3. ASSUME NEW i \in DOMAIN q PROVE Len(rows) + i \in DOMAIN rows' /\ rows'[Len(rows) + i] = q[i]
  BY <1>3
<1>4. ASSUME NEW a, NEW b, Before(a, b) PROVE Before(a, b)'
  BY <1>2, <1>4 DEF Before
<1>5. ASSUME NEW i \in DOMAIN q, NEW j \in DOMAIN q, i < j PROVE Before(q[i], q[j])'
  <2>1. Len(rows) + i < Len(rows) + j
    BY <1>5
  <2> QED
    BY <1>3, <2>1 DEF Before
<1> QED
  BY <1>1, <1>4, <1>5


\* The parts of a message are its sub tasks.
LEMMA Parts ==
  /\ \A m \in Starts : \A i \in DOMAIN Body[m] :
       Body[m][i] \in Subs /\ StartOf[Body[m][i]] = m /\ Parent(Body[m][i]) = TaskOf[m]
  /\ \A s \in Subs : StartOf[s] \in Starts /\ Parent(s) \in Tasks
                     /\ \E i \in DOMAIN Body[StartOf[s]] : Body[StartOf[s]][i] = s
<1>1. ASSUME NEW m \in Starts, NEW i \in DOMAIN Body[m]
      PROVE  Body[m][i] \in Subs /\ StartOf[Body[m][i]] = m /\ Parent(Body[m][i]) = TaskOf[m]
  <2>1. Body[m][i] \in ToSet(Body[m])
    BY <1>1 DEF ToSet
  <2>2. Body[m][i] \in SubsOf(m)
    BY <2>1, TaskAssumption
  <2> QED
    BY <2>2 DEF SubsOf, Parent
<1>2. ASSUME NEW s \in Subs
      PROVE  StartOf[s] \in Starts /\ Parent(s) \in Tasks
             /\ \E i \in DOMAIN Body[StartOf[s]] : Body[StartOf[s]][i] = s
  <2>1. StartOf[s] \in Starts
    BY TaskAssumption
  <2>2. Parent(s) \in Tasks
    BY <2>1, TaskAssumption DEF Parent
  <2>3. s \in SubsOf(StartOf[s])
    BY DEF SubsOf
  <2>4. s \in ToSet(Body[StartOf[s]])
    BY <2>1, <2>3, TaskAssumption
  <2> QED
    BY <2>1, <2>2, <2>4 DEF ToSet
<1> QED
  BY <1>1, <1>2

-----------------------------------------------------------------------------
(* What comes of a start.                                                  *)

\* Starts, executions, uploads and disturbances are counted.
Counts ==
  /\ started \in [Subs -> Nat]
  /\ running \in [Subs -> Nat]
  /\ uploading \in [Subs -> Nat]
  /\ used \in [ops : Nat, ticks : Nat, seen : Nat, errors : Nat, crashes : Nat]

\* The ends that s has come to.
Ends(s) == (IF s \in ended THEN 1 ELSE 0) + (IF s \in failed THEN 1 ELSE 0)

\* Of each start one thing comes: an execution, an upload, or one end.
Balanced == \A s \in Subs : running[s] + uploading[s] + Ends(s) <= started[s]

\* Unless two ticks see the end of one job, starts account for all that goes on.
StartsAccount == used.seen = 0 => Balanced

\* A step that counts one sub task rightly, and touches no other.
LEMMA OneCounted ==
  ASSUME Counts, Counts', Balanced, NEW s \in Subs,
         \A r \in Subs \ {s} :
           /\ running'[r] <= running[r] /\ uploading'[r] <= uploading[r] /\ started'[r] >= started[r]
           /\ (r \in ended' <=> r \in ended) /\ (r \in failed' <=> r \in failed),
         running'[s] + uploading'[s] + Ends(s)' <= started'[s]
  PROVE  Balanced'
<1> SUFFICES ASSUME NEW r \in Subs PROVE (running[r] + uploading[r] + Ends(r) <= started[r])'
  BY DEF Balanced
<1>1. CASE r # s
  <2>1. Ends(r)' = Ends(r) /\ Ends(r) \in Nat
    BY <1>1 DEF Ends
  <2>2. running'[r] <= running[r] /\ uploading'[r] <= uploading[r] /\ started'[r] >= started[r]
    BY <1>1
  <2>3. running[r] + uploading[r] + Ends(r) <= started[r]
    BY DEF Balanced
  <2>4. {running[r], uploading[r], started[r], running'[r], uploading'[r], started'[r]} \subseteq Nat
    BY DEF Counts
  <2> QED
    BY <2>1, <2>2, <2>3, <2>4
<1> QED
  BY <1>1

\* A step by which nothing more is under way.
LEMMA FewerCounted ==
  ASSUME Counts, Counts', Balanced, UNCHANGED <<ended, failed>>,
         \A r \in Subs : running'[r] <= running[r] /\ uploading'[r] <= uploading[r] /\ started'[r] >= started[r]
  PROVE  Balanced'
<1> SUFFICES ASSUME NEW r \in Subs PROVE (running[r] + uploading[r] + Ends(r) <= started[r])'
  BY DEF Balanced
<1>1. Ends(r)' = Ends(r) /\ Ends(r) \in Nat
  BY DEF Ends
<1>2. running[r] + uploading[r] + Ends(r) <= started[r]
  BY DEF Balanced
<1>3. {running[r], uploading[r], started[r], running'[r], uploading'[r], started'[r]} \subseteq Nat
  BY DEF Counts
<1> QED
  BY <1>1, <1>2, <1>3

\* All of that is counted, whatever happens.
LEMMA CountsStep ==
  ASSUME SchedulerInv, Counts, [Next]_vars
  PROVE  Counts'
<1>1. started' \in [Subs -> Nat]
  BY StartKnownStep DEF Counting, Counts
<1>2. ASSUME NEW w \in Workers, Handling(w) PROVE Counts'
  <2>1. CASE EnqueueSub(w)
    <3>1. handler[w].sub \in Subs
      BY <2>1, Serving DEF EnqueueSub, At, Steps, Justified
    <3> QED
      BY <1>1, <2>1, <3>1 DEF EnqueueSub, Counts
  <2>2. CASE PauseSub(w) \/ RemoveSub(w)
    <3>1. PICK s : UNCHANGED running \/ \E n \in 0 .. running[s] : running' = [running EXCEPT ![s] = n]
      BY <2>2 DEF PauseSub, RemoveSub
    <3>2. running' \in [Subs -> Nat]
      <4>1. CASE UNCHANGED running
        BY <4>1 DEF Counts
      <4>2. CASE s \in Subs /\ \E n \in 0 .. running[s] : running' = [running EXCEPT ![s] = n]
        BY <4>2 DEF Counts
      <4>3. CASE s \notin Subs /\ \E n \in 0 .. running[s] : running' = [running EXCEPT ![s] = n]
        BY <4>3 DEF Counts
      <4> QED
        BY <3>1, <4>1, <4>2, <4>3
    <3> QED
      BY <1>1, <2>2, <3>2 DEF PauseSub, RemoveSub, Counts
  <2>3. CASE ReportFails(w)
    BY <1>1, <2>3 DEF ReportFails, Counts, services
  <2>4. CASE \/ Insert(w) \/ NextTask(w) \/ Look(w) \/ Mark(w) \/ TellStart(w) \/ MissingSub(w)
             \/ ContinueSub(w) \/ CollectSub(w) \/ Complete(w) \/ Judge(w) \/ Finish(w) \/ TellSuccess(w)
    BY <1>1, <2>4 DEF Insert, NextTask, Look, Mark, TellStart, MissingSub, ContinueSub, CollectSub, Complete,
                      Judge, Finish, TellSuccess, Counts, services
  <2>5. CASE \/ Fail(w) \/ TellFailed(w) \/ Pause(w) \/ Suspend(w) \/ TellPaused(w) \/ Resume(w)
             \/ TellResumed(w) \/ Delete(w) \/ RemoveTask(w) \/ TellDeleted(w) \/ Clean(w)
    BY <1>1, <2>5 DEF Fail, TellFailed, Pause, Suspend, TellPaused, Resume, TellResumed, Delete, RemoveTask,
                      TellDeleted, Clean, Counts, services
  <2> QED
    BY <1>2, <2>1, <2>2, <2>3, <2>4, <2>5 DEF Handling
<1>3. ASSUME NEW w \in Workers,
             \/ \E m \in Starts : ReceiveStart(w, m)
             \/ \E t \in Tasks, c \in Operations : ReceiveCommand(w, t, c)
             \/ \E s \in Subs, v \in Verdicts : ReceiveReport(w, s, v)
             \/ Tick(w) \/ ServiceFails(w)
      PROVE  Counts'
  <2>1. UNCHANGED <<running, uploading>>
    BY <1>3 DEF ReceiveStart, ReceiveCommand, ReceiveReport, Tick, ServiceFails, services
  <2>2. CASE (\E m \in Starts : ReceiveStart(w, m)) \/ \E s \in Subs, v \in Verdicts : ReceiveReport(w, s, v)
    BY <1>1, <2>1, <2>2 DEF ReceiveStart, ReceiveReport, Counts
  <2>3. CASE \E t \in Tasks, c \in Operations : ReceiveCommand(w, t, c)
    BY <1>1, <2>1, <2>3 DEF ReceiveCommand, Counts
  <2>4. CASE Tick(w)
    BY <1>1, <2>1, <2>4 DEF Tick, Counts
  <2>5. CASE ServiceFails(w)
    BY <1>1, <2>1, <2>5 DEF ServiceFails, Counts
  <2> QED
    BY <1>3, <2>2, <2>3, <2>4, <2>5
<1>4. ASSUME NEW s \in Subs, Ending(s) PROVE Counts'
  BY <1>1, <1>4 DEF Ending, JobSucceeds, Uploading, UploadSucceeds, UploadFails, DeploySucceeds,
                    ExecutionFails, Counts
<1>7. ASSUME NEW s \in Subs, JobSeenTwice(s) PROVE Counts'
  <2>1. used' = [used EXCEPT !.ticks = @ + 2, !.seen = @ + 1] /\ UNCHANGED running
    BY <1>7 DEF JobSeenTwice
  <2>2. uploading' = uploading \/ uploading' = [uploading EXCEPT ![s] = @ + 1]
    BY <1>7 DEF JobSeenTwice, Uploading
  <2>3. uploading' \in [Subs -> Nat]
    BY <2>2 DEF Counts
  <2>4. used' \in [ops : Nat, ticks : Nat, seen : Nat, errors : Nat, crashes : Nat]
    <3> DEFINE u == [used EXCEPT !.ticks = @ + 2]
    <3>1. u \in [ops : Nat, ticks : Nat, seen : Nat, errors : Nat, crashes : Nat]
      BY DEF Counts
    <3>2. used' = [u EXCEPT !.seen = @ + 1]
      BY <2>1 DEF Counts
    <3> HIDE DEF u
    <3> QED
      BY <3>1, <3>2
  <2> QED
    BY <1>1, <2>1, <2>3, <2>4 DEF Counts
<1>5. CASE Crash
  <2>1. PICK kept \in SUBSET {s \in Subs : Kind[s] = "usecase"} :
          running' = [s \in Subs |-> IF s \in kept THEN running[s] ELSE 0]
    BY <1>5 DEF Crash
  <2> QED
    BY <1>1, <1>5, <2>1 DEF Crash, Counts
<1>6. CASE UNCHANGED vars
  BY <1>1, <1>6 DEF vars, services, Counts
<1> QED
  BY <1>2, <1>3, <1>4, <1>5, <1>6, <1>7 DEF Next

\* Disturbances are only counted up; without a job seen twice and without operations
\* there was none before.
LEMMA UsedGrows ==
  ASSUME Counts, [Next]_vars
  PROVE  /\ used'.seen = 0 => used.seen = 0 /\ \A s \in Subs : ~JobSeenTwice(s)
         /\ used'.ops = 0 => used.ops = 0 /\ UNCHANGED asked
<1> USE DEF Counts
<1>1. ASSUME NEW w \in Workers, Handling(w) PROVE used'.ops = used.ops /\ used'.seen = used.seen /\ UNCHANGED asked
  <2>1. CASE ReportFails(w)
    BY <2>1 DEF ReportFails, history
  <2>2. CASE ~ReportFails(w)
    BY <1>1, <2>2 DEF Handling, Insert, NextTask, Look, Mark, TellStart, MissingSub, EnqueueSub, ContinueSub,
                CollectSub, Complete, Judge, Finish, TellSuccess, Fail, TellFailed, Pause, PauseSub, history,
                Suspend, TellPaused, Resume, TellResumed, Delete, RemoveSub, RemoveTask, TellDeleted, Clean
  <2> QED
    BY <2>1, <2>2
<1>2. ASSUME NEW w \in Workers,
             \/ \E m \in Starts : ReceiveStart(w, m)
             \/ \E s \in Subs, v \in Verdicts : ReceiveReport(w, s, v)
             \/ Tick(w) \/ ServiceFails(w)
      PROVE  used'.ops = used.ops /\ used'.seen = used.seen /\ UNCHANGED asked
  BY <1>2 DEF ReceiveStart, ReceiveReport, Tick, ServiceFails, history
<1>3. ASSUME NEW w \in Workers, NEW t \in Tasks, NEW c \in Operations, ReceiveCommand(w, t, c)
      PROVE  used'.ops = used.ops + 1 /\ used'.seen = used.seen
  BY <1>3 DEF ReceiveCommand
<1>4. ASSUME NEW s \in Subs, Ending(s) PROVE UNCHANGED <<used, asked>>
  BY <1>4 DEF Ending, JobSucceeds, UploadSucceeds, UploadFails, DeploySucceeds, ExecutionFails, history
<1>5. ASSUME NEW s \in Subs, JobSeenTwice(s) PROVE used'.ops = used.ops /\ used'.seen = used.seen + 1 /\ UNCHANGED asked
  BY <1>5 DEF JobSeenTwice, history
<1>6. ASSUME Crash \/ UNCHANGED vars PROVE used'.ops = used.ops /\ used'.seen = used.seen /\ UNCHANGED asked
  BY <1>6 DEF Crash, vars, history
<1>7. used.ops \in Nat /\ used.seen \in Nat
  OBVIOUS
<1>8. CASE /\ used'.ops = used.ops /\ used'.seen = used.seen /\ UNCHANGED asked
           /\ \A s \in Subs : ~JobSeenTwice(s)
  BY <1>8
<1>9. CASE \E s \in Subs : JobSeenTwice(s)
  BY <1>5, <1>7, <1>9
<1>10. CASE \E w \in Workers, t \in Tasks, c \in Operations : ReceiveCommand(w, t, c)
  <2>1. \A s \in Subs : used'.seen = 0 => ~JobSeenTwice(s)
    BY <1>5, <1>7
  <2> QED
    BY <1>3, <1>7, <1>10, <2>1
<1> QED
  BY <1>1, <1>2, <1>4, <1>6, <1>8, <1>9, <1>10 DEF Next

\* Starts account for what goes on after every step.
LEMMA BalancedStep ==
  ASSUME SchedulerInv, Counts, StartsAccount, [Next]_vars
  PROVE  StartsAccount'
<1> SUFFICES ASSUME used'.seen = 0 PROVE Balanced'
  BY DEF StartsAccount
<1>1. Counts' /\ Balanced /\ \A s \in Subs : ~JobSeenTwice(s)
  BY CountsStep, UsedGrows DEF StartsAccount
<1>2. ASSUME NEW s \in Subs
      PROVE  {running[s], uploading[s], started[s]} \subseteq Nat /\ running[s] + uploading[s] + Ends(s) <= started[s]
  BY <1>1 DEF Counts, Balanced
<1>3. CASE UNCHANGED <<running, uploading, started, ended, failed>>
  BY <1>1, <1>3 DEF Balanced, Ends
<1>4. ASSUME NEW w \in Workers, EnqueueSub(w) \/ CollectSub(w) PROVE Balanced'
  <2>1. PICK s \in Subs : handler[w].sub = s
    BY <1>4, Serving DEF EnqueueSub, CollectSub, At, Steps, Justified
  <2>2. \A r \in Subs \ {s} :
           /\ running'[r] <= running[r] /\ uploading'[r] <= uploading[r] /\ started'[r] >= started[r]
           /\ (r \in ended' <=> r \in ended) /\ (r \in failed' <=> r \in failed)
    BY <1>2, <1>4, <2>1 DEF EnqueueSub, CollectSub, Counts
  <2>3. CASE EnqueueSub(w)
    <3>1. running'[s] = running[s] + 1 /\ uploading'[s] = uploading[s] /\ started'[s] = started[s] + 1
      BY <2>1, <2>3 DEF EnqueueSub, Counts
    <3>2. Ends(s)' = Ends(s) /\ Ends(s) \in Nat
      BY <2>3 DEF EnqueueSub, Ends
    <3> QED
      BY <1>1, <1>2, <2>1, <2>2, <3>1, <3>2, OneCounted
  <2>4. CASE CollectSub(w)
    <3>1. running'[s] = running[s] /\ uploading'[s] = uploading[s] /\ started'[s] = started[s] + 1
      BY <2>1, <2>4 DEF CollectSub, Counts
    <3>2. Ends(s)' <= Ends(s) + 1 /\ Ends(s) \in Nat /\ Ends(s)' \in Nat
      BY <2>4 DEF CollectSub, Ends
    <3> QED
      BY <1>1, <1>2, <2>1, <2>2, <3>1, <3>2, OneCounted
  <2> QED
    BY <1>4, <2>3, <2>4
<1>5. ASSUME NEW w \in Workers, PauseSub(w) \/ RemoveSub(w) PROVE Balanced'
  <2>1. PICK s : UNCHANGED running \/ \E n \in 0 .. running[s] : running' = [running EXCEPT ![s] = n]
    BY <1>5 DEF PauseSub, RemoveSub
  <2>2. ASSUME NEW r \in Subs PROVE running'[r] <= running[r]
    BY <1>2, <2>1 DEF Counts
  <2>3. UNCHANGED <<uploading, started, ended, failed>>
    BY <1>5 DEF PauseSub, RemoveSub, history
  <2>4. \A r \in Subs : running'[r] <= running[r] /\ uploading'[r] <= uploading[r] /\ started'[r] >= started[r]
    BY <1>2, <2>2, <2>3
  <2> QED
    BY <1>1, <2>3, <2>4, FewerCounted
<1>6. ASSUME NEW w \in Workers, Handling(w), ~(EnqueueSub(w) \/ CollectSub(w)), ~(PauseSub(w) \/ RemoveSub(w))
      PROVE  UNCHANGED <<running, uploading, started, ended, failed>>
  <2>1. CASE \/ Insert(w) \/ NextTask(w) \/ Look(w) \/ Mark(w) \/ TellStart(w) \/ MissingSub(w)
             \/ ContinueSub(w) \/ Complete(w) \/ Judge(w) \/ Finish(w) \/ TellSuccess(w)
    BY <2>1 DEF Insert, NextTask, Look, Mark, TellStart, MissingSub, ContinueSub, Complete,
                Judge, Finish, TellSuccess, services, history
  <2>2. CASE \/ Fail(w) \/ TellFailed(w) \/ Pause(w) \/ Suspend(w) \/ TellPaused(w) \/ Resume(w) \/ ReportFails(w)
             \/ TellResumed(w) \/ Delete(w) \/ RemoveTask(w) \/ TellDeleted(w) \/ Clean(w)
    BY <2>2 DEF Fail, TellFailed, Pause, Suspend, TellPaused, Resume, TellResumed, Delete, RemoveTask,
                TellDeleted, Clean, ReportFails, services, history
  <2> QED
    BY <1>6, <2>1, <2>2 DEF Handling
<1>7. ASSUME NEW w \in Workers,
             \/ \E m \in Starts : ReceiveStart(w, m)
             \/ \E t \in Tasks, c \in Operations : ReceiveCommand(w, t, c)
             \/ \E s \in Subs, v \in Verdicts : ReceiveReport(w, s, v)
             \/ Tick(w) \/ ServiceFails(w)
      PROVE  UNCHANGED <<running, uploading, started, ended, failed>>
  BY <1>7 DEF ReceiveStart, ReceiveCommand, ReceiveReport, Tick, ServiceFails, services, history
<1>8. ASSUME NEW s \in Subs, Ending(s) PROVE Balanced'
  <2>1. \A r \in Subs \ {s} :
           /\ running'[r] <= running[r] /\ uploading'[r] <= uploading[r] /\ started'[r] >= started[r]
           /\ (r \in ended' <=> r \in ended) /\ (r \in failed' <=> r \in failed)
    <3>1. CASE JobSucceeds(s)
      BY <1>2, <3>1 DEF JobSucceeds, Uploading, Counts, history
    <3>2. CASE UploadSucceeds(s)
      BY <1>2, <3>2 DEF UploadSucceeds, Counts
    <3>3. CASE UploadFails(s) \/ ExecutionFails(s)
      BY <1>2, <3>3 DEF UploadFails, ExecutionFails, Failing, Counts
    <3>4. CASE DeploySucceeds(s)
      BY <1>2, <3>4 DEF DeploySucceeds, Counts
    <3> QED
      BY <1>8, <3>1, <3>2, <3>3, <3>4 DEF Ending
  <2>2. Ends(s) \in Nat /\ Ends(s)' \in Nat /\ started'[s] = started[s]
    BY <1>8 DEF Ending, JobSucceeds, UploadSucceeds, UploadFails, DeploySucceeds, ExecutionFails, Ends, history
  <2>3. running'[s] + uploading'[s] + Ends(s)' <= running[s] + uploading[s] + Ends(s)
    <3>1. CASE JobSucceeds(s)
      <4>1. running'[s] = running[s] - 1 /\ uploading'[s] \in {uploading[s], uploading[s] + 1}
        BY <3>1 DEF JobSucceeds, Uploading, Counts
      <4>2. Ends(s)' = Ends(s)
        BY <3>1 DEF JobSucceeds, Ends, history
      <4> QED
        BY <1>2, <2>2, <4>1, <4>2
    <3>2. CASE UploadSucceeds(s) \/ UploadFails(s)
      <4>1. running'[s] = running[s] /\ uploading'[s] = uploading[s] - 1
        BY <3>2 DEF UploadSucceeds, UploadFails, Counts
      <4>2. Ends(s)' <= Ends(s) + 1
        BY <3>2 DEF UploadSucceeds, UploadFails, Failing, Ends
      <4> QED
        BY <1>2, <2>2, <4>1, <4>2
    <3>3. CASE DeploySucceeds(s) \/ ExecutionFails(s)
      <4>1. running'[s] = running[s] - 1 /\ uploading'[s] = uploading[s]
        BY <3>3 DEF DeploySucceeds, ExecutionFails, Counts
      <4>2. Ends(s)' <= Ends(s) + 1
        BY <3>3 DEF DeploySucceeds, ExecutionFails, Failing, Ends
      <4> QED
        BY <1>2, <2>2, <4>1, <4>2
    <3> QED
      BY <1>8, <3>1, <3>2, <3>3 DEF Ending
  <2>4. running'[s] \in Nat /\ uploading'[s] \in Nat
    BY <1>1 DEF Counts
  <2>5. running'[s] + uploading'[s] + Ends(s)' <= started'[s]
    BY <1>2, <2>2, <2>3, <2>4
  <2> QED
    BY <1>1, <2>1, <2>5, OneCounted
<1>9. CASE Crash
  <2>1. PICK kept \in SUBSET {s \in Subs : Kind[s] = "usecase"} :
          running' = [s \in Subs |-> IF s \in kept THEN running[s] ELSE 0]
    BY <1>9 DEF Crash
  <2>2. uploading' = [s \in Subs |-> 0] /\ UNCHANGED <<started, ended, failed>>
    BY <1>9 DEF Crash, history
  <2>3. \A r \in Subs : running'[r] <= running[r] /\ uploading'[r] <= uploading[r] /\ started'[r] >= started[r]
    BY <1>2, <2>1, <2>2
  <2> QED
    BY <1>1, <2>2, <2>3, FewerCounted
<1>10. CASE UNCHANGED vars
  BY <1>3, <1>10 DEF vars, services, history
<1> QED
  BY <1>1, <1>3, <1>4, <1>5, <1>6, <1>7, <1>8, <1>9, <1>10 DEF Next

\* Co is told both that a task has succeeded and that it has failed only if a sub task
\* that failed was deleted or started more than once, for any handlers, commands,
\* errors and restarts; the end of one job that is seen twice is excepted
\* (complete_sub_task, fail_sub_task).
THEOREM OneVerdictAlways == Spec => []OneVerdict
<1>1. Init => Counts /\ StartsAccount
  BY DEF Init, Counts, StartsAccount, Balanced, Ends
<1>2. SchedulerInv /\ Counts /\ StartsAccount /\ [Next]_vars => Counts' /\ StartsAccount'
  BY CountsStep, BalancedStep
<1>3. SchedulerInv /\ Counts /\ StartsAccount => OneVerdict
  <2> SUFFICES ASSUME SchedulerInv, Counts, Balanced, NEW m \in Starts, Alone(m),
                      <<TaskOf[m], "Success">> \in told, <<TaskOf[m], "Failed">> \in told
               PROVE  \E s \in SubsOf(m) \cap failed : started[s] > 1 \/ s \in removed
    BY DEF OneVerdict, StartsAccount
  <2>1. TaskOf[m] \in Tasks
    BY TaskAssumption
  <2>2. PICK k \in Starts : TaskOf[k] = TaskOf[m] /\ SubsOf(k) \subseteq ended \cup removed
    BY <2>1 DEF SchedulerInv, AnswersJustified, Delivered
  <2>3. PICK s \in failed : Parent(s) = TaskOf[m]
    BY <2>1 DEF SchedulerInv, AnswersJustified
  <2>4. s \in Subs
    BY DEF SchedulerInv, HistoriesSound
  <2>5. k = m /\ StartOf[s] = m
    BY <2>2, <2>3, <2>4, Parts DEF Alone, Parent
  <2>6. s \in SubsOf(m) /\ s \in ended \cup removed
    BY <2>2, <2>4, <2>5 DEF SubsOf
  <2>7. ASSUME s \in ended PROVE started[s] > 1
    <3>1. Ends(s) = 2
      BY <2>7, <2>3 DEF Ends
    <3>2. running[s] \in Nat /\ uploading[s] \in Nat /\ started[s] \in Nat
      BY <2>4 DEF Counts
    <3> QED
      BY <2>4, <3>1, <3>2 DEF Balanced
  <2> QED
    BY <2>3, <2>6, <2>7
<1> QED
  BY <1>1, <1>2, <1>3, SchedulerInvariant, PTL DEF Spec
-----------------------------------------------------------------------------
(* The rows, and the handlers that work on them.                           *)

\* Rows that were read are of sub tasks of task t, at places of a vector.
RowsOf(q, t) == DOMAIN q \subseteq Nat /\ \A i \in DOMAIN q : q[i] \in Subs /\ Parent(q[i]) = t

\* The rows that a handler has read are of the task it works on.
Listed(h) == h = Idle \/ (RowsOf(h.todo, h.own) /\ RowsOf(h.body, h.own))

\* Rows come by insertion, say "Failed" of what has failed, and stay away when deleted.
RowsTrue ==
  /\ rows \in Seq(Subs)
  /\ removed \subseteq Subs
  /\ \A s \in Subs :
       /\ sub[s] = "Failed" => s \in failed
       /\ s \in removed => sub[s] = None
       /\ Present(s) \/ s \in removed => StartOf[s] \in inserted

\* A message is inserted once.
Fresh ==
  /\ inserted \subseteq received
  /\ \A w \in Workers : At(w, "insert") =>
       /\ handler[w].msg \in received \ inserted
       /\ \A v \in Workers : At(v, "insert") /\ handler[v].msg = handler[w].msg => v = w

BookInv == RowsTrue /\ Fresh /\ \A w \in Workers : Listed(handler[w])

\* Handler r goes on with what h was at.
GoesOn(h, r) ==
  /\ r.pc \notin {"insert", "pause"}
  /\ r.victims \subseteq h.victims
  /\ r.own \in {None} \cup h.victims \/ (r.own = h.own /\ r.op = h.op)
  /\ r.pc \in {"mark", "tellStart", "startSub"} =>
       h.pc \in {"mark", "tellStart"} /\ r.sub = h.sub /\ r.how = h.how
  /\ r.pc = "pauseSubs" => h.pc \in {"pause", "pauseSubs", "delete"} /\ r.own = h.own /\ r.op = h.op

\* Handler w goes on, with rows of its task, or ends.
Proceeds(w) ==
  /\ handler[w] # Idle
  /\ \E r : /\ handler' = [handler EXCEPT ![w] = r]
            /\ r = Idle \/ (Listed(r) /\ GoesOn(handler[w], r))

LEMMA EmptyRows == \A t : RowsOf(<<>>, t)
BY DEF RowsOf

\* A call has read no rows yet.
LEMMA CallListed ==
  ASSUME NEW op, NEW pc, NEW own
  PROVE  Listed(Call(op, pc, own))
BY DEF Listed, RowsOf, Call

\* The rows of a task, and all of them but the first.
LEMMA RowsListed ==
  /\ rows \in Seq(Subs) => \A t : RowsOf(BodyRows(t), t)
  /\ \A q, t : RowsOf(q, t) => RowsOf(OtherRows(q), t)
  /\ \A q, t : RowsOf(q, t) /\ DOMAIN q # {} => FirstRow(q) \in Subs /\ Parent(FirstRow(q)) = t
<1>1. ASSUME rows \in Seq(Subs), NEW t PROVE RowsOf(BodyRows(t), t)
  BY <1>1 DEF RowsOf, BodyRows, Restrict
<1>2. ASSUME NEW q, NEW t, RowsOf(q, t) PROVE RowsOf(OtherRows(q), t)
  BY <1>2 DEF RowsOf, OtherRows, Restrict
<1>3. ASSUME NEW q, NEW t, RowsOf(q, t), DOMAIN q # {} PROVE FirstRow(q) \in Subs /\ Parent(FirstRow(q)) = t
  BY <1>3, LeastNumber DEF RowsOf, FirstRow
<1> QED
  BY <1>1, <1>2, <1>3

\* A handler that stops proceeds.
LEMMA StopProceeds ==
  ASSUME SchedulerInv, NEW w \in Workers, handler[w].pc \in Steps, Stop(w)
  PROVE  Proceeds(w)
<1>1. handler' = [handler EXCEPT ![w] = AfterStop(handler[w])]
  BY DEF Stop, Become, AfterStop
<1>2. ASSUME handler[w].op = "tick" PROVE GoesOn(handler[w], Call("tick", "next", None))
  BY <1>2 DEF GoesOn, Call
<1>3. Listed(Call("tick", "next", None)) /\ handler[w] # Idle
  BY CallListed DEF Idle, Steps, Telling
<1> QED
  BY <1>1, <1>2, <1>3 DEF Proceeds, AfterStop

\* So does one whose call returns.
LEMMA DoneProceeds ==
  ASSUME SchedulerInv, NEW w \in Workers, Listed(handler[w]), handler[w].pc \in Steps, Done(w)
  PROVE  Proceeds(w)
<1> DEFINE h == handler[w]
           r == AfterDone(h)
<1>1. handler' = [handler EXCEPT ![w] = r]
  BY DEF Done, Become, AfterDone
<1>2. Shaped(h) /\ h # Idle
  BY Serving DEF Idle, Steps, Telling
<1>3. ASSUME Deleting(h) PROVE Listed(r) /\ GoesOn(h, r)
  <2>1. r.op = h.op /\ r.own = h.own /\ r.victims = h.victims /\ r.pc = "removeSubs" /\ r.body = h.body /\ r.todo = h.body
    BY <1>2, <1>3 DEF AfterDone, Shaped
  <2> HIDE DEF r
  <2> QED
    BY <1>2, <2>1 DEF Listed, GoesOn
<1> QED
  BY <1>1, <1>2, <1>3 DEF Proceeds, AfterDone

\* And one that goes to another step, all else staying.
LEMMA GotoProceeds ==
  ASSUME SchedulerInv, NEW w \in Workers, Listed(handler[w]), handler[w].pc \in Steps,
         NEW pc \in Steps \ {"insert", "pause", "pauseSubs"}, Goto(w, pc),
         pc \in {"mark", "tellStart", "startSub"} => handler[w].pc \in {"mark", "tellStart"}
  PROVE  Proceeds(w)
<1> DEFINE h == handler[w]
           r == [h EXCEPT !.pc = pc]
<1>1. handler' = [handler EXCEPT ![w] = r]
  BY DEF Goto
<1>2. Shaped(h) /\ h # Idle
  BY Serving DEF Idle, Steps, Telling
<1>3. r.op = h.op /\ r.own = h.own /\ r.victims = h.victims /\ r.pc = pc /\ r.body = h.body /\ r.todo = h.todo
      /\ r.sub = h.sub /\ r.how = h.how
  BY <1>2 DEF Shaped
<1> HIDE DEF r
<1>4. Listed(r) /\ GoesOn(h, r)
  BY <1>2, <1>3 DEF Listed, GoesOn
<1> QED
  BY <1>1, <1>2, <1>4 DEF Proceeds

\* And one that schedules a task.
LEMMA ScheduleProceeds ==
  ASSUME SchedulerInv, NEW w \in Workers, Listed(handler[w]), handler[w].pc \in Steps, NEW t, Schedule(w, t)
  PROVE  Proceeds(w)
<1> DEFINE h == handler[w]
           r == Looking(h, t)
<1>1. handler' = [handler EXCEPT ![w] = r]
  BY DEF Schedule, Become, Looking
<1>2. Shaped(h) /\ h # Idle
  BY Serving DEF Idle, Steps, Telling
<1>3. r.op = h.op /\ r.own = h.own /\ r.victims = h.victims /\ r.pc = "look" /\ r.body = h.body /\ r.todo = h.todo
  BY <1>2 DEF Shaped, Looking
<1> HIDE DEF r
<1>4. Listed(r) /\ GoesOn(h, r)
  BY <1>2, <1>3 DEF Listed, GoesOn
<1> QED
  BY <1>1, <1>2, <1>4 DEF Proceeds

\* Every step of a handler but the choice of a sub task proceeds.
LEMMA HandlingProceeds ==
  ASSUME SchedulerInv, BookInv, NEW w \in Workers, Handling(w), ~Look(w)
  PROVE  Proceeds(w)
<1> DEFINE h == handler[w]
<1>1. h.pc \in Steps /\ Shaped(h) /\ h # Idle /\ Listed(h)
  <2>1. h.pc \in Steps
    BY DEF Handling, At, Steps, Telling, Insert, NextTask, Look, Mark, TellStart, MissingSub, EnqueueSub, ContinueSub,
           CollectSub, Complete, Judge, Finish, TellSuccess, Fail, TellFailed, Pause, PauseSub,
           Suspend, TellPaused, Resume, TellResumed, Delete, RemoveSub, RemoveTask, TellDeleted, Clean, ReportFails
  <2> QED
    BY <2>1, Serving DEF Idle, Steps, Telling, BookInv
<1>2. CASE Stop(w)
  BY <1>1, <1>2, StopProceeds
<1>3. CASE Done(w)
  BY <1>1, <1>3, DoneProceeds
<1>4. CASE Become(w, Idle)
  BY <1>1, <1>4 DEF Become, Proceeds
<1>5. CASE Insert(w)
  <2> DEFINE r == [Call("start", "look", None) EXCEPT !.task = TaskOf[h.msg]]
  <2>1. handler' = [handler EXCEPT ![w] = r]
    BY <1>5 DEF Insert, Become
  <2>2. r.own = None /\ r.victims = {} /\ r.pc = "look" /\ r.body = <<>> /\ r.todo = <<>>
    BY DEF Call
  <2> HIDE DEF r
  <2> QED
    BY <1>1, <2>1, <2>2, EmptyRows DEF Proceeds, Listed, GoesOn
<1>6. ASSUME NEW pc \in Steps \ {"insert", "pause", "pauseSubs", "mark", "startSub"}, Goto(w, pc), pc = "tellStart" => h.pc = "mark"
      PROVE  Proceeds(w)
  BY <1>1, <1>6, GotoProceeds
<1>7. ASSUME NEW t, Schedule(w, t) PROVE Proceeds(w)
  BY <1>1, <1>7, ScheduleProceeds
<1>8. CASE NextTask(w) \/ MissingSub(w) \/ EnqueueSub(w) \/ ContinueSub(w) \/ CollectSub(w) \/ TellDeleted(w) \/ ReportFails(w)
  BY <1>2, <1>3, <1>4, <1>7, <1>8 DEF NextTask, MissingSub, EnqueueSub, ContinueSub, CollectSub, TellDeleted, ReportFails
<1>9. CASE Mark(w)
  BY <1>2, <1>6, <1>9 DEF Mark, At, Steps, Telling
<1>10. CASE TellStart(w)
  <2>1. ASSUME Goto(w, "startSub") PROVE Proceeds(w)
    BY <1>1, <1>10, <2>1, GotoProceeds DEF TellStart, At, Steps
  <2>2. h.sub \in Subs \cup {None, Busy}
    BY <1>1 DEF Shaped
  <2>3. Done(w) \/ Stop(w) \/ Goto(w, "startSub")
    BY <1>10, <2>2 DEF TellStart
  <2> QED
    BY <1>2, <1>3, <2>1, <2>3
<1>11. CASE Complete(w) \/ Judge(w) \/ Finish(w) \/ TellSuccess(w) \/ Fail(w) \/ TellFailed(w)
  BY <1>2, <1>6, <1>7, <1>11 DEF Complete, Judge, Finish, TellSuccess, Fail, TellFailed, Steps, Telling
<1>12. CASE Suspend(w) \/ TellPaused(w) \/ Resume(w) \/ TellResumed(w)
  BY <1>2, <1>4, <1>6, <1>7, <1>12 DEF Suspend, TellPaused, Resume, TellResumed, Steps, Telling
<1>13. ASSUME NEW r, handler' = [handler EXCEPT ![w] = r],
              r.op = h.op, r.own = h.own, r.victims = h.victims, RowsOf(r.todo, h.own), RowsOf(r.body, h.own),
              r.pc \notin {"insert", "pause", "mark", "tellStart", "startSub"},
              r.pc = "pauseSubs" => h.pc \in {"pause", "pauseSubs", "delete"}
       PROVE  Proceeds(w)
  BY <1>1, <1>13 DEF Proceeds, Listed, GoesOn
<1>14. RowsOf(h.todo, h.own) /\ RowsOf(h.body, h.own) /\ RowsOf(BodyRows(h.own), h.own) /\ RowsOf(OtherRows(h.todo), h.own)
  BY <1>1, RowsListed DEF Listed, BookInv, RowsTrue
<1>15. CASE Pause(w)
  <2>1. ASSUME Become(w, [h EXCEPT !.pc = "pauseSubs", !.how = task[h.own], !.todo = BodyRows(h.own)]) PROVE Proceeds(w)
    <3> DEFINE r == [h EXCEPT !.pc = "pauseSubs", !.how = task[h.own], !.todo = BodyRows(h.own)]
    <3>1. handler' = [handler EXCEPT ![w] = r]
      BY <2>1 DEF Become
    <3>2. r.op = h.op /\ r.own = h.own /\ r.victims = h.victims /\ r.pc = "pauseSubs"
          /\ r.todo = BodyRows(h.own) /\ r.body = h.body
      BY <1>1 DEF Shaped
    <3> HIDE DEF r
    <3> QED
      BY <1>13, <1>14, <1>15, <3>1, <3>2 DEF Pause, At
  <2> QED
    BY <1>2, <1>15, <2>1 DEF Pause
<1>16. CASE PauseSub(w) \/ RemoveSub(w)
  <2>1. ASSUME Become(w, [h EXCEPT !.todo = OtherRows(@)]) PROVE Proceeds(w)
    <3> DEFINE r == [h EXCEPT !.todo = OtherRows(@)]
    <3>1. handler' = [handler EXCEPT ![w] = r]
      BY <2>1 DEF Become
    <3>2. r.op = h.op /\ r.own = h.own /\ r.victims = h.victims /\ r.pc = h.pc
          /\ r.todo = OtherRows(h.todo) /\ r.body = h.body
      BY <1>1 DEF Shaped
    <3>3. h.pc \in {"pauseSubs", "removeSubs"}
      BY <1>16 DEF PauseSub, RemoveSub, At
    <3> HIDE DEF r
    <3> QED
      BY <1>13, <1>14, <3>1, <3>2, <3>3
  <2> QED
    BY <1>2, <1>16, <2>1 DEF PauseSub, RemoveSub
<1>17. CASE Delete(w)
  <2>1. ASSUME NEW pc \in {"pauseSubs", "removeSubs"},
               Become(w, [h EXCEPT !.pc = pc, !.body = BodyRows(h.own), !.todo = BodyRows(h.own)])
        PROVE  Proceeds(w)
    <3> DEFINE r == [h EXCEPT !.pc = pc, !.body = BodyRows(h.own), !.todo = BodyRows(h.own)]
    <3>1. handler' = [handler EXCEPT ![w] = r]
      BY <2>1 DEF Become
    <3>2. r.op = h.op /\ r.own = h.own /\ r.victims = h.victims /\ r.pc = pc
          /\ r.todo = BodyRows(h.own) /\ r.body = BodyRows(h.own)
      BY <1>1 DEF Shaped
    <3> HIDE DEF r
    <3> QED
      BY <1>13, <1>14, <1>17, <2>1, <3>1, <3>2 DEF Delete, At
  <2> QED
    BY <1>2, <1>17, <2>1 DEF Delete
<1>18. CASE RemoveTask(w)
  <2>1. ASSUME Become(w, [Call("tick", "clean", None) EXCEPT !.victims = h.victims]) PROVE Proceeds(w)
    <3> DEFINE r == [Call("tick", "clean", None) EXCEPT !.victims = h.victims]
    <3>1. handler' = [handler EXCEPT ![w] = r]
      BY <2>1 DEF Become
    <3>2. r.own = None /\ r.victims = h.victims /\ r.pc = "clean" /\ r.body = <<>> /\ r.todo = <<>>
      BY DEF Call
    <3> HIDE DEF r
    <3> QED
      BY <1>1, <3>1, <3>2, EmptyRows DEF Proceeds, Listed, GoesOn
  <2> QED
    BY <1>2, <1>6, <1>18, <2>1 DEF RemoveTask, Steps, Telling
<1>19. CASE Clean(w)
  <2>1. CASE Become(w, Call("tick", "next", None))
    <3> DEFINE r == Call("tick", "next", None)
    <3>1. handler' = [handler EXCEPT ![w] = r]
      BY <2>1 DEF Become
    <3>2. r.own = None /\ r.victims = {} /\ r.pc = "next" /\ r.body = <<>> /\ r.todo = <<>>
      BY DEF Call
    <3> HIDE DEF r
    <3> QED
      BY <1>1, <3>1, <3>2, EmptyRows DEF Proceeds, Listed, GoesOn
  <2>2. ASSUME NEW t \in h.victims,
               Become(w, [Call("tick", "delete", t) EXCEPT !.victims = h.victims \ {t}])
        PROVE  Proceeds(w)
    <3> DEFINE r == [Call("tick", "delete", t) EXCEPT !.victims = h.victims \ {t}]
    <3>1. handler' = [handler EXCEPT ![w] = r]
      BY <2>2 DEF Become
    <3>2. r.own = t /\ r.victims = h.victims \ {t} /\ r.pc = "delete" /\ r.body = <<>> /\ r.todo = <<>>
      BY DEF Call
    <3> HIDE DEF r
    <3> QED
      BY <1>1, <2>2, <3>1, <3>2, EmptyRows DEF Proceeds, Listed, GoesOn
  <2> QED
    BY <1>19, <2>1, <2>2 DEF Clean
<1> QED
  BY <1>5, <1>8, <1>9, <1>10, <1>11, <1>12, <1>15, <1>16, <1>17, <1>18, <1>19 DEF Handling

\* Handler w is called by a command, a report or a tick.
Called(w) ==
  \E r : /\ handler' = [handler EXCEPT ![w] = r]
         /\ Listed(r)
         /\ r.pc \notin {"insert", "pauseSubs", "mark", "tellStart", "startSub"}
         /\ r.pc = "pause" => asked' # {}
         /\ r.op = "tick" => r.own = None
         /\ \A t \in r.victims : task[t] = "Completed"

\* Handler w, told of message m, is about to insert it.
Takes(w, m) ==
  \E r : /\ handler' = [handler EXCEPT ![w] = r]
         /\ Listed(r)
         /\ r.pc = "insert" /\ r.msg = m /\ r.op = "start" /\ r.victims = {}
         /\ m \notin received /\ received' = received \cup {m} /\ UNCHANGED inserted

\* A handler that is called.
LEMMA CallMoves ==
  ASSUME NEW w \in Workers
  PROVE  /\ \A m \in Starts : ReceiveStart(w, m) => Takes(w, m)
         /\ \A t \in Tasks, c \in Operations : ReceiveCommand(w, t, c) => Called(w)
         /\ \A s \in Subs, v \in Verdicts : ReceiveReport(w, s, v) => Called(w)
         /\ Tick(w) => Called(w)
<1>1. ASSUME NEW m \in Starts, ReceiveStart(w, m) PROVE Takes(w, m)
  <2> DEFINE r == [Call("start", "insert", TaskOf[m]) EXCEPT !.msg = m]
  <2>1. handler' = [handler EXCEPT ![w] = r]
    BY <1>1 DEF ReceiveStart, Become
  <2>2. r.pc = "insert" /\ r.msg = m /\ r.op = "start" /\ r.victims = {} /\ r.todo = <<>> /\ r.body = <<>>
    BY DEF Call
  <2>3. m \notin received /\ received' = received \cup {m} /\ UNCHANGED inserted
    BY <1>1 DEF ReceiveStart, history
  <2> HIDE DEF r
  <2> QED
    BY <2>1, <2>2, <2>3, EmptyRows DEF Takes, Listed
<1>2. ASSUME NEW t, NEW op \in {"pause", "continue", "delete"}, NEW pc \in {"pause", "resume", "delete"},
             Become(w, Call(op, pc, t)), asked' # {}
      PROVE  Called(w)
  <2> DEFINE r == Call(op, pc, t)
  <2>1. handler' = [handler EXCEPT ![w] = r]
    BY <1>2 DEF Become
  <2>2. r.pc = pc /\ r.op = op /\ r.victims = {} /\ r.todo = <<>> /\ r.body = <<>>
    BY DEF Call
  <2> HIDE DEF r
  <2> QED
    BY <1>2, <2>1, <2>2, EmptyRows DEF Called, Listed
<1>3. ASSUME NEW t \in Tasks, NEW c \in Operations, ReceiveCommand(w, t, c) PROVE Called(w)
  <2>1. c \in {"Pause", "Continue", "Delete"}
    BY SchedulerAssumption
  <2>2. CASE c = "Pause"
    BY <1>2, <1>3, <2>2 DEF ReceiveCommand
  <2>3. CASE c = "Continue"
    BY <1>2, <1>3, <2>3 DEF ReceiveCommand
  <2>4. CASE c = "Delete"
    BY <1>2, <1>3, <2>4 DEF ReceiveCommand
  <2> QED
    BY <2>1, <2>2, <2>3, <2>4
<1>4. ASSUME NEW s \in Subs, NEW v \in Verdicts, ReceiveReport(w, s, v) PROVE Called(w)
  <2> DEFINE c == IF v = "Completed" THEN "complete" ELSE "fail"
             r == [Call(c, c, Parent(s)) EXCEPT !.sub = s]
  <2>1. handler' = [handler EXCEPT ![w] = r]
    BY <1>4 DEF ReceiveReport, Become
  <2>2. r.pc = c /\ r.op = c /\ r.victims = {} /\ r.todo = <<>> /\ r.body = <<>>
    BY DEF Call
  <2>3. c \in {"complete", "fail"}
    OBVIOUS
  <2> HIDE DEF r, c
  <2> QED
    BY <2>1, <2>2, <2>3, EmptyRows DEF Called, Listed
<1>5. ASSUME Tick(w) PROVE Called(w)
  <2>1. PICK recent \in SUBSET {t \in Tasks : task[t] = "Completed"} :
          Become(w, [Call("tick", "clean", None) EXCEPT !.victims = recent])
    BY <1>5 DEF Tick
  <2> DEFINE r == [Call("tick", "clean", None) EXCEPT !.victims = recent]
  <2>2. handler' = [handler EXCEPT ![w] = r]
    BY <2>1 DEF Become
  <2>3. r.pc = "clean" /\ r.op = "tick" /\ r.own = None /\ r.victims = recent /\ r.todo = <<>> /\ r.body = <<>>
    BY DEF Call
  <2> HIDE DEF r
  <2> QED
    BY <2>2, <2>3, EmptyRows DEF Called, Listed
<1> QED
  BY <1>1, <1>3, <1>4, <1>5

\* What a step makes of the handlers.
LEMMA HandlerMoves ==
  ASSUME SchedulerInv, BookInv, [Next]_vars
  PROVE  \/ UNCHANGED <<handler, received>>
         \/ (\A v \in Workers : handler'[v] = Idle) /\ UNCHANGED received
         \/ \E w \in Workers :
              \/ (Proceeds(w) \/ Look(w) \/ Called(w)) /\ UNCHANGED received
              \/ \E m \in Starts : Takes(w, m)
<1>1. ASSUME NEW w \in Workers, Handling(w) PROVE (Proceeds(w) \/ Look(w)) /\ UNCHANGED received
  <2>1. UNCHANGED received
    BY <1>1 DEF Handling, Insert, NextTask, Look, Mark, TellStart, MissingSub, EnqueueSub, ContinueSub,
           CollectSub, Complete, Judge, Finish, TellSuccess, Fail, TellFailed, Pause, PauseSub, ReportFails,
           Suspend, TellPaused, Resume, TellResumed, Delete, RemoveSub, RemoveTask, TellDeleted, Clean
  <2> QED
    BY <1>1, <2>1, HandlingProceeds
<1>2. ASSUME NEW w \in Workers, ServiceFails(w) PROVE Proceeds(w) /\ UNCHANGED received
  BY <1>2, StopProceeds DEF ServiceFails, Steps
<1>3. ASSUME NEW w \in Workers,
             \/ \E t \in Tasks, c \in Operations : ReceiveCommand(w, t, c)
             \/ \E s \in Subs, v \in Verdicts : ReceiveReport(w, s, v)
             \/ Tick(w)
      PROVE  Called(w) /\ UNCHANGED received
  <2>1. UNCHANGED received
    BY <1>3 DEF ReceiveCommand, ReceiveReport, Tick
  <2> QED
    BY <1>3, <2>1, CallMoves
<1>4. ASSUME NEW s \in Subs, Ending(s) \/ JobSeenTwice(s) PROVE UNCHANGED <<handler, received>>
  BY <1>4 DEF Ending, JobSucceeds, JobSeenTwice, UploadSucceeds, UploadFails, DeploySucceeds, ExecutionFails
<1>5. CASE Crash
  BY <1>5 DEF Crash
<1>6. CASE UNCHANGED vars
  BY <1>6 DEF vars
<1> QED
  BY <1>1, <1>2, <1>3, <1>4, <1>5, <1>6, CallMoves DEF Next

\* A row is written that is there: as suspended only for a handler that pauses its
\* task, as queuing again only for one that read it suspended.
Written(s, x) ==
  /\ Present(s)
  /\ WriteSub(s, x)
  /\ x = "Failed" => s \in failed'
  /\ x = "Suspended" => \E w \in Workers : At(w, "pauseSubs") /\ Parent(s) = handler[w].own
  /\ x = "Queuing" =>
       \E w \in Workers : At(w, "startSub") /\ handler[w].sub = s /\ handler[w].how = "Suspended"
  /\ UNCHANGED <<inserted, removed>>

\* A row is deleted by a handler that deletes its task.
Dropped(s) ==
  /\ Present(s)
  /\ DropSub(s)
  /\ removed' = removed \cup {s}
  /\ \E w \in Workers : At(w, "removeSubs") /\ Parent(s) = handler[w].own
  /\ UNCHANGED inserted

\* What a step makes of the rows.
LEMMA RowMoves ==
  ASSUME SchedulerInv, BookInv, [Next]_vars
  PROVE  /\ \/ UNCHANGED <<sub, rows, inserted, removed>>
            \/ \E s \in Subs, x \in Status : Written(s, x)
            \/ \E s \in Subs : Dropped(s)
            \/ \E w \in Workers : Insert(w)
         /\ ended \subseteq ended' /\ failed \subseteq failed'
<1>1. ASSUME NEW w \in Workers, Handling(w), ~Insert(w)
      PROVE  /\ \/ UNCHANGED <<sub, rows, inserted, removed>>
                \/ \E s \in Subs, x \in Status : Written(s, x)
                \/ \E s \in Subs : Dropped(s)
             /\ ended \subseteq ended' /\ failed \subseteq failed'
  <2>1. CASE \/ NextTask(w) \/ Look(w) \/ Mark(w) \/ TellStart(w) \/ MissingSub(w)
             \/ Judge(w) \/ Finish(w) \/ TellSuccess(w)
    BY <2>1 DEF NextTask, Look, Mark, TellStart, MissingSub, Judge, Finish, TellSuccess, tables, history
  <2>2. CASE \/ Fail(w) \/ TellFailed(w) \/ Pause(w) \/ Suspend(w) \/ TellPaused(w) \/ Resume(w)
             \/ TellResumed(w) \/ Delete(w) \/ RemoveTask(w) \/ TellDeleted(w) \/ Clean(w) \/ ReportFails(w)
    BY <2>2 DEF Fail, TellFailed, Pause, Suspend, TellPaused, Resume, TellResumed, Delete, RemoveTask,
                TellDeleted, Clean, ReportFails, tables, history
  <2>3. CASE EnqueueSub(w) \/ ContinueSub(w) \/ CollectSub(w)
    <3>1. handler[w].sub \in Subs /\ At(w, "startSub")
      BY <2>3, Serving DEF EnqueueSub, ContinueSub, CollectSub, At, Steps, Justified
    <3> QED
      BY <2>3, <3>1 DEF EnqueueSub, ContinueSub, CollectSub, Written, Status, history
  <2>4. CASE Complete(w)
    <3>1. handler[w].sub \in Subs
      BY <2>4, Serving DEF Complete, At, Steps, Justified, SchedulerInv, HistoriesSound
    <3> QED
      BY <2>4, <3>1 DEF Complete, Written, Status, history
  <2>5. CASE PauseSub(w) \/ RemoveSub(w)
    <3> DEFINE s == FirstRow(handler[w].todo)
    <3>1. CASE UNCHANGED <<sub, rows, removed>>
      BY <2>5, <3>1 DEF PauseSub, RemoveSub, history
    <3>2. CASE ~UNCHANGED <<sub, rows, removed>>
      <4>1. RowsOf(handler[w].todo, handler[w].own) /\ DOMAIN handler[w].todo # {}
        BY <2>5 DEF PauseSub, RemoveSub, At, BookInv, Listed, Idle
      <4>2. PICK r \in Subs : r = s /\ Parent(r) = handler[w].own
        BY <4>1, RowsListed
      <4>3. CASE PauseSub(w)
        BY <3>2, <4>2, <4>3 DEF PauseSub, Written, Status, history
      <4>4. CASE RemoveSub(w)
        BY <3>2, <4>2, <4>4 DEF RemoveSub, Dropped
      <4> QED
        BY <2>5, <4>3, <4>4
    <3> QED
      BY <3>1, <3>2
  <2> QED
    BY <1>1, <2>1, <2>2, <2>3, <2>4, <2>5 DEF Handling
<1>2. ASSUME NEW w \in Workers, Insert(w) PROVE UNCHANGED <<ended, failed>>
  BY <1>2 DEF Insert
<1>3. ASSUME NEW w \in Workers,
             \/ \E m \in Starts : ReceiveStart(w, m)
             \/ \E t \in Tasks, c \in Operations : ReceiveCommand(w, t, c)
             \/ \E s \in Subs, v \in Verdicts : ReceiveReport(w, s, v)
             \/ Tick(w)
      PROVE  UNCHANGED <<sub, rows, inserted, removed, ended, failed>>
  BY <1>3 DEF ReceiveStart, ReceiveCommand, ReceiveReport, Tick, tables, history
<1>4. ASSUME NEW w \in Workers, ServiceFails(w)
      PROVE  /\ UNCHANGED <<inserted, removed, ended, failed>>
             /\ UNCHANGED <<sub, rows>> \/ \E s \in Subs, x \in Status : Written(s, x)
  <2>1. UNCHANGED <<inserted, removed, ended, failed>>
    BY <1>4 DEF ServiceFails, history
  <2>2. CASE UNCHANGED <<sub, rows>>
    BY <2>1, <2>2
  <2>3. CASE At(w, "startSub") /\ Present(handler[w].sub) /\ WriteSub(handler[w].sub, "Running")
    <3>1. handler[w].sub \in Subs
      BY <2>3, Serving DEF At, Steps, Justified
    <3> QED
      BY <2>1, <2>3, <3>1 DEF Written, Status
  <2> QED
    BY <1>4, <2>2, <2>3 DEF ServiceFails
<1>5. ASSUME NEW s \in Subs, Ending(s) \/ JobSeenTwice(s)
      PROVE  /\ UNCHANGED <<sub, rows, inserted, removed>> \/ \E x \in Status : Written(s, x)
             /\ ended \subseteq ended' /\ failed \subseteq failed'
  <2>1. CASE JobSucceeds(s) \/ JobSeenTwice(s)
    BY <2>1 DEF JobSucceeds, JobSeenTwice, Uploading, Written, Status, history
  <2>2. CASE UploadSucceeds(s)
    BY <2>2 DEF UploadSucceeds, tables
  <2>3. CASE UploadFails(s) \/ ExecutionFails(s)
    BY <2>3 DEF UploadFails, ExecutionFails, Failing, Written, Status
  <2>4. CASE DeploySucceeds(s)
    BY <2>4 DEF DeploySucceeds, Written, Status
  <2> QED
    BY <1>5, <2>1, <2>2, <2>3, <2>4 DEF Ending
<1>6. CASE Crash \/ UNCHANGED vars
  BY <1>6 DEF Crash, vars, tables, history
<1> QED
  BY <1>1, <1>2, <1>3, <1>4, <1>5, <1>6 DEF Next

\* Rows stay true.
LEMMA RowsTrueStep ==
  ASSUME SchedulerInv, BookInv, [Next]_vars
  PROVE  RowsTrue'
<1> USE DEF BookInv
<1>1. ended \subseteq ended' /\ failed \subseteq failed'
  BY RowMoves
<1>2. sub \in [Subs -> Status \cup {None}] /\ None \notin Status
  BY SchedulerAssumption DEF SchedulerInv, TablesSound
<1>3. CASE UNCHANGED <<sub, rows, inserted, removed>>
  BY <1>1, <1>3 DEF RowsTrue, Present
<1>4. ASSUME NEW s \in Subs, NEW x \in Status, Written(s, x) PROVE RowsTrue'
  <2>1. sub' = [sub EXCEPT ![s] = x] /\ UNCHANGED <<inserted, removed>> /\ sub[s] # None /\ (x = "Failed" => s \in failed')
    BY <1>4 DEF Written, WriteSub, Present
  <2>2. rows' \in Seq(Subs)
    BY <1>4, RowsInOrder DEF Written, RowsTrue
  <2> QED
    BY <1>1, <1>2, <2>1, <2>2 DEF RowsTrue, Present
<1>5. ASSUME NEW s \in Subs, Dropped(s) PROVE RowsTrue'
  <2>1. sub' = [sub EXCEPT ![s] = None] /\ UNCHANGED inserted /\ sub[s] # None /\ removed' = removed \cup {s}
    BY <1>5 DEF Dropped, DropSub, Present
  <2>2. rows' \in Seq(Subs)
    BY <1>5, RowsInOrder DEF Dropped, RowsTrue
  <2> QED
    BY <1>1, <1>2, <2>1, <2>2 DEF RowsTrue, Present, Status
<1>6. ASSUME NEW w \in Workers, Insert(w) PROVE RowsTrue'
  <2>1. PICK m \in Starts : m = handler[w].msg /\ m \notin inserted
    BY <1>6, Serving DEF Insert, At, Steps, ServesCommand, Fresh
  <2>2. /\ sub' = [s \in Subs |-> IF s \in SubsOf(m) THEN "Queuing" ELSE sub[s]]
        /\ rows' = rows \o Body[m] /\ inserted' = inserted \cup {m} /\ UNCHANGED removed
    BY <1>6, <2>1 DEF Insert
  <2>3. rows' \in Seq(Subs)
    BY <2>2, RowsAdded, TaskAssumption DEF RowsTrue
  <2> QED
    BY <1>1, <1>2, <2>1, <2>2, <2>3 DEF RowsTrue, Present, SubsOf
<1> QED
  BY <1>3, <1>4, <1>5, <1>6, RowMoves

\* A handler that proceeds has rows of its task, and nothing to insert.
LEMMA ProceedsListed ==
  ASSUME NEW w, Proceeds(w)
  PROVE  \E r : handler' = [handler EXCEPT ![w] = r] /\ Listed(r) /\ r.pc # "insert"
<1>1. PICK r : handler' = [handler EXCEPT ![w] = r] /\ (r = Idle \/ (Listed(r) /\ r.pc # "insert"))
  BY DEF Proceeds, GoesOn
<1>2. Listed(Idle) /\ Idle.pc # "insert"
  BY DEF Listed, Idle
<1> QED
  BY <1>1, <1>2

\* A handler that chooses a sub task keeps the rows it has read.
LEMMA LookListed ==
  ASSUME SchedulerInv, BookInv, NEW w \in Workers, Look(w)
  PROVE  \E r : handler' = [handler EXCEPT ![w] = r] /\ Listed(r) /\ r.pc # "insert"
<1> DEFINE h == handler[w]
<1>1. Shaped(h) /\ Listed(h) /\ h # Idle
  <2>1. h.pc = "look" /\ Listed(h)
    BY DEF Look, At, BookInv
  <2> QED
    BY <2>1, Serving DEF Steps, Idle
<1>2. CASE Stop(w)
  <2>1. Proceeds(w)
    BY <1>2, StopProceeds DEF Look, At, Steps
  <2> QED
    BY <2>1, ProceedsListed
<1>3. ASSUME NEW pc \in {"mark", "tellStart"}, NEW s, NEW how,
             Become(w, [h EXCEPT !.pc = pc, !.sub = s, !.how = how])
      PROVE  \E r : handler' = [handler EXCEPT ![w] = r] /\ Listed(r) /\ r.pc # "insert"
  <2> DEFINE r == [h EXCEPT !.pc = pc, !.sub = s, !.how = how]
  <2>1. handler' = [handler EXCEPT ![w] = r]
    BY <1>3 DEF Become
  <2>2. r.pc = pc /\ r.own = h.own /\ r.todo = h.todo /\ r.body = h.body
    BY <1>1 DEF Shaped
  <2> HIDE DEF r
  <2> QED
    BY <1>1, <2>1, <2>2 DEF Listed
<1> QED
  BY <1>2, <1>3 DEF Look

\* Messages are inserted once, and handlers keep rows of their own task.
LEMMA FreshStep ==
  ASSUME SchedulerInv, BookInv, [Next]_vars
  PROVE  Fresh' /\ \A w \in Workers : Listed(handler[w])'
<1> USE DEF BookInv
<1>1. DOMAIN handler = Workers
  BY DEF SchedulerInv
<1>2. ASSUME NEW v \in Workers PROVE ~At(v, "insert") \/ handler[v].msg \in received \ inserted
  BY DEF Fresh
<1>3. CASE UNCHANGED <<handler, received, inserted>>
  BY <1>3 DEF Fresh, Listed, At
<1>4. CASE (\A v \in Workers : handler'[v] = Idle) /\ UNCHANGED <<received, inserted>>
  BY <1>4 DEF Fresh, Listed, At, Idle
<1>5. ASSUME NEW w \in Workers, NEW r, handler' = [handler EXCEPT ![w] = r], Listed(r), r.pc # "insert",
             UNCHANGED received,
             UNCHANGED inserted \/ (At(w, "insert") /\ inserted' = inserted \cup {handler[w].msg})
      PROVE  Fresh' /\ \A v \in Workers : Listed(handler[v])'
  <2>1. handler'[w] = r /\ \A v \in Workers \ {w} : handler'[v] = handler[v]
    BY <1>1, <1>5
  <2>2. \A v \in Workers : Listed(handler[v])'
    BY <1>5, <2>1 DEF Listed
  <2>3. ASSUME NEW v \in Workers, At(v, "insert")' PROVE v # w /\ handler'[v] = handler[v] /\ At(v, "insert")
    BY <1>5, <2>1, <2>3 DEF At
  <2>4. inserted' \subseteq received'
    BY <1>2, <1>5 DEF Fresh
  <2>5. ASSUME NEW v \in Workers, At(v, "insert")' PROVE handler'[v].msg \in received' \ inserted'
    BY <1>2, <1>5, <2>3, <2>5 DEF Fresh
  <2>6. ASSUME NEW u \in Workers, NEW v \in Workers, At(u, "insert")', At(v, "insert")', handler'[u].msg = handler'[v].msg
        PROVE  u = v
    BY <2>3, <2>6 DEF Fresh
  <2> QED
    BY <2>2, <2>4, <2>5, <2>6 DEF Fresh, At
<1>6. ASSUME NEW w \in Workers, NEW m \in Starts, Takes(w, m)
      PROVE  Fresh' /\ \A v \in Workers : Listed(handler[v])'
  <2>1. PICK r : /\ handler' = [handler EXCEPT ![w] = r]
                 /\ Listed(r)
                 /\ r.pc = "insert" /\ r.msg = m
                 /\ m \notin received /\ received' = received \cup {m} /\ UNCHANGED inserted
    BY <1>6 DEF Takes
  <2>2. handler'[w] = r /\ \A v \in Workers \ {w} : handler'[v] = handler[v]
    BY <1>1, <2>1
  <2>3. \A v \in Workers : Listed(handler[v])'
    BY <2>1, <2>2 DEF Listed
  <2>4. ASSUME NEW v \in Workers, At(v, "insert")', v # w PROVE handler'[v] = handler[v] /\ At(v, "insert")
    BY <2>2, <2>4 DEF At
  <2>5. ASSUME NEW v \in Workers, At(v, "insert")' PROVE handler'[v].msg \in received' \ inserted'
    BY <1>2, <2>1, <2>2, <2>4, <2>5 DEF Fresh
  <2>6. ASSUME NEW u \in Workers, NEW v \in Workers, At(u, "insert")', At(v, "insert")', handler'[u].msg = handler'[v].msg
        PROVE  u = v
    BY <1>2, <2>1, <2>2, <2>4, <2>6 DEF Fresh
  <2> QED
    BY <2>1, <2>3, <2>5, <2>6 DEF Fresh, At
<1>7. ASSUME NEW w \in Workers, Look(w) PROVE \E r : handler' = [handler EXCEPT ![w] = r] /\ Listed(r) /\ r.pc # "insert"
  BY <1>7, LookListed
<1>8. \/ UNCHANGED inserted
      \/ \E w \in Workers : Insert(w) /\ At(w, "insert") /\ inserted' = inserted \cup {handler[w].msg}
  BY RowMoves DEF Written, Dropped, Insert
<1>9. ASSUME NEW w \in Workers, Insert(w) PROVE Fresh' /\ \A v \in Workers : Listed(handler[v])'
  <2>1. At(w, "insert") /\ inserted' = inserted \cup {handler[w].msg} /\ UNCHANGED received
    BY <1>9 DEF Insert
  <2>2. PICK r : handler' = [handler EXCEPT ![w] = r] /\ Listed(r) /\ r.pc # "insert"
    <3>1. Proceeds(w)
      BY <1>9, HandlingProceeds DEF Handling, Insert, Look, At
    <3> QED
      BY <3>1, ProceedsListed
  <2> QED
    BY <1>5, <2>1, <2>2
<1>10. ASSUME UNCHANGED inserted PROVE Fresh' /\ \A v \in Workers : Listed(handler[v])'
  <2>1. ASSUME NEW w \in Workers, Proceeds(w) \/ Called(w)
        PROVE  \E r : handler' = [handler EXCEPT ![w] = r] /\ Listed(r) /\ r.pc # "insert"
    BY <2>1, ProceedsListed DEF Called
  <2> QED
    BY <1>3, <1>4, <1>5, <1>6, <1>7, <1>10, <2>1, HandlerMoves
<1> QED
  BY <1>8, <1>9, <1>10

LEMMA BookStep ==
  ASSUME SchedulerInv, BookInv, [Next]_vars
  PROVE  BookInv'
BY RowsTrueStep, FreshStep DEF BookInv

LEMMA InitBook == Init => BookInv
<1> SUFFICES ASSUME Init PROVE BookInv
  OBVIOUS
<1>1. None \notin Status
  BY SchedulerAssumption
<1>2. RowsTrue /\ Fresh
  BY <1>1 DEF Init, RowsTrue, Fresh, Present, Status, At, Idle
<1> QED
  BY <1>2 DEF BookInv, Init, Listed

\* Only a sub task with a row is started.
LEMMA StartsPresent ==
  ASSUME SchedulerInv, Counting, [Next]_vars, NEW s \in Subs, started'[s] # started[s]
  PROVE  Present(s) /\ \E w \in Workers : At(w, "startSub") /\ handler[w].sub = s
<1>1. PICK w \in Workers : /\ At(w, "startSub") /\ Present(handler[w].sub)
                          /\ started' = [started EXCEPT ![handler[w].sub] = @ + 1]
  BY StartsOne
<1>2. handler[w].sub = s
  BY <1>1 DEF Counting
<1> QED
  BY <1>1, <1>2

\* A sub task whose row was deleted never has a row again and is never started, for any
\* handlers, commands, reports, errors and restarts (every update reads its row again).
THEOREM DeletedStaysAlways == Spec => DeletedStays
<1>1. SchedulerInv /\ BookInv /\ Counting /\ [Next]_vars
        => [\A s \in removed : sub'[s] = None /\ started'[s] = started[s]]_vars
  <2> SUFFICES ASSUME SchedulerInv, BookInv, Counting, [Next]_vars, NEW s \in removed
               PROVE  sub'[s] = None /\ started'[s] = started[s]
    OBVIOUS
  <2>1. s \in Subs /\ sub[s] = None /\ s \in removed'
    BY RowMoves DEF BookInv, RowsTrue, Written, Dropped, Insert
  <2>2. sub'[s] = None
    BY <2>1, BookStep DEF BookInv, RowsTrue
  <2>3. started'[s] = started[s]
    BY <2>1, StartsPresent DEF Present
  <2> QED
    BY <2>2, <2>3
<1>2. Init => Counting
  BY DEF Init, Counting
<1>3. SchedulerInv /\ Counting /\ [Next]_vars => Counting'
  BY StartKnownStep
<1>4. SchedulerInv /\ BookInv /\ [Next]_vars => BookInv'
  BY BookStep
<1> QED
  BY <1>1, <1>2, <1>3, <1>4, InitBook, SchedulerInvariant, PTL DEF Spec, DeletedStays

-----------------------------------------------------------------------------
(* The order of a task that is started once and not operated.              *)

\* Everything of message m has succeeded.
Over(m) == SubsOf(m) \subseteq ended

\* A handler deletes the task of m only when that is over, and starts a sub task of it
\* only when those before it were executed.
InTurn(m, h) ==
  /\ TaskOf[m] \in h.victims \/ (h.op = "tick" /\ h.own = TaskOf[m]) => Over(m)
  /\ h.pc # "pause"
  /\ h.pc = "pauseSubs" /\ h.own = TaskOf[m] => Over(m)
  /\ h.pc \in {"mark", "tellStart", "startSub"} /\ h.sub \in SubsOf(m) =>
       /\ h.how # "Suspended" \/ Over(m)
       /\ \A i, j \in DOMAIN Body[m] : i < j /\ Body[m][j] = h.sub => Body[m][i] \in ended \cup failed

\* Until it is over, the rows of m that wait are in the order of its body.
RowsInTurn(m) ==
  /\ task[TaskOf[m]] = "Completed" => Over(m)
  /\ (\E s \in removed : StartOf[s] = m) => Over(m)
  /\ Over(m) \/ \A s \in SubsOf(m) : sub[s] # "Suspended"
  /\ Over(m) \/ \A i, j \in DOMAIN Body[m] :
       i < j /\ sub[Body[m][i]] = "Queuing" /\ sub[Body[m][j]] = "Queuing" => Before(Body[m][i], Body[m][j])

TurnInv(m) ==
  used.ops = 0 => /\ asked = {}
                  /\ RowsInTurn(m)
                  /\ \A w \in Workers : handler[w] = Idle \/ InTurn(m, handler[w])

\* What the steps of such a task rest on.
Quiet(m) == m \in Starts /\ Alone(m) /\ SchedulerInv /\ BookInv /\ asked = {} /\ RowsInTurn(m)
            /\ \A w \in Workers : handler[w] = Idle \/ InTurn(m, handler[w])

\* No handler serves a command.
LEMMA NoCommand ==
  ASSUME NEW m, Quiet(m), NEW w \in Workers, handler[w].pc \in Steps
  PROVE  /\ handler[w].op \notin {"pause", "continue", "delete"}
         /\ handler[w].pc \in {"delete", "removeSubs"} => handler[w].op = "tick"
         /\ InTurn(m, handler[w])
<1>1. handler[w] # Idle
  BY DEF Idle, Steps, Telling
<1>2. ServesCommand(handler[w])
  BY Serving DEF Quiet
<1> QED
  BY <1>1, <1>2 DEF ServesCommand, Quiet

\* A message that was delivered is over, if it alone starts its task.
LEMMA DeliveredOver ==
  ASSUME NEW m, Quiet(m), NEW k \in Starts, TaskOf[k] = TaskOf[m], Delivered(k)
  PROVE  Over(m)
<1>1. k = m
  BY DEF Quiet, Alone
<1> QED
  BY <1>1 DEF Quiet, RowsInTurn, Delivered, Over, SubsOf

\* A sub task of m that is the first to wait has all before it behind it.
LEMMA FirstInTurn ==
  ASSUME NEW m, Quiet(m), NEW s \in SubsOf(m), s \in Choice(TaskOf[m]),
         NEW i \in DOMAIN Body[m], NEW j \in DOMAIN Body[m], i < j, Body[m][j] = s
  PROVE  Body[m][i] \in ended \cup failed
<1> DEFINE r == Body[m][i]
<1>1. r \in Subs /\ StartOf[r] = m /\ Parent(r) = TaskOf[m] /\ s \in Subs /\ StartOf[s] = m /\ Parent(s) = TaskOf[m]
  BY Parts DEF Quiet
<1> HIDE DEF r
<1>2. AtWork(TaskOf[m]) = {} /\ s \in FirstOf(Pending(TaskOf[m]))
  BY <1>1, SchedulerAssumption DEF Choice
<1>3. s \in Pending(TaskOf[m]) /\ \A q \in Pending(TaskOf[m]) : ~Before(q, s)
  BY <1>2 DEF FirstOf
<1>4. m \in inserted
  BY <1>1, <1>3 DEF Pending, BodyOf, Quiet, BookInv, RowsTrue
<1>5. CASE Over(m)
  BY <1>1, <1>5 DEF Over, SubsOf, r
<1>6. CASE ~Over(m)
  <2>1. sub[s] = "Queuing" /\ sub[r] # "Suspended" /\ r \notin removed
    BY <1>1, <1>3, <1>6 DEF Quiet, RowsInTurn, SubsOf, Pending
  <2>2. Present(r) /\ sub[r] \in Status
    BY <1>1, <1>4, <2>1 DEF Quiet, SchedulerInv, TablesSound, SubsOf, Present
  <2>3. sub[r] # "Queuing"
    <3>1. ASSUME sub[r] = "Queuing" PROVE FALSE
      <4>1. r \in Pending(TaskOf[m])
        BY <1>1, <2>2, <3>1 DEF Pending, BodyOf
      <4>2. Before(r, s)
        BY <1>6, <2>1, <3>1 DEF Quiet, RowsInTurn, r
      <4> QED
        BY <1>3, <4>1, <4>2
    <3> QED
      BY <3>1
  <2>4. sub[r] \notin {"Running", "Completing"}
    BY <1>1, <1>2, <2>2 DEF AtWork, BodyOf
  <2>5. sub[r] \in {"Completed", "Failed"}
    BY <2>1, <2>2, <2>3, <2>4 DEF Status
  <2>6. r \in ended \cup failed
    BY <1>1, <2>5 DEF Quiet, SchedulerInv, TablesSound, BookInv, RowsTrue
  <2> QED
    BY <2>1, <2>6 DEF r
<1> QED
  BY <1>5, <1>6

\* Only what is over is written as completed.
LEMMA FinishedOver ==
  ASSUME NEW m, Quiet(m), [Next]_vars, task'[TaskOf[m]] = "Completed"
  PROVE  Over(m)
<1>1. TaskOf[m] \in Tasks /\ SchedulerInv /\ task \in [Tasks -> Status \cup {None}]
  BY TaskAssumption DEF Quiet, SchedulerInv, TablesSound
<1>2. CASE task[TaskOf[m]] = "Completed"
  BY <1>2 DEF Quiet, RowsInTurn
<1>3. ASSUME NEW t \in Tasks, NEW x, task' = [task EXCEPT ![t] = x], x # "Completed" PROVE Over(m)
  BY <1>1, <1>2, <1>3
<1>4. ASSUME NEW w \in Workers, Finish(w) PROVE Over(m)
  <2>1. handler[w].pc = "finish" /\ ServesCommand(handler[w]) /\ Justified(handler[w])
    BY <1>1, <1>4, Serving DEF Finish, At, Steps
  <2>2. handler[w].own \in Tasks /\ \E k \in Starts : TaskOf[k] = handler[w].own /\ Delivered(k)
    BY <2>1 DEF ServesCommand, Justified
  <2>3. CASE handler[w].own = TaskOf[m]
    BY <2>2, <2>3, DeliveredOver
  <2>4. CASE handler[w].own # TaskOf[m]
    BY <1>1, <1>2, <1>4, <2>2, <2>4 DEF Finish, WriteTask
  <2> QED
    BY <2>3, <2>4
<1>5. ASSUME NEW w \in Workers, Handling(w), ~Finish(w) PROVE Over(m)
  <2>1. CASE UNCHANGED task
    BY <1>2, <2>1
  <2>2. CASE Insert(w)
    <3>1. TaskOf[handler[w].msg] \in Tasks
      BY <1>1, <2>2, Serving, TaskAssumption DEF Insert, At, Steps, ServesCommand
    <3> QED
      BY <1>3, <2>2, <3>1 DEF Insert, WriteTask
  <2>3. CASE Mark(w)
    <3>1. handler[w].task \in Tasks
      BY <1>1, <2>3, Serving, TaskAssumption DEF Mark, At, Steps, Justified, SchedulerInv, HistoriesSound
    <3> QED
      BY <1>2, <1>3, <2>3, <3>1 DEF Mark, WriteTask
  <2>4. CASE Fail(w) \/ Suspend(w) \/ Resume(w) \/ RemoveTask(w)
    <3>1. handler[w].own \in Tasks
      BY <1>1, <2>4, Serving DEF Fail, Suspend, Resume, RemoveTask, At, Steps, ServesCommand
    <3>2. None # "Completed"
      BY SchedulerAssumption DEF Status
    <3> QED
      BY <1>2, <1>3, <2>4, <3>1, <3>2 DEF Fail, Suspend, Resume, RemoveTask, WriteTask
  <2>5. CASE \/ NextTask(w) \/ Look(w) \/ TellStart(w) \/ MissingSub(w) \/ EnqueueSub(w) \/ ContinueSub(w)
             \/ CollectSub(w) \/ Complete(w) \/ Judge(w) \/ TellSuccess(w) \/ TellFailed(w) \/ Pause(w)
             \/ PauseSub(w) \/ TellPaused(w) \/ TellResumed(w) \/ Delete(w) \/ RemoveSub(w)
             \/ TellDeleted(w) \/ Clean(w) \/ ReportFails(w)
    <3>1. UNCHANGED task
      BY <2>5 DEF NextTask, Look, TellStart, MissingSub, EnqueueSub, ContinueSub, CollectSub, Complete, Judge,
                  TellSuccess, TellFailed, Pause, PauseSub, TellPaused, TellResumed, Delete, RemoveSub,
                  TellDeleted, Clean, ReportFails, tables
    <3> QED
      BY <2>1, <3>1
  <2> QED
    BY <1>5, <2>2, <2>3, <2>4, <2>5 DEF Handling
<1>6. ASSUME NEW w \in Workers,
             \/ \E k \in Starts : ReceiveStart(w, k)
             \/ \E t \in Tasks, c \in Operations : ReceiveCommand(w, t, c)
             \/ \E s \in Subs, v \in Verdicts : ReceiveReport(w, s, v)
             \/ Tick(w) \/ ServiceFails(w)
      PROVE  UNCHANGED task
  BY <1>6 DEF ReceiveStart, ReceiveCommand, ReceiveReport, Tick, ServiceFails, tables
<1>7. ASSUME NEW s \in Subs, Ending(s) \/ JobSeenTwice(s) PROVE UNCHANGED task
  BY <1>7 DEF Ending, JobSucceeds, JobSeenTwice, UploadSucceeds, UploadFails, DeploySucceeds, ExecutionFails, tables
<1>8. CASE Crash \/ UNCHANGED vars
  BY <1>2, <1>8 DEF Crash, vars, tables
<1> QED
  BY <1>2, <1>4, <1>5, <1>6, <1>7, <1>8 DEF Next

\* The rows of m stay in turn.
LEMMA RowsInTurnStep ==
  ASSUME NEW m, Quiet(m), [Next]_vars
  PROVE  RowsInTurn(m)'
<1>1. SchedulerInv /\ BookInv /\ m \in Starts /\ RowsInTurn(m)
  BY DEF Quiet
<1>2. ended \subseteq ended'
  BY <1>1, RowMoves
<1>3. Over(m) => Over(m)'
  BY <1>2 DEF Over, SubsOf
<1>4. task'[TaskOf[m]] = "Completed" => Over(m)
  BY <1>1, FinishedOver DEF Quiet, RowsInTurn
<1> DEFINE InOrderRows == \A i, j \in DOMAIN Body[m] :
       i < j /\ sub[Body[m][i]] = "Queuing" /\ sub[Body[m][j]] = "Queuing" => Before(Body[m][i], Body[m][j])
           NoneSuspended == \A s \in SubsOf(m) : sub[s] # "Suspended"
           SomeRemoved == \E s \in removed : StartOf[s] = m
<1>5. CASE Over(m)'
  BY <1>5 DEF RowsInTurn
<1>6. CASE ~Over(m)'
  <2>1. InOrderRows /\ NoneSuspended /\ ~SomeRemoved
    BY <1>1, <1>3, <1>6 DEF RowsInTurn
  <2>2. SUFFICES InOrderRows' /\ NoneSuspended' /\ ~SomeRemoved'
    BY <1>3, <1>4, <1>6, <2>2 DEF RowsInTurn
  <2>3. CASE UNCHANGED <<sub, rows, inserted, removed>>
    BY <2>1, <2>3 DEF Before
  <2>4. ASSUME NEW s \in Subs, NEW x \in Status, Written(s, x) PROVE InOrderRows' /\ NoneSuspended' /\ ~SomeRemoved'
    <3>1. /\ sub' = [sub EXCEPT ![s] = x] /\ UNCHANGED removed
          /\ \A a, b : a # s /\ b # s /\ Before(a, b) => Before(a, b)'
      BY <1>1, <2>4, RowsInOrder DEF Written, WriteSub, BookInv, RowsTrue
    <3>2. ASSUME s \in SubsOf(m) PROVE x \notin {"Suspended", "Queuing"}
      <4>1. Parent(s) = TaskOf[m]
        BY <3>2 DEF SubsOf, Parent
      <4>2. ASSUME NEW w \in Workers, At(w, "pauseSubs"), Parent(s) = handler[w].own PROVE FALSE
        <5>1. handler[w].pc = "pauseSubs" /\ InTurn(m, handler[w])
          BY <4>2, NoCommand DEF At, Steps
        <5> QED
          BY <1>3, <1>6, <4>1, <4>2, <5>1 DEF InTurn
      <4>3. ASSUME NEW w \in Workers, At(w, "startSub"), handler[w].sub = s, handler[w].how = "Suspended" PROVE FALSE
        BY <1>3, <1>6, <3>2, <4>3, NoCommand DEF InTurn, At, Steps
      <4> QED
        BY <2>4, <4>2, <4>3 DEF Written
    <3>3. NoneSuspended'
      BY <1>1, <2>1, <3>1, <3>2 DEF SubsOf, SchedulerInv, TablesSound
    <3>4. InOrderRows'
      <4>1. ASSUME NEW i \in DOMAIN Body[m], NEW j \in DOMAIN Body[m], i < j,
                   sub'[Body[m][i]] = "Queuing", sub'[Body[m][j]] = "Queuing"
            PROVE  Before(Body[m][i], Body[m][j])'
        <5>1. Body[m][i] \in SubsOf(m) /\ Body[m][j] \in SubsOf(m)
          BY <1>1, Parts DEF SubsOf
        <5>2. Body[m][i] # s /\ Body[m][j] # s
          BY <1>1, <3>1, <3>2, <4>1, <5>1 DEF SubsOf, SchedulerInv, TablesSound
        <5>3. sub[Body[m][i]] = "Queuing" /\ sub[Body[m][j]] = "Queuing"
          BY <3>1, <4>1, <5>2
        <5>4. Before(Body[m][i], Body[m][j])
          BY <2>1, <4>1, <5>3
        <5> QED
          BY <3>1, <5>2, <5>4
      <4> QED
        BY <4>1
    <3> QED
      BY <2>1, <3>1, <3>3, <3>4
  <2>5. ASSUME NEW s \in Subs, Dropped(s) PROVE InOrderRows' /\ NoneSuspended' /\ ~SomeRemoved'
    <3>1. /\ sub' = [sub EXCEPT ![s] = None] /\ removed' = removed \cup {s}
          /\ \A a, b : a # s /\ b # s /\ Before(a, b) => Before(a, b)'
      BY <1>1, <2>5, RowsInOrder DEF Dropped, DropSub, BookInv, RowsTrue
    <3>2. StartOf[s] # m
      <4>1. PICK w \in Workers : At(w, "removeSubs") /\ Parent(s) = handler[w].own
        BY <2>5 DEF Dropped
      <4>2. InTurn(m, handler[w]) /\ handler[w].op = "tick"
        BY <4>1, NoCommand DEF At, Steps
      <4> QED
        BY <1>3, <1>6, <4>1, <4>2 DEF InTurn, Parent
    <3>3. NoneSuspended' /\ ~SomeRemoved'
      BY <2>1, <3>1, <3>2 DEF SubsOf
    <3>4. InOrderRows'
      <4>1. ASSUME NEW i \in DOMAIN Body[m], NEW j \in DOMAIN Body[m], i < j,
                   sub'[Body[m][i]] = "Queuing", sub'[Body[m][j]] = "Queuing"
            PROVE  Before(Body[m][i], Body[m][j])'
        <5>1. Body[m][i] # s /\ Body[m][j] # s
          BY <1>1, <3>2, Parts
        <5>2. Before(Body[m][i], Body[m][j])
          BY <2>1, <3>1, <4>1, <5>1
        <5> QED
          BY <3>1, <5>1, <5>2
      <4> QED
        BY <4>1
    <3> QED
      BY <3>3, <3>4
  <2>6. ASSUME NEW w \in Workers, Insert(w) PROVE InOrderRows' /\ NoneSuspended' /\ ~SomeRemoved'
    <3>1. PICK k \in Starts : k = handler[w].msg /\ k \notin inserted
      BY <1>1, <2>6, Serving DEF Insert, At, Steps, ServesCommand, BookInv, Fresh
    <3>2. /\ sub' = [s \in Subs |-> IF s \in SubsOf(k) THEN "Queuing" ELSE sub[s]]
          /\ rows' = rows \o Body[k] /\ UNCHANGED removed
      BY <2>6, <3>1 DEF Insert
    <3>3. /\ \A a, b : Before(a, b) => Before(a, b)'
          /\ \A i, j \in DOMAIN Body[k] : i < j => Before(Body[k][i], Body[k][j])'
      BY <1>1, <3>2, RowsAdded, TaskAssumption DEF BookInv, RowsTrue
    <3>4. NoneSuspended' /\ ~SomeRemoved'
      BY <2>1, <3>2 DEF SubsOf
    <3>5. InOrderRows'
      <4>1. CASE k = m
        BY <3>3, <4>1
      <4>2. CASE k # m
        <5>1. \A i \in DOMAIN Body[m] : sub'[Body[m][i]] = sub[Body[m][i]]
          BY <1>1, <3>2, <4>2, Parts DEF SubsOf
        <5> QED
          BY <2>1, <3>3, <5>1
      <4> QED
        BY <4>1, <4>2
    <3> QED
      BY <3>4, <3>5
  <2> QED
    BY <1>1, <2>3, <2>4, <2>5, <2>6, RowMoves
<1> QED
  BY <1>5, <1>6

\* Handlers stay in turn.
LEMMA HandlersInTurnStep ==
  ASSUME NEW m, Quiet(m), [Next]_vars, asked' = {}, NEW v \in Workers
  PROVE  handler'[v] = Idle \/ InTurn(m, handler[v])'
<1> DEFINE t == TaskOf[m]
<1>1. SchedulerInv /\ BookInv /\ m \in Starts /\ RowsInTurn(m) /\ DOMAIN handler = Workers
  BY DEF Quiet, SchedulerInv
<1>2. (Over(m) => Over(m)') /\ ended \subseteq ended' /\ failed \subseteq failed'
  BY <1>1, RowMoves DEF Over, SubsOf
<1>3. ASSUME NEW h, InTurn(m, h), handler'[v] = h PROVE InTurn(m, handler[v])'
  BY <1>2, <1>3 DEF InTurn, SubsOf
<1>4. CASE UNCHANGED handler \/ handler'[v] = Idle
  BY <1>3, <1>4 DEF Quiet
<1>5. ASSUME NEW w \in Workers, w # v, NEW r, handler' = [handler EXCEPT ![w] = r]
      PROVE  handler'[v] = Idle \/ InTurn(m, handler[v])'
  <2>1. handler'[v] = handler[v]
    BY <1>5
  <2> QED
    BY <1>3, <2>1 DEF Quiet
<1>6. CASE Proceeds(v)
  <2>1. PICK r : handler' = [handler EXCEPT ![v] = r] /\ (r = Idle \/ GoesOn(handler[v], r))
    BY <1>6 DEF Proceeds
  <2>2. handler'[v] = r
    BY <1>1, <2>1
  <2>3. CASE r # Idle
    <3>1. InTurn(m, handler[v])
      BY <1>6 DEF Proceeds, Quiet
    <3>2. InTurn(m, r)
      <4>1. TaskOf[m] # None
        BY <1>1, TaskAssumption, SchedulerAssumption
      <4>2. handler[v].pc = "delete" => handler[v].op = "tick"
        BY NoCommand DEF Steps
      <4> QED
        BY <2>1, <2>3, <3>1, <4>1, <4>2 DEF GoesOn, InTurn
    <3> QED
      BY <1>3, <2>2, <3>2
  <2> QED
    BY <2>2, <2>3
<1>7. CASE Called(v)
  <2>1. PICK r : /\ handler' = [handler EXCEPT ![v] = r]
                 /\ r.pc \notin {"insert", "pause", "pauseSubs", "mark", "tellStart", "startSub"}
                 /\ r.op = "tick" => r.own = None
                 /\ \A u \in r.victims : task[u] = "Completed"
    BY <1>7 DEF Called
  <2>2. TaskOf[m] # None
    BY <1>1, TaskAssumption, SchedulerAssumption
  <2>3. InTurn(m, r)
    BY <1>1, <2>1, <2>2 DEF InTurn, RowsInTurn
  <2> QED
    BY <1>1, <1>3, <2>1, <2>3
<1>8. ASSUME NEW k \in Starts, Takes(v, k) PROVE InTurn(m, handler[v])'
  <2>1. PICK r : handler' = [handler EXCEPT ![v] = r] /\ r.pc = "insert" /\ r.op = "start" /\ r.victims = {}
    BY <1>8 DEF Takes
  <2>2. InTurn(m, r)
    BY <2>1 DEF InTurn
  <2> QED
    BY <1>1, <1>3, <2>1, <2>2
<1>9. CASE Look(v)
  <2>1. handler[v].pc = "look" /\ InTurn(m, handler[v]) /\ Shaped(handler[v])
    BY <1>1, <1>9, NoCommand, Serving DEF Look, At, Steps
  <2>2. CASE Stop(v)
    <3>1. handler'[v] = AfterStop(handler[v])
      BY <1>1, <2>2 DEF Stop, Become, AfterStop
    <3>2. InTurn(m, Call("tick", "next", None))
      <4>1. TaskOf[m] # None
        BY <1>1, TaskAssumption, SchedulerAssumption
      <4> QED
        BY <4>1 DEF InTurn, Call
    <3> QED
      BY <1>3, <3>1, <3>2 DEF AfterStop
  <2>3. ASSUME ~Stop(v) PROVE InTurn(m, handler[v])'
    <3> DEFINE h == handler[v]
    <3>1. PICK s \in Choice(h.task), pc \in {"mark", "tellStart"} :
            handler' = [handler EXCEPT ![v] =
              [h EXCEPT !.pc = pc, !.sub = s, !.how = IF s \in Subs THEN sub[s] ELSE None]]
      BY <1>9, <2>3 DEF Look, Become
    <3> DEFINE r == [h EXCEPT !.pc = pc, !.sub = s, !.how = IF s \in Subs THEN sub[s] ELSE None]
    <3>2. handler'[v] = r
      BY <1>1, <3>1
    <3>3. r.pc = pc /\ r.sub = s /\ r.op = h.op /\ r.own = h.own /\ r.victims = h.victims
          /\ (s \in Subs => r.how = sub[s])
      BY <2>1 DEF Shaped
    <3> HIDE DEF r
    <3>4. ASSUME s \in SubsOf(m) PROVE h.task = TaskOf[m]
      <4>1. s \in BodyOf(h.task)
        BY <3>1, <3>4, SchedulerAssumption DEF Choice, FirstOf, Pending, SubsOf
      <4> QED
        BY <3>4, <4>1 DEF BodyOf, SubsOf, Parent
    <3>5. ASSUME s \in SubsOf(m)
          PROVE  /\ r.how # "Suspended" \/ Over(m)
                 /\ \A i, j \in DOMAIN Body[m] : i < j /\ Body[m][j] = s => Body[m][i] \in ended \cup failed
      <4>1. r.how # "Suspended" \/ Over(m)
        BY <1>1, <3>3, <3>5 DEF RowsInTurn, SubsOf
      <4>2. s \in Choice(TaskOf[m])
        BY <3>1, <3>4, <3>5
      <4> QED
        BY <3>5, <4>1, <4>2, FirstInTurn
    <3>6. InTurn(m, r)
      BY <2>1, <3>1, <3>3, <3>5 DEF InTurn
    <3> QED
      BY <1>3, <3>2, <3>6
  <2> QED
    BY <2>2, <2>3
<1>10. ASSUME NEW w \in Workers, w # v, Proceeds(w) \/ Look(w) \/ Called(w) \/ \E k \in Starts : Takes(w, k)
       PROVE  handler'[v] = Idle \/ InTurn(m, handler[v])'
  <2>1. \E r : handler' = [handler EXCEPT ![w] = r]
    BY <1>1, <1>10, LookListed DEF Proceeds, Called, Takes
  <2> QED
    BY <1>5, <1>10, <2>1
<1> QED
  BY <1>1, <1>4, <1>6, <1>7, <1>8, <1>9, <1>10, HandlerMoves

\* Everything stays in turn.
LEMMA TurnStep ==
  ASSUME NEW m \in Starts, Alone(m), SchedulerInv, BookInv, Counts, TurnInv(m), [Next]_vars
  PROVE  TurnInv(m)'
<1> SUFFICES ASSUME used'.ops = 0
             PROVE  asked' = {} /\ RowsInTurn(m)' /\ \A w \in Workers : handler'[w] = Idle \/ InTurn(m, handler[w])'
  BY DEF TurnInv
<1>1. used.ops = 0 /\ asked' = asked
  BY UsedGrows
<1>2. Quiet(m) /\ asked' = {}
  BY <1>1 DEF TurnInv, Quiet
<1> QED
  BY <1>2, RowsInTurnStep, HandlersInTurnStep

LEMMA InitTurn ==
  ASSUME Init, NEW m \in Starts
  PROVE  TurnInv(m)
<1>1. None \notin Status /\ TaskOf[m] \in Tasks
  BY SchedulerAssumption, TaskAssumption
<1>2. ASSUME NEW i \in DOMAIN Body[m] PROVE sub[Body[m][i]] = None
  BY <1>2, Parts DEF Init
<1>3. RowsInTurn(m)
  BY <1>1, <1>2 DEF Init, RowsInTurn, Status, SubsOf
<1> QED
  BY <1>3 DEF Init, TurnInv

\* A sub task is started only when all before it have been executed, with success or
\* not, for any number of handlers, ticks, errors and restarts, of a task that is sent
\* once and not operated (schedule_next_task_by_id takes the first row that waits).
THEOREM StartedInOrder == Spec => InOrder
<1> DEFINE Turns == \A m \in Starts : Alone(m) => TurnInv(m)
<1>1. Init => Counts /\ BookInv /\ Turns
  BY InitBook, InitTurn DEF Init, Counts
<1>2. SchedulerInv /\ BookInv /\ Counts /\ Turns /\ [Next]_vars => BookInv' /\ Counts' /\ Turns'
  BY BookStep, CountsStep, TurnStep DEF Alone
<1>3. SchedulerInv /\ BookInv /\ Counts /\ Turns /\ [Next]_vars
        => [\A m \in Starts : \A i, j \in DOMAIN Body[m] :
              /\ Alone(m) /\ used'.ops = 0
              /\ i < j
              /\ started'[Body[m][j]] > started[Body[m][j]]
              => Body[m][i] \in ended \cup failed]_vars
  <2> SUFFICES ASSUME SchedulerInv, BookInv, Counts, [Next]_vars, NEW m \in Starts, Alone(m), TurnInv(m),
                      NEW i \in DOMAIN Body[m], NEW j \in DOMAIN Body[m], used'.ops = 0, i < j,
                      started'[Body[m][j]] > started[Body[m][j]]
               PROVE  Body[m][i] \in ended \cup failed
    OBVIOUS
  <2>1. Body[m][j] \in Subs /\ StartOf[Body[m][j]] = m /\ started[Body[m][j]] \in Nat /\ Counting
    BY Parts DEF Counts, Counting
  <2>2. PICK w \in Workers : At(w, "startSub") /\ handler[w].sub = Body[m][j]
    BY <2>1, StartsPresent
  <2>3. InTurn(m, handler[w])
    BY <2>2, UsedGrows DEF TurnInv, At, Idle
  <2> QED
    BY <2>1, <2>2, <2>3 DEF InTurn, At, SubsOf
<1> QED
  BY <1>1, <1>2, <1>3, SchedulerInvariant, PTL DEF Spec, InOrder
=============================================================================
