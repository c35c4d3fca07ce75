---------------------------- MODULE RunJobProofs ----------------------------
(***************************************************************************)
(* Proofs about RunJob, for any sub tasks, files, requirements, handlers   *)
(* and bounds, either cluster, and any interleaving with crashes: types,   *)
(* InputsFirst, ReportsTrue, LimitKept and TextAgrees.                    *)
(*                                                                         *)
(* Handlers hold copies of rows over their waits.  What makes a copy safe  *)
(* to use later is that the facts it was judged by only grow: Advance says *)
(* how, and is proved of every step beside the invariant.                  *)
(***************************************************************************)
EXTENDS RunJob, FoldLemmas

\* A job of the cluster that was submitted for a sub task.
Linked(s, j) == j \in DOMAIN jobs /\ jobs[j].of = s

\* Every input of a sub task is on the cluster, in memory and on disk.
Ready(s) == \A f \in Inputs(s) : files[f] = "Both" /\ disk.files[f] = "Both"

\* A sub task that may have a job: it was started, and if only once, its inputs are there.
Prepared(s) == starts[s] >= 1 /\ (starts[s] = 1 => Ready(s))

\* A row that names a job names one of its sub task, whose inputs came first.
RowFits(s, row) == HasJob(row) => Linked(s, row.job) /\ Prepared(s)

\* The steps at which a handler waits for a command of the scheduler.
Commands == {"hold", "release", "remove"}

\* What a handler that waits has made sure of, with the copy of the row it holds: the copy may be
\* stale by the time it is written back.
Fits(h) ==
  /\ h.at \in {"idle", "refresh"} => h.copy = NoRow
  /\ h.at \notin {"idle", "refresh"} => h.sub \in Subs
  /\ h.at \in {"find", "submit", "qstat"} \cup Commands => h.copy \in Row /\ h.copy # NoRow
  /\ h.at \in {"qstat"} \cup Commands => h.copy.job # NoJob
  /\ RowFits(h.sub, h.copy)
  /\ h.at = "save and run" => starts[h.sub] >= 1
  /\ h.at \in {"find", "submit"} => Prepared(h.sub)

\* Every handler ...
HandlersFit == \A w \in Handlers : Fits(work[w])

\* ... every row, in memory and on disk ...
RowsFit == \A s \in Subs : RowFits(s, rows[s]) /\ RowFits(s, disk.rows[s])

\* ... and every download fit: a download is for an input of a sub task that was started.
ComingFits ==
  \A f \in Files : coming[f] > 0 \/ late[f] > 0 => KindOf[f] = "IN" /\ starts[OwnerOf[f]] >= 1

\* A file that is marked, in memory or on disk, was marked by the runner of its transfer.
MarksFit == \A f \in Files : "Both" \in {files[f], disk.files[f]} => f \in marked

\* The inductive invariant behind InputsFirst.
Fitting == HandlersFit /\ RowsFit /\ ComingFits /\ MarksFit

\* A sub task that may be reported failed ...
Unwell(s) == s \in trouble \/ Ended(s, FALSE)

\* ... and one whose job has ended well.
Computed(s) == \E j \in DOMAIN jobs : jobs[j].of = s /\ jobs[j].letter = "F" /\ Well(jobs[j].exit)

\* How the history moves, whatever the step.  Jobs are never forgotten, and do not change their
\* mind once they have ended; ...
JobsGo ==
  \A j \in DOMAIN jobs :
    /\ j \in DOMAIN jobs' /\ jobs'[j].of = jobs[j].of
    /\ jobs[j].letter \in {"E", "F"} => jobs'[j].letter \in {"E", "F"} /\ jobs'[j].exit = jobs[j].exit
    /\ jobs[j].letter = "F" => jobs'[j].letter = "F"

\* ... sub tasks are started more and more often; ...
StartsGo == \A s \in Subs : starts[s] <= starts'[s]

\* ... inputs that are there stay, unless their sub task is started again; ...
ReadyStays == \A s \in Subs : Ready(s) /\ starts[s] = starts'[s] => Ready(s)'

\* ... no file is newly marked but by its runner; ...
MarksStay ==
  \A f \in Files : "Both" \in {files'[f], disk'.files[f]} =>
     "Both" \in {files[f], disk.files[f]} \/ f \in marked'

\* ... and nothing that has happened is undone.
HistoryGrows == trouble \subseteq trouble' /\ marked \subseteq marked'

\* All of it: every step advances.
Advance == JobsGo /\ StartsGo /\ ReadyStays /\ MarksStay /\ HistoryGrows

-----------------------------------------------------------------------------
\* What a step leaves true: a prepared sub task, ...
LEMMA PreparedStays ==
  ASSUME TypeOK, TypeOK', Advance, NEW s \in Subs, Prepared(s)
  PROVE  Prepared(s)'
<1>1. starts[s] \in Nat /\ starts'[s] \in Nat /\ starts[s] <= starts'[s]
  BY DEF Advance, StartsGo, TypeOK
<1>2. starts'[s] = 1 => Ready(s)'
  BY <1>1 DEF Advance, ReadyStays, Prepared
<1> QED BY <1>1, <1>2 DEF Prepared

\* ... the marks, ...
LEMMA MarksKept ==
  ASSUME Advance, Fitting
  PROVE  MarksFit'
BY DEF Advance, MarksStay, HistoryGrows, Fitting, MarksFit

\* ... the sub task of a job, ...
LEMMA LinkedStays ==
  ASSUME Advance, NEW s \in Subs, NEW j, Linked(s, j)
  PROVE  Linked(s, j)'
BY DEF Advance, JobsGo, Linked

\* ... the fitness of a row, also of a copy that a handler holds, ...
LEMMA RowStays ==
  ASSUME TypeOK, TypeOK', Advance, NEW s \in Subs, NEW row, RowFits(s, row)
  PROVE  RowFits(s, row)'
<1> SUFFICES ASSUME HasJob(row) PROVE Linked(s, row.job)' /\ Prepared(s)'
  BY DEF RowFits, HasJob
<1>1. Linked(s, row.job) /\ Prepared(s)
  BY DEF RowFits
<1> QED BY <1>1, LinkedStays, PreparedStays

\* ... a failure ...
LEMMA UnwellStays ==
  ASSUME TypeOK, Advance, NEW s, Unwell(s)
  PROVE  Unwell(s)'
BY DEF Advance, JobsGo, HistoryGrows, Unwell, Ended

\* ... and a success.
LEMMA ComputedStays ==
  ASSUME TypeOK, Advance, NEW s, Computed(s)
  PROVE  Computed(s)'
BY DEF Advance, JobsGo, Computed

\* A handler that waits keeps what it has made sure of, whatever the others do.
LEMMA FitsStays ==
  ASSUME TypeOK, TypeOK', Advance, NEW h, Fits(h)
  PROVE  Fits(h)'
<1>1. CASE h.at \in {"idle", "refresh"}
  BY <1>1 DEF Fits, RowFits, HasJob, Commands
<1>2. CASE h.at \notin {"idle", "refresh"}
  <2>1. h.sub \in Subs /\ RowFits(h.sub, h.copy)
    BY <1>2 DEF Fits
  <2>2. RowFits(h.sub, h.copy)'
    BY <2>1, RowStays
  <2>3. starts[h.sub] >= 1 => starts'[h.sub] >= 1
    BY <2>1 DEF TypeOK, Advance, StartsGo
  <2>4. Prepared(h.sub) => Prepared(h.sub)'
    BY <2>1, PreparedStays
  <2> QED BY <1>2, <2>1, <2>2, <2>3, <2>4 DEF Fits
<1> QED BY <1>1, <1>2

\* A handler with nothing in hand fits.
LEMMA RestFits ==
  ASSUME NEW h, h.at \in {"idle", "refresh"}, h.copy = NoRow
  PROVE  Fits(h) /\ Fits(h)'
BY DEF Fits, RowFits, HasJob, Commands

\* When one handler goes on and fits, all do.
LEMMA GoneFits ==
  ASSUME TypeOK, TypeOK', Advance, HandlersFit, NEW w \in Handlers, NEW h, Goto(w, h), Fits(h)'
  PROVE  HandlersFit'
<1> SUFFICES ASSUME NEW x \in Handlers PROVE Fits(work[x])'
  BY DEF HandlersFit
<1>1. CASE x = w
  BY <1>1 DEF Goto, TypeOK
<1>2. CASE x # w
  <2>1. work'[x] = work[x] /\ Fits(work[x])
    BY <1>2 DEF Goto, TypeOK, HandlersFit
  <2>2. \A h2 : Fits(h2) => Fits(h2)'
    BY FitsStays
  <2> QED BY <2>1, <2>2
<1> QED BY <1>1, <1>2

\* When no handler goes on, all fit.
LEMMA SameHandlersFit ==
  ASSUME TypeOK, TypeOK', Advance, HandlersFit, work' = work
  PROVE  HandlersFit'
<1> SUFFICES ASSUME NEW x \in Handlers PROVE Fits(work[x])'
  BY DEF HandlersFit
<1>1. Fits(work[x]) /\ work'[x] = work[x]
  BY DEF HandlersFit
<1>2. \A h2 : Fits(h2) => Fits(h2)'
  BY FitsStays
<1> QED BY <1>1, <1>2

\* Rows that are kept, saved or read back fit.
LEMMA SameRowsFit ==
  ASSUME TypeOK, TypeOK', Advance, RowsFit,
         \A s \in Subs : rows'[s] \in {rows[s], disk.rows[s]},
         \A s \in Subs : disk'.rows[s] \in {rows[s], disk.rows[s]}
  PROVE  RowsFit'
<1> SUFFICES ASSUME NEW s \in Subs PROVE RowFits(s, rows[s])' /\ RowFits(s, disk.rows[s])'
  BY DEF RowsFit
<1>1. \A row : RowFits(s, row) => RowFits(s, row)'
  BY RowStays
<1>2. RowFits(s, rows[s]) /\ RowFits(s, disk.rows[s])
  BY DEF RowsFit
<1> QED BY <1>1, <1>2

\* Rows fit after one of them was replaced by a fitting one.
LEMMA SetRowFits ==
  ASSUME TypeOK, TypeOK', Advance, RowsFit, NEW s \in Subs, NEW row,
         rows' = [rows EXCEPT ![s] = row], disk' = disk, RowFits(s, row)'
  PROVE  RowsFit'
<1> SUFFICES ASSUME NEW t \in Subs PROVE RowFits(t, rows[t])' /\ RowFits(t, disk.rows[t])'
  BY DEF RowsFit
<1>1. \A r : RowFits(t, r) => RowFits(t, r)'
  BY RowStays
<1>2. RowFits(t, rows[t]) /\ RowFits(t, disk.rows[t])
  BY DEF RowsFit
<1>3. IF t = s THEN rows'[t] = row ELSE rows'[t] = rows[t]
  BY DEF TypeOK, Table
<1> QED BY <1>1, <1>2, <1>3

\* The status of a row has no part in its fitness.
LEMMA NewStatusFits ==
  ASSUME NEW s, NEW row \in Row, row # NoRow, NEW st, RowFits(s, row)
  PROVE  RowFits(s, [row EXCEPT !.status = st])
BY DEF RowFits, HasJob, Row

-----------------------------------------------------------------------------
\* Types: of a row with another status, ...
LEMMA StatusKept ==
  ASSUME NEW row \in Row, NEW st \in Status
  PROVE  [row EXCEPT !.status = st] \in Row
BY DEF Row

\* ... of the table with another row, ...
LEMMA TableKept ==
  ASSUME rows \in Table, NEW s \in Subs, NEW row \in Row \cup {NoRow}
  PROVE  [rows EXCEPT ![s] = row] \in Table
BY DEF Table

\* ... of the states a handler goes to ...
LEMMA RestTyped ==
  ASSUME NEW h \in Handling
  PROVE  /\ Idle \in Handling /\ Idle.at = "idle" /\ Idle.copy = NoRow
         /\ \A st \in Steps, s \in Subs : [Idle EXCEPT !.at = st, !.sub = s] \in Handling
         /\ \A ts \in SUBSET Subs : [Idle EXCEPT !.at = "refresh", !.todo = ts] \in Handling
         /\ \A st \in Steps : [h EXCEPT !.at = st] \in Handling
BY DEF Idle, Handling, Steps, Saves

\* ... and of what refresh_all_status goes on with.
LEMMA OnwardRests ==
  ASSUME TypeOK, NEW w \in Handlers
  PROVE  /\ Onward(w) \in Handling
         /\ Onward(w).at \in {"idle", "refresh"} /\ Onward(w).copy = NoRow
<1>1. work[w] \in Handling
  BY DEF TypeOK
<1>2. work[w].todo \in SUBSET Subs
  BY <1>1 DEF Handling
<1>3. Idle \in Handling /\ [Idle EXCEPT !.at = "refresh", !.todo = work[w].todo] \in Handling
  BY <1>1, <1>2, RestTyped
<1> QED BY <1>3 DEF Onward, Idle

\* Steps that leave the jobs and the starts alone advance.
LEMMA SameAdvances ==
  ASSUME jobs' = jobs, starts' = starts, TypeOK, trouble \subseteq trouble', marked \subseteq marked',
         ReadyStays, MarksStay
  PROVE  Advance
<1>1. JobsGo
  BY DEF JobsGo
<1>2. StartsGo
  BY DEF StartsGo, TypeOK
<1> QED BY <1>1, <1>2 DEF Advance, HistoryGrows

\* Files that are kept, saved, read back or marked stay ready.
LEMMA ReadyKept ==
  ASSUME TypeOK,
         \A f \in Files : KindOf[f] = "IN" =>
            /\ files'[f] \in {files[f], disk.files[f], "Both"}
            /\ disk'.files[f] \in {files[f], disk.files[f]}
  PROVE  ReadyStays
BY DEF ReadyStays, Ready, Inputs

\* The type of the handlers after one has gone on.
LEMMA GotoTyped ==
  ASSUME TypeOK, NEW w \in Handlers, NEW h \in Handling, Goto(w, h)
  PROVE  work' \in [Handlers -> Handling] /\ work'[w] = h
BY DEF TypeOK, Goto

-----------------------------------------------------------------------------
\* enqueue_sub_task marks the inputs as not yet there: a start more.
LEMMA EnqueueSubTaskFits ==
  ASSUME TypeOK, Fitting, NEW w \in Handlers, NEW s \in Subs, EnqueueSubTask(w, s)
  PROVE  TypeOK' /\ Advance /\ Fitting'
<1> DEFINE h == [Idle EXCEPT !.at = IF Inputs(s) = {} THEN "save and run" ELSE "save", !.sub = s]
<1>1. h \in Handling /\ Goto(w, h)
  BY RestTyped DEF EnqueueSubTask, Begin, TypeOK, Steps, Saves
<1>2. h.sub = s /\ h.copy = NoRow /\ h.at \in {"save", "save and run"}
  BY DEF Idle
<1> HIDE DEF h
<1>3. rows[s] \in Row /\ rows[s] # NoRow
  BY DEF EnqueueSubTask, Present, TypeOK, Table
<1>4. [rows[s] EXCEPT !.status = "Running"] \in Row
  BY <1>3, StatusKept DEF Status
<1>5. rows' = [rows EXCEPT ![s] = [rows[s] EXCEPT !.status = "Running"]] /\ rows' \in Table
  BY <1>4, TableKept DEF EnqueueSubTask, TypeOK
<1>6. starts' = [starts EXCEPT ![s] = starts[s] + 1] /\ starts' \in [Subs -> 0..MaxStarts]
  <2>1. MaxStarts \in Nat /\ starts[s] \in 0..MaxStarts /\ starts[s] < MaxStarts
    BY RunJobAssumption DEF EnqueueSubTask, TypeOK
  <2>2. starts[s] + 1 \in 0..MaxStarts
    BY <2>1
  <2>3. starts' = [starts EXCEPT ![s] = starts[s] + 1] /\ starts \in [Subs -> 0..MaxStarts]
    BY DEF EnqueueSubTask, TypeOK
  <2> QED BY <2>2, <2>3
<1>7. files' \in FileTable /\ coming' \in [Files -> Nat]
  <2>1. files \in FileTable /\ coming \in [Files -> Nat] /\ "Downloading" \in FileStatus
    BY DEF TypeOK, FileStatus
  <2>2. files' = [f \in Files |-> IF f \in Inputs(s) THEN "Downloading" ELSE files[f]]
    BY DEF EnqueueSubTask
  <2>3. coming' = [f \in Files |-> IF f \in Inputs(s) THEN coming[f] + 1 ELSE coming[f]]
    BY DEF EnqueueSubTask
  <2>4. \A f \in Files : coming[f] + 1 \in Nat
    BY <2>1
  <2> QED BY <2>1, <2>2, <2>3, <2>4 DEF FileTable
<1>8. TypeOK'
  BY <1>1, <1>5, <1>6, <1>7, GotoTyped DEF EnqueueSubTask, TypeOK, history
<1>9. Advance
  <2>1. JobsGo /\ HistoryGrows
    BY DEF JobsGo, HistoryGrows, EnqueueSubTask, history
  <2>2. StartsGo
    BY <1>6 DEF StartsGo, TypeOK
  <2>3. ReadyStays
    <3> SUFFICES ASSUME NEW t \in Subs, Ready(t), starts[t] = starts'[t] PROVE Ready(t)'
      BY DEF ReadyStays
    <3>1. t # s
      BY <1>6 DEF TypeOK
    <3>2. \A f \in Inputs(t) : files'[f] = files[f] /\ disk'.files = disk.files
      BY <3>1 DEF Inputs, EnqueueSubTask
    <3> QED BY <3>2 DEF Ready, Inputs
  <2>4. MarksStay
    BY DEF MarksStay, EnqueueSubTask
  <2> QED BY <2>1, <2>2, <2>3, <2>4 DEF Advance
<1>10. HandlersFit'
  <2>1. starts'[s] >= 1
    BY <1>6 DEF TypeOK
  <2>2. Fits(h)'
    BY <1>2, <2>1 DEF Fits, RowFits, HasJob, Commands
  <2> QED BY <1>1, <1>8, <1>9, <2>2, GoneFits DEF Fitting
<1>11. RowsFit'
  <2>1. RowFits(s, [rows[s] EXCEPT !.status = "Running"])
    BY <1>3, NewStatusFits DEF Fitting, RowsFit
  <2>2. \A r : RowFits(s, r) => RowFits(s, r)'
    BY <1>8, <1>9, RowStays
  <2>3. ASSUME NEW row, row = [rows[s] EXCEPT !.status = "Running"] PROVE RowsFit'
    <3>1. RowFits(s, row)'
      BY <2>1, <2>2, <2>3
    <3>2. disk' = disk
      BY DEF EnqueueSubTask
    <3> QED BY <1>5, <1>8, <1>9, <2>3, <3>1, <3>2, SetRowFits DEF Fitting
  <2> QED BY <2>3
<1>12. ComingFits'
  <2> SUFFICES ASSUME NEW f \in Files, coming'[f] > 0 \/ late'[f] > 0
               PROVE  KindOf[f] = "IN" /\ starts'[OwnerOf[f]] >= 1
    BY DEF ComingFits
  <2>1. OwnerOf[f] \in Subs
    BY RunJobAssumption
  <2>2. CASE f \in Inputs(s)
    BY <1>6, <2>1, <2>2 DEF Inputs, TypeOK
  <2>3. CASE f \notin Inputs(s)
    <3>1. coming[f] > 0 \/ late[f] > 0
      BY <2>3 DEF EnqueueSubTask
    <3> QED BY <1>6, <2>1, <3>1 DEF Fitting, ComingFits, TypeOK
  <2> QED BY <2>2, <2>3
<1> QED BY <1>8, <1>9, <1>10, <1>11, <1>12, MarksKept DEF Fitting

-----------------------------------------------------------------------------
\* The files are kept, saved, read back or marked by their runners.
FilesGo ==
  /\ MarksStay
  /\ \A f \in Files : KindOf[f] = "IN" =>
       /\ files'[f] \in {files[f], disk.files[f], "Both"}
       /\ disk'.files[f] \in {files[f], disk.files[f]}

\* Steps of this kind advance.
LEMMA Carries ==
  ASSUME TypeOK, TypeOK', jobs' = jobs, starts' = starts, trouble \subseteq trouble',
         marked \subseteq marked', FilesGo
  PROVE  Advance
<1>1. ReadyStays
  BY ReadyKept DEF FilesGo
<1> QED BY <1>1, SameAdvances DEF FilesGo

\* No new download.
ComingGoes ==
  \A f \in Files : coming'[f] <= coming[f] /\ (late'[f] <= late[f] \/ coming[f] > 0)

\* Downloads still fit when there are no new ones.
LEMMA ComingKept ==
  ASSUME TypeOK, TypeOK', Advance, ComingFits, ComingGoes
  PROVE  ComingFits'
<1> SUFFICES ASSUME NEW f \in Files, coming'[f] > 0 \/ late'[f] > 0
             PROVE  KindOf[f] = "IN" /\ starts'[OwnerOf[f]] >= 1
  BY DEF ComingFits
<1>1. OwnerOf[f] \in Subs
  BY RunJobAssumption
<1>2. coming[f] > 0 \/ late[f] > 0
  <2>1. /\ coming[f] \in Nat /\ coming'[f] \in Nat /\ coming'[f] <= coming[f]
        /\ late[f] \in Nat /\ late'[f] \in Nat /\ (late'[f] <= late[f] \/ coming[f] > 0)
    BY DEF TypeOK, ComingGoes
  <2> QED BY <2>1
<1>3. KindOf[f] = "IN" /\ starts[OwnerOf[f]] >= 1
  BY <1>2 DEF ComingFits
<1>4. starts[OwnerOf[f]] \in Nat /\ starts'[OwnerOf[f]] \in Nat /\ starts[OwnerOf[f]] <= starts'[OwnerOf[f]]
  BY <1>1 DEF TypeOK, Advance, StartsGo
<1> QED BY <1>3, <1>4

\* A handler goes on and the table is kept, or saved.
LEMMA KeepsTable ==
  ASSUME TypeOK, TypeOK', Fitting, Advance, ComingGoes, NEW w \in Handlers, NEW h, Goto(w, h), Fits(h)',
         rows' = rows, disk' \in {disk, Memory}
  PROVE  Fitting'
<1>1. HandlersFit'
  BY GoneFits DEF Fitting
<1>2. RowsFit'
  BY SameRowsFit DEF Fitting, Memory
<1>3. ComingFits'
  BY ComingKept DEF Fitting
<1> QED BY <1>1, <1>2, <1>3, MarksKept DEF Fitting

\* A handler goes on and a row is replaced.
LEMMA SetsRow ==
  ASSUME TypeOK, TypeOK', Fitting, Advance, ComingGoes, NEW w \in Handlers, NEW h, Goto(w, h), Fits(h)',
         NEW s \in Subs, NEW row, RowFits(s, row)', rows' = [rows EXCEPT ![s] = row], disk' = disk
  PROVE  Fitting'
<1>1. HandlersFit'
  BY GoneFits DEF Fitting
<1>2. RowsFit'
  BY SetRowFits DEF Fitting
<1>3. ComingFits'
  BY ComingKept DEF Fitting
<1> QED BY <1>1, <1>2, <1>3, MarksKept DEF Fitting

\* Downloads that are left alone ...
LEMMA ComingUnchanged ==
  ASSUME TypeOK, coming' = coming, late' = late
  PROVE  ComingGoes
BY DEF ComingGoes, TypeOK

\* ... or have ended ...
LEMMA ComingLess ==
  ASSUME TypeOK, NEW f \in Files, coming[f] > 0, coming' = [coming EXCEPT ![f] = @ - 1],
         late' = late \/ late' = [late EXCEPT ![f] = @ + 1]
  PROVE  coming' \in [Files -> Nat] /\ late' \in [Files -> Nat] /\ ComingGoes
<1>1. coming \in [Files -> Nat] /\ coming[f] - 1 \in Nat /\ late \in [Files -> Nat] /\ late[f] + 1 \in Nat
  BY DEF TypeOK
<1>2. coming' \in [Files -> Nat] /\ late' \in [Files -> Nat]
  BY <1>1
<1>3. ASSUME NEW g \in Files PROVE coming'[g] <= coming[g] /\ (late'[g] <= late[g] \/ coming[g] > 0)
  <2>1. coming[g] \in Nat /\ coming'[g] = IF g = f THEN coming[f] - 1 ELSE coming[g]
    BY <1>1
  <2>2. late[g] \in Nat /\ (g # f => late'[g] = late[g])
    BY <1>1
  <2> QED BY <2>1, <2>2
<1> QED BY <1>2, <1>3 DEF ComingGoes

\* ... or are about to call run_job ...
LEMMA LateLess ==
  ASSUME TypeOK, NEW f \in Files, late[f] > 0, late' = [late EXCEPT ![f] = @ - 1], coming' = coming
  PROVE  late' \in [Files -> Nat] /\ ComingGoes
<1>1. late \in [Files -> Nat] /\ late[f] - 1 \in Nat /\ coming \in [Files -> Nat]
  BY DEF TypeOK
<1>2. late' \in [Files -> Nat]
  BY <1>1
<1>3. ASSUME NEW g \in Files PROVE coming'[g] <= coming[g] /\ late'[g] <= late[g]
  <2>1. late[g] \in Nat /\ late'[g] = (IF g = f THEN late[f] - 1 ELSE late[g]) /\ coming[g] \in Nat
    BY <1>1
  <2> QED BY <2>1
<1> QED BY <1>2, <1>3 DEF ComingGoes

\* ... and uploads that have ended.
LEMMA GoingLess ==
  ASSUME TypeOK, NEW f \in Files, going[f] > 0, going' = [going EXCEPT ![f] = @ - 1]
  PROVE  going' \in [Files -> Nat]
<1>1. going \in [Files -> Nat] /\ going[f] - 1 \in Nat
  BY DEF TypeOK
<1> QED BY <1>1

\* A file that is marked.
LEMMA MarkedBoth ==
  ASSUME TypeOK, NEW f \in Files, Mark(f), disk' = disk
  PROVE  files' \in FileTable /\ FilesGo /\ marked' \subseteq Files /\ marked \subseteq marked'
BY DEF TypeOK, FileTable, FileStatus, FilesGo, MarksStay, Mark

\* A save leaves the files as they are.
LEMMA SavedFiles ==
  ASSUME TypeOK, files' = files, disk' \in {disk, Memory}
  PROVE  FilesGo /\ disk' \in [rows : Table, files : FileTable]
BY DEF TypeOK, FilesGo, MarksStay, Memory

\* run_job, called when a download has gone through.
LEMMA DownloadedFits ==
  ASSUME TypeOK, Fitting, NEW w \in Handlers, NEW f \in Files, Downloaded(w, f) \/ RunAnyway(w, f)
  PROVE  TypeOK' /\ Advance /\ Fitting'
<1>0. OwnerOf[f] \in Subs
  BY RunJobAssumption
<1> DEFINE h == [Idle EXCEPT !.at = "save and run", !.sub = OwnerOf[f]]
<1>1. h \in Handling /\ Goto(w, h)
  BY <1>0, RestTyped DEF Downloaded, RunAnyway, Begin, TypeOK, Steps, Saves
<1>2. h.sub = OwnerOf[f] /\ h.copy = NoRow /\ h.at = "save and run"
  BY DEF Idle
<1> HIDE DEF h
<1>a. Mark(f) /\ UNCHANGED <<rows, disk, going, jobs, due, told, trouble, starts, ops, errors, crashes>>
  BY DEF Downloaded, RunAnyway, counts
<1>b. coming' \in [Files -> Nat] /\ late' \in [Files -> Nat] /\ ComingGoes
  <2>1. CASE Downloaded(w, f)
    BY <2>1, ComingLess DEF Downloaded
  <2>2. CASE RunAnyway(w, f)
    BY <2>2, LateLess DEF RunAnyway, TypeOK
  <2> QED BY <2>1, <2>2
<1>3. files' \in FileTable /\ FilesGo /\ marked' \subseteq Files /\ marked \subseteq marked'
  BY <1>a, MarkedBoth
<1>4. TypeOK'
  BY <1>1, <1>3, <1>a, <1>b, GotoTyped DEF TypeOK
<1>5. Advance
  BY <1>3, <1>4, <1>a, Carries
<1>6. Fits(h)'
  <2>1. starts'[OwnerOf[f]] >= 1
    BY <1>a DEF Downloaded, RunAnyway, Fitting, ComingFits
  <2> QED BY <1>0, <1>2, <2>1 DEF Fits, RowFits, HasJob, Commands
<1>7. Fitting'
  BY <1>1, <1>4, <1>5, <1>6, <1>a, <1>b, KeepsTable
<1> QED BY <1>4, <1>5, <1>7

\* fail_job marks the row: ...
LEMMA FailRowFits ==
  ASSUME TypeOK, TypeOK', Fitting, Advance, ComingGoes, NEW w \in Handlers, NEW s \in Subs,
         Present(s), FailRow(s), Begin(w, "save and fail", s), disk' = disk
  PROVE  Fitting'
<1>1. rows[s] \in Row /\ rows[s] # NoRow /\ RowFits(s, rows[s])
  BY DEF TypeOK, Table, Present, Fitting, RowsFit
<1>2. ASSUME NEW row, row = [rows[s] EXCEPT !.status = "Failed"] PROVE RowFits(s, row)'
  <2>1. RowFits(s, row)
    BY <1>1, <1>2, NewStatusFits
  <2> QED BY <2>1, RowStays
<1>3. ASSUME NEW h, h = [Idle EXCEPT !.at = "save and fail", !.sub = s] PROVE Goto(w, h) /\ Fits(h)'
  BY <1>3 DEF Fits, RowFits, HasJob, Commands, Idle, Begin
<1>4. rows' = [rows EXCEPT ![s] = [rows[s] EXCEPT !.status = "Failed"]]
  BY DEF FailRow
<1>5. ASSUME NEW h, h = [Idle EXCEPT !.at = "save and fail", !.sub = s],
             NEW row, row = [rows[s] EXCEPT !.status = "Failed"]
      PROVE  Fitting'
  BY <1>2, <1>3, <1>4, <1>5, SetsRow
<1> QED BY <1>5

\* ... its type.
LEMMA FailRowTyped ==
  ASSUME TypeOK, NEW w \in Handlers, NEW s \in Subs,
         Present(s), FailRow(s), Begin(w, "save and fail", s)
  PROVE  rows' \in Table /\ work' \in [Handlers -> Handling]
<1>1. rows[s] \in Row
  BY DEF TypeOK, Table, Present
<1>2. [rows[s] EXCEPT !.status = "Failed"] \in Row
  BY <1>1, StatusKept DEF Status
<1>3. rows' \in Table
  BY <1>2, TableKept DEF TypeOK, FailRow
<1>4. [Idle EXCEPT !.at = "save and fail", !.sub = s] \in Handling
  BY RestTyped DEF TypeOK, Steps, Saves
<1> QED BY <1>3, <1>4, GotoTyped DEF Begin

\* Steps that leave rows and handlers alone.
LEMMA SameFits ==
  ASSUME TypeOK, TypeOK', Fitting, Advance, ComingGoes, work' = work, rows' = rows, disk' = disk
  PROVE  Fitting'
<1>1. HandlersFit'
  BY SameHandlersFit DEF Fitting
<1>2. RowsFit'
  BY SameRowsFit DEF Fitting
<1> QED BY <1>1, <1>2, ComingKept, MarksKept DEF Fitting

\* fail_job: rows and handlers keep their shape.
LEMMA FailJobTyped ==
  ASSUME TypeOK, NEW w \in Handlers, NEW s \in Subs, FailJob(w, s)
  PROVE  /\ rows' \in Table /\ work' \in [Handlers -> Handling]
         /\ trouble' \subseteq Subs /\ trouble \subseteq trouble'
<1>1. rows' \in Table /\ work' \in [Handlers -> Handling]
  <2>1. CASE Present(s)
    BY <2>1, FailRowTyped DEF FailJob
  <2>2. CASE ~ Present(s)
    BY <2>2 DEF FailJob, TypeOK
  <2> QED BY <2>1, <2>2
<1>2. trouble' \subseteq Subs /\ trouble \subseteq trouble'
  BY DEF FailJob, TypeOK
<1> QED BY <1>1, <1>2

\* fail_job: they still fit.
LEMMA FailJobFits ==
  ASSUME TypeOK, TypeOK', Fitting, Advance, ComingGoes, NEW w \in Handlers, NEW s \in Subs, FailJob(w, s),
         disk' = disk
  PROVE  Fitting'
<1>1. CASE Present(s)
  BY <1>1, FailRowFits DEF FailJob
<1>2. CASE ~ Present(s)
  BY <1>2, SameFits DEF FailJob
<1> QED BY <1>1, <1>2

\* fail_job, called when a download, a copy or an upload has failed.
LEMMA TransferFailsFits ==
  ASSUME TypeOK, Fitting, NEW w \in Handlers, NEW f \in Files,
         DownloadFails(w, f) \/ CopyFails(w, f) \/ UploadFails(w, f)
  PROVE  TypeOK' /\ Advance /\ Fitting'
<1>0. OwnerOf[f] \in Subs
  BY RunJobAssumption
<1>1. /\ FailJob(w, OwnerOf[f])
      /\ UNCHANGED <<files, disk, jobs, due, told, marked, starts, ops, errors, crashes>>
  BY DEF DownloadFails, CopyFails, UploadFails, counts
<1>2. coming' \in [Files -> Nat] /\ late' \in [Files -> Nat] /\ going' \in [Files -> Nat] /\ ComingGoes
  <2>1. CASE DownloadFails(w, f)
    BY <2>1, ComingLess DEF DownloadFails, TypeOK
  <2>2. CASE CopyFails(w, f)
    BY <2>2, ComingLess DEF CopyFails, TypeOK
  <2>3. CASE UploadFails(w, f)
    BY <2>3, GoingLess, ComingUnchanged DEF UploadFails, TypeOK
  <2> QED BY <2>1, <2>2, <2>3
<1>3. /\ rows' \in Table /\ work' \in [Handlers -> Handling]
      /\ trouble' \subseteq Subs /\ trouble \subseteq trouble'
  BY <1>0, <1>1, FailJobTyped
<1>4. TypeOK'
  BY <1>1, <1>2, <1>3 DEF TypeOK
<1>5. Advance
  <2>1. FilesGo
    BY <1>1, SavedFiles
  <2> QED BY <1>1, <1>3, <1>4, <2>1, Carries
<1> QED BY <1>0, <1>1, <1>2, <1>4, <1>5, FailJobFits

\* A runner that dies calls nobody.
LEMMA TransferDiesFits ==
  ASSUME TypeOK, Fitting, NEW f \in Files, TransferDies(f)
  PROVE  TypeOK' /\ Advance /\ Fitting'
<1>1. UNCHANGED <<rows, files, disk, jobs, work, due, told, marked, trouble, starts, ops, crashes>> /\ late' = late
  BY DEF TransferDies, tables, history
<1>2. coming' \in [Files -> Nat] /\ going' \in [Files -> Nat] /\ ComingGoes
  <2>1. CASE coming[f] > 0 /\ coming' = [coming EXCEPT ![f] = @ - 1] /\ going' = going
    BY <1>1, <2>1, ComingLess DEF TypeOK
  <2>2. CASE going[f] > 0 /\ going' = [going EXCEPT ![f] = @ - 1] /\ coming' = coming
    BY <1>1, <2>2, GoingLess, ComingUnchanged DEF TypeOK
  <2> QED BY <2>1, <2>2 DEF TransferDies
<1>3. errors' \in 0..MaxErrors
  BY RunJobAssumption DEF TransferDies, Err, TypeOK
<1>4. TypeOK'
  BY <1>1, <1>2, <1>3 DEF TypeOK
<1>5. Advance
  BY <1>1, <1>4, SavedFiles, Carries
<1> QED BY <1>1, <1>2, <1>4, <1>5, SameFits

-----------------------------------------------------------------------------
\* What is known of a handler.
LEMMA HandlerFits ==
  ASSUME TypeOK, Fitting, NEW w \in Handlers
  PROVE  work[w] \in Handling /\ Fits(work[w])
BY DEF TypeOK, Fitting, HandlersFit

\* Steps before which a handler has written its copy back.
AfterSteps == {"save", "save and fail", "save and send", "save and complete"}

\* A handler that goes on to save, with the copy it had.
LEMMA BecomesFits ==
  ASSUME TypeOK, TypeOK', Fitting, Advance, NEW w \in Handlers, work[w].at \notin {"idle", "refresh"},
         NEW step \in AfterSteps, NEW h, h = [work[w] EXCEPT !.at = step]
  PROVE  Fits(h)'
<1>1. work[w] \in Handling /\ Fits(work[w])
  BY HandlerFits
<1>2. h.sub = work[w].sub /\ h.copy = work[w].copy /\ h.at \in AfterSteps
  BY <1>1 DEF Handling
<1>3. h.sub \in Subs /\ RowFits(h.sub, h.copy)
  BY <1>1, <1>2 DEF Fits
<1>4. RowFits(h.sub, h.copy)'
  BY <1>3, RowStays
<1> QED BY <1>2, <1>3, <1>4 DEF Fits, Commands, AfterSteps

\* A handler that returns, or goes on with the next sub task.
LEMMA RestStep ==
  ASSUME TypeOK, TypeOK', Fitting, Advance, ComingGoes, NEW w \in Handlers, NEW h,
         h.at \in {"idle", "refresh"}, h.copy = NoRow, Goto(w, h), rows' = rows, disk' \in {disk, Memory}
  PROVE  Fitting'
BY RestFits, KeepsTable

\* internal_run_job reads the row once all inputs are there and saved.
LEMMA RunSavedFits ==
  ASSUME TypeOK, Fitting, NEW w \in Handlers, RunSaved(w)
  PROVE  TypeOK' /\ Advance /\ Fitting'
<1> DEFINE s == work[w].sub
           g == IF AllBoth(Inputs(s))
                THEN IF Present(s)
                     THEN [work[w] EXCEPT !.copy = rows[s], !.at = IF Facility[s] = "Other" THEN "submit" ELSE "find"]
                     ELSE Idle
                ELSE [work[w] EXCEPT !.at = "save"]
<1>0. work[w] \in Handling /\ work[w].at = "save and run" /\ Fits(work[w]) /\ s \in Subs /\ starts[s] >= 1
  BY HandlerFits DEF RunSaved, At, Fits
<1>1. Goto(w, g)
  BY DEF RunSaved, Return, Become
<1>2. g \in Handling
  <2>1. Idle \in Handling /\ [work[w] EXCEPT !.at = "save"] \in Handling
    BY <1>0, RestTyped DEF Steps, Saves
  <2>2. rows[s] \in Row \cup {NoRow}
    BY <1>0 DEF TypeOK, Table
  <2>3. [work[w] EXCEPT !.copy = rows[s], !.at = IF Facility[s] = "Other" THEN "submit" ELSE "find"] \in Handling
    BY <1>0, <2>2 DEF Handling, Steps, Saves
  <2> QED BY <2>1, <2>3
<1>3. disk' = Memory /\ files' = files /\ rows' = rows /\ jobs' = jobs /\ starts' = starts
  BY DEF RunSaved, Save, counts
<1>4. TypeOK'
  <2>1. disk' \in [rows : Table, files : FileTable]
    BY <1>3, SavedFiles
  <2> QED BY <1>1, <1>2, <2>1, GotoTyped DEF RunSaved, TypeOK, transfers, history, counts
<1>5. Advance /\ ComingGoes
  <2>1. FilesGo
    BY <1>3, SavedFiles
  <2> QED BY <1>3, <1>4, <2>1, Carries, ComingUnchanged DEF RunSaved, history, transfers
<1>6. CASE AllBoth(Inputs(s)) /\ Present(s)
  <2>1. PICK h : h = g
    OBVIOUS
  <2>2. h = [work[w] EXCEPT !.copy = rows[s], !.at = IF Facility[s] = "Other" THEN "submit" ELSE "find"]
    BY <1>6, <2>1
  <2>3. h.sub = s /\ h.copy = rows[s] /\ h.at \in {"find", "submit"}
    BY <1>0, <2>2 DEF Handling
  <2>4. h.copy \in Row /\ h.copy # NoRow /\ RowFits(h.sub, h.copy)
    BY <1>0, <1>6, <2>3 DEF TypeOK, Table, Present, Fitting, RowsFit
  <2>5. RowFits(h.sub, h.copy)'
    BY <1>0, <1>4, <1>5, <2>3, <2>4, RowStays
  <2>6. Prepared(h.sub)'
    <3>1. Ready(h.sub)'
      BY <1>3, <1>6, <2>3 DEF Ready, AllBoth, Memory
    <3> QED BY <1>0, <1>3, <2>3, <3>1 DEF Prepared
  <2>7. Fits(h)'
    BY <1>0, <2>3, <2>4, <2>5, <2>6 DEF Fits, Commands
  <2> HIDE DEF g
  <2> QED BY <1>1, <1>3, <1>4, <1>5, <2>1, <2>7, KeepsTable
<1>7. CASE AllBoth(Inputs(s)) /\ ~ Present(s)
  <2>1. Goto(w, Idle) /\ Idle.at = "idle" /\ Idle.copy = NoRow
    BY <1>1, <1>7 DEF Idle
  <2> QED BY <1>3, <1>4, <1>5, <2>1, RestStep
<1>8. CASE ~ AllBoth(Inputs(s))
  <2>1. PICK h : h = g
    OBVIOUS
  <2>2. h = [work[w] EXCEPT !.at = "save"]
    BY <1>8, <2>1
  <2>5. Fits(h)'
    BY <1>0, <1>4, <1>5, <2>2, BecomesFits DEF AfterSteps
  <2> HIDE DEF g
  <2> QED BY <1>1, <1>3, <1>4, <1>5, <2>1, <2>5, KeepsTable
<1> QED BY <1>4, <1>5, <1>6, <1>7, <1>8

\* A handler goes on and nothing but the disk, the reports and the errors changes: the type ...
LEMMA RestTypeStep ==
  ASSUME TypeOK, NEW w \in Handlers, NEW h \in Handling, Goto(w, h), rows' = rows, files' = files,
         disk' \in {disk, Memory}, jobs' = jobs, UNCHANGED <<transfers, marked, trouble, starts, ops, crashes>>,
         due' \subseteq told', told' \subseteq Subs \X Verdicts, errors' \in 0..MaxErrors
  PROVE  TypeOK'
<1>1. work' \in [Handlers -> Handling]
  BY GotoTyped
<1>2. disk' \in [rows : Table, files : FileTable]
  BY SavedFiles
<1> QED BY <1>1, <1>2 DEF TypeOK, transfers

\* ... and all of it when the handler returns.
LEMMA RestStepFits ==
  ASSUME TypeOK, Fitting, NEW w \in Handlers, NEW h \in Handling, Goto(w, h),
         h.at \in {"idle", "refresh"}, h.copy = NoRow, rows' = rows, files' = files,
         disk' \in {disk, Memory}, jobs' = jobs, UNCHANGED <<transfers, marked, trouble, starts, ops, crashes>>,
         due' \subseteq told', told' \subseteq Subs \X Verdicts, errors' \in 0..MaxErrors
  PROVE  TypeOK' /\ Advance /\ Fitting'
<1>1. TypeOK'
  BY RestTypeStep
<1>2. FilesGo
  BY SavedFiles
<1>3. Advance /\ ComingGoes
  BY <1>1, <1>2, Carries, ComingUnchanged DEF transfers
<1> QED BY <1>1, <1>3, RestStep

\* Errors stay within their bound.
LEMMA ErrTyped ==
  ASSUME TypeOK, Err
  PROVE  errors' \in 0..MaxErrors
<1>1. errors \in 0..MaxErrors /\ MaxErrors \in Nat /\ errors < MaxErrors /\ errors' = errors + 1
  BY RunJobAssumption DEF TypeOK, Err
<1> QED BY <1>1

\* The type of the reports.
LEMMA ToldTyped ==
  ASSUME TypeOK
  PROVE  due \subseteq told /\ told \subseteq Subs \X Verdicts /\ errors \in 0..MaxErrors
BY DEF TypeOK

\* A command of the cluster fails: the handler returns.
LEMMA ReturnFits ==
  ASSUME TypeOK, Fitting, NEW w \in Handlers, SubmitFails(w) \/ QstatFails(w)
  PROVE  TypeOK' /\ Advance /\ Fitting'
<1>1. Idle \in Handling /\ Idle.at = "idle" /\ Idle.copy = NoRow
  BY HandlerFits, RestTyped
<1>2. errors' \in 0..MaxErrors
  BY ErrTyped DEF SubmitFails, QstatFails
<1>3. due' \subseteq told' /\ told' \subseteq Subs \X Verdicts
  BY ToldTyped DEF SubmitFails, QstatFails, history
<1>4. /\ Goto(w, Idle) /\ rows' = rows /\ files' = files /\ disk' = disk /\ jobs' = jobs
      /\ UNCHANGED <<transfers, marked, trouble, starts, ops, crashes>>
  BY DEF SubmitFails, QstatFails, Return, tables, history
<1> QED BY <1>1, <1>2, <1>3, <1>4, RestStepFits

\* A save.
LEMMA SavedFits ==
  ASSUME TypeOK, Fitting, NEW w \in Handlers, Saved(w)
  PROVE  TypeOK' /\ Advance /\ Fitting'
<1>1. Onward(w) \in Handling /\ Onward(w).at \in {"idle", "refresh"} /\ Onward(w).copy = NoRow
  BY OnwardRests
<1>2. due' \subseteq told' /\ told' \subseteq Subs \X Verdicts /\ errors' \in 0..MaxErrors
  BY ToldTyped DEF Saved, history, counts
<1>3. /\ Goto(w, Onward(w)) /\ rows' = rows /\ files' = files /\ disk' = Memory /\ jobs' = jobs
      /\ UNCHANGED <<transfers, marked, trouble, starts, ops, crashes>>
  BY DEF Saved, Save, history, counts
<1> QED BY <1>1, <1>2, <1>3, RestStepFits

\* The type of the reports after one more.
LEMMA ReportTyped ==
  ASSUME TypeOK, NEW s \in Subs, NEW v \in Verdicts, Report(s, v)
  PROVE  due' \subseteq told' /\ told' \subseteq Subs \X Verdicts
BY DEF TypeOK, Report

\* fail_job reports after its save.
LEMMA FailSavedFits ==
  ASSUME TypeOK, Fitting, NEW w \in Handlers, FailSaved(w)
  PROVE  TypeOK' /\ Advance /\ Fitting'
<1>1. Onward(w) \in Handling /\ Onward(w).at \in {"idle", "refresh"} /\ Onward(w).copy = NoRow
  BY OnwardRests
<1>2. work[w].sub \in Subs
  BY HandlerFits DEF FailSaved, At, Fits
<1>3. due' \subseteq told' /\ told' \subseteq Subs \X Verdicts
  BY <1>2, ReportTyped DEF FailSaved, Verdicts
<1>4. errors' \in 0..MaxErrors
  BY ToldTyped DEF FailSaved, counts
<1>5. /\ Goto(w, Onward(w)) /\ rows' = rows /\ files' = files /\ disk' = Memory /\ jobs' = jobs
      /\ UNCHANGED <<transfers, marked, trouble, starts, ops, crashes>>
  BY DEF FailSaved, Save, counts
<1> QED BY <1>1, <1>3, <1>4, <1>5, RestStepFits

\* The tick.
LEMMA RefreshAllFits ==
  ASSUME TypeOK, Fitting, NEW w \in Handlers, RefreshAll(w)
  PROVE  TypeOK' /\ Advance /\ Fitting'
<1>1. PICK h : h = [Idle EXCEPT !.at = "refresh", !.todo = Refreshable]
  OBVIOUS
<1>2. h \in Handling
  <2>1. Refreshable \in SUBSET Subs
    BY DEF Refreshable
  <2> QED BY <1>1, <2>1, RestTyped, HandlerFits
<1>3. h.at = "refresh" /\ h.copy = NoRow
  BY <1>1 DEF Idle
<1>4. due' \subseteq told' /\ told' \subseteq Subs \X Verdicts /\ errors' \in 0..MaxErrors
  BY ToldTyped DEF RefreshAll, history, counts
<1>5. /\ Goto(w, h) /\ rows' = rows /\ files' = files /\ disk' = disk /\ jobs' = jobs
      /\ UNCHANGED <<transfers, marked, trouble, starts, ops, crashes>>
  BY <1>1 DEF RefreshAll, history, counts, tables
<1> QED BY <1>2, <1>3, <1>4, <1>5, RestStepFits

\* refresh_status reads the row before it asks the cluster.
LEMMA RefreshStatusFits ==
  ASSUME TypeOK, Fitting, NEW w \in Handlers, RefreshStatus(w)
  PROVE  TypeOK' /\ Advance /\ Fitting'
<1>0. work[w] \in Handling /\ Idle \in Handling /\ Idle.at = "idle" /\ Idle.copy = NoRow
  BY HandlerFits, RestTyped
<1>1. /\ due' \subseteq told' /\ told' \subseteq Subs \X Verdicts /\ errors' \in 0..MaxErrors
      /\ rows' = rows /\ files' = files /\ disk' = disk /\ jobs' = jobs
      /\ UNCHANGED <<transfers, marked, trouble, starts, ops, crashes>>
  BY ToldTyped DEF RefreshStatus, history, counts, tables
<1>2. PICK s \in work[w].todo :
        IF Present(s) /\ rows[s].job # NoJob
        THEN Goto(w, [work[w] EXCEPT !.at = "qstat", !.sub = s, !.copy = rows[s], !.todo = @ \ {s}])
        ELSE Return(w)
  BY DEF RefreshStatus
<1>3. s \in Subs
  BY <1>0, <1>2 DEF Handling
<1>4. CASE Present(s) /\ rows[s].job # NoJob
  <2>1. PICK h : h = [work[w] EXCEPT !.at = "qstat", !.sub = s, !.copy = rows[s], !.todo = @ \ {s}]
    OBVIOUS
  <2>2. Goto(w, h)
    BY <1>2, <1>4, <2>1
  <2>3. rows[s] \in Row /\ rows[s] # NoRow /\ RowFits(s, rows[s])
    BY <1>3, <1>4 DEF TypeOK, Table, Present, Fitting, RowsFit
  <2>4. h \in Handling
    BY <1>0, <1>3, <2>1, <2>3 DEF Handling, Steps, Saves
  <2>5. h.at = "qstat" /\ h.sub = s /\ h.copy = rows[s]
    BY <1>0, <2>1 DEF Handling
  <2>6. TypeOK'
    BY <1>1, <2>2, <2>4, RestTypeStep
  <2>7. Advance /\ ComingGoes
    <3>1. FilesGo
      BY <1>1, SavedFiles
    <3> QED BY <1>1, <2>6, <3>1, Carries, ComingUnchanged DEF transfers
  <2>8. Fits(h)
    BY <1>3, <1>4, <2>3, <2>5 DEF Fits, Commands
  <2>9. Fits(h)'
    BY <2>6, <2>7, <2>8, FitsStays
  <2> QED BY <1>1, <2>2, <2>6, <2>7, <2>9, KeepsTable
<1>5. CASE ~ (Present(s) /\ rows[s].job # NoJob)
  <2>1. Goto(w, Idle)
    BY <1>2, <1>5 DEF Return
  <2> QED BY <1>0, <1>1, <2>1, RestStepFits
<1> QED BY <1>4, <1>5

\* The uploads of the outputs begin.
LEMMA OutputsGo ==
  ASSUME TypeOK, NEW s \in Subs, disk' = Memory,
         files' = [f \in Files |-> IF f \in Outputs(s) THEN "Uploading" ELSE files[f]],
         going' = [f \in Files |-> IF f \in Outputs(s) THEN going[f] + 1 ELSE going[f]]
  PROVE  /\ files' \in FileTable /\ going' \in [Files -> Nat] /\ FilesGo
         /\ disk' \in [rows : Table, files : FileTable]
<1>1. files \in FileTable /\ going \in [Files -> Nat] /\ rows \in Table
  BY DEF TypeOK
<1>2. files' \in FileTable
  BY <1>1 DEF FileTable, FileStatus
<1>3. \A f \in Files : going[f] + 1 \in Nat
  BY <1>1
<1>4. going' \in [Files -> Nat]
  BY <1>1, <1>3
<1>5. FilesGo
  BY DEF FilesGo, MarksStay, Outputs, Memory
<1> QED BY <1>1, <1>2, <1>4, <1>5 DEF Memory

\* A completed job: its outputs are sent, or it is reported.
LEMMA SendOutputsFits ==
  ASSUME TypeOK, Fitting, NEW w \in Handlers, SendOutputs(w)
  PROVE  TypeOK' /\ Advance /\ Fitting'
<1>0. work[w] \in Handling /\ work[w].at = "save and send" /\ work[w].sub \in Subs
  BY HandlerFits DEF SendOutputs, At, Fits
<1>1. CASE Outputs(work[w].sub) = {}
  <2>1. Onward(w) \in Handling /\ Onward(w).at \in {"idle", "refresh"} /\ Onward(w).copy = NoRow
    BY OnwardRests
  <2>2. due' \subseteq told' /\ told' \subseteq Subs \X Verdicts
    BY <1>0, <1>1, ReportTyped DEF SendOutputs, Verdicts
  <2>3. errors' \in 0..MaxErrors
    BY ToldTyped DEF SendOutputs, counts
  <2>4. /\ Goto(w, Onward(w)) /\ rows' = rows /\ files' = files /\ disk' = Memory /\ jobs' = jobs
        /\ UNCHANGED <<transfers, marked, trouble, starts, ops, crashes>>
    BY <1>1 DEF SendOutputs, Save, counts, transfers
  <2> QED BY <2>1, <2>2, <2>3, <2>4, RestStepFits
<1>2. CASE Outputs(work[w].sub) # {}
  <2>1. PICK h : h = [work[w] EXCEPT !.at = "save"]
    OBVIOUS
  <2>2. Goto(w, h) /\ disk' = Memory /\ rows' = rows /\ coming' = coming /\ late' = late
    BY <1>2, <2>1 DEF SendOutputs, Become, Save
  <2>3. h \in Handling
    BY <1>0, <2>1, RestTyped DEF Steps, Saves
  <2>4. /\ files' \in FileTable /\ going' \in [Files -> Nat] /\ FilesGo
        /\ disk' \in [rows : Table, files : FileTable]
    BY <1>0, <1>2, <2>2, OutputsGo DEF SendOutputs
  <2>5. TypeOK'
    BY <1>2, <2>2, <2>3, <2>4, GotoTyped DEF SendOutputs, TypeOK, counts
  <2>6. Advance /\ ComingGoes
    BY <1>2, <2>2, <2>4, <2>5, Carries, ComingUnchanged DEF SendOutputs, counts
  <2>7. Fits(h)'
    BY <1>0, <2>1, <2>5, <2>6, BecomesFits DEF AfterSteps
  <2> QED BY <2>2, <2>5, <2>6, <2>7, KeepsTable
<1> QED BY <1>1, <1>2

\* internal_complete_job.
LEMMA CompleteSavedFits ==
  ASSUME TypeOK, Fitting, NEW w \in Handlers, CompleteSaved(w)
  PROVE  TypeOK' /\ Advance /\ Fitting'
<1>0. Idle \in Handling /\ Idle.at = "idle" /\ Idle.copy = NoRow /\ work[w].sub \in Subs
  BY HandlerFits, RestTyped DEF CompleteSaved, At, Fits
<1>1. due' \subseteq told' /\ told' \subseteq Subs \X Verdicts
  <2>1. CASE AllBoth(Outputs(work[w].sub))
    BY <1>0, <2>1, ReportTyped DEF CompleteSaved, Verdicts
  <2>2. CASE ~ AllBoth(Outputs(work[w].sub))
    BY <2>2, ToldTyped DEF CompleteSaved
  <2> QED BY <2>1, <2>2
<1>2. errors' \in 0..MaxErrors
  BY ToldTyped DEF CompleteSaved, counts
<1>3. /\ Goto(w, Idle) /\ rows' = rows /\ files' = files /\ disk' = Memory /\ jobs' = jobs
      /\ UNCHANGED <<transfers, marked, trouble, starts, ops, crashes>>
  BY DEF CompleteSaved, Save, counts, transfers, Return
<1> QED BY <1>0, <1>1, <1>2, <1>3, RestStepFits

\* complete_job, called when an upload has ended.
LEMMA UploadedFits ==
  ASSUME TypeOK, Fitting, NEW w \in Handlers, NEW f \in Files, Uploaded(w, f)
  PROVE  TypeOK' /\ Advance /\ Fitting'
<1>0. OwnerOf[f] \in Subs
  BY RunJobAssumption
<1>1. PICK h : h = [Idle EXCEPT !.at = "save and complete", !.sub = OwnerOf[f]]
  OBVIOUS
<1>2. h \in Handling /\ Goto(w, h)
  BY <1>0, <1>1, RestTyped, HandlerFits DEF Uploaded, Begin, Steps, Saves
<1>3. h.sub = OwnerOf[f] /\ h.copy = NoRow /\ h.at = "save and complete"
  BY <1>1 DEF Idle
<1>4. /\ going' \in [Files -> Nat] /\ files' \in FileTable /\ FilesGo
      /\ marked' \subseteq Files /\ marked \subseteq marked'
  BY GoingLess, MarkedBoth DEF Uploaded
<1>5. TypeOK'
  BY <1>2, <1>4, GotoTyped DEF Uploaded, TypeOK, counts
<1>6. Advance /\ ComingGoes
  BY <1>4, <1>5, Carries, ComingUnchanged DEF Uploaded, counts
<1>7. Fits(h)'
  BY <1>0, <1>3 DEF Fits, RowFits, HasJob, Commands
<1>8. Fitting'
  BY <1>2, <1>5, <1>6, <1>7, KeepsTable DEF Uploaded
<1> QED BY <1>5, <1>6, <1>8

-----------------------------------------------------------------------------
\* A copy of a row is written back: types, ...
LEMMA WriteBackTyped ==
  ASSUME TypeOK, NEW w \in Handlers, work[w].sub \in Subs, NEW row \in Row, NEW next \in Handling,
         WriteBack(w, row, next)
  PROVE  rows' \in Table /\ work' \in [Handlers -> Handling]
<1>1. CASE Present(work[w].sub)
  <2>1. rows' \in Table
    BY <1>1, TableKept DEF TypeOK, WriteBack
  <2> QED BY <1>1, <2>1, GotoTyped DEF WriteBack
<1>2. CASE ~ Present(work[w].sub)
  BY <1>2, GotoTyped, RestTyped DEF WriteBack, Return, TypeOK
<1> QED BY <1>1, <1>2

\* ... and fitness, when the copy fits.
LEMMA WriteBackFits ==
  ASSUME TypeOK, TypeOK', Fitting, Advance, ComingGoes, NEW w \in Handlers, NEW s \in Subs, s = work[w].sub,
         NEW row, NEW next, WriteBack(w, row, next), RowFits(s, row)', Fits(next)', disk' = disk
  PROVE  Fitting'
<1>1. CASE Present(s)
  BY <1>1, SetsRow DEF WriteBack
<1>2. CASE ~ Present(s)
  <2>1. Idle.at = "idle" /\ Idle.copy = NoRow
    BY DEF Idle
  <2> QED BY <1>2, <2>1, RestStep DEF WriteBack, Return
<1> QED BY <1>1, <1>2

\* A copy is written back with another status: fitness ...
LEMMA StatusBackFits ==
  ASSUME TypeOK, TypeOK', Fitting, Advance, ComingGoes, NEW w \in Handlers,
         work[w].at \in {"find", "submit", "qstat"} \cup Commands,
         NEW st \in Status, NEW step \in AfterSteps,
         WriteBack(w, [work[w].copy EXCEPT !.status = st], [work[w] EXCEPT !.at = step]), disk' = disk
  PROVE  Fitting'
<1>1. PICK row : row = [work[w].copy EXCEPT !.status = st]
  OBVIOUS
<1>2. PICK next : next = [work[w] EXCEPT !.at = step]
  OBVIOUS
<1>3. PICK s : s = work[w].sub
  OBVIOUS
<1>4. s \in Subs /\ work[w].copy \in Row /\ work[w].copy # NoRow /\ RowFits(s, work[w].copy)
  BY <1>3, HandlerFits DEF Fits, Commands
<1>5. RowFits(s, row)
  BY <1>1, <1>4, NewStatusFits
<1>6. RowFits(s, row)'
  BY <1>4, <1>5, RowStays
<1>7. Fits(next)'
  BY <1>2, BecomesFits DEF Commands
<1> QED BY <1>1, <1>2, <1>3, <1>4, <1>6, <1>7, WriteBackFits

\* ... and types.
LEMMA StatusBackTyped ==
  ASSUME TypeOK, Fitting, NEW w \in Handlers, work[w].at \in {"find", "submit", "qstat"} \cup Commands,
         NEW st \in Status, NEW step \in AfterSteps,
         WriteBack(w, [work[w].copy EXCEPT !.status = st], [work[w] EXCEPT !.at = step])
  PROVE  rows' \in Table /\ work' \in [Handlers -> Handling]
<1>1. work[w] \in Handling /\ work[w].sub \in Subs /\ work[w].copy \in Row
  BY HandlerFits DEF Fits, Commands
<1>2. [work[w].copy EXCEPT !.status = st] \in Row
  BY <1>1, StatusKept
<1>3. [work[w] EXCEPT !.at = step] \in Handling
  BY <1>1, RestTyped DEF AfterSteps, Steps, Saves
<1> QED BY <1>1, <1>2, <1>3, WriteBackTyped

\* The software is looked up while the handler holds a copy of the row.
LEMMA FindSoftwareFits ==
  ASSUME TypeOK, Fitting, NEW w \in Handlers, FindSoftware(w)
  PROVE  TypeOK' /\ Advance /\ Fitting'
<1>0. work[w] \in Handling /\ Fits(work[w]) /\ work[w].at = "find" /\ work[w].sub \in Subs
  BY HandlerFits DEF FindSoftware, At, Fits
<1>1. /\ UNCHANGED <<files, disk, transfers, jobs, due, told, marked, starts, ops, crashes>>
      /\ \/ Become(w, "submit") /\ UNCHANGED <<rows, trouble, errors>>
         \/ /\ trouble' = trouble \cup {work[w].sub}
            /\ WriteBack(w, [work[w].copy EXCEPT !.status = "Failed"], [work[w] EXCEPT !.at = "save and fail"])
            /\ UNCHANGED errors
         \/ Err /\ Return(w) /\ UNCHANGED <<rows, trouble>>
  BY DEF FindSoftware
<1>2. FilesGo
  BY <1>1, SavedFiles
<1>3. CASE Become(w, "submit") /\ UNCHANGED <<rows, trouble, errors>>
  <2>1. PICK h : h = [work[w] EXCEPT !.at = "submit"]
    OBVIOUS
  <2>2. h \in Handling /\ Goto(w, h)
    BY <1>0, <1>3, <2>1, RestTyped DEF Become, Steps, Saves
  <2>3. TypeOK'
    BY <1>1, <1>3, <2>2, GotoTyped DEF TypeOK, transfers
  <2>4. Advance /\ ComingGoes
    BY <1>1, <1>2, <1>3, <2>3, Carries, ComingUnchanged DEF transfers
  <2>5. h.at = "submit" /\ h.sub = work[w].sub /\ h.copy = work[w].copy
    BY <1>0, <2>1 DEF Handling
  <2>6. Fits(h)
    BY <1>0, <2>5 DEF Fits, Commands
  <2>7. Fits(h)'
    BY <2>3, <2>4, <2>6, FitsStays
  <2> QED BY <1>1, <1>3, <2>2, <2>3, <2>4, <2>7, KeepsTable
<1>4. CASE /\ trouble' = trouble \cup {work[w].sub}
           /\ WriteBack(w, [work[w].copy EXCEPT !.status = "Failed"], [work[w] EXCEPT !.at = "save and fail"])
           /\ UNCHANGED errors
  <2>1. rows' \in Table /\ work' \in [Handlers -> Handling]
    BY <1>0, <1>4, StatusBackTyped DEF Status, AfterSteps
  <2>2. trouble' \subseteq Subs
    BY <1>0, <1>4 DEF TypeOK
  <2>3. TypeOK'
    BY <1>1, <1>4, <2>1, <2>2 DEF TypeOK, transfers
  <2>4. Advance /\ ComingGoes
    BY <1>1, <1>2, <1>4, <2>3, Carries, ComingUnchanged DEF transfers
  <2> QED BY <1>0, <1>1, <1>4, <2>3, <2>4, StatusBackFits DEF Status, AfterSteps
<1>5. CASE Err /\ Return(w) /\ UNCHANGED <<rows, trouble>>
  <2>1. Idle \in Handling /\ Idle.at = "idle" /\ Idle.copy = NoRow /\ Goto(w, Idle)
    BY <1>0, <1>5, RestTyped DEF Return
  <2>2. errors' \in 0..MaxErrors
    BY <1>5, ErrTyped
  <2>3. due' \subseteq told' /\ told' \subseteq Subs \X Verdicts
    BY <1>1, ToldTyped
  <2> QED BY <1>1, <1>5, <2>1, <2>2, <2>3, RestStepFits
<1> QED BY <1>1, <1>3, <1>4, <1>5

\* The answer of qstat.
LEMMA AnswerFits ==
  ASSUME TypeOK, Fitting, NEW w \in Handlers, Answer(w)
  PROVE  TypeOK' /\ Advance /\ Fitting'
<1>0. work[w].at = "qstat"
  BY DEF Answer, At
<1>1. /\ UNCHANGED <<files, disk, transfers, jobs, due, history, counts>>
      /\ \/ Goto(w, Onward(w)) /\ UNCHANGED rows
         \/ WriteBack(w, [work[w].copy EXCEPT !.status = "Completing"], [work[w] EXCEPT !.at = "save and send"])
         \/ WriteBack(w, [work[w].copy EXCEPT !.status = "Failed"], [work[w] EXCEPT !.at = "save and fail"])
  BY DEF Answer
<1>2. CASE Goto(w, Onward(w)) /\ UNCHANGED rows
  <2>1. Onward(w) \in Handling /\ Onward(w).at \in {"idle", "refresh"} /\ Onward(w).copy = NoRow
    BY OnwardRests
  <2>2. due' \subseteq told' /\ told' \subseteq Subs \X Verdicts /\ errors' \in 0..MaxErrors
    BY <1>1, ToldTyped DEF history, counts
  <2>3. UNCHANGED <<transfers, marked, trouble, starts, ops, crashes>>
    BY <1>1 DEF history, counts
  <2> QED BY <1>1, <1>2, <2>1, <2>2, <2>3, RestStepFits
<1>3. ASSUME NEW st \in Status, NEW step \in AfterSteps,
             WriteBack(w, [work[w].copy EXCEPT !.status = st], [work[w] EXCEPT !.at = step])
      PROVE  TypeOK' /\ Advance /\ Fitting'
  <2>1. rows' \in Table /\ work' \in [Handlers -> Handling]
    BY <1>0, <1>3, StatusBackTyped
  <2>2. TypeOK'
    BY <1>1, <2>1 DEF TypeOK, transfers, history, counts
  <2>3. FilesGo
    BY <1>1, SavedFiles
  <2>4. Advance /\ ComingGoes
    BY <1>1, <2>2, <2>3, Carries, ComingUnchanged DEF transfers, history, counts
  <2> QED BY <1>0, <1>1, <1>3, <2>2, <2>4, StatusBackFits
<1> QED BY <1>1, <1>2, <1>3 DEF Status, AfterSteps

-----------------------------------------------------------------------------
\* A limit is read back as it was written.
LEMMA FormatParses ==
  ASSUME NEW d \in Nat
  PROVE  ParseDuration(FormatDuration(d)) = d
<1> DEFINE a == d \div 3600
           b == (d % 3600) \div 60
           c == (d % 3600) % 60
<1>1. ParseDuration(<<a, b, c>>) = c + 60 * b + 3600 * a + 86400 * 0
  BY DEF ParseDuration
<1>2. d % 3600 \in Nat /\ a \in Nat /\ d = 3600 * a + (d % 3600)
  OBVIOUS
<1>3. \A e \in Nat : e % 60 \in Nat /\ e \div 60 \in Nat /\ e = 60 * (e \div 60) + (e % 60)
  OBVIOUS
<1>4. b \in Nat /\ c \in Nat /\ d % 3600 = 60 * b + c
  BY <1>2, <1>3
<1> HIDE DEF a, b, c
<1>5. c + 60 * b + 3600 * a + 86400 * 0 = d
  BY <1>2, <1>4
<1> QED BY <1>1, <1>5 DEF FormatDuration, a, b, c

\* A directive that is left out says nothing.
LEMMA EmptyParses == ParseDuration(<<>>) = 0
BY DEF ParseDuration

\* The wall time in a PBS script is that of the requirements, to the second.
LEMMA PbsLimit == PbsSeconds(Required) = Required.max_wall_time
<1>1. Required.max_wall_time \in Nat
  BY RunJobAssumption
<1>2. PbsScript(Required).walltime
        = IF Required.max_wall_time = 0 THEN <<>> ELSE FormatDuration(Required.max_wall_time)
  BY DEF PbsScript
<1> QED BY <1>1, <1>2, FormatParses, EmptyParses DEF PbsSeconds

\* The time in a Slurm script is a number.
LEMMA SlurmLimit == SlurmSeconds(Required) \in Nat
<1>1. /\ Required.max_wall_time \in Nat /\ Required.max_cpu_time \in Nat
      /\ Required.node_count \in Nat /\ Required.cpu_cores \in Nat
  BY RunJobAssumption
<1> DEFINE n == IF Required.node_count = 0 THEN 1 ELSE Required.node_count
           p == IF Required.cpu_cores = 0 THEN 1 ELSE Required.cpu_cores
<1>2. n \in Nat \ {0} /\ p \in Nat \ {0}
  BY <1>1
<1>3. \A x, y \in Nat \ {0} : x * y \in Nat \ {0}
  OBVIOUS
<1>4. \A x \in Nat, y \in Nat \ {0} : x \div y \in Nat
  OBVIOUS
<1>5. n * p \in Nat \ {0}
  BY <1>2, <1>3
<1>6. Required.max_cpu_time \div (n * p) \in Nat
  BY <1>1, <1>4, <1>5
<1>7. SlurmScript(Required).time
        = IF Required.max_cpu_time # 0 THEN Required.max_cpu_time \div (n * p) ELSE Required.max_wall_time
  BY DEF SlurmScript
<1> HIDE DEF n, p
<1> QED BY <1>1, <1>6, <1>7 DEF SlurmSeconds

\* So is the limit of every job.
LEMMA LimitTyped == Limit \in Nat
BY RunJobAssumption, PbsLimit, SlurmLimit DEF Limit

\* The states of a job.
Letters == {"Q", "R", "H", "E", "F"}

\* A job in another state.
LEMMA LetterSet ==
  ASSUME TypeOK, NEW j \in DOMAIN jobs, NEW l \in Letters, NEW e \in {0, 1}, SetLetter(j, l, e)
  PROVE  /\ jobs' \in Seq(Job) /\ Len(jobs') <= MaxJobs /\ DOMAIN jobs' = DOMAIN jobs
         /\ jobs'[j].of = jobs[j].of /\ jobs'[j].letter = l
         /\ jobs'[j].exit = e /\ jobs'[j].limit = jobs[j].limit
         /\ \A k \in DOMAIN jobs : k # j => jobs'[k] = jobs[k]
<1>1. jobs \in Seq(Job) /\ jobs[j] \in Job
  BY DEF TypeOK
<1>2. PICK job : job = jobs[j]
  OBVIOUS
<1>3. PICK new : new = [job EXCEPT !.letter = l, !.exit = e]
  OBVIOUS
<1>7. new \in Job /\ new.of = job.of /\ new.letter = l /\ new.exit = e /\ new.limit = job.limit
  BY <1>1, <1>2, <1>3 DEF Job, Letters
<1>4. jobs' = [jobs EXCEPT ![j] = new]
  BY <1>2, <1>3 DEF SetLetter
<1>5. jobs' \in Seq(Job) /\ Len(jobs') = Len(jobs) /\ DOMAIN jobs' = DOMAIN jobs
  BY <1>1, <1>4, <1>7
<1>6. jobs'[j] = new /\ \A k \in DOMAIN jobs : k # j => jobs'[k] = jobs[k]
  BY <1>1, <1>4
<1> QED BY <1>2, <1>5, <1>6, <1>7 DEF TypeOK

\* The type of a job.
LEMMA JobTyped ==
  ASSUME TypeOK, NEW j \in DOMAIN jobs
  PROVE  jobs[j] \in Job /\ jobs[j].letter \in Letters /\ jobs[j].exit \in {0, 1} /\ jobs[j].of \in Subs
<1>1. jobs[j] \in Job
  BY DEF TypeOK
<1> QED BY <1>1 DEF Job, Letters

\* A job that has not left the queue may change its state.
LEMMA LetterAdvances ==
  ASSUME TypeOK, TypeOK', NEW j \in DOMAIN jobs, NEW l \in Letters, NEW e \in {0, 1}, SetLetter(j, l, e),
         jobs[j].letter # "F", jobs[j].letter = "E" => l = "F" /\ e = jobs[j].exit,
         files' = files, disk' = disk, starts' = starts, trouble' = trouble, marked' = marked
  PROVE  Advance
<1>1. JobsGo
  BY LetterSet DEF JobsGo
<1>2. ReadyStays
  BY DEF ReadyStays, Ready
<1>3. StartsGo /\ MarksStay
  BY DEF StartsGo, MarksStay, TypeOK
<1> QED BY <1>1, <1>2, <1>3 DEF Advance, HistoryGrows

\* The steps of the cluster.
LEMMA ClusterFits ==
  ASSUME TypeOK, Fitting, NEW j \in DOMAIN jobs, Cluster(j)
  PROVE  TypeOK' /\ Advance /\ Fitting'
<1>1. PICK l \in Letters, e \in {0, 1} :
        /\ SetLetter(j, l, e) /\ jobs[j].letter # "F"
        /\ jobs[j].letter = "E" => l = "F" /\ e = jobs[j].exit
  BY JobTyped DEF Cluster, JobRuns, JobEnds, JobLeaves, Letters
<1>2. UNCHANGED <<tables, transfers, work, due, history, counts>>
  BY DEF Cluster, JobRuns, JobEnds, JobLeaves
<1>3. jobs' \in Seq(Job) /\ Len(jobs') <= MaxJobs
  BY <1>1, LetterSet
<1>4. TypeOK'
  BY <1>2, <1>3 DEF TypeOK, tables, transfers, history, counts
<1>5. Advance
  BY <1>1, <1>2, <1>4, LetterAdvances DEF tables, history, counts
<1>6. ComingGoes
  BY <1>2, ComingUnchanged DEF transfers
<1> QED BY <1>2, <1>4, <1>5, <1>6, SameFits DEF tables

\* A job more.
LEMMA SubmittedTyped ==
  ASSUME TypeOK, NEW s \in Subs, Len(jobs) < MaxJobs, jobs' = Submitted(s)
  PROVE  /\ jobs' \in Seq(Job) /\ Len(jobs') <= MaxJobs /\ Len(jobs') \in 1..MaxJobs
         /\ Len(jobs') \in DOMAIN jobs' /\ jobs'[Len(jobs')].of = s
         /\ \A j \in DOMAIN jobs : j \in DOMAIN jobs' /\ jobs'[j] = jobs[j]
<1>1. PICK new : new = [of |-> s, letter |-> "Q", exit |-> 0, limit |-> Limit]
  OBVIOUS
<1>2. new \in Job /\ new.of = s
  BY <1>1, LimitTyped DEF Job
<1>3. jobs' = Append(jobs, new) /\ jobs \in Seq(Job)
  BY <1>1 DEF Submitted, TypeOK
<1>4. MaxJobs \in Nat /\ Len(jobs) \in Nat
  BY <1>3, RunJobAssumption
<1>5. jobs' \in Seq(Job) /\ Len(jobs') = Len(jobs) + 1 /\ jobs'[Len(jobs) + 1] = new
  BY <1>2, <1>3
<1>6. Len(jobs') <= MaxJobs /\ Len(jobs') \in 1..MaxJobs /\ Len(jobs') \in DOMAIN jobs'
  BY <1>4, <1>5
<1>7. \A j \in DOMAIN jobs : j \in DOMAIN jobs' /\ jobs'[j] = jobs[j]
  BY <1>2, <1>3
<1> QED BY <1>2, <1>5, <1>6, <1>7

\* submit_job_script: the copy of the row gets the id of the new job.
LEMMA SubmitJobFits ==
  ASSUME TypeOK, Fitting, NEW w \in Handlers, SubmitJob(w)
  PROVE  TypeOK' /\ Advance /\ Fitting'
<1>1. PICK s : s = work[w].sub
  OBVIOUS
<1>2. PICK row : row = [work[w].copy EXCEPT !.job = Len(jobs')]
  OBVIOUS
<1>3. PICK next : next = [work[w] EXCEPT !.at = "save"]
  OBVIOUS
<1>4. /\ work[w] \in Handling /\ work[w].at = "submit" /\ s \in Subs
      /\ work[w].copy \in Row /\ work[w].copy # NoRow /\ Prepared(s)
  BY <1>1, HandlerFits DEF SubmitJob, At, Fits
<1>5. /\ jobs' \in Seq(Job) /\ Len(jobs') <= MaxJobs /\ Len(jobs') \in 1..MaxJobs
      /\ Len(jobs') \in DOMAIN jobs' /\ jobs'[Len(jobs')].of = s
      /\ \A j \in DOMAIN jobs : j \in DOMAIN jobs' /\ jobs'[j] = jobs[j]
  BY <1>1, <1>4, SubmittedTyped DEF SubmitJob
<1>6. row \in Row /\ row.job = Len(jobs')
  BY <1>2, <1>4, <1>5 DEF Row
<1>7. next \in Handling
  BY <1>3, <1>4, RestTyped DEF Steps, Saves
<1>8. WriteBack(w, row, next) /\ UNCHANGED <<files, disk, transfers, due, history, counts>>
  BY <1>2, <1>3 DEF SubmitJob
<1>9. rows' \in Table /\ work' \in [Handlers -> Handling]
  BY <1>1, <1>4, <1>6, <1>7, <1>8, WriteBackTyped
<1>10. TypeOK'
  BY <1>5, <1>8, <1>9 DEF TypeOK, transfers, history, counts
<1>11. Advance
  <2>1. JobsGo
    BY <1>5 DEF JobsGo
  <2>2. ReadyStays
    BY <1>8 DEF ReadyStays, Ready
  <2>3. StartsGo /\ MarksStay /\ HistoryGrows
    BY <1>8 DEF StartsGo, MarksStay, HistoryGrows, TypeOK, history, counts
  <2> QED BY <2>1, <2>2, <2>3 DEF Advance
<1>12. ComingGoes
  BY <1>8, ComingUnchanged DEF transfers
<1>13. RowFits(s, row)'
  <2>1. Prepared(s)'
    BY <1>4, <1>10, <1>11, PreparedStays
  <2>2. Linked(s, row.job)'
    BY <1>5, <1>6 DEF Linked
  <2> QED BY <2>1, <2>2 DEF RowFits
<1>14. Fits(next)'
  BY <1>3, <1>4, <1>10, <1>11, BecomesFits DEF AfterSteps
<1>15. Fitting'
  BY <1>1, <1>4, <1>8, <1>10, <1>11, <1>12, <1>13, <1>14, WriteBackFits
<1> QED BY <1>10, <1>11, <1>15

-----------------------------------------------------------------------------
\* What a command does to the table: types ...
LEMMA OperatedTyped ==
  ASSUME TypeOK, NEW w \in Handlers, NEW s \in Subs, NEW step \in Commands, NEW row \in Row,
         NEW next \in Handling, Operated(w, s, step, row, next)
  PROVE  rows' \in Table /\ work' \in [Handlers -> Handling]
<1>1. rows \in Table /\ Idle \in Handling
  BY RestTyped DEF TypeOK
<1>2. CASE step = "remove"
  <2>1. (rows' = [rows EXCEPT ![s] = NoRow] \/ rows' = rows) /\ (Goto(w, next) \/ Goto(w, Idle))
    BY <1>2 DEF Operated, Return
  <2>2. rows' \in Table
    BY <1>1, <2>1, TableKept
  <2>3. work' \in [Handlers -> Handling]
    BY <1>1, <2>1, GotoTyped
  <2> QED
    BY <2>2, <2>3
<1>3. CASE step # "remove"
  <2>1. StatusAfter[step] \in Status
    BY <1>3 DEF StatusAfter, Status, Commands
  <2>2. [row EXCEPT !.status = StatusAfter[step]] \in Row
    BY <2>1, StatusKept
  <2>3. rows' = (IF Present(s) THEN [rows EXCEPT ![s] = [row EXCEPT !.status = StatusAfter[step]]] ELSE rows)
        /\ Goto(w, next)
    BY <1>3 DEF Operated
  <2>4. rows' \in Table
    BY <1>1, <2>2, <2>3, TableKept
  <2> QED BY <2>3, <2>4, GotoTyped
<1> QED BY <1>2, <1>3

\* ... and fitness.
LEMMA OperatedFits ==
  ASSUME TypeOK, TypeOK', Fitting, Advance, ComingGoes, NEW w \in Handlers, NEW s \in Subs,
         NEW step \in Commands, NEW row \in Row, row # NoRow, RowFits(s, row),
         NEW next, Operated(w, s, step, row, next), Fits(next)', disk' = disk
  PROVE  Fitting'
<1>1. CASE step = "remove"
  <2>1. RowFits(s, NoRow)'
    BY DEF RowFits, HasJob
  <2>2. Idle.at = "idle" /\ Idle.copy = NoRow
    BY DEF Idle
  <2>3. CASE Present(s)
    BY <1>1, <2>1, <2>3, SetsRow DEF Operated
  <2>4. CASE ~ Present(s)
    BY <1>1, <2>2, <2>4, RestStep DEF Operated, Return
  <2> QED BY <2>3, <2>4
<1>2. CASE step # "remove"
  <2>1. PICK q : q = [row EXCEPT !.status = StatusAfter[step]]
    OBVIOUS
  <2>2. RowFits(s, q)
    BY <2>1, NewStatusFits
  <2>3. RowFits(s, q)'
    BY <2>2, RowStays
  <2>4. rows' = (IF Present(s) THEN [rows EXCEPT ![s] = q] ELSE rows) /\ Goto(w, next)
    BY <1>2, <2>1 DEF Operated
  <2>5. CASE Present(s)
    BY <2>3, <2>4, <2>5, SetsRow
  <2>6. CASE ~ Present(s)
    BY <2>4, <2>6, KeepsTable
  <2> QED BY <2>5, <2>6
<1> QED BY <1>1, <1>2

\* The commands.
LEMMA OperationTyped ==
  ASSUME NEW op \in Operations
  PROVE  Operation[op] \in Commands
<1>1. op \in {"pause", "continue", "delete"}
  BY RunJobAssumption
<1> QED BY <1>1 DEF Operation, Commands

\* pause, continue and delete of a sub task.
LEMMA OperateFits ==
  ASSUME TypeOK, Fitting, NEW w \in Handlers, NEW s \in Subs, Operate(w, s)
  PROVE  TypeOK' /\ Advance /\ Fitting'
<1>1. PICK op \in Operations :
        IF rows[s].job = NoJob
        THEN Operated(w, s, Operation[op], rows[s], [Idle EXCEPT !.at = "save", !.sub = s])
        ELSE Goto(w, [Idle EXCEPT !.at = Operation[op], !.sub = s, !.copy = rows[s]]) /\ UNCHANGED rows
  BY DEF Operate
<1>2. PICK step \in Commands : step = Operation[op]
  BY OperationTyped
<1>3. rows[s] \in Row /\ rows[s] # NoRow /\ RowFits(s, rows[s])
  BY DEF Operate, Present, TypeOK, Table, Fitting, RowsFit
<1>4. ops' \in 0..MaxOps
  <2>1. ops \in 0..MaxOps /\ MaxOps \in Nat /\ ops < MaxOps /\ ops' = ops + 1
    BY RunJobAssumption DEF TypeOK, Operate
  <2> QED BY <2>1
<1>5. UNCHANGED <<files, disk, transfers, jobs, due, history, starts, errors, crashes>>
  BY DEF Operate
<1>6. PICK h : h = IF rows[s].job = NoJob THEN [Idle EXCEPT !.at = "save", !.sub = s]
                   ELSE [Idle EXCEPT !.at = step, !.sub = s, !.copy = rows[s]]
  OBVIOUS
<1>7. h \in Handling /\ h.sub = s
  <2>1. Idle \in Handling
    BY HandlerFits, RestTyped
  <2> QED BY <1>3, <1>6, <2>1 DEF Handling, Steps, Saves, Commands
<1>8. rows' \in Table /\ work' \in [Handlers -> Handling]
  <2>1. CASE rows[s].job = NoJob
    BY <1>1, <1>2, <1>3, <1>6, <1>7, <2>1, OperatedTyped
  <2>2. CASE rows[s].job # NoJob
    <3>1. Goto(w, h) /\ rows' = rows
      BY <1>1, <1>2, <1>6, <2>2
    <3> QED BY <1>7, <3>1, GotoTyped DEF TypeOK
  <2> QED BY <2>1, <2>2
<1>9. TypeOK'
  BY <1>4, <1>5, <1>8 DEF TypeOK, transfers, history
<1>10. Advance /\ ComingGoes
  <2>1. FilesGo
    BY <1>5, SavedFiles
  <2> QED BY <1>5, <1>9, <2>1, Carries, ComingUnchanged DEF transfers, history
<1>11. CASE rows[s].job = NoJob
  <2>1. h.at = "save" /\ h.copy = NoRow
    BY <1>6, <1>11 DEF Idle
  <2>2. Fits(h)'
    BY <1>7, <2>1 DEF Fits, RowFits, HasJob, Commands
  <2>3. PICK row : row = rows[s]
    OBVIOUS
  <2>4. Operated(w, s, step, row, h)
    BY <1>1, <1>2, <1>6, <1>11, <2>3
  <2> QED BY <1>3, <1>5, <1>9, <1>10, <2>2, <2>3, <2>4, OperatedFits
<1>12. CASE rows[s].job # NoJob
  <2>1. h.at = step /\ h.copy = rows[s] /\ Goto(w, h) /\ rows' = rows
    BY <1>1, <1>2, <1>6, <1>12 DEF Idle
  <2>2. Fits(h)
    BY <1>3, <1>7, <1>12, <2>1 DEF Fits, Commands
  <2>3. Fits(h)'
    BY <1>9, <1>10, <2>2, FitsStays
  <2> QED BY <1>5, <1>9, <1>10, <2>1, <2>3, KeepsTable
<1> QED BY <1>9, <1>10, <1>11, <1>12

\* The answer of qhold, qrls or qdel.
LEMMA CommandJobFits ==
  ASSUME TypeOK, Fitting, NEW w \in Handlers, CommandJob(w)
  PROVE  TypeOK' /\ Advance /\ Fitting'
<1>1. PICK s : s = work[w].sub
  OBVIOUS
<1>2. PICK row : row = work[w].copy
  OBVIOUS
<1>3. PICK step \in Commands : step = work[w].at
  BY DEF CommandJob, Commands
<1>4. PICK j : j = work[w].copy.job
  OBVIOUS
<1>5. /\ work[w] \in Handling /\ s \in Subs /\ row \in Row /\ row # NoRow /\ row.job # NoJob
      /\ RowFits(s, row)
  BY <1>1, <1>2, <1>3, HandlerFits DEF Fits, Commands
<1>6. j \in DOMAIN jobs
  BY <1>2, <1>4, <1>5 DEF RowFits, HasJob, Linked
<1>7. UNCHANGED <<files, disk, transfers, due, history, counts>>
  BY DEF CommandJob
<1>8. CASE ~ Active(j)
  <2>1. Idle \in Handling /\ Idle.at = "idle" /\ Idle.copy = NoRow
    BY <1>5, RestTyped
  <2>2. Goto(w, Idle) /\ rows' = rows /\ jobs' = jobs
    BY <1>4, <1>8 DEF CommandJob, Return
  <2>3. due' \subseteq told' /\ told' \subseteq Subs \X Verdicts /\ errors' \in 0..MaxErrors
    BY <1>7, ToldTyped DEF history, counts
  <2>4. UNCHANGED <<transfers, marked, trouble, starts, ops, crashes>>
    BY <1>7 DEF history, counts
  <2> QED BY <1>7, <2>1, <2>2, <2>3, <2>4, RestStepFits
<1>9. CASE Active(j)
  <2>1. PICK l \in Letters, e \in {0, 1} : SetLetter(j, l, e)
    BY <1>3, <1>4, <1>6, <1>9, JobTyped DEF CommandJob, Letters
  <2>2. jobs' \in Seq(Job) /\ Len(jobs') <= MaxJobs
    BY <1>6, <2>1, LetterSet
  <2>3. PICK next : next = [work[w] EXCEPT !.at = "save"]
    OBVIOUS
  <2>4. next \in Handling
    BY <1>5, <2>3, RestTyped DEF Steps, Saves
  <2>5. Operated(w, s, step, row, next)
    BY <1>1, <1>2, <1>3, <1>4, <1>9, <2>3 DEF CommandJob
  <2>6. rows' \in Table /\ work' \in [Handlers -> Handling]
    BY <1>5, <2>4, <2>5, OperatedTyped
  <2>7. TypeOK'
    BY <1>7, <2>2, <2>6 DEF TypeOK, transfers, history, counts
  <2>8. jobs[j].letter \notin {"E", "F"}
    BY <1>9 DEF Active
  <2>9. Advance
    BY <1>6, <1>7, <2>1, <2>7, <2>8, LetterAdvances DEF history, counts
  <2>10. ComingGoes
    BY <1>7, ComingUnchanged DEF transfers
  <2>11. Fits(next)'
    BY <1>3, <2>3, <2>7, <2>9, BecomesFits DEF AfterSteps, Commands
  <2>12. Fitting'
    BY <1>5, <1>7, <2>5, <2>7, <2>9, <2>10, <2>11, OperatedFits
  <2> QED BY <2>7, <2>9, <2>12
<1> QED BY <1>8, <1>9

\* The scheduler marks a completed sub task.
LEMMA TakeReportFits ==
  ASSUME TypeOK, Fitting, NEW s \in Subs, NEW v \in Verdicts, TakeReport(s, v)
  PROVE  TypeOK' /\ Advance /\ Fitting'
<1>1. UNCHANGED <<files, transfers, jobs, work, history, counts>> /\ due' \subseteq due
  BY DEF TakeReport
<1>2. CASE v = "Completed" /\ Present(s)
  <2>1. PICK row : row = [rows[s] EXCEPT !.status = "Completed"]
    OBVIOUS
  <2>2. rows' = [rows EXCEPT ![s] = row] /\ disk' = [rows |-> rows', files |-> files]
    BY <1>2, <2>1 DEF TakeReport
  <2>3. rows[s] \in Row /\ rows[s] # NoRow /\ RowFits(s, rows[s])
    BY <1>2 DEF Present, TypeOK, Table, Fitting, RowsFit
  <2>4. row \in Row /\ RowFits(s, row)
    BY <2>1, <2>3, StatusKept, NewStatusFits DEF Status
  <2>5. rows' \in Table
    BY <2>2, <2>4, TableKept DEF TypeOK
  <2>6. disk' \in [rows : Table, files : FileTable]
    BY <2>2, <2>5 DEF TypeOK
  <2>7. TypeOK'
    BY <1>1, <2>5, <2>6 DEF TypeOK, transfers, history, counts
  <2>8. FilesGo
    BY <1>1, <2>2 DEF FilesGo, MarksStay
  <2>9. Advance /\ ComingGoes
    BY <1>1, <2>7, <2>8, Carries, ComingUnchanged DEF transfers, history, counts
  <2>10. ASSUME NEW t \in Subs PROVE RowFits(t, rows[t])' /\ RowFits(t, disk.rows[t])'
    <3>1. \A r : RowFits(t, r) => RowFits(t, r)'
      BY <2>7, <2>9, RowStays
    <3>2. rows'[t] = (IF t = s THEN row ELSE rows[t]) /\ disk'.rows[t] = rows'[t]
      BY <2>2 DEF TypeOK, Table
    <3>3. RowFits(t, rows[t])
      BY DEF Fitting, RowsFit
    <3>4. CASE t = s
      BY <2>4, <3>1, <3>2, <3>4
    <3>5. CASE t # s
      BY <3>1, <3>2, <3>3, <3>5
    <3> QED BY <3>4, <3>5
  <2>11. HandlersFit'
    BY <1>1, <2>7, <2>9, SameHandlersFit DEF Fitting
  <2>12. ComingFits'
    BY <2>7, <2>9, ComingKept DEF Fitting
  <2> QED BY <2>7, <2>9, <2>10, <2>11, <2>12, MarksKept DEF Fitting, RowsFit
<1>3. CASE ~ (v = "Completed" /\ Present(s))
  <2>1. rows' = rows /\ disk' = disk
    BY <1>3 DEF TakeReport
  <2>2. TypeOK'
    BY <1>1, <2>1 DEF TypeOK, transfers, history, counts
  <2>3. FilesGo
    BY <1>1, <2>1, SavedFiles
  <2>4. Advance /\ ComingGoes
    BY <1>1, <2>2, <2>3, Carries, ComingUnchanged DEF transfers, history, counts
  <2> QED BY <1>1, <2>1, <2>2, <2>4, SameFits
<1> QED BY <1>2, <1>3

\* A restart reads what was saved, also by a save that a crash cut short.
LEMMA RestartFits ==
  ASSUME TypeOK, Fitting, NEW saved, saved \in {disk, Torn(disk)}, Restart(saved)
  PROVE  TypeOK' /\ Advance /\ Fitting'
<1>1. /\ saved.rows \in {rows, disk.rows} /\ saved.files = disk.files
      /\ saved \in [rows : Table, files : FileTable]
  BY DEF TypeOK, Torn
<1>2. rows' = saved.rows /\ files' = saved.files /\ disk' = saved
  BY DEF Restart
<1>3. crashes' \in 0..MaxCrashes
  <2>1. crashes \in 0..MaxCrashes /\ MaxCrashes \in Nat /\ crashes < MaxCrashes /\ crashes' = crashes + 1
    BY RunJobAssumption DEF TypeOK, Restart
  <2> QED BY <2>1
<1>4. Idle \in Handling /\ Idle.at = "idle" /\ Idle.copy = NoRow
  BY DEF Idle, Handling, Steps, Saves
<1>5. work' \in [Handlers -> Handling] /\ \A w \in Handlers : work'[w] = Idle
  BY <1>4 DEF Restart
<1>6. /\ coming' \in [Files -> Nat] /\ late' \in [Files -> Nat] /\ going' \in [Files -> Nat]
      /\ \A f \in Files : coming'[f] = 0 /\ late'[f] = 0
  BY DEF Restart
<1>7. UNCHANGED <<jobs, history, starts, ops, errors>> /\ due' = {}
  BY DEF Restart
<1>8. TypeOK'
  <2>1. rows' \in Table /\ files' \in FileTable /\ disk' \in [rows : Table, files : FileTable]
    BY <1>1, <1>2
  <2> QED BY <1>3, <1>5, <1>6, <1>7, <2>1 DEF TypeOK, history
<1>9. Advance
  <2>1. FilesGo
    BY <1>1, <1>2, <1>7 DEF FilesGo, MarksStay, history
  <2> QED BY <1>7, <1>8, <2>1, Carries DEF history
<1>10. HandlersFit'
  <2>1. ASSUME NEW h, h = Idle PROVE Fits(h)'
    BY <1>4, <2>1, RestFits
  <2> QED BY <1>5, <2>1 DEF HandlersFit
<1>11. RowsFit'
  BY <1>1, <1>2, <1>8, <1>9, SameRowsFit DEF Fitting
<1>12. ComingFits'
  BY <1>6 DEF ComingFits
<1> QED BY <1>8, <1>9, <1>10, <1>11, <1>12, MarksKept DEF Fitting

-----------------------------------------------------------------------------
\* The tables as the agent first has them.
LEMMA InitFits == Init => TypeOK /\ Fitting
<1> SUFFICES ASSUME Init PROVE TypeOK /\ Fitting
  OBVIOUS
<1>1. Idle \in Handling /\ Idle.at = "idle" /\ Idle.copy = NoRow
  BY DEF Idle, Handling, Steps, Saves
<1>2. rows \in Table /\ \A s \in Subs : ~ HasJob(rows[s])
  <2>1. [status |-> "Queuing", job |-> NoJob] \in Row
    BY DEF Row, Status
  <2> QED BY <2>1 DEF Init, Table, HasJob
<1>3. files \in FileTable /\ disk = [rows |-> rows, files |-> files]
  BY DEF Init, FileTable, FileStatus, Memory
<1>4. jobs \in Seq(Job) /\ Len(jobs) = 0
  BY DEF Init
<1>5. starts \in [Subs -> 0..MaxStarts] /\ ops \in 0..MaxOps /\ errors \in 0..MaxErrors /\ crashes \in 0..MaxCrashes
  BY RunJobAssumption DEF Init
<1>6. MaxJobs \in Nat
  BY RunJobAssumption
<1>7. TypeOK
  BY <1>1, <1>2, <1>3, <1>4, <1>5, <1>6 DEF Init, TypeOK
<1>8. HandlersFit
  <2>1. Fits(Idle)
    BY <1>1 DEF Fits, RowFits, HasJob, Commands
  <2> QED BY <2>1 DEF Init, HandlersFit
<1>9. RowsFit
  BY <1>2, <1>3 DEF RowsFit, RowFits
<1>10. ComingFits /\ MarksFit
  BY DEF Init, ComingFits, MarksFit, Memory
<1> QED BY <1>7, <1>8, <1>9, <1>10 DEF Fitting

\* Every step keeps the invariant, and advances.
LEMMA StepFits ==
  ASSUME TypeOK, Fitting, [Next]_vars
  PROVE  TypeOK' /\ Advance /\ Fitting'
<1>1. CASE UNCHANGED vars
  <2>1. TypeOK'
    BY <1>1 DEF vars, TypeOK
  <2>2. FilesGo
    BY <1>1, SavedFiles DEF vars
  <2>3. Advance /\ ComingGoes
    BY <1>1, <2>1, <2>2, Carries, ComingUnchanged DEF vars
  <2> QED BY <1>1, <2>1, <2>3, SameFits DEF vars
<1>2. ASSUME NEW w \in Handlers, Work(w) PROVE TypeOK' /\ Advance /\ Fitting'
  BY <1>2, RunSavedFits, FindSoftwareFits, SubmitJobFits, ReturnFits, SavedFits, FailSavedFits,
     RefreshStatusFits, AnswerFits, SendOutputsFits, CompleteSavedFits, CommandJobFits DEF Work
<1>3. ASSUME NEW w \in Handlers, RefreshAll(w) PROVE TypeOK' /\ Advance /\ Fitting'
  BY <1>3, RefreshAllFits
<1>4. ASSUME NEW w \in Handlers, NEW s \in Subs, EnqueueSubTask(w, s) \/ Operate(w, s)
      PROVE  TypeOK' /\ Advance /\ Fitting'
  BY <1>4, EnqueueSubTaskFits, OperateFits
<1>5. ASSUME NEW w \in Handlers, NEW f \in Files, Transfer(w, f) PROVE TypeOK' /\ Advance /\ Fitting'
  BY <1>5, DownloadedFits, TransferFailsFits, UploadedFits DEF Transfer
<1>6. ASSUME NEW j \in DOMAIN jobs, Cluster(j) PROVE TypeOK' /\ Advance /\ Fitting'
  BY <1>6, ClusterFits
<1>7. ASSUME NEW s \in Subs, NEW v \in Verdicts, TakeReport(s, v) PROVE TypeOK' /\ Advance /\ Fitting'
  BY <1>7, TakeReportFits
<1>9. ASSUME NEW f \in Files, TransferDies(f) PROVE TypeOK' /\ Advance /\ Fitting'
  BY <1>9, TransferDiesFits
<1>8. ASSUME Crash PROVE TypeOK' /\ Advance /\ Fitting'
  <2>1. PICK saved \in {disk, Torn(disk)} : Restart(saved)
    BY <1>8 DEF Crash
  <2> QED BY <2>1, RestartFits
<1> QED BY <1>1, <1>2, <1>3, <1>4, <1>5, <1>6, <1>7, <1>8, <1>9 DEF Next

\* The tables, the transfers, the handlers and the jobs keep their shape; rows and copies of rows name
\* jobs of their own sub task (RunJobServiceImpl).
THEOREM TypeCorrect == Spec => [](TypeOK /\ Fitting)
<1>1. Init => TypeOK /\ Fitting
  BY InitFits
<1>2. TypeOK /\ Fitting /\ [Next]_vars => (TypeOK /\ Fitting)'
  BY StepFits
<1> QED BY <1>1, <1>2, PTL DEF Spec

\* A sub task that was started once has a job only when the download of every input has gone through
\* and is saved, for any files, handlers, operations and crashes (internal_run_job, InputsFirst).
THEOREM InputsComeFirst == Spec => []InputsFirst
<1>1. TypeOK /\ Fitting => InputsFirst
  <2> SUFFICES ASSUME TypeOK, Fitting, NEW s \in Subs, starts[s] <= 1
               PROVE  /\ HasJob(rows[s]) => AllBoth(Inputs(s)) /\ Inputs(s) \subseteq marked
                      /\ HasJob(disk.rows[s]) => \A f \in Inputs(s) : disk.files[f] = "Both"
    BY DEF InputsFirst
  <2>1. starts[s] \in Nat /\ RowFits(s, rows[s]) /\ RowFits(s, disk.rows[s])
    BY DEF TypeOK, Fitting, RowsFit
  <2>2. HasJob(rows[s]) \/ HasJob(disk.rows[s]) => Ready(s)
    BY <2>1 DEF RowFits, Prepared
  <2>3. Ready(s) => Inputs(s) \subseteq marked
    BY DEF Ready, Inputs, Fitting, MarksFit
  <2> QED BY <2>2, <2>3 DEF Ready, AllBoth
<1> QED BY <1>1, TypeCorrect, PTL

-----------------------------------------------------------------------------
\* Steps after which a sub task is reported, or its outputs are sent.
JudgedSteps == {"save and fail", "save and send", "save and complete"}

\* A handler at one of them has grounds for it.  Slurm has no word for a held job that the agent knows.
Judged(h) ==
  /\ h.at = "save and fail" => Unwell(h.sub)
  /\ h.at \in {"save and send", "save and complete"} => Computed(h.sub)
  /\ Manager = "slurm" => h.at # "hold"

\* A handler that needs no grounds.
Quiet(h) == h.at \notin JudgedSteps /\ (Manager = "slurm" => h.at # "hold")

\* Every handler has grounds; ...
HandlersJudged == \A w \in Handlers : Judged(work[w])

\* ... uploads are of outputs of a job that has ended well; ...
GoingJudged == \A f \in Files : going[f] > 0 => KindOf[f] = "OUT" /\ Computed(OwnerOf[f])

\* The inductive invariant behind ReportsTrue.
Judging == HandlersJudged /\ GoingJudged /\ ReportsTrue

\* No job of Slurm is held.
NoneHeld == Manager = "slurm" => \A j \in DOMAIN jobs : jobs[j].letter # "H"

\* Grounds stay grounds.
LEMMA JudgedStays ==
  ASSUME TypeOK, Advance, NEW h, Judged(h)
  PROVE  Judged(h)'
BY UnwellStays, ComputedStays DEF Judged

\* Handlers stay, need no grounds, or have them.
HandlersGo ==
  \A w \in Handlers : work'[w] = work[w] \/ Quiet(work'[w]) \/ Judged(work[w])'

\* No new upload.
GoingGoes == \A f \in Files : going'[f] > 0 => going[f] > 0

\* With these, the parts of the invariant are kept: the handlers, ...
LEMMA HandlersJudgedStay ==
  ASSUME TypeOK, Advance, HandlersJudged, HandlersGo
  PROVE  HandlersJudged'
<1> SUFFICES ASSUME NEW w \in Handlers PROVE Judged(work[w])'
  BY DEF HandlersJudged
<1>1. CASE work'[w] = work[w]
  <2>1. \A h : Judged(h) => Judged(h)'
    BY JudgedStays
  <2> QED BY <1>1, <2>1 DEF HandlersJudged
<1>2. CASE Quiet(work'[w])
  BY <1>2 DEF Judged, Quiet, JudgedSteps
<1> QED BY <1>1, <1>2 DEF HandlersGo

\* ... and the uploads.
LEMMA GoingJudgedStays ==
  ASSUME TypeOK, Advance, GoingJudged, GoingGoes
  PROVE  GoingJudged'
BY ComputedStays DEF GoingJudged, GoingGoes

\* What ReportsTrue says of a sub task and a verdict.
TrueOf(s, v) ==
  IF v = "Completed" THEN Computed(s) /\ Outputs(s) \subseteq marked ELSE Unwell(s)

\* ReportsTrue in these words, now ...
LEMMA ReportsTrueAgain == ReportsTrue <=> \A s \in Subs, v \in Verdicts : <<s, v>> \in told => TrueOf(s, v)
BY DEF ReportsTrue, TrueOf, Computed, Unwell, Verdicts

\* ... and after a step.
LEMMA ReportsTrueNext ==
  ASSUME \A s \in Subs, v \in Verdicts : <<s, v>> \in told' => TrueOf(s, v)'
  PROVE  ReportsTrue'
BY DEF ReportsTrue, TrueOf, Computed, Unwell, Verdicts

\* A true report stays true.
LEMMA TrueStays ==
  ASSUME TypeOK, Advance, NEW s, NEW v, TrueOf(s, v)
  PROVE  TrueOf(s, v)'
<1>1. Outputs(s)' = Outputs(s)
  BY DEF Outputs
<1> QED BY <1>1, UnwellStays, ComputedStays DEF TrueOf, Advance, HistoryGrows

\* No new report.
LEMMA SameReports ==
  ASSUME TypeOK, Advance, ReportsTrue, told' = told
  PROVE  ReportsTrue'
BY TrueStays, ReportsTrueAgain, ReportsTrueNext

\* A report that is true.
LEMMA OneReport ==
  ASSUME TypeOK, Advance, ReportsTrue, NEW s \in Subs, NEW v \in Verdicts, told' = told \cup {<<s, v>>}, TrueOf(s, v)
  PROVE  ReportsTrue'
BY TrueStays, ReportsTrueAgain, ReportsTrueNext

\* Steps that report nothing.
LEMMA QuietJudges ==
  ASSUME TypeOK, Advance, Judging, HandlersGo, GoingGoes, told' = told
  PROVE  Judging'
BY HandlersJudgedStay, GoingJudgedStays, SameReports DEF Judging

\* A handler goes on: quietly or with grounds, ...
LEMMA GotoGoes ==
  ASSUME TypeOK, NEW w \in Handlers, NEW h, Goto(w, h), Quiet(h) \/ Judged(h)'
  PROVE  HandlersGo
<1> SUFFICES ASSUME NEW x \in Handlers
             PROVE  work'[x] = work[x] \/ Quiet(work'[x]) \/ Judged(work[x])'
  BY DEF HandlersGo
<1>1. CASE x = w
  BY <1>1 DEF Goto, TypeOK
<1>2. CASE x # w
  BY <1>2 DEF Goto, TypeOK
<1> QED BY <1>1, <1>2

\* ... to rest, ...
LEMMA RestGoes ==
  ASSUME TypeOK, NEW w \in Handlers, Return(w) \/ Goto(w, Onward(w))
  PROVE  HandlersGo
<1>1. Quiet(Idle)
  BY DEF Idle, Quiet, JudgedSteps
<1>2. Quiet(Onward(w))
  BY OnwardRests DEF Quiet, JudgedSteps
<1> QED BY <1>1, <1>2, GotoGoes DEF Return

\* ... with what it has in hand ...
LEMMA BecomeGoes ==
  ASSUME TypeOK, NEW w \in Handlers, NEW step, step \notin JudgedSteps \cup {"hold"}, Become(w, step)
  PROVE  HandlersGo
<1>1. PICK h : h = [work[w] EXCEPT !.at = step]
  OBVIOUS
<1>2. work[w] \in Handling
  BY DEF TypeOK
<1>3. h.at = step
  BY <1>1, <1>2 DEF Handling
<1> QED BY <1>1, <1>3, GotoGoes DEF Become, Quiet

\* ... or from the start.
LEMMA BeginGoes ==
  ASSUME TypeOK, NEW w \in Handlers, NEW s, NEW step, Begin(w, step, s), step # "hold",
         step = "save and fail" => Unwell(s)',
         step \in {"save and send", "save and complete"} => Computed(s)'
  PROVE  HandlersGo
<1>1. PICK h : h = [Idle EXCEPT !.at = step, !.sub = s]
  OBVIOUS
<1>2. h.at = step /\ h.sub = s
  BY <1>1 DEF Idle
<1>3. Judged(h)'
  BY <1>2 DEF Judged
<1> QED BY <1>1, <1>3, GotoGoes DEF Begin

-----------------------------------------------------------------------------
\* Steps that leave the uploads alone.
LEMMA UntouchedGoing ==
  ASSUME going' = going
  PROVE  GoingGoes
BY DEF GoingGoes

\* The steps one by one: enqueue_sub_task marks inputs only.
LEMMA EnqueueSubTaskJudged ==
  ASSUME TypeOK, Advance, Judging, NEW w \in Handlers, NEW s \in Subs, EnqueueSubTask(w, s)
  PROVE  Judging'
<1>1. HandlersGo
  <2>1. CASE Inputs(s) = {}
    BY <2>1, BeginGoes DEF EnqueueSubTask
  <2>2. CASE Inputs(s) # {}
    BY <2>2, BeginGoes DEF EnqueueSubTask
  <2> QED BY <2>1, <2>2
<1> QED BY <1>1, UntouchedGoing, QuietJudges DEF EnqueueSubTask, history

\* run_job marks an input.
LEMMA DownloadedJudged ==
  ASSUME TypeOK, Fitting, Advance, Judging, NEW w \in Handlers, NEW f \in Files,
         Downloaded(w, f) \/ RunAnyway(w, f)
  PROVE  Judging'
<1>1. HandlersGo
  BY BeginGoes DEF Downloaded, RunAnyway
<1> QED BY <1>1, UntouchedGoing, QuietJudges DEF Downloaded, RunAnyway

\* internal_run_job.
LEMMA RunSavedJudged ==
  ASSUME TypeOK, Advance, Judging, NEW w \in Handlers, RunSaved(w)
  PROVE  Judging'
<1>1. HandlersGo
  <2>1. CASE ~ AllBoth(Inputs(work[w].sub))
    BY <2>1, BecomeGoes DEF RunSaved, Quiet, JudgedSteps
  <2>2. CASE AllBoth(Inputs(work[w].sub)) /\ ~ Present(work[w].sub)
    BY <2>2, RestGoes DEF RunSaved
  <2>3. CASE AllBoth(Inputs(work[w].sub)) /\ Present(work[w].sub)
    <3>1. PICK h : h = [work[w] EXCEPT !.copy = rows[work[w].sub],
                                       !.at = IF Facility[work[w].sub] = "Other" THEN "submit" ELSE "find"]
      OBVIOUS
    <3>2. work[w] \in Handling
      BY DEF TypeOK
    <3>3. Quiet(h)
      BY <3>1, <3>2 DEF Handling, Quiet, JudgedSteps
    <3> QED BY <2>3, <3>1, <3>3, GotoGoes DEF RunSaved
  <2> QED BY <2>1, <2>2, <2>3
<1> QED BY <1>1, UntouchedGoing, QuietJudges DEF RunSaved, Save, transfers, history

\* A command of the cluster that fails.
LEMMA ReturnJudged ==
  ASSUME TypeOK, Advance, Judging, NEW w \in Handlers, SubmitFails(w) \/ QstatFails(w)
  PROVE  Judging'
<1>1. HandlersGo
  BY RestGoes DEF SubmitFails, QstatFails
<1> QED BY <1>1, UntouchedGoing, QuietJudges
        DEF SubmitFails, QstatFails, tables, transfers, history

\* A save.
LEMMA SavedJudged ==
  ASSUME TypeOK, Advance, Judging, NEW w \in Handlers, Saved(w)
  PROVE  Judging'
<1>1. HandlersGo
  BY RestGoes DEF Saved
<1> QED BY <1>1, UntouchedGoing, QuietJudges DEF Saved, Save, transfers, history

\* A copy is written back.
LEMMA WriteBackGoes ==
  ASSUME TypeOK, NEW w \in Handlers, NEW row, NEW step, step # "hold",
         WriteBack(w, row, [work[w] EXCEPT !.at = step]),
         NEW s, s = work[w].sub, step = "save and fail" => Unwell(s)',
         step \in {"save and send", "save and complete"} => Computed(s)'
  PROVE  HandlersGo
<1>1. PICK h : h = [work[w] EXCEPT !.at = step]
  OBVIOUS
<1>2. work[w] \in Handling
  BY DEF TypeOK
<1>3. h.at = step /\ h.sub = s
  BY <1>1, <1>2 DEF Handling
<1>4. Judged(h)'
  BY <1>3 DEF Judged
<1>5. CASE Present(work[w].sub)
  BY <1>1, <1>4, <1>5, GotoGoes DEF WriteBack
<1>6. CASE ~ Present(work[w].sub)
  BY <1>6, RestGoes DEF WriteBack
<1> QED BY <1>5, <1>6

\* submit_job_script.
LEMMA SubmitJobJudged ==
  ASSUME TypeOK, Advance, Judging, NEW w \in Handlers, SubmitJob(w)
  PROVE  Judging'
<1>1. PICK row : row = [work[w].copy EXCEPT !.job = Len(jobs')]
  OBVIOUS
<1>2. WriteBack(w, row, [work[w] EXCEPT !.at = "save"])
  BY <1>1 DEF SubmitJob
<1>3. PICK h : h = [work[w] EXCEPT !.at = "save"]
  OBVIOUS
<1>4. work[w] \in Handling
  BY DEF TypeOK
<1>5. Quiet(h)
  BY <1>3, <1>4 DEF Handling, Quiet, JudgedSteps
<1>6. HandlersGo
  BY <1>2, <1>3, <1>5, GotoGoes, RestGoes DEF WriteBack
<1> QED BY <1>6, UntouchedGoing, QuietJudges DEF SubmitJob, transfers, history

\* The tick and refresh_status.
LEMMA RefreshJudged ==
  ASSUME TypeOK, Advance, Judging, NEW w \in Handlers, RefreshAll(w) \/ RefreshStatus(w)
  PROVE  Judging'
<1>1. work[w] \in Handling
  BY DEF TypeOK
<1>2. CASE RefreshAll(w)
  <2>1. PICK h : h = [Idle EXCEPT !.at = "refresh", !.todo = Refreshable]
    OBVIOUS
  <2>2. Quiet(h)
    BY <2>1 DEF Idle, Quiet, JudgedSteps
  <2>3. HandlersGo
    BY <1>2, <2>1, <2>2, GotoGoes DEF RefreshAll
  <2> QED BY <1>2, <2>3, UntouchedGoing, QuietJudges DEF RefreshAll, tables, transfers, history
<1>3. CASE RefreshStatus(w)
  <2>1. PICK s \in work[w].todo :
          \/ Goto(w, [work[w] EXCEPT !.at = "qstat", !.sub = s, !.copy = rows[s], !.todo = @ \ {s}])
          \/ Return(w)
    BY <1>3 DEF RefreshStatus
  <2>2. PICK h : h = [work[w] EXCEPT !.at = "qstat", !.sub = s, !.copy = rows[s], !.todo = @ \ {s}]
    OBVIOUS
  <2>3. Quiet(h)
    BY <1>1, <2>2 DEF Handling, Quiet, JudgedSteps
  <2>4. HandlersGo
    BY <2>1, <2>2, <2>3, GotoGoes, RestGoes
  <2> QED BY <1>3, <2>4, UntouchedGoing, QuietJudges DEF RefreshStatus, tables, transfers, history
<1> QED BY <1>2, <1>3

\* What a command does to the table.
LEMMA OperatedGoes ==
  ASSUME TypeOK, NEW w \in Handlers, NEW s, NEW step, NEW row, NEW next, Operated(w, s, step, row, next),
         Quiet(next)
  PROVE  HandlersGo
BY GotoGoes, RestGoes DEF Operated

\* Jobs of Slurm are not paused: the agent reads SUSPENDED as Unknown, and a job in a state it does
\* not know is reported failed (SlurmState, refresh_status).
Steady == Manager = "slurm" => "pause" \notin Operations

\* pause, continue and delete.
LEMMA OperateJudged ==
  ASSUME Steady, TypeOK, Advance, Judging, NEW w \in Handlers, NEW s \in Subs, Operate(w, s)
  PROVE  Judging'
<1>1. PICK op \in Operations :
        IF rows[s].job = NoJob
        THEN Operated(w, s, Operation[op], rows[s], [Idle EXCEPT !.at = "save", !.sub = s])
        ELSE Goto(w, [Idle EXCEPT !.at = Operation[op], !.sub = s, !.copy = rows[s]]) /\ UNCHANGED rows
  BY DEF Operate
<1>2. PICK h : h = IF rows[s].job = NoJob THEN [Idle EXCEPT !.at = "save", !.sub = s]
                   ELSE [Idle EXCEPT !.at = Operation[op], !.sub = s, !.copy = rows[s]]
  OBVIOUS
<1>3. Quiet(h)
  <2>1. Operation[op] \in Commands /\ (Operation[op] = "hold" => op = "pause")
    BY OperationTyped, RunJobAssumption DEF Operation
  <2> QED BY <1>2, <2>1 DEF Idle, Quiet, JudgedSteps, Commands, Steady
<1>4. HandlersGo
  BY <1>1, <1>2, <1>3, GotoGoes, OperatedGoes
<1> QED BY <1>4, UntouchedGoing, QuietJudges DEF Operate, transfers, history

\* qhold, qrls and qdel.
LEMMA CommandJobJudged ==
  ASSUME TypeOK, Advance, Judging, NEW w \in Handlers, CommandJob(w)
  PROVE  Judging'
<1>1. PICK h : h = [work[w] EXCEPT !.at = "save"]
  OBVIOUS
<1>2. work[w] \in Handling
  BY DEF TypeOK
<1>3. Quiet(h)
  BY <1>1, <1>2 DEF Handling, Quiet, JudgedSteps
<1>4. Operated(w, work[w].sub, work[w].at, work[w].copy, h) \/ Return(w)
  BY <1>1 DEF CommandJob
<1>5. HandlersGo
  BY <1>3, <1>4, OperatedGoes, RestGoes
<1> QED BY <1>5, UntouchedGoing, QuietJudges DEF CommandJob, transfers, history

\* No handler goes on.
LEMMA SameWorkGoes ==
  ASSUME work' = work
  PROVE  HandlersGo
BY DEF HandlersGo

\* The scheduler takes a report.
LEMMA TakeReportJudged ==
  ASSUME TypeOK, Advance, Judging, NEW s \in Subs, NEW v \in Verdicts, TakeReport(s, v)
  PROVE  Judging'
BY SameWorkGoes, UntouchedGoing, QuietJudges DEF TakeReport, transfers, history

\* The steps of the cluster.
LEMMA ClusterJudged ==
  ASSUME TypeOK, Advance, Judging, NEW j \in DOMAIN jobs, Cluster(j)
  PROVE  Judging'
<1>1. UNCHANGED <<tables, transfers, work, due, history, counts>>
  BY DEF Cluster, JobRuns, JobEnds, JobLeaves
<1> QED BY <1>1, SameWorkGoes, UntouchedGoing, QuietJudges DEF tables, transfers, history

\* A restart.
LEMMA RestartJudged ==
  ASSUME TypeOK, Advance, Judging, NEW saved, saved \in {disk, Torn(disk)}, Restart(saved)
  PROVE  Judging'
<1>1. HandlersGo
  BY DEF HandlersGo, Restart, Idle, Quiet, JudgedSteps
<1>2. GoingGoes
  BY DEF GoingGoes, Restart
<1> QED BY <1>1, <1>2, QuietJudges DEF Restart, history

-----------------------------------------------------------------------------
\* What has failed may be reported.
LEMMA TroubleUnwell ==
  ASSUME NEW s, s \in trouble'
  PROVE  Unwell(s)'
BY DEF Unwell

\* fail_job, called for a transfer.
LEMMA TransferFailsJudged ==
  ASSUME TypeOK, Advance, Judging, NEW w \in Handlers, NEW f \in Files,
         DownloadFails(w, f) \/ CopyFails(w, f) \/ UploadFails(w, f)
  PROVE  Judging'
<1>1. PICK s : s = OwnerOf[f]
  OBVIOUS
<1>2. FailJob(w, s) /\ UNCHANGED <<files, disk, told>>
  BY <1>1 DEF DownloadFails, CopyFails, UploadFails
<1>3. Unwell(s)'
  BY <1>2, TroubleUnwell DEF FailJob
<1>4. HandlersGo
  <2>1. CASE Present(s)
    BY <1>2, <1>3, <2>1, BeginGoes DEF FailJob
  <2>2. CASE ~ Present(s)
    BY <1>2, <2>2, SameWorkGoes DEF FailJob
  <2> QED BY <2>1, <2>2
<1>5. GoingGoes
  <2>1. going' = going \/ (going[f] > 0 /\ going' = [going EXCEPT ![f] = @ - 1])
    BY DEF DownloadFails, CopyFails, UploadFails
  <2> QED BY <2>1 DEF GoingGoes, TypeOK
<1> QED BY <1>2, <1>4, <1>5, QuietJudges

\* A runner that dies.
LEMMA TransferDiesJudged ==
  ASSUME TypeOK, Advance, Judging, NEW f \in Files, TransferDies(f)
  PROVE  Judging'
<1>1. UNCHANGED <<files, disk, work, told>>
  BY DEF TransferDies, tables, history
<1>2. GoingGoes
  BY DEF GoingGoes, TransferDies, TypeOK
<1> QED BY <1>1, <1>2, SameWorkGoes, QuietJudges

\* A software that is missing.
LEMMA FindSoftwareJudged ==
  ASSUME TypeOK, Advance, Judging, NEW w \in Handlers, FindSoftware(w)
  PROVE  Judging'
<1>1. /\ UNCHANGED <<files, disk, transfers, told>>
      /\ \/ Become(w, "submit")
         \/ /\ trouble' = trouble \cup {work[w].sub}
            /\ WriteBack(w, [work[w].copy EXCEPT !.status = "Failed"], [work[w] EXCEPT !.at = "save and fail"])
         \/ Return(w)
  BY DEF FindSoftware
<1>2. PICK s : s = work[w].sub
  OBVIOUS
<1>3. HandlersGo
  <2>1. CASE Become(w, "submit")
    BY <2>1, BecomeGoes DEF JudgedSteps
  <2>2. CASE /\ trouble' = trouble \cup {work[w].sub}
             /\ WriteBack(w, [work[w].copy EXCEPT !.status = "Failed"], [work[w] EXCEPT !.at = "save and fail"])
    <3>1. Unwell(s)'
      BY <1>2, <2>2, TroubleUnwell
    <3> QED BY <1>2, <2>2, <3>1, WriteBackGoes
  <2>3. CASE Return(w)
    BY <2>3, RestGoes
  <2> QED BY <1>1, <2>1, <2>2, <2>3
<1> QED BY <1>1, <1>3, UntouchedGoing, QuietJudges DEF transfers

\* The grounds of a handler.
LEMMA HandlerJudged ==
  ASSUME Judging, NEW w \in Handlers
  PROVE  Judged(work[w])
BY DEF Judging, HandlersJudged

\* Steps that report what is true.
LEMMA ReportingJudges ==
  ASSUME TypeOK, Advance, Judging, HandlersGo, GoingGoes,
         NEW s \in Subs, NEW v \in Verdicts, Report(s, v), TrueOf(s, v)
  PROVE  Judging'
<1>1. ReportsTrue'
  BY OneReport DEF Report, Judging
<1> QED BY <1>1, HandlersJudgedStay, GoingJudgedStays DEF Judging

\* fail_job reports.
LEMMA FailSavedJudged ==
  ASSUME TypeOK, Fitting, Advance, Judging, NEW w \in Handlers, FailSaved(w)
  PROVE  Judging'
<1>1. work[w].sub \in Subs /\ Report(work[w].sub, "Failed") /\ "Failed" \in Verdicts
  BY HandlerFits DEF FailSaved, At, Fits, Verdicts
<1>2. TrueOf(work[w].sub, "Failed")
  BY HandlerJudged DEF FailSaved, At, Judged, TrueOf
<1>3. HandlersGo
  BY RestGoes DEF FailSaved
<1> QED BY <1>1, <1>2, <1>3, ReportingJudges, UntouchedGoing DEF FailSaved, Save, transfers

\* internal_complete_job reports when the last output was sent.
LEMMA CompleteSavedJudged ==
  ASSUME TypeOK, Fitting, Advance, Judging, NEW w \in Handlers, CompleteSaved(w)
  PROVE  Judging'
<1>1. work[w].sub \in Subs /\ "Completed" \in Verdicts
  BY HandlerFits DEF CompleteSaved, At, Fits, Verdicts
<1>2. HandlersGo
  BY RestGoes DEF CompleteSaved
<1>3. GoingGoes
  BY UntouchedGoing DEF CompleteSaved, Save, transfers
<1>4. CASE AllBoth(Outputs(work[w].sub))
  <2>1. Computed(work[w].sub)
    BY HandlerJudged DEF CompleteSaved, At, Judged
  <2>2. Outputs(work[w].sub) \subseteq marked
    BY <1>4 DEF AllBoth, Outputs, Fitting, MarksFit
  <2>3. TrueOf(work[w].sub, "Completed")
    BY <2>1, <2>2 DEF TrueOf
  <2>4. Report(work[w].sub, "Completed")
    BY <1>4 DEF CompleteSaved
  <2> QED BY <1>1, <1>2, <1>3, <2>3, <2>4, ReportingJudges
<1>5. CASE ~ AllBoth(Outputs(work[w].sub))
  BY <1>2, <1>3, <1>5, QuietJudges DEF CompleteSaved
<1> QED BY <1>4, <1>5

\* complete_job marks an output that was sent.
LEMMA UploadedJudged ==
  ASSUME TypeOK, Advance, Judging, NEW w \in Handlers, NEW f \in Files, Uploaded(w, f)
  PROVE  Judging'
<1>1. PICK s : s = OwnerOf[f]
  OBVIOUS
<1>2. Computed(s)
  BY <1>1 DEF Uploaded, Judging, GoingJudged
<1>3. Computed(s)'
  BY <1>2, ComputedStays
<1>4. HandlersGo
  BY <1>1, <1>3, BeginGoes DEF Uploaded
<1>5. GoingGoes
  BY DEF GoingGoes, Uploaded, TypeOK
<1> QED BY <1>4, <1>5, QuietJudges DEF Uploaded

\* A completed job without outputs is reported, the outputs of another are sent.
LEMMA SendOutputsJudged ==
  ASSUME TypeOK, Fitting, Advance, Judging, NEW w \in Handlers, SendOutputs(w)
  PROVE  Judging'
<1>1. work[w].sub \in Subs /\ "Completed" \in Verdicts
  BY HandlerFits DEF SendOutputs, At, Fits, Verdicts
<1>2. Computed(work[w].sub)
  BY HandlerJudged DEF SendOutputs, At, Judged
<1>3. CASE Outputs(work[w].sub) = {}
  <2>1. HandlersGo
    BY <1>3, RestGoes DEF SendOutputs
  <2>2. TrueOf(work[w].sub, "Completed")
    BY <1>2, <1>3 DEF TrueOf
  <2>3. Report(work[w].sub, "Completed") /\ files' = files /\ going' = going /\ disk' = Memory
    BY <1>3 DEF SendOutputs, Save
  <2> QED BY <1>1, <2>1, <2>2, <2>3, ReportingJudges, UntouchedGoing
<1>4. CASE Outputs(work[w].sub) # {}
  <2>1. HandlersGo
    BY <1>4, BecomeGoes DEF SendOutputs, JudgedSteps
  <2>3. GoingJudged'
    <3> SUFFICES ASSUME NEW f \in Files, going'[f] > 0 PROVE KindOf[f] = "OUT" /\ Computed(OwnerOf[f])'
      BY DEF GoingJudged
    <3>1. CASE f \in Outputs(work[w].sub)
      <4>1. PICK s : s = work[w].sub
        OBVIOUS
      <4>2. KindOf[f] = "OUT" /\ OwnerOf[f] = s
        BY <3>1, <4>1 DEF Outputs
      <4>3. Computed(s)'
        BY <1>2, <4>1, ComputedStays
      <4> QED BY <4>2, <4>3
    <3>2. CASE f \notin Outputs(work[w].sub)
      <4>1. going[f] > 0
        BY <1>4, <3>2 DEF SendOutputs
      <4>2. KindOf[f] = "OUT" /\ Computed(OwnerOf[f])
        BY <4>1 DEF Judging, GoingJudged
      <4> QED BY <4>2, ComputedStays
    <3> QED BY <3>1, <3>2
  <2>4. ReportsTrue'
    BY <1>4, SameReports DEF SendOutputs, Judging
  <2> QED BY <2>1, <2>3, <2>4, HandlersJudgedStay DEF Judging
<1> QED BY <1>3, <1>4

\* What the answer of the cluster tells of a job.
LEMMA StateTells ==
  ASSUME TypeOK, NoneHeld, NEW j \in DOMAIN jobs
  PROVE  /\ GetJob(j) = "Completed" => jobs[j].letter = "F" /\ Well(jobs[j].exit)
         /\ GetJob(j) \notin {"Running", "Suspended", "Queuing", "Completing", "Completed"}
              => jobs[j].letter \in {"E", "F"} /\ ~ Well(jobs[j].exit)
<1>1. jobs[j].letter \in Letters
  BY JobTyped
<1>2. CASE Manager = "pbs"
  <2>1. GetJob(j) = PbsState(jobs[j].letter, jobs[j].exit)
    BY <1>2 DEF GetJob, PbsJob, Item
  <2> QED BY <1>1, <2>1 DEF PbsState, Letters
<1>3. CASE Manager = "slurm"
  <2>1. GetJob(j) = SlurmState(SlurmWord(j)) /\ jobs[j].letter # "H"
    BY <1>3 DEF GetJob, NoneHeld
  <2>2. /\ jobs[j].letter = "Q" => SlurmWord(j) = "PENDING"
        /\ jobs[j].letter = "R" => SlurmWord(j) = "RUNNING"
        /\ jobs[j].letter = "E" => SlurmWord(j) = "COMPLETING"
        /\ jobs[j].letter = "F" => SlurmWord(j) = IF Well(jobs[j].exit) THEN "COMPLETED" ELSE "FAILED"
    BY DEF SlurmWord
  <2> QED BY <1>1, <2>1, <2>2 DEF SlurmState, Letters
<1> QED BY <1>2, <1>3, RunJobAssumption

\* refresh_status judges by the job in its copy of the row, which is one of the sub task.
LEMMA AnswerJudged ==
  ASSUME TypeOK, Fitting, NoneHeld, Advance, Judging, NEW w \in Handlers, Answer(w)
  PROVE  Judging'
<1>1. PICK s : s = work[w].sub
  OBVIOUS
<1>2. PICK j : j = work[w].copy.job
  OBVIOUS
<1>3. Linked(s, j)
  <2>1. HasJob(work[w].copy) /\ RowFits(s, work[w].copy)
    BY <1>1, HandlerFits DEF Answer, At, Fits, HasJob
  <2> QED BY <1>2, <2>1 DEF RowFits
<1>4. HandlersGo
  <2>1. CASE Goto(w, Onward(w))
    BY <2>1, RestGoes
  <2>2. CASE /\ GetJob(j) = "Completed"
             /\ WriteBack(w, [work[w].copy EXCEPT !.status = "Completing"], [work[w] EXCEPT !.at = "save and send"])
    <3>1. Computed(s)
      BY <1>3, <2>2, StateTells DEF Computed, Linked
    <3>2. Computed(s)'
      BY <3>1, ComputedStays
    <3> QED BY <1>1, <2>2, <3>2, WriteBackGoes
  <2>3. CASE /\ GetJob(j) \notin {"Running", "Suspended", "Queuing", "Completing", "Completed"}
             /\ WriteBack(w, [work[w].copy EXCEPT !.status = "Failed"], [work[w] EXCEPT !.at = "save and fail"])
    <3>1. jobs[j].of = s /\ j \in DOMAIN jobs /\ jobs[j].letter \in {"E", "F"} /\ ~ Well(jobs[j].exit)
      BY <1>3, <2>3, StateTells DEF Linked
    <3>2. Well(jobs[j].exit) = FALSE
      BY <3>1 DEF Well
    <3>3. Unwell(s)
      BY <3>1, <3>2 DEF Unwell, Ended
    <3>4. Unwell(s)'
      BY <3>3, UnwellStays
    <3> QED BY <1>1, <2>3, <3>4, WriteBackGoes
  <2> QED BY <1>2, <2>1, <2>2, <2>3 DEF Answer
<1> QED BY <1>4, UntouchedGoing, QuietJudges DEF Answer, transfers, history

\* The steps that change the jobs of the cluster.
LEMMA JobsChange ==
  ASSUME TypeOK, Fitting, [Next]_vars
  PROVE  \/ jobs' = jobs
         \/ \E j \in DOMAIN jobs, l \in Letters, e \in {0, 1} :
              SetLetter(j, l, e) /\ (l = "H" => \E w \in Handlers : work[w].at = "hold")
         \/ \E s \in Subs : jobs' = Submitted(s)
<1> DEFINE Set == \E j \in DOMAIN jobs, l \in Letters, e \in {0, 1} :
                    SetLetter(j, l, e) /\ (l = "H" => \E w \in Handlers : work[w].at = "hold")
           New == \E s \in Subs : jobs' = Submitted(s)
<1>1. ASSUME NEW j \in DOMAIN jobs, Cluster(j) PROVE Set
  <2>1. PICK l \in Letters, e \in {0, 1} : SetLetter(j, l, e) /\ l # "H"
    BY <1>1, JobTyped DEF Cluster, JobRuns, JobEnds, JobLeaves, Letters
  <2> QED BY <2>1
<1>2. ASSUME NEW w \in Handlers, SubmitJob(w) PROVE New
  BY <1>2, HandlerFits DEF SubmitJob, At, Fits
<1>3. ASSUME NEW w \in Handlers, CommandJob(w) PROVE jobs' = jobs \/ Set
  <2>1. work[w].at \in Commands
    BY <1>3 DEF CommandJob, Commands
  <2>2. PICK j : j = work[w].copy.job
    OBVIOUS
  <2>3. j \in DOMAIN jobs
    BY <2>1, <2>2, HandlerFits DEF Fits, RowFits, HasJob, Linked, Commands
  <2>4. CASE Active(j)
    <3>1. PICK l \in Letters, e \in {0, 1} : SetLetter(j, l, e) /\ (l = "H" => work[w].at = "hold")
      BY <1>3, <2>1, <2>2, <2>3, <2>4, JobTyped DEF CommandJob, Letters, Commands
    <3> QED BY <2>3, <3>1
  <2>5. CASE ~ Active(j)
    BY <1>3, <2>2, <2>5 DEF CommandJob
  <2> QED BY <2>4, <2>5
<1>4. ASSUME NEW w \in Handlers, Work(w) PROVE jobs' = jobs \/ SubmitJob(w) \/ CommandJob(w)
  BY <1>4 DEF Work, RunSaved, FindSoftware, SubmitFails, Saved, FailSaved, RefreshStatus, Answer, QstatFails,
              SendOutputs, CompleteSaved
<1>5. ASSUME NEW w \in Handlers, NEW f \in Files, Transfer(w, f) PROVE jobs' = jobs
  BY <1>5 DEF Transfer, Downloaded, DownloadFails, CopyFails, RunAnyway, Uploaded, UploadFails
<1>6. ASSUME NEW w \in Handlers, NEW s \in Subs, EnqueueSubTask(w, s) \/ Operate(w, s) PROVE jobs' = jobs
  BY <1>6 DEF EnqueueSubTask, Operate
<1>7. ASSUME (\E w \in Handlers : RefreshAll(w)) \/ (\E s \in Subs, v \in Verdicts : TakeReport(s, v))
             \/ (\E f \in Files : TransferDies(f)) \/ Crash \/ UNCHANGED vars
      PROVE  jobs' = jobs
  BY <1>7 DEF RefreshAll, TakeReport, TransferDies, Crash, Restart, vars
<1> HIDE DEF Set, New
<1>8. jobs' = jobs \/ Set \/ New
  BY <1>1, <1>2, <1>3, <1>4, <1>5, <1>6, <1>7 DEF Next
<1> QED BY <1>8 DEF Set, New

\* A job that is submitted is queued, with the limit of its script.
LEMMA AddedJob ==
  ASSUME TypeOK, NEW s \in Subs, jobs' = Submitted(s), NEW j \in DOMAIN jobs'
  PROVE  \/ j \in DOMAIN jobs /\ jobs'[j] = jobs[j]
         \/ jobs'[j].letter = "Q" /\ jobs'[j].limit = Limit
<1>1. PICK new : new = [of |-> s, letter |-> "Q", exit |-> 0, limit |-> Limit]
  OBVIOUS
<1>2. jobs' = Append(jobs, new) /\ new.letter = "Q" /\ new.limit = Limit /\ jobs \in Seq(Job)
  BY <1>1 DEF Submitted, TypeOK
<1>3. DOMAIN jobs = 1..Len(jobs) /\ Len(jobs) \in Nat /\ DOMAIN jobs' = 1..(Len(jobs) + 1)
  BY <1>2
<1> QED BY <1>2, <1>3

\* No job of Slurm is held when none is paused.
LEMMA NoneHeldStays ==
  ASSUME TypeOK, Fitting, NoneHeld, Judging, [Next]_vars
  PROVE  NoneHeld'
<1> SUFFICES ASSUME Manager = "slurm" PROVE \A j \in DOMAIN jobs' : jobs'[j].letter # "H"
  BY DEF NoneHeld
<1>1. \A j \in DOMAIN jobs : jobs[j].letter # "H"
  BY DEF NoneHeld
<1>2. \A w \in Handlers : work[w].at # "hold"
  BY HandlerJudged DEF Judged
<1>3. CASE jobs' = jobs
  BY <1>1, <1>3
<1>4. ASSUME NEW j \in DOMAIN jobs, NEW l \in Letters, NEW e \in {0, 1}, SetLetter(j, l, e),
             l = "H" => \E w \in Handlers : work[w].at = "hold"
      PROVE  \A k \in DOMAIN jobs' : jobs'[k].letter # "H"
  BY <1>1, <1>2, <1>4, LetterSet
<1>5. ASSUME NEW s \in Subs, jobs' = Submitted(s) PROVE \A k \in DOMAIN jobs' : jobs'[k].letter # "H"
  BY <1>1, <1>5, AddedJob
<1> QED BY <1>3, <1>4, <1>5, JobsChange

\* Every step keeps the grounds.
LEMMA StepJudged ==
  ASSUME Steady, TypeOK, Fitting, NoneHeld, Judging, [Next]_vars
  PROVE  Judging'
<1>0. Advance
  BY StepFits
<1>1. CASE UNCHANGED vars
  BY <1>0, <1>1, SameWorkGoes, UntouchedGoing, QuietJudges DEF vars
<1>2. ASSUME NEW w \in Handlers, Work(w) PROVE Judging'
  BY <1>0, <1>2, RunSavedJudged, FindSoftwareJudged, SubmitJobJudged, ReturnJudged, SavedJudged, FailSavedJudged,
     RefreshJudged, AnswerJudged, SendOutputsJudged, CompleteSavedJudged, CommandJobJudged DEF Work
<1>3. ASSUME NEW w \in Handlers, RefreshAll(w) PROVE Judging'
  BY <1>0, <1>3, RefreshJudged
<1>4. ASSUME NEW w \in Handlers, NEW s \in Subs, EnqueueSubTask(w, s) \/ Operate(w, s) PROVE Judging'
  BY <1>0, <1>4, EnqueueSubTaskJudged, OperateJudged
<1>5. ASSUME NEW w \in Handlers, NEW f \in Files, Transfer(w, f) PROVE Judging'
  BY <1>0, <1>5, DownloadedJudged, TransferFailsJudged, UploadedJudged DEF Transfer
<1>6. ASSUME NEW j \in DOMAIN jobs, Cluster(j) PROVE Judging'
  BY <1>0, <1>6, ClusterJudged
<1>7. ASSUME NEW s \in Subs, NEW v \in Verdicts, TakeReport(s, v) PROVE Judging'
  BY <1>0, <1>7, TakeReportJudged
<1>9. ASSUME NEW f \in Files, TransferDies(f) PROVE Judging'
  BY <1>0, <1>9, TransferDiesJudged
<1>8. ASSUME Crash PROVE Judging'
  <2>1. PICK saved \in {disk, Torn(disk)} : Restart(saved)
    BY <1>8 DEF Crash
  <2> QED BY <1>0, <2>1, RestartJudged
<1> QED BY <1>1, <1>2, <1>3, <1>4, <1>5, <1>6, <1>7, <1>8, <1>9 DEF Next

\* Nothing was reported yet.
LEMMA InitJudged == Init => Judging /\ NoneHeld
<1> SUFFICES ASSUME Init PROVE Judging /\ NoneHeld
  OBVIOUS
<1>1. HandlersJudged
  BY DEF Init, HandlersJudged, Judged, Idle
<1>2. GoingJudged
  BY DEF Init, GoingJudged
<1>4. ReportsTrue
  BY DEF Init, ReportsTrue
<1>5. NoneHeld
  BY DEF Init, NoneHeld
<1> QED BY <1>1, <1>2, <1>4, <1>5 DEF Judging

\* "Completed" and "Failed" are reported only with grounds: the job, the outputs, a transfer or the
\* software (refresh_status, internal_complete_job, fail_job, ReportsTrue); with Slurm, when nothing is paused.
THEOREM ReportsAreTrue == Steady => (Spec => []ReportsTrue)
<1> SUFFICES ASSUME Steady PROVE Spec => []ReportsTrue
  OBVIOUS
<1> DEFINE Inv == TypeOK /\ Fitting /\ NoneHeld /\ Judging
<1>1. Init => Inv
  BY InitFits, InitJudged
<1>2. Inv /\ [Next]_vars => Inv'
  BY StepFits, NoneHeldStays, StepJudged
<1>3. Inv => ReportsTrue
  BY DEF Judging
<1> QED BY <1>1, <1>2, <1>3, PTL DEF Spec

-----------------------------------------------------------------------------
\* Every job has the limit of the script it was submitted with.
AllLimited == \A j \in DOMAIN jobs : jobs[j].limit = Limit

\* And keeps it.
LEMMA LimitedStays ==
  ASSUME TypeOK, Fitting, AllLimited, [Next]_vars
  PROVE  AllLimited'
<1> SUFFICES \A j \in DOMAIN jobs' : jobs'[j].limit = Limit
  BY DEF AllLimited
<1>1. \A j \in DOMAIN jobs : jobs[j].limit = Limit
  BY DEF AllLimited
<1>2. CASE jobs' = jobs
  BY <1>1, <1>2
<1>3. ASSUME NEW j \in DOMAIN jobs, NEW l \in Letters, NEW e \in {0, 1}, SetLetter(j, l, e)
      PROVE  \A k \in DOMAIN jobs' : jobs'[k].limit = Limit
  BY <1>1, <1>3, LetterSet
<1>4. ASSUME NEW s \in Subs, jobs' = Submitted(s) PROVE \A k \in DOMAIN jobs' : jobs'[k].limit = Limit
  BY <1>1, <1>4, AddedJob
<1> QED BY <1>2, <1>3, <1>4, JobsChange

\* With Slurm the limit is the number of seconds taken for minutes, when no cpu time replaces it.
LEMMA SlurmLong == Required.max_cpu_time = 0 => SlurmSeconds(Required) >= Required.max_wall_time
<1>1. Required.max_wall_time \in Nat
  BY RunJobAssumption
<1>2. Required.max_cpu_time = 0 => SlurmScript(Required).time = Required.max_wall_time
  BY DEF SlurmScript
<1> QED BY <1>1, <1>2 DEF SlurmSeconds

\* PBS limits every job to the wall time its task asks for, to the second; Slurm limits none to less,
\* unless a cpu time is asked for (gen_script, format_duration, LimitKept).
THEOREM LimitIsKept == Spec => []LimitKept
<1>1. Init => AllLimited
  BY DEF Init, AllLimited
<1>2. TypeOK /\ Fitting /\ AllLimited /\ [Next]_vars => AllLimited'
  BY LimitedStays
<1>3. AllLimited => LimitKept
  <2>1. Manager = "pbs" => Limit = Required.max_wall_time
    BY PbsLimit DEF Limit
  <2>2. Required.max_cpu_time = 0 => Limit >= Required.max_wall_time
    BY PbsLimit, SlurmLong, RunJobAssumption DEF Limit
  <2> QED BY <2>1, <2>2 DEF AllLimited, LimitKept
<1> QED BY <1>1, <1>2, <1>3, TypeCorrect, PTL DEF Spec

-----------------------------------------------------------------------------
(***************************************************************************)
(* What qstat prints, line by line.                                        *)
(***************************************************************************)

\* What the fold of PbsTextJob defines: a function on the sets of lines.
TextEquation(f, lines) ==
  f = [s \in SUBSET DOMAIN lines |->
         IF s = {} THEN NewJob ELSE PbsLine(f[s \ {Max(s)}], lines[Max(s)])]

\* All that is read of some lines.
ReadOf(lines) ==
  (JobStates \cup {0})
  \cup UNION {{lines[i][2], ParseDuration(lines[i][2]), ParseMemory(lines[i][2])} : i \in DOMAIN lines}

\* A job with such values.
JobOf(W) == [state : W, exit : W, cpu : W, max_memory : W, wall_time : W, cpu_time : W,
             start_time : W, end_time : W, node : W]

LEMMA LineRead ==
  ASSUME NEW lines, NEW i \in DOMAIN lines, NEW job \in JobOf(ReadOf(lines))
  PROVE  PbsLine(job, lines[i]) \in JobOf(ReadOf(lines))
<1> DEFINE W == ReadOf(lines)
           v == lines[i][2]
<1>1. /\ v \in W /\ ParseDuration(v) \in W /\ ParseMemory(v) \in W
      /\ PbsState(v, job.exit) \in W
  <2>1. PbsState(v, job.exit) \in JobStates
    BY DEF PbsState, JobStates
  <2> QED
    BY <2>1 DEF ReadOf
<1> HIDE DEF W
<1> QED
  BY <1>1 DEF PbsLine, JobOf, W

\* A text is read line by line.
LEMMA LineByLine ==
  ASSUME NEW N \in Nat, NEW lines, DOMAIN lines = 1..N
  PROVE  \E h : /\ h[0] = NewJob /\ \A n \in 1..N : h[n] = PbsLine(h[n - 1], lines[n])
                /\ PbsTextJob(lines) = h[N]
<1> DEFINE D == 1..N
           V == JobOf(ReadOf(lines))
           step == [n \in D |-> [job \in V |-> PbsLine(job, lines[n])]]
           pick == [s \in SUBSET D |-> Max(s)]
<1>2. IsFiniteSet(D)
  BY FS_Interval
<1>3. \A s \in SUBSET D : s # {} => Max(s) \in s /\ \A m \in s : m <= Max(s)
  <2> SUFFICES ASSUME NEW s \in SUBSET D, s # {} PROVE Max(s) \in s /\ \A m \in s : m <= Max(s)
    OBVIOUS
  <2>1. s \subseteq 0..N
    OBVIOUS
  <2> QED
    BY <2>1, MaxIsGreatest
<1>4. Picks(pick, D)
  BY <1>3 DEF Picks
<1>5. \A n \in D, job \in V : step[n][job] \in V /\ step[n][job] = PbsLine(job, lines[n])
  BY LineRead
<1>6. NewJob \in V
  BY DEF NewJob, JobOf, ReadOf, JobStates
<1> HIDE DEF D, step, V
<1>7. PICK g \in [SUBSET D -> V] : IsFold(g, D, NewJob, step, pick)
  <2> HIDE DEF pick
  <2> QED
    BY <1>2, <1>4, <1>5, <1>6, FoldExists
<1>8. TextEquation(g, lines)
  <2>1. ASSUME NEW s \in SUBSET D
        PROVE  g[s] = IF s = {} THEN NewJob ELSE PbsLine(g[s \ {Max(s)}], lines[Max(s)])
    <3>1. g[s] = IF s = {} THEN NewJob ELSE step[Max(s)][g[s \ {Max(s)}]]
      BY <1>7 DEF IsFold
    <3>2. ASSUME s # {} PROVE step[Max(s)][g[s \ {Max(s)}]] = PbsLine(g[s \ {Max(s)}], lines[Max(s)])
      <4>1. Max(s) \in D /\ s \ {Max(s)} \in SUBSET D
        BY <1>3, <3>2
      <4>2. g[s \ {Max(s)}] \in V
        BY <4>1
      <4> QED
        BY <1>5, <4>1, <4>2
    <3> QED
      BY <3>1, <3>2, Zenon
  <2>2. DOMAIN lines = D
    BY DEF D
  <2> QED
    BY <2>1, <2>2 DEF TextEquation
<1> DEFINE e == CHOOSE f : TextEquation(f, lines)
<1>9. TextEquation(e, lines)
  BY <1>8, Zenon
<1>10. PbsTextJob(lines) = e[DOMAIN lines]
  BY Zenon DEF PbsTextJob, FoldLeft, MapThenFoldSet, TextEquation
<1> HIDE DEF e
<1>11. \A s \in SUBSET D : e[s] = IF s = {} THEN NewJob ELSE PbsLine(e[s \ {Max(s)}], lines[Max(s)])
  <2> SUFFICES ASSUME NEW s \in SUBSET D
               PROVE  e[s] = IF s = {} THEN NewJob ELSE PbsLine(e[s \ {Max(s)}], lines[Max(s)])
    OBVIOUS
  <2>1. e[s] = [r \in SUBSET DOMAIN lines |->
                  IF r = {} THEN NewJob ELSE PbsLine(e[r \ {Max(r)}], lines[Max(r)])][s]
    BY <1>9, Zenon DEF TextEquation
  <2>2. s \in SUBSET DOMAIN lines
    BY DEF D
  <2> QED
    BY <2>1, <2>2, Zenon
<1> DEFINE h == [n \in 0..N |-> e[1..n]]
<1>12. h[0] = NewJob
  <2>1. {} \in SUBSET D /\ 1..0 = {} /\ 0 \in 0..N
    OBVIOUS
  <2>2. e[{}] = NewJob
    BY <1>11, <2>1, Zenon
  <2> QED
    BY <2>1, <2>2
<1>13. ASSUME NEW n \in 1..N PROVE h[n] = PbsLine(h[n - 1], lines[n])
  <2>1. 1..n \in SUBSET D
    <3>1. \A m \in 1..n : m \in 1..N
      OBVIOUS
    <3> QED
      BY <3>1, Zenon DEF D
  <2>2. n \in 1..n /\ (1..n) \ {n} = 1..(n - 1) /\ n - 1 \in 0..N /\ n \in 0..N
    OBVIOUS
  <2>3. Max(1..n) = n
    <3>1. 1..n # {}
      BY <2>2
    <3>2. Max(1..n) \in 1..n /\ \A m \in 1..n : m <= Max(1..n)
      BY <1>3, <2>1, <3>1
    <3> QED
      BY <2>2, <3>2
  <2>4. e[1..n] = PbsLine(e[1..(n - 1)], lines[n])
    <3>1. 1..n # {}
      BY <2>2
    <3> QED
      BY <1>11, <2>1, <2>2, <2>3, <3>1, Zenon
  <2> QED
    BY <2>2, <2>4
<1>14. PbsTextJob(lines) = h[N]
  BY <1>10
<1> HIDE DEF h
<1> QED
  BY <1>12, <1>13, <1>14

\* What each line sets.
LEMMA LineSets ==
  ASSUME NEW job, NEW v
  PROVE  /\ PbsLine(job, <<"resources_used.cput", v>>) = [job EXCEPT !.cpu_time = ParseDuration(v)]
         /\ PbsLine(job, <<"resources_used.mem", v>>) = [job EXCEPT !.max_memory = ParseMemory(v)]
         /\ PbsLine(job, <<"resources_used.ncpus", v>>) = [job EXCEPT !.cpu = v]
         /\ PbsLine(job, <<"resources_used.walltime", v>>) = [job EXCEPT !.wall_time = ParseDuration(v)]
         /\ PbsLine(job, <<"job_state", v>>) = [job EXCEPT !.state = PbsState(v, job.exit)]
         /\ PbsLine(job, <<"mtime", v>>) =
              [job EXCEPT !.end_time =
                 IF job.state \in {"Failed", "Completed", "Completing"} THEN v ELSE job.end_time]
         /\ PbsLine(job, <<"Resource_List.nodect", v>>) = [job EXCEPT !.node = v]
         /\ PbsLine(job, <<"stime", v>>) = [job EXCEPT !.start_time = v]
         /\ PbsLine(job, <<"Exit_status", v>>) = [job EXCEPT !.exit = v]
BY DEF PbsLine

\* A job with what was read of it.
Read(state, exit, cpu, memory, wall, used, start, end, node) ==
  [state |-> state, exit |-> exit, cpu |-> cpu, max_memory |-> memory, wall_time |-> wall,
   cpu_time |-> used, start_time |-> start, end_time |-> end, node |-> node]

\* qstat names the exit status after the state, which a good one does not change.
LEMMA TextIsJob ==
  ASSUME NEW item, item.job_state \in Letters, Well(item.exit_status)
  PROVE  PbsTextJob(QstatLines(item)) = PbsJob(item)
<1> DEFINE lines == QstatLines(item)
<1>1. DOMAIN lines = 1..9
  BY DEF QstatLines
<1>2. /\ lines[1] = <<"resources_used.cput", item.cput>>
      /\ lines[2] = <<"resources_used.mem", item.mem>>
      /\ lines[3] = <<"resources_used.ncpus", item.ncpus>>
      /\ lines[4] = <<"resources_used.walltime", item.walltime>>
      /\ lines[5] = <<"job_state", item.job_state>>
      /\ lines[6] = <<"mtime", item.mtime>>
      /\ lines[7] = <<"Resource_List.nodect", item.nodect>>
      /\ lines[8] = <<"stime", item.stime>>
      /\ lines[9] = <<"Exit_status", item.exit_status>>
  BY DEF QstatLines
<1> HIDE DEF lines
<1>3. PICK h : /\ h[0] = NewJob /\ \A n \in 1..9 : h[n] = PbsLine(h[n - 1], lines[n])
               /\ PbsTextJob(lines) = h[9]
  BY <1>1, LineByLine
<1>4. /\ h[1] = PbsLine(h[0], lines[1]) /\ h[2] = PbsLine(h[1], lines[2])
      /\ h[3] = PbsLine(h[2], lines[3]) /\ h[4] = PbsLine(h[3], lines[4])
      /\ h[5] = PbsLine(h[4], lines[5]) /\ h[6] = PbsLine(h[5], lines[6])
      /\ h[7] = PbsLine(h[6], lines[7]) /\ h[8] = PbsLine(h[7], lines[8])
      /\ h[9] = PbsLine(h[8], lines[9])
  BY <1>3
<1> DEFINE state == PbsState(item.job_state, 0)
           cput == ParseDuration(item.cput)
           mem == ParseMemory(item.mem)
           wall == ParseDuration(item.walltime)
           end == IF state \in {"Failed", "Completed", "Completing"} THEN item.mtime ELSE 0
<1>5. h[0] = Read("Unknown", 0, 0, 0, 0, 0, 0, 0, 0)
  BY <1>3 DEF NewJob, Read
<1> HIDE DEF cput, mem, wall
<1>6. h[9] = Read(state, item.exit_status, item.ncpus, mem, wall, cput, item.stime, end, item.nodect)
  <2>1. h[1] = Read("Unknown", 0, 0, 0, 0, cput, 0, 0, 0)
    <3>1. h[1] = PbsLine(h[0], <<"resources_used.cput", item.cput>>)
      BY <1>2, <1>4, Zenon
    <3>2. h[1] = [h[0] EXCEPT !.cpu_time = cput]
      BY <3>1, LineSets DEF cput
    <3> QED
      BY <1>5, <3>2 DEF Read
  <2>2. h[2] = Read("Unknown", 0, 0, mem, 0, cput, 0, 0, 0)
    <3>1. h[2] = PbsLine(h[1], <<"resources_used.mem", item.mem>>)
      BY <1>2, <1>4, Zenon
    <3>2. h[2] = [h[1] EXCEPT !.max_memory = mem]
      BY <3>1, LineSets DEF mem
    <3> QED
      BY <2>1, <3>2 DEF Read
  <2>3. h[3] = Read("Unknown", 0, item.ncpus, mem, 0, cput, 0, 0, 0)
    <3>1. h[3] = PbsLine(h[2], <<"resources_used.ncpus", item.ncpus>>)
      BY <1>2, <1>4, Zenon
    <3>2. h[3] = [h[2] EXCEPT !.cpu = item.ncpus]
      BY <3>1, LineSets
    <3> QED
      BY <2>2, <3>2 DEF Read
  <2>4. h[4] = Read("Unknown", 0, item.ncpus, mem, wall, cput, 0, 0, 0)
    <3>1. h[4] = PbsLine(h[3], <<"resources_used.walltime", item.walltime>>)
      BY <1>2, <1>4, Zenon
    <3>2. h[4] = [h[3] EXCEPT !.wall_time = wall]
      BY <3>1, LineSets DEF wall
    <3> QED
      BY <2>3, <3>2 DEF Read
  <2>5. h[5] = Read(state, 0, item.ncpus, mem, wall, cput, 0, 0, 0)
    <3>1. h[5] = PbsLine(h[4], <<"job_state", item.job_state>>)
      BY <1>2, <1>4, Zenon
    <3>2. h[5] = [h[4] EXCEPT !.state = PbsState(item.job_state, h[4].exit)]
      BY <3>1, LineSets
    <3> QED
      BY <2>4, <3>2 DEF Read
  <2>6. h[6] = Read(state, 0, item.ncpus, mem, wall, cput, 0, end, 0)
    <3>1. h[6] = PbsLine(h[5], <<"mtime", item.mtime>>)
      BY <1>2, <1>4, Zenon
    <3>2. h[6] = [h[5] EXCEPT !.end_time = 
                 IF h[5].state \in {"Failed", "Completed", "Completing"} THEN item.mtime
                 ELSE h[5].end_time]
      BY <3>1, LineSets
    <3> QED
      BY <2>5, <3>2 DEF Read
  <2>7. h[7] = Read(state, 0, item.ncpus, mem, wall, cput, 0, end, item.nodect)
    <3>1. h[7] = PbsLine(h[6], <<"Resource_List.nodect", item.nodect>>)
      BY <1>2, <1>4, Zenon
    <3>2. h[7] = [h[6] EXCEPT !.node = item.nodect]
      BY <3>1, LineSets
    <3> QED
      BY <2>6, <3>2 DEF Read
  <2>8. h[8] = Read(state, 0, item.ncpus, mem, wall, cput, item.stime, end, item.nodect)
    <3>1. h[8] = PbsLine(h[7], <<"stime", item.stime>>)
      BY <1>2, <1>4, Zenon
    <3>2. h[8] = [h[7] EXCEPT !.start_time = item.stime]
      BY <3>1, LineSets
    <3> QED
      BY <2>7, <3>2 DEF Read
  <2>9. h[9] = Read(state, item.exit_status, item.ncpus, mem, wall, cput, item.stime, end, item.nodect)
    <3>1. h[9] = PbsLine(h[8], <<"Exit_status", item.exit_status>>)
      BY <1>2, <1>4, Zenon
    <3>2. h[9] = [h[8] EXCEPT !.exit = item.exit_status]
      BY <3>1, LineSets
    <3> QED
      BY <2>8, <3>2 DEF Read
  <2> QED
    BY <2>9
<1>7. /\ state = PbsState(item.job_state, item.exit_status)
      /\ state \in {"Failed", "Completed", "Completing"} <=> item.job_state \in {"F", "E"}
  BY DEF PbsState, Well, Letters
<1>8. h[9] = PbsJob(item)
  BY <1>6, <1>7 DEF PbsJob, Read, cput, mem, wall
<1> QED
  BY <1>3, <1>8 DEF lines

\* The two parsers of qstat make the same of every job that did not fail, whatever state it
\* is in (TextAgrees).
THEOREM TextAgreesAlways == Spec => []TextAgrees
<1>1. TypeOK => TextAgrees
  <2> SUFFICES ASSUME TypeOK, NEW j \in DOMAIN jobs, Well(jobs[j].exit)
               PROVE  PbsTextJob(QstatLines(Item(j))) = PbsJob(Item(j))
    BY DEF TextAgrees
  <2>1. jobs[j].letter \in Letters
    <3>1. jobs \in Seq(Job)
      BY DEF TypeOK
    <3>2. jobs[j] \in Job
      BY <3>1
    <3> QED
      BY <3>2 DEF Job, Letters
  <2>2. Item(j).job_state = jobs[j].letter /\ Item(j).exit_status = jobs[j].exit
    BY DEF Item
  <2> QED
    BY <2>1, <2>2, TextIsJob
<1> QED
  BY <1>1, TypeCorrect, PTL
=============================================================================
