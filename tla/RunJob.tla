-------------------------------- MODULE RunJob --------------------------------
(***************************************************************************)
(* The job runner of the agent (RunJobServiceImpl) with the runners that   *)
(* move the files of a job, the tick that asks the cluster how jobs are,   *)
(* and the tables of sub tasks and files with their copies on disk.        *)
(*                                                                         *)
(* A sub task has input files, which are downloaded before its job is      *)
(* submitted, and output files, which are uploaded after the job has       *)
(* ended.  Every call runs in a handler of its own; a step is what a       *)
(* handler does between two waits for a command of the cluster, a          *)
(* transfer or a write to disk.  The commands of the cluster, the          *)
(* transfers and the calls of the task scheduler are the environment.      *)
(*                                                                         *)
(* A runner calls back no sooner than a second after it was told to        *)
(* start, so what a handler does to the tables in memory while it tells    *)
(* the runners is one step.                                                *)
(***************************************************************************)
EXTENDS AgentText

CONSTANTS
  Subs,          \* sub tasks that run a use case
  Files,         \* files of their tasks
  OwnerOf,       \* [Files -> Subs]
  KindOf,        \* [Files -> {"IN", "OUT"}]
  Facility,      \* [Subs -> {"Spack", "Singularity", "Other"}]
  Required,      \* the requirements of every sub task
  Manager,       \* "pbs" or "slurm"
  Handlers,      \* how many calls may be in progress
  Operations,    \* subset of {"pause", "continue", "delete"}
  ProxyFails,    \* whether a copy to a cluster behind ssh may fail
  NoRow, NoJob,
  MaxStarts,     \* bound: calls of enqueue_sub_task for one sub task
  MaxJobs,       \* bound: jobs submitted
  MaxOps,        \* bound: commands of the scheduler
  MaxErrors,     \* bound: commands of the cluster that fail, and transfers that die, for no reason of ours
  MaxCrashes,    \* bound: restarts of the agent
  MaxUpsets      \* bound: commands, errors and restarts together

ASSUME RunJobAssumption ==
  /\ OwnerOf \in [Files -> Subs]
  /\ KindOf \in [Files -> {"IN", "OUT"}]
  /\ Facility \in [Subs -> {"Spack", "Singularity", "Other"}]
  /\ Manager \in {"pbs", "slurm"}
  /\ Operations \subseteq {"pause", "continue", "delete"}
  /\ ProxyFails \in BOOLEAN
  /\ Required \in [node_count : Nat, cpu_cores : Nat, max_wall_time : Nat, max_cpu_time : Nat]
  /\ MaxStarts \in Nat /\ MaxJobs \in Nat /\ MaxOps \in Nat /\ MaxErrors \in Nat /\ MaxCrashes \in Nat /\ MaxUpsets \in Nat

VARIABLES
  rows,          \* the table of sub tasks
  files,         \* the table of files: their status
  disk,          \* both tables as last saved
  coming,        \* downloads in progress, for each file
  late,          \* downloads that have called fail_job and will call run_job as well
  going,         \* uploads in progress, for each file
  jobs,          \* the jobs of the cluster, in the order of their submission
  work,          \* what each handler is doing
  due,           \* reports the scheduler has not taken yet
  told,          \* history: every report made
  marked,        \* history: files whose runner has marked them, whatever came of them
  trouble,       \* history: sub tasks with a transfer or a software that failed
  starts, ops, errors, crashes

tables == <<rows, files, disk>>
transfers == <<coming, late, going>>
history == <<told, marked, trouble>>
counts == <<starts, ops, errors, crashes>>
vars == <<rows, files, disk, coming, late, going, jobs, work, due, told, marked, trouble,
          starts, ops, errors, crashes>>

Status == {"Queuing", "Running", "Suspended", "Completing", "Completed", "Failed"}
FileStatus == {"RemoteOnly", "WaittingCreate", "Downloading", "Uploading", "Both"}
Row == [status : Status, job : 1..MaxJobs \cup {NoJob}]
Verdicts == {"Completed", "Failed"}
Inputs(s) == {f \in Files : OwnerOf[f] = s /\ KindOf[f] = "IN"}
Outputs(s) == {f \in Files : OwnerOf[f] = s /\ KindOf[f] = "OUT"}
Present(s) == rows[s] # NoRow

\* Where a handler is: before a write to disk, or before the answer of a command.
Saves == {"save", "save and run", "save and fail", "save and send", "save and complete"}
Steps == Saves \cup {"idle", "find", "submit", "refresh", "qstat", "hold", "release", "remove"}
Idle == [at |-> "idle", sub |-> NoRow, copy |-> NoRow, todo |-> {}]

At(w, step) == work[w].at = step
Goto(w, rec) == work' = [work EXCEPT ![w] = rec]
Begin(w, step, s) == Goto(w, [Idle EXCEPT !.at = step, !.sub = s])
Become(w, step) == Goto(w, [work[w] EXCEPT !.at = step])
Return(w) == Goto(w, Idle)

\* refresh_all_status goes on with the next sub task, other calls return.
Onward(w) == IF work[w].todo = {} THEN Idle ELSE [Idle EXCEPT !.at = "refresh", !.todo = work[w].todo]

Memory == [rows |-> rows, files |-> files]
Save == disk' = Memory

Report(s, v) ==
  /\ told' = told \cup {<<s, v>>}
  /\ due' = due \cup {<<s, v>>}

MayUpset == ops + errors + crashes < MaxUpsets

Err == errors < MaxErrors /\ MayUpset /\ errors' = errors + 1

-----------------------------------------------------------------------------
(***************************************************************************)
(* The cluster.  A job is queued (Q), runs (R), is held (H), exits (E) and *)
(* is finished (F).  Its item is what qstat prints of it.                  *)
(***************************************************************************)
Item(j) == [job_state |-> jobs[j].letter, exit_status |-> jobs[j].exit, ncpus |-> 1,
            mem |-> [size |-> 2, unit |-> "mb"], walltime |-> <<1, 2, 3>>,
            cput |-> <<2, 3>>, stime |-> 1, mtime |-> 2, nodect |-> 1]

SlurmWord(j) ==
  CASE jobs[j].letter = "Q" -> "PENDING"
    [] jobs[j].letter = "R" -> "RUNNING"
    [] jobs[j].letter = "H" -> "SUSPENDED"
    [] jobs[j].letter = "E" -> "COMPLETING"
    [] OTHER -> IF Well(jobs[j].exit) THEN "COMPLETED" ELSE "FAILED"

GetJob(j) == IF Manager = "pbs" THEN PbsJob(Item(j)).state ELSE SlurmState(SlurmWord(j))

Limit == IF Manager = "pbs" THEN PbsSeconds(Required) ELSE SlurmSeconds(Required)

Submitted(s) == Append(jobs, [of |-> s, letter |-> "Q", exit |-> 0, limit |-> Limit])

SetLetter(j, letter, exit) == jobs' = [jobs EXCEPT ![j].letter = letter, ![j].exit = exit]

JobRuns(j) ==
  /\ jobs[j].letter = "Q" /\ SetLetter(j, "R", 0)
  /\ UNCHANGED <<tables, transfers, work, due, history, counts>>

JobEnds(j) ==
  /\ jobs[j].letter = "R"
  /\ \E exit \in {0, 1} : SetLetter(j, "E", exit)
  /\ UNCHANGED <<tables, transfers, work, due, history, counts>>

JobLeaves(j) ==
  /\ jobs[j].letter = "E" /\ SetLetter(j, "F", jobs[j].exit)
  /\ UNCHANGED <<tables, transfers, work, due, history, counts>>

Active(j) == jobs[j].letter \in {"Q", "R", "H"}

-----------------------------------------------------------------------------
(***************************************************************************)
(* enqueue_sub_task, called for a sub task that waits.                     *)
(***************************************************************************)
EnqueueSubTask(w, s) ==
  /\ At(w, "idle") /\ Present(s) /\ rows[s].status = "Queuing" /\ starts[s] < MaxStarts
  /\ rows' = [rows EXCEPT ![s].status = "Running"]
  /\ files' = [f \in Files |-> IF f \in Inputs(s) THEN "Downloading" ELSE files[f]]
  /\ coming' = [f \in Files |-> IF f \in Inputs(s) THEN coming[f] + 1 ELSE coming[f]]
  /\ Begin(w, IF Inputs(s) = {} THEN "save and run" ELSE "save", s)
  /\ starts' = [starts EXCEPT ![s] = @ + 1]
  /\ UNCHANGED <<disk, late, going, jobs, due, history, ops, errors, crashes>>

\* A transfer has gone through to its last call, run_job or complete_job, which marks
\* the file.  Whether the file is there, no code can tell: the download looks at no
\* status of http and drops what its blocks return, the upload drops what its parts
\* return and takes an optional file that is missing for sent.
Mark(f) ==
  /\ files' = [files EXCEPT ![f] = "Both"]
  /\ marked' = marked \cup {f}

\* A mutant: the file is not saved before the job is submitted.
DownloadedUnsaved(w, f) ==
  /\ At(w, "idle") /\ coming[f] > 0
  /\ coming' = [coming EXCEPT ![f] = @ - 1]
  /\ Mark(f)
  /\ Goto(w, [Idle EXCEPT !.at = "submit", !.sub = OwnerOf[f], !.copy = rows[OwnerOf[f]]])
  /\ UNCHANGED <<rows, disk, late, going, jobs, due, told, trouble, counts>>

\* A download has gone through: run_job marks the file, whatever became of it.
Downloaded(w, f) ==
  /\ At(w, "idle") /\ coming[f] > 0
  /\ coming' = [coming EXCEPT ![f] = @ - 1]
  /\ Mark(f)
  /\ Begin(w, "save and run", OwnerOf[f])
  /\ UNCHANGED <<rows, disk, late, going, jobs, due, told, trouble, counts>>

FailRow(s) == rows' = [rows EXCEPT ![s].status = "Failed"]

\* fail_job for the sub task of a file.
FailJob(w, s) ==
  /\ trouble' = trouble \cup {s}
  /\ IF Present(s)
     THEN FailRow(s) /\ Begin(w, "save and fail", s)
     ELSE UNCHANGED <<rows, work>>

\* A download ends in an error.
DownloadFails(w, f) ==
  /\ At(w, "idle") /\ coming[f] > 0
  /\ coming' = [coming EXCEPT ![f] = @ - 1]
  /\ FailJob(w, OwnerOf[f])
  /\ UNCHANGED <<files, disk, late, going, jobs, due, told, marked, counts>>

\* The file was downloaded, but not copied to the cluster: the runner calls fail_job,
\* waits, and calls run_job all the same.  The code waits for the end of fail_job;
\* here run_job may come before, which only adds behaviours.
CopyFails(w, f) ==
  /\ At(w, "idle") /\ coming[f] > 0 /\ ProxyFails
  /\ coming' = [coming EXCEPT ![f] = @ - 1]
  /\ late' = [late EXCEPT ![f] = @ + 1]
  /\ FailJob(w, OwnerOf[f])
  /\ UNCHANGED <<files, disk, going, jobs, due, told, marked, counts>>

RunAnyway(w, f) ==
  /\ At(w, "idle") /\ late[f] > 0
  /\ late' = [late EXCEPT ![f] = @ - 1]
  /\ Mark(f)
  /\ Begin(w, "save and run", OwnerOf[f])
  /\ UNCHANGED <<rows, disk, coming, going, jobs, due, told, trouble, counts>>

\* An unwrap ends the runner of a transfer: it calls nobody.
TransferDies(f) ==
  /\ Err
  /\ \/ coming[f] > 0 /\ coming' = [coming EXCEPT ![f] = @ - 1] /\ UNCHANGED going
     \/ going[f] > 0 /\ going' = [going EXCEPT ![f] = @ - 1] /\ UNCHANGED coming
  /\ UNCHANGED <<tables, late, jobs, work, due, history, starts, ops, crashes>>

AllBoth(fs) == \A f \in fs : files[f] = "Both"

\* internal_run_job: when every input is there, the row is read.
RunSaved(w) ==
  LET s == work[w].sub IN
  /\ At(w, "save and run") /\ Save
  /\ IF AllBoth(Inputs(s))
     THEN IF Present(s)
          THEN Goto(w, [work[w] EXCEPT !.copy = rows[s],
                          !.at = IF Facility[s] = "Other" THEN "submit" ELSE "find"])
          ELSE Return(w)
     ELSE Become(w, "save")
  /\ UNCHANGED <<rows, files, transfers, jobs, due, history, counts>>

\* Write a copy of a row back: the table has no row for a sub task that was deleted.
WriteBack(w, row, next) ==
  IF Present(work[w].sub)
  THEN rows' = [rows EXCEPT ![work[w].sub] = row] /\ Goto(w, next)
  ELSE UNCHANGED rows /\ Return(w)

\* The software is looked up: in the list of Spack, or among the images.
Lookup(s, a, b) == IF Facility[s] = "Spack" THEN SpackFind(a, b) ELSE ApptainerFind(a = "found", b = "found")

FindSoftware(w) ==
  /\ At(w, "find")
  /\ \E a, b \in {"found", "missing", "error"} :
       CASE Lookup(work[w].sub, a, b) = "found" ->
              Become(w, "submit") /\ UNCHANGED <<rows, trouble, errors>>
         [] Lookup(work[w].sub, a, b) = "missing" ->
              /\ trouble' = trouble \cup {work[w].sub}
              /\ WriteBack(w, [work[w].copy EXCEPT !.status = "Failed"], [work[w] EXCEPT !.at = "save and fail"])
              /\ UNCHANGED errors
         [] OTHER -> Err /\ Return(w) /\ UNCHANGED <<rows, trouble>>
  /\ UNCHANGED <<files, disk, transfers, jobs, due, told, marked, starts, ops, crashes>>

\* submit_job_script and the update of the copy with the id of the job.
SubmitJob(w) ==
  /\ At(w, "submit") /\ Len(jobs) < MaxJobs
  /\ jobs' = Submitted(work[w].sub)
  /\ WriteBack(w, [work[w].copy EXCEPT !.job = Len(jobs')], [work[w] EXCEPT !.at = "save"])
  /\ UNCHANGED <<files, disk, transfers, due, history, counts>>

SubmitFails(w) ==
  /\ At(w, "submit") /\ Err /\ Return(w)
  /\ UNCHANGED <<tables, transfers, jobs, due, history, starts, ops, crashes>>

Saved(w) ==
  /\ At(w, "save") /\ Save
  /\ Goto(w, Onward(w))
  /\ UNCHANGED <<rows, files, transfers, jobs, due, history, counts>>

\* A mutant: fail_job saves and returns.
FailUnreported(w) ==
  /\ At(w, "save and fail") /\ Save
  /\ Goto(w, Onward(w))
  /\ UNCHANGED <<rows, files, transfers, jobs, due, history, counts>>

FailSaved(w) ==
  /\ At(w, "save and fail") /\ Save
  /\ Report(work[w].sub, "Failed")
  /\ Goto(w, Onward(w))
  /\ UNCHANGED <<rows, files, transfers, jobs, marked, trouble, counts>>

-----------------------------------------------------------------------------
(***************************************************************************)
(* The tick: refresh_all_status asks for every running job, one after the  *)
(* other, and stops at the first error.                                    *)
(***************************************************************************)
Refreshable == {s \in Subs : Present(s) /\ rows[s].status = "Running" /\ rows[s].job # NoJob}

RefreshAll(w) ==
  /\ At(w, "idle") /\ Refreshable # {}
  /\ Goto(w, [Idle EXCEPT !.at = "refresh", !.todo = Refreshable])
  /\ UNCHANGED <<tables, transfers, jobs, due, history, counts>>

RefreshStatus(w) ==
  /\ At(w, "refresh")
  /\ \E s \in work[w].todo :
       IF Present(s) /\ rows[s].job # NoJob
       THEN Goto(w, [work[w] EXCEPT !.at = "qstat", !.sub = s, !.copy = rows[s], !.todo = @ \ {s}])
       ELSE Return(w)
  /\ UNCHANGED <<tables, transfers, jobs, due, history, counts>>

\* A mutant: a job that is leaving is taken for one that has left.
AnswerEarly(w) ==
  LET state == GetJob(work[w].copy.job) IN
  /\ At(w, "qstat")
  /\ IF state \in {"Running", "Suspended", "Queuing"}
     THEN Goto(w, Onward(w)) /\ UNCHANGED rows
     ELSE WriteBack(w, [work[w].copy EXCEPT !.status = "Completing"], [work[w] EXCEPT !.at = "save and send"])
  /\ UNCHANGED <<files, disk, transfers, jobs, due, history, counts>>

\* The answer of the cluster, on which the copy of the row is written back.
Answer(w) ==
  LET state == GetJob(work[w].copy.job) IN
  /\ At(w, "qstat")
  /\ CASE state \in {"Running", "Suspended", "Queuing", "Completing"} ->
            Goto(w, Onward(w)) /\ UNCHANGED rows
       [] state = "Completed" ->
            WriteBack(w, [work[w].copy EXCEPT !.status = "Completing"], [work[w] EXCEPT !.at = "save and send"])
       [] OTHER ->
            WriteBack(w, [work[w].copy EXCEPT !.status = "Failed"], [work[w] EXCEPT !.at = "save and fail"])
  /\ UNCHANGED <<files, disk, transfers, jobs, due, history, counts>>

QstatFails(w) ==
  /\ At(w, "qstat") /\ Err /\ Return(w)
  /\ UNCHANGED <<tables, transfers, jobs, due, history, starts, ops, crashes>>

\* The outputs are sent, or there are none.
SendOutputs(w) ==
  LET s == work[w].sub IN
  /\ At(w, "save and send") /\ Save
  /\ IF Outputs(s) = {}
     THEN Report(s, "Completed") /\ Goto(w, Onward(w)) /\ UNCHANGED <<files, going>>
     ELSE /\ files' = [f \in Files |-> IF f \in Outputs(s) THEN "Uploading" ELSE files[f]]
          /\ going' = [f \in Files |-> IF f \in Outputs(s) THEN going[f] + 1 ELSE going[f]]
          /\ Become(w, "save")
          /\ UNCHANGED <<due, told>>
  /\ UNCHANGED <<rows, coming, late, jobs, marked, trouble, counts>>

\* An upload has gone through: complete_job marks the file, whether co has it or not.
Uploaded(w, f) ==
  /\ At(w, "idle") /\ going[f] > 0
  /\ going' = [going EXCEPT ![f] = @ - 1]
  /\ Mark(f)
  /\ Begin(w, "save and complete", OwnerOf[f])
  /\ UNCHANGED <<rows, disk, coming, late, jobs, due, told, trouble, counts>>

\* An upload ends in an error: the file cannot be read, or co refuses it before its
\* parts are sent.
UploadFails(w, f) ==
  /\ At(w, "idle") /\ going[f] > 0
  /\ going' = [going EXCEPT ![f] = @ - 1]
  /\ FailJob(w, OwnerOf[f])
  /\ UNCHANGED <<files, disk, coming, late, jobs, due, told, marked, counts>>

CompleteSaved(w) ==
  LET s == work[w].sub IN
  /\ At(w, "save and complete") /\ Save
  /\ IF AllBoth(Outputs(s)) THEN Report(s, "Completed") ELSE UNCHANGED <<due, told>>
  /\ Return(w)
  /\ UNCHANGED <<rows, files, transfers, jobs, marked, trouble, counts>>

-----------------------------------------------------------------------------
(***************************************************************************)
(* Commands of the scheduler.                                              *)
(***************************************************************************)
Operation == [pause |-> "hold", continue |-> "release", delete |-> "remove"]
StatusAfter == [hold |-> "Suspended", release |-> "Queuing"]

\* What a command does to the table once the job was told.
Operated(w, s, step, row, next) ==
  IF step = "remove"
  THEN IF Present(s) THEN rows' = [rows EXCEPT ![s] = NoRow] /\ Goto(w, next)
       ELSE UNCHANGED rows /\ Return(w)
  ELSE /\ rows' = IF Present(s) THEN [rows EXCEPT ![s] = [row EXCEPT !.status = StatusAfter[step]]] ELSE rows
       /\ Goto(w, next)

Operate(w, s) ==
  /\ At(w, "idle") /\ Present(s) /\ ops < MaxOps /\ MayUpset
  /\ ops' = ops + 1
  /\ \E op \in Operations :
       IF rows[s].job = NoJob
       THEN Operated(w, s, Operation[op], rows[s], [Idle EXCEPT !.at = "save", !.sub = s])
       ELSE Goto(w, [Idle EXCEPT !.at = Operation[op], !.sub = s, !.copy = rows[s]]) /\ UNCHANGED rows
  /\ UNCHANGED <<files, disk, transfers, jobs, due, history, starts, errors, crashes>>

\* qhold, qrls or qdel: they fail for a job that has ended.
CommandJob(w) ==
  LET j == work[w].copy.job
      step == work[w].at
  IN
  /\ step \in {"hold", "release", "remove"}
  /\ IF Active(j)
     THEN /\ CASE step = "hold" -> SetLetter(j, "H", 0)
               [] step = "release" -> SetLetter(j, IF jobs[j].letter = "H" THEN "Q" ELSE jobs[j].letter, 0)
               [] OTHER -> SetLetter(j, "F", 1)
          /\ Operated(w, work[w].sub, step, work[w].copy, [work[w] EXCEPT !.at = "save"])
     ELSE Return(w) /\ UNCHANGED <<rows, jobs>>
  /\ UNCHANGED <<files, disk, transfers, due, history, counts>>

\* The scheduler takes a report: the row of a completed sub task is marked.
TakeReport(s, v) ==
  /\ <<s, v>> \in due
  /\ due' = due \ {<<s, v>>}
  /\ IF v = "Completed" /\ Present(s)
     THEN rows' = [rows EXCEPT ![s].status = "Completed"] /\ disk' = [rows |-> rows', files |-> files]
     ELSE UNCHANGED <<rows, disk>>
  /\ UNCHANGED <<files, transfers, jobs, work, history, counts>>

-----------------------------------------------------------------------------
(***************************************************************************)
(* A restart reads the tables from disk.  The three files are written one  *)
(* after the other: a crash in the middle of a save leaves new sub tasks   *)
(* and old files.                                                          *)
(***************************************************************************)
Restart(saved) ==
  /\ crashes < MaxCrashes /\ MayUpset /\ crashes' = crashes + 1
  /\ rows' = saved.rows /\ files' = saved.files /\ disk' = saved
  /\ coming' = [f \in Files |-> 0] /\ late' = [f \in Files |-> 0] /\ going' = [f \in Files |-> 0]
  /\ work' = [w \in Handlers |-> Idle] /\ due' = {}
  /\ UNCHANGED <<jobs, history, starts, ops, errors>>

Torn(saved) == [rows |-> rows, files |-> saved.files]

Crash ==
  \/ Restart(disk)
  \/ (\E w \in Handlers : work[w].at \in Saves) /\ Restart(Torn(disk))

-----------------------------------------------------------------------------
Init ==
  /\ rows = [s \in Subs |-> [status |-> "Queuing", job |-> NoJob]]
  /\ files = [f \in Files |-> IF KindOf[f] = "IN" THEN "RemoteOnly" ELSE "WaittingCreate"]
  /\ disk = Memory
  /\ coming = [f \in Files |-> 0] /\ late = [f \in Files |-> 0] /\ going = [f \in Files |-> 0]
  /\ jobs = <<>>
  /\ work = [w \in Handlers |-> Idle]
  /\ due = {} /\ told = {} /\ marked = {} /\ trouble = {}
  /\ starts = [s \in Subs |-> 0] /\ ops = 0 /\ errors = 0 /\ crashes = 0

Cluster(j) == JobRuns(j) \/ JobEnds(j) \/ JobLeaves(j)

\* A transfer ends, and its runner calls back.
Transfer(w, f) ==
  \/ Downloaded(w, f) \/ DownloadFails(w, f) \/ CopyFails(w, f) \/ RunAnyway(w, f)
  \/ Uploaded(w, f) \/ UploadFails(w, f)

\* A handler goes on.
Work(w) ==
  \/ RunSaved(w) \/ FindSoftware(w) \/ SubmitJob(w) \/ SubmitFails(w) \/ Saved(w) \/ FailSaved(w)
  \/ RefreshStatus(w) \/ Answer(w) \/ QstatFails(w) \/ SendOutputs(w) \/ CompleteSaved(w)
  \/ CommandJob(w)

Next ==
  \/ \E w \in Handlers :
       \/ Work(w) \/ RefreshAll(w)
       \/ \E s \in Subs : EnqueueSubTask(w, s) \/ Operate(w, s)
       \/ \E f \in Files : Transfer(w, f)
  \/ \E f \in Files : TransferDies(f)
  \/ \E j \in DOMAIN jobs : Cluster(j)
  \/ \E s \in Subs, v \in Verdicts : TakeReport(s, v)
  \/ Crash

Spec == Init /\ [][Next]_vars

(***************************************************************************)
(* Fairness: the cluster ends every job, every transfer ends in some way,  *)
(* a handler that has begun goes on (Work is never blocked but by the      *)
(* bound on jobs), the tick comes back every few seconds, and the          *)
(* scheduler enqueues what waits.                                          *)
(***************************************************************************)
Fairness ==
  /\ WF_vars(\E j \in DOMAIN jobs : Cluster(j))
  /\ \A w \in Handlers : WF_vars(Work(w))
  /\ SF_vars(\E w \in Handlers : RefreshAll(w))
  /\ SF_vars(\E w \in Handlers, f \in Files : Transfer(w, f))
  /\ SF_vars(\E w \in Handlers, s \in Subs : EnqueueSubTask(w, s))

FairSpec == Spec /\ Fairness

-----------------------------------------------------------------------------
(***************************************************************************)
(* Properties.                                                             *)
(***************************************************************************)
Table == [Subs -> Row \cup {NoRow}]
FileTable == [Files -> FileStatus]
Job == [of : Subs, letter : {"Q", "R", "H", "E", "F"}, exit : {0, 1}, limit : Nat]
Handling == [at : Steps, sub : Subs \cup {NoRow}, copy : Row \cup {NoRow}, todo : SUBSET Subs]

\* Every variable keeps the shape of the tables, queues and handlers it stands for.
TypeOK ==
  /\ rows \in Table /\ files \in FileTable
  /\ disk \in [rows : Table, files : FileTable]
  /\ coming \in [Files -> Nat] /\ late \in [Files -> Nat] /\ going \in [Files -> Nat]
  /\ jobs \in Seq(Job)
  /\ Len(jobs) <= MaxJobs
  /\ work \in [Handlers -> Handling]
  /\ due \subseteq told /\ told \subseteq Subs \X Verdicts
  /\ marked \subseteq Files /\ trouble \subseteq Subs
  /\ starts \in [Subs -> 0..MaxStarts] /\ ops \in 0..MaxOps
  /\ errors \in 0..MaxErrors /\ crashes \in 0..MaxCrashes

HasJob(row) == row # NoRow /\ row.job # NoJob

\* A sub task that was started once has a job only when the download of every input has
\* gone through without an error it returned, or with a failed copy that was told of,
\* and is marked, in memory and in what a restart would read, however the downloads,
\* the saves and a crash in the middle of a save interleave (internal_run_job,
\* FileDownloadRunner).  It does not say that the content is on the cluster: Mark.
InputsFirst ==
  \A s \in Subs : starts[s] <= 1 =>
    /\ HasJob(rows[s]) => AllBoth(Inputs(s)) /\ Inputs(s) \subseteq marked
    /\ HasJob(disk.rows[s]) => \A f \in Inputs(s) : disk.files[f] = "Both"

Ended(s, well) == \E j \in DOMAIN jobs : jobs[j].of = s /\ Well(jobs[j].exit) = well /\ jobs[j].letter \in {"E", "F"}

\* "Completed" is reported only when a job of the sub task has left the cluster with a
\* good exit status and the upload of every output has gone through without an error it
\* returned, which is not to say that co has the output: Mark; "Failed" only when a
\* transfer, the software or a job failed (refresh_status, internal_complete_job,
\* fail_job).
ReportsTrue ==
  \A s \in Subs :
    /\ <<s, "Completed">> \in told =>
         /\ \E j \in DOMAIN jobs : jobs[j].of = s /\ jobs[j].letter = "F" /\ Well(jobs[j].exit)
         /\ Outputs(s) \subseteq marked
    /\ <<s, "Failed">> \in told => s \in trouble \/ Ended(s, FALSE)

\* PBS stops a job after the wall time its task asks for, in seconds, whatever that is.
\* Slurm reads the number as minutes, so it stops no job too early, sixty times too late,
\* unless a cpu time is asked for, which replaces the wall time (gen_script and
\* format_duration).
LimitKept ==
  \A j \in DOMAIN jobs :
    /\ Manager = "pbs" => jobs[j].limit = Required.max_wall_time
    /\ Required.max_cpu_time = 0 => jobs[j].limit >= Required.max_wall_time

\* The two parsers of qstat, JSON and line by line, make the same of a job that did
\* not fail, although the lines name the exit status after the state.
TextAgrees ==
  \A j \in DOMAIN jobs : Well(jobs[j].exit) => PbsTextJob(QstatLines(Item(j))) = PbsJob(Item(j))

\* Every sub task that is started is reported in the end, when no command, no error of
\* the cluster and no restart comes between (enqueue_sub_task to report_*_task).
Undisturbed == ops = 0 /\ errors = 0 /\ crashes = 0
EventuallyReported ==
  \A s \in Subs : (starts[s] > 0) ~> (~ Undisturbed \/ \E v \in Verdicts : <<s, v>> \in told)
=============================================================================
