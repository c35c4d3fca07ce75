# Kuintessence: TLA+ models and proofs

Kuintessence schedules scientific workflows. A user draws a graph of jobs; the
*co* service turns it into a workflow instance, releases its nodes in order and
hands them to *agents* that run on the clusters; the agents move files, submit
jobs and report results; a *billing* service turns results into prices. Users
upload packages of software, drafts, and files.

All paths below are relative to `src/src/` of the repository.

## 1. Inventory

| Part | State | Operations | Talks to |
|---|---|---|---|
| Workflow engine (`kernel/src/services/workflow_engine/`) | rows of `flow_instance`, `node_instance` | submit, start, schedule_next_nodes, receive_node_status, pause, continue, terminate | repository, use-case services, internal queue, billing topic |
| Unit-of-work repository (`co/src/infrastructure/repositories/sea_orm_db_repository/`) | a list of pending statements per DI scope | read (at once), update (pending), save_changed (one transaction) | database |
| Draft validation and batches (`kernel/src/models/impls/`) | none; the specification of an instance | validate, parse_node_instances, debatch, sub_nodes | workflow engine |
| Use-case services (`kernel/src/services/use_cases/`) | none | handle_usecase, parse_task, operate_task per node kind | repository, Kafka topic of a cluster, internal queue |
| Package validation (`lib-co-repo/src/services/package_validate.rs`) | none | extract_package, validate_package, preview, parse_node | authors of packages, drafts |
| Internal queue (`infrastructure/src/message_queue/`) | unbounded in-memory channel | send_object; one consumer, message after message | status receiver, upload runner, websocket manager |
| Agent task scheduler (`agent/service/src/task_scheduler.rs`, its runners in `agent/app/src/background_service/`) | tasks, sub tasks, a counter of running sub tasks | enqueue, schedule, pause, continue, delete, complete, fail, clean | sub task services, reports to co |
| Agent job runner (`agent/service/src/run_job.rs`) | sub task and file status | enqueue, file arrived, job refreshed, file sent, pause, continue, delete | file runners, PBS or Slurm, task scheduler |
| Agent deployments and collections (`agent/service/src/deploy_software.rs`, `collection_task.rs`) | sub task status, running deployments | enqueue, pause, continue, delete, run, complete, fail | deployers, task scheduler |
| Agent JSON repository (`agent/app/src/infrastructure/repository.rs`) | three tables in memory, three files | update, insert, save_changed | all of the agent |
| Cluster clients (`agent/app/src/infrastructure/service/job_schedulers/`, `software_deployers/`) | none | submit, query, hold, release, delete; look up a software | the text of `qstat`, `sacct`, `spack`, `singularity` |
| Agent report client (`agent/app/src/infrastructure/http_client.rs`) | none | post with retries | workflow engine |
| File upload (`kernel/src/services/file/`, `co/src/infrastructure/external_services/file_upload_runner.rs`) | multipart records, move registrations, cached parts and files | create, complete part, register, do moves, upload, flash upload, cancel, retry | Redis, cache, storage server, net disk |
| Snapshots (`kernel/src/services/file/supports/snapshot.rs`) | records in Redis, one file per content | create, remove, flash upload | cache |
| Net disk (`kernel/src/services/file/supports/net_disk.rs`) | a forest of rows in `file_system` | create_file with its directories | database |
| Realtime view, websockets | pending requests, sessions | request, answer | Kafka, internal queue |
| Billing (`billing-system/`) | a bill per node, a total per flow | record_bill | database, web hooks |
| Login, DI, telemetry, configuration, resource reports | none | plumbing and I/O | |

What is hard, by component:

* **Workflow engine.** Nothing serialises the handlers of one instance: each is
  an async function that interleaves with others at every await, reads rows,
  waits, and writes whole rows back. There is no guard on the status of the
  instance in any operation. Results arrive late, twice, or after a pause or a
  terminate; the internal queue is lost on a restart; a handler that fails half
  way has already sent commands. Correct means: nothing is released before its
  predecessors have succeeded; a task is sent once, after its row is committed;
  results are not undone by stale rows; the status of the instance tells the
  truth about its nodes; an undisturbed workflow ends.
* **Drafts and batches.** The number of sub nodes is computed at submission, from
  counts, and the combinations of inputs at scheduling, from contents, by other
  code. Validation is far from the unwraps it protects. Correct means: as many
  rows as combinations, every combination once, no panic after acceptance, and
  every required input there.
* **Packages and parse_task.** Arguments, their holes and the paths of files are
  computed by the checks, the preview, parse_node and parse_task, each for
  itself. Correct means: what was accepted can be run, as it was shown, and every
  file is where it is looked for.
* **Agent.** Handlers are spawned per message, per report and per tick; they
  share tables that are locked for single reads and writes only, and a report to
  co takes seconds when it is repeated. Correct means: what co is told is true;
  the sub tasks of a task are started in order; what was deleted does not come back; a
  task is not reported both ways; no job before its inputs; an undisturbed
  task is answered.
* **Cluster clients.** Decisions rest on text in several dialects. Correct means:
  the same job is read the same way, and a limit arrives as it was asked for.
* **Files.** Check-then-insert and read-modify-write on Redis records, several
  registrations for one file, flash upload against removal, a runner that retries
  from the start. Correct means: what is stored has the hash that is recorded;
  what the sender was told is there is not lost; a file is entered once, and not
  removed while a snapshot refers to it (which does not hold: section 3).
* **Net disk.** Directories are looked for and then made, one await after the
  other. Correct means: every row lies in a row that is there, and of the same user where
  the service chooses it; files are where their uploads say; a taken name is not given
  again.
* **Billing.** Read-modify-write of a total, at-least-once messages. Correct
  means: the total of a flow is the sum over its node bills.

The hazards of each, at their lines, and the properties that cover them are
listed under `hazards` of `PROJECT.json`.

## 2. Modules

| Module | Role |
|---|---|
| `DependencyOrder` | abstract specification: nodes are released only after all predecessors have succeeded |
| `WorkflowEngine`, `MCWorkflowEngine`, `WorkflowEngineProofs` | the engine, for one workflow instance; small graphs; theorems, the last of them about a workflow that is started once |
| `Draft`, `MCDraft` | a draft from its validation to the tasks of its nodes |
| `Usecase`, `MCUsecase` | a package from its validation to the task of a node |
| `MCTask` | the instances of `MCDraft` and `MCUsecase` in one run: a behaviour is one of a draft or one of a package |
| `Outcome` | chains of checks that end well, with an error or with a panic, for the two above |
| `TaskProofs` | theorems about `Usecase` and `Draft` |
| `FoldLemmas` | induction, folds, joined sequences and replaced parts, for the proofs |
| `Billing`, `MCBilling`, `BillingProofs` | the billing service, for one workflow instance; prices; theorems |
| `TaskScheduler`, `MCTaskScheduler`, `TaskSchedulerProofs` | the task scheduler of one agent, with the services that execute sub tasks as it sees them; small tasks; theorems |
| `RunJob`, `MCRunJob`, `RunJobProofs` | the job runner of one agent, its transfers, its jobs and its files on disk; theorems |
| `AgentText` | what the agent reads from and writes for PBS, Slurm, Spack and Singularity: used by `RunJob` |
| `FileUpload`, `MCFileUpload`, `FileUploadProofs` | uploads, parts, moves, snapshots and the upload runner; theorems about types and roles, then about safety |
| `NetDisk`, `MCNetDisk`, `NetDiskProofs` | the directories and files of users; theorems |

Each module stands for one part and takes the others as its environment:
`Draft` says what a node is given when `WorkflowEngine` releases it; `Usecase`
what is made of it when it is sent; `RunJob` is one use case of
`TaskScheduler`; `NetDisk` is the step `RunDisk` (or `FlashDisk`) of
`FileUpload`. `TaskProofs` extends both `Usecase` and `Draft`, whose variables and
specifications therefore have different names (`stage` and `Spec`; `progress` and
`DraftSpec`). The modules also hold mutated forms of some definitions, each
under a comment that says so; no specification uses them.

### WorkflowEngine and the code

State. `flow` and `node` are the database rows (`status`, the
`last_modified_time` of the instance, and whether `cluster_id` is set). `queue`
is the internal topic `node_status`. `sent` counts the tasks sent to agents, by
command. `handler[w]` is one DI scope: the step it takes next, its copy of the
instance and its pending statements; `Idle` means the scope is dropped.
`Workers` serve HTTP requests and `Consumer` serves the internal queue.
`released` and `succeeded` are histories that no action reads. `posts` and
`used` implement the bounds.

Steps. A handler is cut at its awaits: a commit, the sending of one message, or
a group of consecutive reads is one action. Statements are computed from the
row *as it was read*, and written as a whole row, as `into_set` does; that is
where stale writes come from. A handler that fails drops its statements.

| Code | Actions |
|---|---|
| `submit_workflow` | `SubmitFlow` (flow row, at once), `SubmitNodes` (transaction) |
| `start_workflow` | `StartWorkflow`, `StartNodes`, `StartSave`, then the scheduler |
| `schedule_next_nodes`, after a start | `SchedFlow`, `SchedFlowSave`, `SchedStandby` |
| `schedule_next_nodes`, after a success | `AllSame`, `GetFlow`, `GetStandby` |
| its common tail | `Finish`, or `TaskRows`, `TaskSave`, then one `Send...` per task, `SendDone` |
| `send_usecase` | `SendNoAction`, `SendMilestone` (no such service is registered: error), `SendRead`/`SendSave`/`SendTask` for scripts and software |
| `receive_node_status` | `Post` or `Consume`, `RecvSave`, then the scheduler and `Bill`, or `FlowRead`, `FlowSave` |
| `pause`, `continue`, `terminate` | `Operate`, `OpNodes`, `OpNoAction`/`OpAgent`/`OpError` per node, `OpSave` |
| an error at any await; a restart of co | `HandlerError`; `Crash` |

Abstractions. Names, logs, slots and file contents are left out. The order in
which the tasks of one stage are sent is free (the code takes the order of the
specification, so the model has more behaviours). Groups of consecutive reads
are one step. `AutoTouch` says whether the database changes
`last_modified_time` on UPDATE, which neither the code nor a migration in the
repository decides; runs use both values and the proofs neither. Texts and files
that a MatchRegex batch generates are not modelled, and neither are the reads
they need. An agent is the action `Post`: it may report any result that answers
a command it was given, late, out of order and up to `MaxPosts` times (the report
client posts again after a timeout), but not both a success and a failure.

### Draft and the code

State. `draft` is what a user submits: nodes, input slots with their contents,
output slots, batch strategies, relations. `rows` are the sub nodes inserted at
submission, `instance` the saved specification of the instance, `copies` those of
handlers that have sent their tasks and not saved yet, `tasks` what was sent.

| Code | Actions |
|---|---|
| `validate_related_nodes`, `validate_per_node`, then `sub_node_count` and the rows | `Submit`, with the outcome of every check in the order of the code, `"panic"` where it unwraps |
| the entry nodes of one schedule: filled inputs, `debatch`, `get_batch_inputs`, `sub_nodes`, `parse_sub_nodes`; the prepared output ids | `Schedule` |
| a missing renaming pattern, an `unreachable!` | `SchedulePanics` |
| `update` of the instance after the tasks are sent | `SaveInstance` |

Abstractions. When a node becomes an entry is `WorkflowEngine`'s; here any node
whose dependencies are scheduled may be. `WordMax` stands for the largest
`usize`, which the code reaches with `!count`. A content is a value that says
where it comes from. What a MatchRegex strategy generates is only counted.

`DraftsAssumption` says what a draft is (`WellFormed`) and that its nodes do not
depend on each other in a circle (`Acyclic`). The code does not look for circles:
`sub_node_count` calls itself for the node before, and in a circle never returns. `Submit` is
one step that ends, so drafts with a circle are left out.

### Usecase and the code

State. `package` is a use case with its software, `preview` what the author was
shown, `node` what parse_node made of it, `given` the contents of its slots and
`task` the task; `order` is the order in which a HashMap of templates happens to
be gone through.

| Code | Actions |
|---|---|
| `validate_package` and the preview of the command | `Validate` |
| `parse_node` | `ParseNode` |
| the contents of the slots, in a draft that was accepted | `Give` |
| `parse_task` | `ParseTask`, which is `"lost"` where the code unwraps `None` |

Abstractions. An argument or a variable is a sequence of symbols, one of which is
the hole `{{}}`; paths and texts are symbols. Of the metadata of a package only whether
they hold a name and a description is kept (`named`), of a template only whether it
parses (`parses`). Slots are looked up by their descriptor, so two slots of one descriptor
are one in the model. Requirements are passed on
unchanged and left out. Archives, TOML and the WASM bindings are not modelled.

### Billing and the code

State. `published` and `topic` are the messages the engine has sent and those
that will still be delivered. `flow` is the row of `flow_instance_billing`: its
total, and as a history the nodes whose prices went into it. `billed` are the
nodes with a row in `node_instance_billing`. `handler[c]` is the call of
`record_bill` that consumer `c` runs, with its copy of the total; `notice` is
what the web hook of the user was last told.

| Code | Actions |
|---|---|
| `receive_node_status` sends to the topic | `Publish` |
| `record_bill`: rows of the node, formula | `Receive` |
| total read; inserted if missing | `GetFlowBill`, `OpenFlowBill` |
| node bill inserted | `InsertNodeBill` |
| total increased and written | `SaveFlowBill` |
| total and bills read, sent to the user | `ReadTotal`, `NotifyUser` |
| a statement fails; a consumer leaves the group | `Fail`, `Leave` |

Prices are constants: the formula is evaluated by a library from rows that no
longer change. Prices have ten decimals; the column `total_price` has two and
rounds whenever a total is written (`Rounded`). An insert with "on conflict do
nothing" that inserts nothing returns an error in the version of the database
library that `Cargo.toml` names; it is modelled so, and the safety of the totals
rests on it (the mutant `InsertNodeBillAgain` shows what happens otherwise). The
consumer group commits offsets periodically
(`config/bill-system-config.develop.yaml`), so `Leave` may lose the message that
is handled and deliver handled ones again.

### TaskScheduler and the code

State. `task` and `sub` are the status columns of the tables `tasks` and
`sub_tasks`, `None` where there is no row; `rows` is the order of the rows of
`sub_tasks`, which decides what is started next. `running` and `uploading` count the
executions and uploads under way, `reports` the reports of sub tasks in
the channel of the scheduler. `handler[w]` is one spawned handler: the
command it serves, the step it takes next, and what it has read. `told` is what
co has received. `inserted`, `asked`, `started`, `ended`, `failed` and `removed`
are histories that no action reads. A Start message brings new sub tasks
at every delivery (their identifiers are generated), so `Subs` are grouped by
message, and a task may be started twice.

| Code | Actions |
|---|---|
| Kafka messages; reports of sub tasks; the interval | `ReceiveStart`, `ReceiveCommand`; `ReceiveReport`; `Tick` |
| `enqueue_task` | `Insert`, then the scheduler |
| `schedule_next_task` | `NextTask` |
| `schedule_next_task_by_id` | `Look`, `Mark`, `TellStart`, then `EnqueueSub`, `ContinueSub`, `CollectSub`, or `MissingSub` |
| `complete_sub_task` | `Complete`, `Judge`, then the scheduler, or `Finish`, `TellSuccess`, `NextTask` |
| `fail_sub_task` | `Fail`, `TellFailed`, `NextTask` |
| `pause_task` | `Pause`, `PauseSub` per row of the body, `Suspend`, `TellPaused`, and `NextTask` if it was running |
| `continue_task` | `Resume`, `TellResumed`, then the scheduler |
| `delete_task`, also for `delete_all_completed_tasks` (`Clean`) | `Delete`, `PauseSub`, `Suspend` and the scheduler if it runs, `RemoveSub` per row, `RemoveTask`, `TellDeleted` |
| job runner: the end of a job, of an upload, a failure | `JobSucceeds`, `JobSeenTwice`, `UploadSucceeds`, `UploadFails`, `ExecutionFails` |
| deployments | `DeploySucceeds`, `ExecutionFails` |
| co refuses a result; a report or a service fails; restart | `ReportFails`, `ServiceFails`; `Crash` |

Abstractions. A read and the write that follows it at once, without a request
to another system in between, are one step: inside the services (`get_by_id`,
`update`) this leaves out lost updates of a row of `sub_tasks`, and the order of the command and the
row when a deployment is enqueued. A save of the three files is part of the write before
it; a restart finds what was written. A use case has one job and one upload;
a second submission, downloads, saves to files and the job that is submitted
although a copy has failed are in `RunJob`. Any queuing task may be
the first of its table. `max_tasks_count` is 0 (`service_provider.rs:185`), which means
no limit, so the counter of running sub tasks is left out: in a release build it wraps,
in a debug build a decrement without an increment panics. Handlers are
a pool (`Workers`); in the code there are as many as messages.

### RunJob, AgentText and the code

State. `rows` is the table of sub tasks (status and id of the job), `files` that of
files; `disk` is both as last saved. `coming` and `going` count the transfers
under way, `late` the downloads that have called `fail_job` and will call `run_job` as
well; `jobs` is what the cluster knows, `work[w]` one spawned call, with the
copy of the row it will write back. `due` are reports the scheduler has not taken;
`told`, `marked` and `trouble` are histories.

| Code | Actions |
|---|---|
| `enqueue_sub_task` | `EnqueueSubTask`, `Saved` |
| a download goes through; ends in an error that it returns | `Downloaded`; `DownloadFails` |
| a copy behind ssh fails: `fail_job`, and then `run_job` all the same | `CopyFails`, `RunAnyway` |
| an unwrap ends the runner of a transfer | `TransferDies` |
| `internal_run_job` | `RunSaved`, `FindSoftware`, `SubmitJob`/`SubmitFails`, `Saved` |
| `fail_job` | `FailJob`, `FailSaved` |
| `refresh_all_status`, `refresh_status` | `RefreshAll`, `RefreshStatus`, `Answer`/`QstatFails` |
| outputs sent; an upload goes through, or ends in an error; `internal_complete_job` | `SendOutputs`; `Uploaded`, `UploadFails`; `CompleteSaved` |
| pause, continue, delete with `qhold`, `qrls`, `qdel` | `Operate`, `CommandJob` |
| the scheduler takes a report | `TakeReport` |
| jobs on the cluster (external) | `JobRuns`, `JobEnds`, `JobLeaves` |
| a restart between saves, or in the middle of one: new sub tasks, old files | `Crash` |

What `Answer` decides is read from an item of `qstat` by the parsers in
`AgentText` (JSON and line by line) or from a word of `sacct`; the limit of a job
is what a scheduler makes of the script. A text is what its parser tells apart:
keys and values, durations as sequences of numbers, memory as a number and a
unit. A runner calls back a second or more after it was told to start,
so what a handler does in memory while it tells the runners is one step.

A transfer *goes through* when its runner comes to `run_job` or `complete_job`, which mark
the file (`Mark`). That is not to say that anything was moved: the runners drop what
blocks and parts return, and the status of http (section 4). No state of the agent tells
the two apart, so the properties speak of transfers that went through and never of contents.

### FileUpload and the code

State. In Redis `multipart` (by meta id and hash: the parts marked as uploaded),
`reg` (a move registration per upload) and `snaps`; in the cache `parts`, `normal`
and `snapfile`; `storage` the objects, `metas` the rows of file_metadata, `disk`
the net disk entries made for each upload; `queue` the internal queue; `client`
what each sender was told; `proc` the handlers and the runner with what they have
read. A hash stands for the content that has it, `Bad` for a damaged one.

| Code | Actions |
|---|---|
| the four prepare handlers: flash upload, `MultipartService::create`, registration | `Prepare`, `Flash`, `FlashDisk`/`FlashSnapshot`, `SameHash`, `SameId`, `Insert`, `Register` |
| `complete_part` | `Send`, `WritePart`, `ReadRecord`, `SaveRecord`, `Gather`, `WriteNormal`, `RemoveDir` |
| a hash that differs | `ReadFailing`, `SetFailed` |
| `do_registered_moves` | `ReadMoves`, `MoveToStorage`, `MoveToSnapshot`, `AddSnapshot`, `DropRecord`, `DropDir`, `DropRegs`, `MovesDone` |
| cancel; retry | `Cancel`, then `DropRecord` ...; `Retry`, then `ReadMoves` ... |
| `FileUploadRunner::upload_file` | `Take`, `RunRead`, `RunUpload`/`RunRefused`, `RunMeta`, `RunDisk`, `RunNormal`, `DropRecord` ..., `RunFailed` |
| `SnapshotService::remove` | `Delete`, `DeleteLook`, `DeleteFile` |
| a command that fails; a restart of co; a lease of a day ends | `Fail`; `Crash`; `ExpireRecord`, `ExpireMove` |

Abstractions. `KEYS` and the read that follows are one step; every upload of an
instance has the same number of parts; names, sizes and users are left out. The
upload of a whole file in one request and the downloads change none of these
records and are left out.

### NetDisk and the code

State. `disk` is the table, by id; ids are derived from what a row holds, that of
a file excepted. `pc`, `ask`, `parent`, `name` are the calls of `create_file`;
`tries`, `refused` and `before` are counters and a history.

| Code | Actions |
|---|---|
| a request of a handler or of the runner; its repetition | `Start`, `Retry` |
| `get_node_instance_dir_id`, `get_flow_draft_dir_id`/`get_flow_instance_dir_id`, `..._root_id`, `get_root_id` | `LookNode`, `LookDir`, `LookTop`, `LookRoot` |
| `create_root`, and the directories made on the way down | `SaveRoot`, `SaveTop`, `SaveDir`, `SaveNode` |
| `fix_file_name`; the file | `ChooseName`; `SaveFile` |
| an error at an await, a restart | `Fail` |

What may be asked for is in `Askable`: a node's file belongs to the user of its instance,
while for a file of one's own the client may name any row as its place, also a file or a row of
another user, and a row that is not there: the foreign key then refuses the
file (`SaveFile`). The runner serves one call after the other; handlers overlap. Time passes
between a save and a later name, so a time stamp is never that of a stored name.

## 3. Runs

| Run | Checks | Instance |
|---|---|---|
| `order` | `IInv` (with `TypeOK`), `DispatchedInOrder`, `OrderSpec` | a triangle, its first node without action, and a milestone beside it; 2 workers, success, failure, deletion, 2 starts, 1 operation, 1 crash |
| `progress` | `CommitBeforeSend`, `NoDoubleDispatch`, `FinishedStays`, and `EventuallyAllFinished` under `FairSpec` | a fan whose first node is a batch of two and whose last is without action; 2 workers, 1 error |
| `join` | `FinishedMeansAllDone`, violated | two nodes and a third that needs both; 1 worker |
| `bills_overlap` | `BillingInv` (with `TypeOK`), `NeverOvercharged` | 3 nodes, 2 consumers, 1 failure, 1 departure with redelivery |
| `bills_steady` | `NoticeBalances`, `EventuallyCharged` under `FairSpec` | 3 nodes, one of which cannot be priced, 1 consumer, every message twice, 2 failures after the total is written |
| `agent_answers` | `SchedulerInv` (with `AnswersJustified`), `StartKnown`, `DeletedStays` | one task started twice, a use case and a deployment; 2 handlers, 1 command, 1 restart |
| `agent_order` | `OneVerdict`, `InOrder`, `EventuallyAnswered` under `FairSpec` | a use case and then two collections; 2 handlers, 2 ticks, 1 error, 1 restart |
| `job` | `InputsFirst`, `ReportsTrue`, `LimitKept`, `TextAgrees`, `EventuallyReported` under `FairSpec` | one use case, two inputs, an output, Spack, PBS, a limit of 25:01:05; 2 handlers, 2 jobs, any two of 1 command, 1 error, 1 restart |
| `upload` | `ContentTrue`, `NothingLost`, `OneEntryEach`, `SnapshotReadable`, `EventuallyStored` under `FairSpec` | 4 instances, chosen in `Init`; 2 handlers and the runner |
| `task` | `RowsMatchTasks`, `EveryCombination`, `SubOutputsTaken`, `AcceptedRuns`; `PublishedRuns`, `HolesInOrder`, `NamedFilesDelivered`, `CollectedWhereWritten`, `PreviewTold` | every draft of two nodes that tries a check, every chain of three nodes with batches of batches; every package of a text slot and a file slot from two families: ways to mount, kinds of output |
| `netdisk` | `Tree`, `InPlace`, `NamesApart`, `RefusedOnce` | 2 users, a draft, an instance of two nodes, 3 uploads, 2 tries each, any row as the place of a file |
| `snapshot_removal` | `SnapshotKept`, violated | the same content as two snapshots, one of which is removed |

Deadlock is not checked: once the bounds are used up and all handlers are done,
the modelled system really is at rest.

### Bounds

*Engine.* The hazards need two handlers, a stage of two nodes and a stage after
it; the batch adds sub nodes. A second start, one operation and one crash can each fall between any two
steps. More handlers only repeat the races of two, and what the proofs cover is
independent of the number of handlers. `NoDoubleDispatch` and `FinishedStays` are checked
without restarts, operations and repeated results, because those undo a
result or send a task again by design of the code; with `MaxPosts = 2` a task
can be sent twice.

*Drafts and packages.* Every check is passed and failed by some input, alone and
after each of those before it; packages without a name, templates that do not parse,
fill counts of 0 and two strategies of one slot are among the inputs. Three nodes are the smallest chain in which a
batch takes the outputs of a batch of a batch. Counts up to 3 tell sums from
products. `WordMax` is 255 for the run.

*Billing.* The prices of `MCBilling` are 0.4, 0.5 and 1.6 cents: one rounds down, two round
up, and exact sums would differ from rounded ones. With overlapping consumers a
total may lose a price, and a consumer that stops between the node bill and
the total leaves a node uncharged for good, since the repeated message is
refused; so `NoticeBalances` and `EventuallyCharged` assume one consumer and no
failure up to that write, and `NeverOvercharged` is what remains true otherwise.

*Agent.* The result `Start` of an agent is not one of co
(`agent/app/src/dto/mod.rs:198,211` against `kernel/src/models/task.rs:224-237`), so
the first report of a task is refused as the code stands, and the error ends the
handler (`task_scheduler.rs:87`) with the task written as Running and nothing
started. Both runs assume a co that accepts it; `Accepted` is a
constant, and the proofs hold for either. Both runs have two handlers, which is
where what was read becomes stale: the code spawns one for every message, report and tick.
The properties say what remains true of that. `InOrder` speaks of sub tasks that were *executed*,
with success or not: a handler that takes the first row that waits does so although the one
before has failed meanwhile. It excepts a task that is operated, since a pause moves
the rows of the body to the end of the table one by one, but not those of
collections, so that a pause and a continue put a collection before its use
case; and one that is sent twice. `OneVerdict` names the two ways to both verdicts: a failed sub task that
is deleted is no longer asked for by the success of the others, and one that is started
twice may fail once and succeed once, which two handlers that read the same row bring about without any
command. It excepts outputs that two ticks send for one job. A use case
and two collections are the least in which a late report can start the wrong one.

*Jobs.* Two inputs are what it takes for two arrivals to meet, two jobs for a
second submission. A command, an error and a restart may each happen, any two of them in one
behaviour (`MaxUpsets`). `InputsFirst` is about a sub task that is started
once: a second start downloads again into files that a first job may be reading.
25 hours, one minute and five seconds has a value of its own in every unit. The run is one of PBS;
of Slurm `LimitKept` is proved.

*Uploads.* The instances are: a file of two parts with a fault (an error at any
step, a crash, a lease that ends) and an extra (a damaged or repeated part, a
cancellation, a retry); a snapshot of two parts with a fault and its removal;
the same content uploaded as two files; the same content as two snapshots with a
fault and two removals. Two handlers and the runner can be anywhere in between.
`SnapshotReadable` excepts hashes of which a record was being made when a file was
removed: there the code does otherwise, which `snapshot_removal` shows with the property that makes no
exception, `SnapshotKept`. Nothing in the model keeps two
uploads from the same id, while in the code each is given a new one
(`Uuid::new_v4()`, `co/src/controllers/file_storage.rs:344`) or that of a row: an id
has one content (`OneContent`) and one destination (`OneDestination`), and the properties
say where they need it.

*Net disk.* Three uploads let two make the same directories while a third takes a
node's directory for the instance's; two tries let one be cut off anywhere and
start again. Files may be put into every row there is or will be. Uploads and times of day are interchangeable, hence the symmetry,
which is used with invariants only.

### Fairness

`FairSpec` of `WorkflowEngine` assumes that the runtime polls every handler (weak fairness
of its steps), that the consumer task keeps serving the queue, and that a task
an agent was given ends and its success is delivered. It is assumed of the
agents and of the network, not of the code. `FairSpec` of `Billing` assumes that
consumers keep polling and that
what they await ends. `FairSpec` of `TaskScheduler` assumes that spawned handlers are polled,
that what is executed ends, and that reports in the channel are taken: the latter as
strong fairness, because a report waits for a handler of the pool to be free,
and in the code a handler is spawned for each. `FairSpec` of `RunJob` assumes that the cluster ends
every job, that handlers go on, and, strongly for the same reason, that the tick,
the end of a transfer and the enqueuing of what waits find a handler. `FairSpec`
of `FileUpload` assumes that handlers and the runner go on, and strongly
that a sender sends what it was told is missing; nothing makes it prepare, cancel, retry
or delete. Every liveness property says what may not disturb it: an error, a
restart or a command, after which the code has nothing that retries.

### What the violated runs show

`join`: only the relations of the node that succeeded last are dropped
(`schedule.rs:82`). A node with two predecessors that run in parallel is
never an entry node; the instance becomes Finished and the node stays
Standby. Dropping the relations of all Finished nodes instead would release
it, but two handlers of one stage could then both see the stage complete and
both send it: the mutant of `NoDoubleDispatch` shows exactly this.

`snapshot_removal`: a removal deletes its record, sees no other record of the hash, and then
removes the file (`services/file/supports/snapshot.rs:67-81`). A flash upload of the same content, which
found the file before, records its snapshot between the look and the removal: the new snapshot is
listed and its file is gone. The interface (`kernel/src/service/file/supports/snapshot.rs:9-11`)
says that the file is not removed until there is no snapshot using it. `SnapshotReadable` shows that this
race is the only way to it.

## 4. What the code does otherwise

Met while modelling. The models have these, and no run checks them; where one
limits a property, the property says so.

*Workflow engine*

* The all-same check ignores sub nodes (`node_instance.rs:88` of the
  repository), and the parent of a batch is sent as a task as well. The parent's
  result alone completes the stage, so an instance may be Finished while sub
  nodes run.
* A result that arrives after `terminate_workflow` schedules the successors:
  nodes of a Stopped instance may be released (`schedule.rs:65`, `308-342`).
* The scheduler writes back an old copy of the instance after it has sent the
  tasks (`schedule.rs:242`); if the last results are served in between, the
  instance shows Running for ever.
* When the all-same check fails, the handler returns before the billing message is
  sent (`status_receiver.rs:38`): only the last node of a stage is billed.
* With two handlers a pause can write a row it read before the cluster was saved,
  and a crash between saving the cluster and sending the task leaves a node with
  a cluster whose agent has no task.

*Drafts and batches*

* A slot is taken for fed when any node has a fed slot of that descriptor
  (`models/impls/workflow_draft.rs:100,163`; `exceptions/workflow_draft.rs:57-58`
  speaks of the node's own slot), so a required slot may stay empty.
* `!count >= 1` turns over the bits of a `usize`: every OriginalBatch is rejected.
* `contents: None`, as parse_node delivers it, panics in the validation.
* FromBatchOutputs compares the *input* slot of the upstream strategy with the
  *output* slot of the relation; a cycle of them recurses without end.
* Slots of a batch node that a node feeds without a strategy are never filled, and
  the batch node's own task is sent with empty batch slots.
* A slot fed twice is counted by the first relation and filled by the last.
* A missing renaming pattern panics at scheduling.
* A fill count of 0 is accepted. No sub node is counted and none made, so nothing clears
  the id prepared at submission: a node that takes the outputs as a batch has no row, and
  yet finds one input. Such nodes get their own task only, and that one combination is
  dropped.
* Two strategies of one slot are accepted: their sub nodes are counted and made, and the
  input of the second replaces that of the first, so that some tasks are given the same.
* A chain of checks looks slots up by their descriptor alone, so nodes that share one are taken
  for each other.
* The instance is saved after the tasks are sent: a scheduler that reads it in
  between finds the placeholder outputs of a batch.

*Packages*

* `parse_node` unwraps the `name` and `description` of the metadata
  (`lib-co-repo/src/services/parse_node.rs:31-33`), which `package_validate` never asks for: a
  package without them is published and panics whoever drafts a node of it.
* A template that does not parse is found when a task is made (`software_computing.rs:332-333`,
  `855-856`), which then errs and leaves the node Standby; `package_validate` does not parse templates.
* No check asks that the descriptors of slots differ, by which validation and parse_task look
  slots up.
* Flags are not validated, and parse_task unwraps them. A flag variable is given its
  format literally, `{{}}` by default. A flag at sort 0 is not counted by the check
  that sorts begin with 0; a flag that shares a sort with a ref takes over its format.
* A collected output whose file does not exist among the outputs panics the validation;
  an appointing slot is not looked at for use case outputs and collected files; an empty optional
  appointing text and an optional text on the standard input panic in parse_task.
* Holes are filled first come, first served, not by their number
  (`software_computing.rs:746-769`): a value for descriptor(1) alone goes to the first hole, where the doc
  of `Argument` (`lib-co-repo/src/models/abilities/software_computing/software/materials/inputs/argument.rs:11`)
  says that the number picks the hole. `HolesInOrder` states the order the code keeps. An input text that contains `{{}}` shifts later ones.
* Templates and flags are gone through in the order of a HashMap.
* Only the first input file a slot is mounted on is delivered, although the preview
  lists all; two files of a slot with an expected name get the same path.
* A software that is not installed at all counts as satisfied, and one that lacks
  arguments is not deployed.

*Agent*

* Two handlers that see the same queuing task both start its first sub task, which may then fail
  and succeed, so that co is told both; overlapping
  ticks upload outputs twice and may tell both verdicts; a pause that was requested
  early can overtake the start.
* The sub task to start is chosen before the report of the start is sent, which takes seconds
  (`task_scheduler.rs:85-102`): by then its task may have been paused, have failed or be over,
  and the sub task is started all the same. After a pause and a continue the order of the
  body is not kept.
* `clean` keeps the completed tasks that are older than two hours and deletes
  the recent ones (`task_scheduler.rs:268`): a tick may take a task away between its
  being written as Completed and its success being told, and co then never hears of it.
* Errors of transfers are swallowed. The upload runner looks at whether the tasks of its parts were joined, not
  at the result of `http_post_file` (`file_upload_runner.rs:198-206`), drops the status of the
  copy behind ssh (`74`) and takes an optional file that is missing for sent (`80-85`): the sub task is
  Completed with nothing uploaded. The download runner does the same with its blocks
  (`file_download_runner.rs:180-188`) and looks at no status of http (`106-125`), so that the page of an
  error is stored as the input: the job runs on it.
* An unwrap in a transfer (`file_download_runner.rs:49-51`, `124`, `169-170`; `file_upload_runner.rs:174-176`) ends a
  runner that has called nobody: the sub task waits for ever.
* Two inputs that arrive together submit the job twice. A continued job is Queuing and
  not refreshed until it is enqueued again, which downloads and submits again. After
  a failed copy to the cluster the job is failed and submitted all the same.
* An error when the software is looked up or the job submitted leaves a Running sub
  task without a job for ever; an error for one job ends the refresh of those behind it.
* A crash while a JSON file is written makes the next start fail.
* The lines of qstat name the state before the exit status, so a failed job is
  taken for Completed (`TextAgrees` excepts it). In the PBS script `result = $?` is no
  assignment, so the exit status is always 0. Other letters of PBS become Unknown and
  the sub task Failed.
* The Slurm script writes seconds (`agent/domain/src/model/vo/task.rs:82-86`) where `--time` takes minutes
  (`slurm_client.rs:321-330`): the limit is sixty times what was asked for, and that of the cpu time takes its
  place if there is one. `LimitKept` says exactly this. SUSPENDED is Unknown,
  and a job that is paused may be failed; CANCELLED is Suspended, for ever. The
  directives come after `cd`, and `--ntasks-per-node` may hold a literal `{x}`.
* The upload runner of the agent posts parts to the address of the preparation, and
  each block loses its last byte; writers that share
  a file share its offset.

*Files*

* An upload that joins another (`Unfinished`) never registers its own move, so its
  destination gets nothing. If the move of the first was not registered, the joiner
  is told of a success and nothing is stored.
* Registrations end after a day, whether parts arrive or not; a lost bit of a
  record is sent again; a record may come back after it was removed; check and
  insert of a record are apart (`service/file/multipart.rs:11`).
* Two uploads of one meta id and different hashes overwrite the object, and then
  the second row is refused; a retry after the net disk entry failed is refused the same way.
* The removal of the last record of a snapshot and a flash upload may meet: see `snapshot_removal`.

*Net disk*

* Directories of nodes are marked as ones of the instance (`DirKind::NodeInstance`
  is never written), so a node's own directory is never found by its mark, and another node's may be
  taken for the instance's: a node directory may lie in that of another node.
* The parent that a client names for a file (`co/src/controllers/file_storage.rs:270`) is not
  looked at by `create_normal_file` (`services/file/supports/net_disk.rs:124-153`): only the
  foreign key asks that it is there. It may be a file, or a directory of another user.
* The root is inserted without "on conflict", so uploads of a new user that meet
  are refused, once each; a flash upload of a node file into an empty disk has no
  user in its scope and is refused every time.
* The second `on_conflict` replaces the first, so only the id is protected. A taken
  name always gets the time behind it (`service/file/supports/net_disk.rs:5-7`
  speaks of the hash); uploads that overlap may get equal names.

*Realtime view.* A request is sent to Kafka before its record is inserted
(`realtime.rs`, 29-43): an early answer finds nothing. A session starts before
it is in the map of the manager.

## 5. Proofs

All proofs are about the specifications above, for every value of the
constants that satisfies the assumptions named; a bound is used only where a
theorem says so, as the condition under which the code promises something.

`WorkflowEngineProofs`, for every graph and any number of workers, from
`GraphAssumption`, `KindAssumption` and `ModelAssumption`:

* `InductiveInvariant`: `Spec => []IInv`;
* `TypeCorrect`: `Spec => []TypeOK`;
* `Order`: `Spec => []DispatchedInOrder`;
* `Refinement`: `Spec => OrderSpec`, that is, `WorkflowEngine` implements
  `DependencyOrder`.

`DispatchedInOrder` is not inductive: a handler acts on what it read long
before. `IInv` adds what each step relies on (`HandlersSound`): the tasks a
scheduler is about to release have only predecessors that succeeded, the nodes a
handler serves are released, a scheduler after a success serves a node in
`succeeded`, and no pending row shows progress of a node that is not
released. `VisibleReleased` says the same of rows, messages and tasks.
The crucial step is `GetStandby`: an entry node after the success of `x` has no
predecessor other than `x`, because only the relations of `x` are dropped. The very
restriction that makes the `join` run fail is what makes the order hold. The
proof has a lemma per action for `IInv'`, most of them instances of two: a step
that changes one handler only, and a step that commits pending rows.

Also in `WorkflowEngineProofs`, with any number of errors and crashes:

* `CommittedFirst`: `Spec => []CommitBeforeSend` if `MaxStart <= 1`;
* `DispatchedOnce`: `Spec => []NoDoubleDispatch`, and
* `FinishedForGood`: `Spec => FinishedStays`, if `Undisturbed`, that is
  `MaxStart <= 1`, `MaxOps = 0` and `MaxPosts <= 1`.

The conditions are bounds here because they are what the code promises under: a second
start sets every row to Pending and sends every task again, an operation
writes the status it wants over whatever a row has become, and a success that is received twice is
scheduled twice. TLC finds `FinishedStays` violated when any one of the three is dropped,
`NoDoubleDispatch` with a second start or a repeated result, and `CommitBeforeSend` with a second
start. Each invariant rests on the one before it. `Starts`: what a handler still has
to write, and on whose behalf (`Orderly`); a row that waits is written only by a start,
before which nothing was released. `RowsKnown`: a row is Standby only if it has predecessors, and
Finished only after its success was saved. `Onces`: a node is chosen by one
scheduler (`OneCarrier`), because the schedulers that could choose it serve the
successes of its predecessors, of which each is served once (`OneAnswer`), and when one
of them finds that all other relations have gone, no other success is still to be served
(`ChosenOnce`); a task that was sent, or answered, is carried by nobody, so no stale row
of it is pending. This is the argument for code that takes no lock and never asks
whether a node was sent before (schedule.rs:65-99).

`BillingProofs`, for any nodes, prices and consumers, from
`PriceAssumption` and `BillingAssumption`:

* `BillingInvariant`: `Spec => []BillingInv`;
* `ChargedOnceAlways`: `Spec => []ChargedOnce`, a total never contains a node
  twice, nor one without a bill;
* `TotalsBalance`: `Spec => [](BillingInv /\ Balances)`, a total, in the table or in the
  hands of a consumer, is the sum of the rounded prices of the nodes it contains;
* `NeverOverchargedAlways`: `Spec => []NeverOvercharged`;
* `NoticeBalancesAlways`: `Spec => []NoticeBalances` if `Alone`, that is one consumer that
  does not leave and a write of the total that does not fail.

`ChargedOnce` is not inductive because consumers write totals they read long
before. `HandlersSound` says that such a copy was sound when it was read and that
bills are only added; the step that matters is `InsertNodeBill`: a node that had
no bill until now is in no sound copy, so adding it charges it once.
`Balances` is kept because adding a price to a total and rounding adds the rounded price
(`RoundedSum`), and because a sum over a set is that over the set without one element
and that element; `NeverOvercharged` follows as a sum over fewer bills is
no larger, which is induction over finite sets. For `NoticeBalances`, `AloneInv` says that
between two messages the total covers all bills, and that only between the bill of a
node and the write of the total one bill is not covered. Without `Alone` it is false: see
*Billing* under the bounds.

`TaskSchedulerProofs`, for any tasks, messages, sub tasks and handlers,
and whichever results co accepts, from `TaskAssumption` and `SchedulerAssumption`:

* `SchedulerInvariant`: `Spec => []SchedulerInv`;
* `AnswersTrue`: `Spec => []AnswersJustified`;
* `StartsKnown`: `Spec => StartKnown`;
* `OneVerdictAlways`: `Spec => []OneVerdict`;
* `DeletedStaysAlways`: `Spec => DeletedStays`;
* `StartedInOrder`: `Spec => InOrder`.

`AnswersJustified` is not inductive: a result is told long after the tables were read.
`Justified` says that what a handler is about to tell or to write was true when it was read,
and because the histories only grow (`Grows`), what was true stays so
(`StaysSound`): this is why no interleaving can make an answer untrue. The
step that matters is `Judge`: if every row of a task that exists is completed,
then for some message that was inserted every sub task has ended or was
deleted (`TablesSound`). A completed row is never taken as a proof by itself; it is the history
`ended` that the reports and the rows rest on.

None of the last three assumes anything of the handlers: what they except is in the properties.

`OneVerdict` is by counting. Of each start of a sub task one thing comes: an execution, an upload
or one end (`Balanced`), unless two ticks see the end of one job (`StartsAccount`). So a
sub task that has both succeeded and failed was started more than once. Both verdicts together say
that every sub task has succeeded or was deleted and that one has failed, by `AnswersJustified`: that
one was deleted, or has done both.

`DeletedStays` rests on `BookInv`. A message is inserted once (`Fresh`), rows come by insertion
only and stay away once deleted (`RowsTrue`), and what a handler has read are rows of its
own task (`Listed`). What remains is one lemma per action: every write of a row
asks the table for the row first, so a handler that chose or listed a sub task before it was deleted finds none.

`InOrder` is about the messages whose task is sent once (`Alone`) and not operated. `TurnInv` says of
the rows (`RowsInTurn`) that until all is over those that wait are in the order of the body, since
what moves to the end of the table waits no longer; and of every handler (`InTurn`) that what it is about to start
was first among those that waited when it chose, so that all before it had been started, had
ended or failed, and that it deletes nothing before all is over. What has ended or failed are histories, so it
does not matter how long ago the handler chose, nor how many do so at once. That a row which is
written or deleted leaves the others in order (`RowsInOrder`) is a fact about `RemoveFirst` and `Append`,
proved for any rows.

`NetDiskProofs`, for any users, drafts, instances, nodes, uploads and requests, from
`DiskAssumption` and `RequestsAssumption`:

* `InductiveInvariant`: `Spec => []DiskInv`, and `TypeCorrect`: `Spec => []TypeOK`;
* `Forest`: `Spec => []Tree`;
* `Located`: `Spec => []InPlace`;
* `NamesDiffer`: `Spec => []NamesApart`;
* `RefusedAtMostOnce`: `Spec => []RefusedOnce`.

None of the four is inductive: an upload saves a row below a directory it found,
or was told, several steps ago. `RowsFit` says what the row of every id is
(`Shape`): whoever made it, and from whatever request, it is the same but for the
parent of a node's directory, so it does not matter whose insert is the one that
stays; and where it lies (`Placed`), which for a file whose place the client named is any row
that is there. `Known` says of each step what the row an upload has found is for: that is where the
mark of node directories matters, since `nodeSave` can only rely on a row *of*
the instance, which is all that `InPlace` promises. `Apart` carries the names an upload saw to the file it
saves, `RefusalKnown` that an upload which was refused finds the root from then on. Rows are
only added (`Kept`), so what an upload knows stays true (`KnownKept`, `ApartKept`,
`RefusalKept`); the lemma `Stepping` reduces every action to what it does to the
upload that takes it.

`FileUploadProofs`, for any uploads, ids,
hashes, parts, handlers and bounds, from `ConstantsAssumption`:

* `TypeCorrect`: `Spec => [](TypeOK /\ Roles)`;
* `ContentsTrue`: `Spec => []ContentTrue`;
* `EntersOnce`: `Spec => []OneEntryEach`;
* `SnapshotsReadable`: `Spec => []SnapshotReadable`;
* `NothingIsLost`: `Spec => []NothingLost`.

`Roles` says which upload a process is about and what it still has to do: only
the runner enters files, one upload is prepared by one process, a move goes to the id of
the piece that started it. Each of the others has an invariant of its own over it.
`Contents`: every pair of an id and a hash, in a record, in a file or in the
hands of a process, was promised by some upload; with one content for an id, equal ids
then mean equal contents, however stale what a process has read. `Entries`: the runner
enters only what is recorded and not yet entered, and a row is never removed. `Readable`: a
process about to record a snapshot has its file; one about to remove a file knows no
snapshot of its hash, *unless the hash is crossed*: a record of it was being made when a file of it
was removed, or the other way round. That is the exception of the property; without it
(`SnapshotKept`) it does not hold. `Saved`: whoever stands between the last part and the end of
the moves has the file in the cache or stored (`Safe`), whatever error or crash
stops it; what may drop a record or a registration comes after the file is stored.

`RunJobProofs`, for any sub tasks, files, requirements, handlers and bounds, and for
both clusters where nothing else is said, from `RunJobAssumption`:

* `TypeCorrect`: `Spec => [](TypeOK /\ Fitting)`;
* `InputsComeFirst`: `Spec => []InputsFirst`;
* `ReportsAreTrue`: `Spec => []ReportsTrue`, with PBS, or when nothing is paused;
* `LimitIsKept`: `Spec => []LimitKept`;
* `TextAgreesAlways`: `Spec => []TextAgrees`.

Handlers write back rows they copied before they waited, over what others
wrote since. What makes this safe is that the facts a copy was judged by only
grow (`Advance`, proved of every step): jobs are not forgotten and do not come back
from their end, and inputs that are marked stay so until the sub task is started
again. `Fitting` says that a row, in memory, on disk or in a hand, names a job of
its own sub task, submitted after the downloads of its inputs had gone through; `Judging` that whoever is about
to report has the grounds. The condition is the code's: `ReportsTrue` is false with
Slurm when a job can be paused, because `SUSPENDED` is read as a state that is not
known, and that is reported as a failure. `LimitKept` is arithmetic: what `format_duration` writes for PBS, read as
hours, minutes and seconds, is the duration (`FormatParses`), and a number of seconds read as minutes is
no less.

`TextAgrees` says that the parser of the text of `qstat` and that of its JSON read the
same job. The text parser is a fold over the lines: the proof has the fold as a sequence
of jobs, each read from the one before and one line (`LineByLine`), and goes through the
nine lines that are read of what qstat writes of a job, in every state it can be in (`TextIsJob`).

`TaskProofs`, about `Usecase`, for any packages and whatever their slots are given, from
`PackagesAssumption` and `GivensAssumption`:

* `SettledByThen`: `Spec => []UsecaseInv`;
* `CollectedThere`: `Spec => []CollectedWhereWritten`;
* `NamedDelivered`: `Spec => []NamedFilesDelivered`;
* `PublishedRunsAlways`: `Spec => []PublishedRuns`;
* `PreviewToldAlways`: `Spec => []PreviewTold`;
* `HolesFilledInOrder`: `Spec => []HolesInOrder`.

The inductive invariant `UsecaseInv` carries what was checked from the step that checks it to the
step that relies on it: that the validation ended well (`ValidInv`), that the node is that of
the package (`NodeInv`), that a slot holds what the draft's validation lets pass (`GivenInv`) and that
the task is that of all these (`TaskInv`). What remains is about definitions: that
every unwrap of `parse_task` finds what one of the checks of `validate_package`
looked for (`PublishedRuns`); that a path is mounted once for who names it and who delivers
it. What no check looks for is named in the property: the metadata (`named`), and the rest in
`Unlooked`, of which `DistinctSlots` says that no two slots of a package have one descriptor, by
which both functions look slots up. `PreviewTold` rests on the place of a sort being decided by
the first mount on it, so that flags, which are mounted in front, change no place but
their own. `HolesInOrder`: the code replaces the first hole that is left, again and
again, in the order of the numbers. After `n` of these, the `n` first holes are filled by the values of the
`n` smallest numbers, whichever these are (`Rank`),
and the others still stand, because no value has a hole of its own; that is an
induction along the format.

`TaskProofs`, about `Draft`, for any drafts, from `DraftsAssumption`:

* `AcceptedRunsAlways`: `DraftSpec => []AcceptedRuns`;
* `RowsMatchTasksAlways`: `DraftSpec => []RowsMatchTasks`;
* `SubOutputsTakenAlways`: `DraftSpec => []SubOutputsTaken`;
* `EveryCombinationAlways`: `DraftSpec => []EveryCombination`.

`DraftInv` says that an instance, whoever holds it, keeps the contents of the slots no
node feeds (`InstancesInv`), and what the draft went through to be where it is. For
`AcceptedRuns` the rest is the validation: an OriginalBatch is never accepted
(section 4), a FromBatchOutputs has its relation, and with unique descriptors a required
slot that is empty is fed by a relation to its own node.

`BatchInv` follows the batches. `CountInv`: the rows are those that were counted, and the counts
exist at all. The recursion of `sub_node_count` runs along the relations, so that its
result is shown to exist for a largest set of nodes that is closed under
dependency, which leaves no node out since the draft has no circle (`CountExists`). `SoundInv`: any
instance has what nothing changes. `SavedInv`: while no handler overtakes another, the
instance that is read holds, for each node that is scheduled, the outputs its
sub nodes made (`Made`), as many as were counted. `DoneInv`: a scheduled node got the tasks the properties ask for.
A node is scheduled after those it depends on, so each of its strategies
finds as many inputs as were counted for it, all different (`InputsCounted`), and joining them strategy by
strategy makes as many combinations as their product, no two alike (`CombinationsGood`).

What the code accepts and should not is excepted in the properties, node by node: a slot with two
strategies, of which the second takes the place of the first (`EveryCombination`, at that
node), nodes that have no rows because a strategy fills nothing (`RowsMatchTasks` then asks for
their own task alone), a slot fed twice (`FedOnce`), descriptors used by two nodes (`UniqueSlots`), and a
handler that reads an instance which the one ahead has not saved yet (`overtaken`), as hazard
`schedule.rs:242` has it.

`FoldLemmas` is what induction over data rests on. The library states induction with an
operator as parameter, which the provers cannot instantiate. Here a property is given as the set of
what has it, and induction is then a statement about sets: of what lacks the
property some is smallest (`LeastNatural`, from the well-foundedness of `<`;
`SmallestSet`). From it come that a fold is what its equation says (`FoldExists`, `FoldUnique`), that a fold from the
left goes through the elements one by one (`LeftFoldIterates`), what `FlattenSeq` joins
(`FlattenJoins`, `FlattenApart`) and what `ReplaceFirstSubSeq` leaves (`Replaced`).

Only model-checked: the liveness properties `EventuallyAllFinished`, `EventuallyCharged`,
`EventuallyAnswered`, `EventuallyStored` and `EventuallyReported`. Liveness under
fairness is beyond the prover. All other properties of the passing runs are proved, under the
conditions named above.

## 6. Plan

1. `RunJob` shown to be what `TaskScheduler` takes a use case for, and
   `TaskScheduler` what `Post` of the engine takes an agent for.
2. The order of the two steps of an enqueued deployment, and of the row rewritten
   with a failed reason.
3. Proofs: an order for a task that is started twice, or paused and continued.

## 7. Not modelled

* *Realtime view and websockets.* The side that answers, in the agent, is not in the
  repository, so nothing can be said of a request beyond its being sent; see the
  end of section 4.
* *Whole-file upload, downloads, ranges, archives, listings.* They read, or write one
  object, and keep no state of their own.
* *Blocks of a transfer, ssh, file copies.* Only that a transfer ends, fails, or is
  repeated is modelled; what was found in the blocks is in section 4.
* *The generation of MatchRegex texts and files*, the TOML and archives of packages, the WASM
  bindings, the accounting values of the cluster clients other than those parsed in `AgentText`.
* *Resource reports, login and tokens, the subscription of web hooks, dependency
  injection, telemetry, configuration*: a periodic post, thin wrappers and plumbing.
