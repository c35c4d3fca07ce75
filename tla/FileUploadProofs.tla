--------------------------- MODULE FileUploadProofs ---------------------------
(* Proofs about FileUpload, for any uploads, ids, hashes, parts, handlers    *)
(* and bounds: the type invariant, together with the role of every process   *)
(* (which upload it serves, what it still has to do and who may do it), the  *)
(* fact that the later proofs build on; then the safety properties.          *)
EXTENDS FileUpload, TLAPS

-----------------------------------------------------------------------------
(* The inductive invariant.                                                 *)

\* The steps of a prepare request ...
Preparing == {"flash", "flashDisk", "flashSnapshot", "sameHash", "sameId", "insert", "register"}

\* ... of the removal of a finished or cancelled upload ...
Dropping == {"dropRecord", "dropDir", "dropRegs"}

\* ... of the other requests about an upload ...
Serving == {"writePart", "readRecord", "saveRecord", "gather", "writeNormal", "removeDir",
            "readFailing", "setFailed", "readMoves", "move", "addSnapshot"} \cup Dropping

\* ... of the runner ...
Moving == {"runRead", "runUpload", "runMeta", "runDisk", "runNormal", "runFailed"}

\* ... and of the removal of a snapshot.
Deleting == {"snapLook", "snapFile"}

\* Uploads whose sender was told where to send parts, and those of them that
Prepared(u) == client[u].at \in {"open", "joined"}

\* have a record of their own.
Opened(u) == client[u].at = "open"

\* What a process is about: the upload it prepares, which nobody was told of, or
\* serves, which was prepared; the moves it has to do, all for the id it is
\* about; a move to a snapshot; a snapshot it removes. The runner serves uploads
\* to the storage server only.
Role(x) ==
  /\ x \in Handlers => proc[x].pc \notin Moving
  /\ x = Runner => proc[x].pc \in {"idle"} \cup Moving \cup Dropping /\ proc[x].move = None
  /\ proc[x].pc \in Preparing => proc[x].u \in Uploads /\ client[proc[x].u].at = "asking"
  /\ proc[x].pc \in Serving \cup Moving => proc[x].u \in Uploads /\ Prepared(proc[x].u)
  /\ x = Runner /\ proc[x].pc # "idle" => Opened(proc[x].u) /\ ~ToSnapshot(proc[x].u)
  /\ proc[x].pc \in Deleting <=> proc[x].gone # None
  /\ proc[x].pc = "flashSnapshot" => proc[x].found \in Metas /\ ToSnapshot(proc[x].u)
  /\ proc[x].pc = "flashDisk" => proc[x].found \in Metas
  /\ proc[x].pc \in {"writePart", "readRecord"} => proc[x].part \in Parts
  /\ proc[x].pc \in {"saveRecord", "gather", "writeNormal"} => proc[x].hash \in Hashes
  /\ proc[x].todo # {} \/ proc[x].move # None => proc[x].pc \in Serving
  /\ \A u \in proc[x].todo : Opened(u) /\ Meta(u) = Target(x)
  /\ proc[x].pc = "addSnapshot" => proc[x].move # None
  /\ proc[x].move # None =>
       Opened(proc[x].move) /\ Meta(proc[x].move) = Target(x) /\ ToSnapshot(proc[x].move)

\* Senders of prepared uploads know an id, their own one if they opened the
\* upload; only these are registered, and only moves to storage are queued.
Uploading ==
  /\ \A u \in Uploads : Prepared(u) => client[u].meta \in Metas
  /\ \A u \in Uploads : Opened(u) => client[u].meta = Meta(u)
  /\ \A u \in Uploads : reg[u] # "none" => Opened(u)
  /\ \A i \in DOMAIN queue : Opened(queue[i]) /\ ~ToSnapshot(queue[i])

\* No two processes prepare the same upload.
OnePreparer ==
  \A x, y \in Procs :
    proc[x].pc \in Preparing /\ proc[y].pc \in Preparing /\ proc[x].u = proc[y].u => x = y

\* The inductive invariant, with the types.
Roles == (\A x \in Procs : Role(x)) /\ OnePreparer /\ Uploading

-----------------------------------------------------------------------------
(* Types of what the steps update.                                           *)

\* What an upload is.
LEMMA AskFacts ==
  ASSUME TypeOK, NEW u \in Uploads
  PROVE  Meta(u) \in Metas /\ Hash(u) \in Hashes /\ ToSnapshot(u) \in BOOLEAN
BY DEF TypeOK, AskType, Meta, Hash, ToSnapshot

\* The id a request is about is an id.
LEMMA TargetId ==
  ASSUME TypeOK, Roles, NEW x \in Procs, proc[x].pc \in Serving \cup Moving
  PROVE  /\ Target(x) \in Metas
         /\ Target(x) = client[proc[x].u].meta
         /\ Opened(proc[x].u) => Target(x) = Meta(proc[x].u)
BY ConstantsAssumption DEF Roles, Uploading, Role, Target

\* What a sender may be told.
SenderAt == {"new", "asking", "open", "joined", "flash", "conflict", "error"}

\* What is told to a sender leaves its record one.
LEMMA SenderUpdates ==
  ASSUME NEW r \in Senders
  PROVE  /\ \A a \in SenderAt : [r EXCEPT !.at = a] \in Senders
         /\ \A a \in SenderAt, m \in Metas \cup {None} : [r EXCEPT !.at = a, !.meta = m] \in Senders
         /\ \A s \in SUBSET Parts : [r EXCEPT !.missing = s] \in Senders
         /\ \A t \in BOOLEAN, s \in SUBSET Parts : [r EXCEPT !.told = t, !.missing = s] \in Senders
BY DEF Senders, SenderAt

\* The locals of a process stay locals when a step changes them.
LEMMA LocalsUpdates ==
  ASSUME NEW r \in Locals
  PROVE  /\ \A pc \in Steps : [r EXCEPT !.pc = pc] \in Locals
         /\ \A pc \in Steps, m \in Metas : [r EXCEPT !.pc = pc, !.found = m] \in Locals
         /\ \A pc \in Steps, f \in Files : [r EXCEPT !.pc = pc, !.piece = f] \in Locals
         /\ \A pc \in Steps, h \in Hashes, g \in SUBSET Parts :
                [r EXCEPT !.pc = pc, !.hash = h, !.got = g] \in Locals
         /\ \A pc \in Steps, t \in SUBSET Uploads : [r EXCEPT !.pc = pc, !.todo = t] \in Locals
         /\ \A t \in SUBSET Uploads : [r EXCEPT !.todo = t] \in Locals
         /\ \A pc \in Steps, t \in SUBSET Uploads, u \in Uploads :
                [r EXCEPT !.pc = pc, !.move = u, !.todo = t] \in Locals
<1>1. /\ \A pc \in Steps : [r EXCEPT !.pc = pc] \in Locals
      /\ \A pc \in Steps, m \in Metas : [r EXCEPT !.pc = pc, !.found = m] \in Locals
  BY DEF Locals
<1>2. /\ \A pc \in Steps, f \in Files : [r EXCEPT !.pc = pc, !.piece = f] \in Locals
      /\ \A pc \in Steps, h \in Hashes, g \in SUBSET Parts :
             [r EXCEPT !.pc = pc, !.hash = h, !.got = g] \in Locals
  BY DEF Locals
<1>3. /\ \A pc \in Steps, t \in SUBSET Uploads : [r EXCEPT !.pc = pc, !.todo = t] \in Locals
      /\ \A t \in SUBSET Uploads : [r EXCEPT !.todo = t] \in Locals
  BY DEF Locals
<1>4. \A pc \in Steps, t \in SUBSET Uploads, u \in Uploads :
        [r EXCEPT !.pc = pc, !.move = u, !.todo = t] \in Locals
  BY DEF Locals
<1> QED
  BY <1>1, <1>2, <1>3, <1>4

\* The locals of a process that takes a request.
LEMMA IdleUpdates ==
  /\ Idle \in Locals
  /\ \A pc \in Steps, u \in Uploads : [Idle EXCEPT !.pc = pc, !.u = u] \in Locals
  /\ \A pc \in Steps, u \in Uploads, p \in Parts, f \in Files :
         [Idle EXCEPT !.pc = pc, !.u = u, !.part = p, !.piece = f] \in Locals
  /\ \A pc \in Steps, s \in SnapRecords : [Idle EXCEPT !.pc = pc, !.gone = s] \in Locals
<1>1. Idle \in Locals
  <2>1. "idle" \in Steps /\ None \in Files
    BY DEF Steps, Files
  <2> QED
    BY <2>1 DEF Idle, Locals
<1>2. ASSUME NEW r \in Locals
      PROVE  /\ \A pc \in Steps, u \in Uploads : [r EXCEPT !.pc = pc, !.u = u] \in Locals
             /\ \A pc \in Steps, u \in Uploads, p \in Parts, f \in Files :
                    [r EXCEPT !.pc = pc, !.u = u, !.part = p, !.piece = f] \in Locals
             /\ \A pc \in Steps, s \in SnapRecords : [r EXCEPT !.pc = pc, !.gone = s] \in Locals
  <2>1. \A pc \in Steps, u \in Uploads : [r EXCEPT !.pc = pc, !.u = u] \in Locals
    BY DEF Locals
  <2>2. \A pc \in Steps, u \in Uploads, p \in Parts, f \in Files :
          [r EXCEPT !.pc = pc, !.u = u, !.part = p, !.piece = f] \in Locals
    BY DEF Locals
  <2>3. \A pc \in Steps, s \in SnapRecords : [r EXCEPT !.pc = pc, !.gone = s] \in Locals
    BY DEF Locals
  <2> QED
    BY <2>1, <2>2, <2>3
<1> QED
  BY <1>1, <1>2

\* The counters stay counters.
LEMMA CountersUpdates ==
  ASSUME NEW r \in Counters
  PROVE  /\ [r EXCEPT !.faults = @ + 1] \in Counters
         /\ \A n \in Nat : [r EXCEPT !.extras = @ + n] \in Counters
         /\ \A m \in Metas \cup {None} :
                [r EXCEPT !.faults = @ + 1, !.left = @ \cup {m}] \in Counters
         /\ \A m \in Metas \cup {None} :
                [r EXCEPT !.extras = @ + 1, !.left = @ \cup {m}] \in Counters
         /\ \A m \in Metas : [r EXCEPT !.deletes = @ + 1, !.left = @ \cup {m}] \in Counters
         /\ \A s \in SUBSET Hashes : [r EXCEPT !.snaps = @ + 1, !.crossed = s] \in Counters
         /\ \A s \in SUBSET Hashes : [r EXCEPT !.crossed = s] \in Counters
<1>1. ASSUME NEW n \in Nat, NEW k \in SUBSET (Metas \cup {None})
      PROVE  /\ [r EXCEPT !.faults = n] \in Counters
             /\ [r EXCEPT !.extras = n] \in Counters
             /\ [r EXCEPT !.faults = n, !.left = k] \in Counters
             /\ [r EXCEPT !.extras = n, !.left = k] \in Counters
             /\ [r EXCEPT !.deletes = n, !.left = k] \in Counters
  BY DEF Counters
<1>2. ASSUME NEW n \in Nat, NEW s \in SUBSET Hashes
      PROVE  /\ [r EXCEPT !.snaps = n, !.crossed = s] \in Counters
             /\ [r EXCEPT !.crossed = s] \in Counters
  BY DEF Counters
<1>3. /\ r.faults \in Nat /\ r.extras \in Nat /\ r.deletes \in Nat /\ r.snaps \in Nat
      /\ r.left \in SUBSET (Metas \cup {None})
  BY DEF Counters
<1>4. r.faults + 1 \in Nat /\ r.extras + 1 \in Nat /\ r.deletes + 1 \in Nat /\
          r.snaps + 1 \in Nat /\ \A n \in Nat : r.extras + n \in Nat
  BY <1>3
<1>5. \A m \in Metas \cup {None} : r.left \cup {m} \in SUBSET (Metas \cup {None})
  BY <1>3
<1> QED BY <1>1, <1>2, <1>4, <1>5

\* Before any request: every process keeps to its role.
LEMMA InitRoles == Init => TypeOK /\ Roles
<1> SUFFICES ASSUME Init PROVE TypeOK /\ Roles
  OBVIOUS
<1>1. asks \in AskType
  BY ConstantsAssumption DEF Init
<1>2. TypeOK
  <2>1. client \in [Uploads -> Senders]
    BY <1>1 DEF Init, Senders, AskType
  <2>2. multipart \in [Metas \X Hashes -> Records] /\ used \in Counters
    BY DEF Init, NoRecord, Records, Counters
  <2>3. proc \in [Procs -> Locals]
    BY IdleUpdates DEF Init
  <2>4. queue \in Seq(Uploads)
    BY DEF Init
  <2> QED
    BY <1>1, <2>1, <2>2, <2>3, <2>4 DEF Init, TypeOK, Files
<1>3. Roles
  BY ConstantsAssumption, <1>1
     DEF Init, Roles, Uploading, OnePreparer, Role, Idle, Preparing, Serving, Moving, Dropping,
         Deleting, Procs, Prepared, Opened
<1> QED BY <1>2, <1>3

\* The names of steps.
LEMMA StepNames ==
  \A pc \in Preparing \cup Serving \cup Moving \cup Deleting \cup {"idle"} : pc \in Steps
BY DEF Steps, Preparing, Serving, Moving, Deleting, Dropping

\* The locals of one process.
LEMMA LocalTypes ==
  ASSUME TypeOK, NEW x \in Procs
  PROVE  /\ proc \in [Procs -> Locals] /\ proc[x] \in Locals
         /\ proc[x].pc \in Steps
         /\ proc[x].u \in Uploads \cup {None} /\ proc[x].part \in Parts \cup {None}
         /\ proc[x].piece \in Files /\ proc[x].hash \in Hashes \cup {None}
         /\ proc[x].got \in SUBSET Parts /\ proc[x].found \in Metas \cup {None}
         /\ proc[x].todo \in SUBSET Uploads /\ proc[x].move \in Uploads \cup {None}
         /\ proc[x].gone \in SnapRecords \cup {None}
<1>1. proc[x] \in Locals
  BY DEF TypeOK
<1> QED
  BY <1>1 DEF TypeOK, Locals

\* The entries of an upload in the net disk.
Entered == [moved : Nat, linked : Nat]

\* Entries are counted.
LEMMA EnteredUpdates ==
  ASSUME NEW r \in Entered
  PROVE  [r EXCEPT !.moved = @ + 1] \in Entered /\ [r EXCEPT !.linked = @ + 1] \in Entered
BY DEF Entered

\* The net disk after an entry.
LEMMA DiskType ==
  ASSUME TypeOK, NEW u,
         \/ disk' = [disk EXCEPT ![u].moved = @ + 1]
         \/ disk' = [disk EXCEPT ![u].linked = @ + 1]
  PROVE  disk' \in [Uploads -> [moved : Nat, linked : Nat]]
<1>1. disk \in [Uploads -> Entered]
  BY DEF TypeOK, Entered
<1>2. disk' \in [Uploads -> Entered]
  BY <1>1, EnteredUpdates
<1> QED
  BY <1>2 DEF Entered

\* The records after one is removed or expires.
LEMMA RecordType ==
  ASSUME TypeOK, NEW m, NEW h, multipart' = [multipart EXCEPT ![<<m, h>>] = NoRecord]
  PROVE  multipart' \in [Metas \X Hashes -> Records]
<1>1. NoRecord \in Records
  BY DEF NoRecord, Records
<1> QED
  BY <1>1 DEF TypeOK

\* Files after one of them is written.
LEMMA FilesType ==
  ASSUME TypeOK, NEW m, NEW c \in Files
  PROVE  /\ [normal EXCEPT ![m] = c] \in [Metas -> Files]
         /\ [snapfile EXCEPT ![m] = c] \in [Metas -> Files]
         /\ [metas EXCEPT ![m] = c] \in [Metas -> Files]
         /\ \A n \in Metas : normal[n] \in Files
BY DEF TypeOK

\* The senders after one is told what is missing.
LEMMA MissingType ==
  ASSUME TypeOK, NEW u, NEW s \in SUBSET Parts,
         client' = [client EXCEPT ![u].missing = s]
  PROVE  client' \in [Uploads -> Senders]
BY SenderUpdates DEF TypeOK

\* Parts that are missing are parts.
LEMMA PartsType ==
  ASSUME TypeOK, NEW b, NEW s
  PROVE  (IF b THEN {} ELSE asks.parts \ s) \in SUBSET Parts
BY DEF TypeOK, AskType

\* The processes after one takes new locals,
LEMMA LocalType ==
  ASSUME TypeOK, NEW x \in Procs, NEW r \in Locals, proc' = [proc EXCEPT ![x] = r]
  PROVE  proc' \in [Procs -> Locals]
BY DEF TypeOK

\* ... goes on to a step,
LEMMA GotoType ==
  ASSUME TypeOK, NEW x \in Procs, NEW pc \in Steps, Goto(x, pc)
  PROVE  proc' \in [Procs -> Locals]
BY LocalsUpdates DEF TypeOK, Goto

\* ... or returns.
LEMMA ReturnType ==
  ASSUME TypeOK, NEW x \in Procs, Return(x)
  PROVE  proc' \in [Procs -> Locals]
BY IdleUpdates DEF TypeOK, Return

\* The senders after an answer.
LEMMA AnswerType ==
  ASSUME TypeOK, NEW x \in Procs, NEW at \in SenderAt, NEW m \in Metas \cup {None}, Answer(x, at, m)
  PROVE  client' \in [Uploads -> Senders]
BY SenderUpdates DEF TypeOK, Answer

\* The snapshots and the counters after a snapshot is recorded.
LEMMA NewSnapshotType ==
  ASSUME TypeOK, NEW m \in Metas, NEW h \in Hashes, NewSnapshot(m, h)
  PROVE  snaps' \subseteq SnapRecords /\ used' \in Counters
<1>1. used \in Counters /\ used.snaps \in Nat /\ used.crossed \in SUBSET Hashes
  BY DEF TypeOK, Counters
<1>2. [id |-> used.snaps, meta |-> m, hash |-> h] \in SnapRecords
  BY <1>1 DEF SnapRecords
<1>3. used.crossed \cup {h} \in SUBSET Hashes
  BY <1>1
<1>4. (IF Removing(h) = {} THEN used.crossed ELSE used.crossed \cup {h}) \in SUBSET Hashes
  BY <1>1, <1>3
<1>5. used' \in Counters
  BY <1>1, <1>4, CountersUpdates DEF NewSnapshot
<1> QED
  BY <1>2, <1>5 DEF NewSnapshot, TypeOK

-----------------------------------------------------------------------------
(* Every step keeps the types.                                               *)

\* A prepare request is taken: the types stay.
LEMMA PrepareTypes ==
  ASSUME TypeOK, Roles, NEW x \in Handlers, NEW u \in Uploads, Prepare(x, u)
  PROVE  TypeOK'
<1>0. x \in Procs
  BY DEF Procs
<1>1. proc' \in [Procs -> Locals]
  BY <1>0, IdleUpdates, StepNames DEF Preparing, Prepare, TypeOK
<1>2. client' \in [Uploads -> Senders]
  BY <1>0, SenderUpdates DEF SenderAt, Prepare, TypeOK
<1> QED
  BY <1>1, <1>2 DEF Prepare, TypeOK, redis, cache, db

\* A file with the hash is looked for: the types stay.
LEMMA FlashTypes ==
  ASSUME TypeOK, Roles, NEW x \in Handlers, Flash(x)
  PROVE  TypeOK'
<1>0. x \in Procs
  BY DEF Procs
<1>1. proc' \in [Procs -> Locals]
  <2>1. CASE Goto(x, "sameHash")
    BY <1>0, <2>1, StepNames, GotoType DEF Preparing
  <2>2. CASE \E m \in Metas : proc' = [proc EXCEPT ![x].pc = "flashDisk", ![x].found = m]
    <3>1. PICK m \in Metas : proc' = [proc EXCEPT ![x].pc = "flashDisk", ![x].found = m]
      BY <2>2
    <3>2. [proc[x] EXCEPT !.pc = "flashDisk", !.found = m] \in Locals
      BY <1>0, LocalTypes, LocalsUpdates, StepNames DEF Preparing
    <3> QED
      BY <1>0, <3>1, <3>2 DEF TypeOK
  <2>3. CASE \E s \in snaps : proc' = [proc EXCEPT ![x].pc = "flashSnapshot", ![x].found = s.meta]
    <3>1. \A s \in snaps : s.meta \in Metas
      BY DEF TypeOK, SnapRecords
    <3>2. PICK s \in snaps : proc' = [proc EXCEPT ![x].pc = "flashSnapshot", ![x].found = s.meta]
      BY <2>3
    <3>3. [proc[x] EXCEPT !.pc = "flashSnapshot", !.found = s.meta] \in Locals
      BY <1>0, <3>1, LocalTypes, LocalsUpdates, StepNames DEF Preparing
    <3> QED
      BY <1>0, <3>2, <3>3 DEF TypeOK
  <2> QED
    BY <2>1, <2>2, <2>3 DEF Flash
<1> QED
  BY <1>1 DEF Flash, TypeOK, redis, cache, db

\* A flash upload enters a file in the net disk: the types stay.
LEMMA FlashDiskTypes ==
  ASSUME TypeOK, Roles, NEW x \in Handlers, FlashDisk(x)
  PROVE  TypeOK'
<1>0. x \in Procs
  BY DEF Procs
<1>1. proc' \in [Procs -> Locals]
  BY <1>0, ReturnType DEF FlashDisk, TypeOK
<1>2. client' \in [Uploads -> Senders]
  BY <1>0, AnswerType, LocalTypes DEF SenderAt, FlashDisk, TypeOK
<1>3. disk' \in [Uploads -> [moved : Nat, linked : Nat]]
  BY DiskType DEF FlashDisk
<1> QED
  BY <1>1, <1>2, <1>3 DEF FlashDisk, TypeOK, redis, cache, db

\* A flash upload makes a snapshot: the types stay.
LEMMA FlashSnapshotTypes ==
  ASSUME TypeOK, Roles, NEW x \in Handlers, FlashSnapshot(x)
  PROVE  TypeOK'
<1>0. x \in Procs
  BY DEF Procs
<1>1. proc' \in [Procs -> Locals]
  BY <1>0, ReturnType DEF FlashSnapshot, TypeOK
<1>2. client' \in [Uploads -> Senders]
  BY <1>0, AnswerType, LocalTypes DEF SenderAt, FlashSnapshot, TypeOK
<1>3. snaps' \subseteq SnapRecords /\ used' \in Counters
  BY <1>0, NewSnapshotType, LocalTypes, AskFacts
     DEF Roles, Role, Preparing, At, FlashSnapshot, TypeOK
<1> QED
  BY <1>1, <1>2, <1>3 DEF FlashSnapshot, TypeOK, redis, cache, db

\* A cancellation is taken: the types stay.
LEMMA CancelTypes ==
  ASSUME TypeOK, Roles, NEW x \in Handlers, NEW u \in Uploads, Cancel(x, u)
  PROVE  TypeOK'
<1>0. x \in Procs
  BY DEF Procs
<1>1. proc' \in [Procs -> Locals]
  BY <1>0, IdleUpdates, StepNames DEF Serving, Dropping, Cancel, TypeOK
<1>2. used' \in Counters
  BY <1>0, CountersUpdates DEF Senders, Cancel, TypeOK
<1> QED
  BY <1>1, <1>2 DEF Cancel, TypeOK, redis, cache, db

\* A retry is taken: the types stay.
LEMMA RetryTypes ==
  ASSUME TypeOK, Roles, NEW x \in Handlers, NEW u \in Uploads, Retry(x, u)
  PROVE  TypeOK'
<1>0. x \in Procs
  BY DEF Procs
<1>1. proc' \in [Procs -> Locals]
  BY <1>0, IdleUpdates, StepNames DEF Serving, Retry, TypeOK
<1>2. used' \in Counters
  BY <1>0, CountersUpdates DEF Retry, TypeOK
<1> QED
  BY <1>1, <1>2 DEF Retry, TypeOK, redis, cache, db

\* A part is sent: the types stay.
LEMMA SendTypes ==
  ASSUME TypeOK, Roles, NEW x \in Handlers, NEW u \in Uploads,
             NEW p \in asks.parts, NEW piece \in Hashes \cup {Bad}, Send(x, u, p, piece)
  PROVE  TypeOK'
<1>0. x \in Procs
  BY DEF Procs
<1>1. proc' \in [Procs -> Locals]
  BY <1>0, IdleUpdates, StepNames DEF Serving, Files, AskType, Send, TypeOK
<1>2. used' \in Counters
  BY <1>0, CountersUpdates DEF Send, TypeOK
<1> QED
  BY <1>1, <1>2 DEF Send, TypeOK, redis, cache, db

\* A record of the same hash is joined: the types stay.
LEMMA SameHashTypes ==
  ASSUME TypeOK, Roles, NEW x \in Handlers, SameHash(x)
  PROVE  TypeOK'
<1>0. x \in Procs
  BY DEF Procs
<1>1. proc' \in [Procs -> Locals]
  BY <1>0, ReturnType, GotoType, StepNames DEF Preparing, SameHash, TypeOK
<1>2. client' \in [Uploads -> Senders]
  BY <1>0, AnswerType DEF SenderAt, SameHash, TypeOK
<1> QED
  BY <1>1, <1>2 DEF SameHash, TypeOK, redis, cache, db

\* A record of another hash is a conflict: the types stay.
LEMMA SameIdTypes ==
  ASSUME TypeOK, Roles, NEW x \in Handlers, SameId(x)
  PROVE  TypeOK'
<1>0. x \in Procs
  BY DEF Procs
<1>1. proc' \in [Procs -> Locals]
  BY <1>0, ReturnType, GotoType, StepNames DEF Preparing, SameId, TypeOK
<1>2. client' \in [Uploads -> Senders]
  BY <1>0, AnswerType DEF SenderAt, SameId, TypeOK
<1> QED
  BY <1>1, <1>2 DEF SameId, TypeOK, redis, cache, db

\* A multipart record is made: the types stay.
LEMMA InsertTypes ==
  ASSUME TypeOK, Roles, NEW x \in Handlers, Insert(x)
  PROVE  TypeOK'
<1>0. x \in Procs
  BY DEF Procs
<1>1. proc' \in [Procs -> Locals]
  BY <1>0, GotoType, StepNames DEF Preparing, Insert, TypeOK
<1>2. multipart' \in [Metas \X Hashes -> Records]
  BY <1>0 DEF Records, Insert, TypeOK
<1> QED
  BY <1>1, <1>2 DEF Insert, TypeOK, redis, cache, db

\* A move is registered: the types stay.
LEMMA RegisterTypes ==
  ASSUME TypeOK, Roles, NEW x \in Handlers, Register(x)
  PROVE  TypeOK'
<1>0. x \in Procs
  BY DEF Procs
<1>1. proc' \in [Procs -> Locals]
  BY <1>0, ReturnType DEF Register, TypeOK
<1>2. client' \in [Uploads -> Senders]
  BY <1>0, AnswerType, AskFacts DEF SenderAt, Roles, Role, Preparing, At, Register, TypeOK
<1>3. reg' \in [Uploads -> {"none", "registered", "failed"}]
  BY <1>0 DEF Register, TypeOK
<1> QED
  BY <1>1, <1>2, <1>3 DEF Register, TypeOK, redis, cache, db

\* A part is written: the types stay.
LEMMA WritePartTypes ==
  ASSUME TypeOK, Roles, NEW x \in Handlers, WritePart(x)
  PROVE  TypeOK'
<1>0. x \in Procs
  BY DEF Procs
<1>1. proc' \in [Procs -> Locals]
  BY <1>0, GotoType, StepNames DEF Serving, WritePart, TypeOK
<1>2. parts' \in [Metas -> [Parts -> Files]]
  BY <1>0, LocalTypes DEF WritePart, TypeOK
<1> QED
  BY <1>1, <1>2 DEF WritePart, TypeOK, redis, cache, db

\* The record is read: the types stay.
LEMMA ReadRecordTypes ==
  ASSUME TypeOK, Roles, NEW x \in Handlers, ReadRecord(x)
  PROVE  TypeOK'
<1>0. x \in Procs
  BY DEF Procs
<1>1. proc' \in [Procs -> Locals]
  <2>1. CASE Return(x)
    BY <1>0, <2>1, ReturnType
  <2>2. ASSUME NEW h \in Hashes,
               proc' = [proc EXCEPT ![x].pc = "saveRecord", ![x].hash = h,
                                    ![x].got = multipart[Target(x), h].got \cup {proc[x].part}]
        PROVE  proc' \in [Procs -> Locals]
    <3>1. multipart[Target(x), h].got \cup {proc[x].part} \in SUBSET Parts
      <4>1. Target(x) \in Metas /\ proc[x].part \in Parts
        BY <1>0, TargetId DEF ReadRecord, At, Serving, Roles, Role
      <4>2. multipart[Target(x), h] \in Records
        BY <4>1 DEF TypeOK
      <4> QED
        BY <4>1, <4>2 DEF Records
    <3> QED
      BY <1>0, <2>2, <3>1, LocalTypes, LocalsUpdates, StepNames DEF Serving
  <2> QED
    BY <2>1, <2>2 DEF ReadRecord, RecordsOf
<1> QED
  BY <1>1 DEF ReadRecord, TypeOK, redis, cache, db

\* The record is written back: the types stay.
LEMMA SaveRecordTypes ==
  ASSUME TypeOK, Roles, NEW x \in Handlers, SaveRecord(x)
  PROVE  TypeOK'
<1>0. x \in Procs
  BY DEF Procs
<1>1. proc' \in [Procs -> Locals]
  BY <1>0, ReturnType, GotoType, StepNames DEF Serving, SaveRecord, TypeOK
<1>2. client' \in [Uploads -> Senders]
  BY MissingType, PartsType DEF SaveRecord, TypeOK
<1>3. multipart' \in [Metas \X Hashes -> Records]
  BY <1>0, LocalTypes DEF SavedRecord, Records, SaveRecord, TypeOK
<1> QED
  BY <1>1, <1>2, <1>3 DEF SaveRecord, TypeOK, redis, cache, db

\* The parts are gathered and compared: the types stay.
LEMMA GatherTypes ==
  ASSUME TypeOK, Roles, NEW x \in Handlers, Gather(x)
  PROVE  TypeOK'
<1>0. x \in Procs
  BY DEF Procs
<1>1. proc' \in [Procs -> Locals]
  <2>1. CASE Return(x)
    BY <1>0, <2>1, ReturnType
  <2>2. CASE Goto(x, "readFailing")
    BY <1>0, <2>2, GotoType, StepNames DEF Serving
  <2>3. CASE proc[x].hash = ContentOf(Target(x)) /\
             proc' = [proc EXCEPT ![x].pc = "writeNormal", ![x].piece = ContentOf(Target(x))]
    <3>1. ContentOf(Target(x)) \in Files
      BY <1>0, <2>3, LocalTypes DEF Files
    <3> QED
      BY <1>0, <2>3, <3>1, LocalTypes, LocalsUpdates, StepNames DEF Serving
  <2> QED
    BY <2>1, <2>2, <2>3 DEF Gather
<1> QED
  BY <1>1 DEF Gather, TypeOK, redis, cache, db

\* The whole file is written: the types stay.
LEMMA WriteNormalTypes ==
  ASSUME TypeOK, Roles, NEW x \in Handlers, WriteNormal(x)
  PROVE  TypeOK'
<1>0. x \in Procs
  BY DEF Procs
<1>1. proc' \in [Procs -> Locals]
  BY <1>0, GotoType, StepNames DEF Serving, WriteNormal, TypeOK
<1>2. normal' \in [Metas -> Files]
  BY <1>0, LocalTypes DEF WriteNormal, TypeOK
<1> QED
  BY <1>1, <1>2 DEF WriteNormal, TypeOK, redis, cache, db

\* The parts are removed: the types stay.
LEMMA RemoveDirTypes ==
  ASSUME TypeOK, Roles, NEW x \in Handlers, RemoveDir(x)
  PROVE  TypeOK'
<1>0. x \in Procs
  BY DEF Procs
<1>1. proc' \in [Procs -> Locals]
  BY <1>0, GotoType, ReturnType, StepNames DEF Serving, RemoveDir, TypeOK
<1>2. parts' \in [Metas -> [Parts -> Files]]
  BY <1>0 DEF RemovedDir, Files, RemoveDir, TypeOK
<1> QED
  BY <1>1, <1>2 DEF RemoveDir, TypeOK, redis, cache, db

\* Moves that fail are read: the types stay.
LEMMA ReadFailingTypes ==
  ASSUME TypeOK, Roles, NEW x \in Handlers, ReadFailing(x)
  PROVE  TypeOK'
<1>0. x \in Procs
  BY DEF Procs
<1>1. proc' \in [Procs -> Locals]
  BY <1>0, LocalTypes, LocalsUpdates, StepNames DEF Serving, RegsOf, ReadFailing, TypeOK
<1> QED
  BY <1>1 DEF ReadFailing, TypeOK, redis, cache, db

\* A move is marked as failed: the types stay.
LEMMA SetFailedTypes ==
  ASSUME TypeOK, Roles, NEW x \in Handlers, SetFailed(x)
  PROVE  TypeOK'
<1>0. x \in Procs
  BY DEF Procs
<1>1. proc' \in [Procs -> Locals]
  <2>1. CASE Return(x)
    BY <1>0, <2>1, ReturnType
  <2>2. CASE \E u \in proc[x].todo : proc' = [proc EXCEPT ![x].todo = @ \ {u}]
    <3>1. PICK u \in proc[x].todo : proc' = [proc EXCEPT ![x].todo = @ \ {u}]
      BY <2>2
    <3>2. proc[x].todo \ {u} \in SUBSET Uploads
      BY <1>0, LocalTypes
    <3>3. [proc[x] EXCEPT !.todo = @ \ {u}] \in Locals
      BY <1>0, <3>2, LocalTypes, LocalsUpdates
    <3> QED
      BY <1>0, <3>1, <3>3 DEF TypeOK
  <2> QED
    BY <2>1, <2>2 DEF SetFailed
<1>2. client' \in [Uploads -> Senders]
  <2>1. (IF client[proc[x].u].told THEN {} ELSE asks.parts) \in SUBSET Parts
    BY DEF TypeOK, AskType
  <2> QED
    BY <2>1, MissingType DEF SetFailed, TypeOK
<1>3. reg' \in [Uploads -> {"none", "registered", "failed"}]
  BY <1>0 DEF SetFailed, TypeOK
<1> QED
  BY <1>1, <1>2, <1>3 DEF SetFailed, TypeOK, redis, cache, db

\* The moves are read: the types stay.
LEMMA ReadMovesTypes ==
  ASSUME TypeOK, Roles, NEW x \in Handlers, ReadMoves(x)
  PROVE  TypeOK'
<1>0. x \in Procs
  BY DEF Procs
<1>1. proc' \in [Procs -> Locals]
  BY <1>0, LocalTypes, LocalsUpdates, StepNames DEF Serving, RegsOf, ReadMoves, TypeOK
<1> QED
  BY <1>1 DEF ReadMoves, TypeOK, redis, cache, db

\* No move is left: the types stay.
LEMMA MovesDoneTypes ==
  ASSUME TypeOK, Roles, NEW x \in Handlers, MovesDone(x)
  PROVE  TypeOK'
<1>0. x \in Procs
  BY DEF Procs
<1>1. proc' \in [Procs -> Locals]
  BY <1>0, ReturnType DEF MovesDone, TypeOK
<1>2. client' \in [Uploads -> Senders]
  BY <1>0, SenderUpdates DEF MovesDone, TypeOK
<1> QED
  BY <1>1, <1>2 DEF MovesDone, TypeOK, redis, cache, db

\* A move is queued: the types stay.
LEMMA MoveToStorageTypes ==
  ASSUME TypeOK, Roles, NEW x \in Handlers, MoveToStorage(x)
  PROVE  TypeOK'
<1>0. x \in Procs
  BY DEF Procs
<1>1. proc' \in [Procs -> Locals]
  <2>1. CASE Return(x)
    BY <1>0, <2>1, ReturnType
  <2>2. CASE \E u \in proc[x].todo : proc' = [proc EXCEPT ![x].todo = @ \ {u}]
    <3>1. PICK u \in proc[x].todo : proc' = [proc EXCEPT ![x].todo = @ \ {u}]
      BY <2>2
    <3>2. proc[x].todo \ {u} \in SUBSET Uploads
      BY <1>0, LocalTypes
    <3>3. [proc[x] EXCEPT !.todo = @ \ {u}] \in Locals
      BY <1>0, <3>2, LocalTypes, LocalsUpdates
    <3> QED
      BY <1>0, <3>1, <3>3 DEF TypeOK
  <2> QED
    BY <2>1, <2>2 DEF MoveToStorage
<1>2. queue' \in Seq(Uploads)
  <2>1. queue \in Seq(Uploads) /\ proc[x].todo \subseteq Uploads
    BY <1>0, LocalTypes DEF TypeOK
  <2> QED
    BY <2>1 DEF MoveToStorage
<1> QED
  BY <1>1, <1>2 DEF MoveToStorage, TypeOK, redis, cache, db

\* A file becomes the file of a snapshot: the types stay.
LEMMA MoveToSnapshotTypes ==
  ASSUME TypeOK, Roles, NEW x \in Handlers, MoveToSnapshot(x)
  PROVE  TypeOK'
<1>0. x \in Procs
  BY DEF Procs
<1>1. proc' \in [Procs -> Locals]
  <2>1. CASE Return(x)
    BY <1>0, <2>1, ReturnType
  <2>2. CASE \E u \in proc[x].todo :
               proc' = [proc EXCEPT ![x].pc = "addSnapshot", ![x].move = u, ![x].todo = @ \ {u}]
    <3>1. PICK u \in proc[x].todo :
            proc' = [proc EXCEPT ![x].pc = "addSnapshot", ![x].move = u, ![x].todo = @ \ {u}]
      BY <2>2
    <3>2. proc[x].todo \ {u} \in SUBSET Uploads /\ u \in Uploads
      BY <1>0, LocalTypes
    <3>3. [proc[x] EXCEPT !.pc = "addSnapshot", !.move = u, !.todo = @ \ {u}] \in Locals
      BY <1>0, <3>2, LocalTypes, LocalsUpdates, StepNames DEF Serving
    <3> QED
      BY <1>0, <3>1, <3>3 DEF TypeOK
  <2> QED
    BY <2>1, <2>2 DEF MoveToSnapshot
<1>2. normal' \in [Metas -> Files]
  <2>1. None \in Files
    BY DEF Files
  <2> QED
    BY <2>1, FilesType DEF MoveToSnapshot, TypeOK, cache
<1>3. snapfile' \in [Metas -> Files]
  <2>1. At(x, "move") => Target(x) \in Metas
    BY <1>0, TargetId DEF At, Serving
  <2> QED
    BY <2>1, FilesType DEF MoveToSnapshot, TypeOK, cache
<1> QED
  BY <1>1, <1>2, <1>3 DEF MoveToSnapshot, TypeOK, redis, cache, db

\* A snapshot is recorded: the types stay.
LEMMA AddSnapshotTypes ==
  ASSUME TypeOK, Roles, NEW x \in Handlers, AddSnapshot(x)
  PROVE  TypeOK'
<1>0. x \in Procs
  BY DEF Procs
<1>1. proc' \in [Procs -> Locals]
  BY <1>0, GotoType, StepNames DEF Serving, Dropping, AddSnapshot, TypeOK
<1>2. snaps' \subseteq SnapRecords /\ used' \in Counters
  BY <1>0, NewSnapshotType, LocalTypes, AskFacts, TargetId
     DEF Roles, Role, Serving, At, AddSnapshot, TypeOK
<1> QED
  BY <1>1, <1>2 DEF AddSnapshot, TypeOK, redis, cache, db

\* The record is removed: the types stay.
LEMMA DropRecordTypes ==
  ASSUME TypeOK, Roles, NEW x \in Procs, DropRecord(x)
  PROVE  TypeOK'
<1>1. proc' \in [Procs -> Locals]
  BY GotoType, ReturnType, StepNames DEF Serving, Dropping, DropRecord, TypeOK
<1>2. multipart' \in [Metas \X Hashes -> Records]
  BY RecordType DEF DropRecord, TypeOK
<1> QED
  BY <1>1, <1>2 DEF DropRecord, TypeOK, redis, cache, db

\* The parts are dropped: the types stay.
LEMMA DropDirTypes ==
  ASSUME TypeOK, Roles, NEW x \in Procs, DropDir(x)
  PROVE  TypeOK'
<1>1. proc' \in [Procs -> Locals]
  BY GotoType, StepNames DEF Serving, Dropping, DropDir, TypeOK
<1>2. parts' \in [Metas -> [Parts -> Files]]
  BY DEF RemovedDir, Files, DropDir, TypeOK
<1> QED
  BY <1>1, <1>2 DEF DropDir, TypeOK, redis, cache, db

\* The registrations are removed: the types stay.
LEMMA DropRegsTypes ==
  ASSUME TypeOK, Roles, NEW x \in Procs, DropRegs(x)
  PROVE  TypeOK'
<1>1. proc' \in [Procs -> Locals]
  BY GotoType, ReturnType, StepNames DEF Serving, DropRegs, TypeOK
<1>2. reg' \in [Uploads -> {"none", "registered", "failed"}]
  BY DEF DropRegs, TypeOK
<1> QED
  BY <1>1, <1>2 DEF DropRegs, TypeOK, redis, cache, db

\* Other snapshots of the hash are looked for: the types stay.
LEMMA DeleteLookTypes ==
  ASSUME TypeOK, Roles, NEW x \in Handlers, DeleteLook(x)
  PROVE  TypeOK'
<1>0. x \in Procs
  BY DEF Procs
<1>1. proc' \in [Procs -> Locals]
  BY <1>0, GotoType, ReturnType, StepNames DEF Deleting, DeleteLook, TypeOK
<1> QED
  BY <1>1 DEF DeleteLook, TypeOK, redis, cache, db

\* The file of a snapshot is removed: the types stay.
LEMMA DeleteFileTypes ==
  ASSUME TypeOK, Roles, NEW x \in Handlers, DeleteFile(x)
  PROVE  TypeOK'
<1>0. x \in Procs
  BY DEF Procs
<1>1. proc' \in [Procs -> Locals]
  BY <1>0, ReturnType DEF DeleteFile, TypeOK
<1>2. snapfile' \in [Metas -> Files]
  BY <1>0 DEF Files, DeleteFile, TypeOK
<1>3. used' \in Counters
  <2>1. proc[x].gone \in SnapRecords
    BY <1>0, LocalTypes DEF DeleteFile, At, Roles, Role, Deleting
  <2>2. proc[x].gone.hash \in Hashes
    BY <2>1 DEF SnapRecords
  <2>3. used \in Counters /\ used.crossed \in SUBSET Hashes
    BY DEF TypeOK, Counters
  <2>4. (IF Making(proc[x].gone.hash) = {} THEN used.crossed
         ELSE used.crossed \cup {proc[x].gone.hash}) \in SUBSET Hashes
    BY <2>2, <2>3
  <2> QED
    BY <2>3, <2>4, CountersUpdates DEF DeleteFile
<1> QED
  BY <1>1, <1>2, <1>3 DEF DeleteFile, TypeOK, redis, cache, db

\* A removal of a snapshot is taken: the types stay.
LEMMA DeleteTypes ==
  ASSUME TypeOK, Roles, NEW x \in Handlers, NEW s \in snaps, Delete(x, s)
  PROVE  TypeOK'
<1>0. x \in Procs
  BY DEF Procs
<1>1. proc' \in [Procs -> Locals]
  BY <1>0, IdleUpdates, StepNames DEF Deleting, Delete, TypeOK
<1>2. snaps' \subseteq SnapRecords
  BY <1>0 DEF Delete, TypeOK
<1>3. used' \in Counters
  BY <1>0, CountersUpdates DEF SnapRecords, Delete, TypeOK
<1> QED
  BY <1>1, <1>2, <1>3 DEF Delete, TypeOK, redis, cache, db

\* The runner takes a command: the types stay.
LEMMA TakeTypes ==
  ASSUME TypeOK, Roles, Take
  PROVE  TypeOK'
<1>0. Runner \in Procs
  BY DEF Procs
<1>1. proc' \in [Procs -> Locals]
  <2>1. Head(queue) \in Uploads
    BY DEF Take, TypeOK
  <2>2. [Idle EXCEPT !.pc = "runRead", !.u = Head(queue)] \in Locals
    BY <2>1, IdleUpdates, StepNames DEF Moving
  <2> QED
    BY <1>0, <2>2, LocalType DEF Take, TypeOK
<1>2. queue' \in Seq(Uploads)
  BY <1>0 DEF Take, TypeOK
<1> QED
  BY <1>1, <1>2 DEF Take, TypeOK, redis, cache, db

\* The runner reads the file: the types stay.
LEMMA RunReadTypes ==
  ASSUME TypeOK, Roles, RunRead
  PROVE  TypeOK'
<1>0. Runner \in Procs
  BY DEF Procs
<1>1. proc' \in [Procs -> Locals]
  <2>1. CASE Return(Runner)
    BY <1>0, <2>1, ReturnType
  <2>2. CASE proc' = [proc EXCEPT ![Runner].pc = "runUpload", ![Runner].piece = normal[Mine]]
             /\ At(Runner, "runRead")
    <3>1. Mine \in Metas
      BY <1>0, <2>2, AskFacts DEF Mine, At, Roles, Role, Moving
    <3>2. normal[Mine] \in Files
      BY <3>1, FilesType DEF Files
    <3> QED
      BY <1>0, <2>2, <3>2, LocalTypes, LocalsUpdates, StepNames DEF Moving
  <2> QED
    BY <2>1, <2>2 DEF RunRead
<1> QED
  BY <1>1 DEF RunRead, TypeOK, redis, cache, db

\* The runner stores the object: the types stay.
LEMMA RunUploadTypes ==
  ASSUME TypeOK, Roles, RunUpload
  PROVE  TypeOK'
<1>0. Runner \in Procs
  BY DEF Procs
<1>1. proc' \in [Procs -> Locals]
  BY <1>0, GotoType, StepNames DEF Moving, RunUpload, TypeOK
<1>2. storage' \in [Metas -> Files]
  BY <1>0, LocalTypes DEF RunUpload, TypeOK
<1> QED
  BY <1>1, <1>2 DEF RunUpload, TypeOK, redis, cache, db

\* The storage server refuses: the types stay.
LEMMA RunRefusedTypes ==
  ASSUME TypeOK, Roles, RunRefused
  PROVE  TypeOK'
<1>0. Runner \in Procs
  BY DEF Procs
<1>1. proc' \in [Procs -> Locals]
  BY <1>0, GotoType, StepNames DEF Moving, RunRefused, TypeOK
<1>2. used' \in Counters
  BY <1>0, CountersUpdates DEF RunRefused, TypeOK
<1> QED
  BY <1>1, <1>2 DEF RunRefused, TypeOK, redis, cache, db

\* The runner marks a failed move: the types stay.
LEMMA RunFailedTypes ==
  ASSUME TypeOK, Roles, RunFailed
  PROVE  TypeOK'
<1>0. Runner \in Procs
  BY DEF Procs
<1>1. proc' \in [Procs -> Locals]
  BY <1>0, ReturnType DEF RunFailed, TypeOK
<1>2. reg' \in [Uploads -> {"none", "registered", "failed"}]
  BY <1>0 DEF RunFailed, TypeOK
<1> QED
  BY <1>1, <1>2 DEF RunFailed, TypeOK, redis, cache, db

\* The runner records the file: the types stay.
LEMMA RunMetaTypes ==
  ASSUME TypeOK, Roles, RunMeta
  PROVE  TypeOK'
<1>0. Runner \in Procs
  BY DEF Procs
<1>1. proc' \in [Procs -> Locals]
  BY <1>0, GotoType, ReturnType, StepNames DEF Moving, RunMeta, TypeOK
<1>2. metas' \in [Metas -> Files]
  <2>1. At(Runner, "runMeta") => Hash(proc[Runner].u) \in Files
    BY <1>0, AskFacts DEF Roles, Role, Moving, At, Files
  <2>2. CASE metas' = [metas EXCEPT ![Mine] = Hash(proc[Runner].u)] /\ At(Runner, "runMeta")
    BY <2>1, <2>2, FilesType
  <2> QED
    BY <2>2 DEF RunMeta, TypeOK
<1> QED
  BY <1>1, <1>2 DEF RunMeta, TypeOK, redis, cache, db

\* The runner enters the file: the types stay.
LEMMA RunDiskTypes ==
  ASSUME TypeOK, Roles, RunDisk
  PROVE  TypeOK'
<1>0. Runner \in Procs
  BY DEF Procs
<1>1. proc' \in [Procs -> Locals]
  BY <1>0, GotoType, StepNames DEF Moving, RunDisk, TypeOK
<1>2. disk' \in [Uploads -> [moved : Nat, linked : Nat]]
  BY DiskType DEF RunDisk
<1> QED
  BY <1>1, <1>2 DEF RunDisk, TypeOK, redis, cache, db

\* The runner removes the file of the cache: the types stay.
LEMMA RunNormalTypes ==
  ASSUME TypeOK, Roles, RunNormal
  PROVE  TypeOK'
<1>0. Runner \in Procs
  BY DEF Procs
<1>1. proc' \in [Procs -> Locals]
  BY <1>0, GotoType, ReturnType, StepNames DEF Serving, Dropping, RunNormal, TypeOK
<1>2. normal' \in [Metas -> Files]
  BY <1>0 DEF Files, RunNormal, TypeOK
<1> QED
  BY <1>1, <1>2 DEF RunNormal, TypeOK, redis, cache, db

\* A command fails: the types stay.
LEMMA FailTypes ==
  ASSUME TypeOK, Roles, NEW x \in Procs, Fail(x)
  PROVE  TypeOK'
<1>1. proc' \in [Procs -> Locals]
  BY ReturnType DEF Fail, TypeOK
<1>2. client' \in [Uploads -> Senders]
  BY AnswerType DEF SenderAt, Fail, TypeOK
<1>3. used' \in Counters
  BY CountersUpdates DEF FaultUsed, Fail, TypeOK
<1> QED
  BY <1>1, <1>2, <1>3 DEF Fail, TypeOK, redis, cache, db

\* co restarts: the types stay.
LEMMA CrashTypes ==
  ASSUME TypeOK, Roles, Crash
  PROVE  TypeOK'
<1>1. proc' \in [Procs -> Locals]
  BY IdleUpdates DEF Crash, TypeOK
<1>2. client' \in [Uploads -> Senders]
  BY SenderUpdates DEF SenderAt, Crash, TypeOK
<1>3. used' \in Counters
  BY CountersUpdates DEF FaultUsed, Crash, TypeOK
<1> QED
  BY <1>1, <1>2, <1>3 DEF Crash, TypeOK, redis, cache, db

\* The lease of a record ends: the types stay.
LEMMA ExpireRecordTypes ==
  ASSUME TypeOK, Roles, ExpireRecord
  PROVE  TypeOK'
<1>0. Runner \in Procs
  BY DEF Procs
<1>1. multipart' \in [Metas \X Hashes -> Records]
  BY RecordType DEF ExpireRecord
<1>2. used' \in Counters
  BY <1>0, CountersUpdates DEF FaultUsed, ExpireRecord, TypeOK
<1> QED
  BY <1>1, <1>2 DEF ExpireRecord, TypeOK, redis, cache, db

\* The lease of a registration ends: the types stay.
LEMMA ExpireMoveTypes ==
  ASSUME TypeOK, Roles, ExpireMove
  PROVE  TypeOK'
<1>1. reg' \in [Uploads -> {"none", "registered", "failed"}]
  BY DEF ExpireMove, TypeOK
<1>2. used' \in Counters
  <2>1. ASSUME NEW u \in Uploads,
               used' = [used EXCEPT !.faults = @ + 1, !.left = @ \cup {Meta(u)}]
        PROVE  used' \in Counters
    <3>1. Meta(u) \in Metas \cup {None} /\ used \in Counters
      BY AskFacts DEF TypeOK
    <3> QED
      BY <2>1, <3>1, CountersUpdates
  <2> QED
    BY <2>1 DEF ExpireMove
<1> QED
  BY <1>1, <1>2 DEF ExpireMove, TypeOK, redis, cache, db

-----------------------------------------------------------------------------
(* Roles: steps of one process, seen from the others.                        *)

\* Senders are told no new state and no new id.
SameSenders ==
  /\ asks' = asks
  /\ \A u \in Uploads : client'[u].at = client[u].at /\ client'[u].meta = client[u].meta

\* Senders of prepared uploads are told none.
SendersKept ==
  /\ asks' = asks
  /\ \A u \in Uploads :
       Prepared(u) => client'[u].at = client[u].at /\ client'[u].meta = client[u].meta

\* What is asked does not change.
LEMMA SameAsks ==
  ASSUME asks' = asks, NEW u
  PROVE  Meta(u)' = Meta(u) /\ Hash(u)' = Hash(u) /\ ToSnapshot(u)' = ToSnapshot(u)
BY DEF Meta, Hash, ToSnapshot

\* A process that does not move keeps its role while senders keep theirs.
LEMMA OtherRole ==
  ASSUME TypeOK, Roles, NEW y \in Procs, proc'[y] = proc[y], SendersKept,
         proc[y].pc \in Preparing => client'[proc[y].u].at = "asking"
  PROVE  Role(y)'
<1>1. Role(y)
  BY DEF Roles
<1>2. proc[y].todo \subseteq Uploads /\ proc[y].move \in Uploads \cup {None} /\
          proc[y].u \in Uploads \cup {None}
  BY LocalTypes
<1>3. proc[y].pc \in Serving \cup Moving =>
          Target(y)' = Target(y) /\ Prepared(proc[y].u)' /\ (Opened(proc[y].u) => Opened(proc[y].u)')
  BY <1>1, SameAsks DEF Role, Target, SendersKept, Prepared, Opened
<1>4. \A u \in Uploads : Opened(u) => Opened(u)'
  BY DEF SendersKept, Opened, Prepared
<1>5. \A u : Meta(u)' = Meta(u) /\ ToSnapshot(u)' = ToSnapshot(u)
  BY SameAsks DEF SendersKept
<1>6. Runner # y \/ proc[y].pc = "idle" \/ proc[y].u \in Uploads
  BY <1>1 DEF Role, Serving
<1> QED
  BY <1>1, <1>2, <1>3, <1>4, <1>5, <1>6 DEF Role

\* A step of one process.
LEMMA RolesBuild ==
  ASSUME TypeOK, Roles, NEW x \in Procs, SendersKept,
         \A y \in Procs : y # x => proc'[y] = proc[y],
         \A y \in Procs : y # x /\ proc[y].pc \in Preparing => client'[proc[y].u].at = "asking",
         \A y \in Procs : y # x /\ proc[y].pc \in Preparing /\ proc'[x].pc \in Preparing =>
                            proc[y].u # proc'[x].u,
         Role(x)', Uploading'
  PROVE  Roles'
<1>1. ASSUME NEW y \in Procs PROVE Role(y)'
  <2>1. CASE y = x
    BY <2>1
  <2>2. CASE y # x
    BY <2>2, OtherRole
  <2> QED
    BY <2>1, <2>2
<1>2. OnePreparer'
  BY DEF Roles, OnePreparer, Procs
<1> QED
  BY <1>1, <1>2 DEF Roles, Procs

\* What is known of the uploads stays when senders are told nothing new.
LEMMA UploadingKept ==
  ASSUME TypeOK, Roles, SameSenders,
         \A u \in Uploads : reg'[u] # "none" => reg[u] # "none",
         \A i \in DOMAIN queue' : queue'[i] \in Uploads /\ Opened(queue'[i]) /\
             ~ToSnapshot(queue'[i])
  PROVE  Uploading'
<1>1. \A u : Meta(u)' = Meta(u) /\ ToSnapshot(u)' = ToSnapshot(u)
  BY SameAsks DEF SameSenders
<1> QED
  BY <1>1 DEF Uploading, Roles, Opened, Prepared, SameSenders

\* The queue holds moves to the storage server.
LEMMA QueueFacts ==
  ASSUME TypeOK, Roles
  PROVE  \A i \in DOMAIN queue : queue[i] \in Uploads /\ Opened(queue[i]) /\ ~ToSnapshot(queue[i])
BY DEF TypeOK, Roles, Uploading

\* A process changes its locals only: every process keeps to its role.
LEMMA LocalRoles ==
  ASSUME TypeOK, Roles, NEW x \in Procs, SameSenders, NEW r, proc' = [proc EXCEPT ![x] = r],
         r.pc \in Preparing => proc[x].pc \in Preparing /\ r.u = proc[x].u,
         Role(x)', Uploading'
  PROVE  Roles'
<1>1. SendersKept
  BY DEF SameSenders, SendersKept
<1>2. /\ \A y \in Procs : y # x => proc'[y] = proc[y]
      /\ proc'[x] = r
  BY DEF TypeOK
<1>3. \A y \in Procs : y # x /\ proc[y].pc \in Preparing => client'[proc[y].u].at = "asking"
  BY DEF Roles, Role, SameSenders
<1>4. \A y \in Procs : y # x /\ proc[y].pc \in Preparing /\ proc'[x].pc \in Preparing =>
                            proc[y].u # proc'[x].u
  BY <1>2 DEF Roles, OnePreparer
<1> QED
  BY <1>1, <1>2, <1>3, <1>4, RolesBuild

\* A process that has nothing to do has its role.
LEMMA IdleRole ==
  ASSUME NEW x \in Procs, proc'[x] = Idle
  PROVE  Role(x)'
BY ConstantsAssumption DEF Role, Idle, Procs, Preparing, Serving, Moving, Deleting, Dropping

\* A process that goes on to another step.
LEMMA GotoRole ==
  ASSUME TypeOK, Roles, NEW x \in Procs, NEW pc, Goto(x, pc), SameSenders,
         \/ pc \in Preparing /\ proc[x].pc \in Preparing /\ pc \notin {"flashSnapshot", "flashDisk"}
         \/ pc \in Serving /\ proc[x].pc \in Serving \cup Moving /\ pc # "saveRecord"
         \/ pc \in Moving /\ proc[x].pc \in Moving
         \/ pc \in Deleting /\ proc[x].pc \in Deleting,
         x = Runner => pc \in Moving \cup Dropping,
         x \in Handlers => pc \notin Moving,
         pc \in {"gather", "writeNormal"} => proc[x].pc \in {"saveRecord", "gather"},
         pc \in {"writePart", "readRecord"} => proc[x].pc = "writePart",
         pc = "addSnapshot" => FALSE
  PROVE  Role(x)'
<1>1. Role(x)
  BY DEF Roles
<1>2. proc[x].todo \subseteq Uploads /\ proc[x].move \in Uploads \cup {None} /\
          proc[x].u \in Uploads \cup {None}
  BY LocalTypes
<1>3. proc'[x] = [proc[x] EXCEPT !.pc = pc]
  BY DEF Goto, TypeOK
<1>4. proc[x] \in Locals
  BY LocalTypes
<1>5. /\ proc'[x].pc = pc
      /\ proc'[x].u = proc[x].u /\ proc'[x].part = proc[x].part /\ proc'[x].hash = proc[x].hash
      /\ proc'[x].todo = proc[x].todo /\ proc'[x].move = proc[x].move
      /\ proc'[x].gone = proc[x].gone /\ proc'[x].found = proc[x].found
  BY <1>3, <1>4 DEF Locals
<1>6. Target(x)' = Target(x) \/ proc[x].u \notin Uploads
  BY <1>5, SameAsks DEF Target, SameSenders
<1>7. \A u : Meta(u)' = Meta(u) /\ ToSnapshot(u)' = ToSnapshot(u)
  BY SameAsks DEF SameSenders
<1>8. \A u \in Uploads : (Opened(u)' <=> Opened(u)) /\ (Prepared(u)' <=> Prepared(u))
  BY DEF SameSenders, Opened, Prepared
<1>9. proc[x].pc \in Serving \cup Moving => proc[x].u \in Uploads
  BY <1>1 DEF Role
<1> QED
  BY <1>1, <1>2, <1>5, <1>6, <1>7, <1>8, <1>9, ConstantsAssumption
     DEF Role, Preparing, Serving, Moving, Deleting, Dropping, Procs, SameSenders

\* Steps within a request, where senders are told nothing new and no upload is
\* registered or queued.
Quiet ==
  /\ SameSenders
  /\ \A u \in Uploads : reg'[u] # "none" => reg[u] # "none"
  /\ queue' = queue

\* Quiet steps keep what is known of the uploads.
LEMMA QuietUploading ==
  ASSUME TypeOK, Roles, Quiet
  PROVE  Uploading'
BY QueueFacts, UploadingKept DEF Quiet

\* A process returns, its sender told nothing: every process keeps to its role.
LEMMA ReturnRoles ==
  ASSUME TypeOK, Roles, NEW x \in Procs, Return(x), Quiet
  PROVE  Roles'
<1>1. proc'[x] = Idle
  BY DEF Return, TypeOK
<1>2. Role(x)'
  BY <1>1, IdleRole
<1>3. Idle.pc \notin Preparing
  BY DEF Idle, Preparing
<1> QED
  BY <1>2, <1>3, QuietUploading, LocalRoles DEF Return, Quiet

\* A process goes on quietly, to a step of whose role it is.
LEMMA NextStep ==
  ASSUME TypeOK, Roles, NEW x \in Procs, NEW pc, Goto(x, pc), Quiet, Role(x)',
         pc \in Preparing => proc[x].pc \in Preparing
  PROVE  Roles'
<1>1. proc[x] \in Locals
  BY LocalTypes
<1>2. [proc[x] EXCEPT !.pc = pc].pc = pc /\ [proc[x] EXCEPT !.pc = pc].u = proc[x].u
  BY <1>1 DEF Locals
<1>3. proc' = [proc EXCEPT ![x] = [proc[x] EXCEPT !.pc = pc]]
  BY DEF Goto
<1> QED
  BY <1>2, <1>3, QuietUploading, LocalRoles DEF Quiet

\* A process goes on, told nothing new: every process keeps to its role.
LEMMA GotoRoles ==
  ASSUME TypeOK, Roles, NEW x \in Procs, NEW pc, Goto(x, pc), Quiet,
         \/ pc \in Preparing /\ proc[x].pc \in Preparing /\ pc \notin {"flashSnapshot", "flashDisk"}
         \/ pc \in Serving /\ proc[x].pc \in Serving \cup Moving /\ pc # "saveRecord"
         \/ pc \in Moving /\ proc[x].pc \in Moving
         \/ pc \in Deleting /\ proc[x].pc \in Deleting,
         x = Runner => pc \in Moving \cup Dropping,
         x \in Handlers => pc \notin Moving,
         pc \in {"gather", "writeNormal"} => proc[x].pc \in {"saveRecord", "gather"},
         pc \in {"writePart", "readRecord"} => proc[x].pc = "writePart",
         pc # "addSnapshot"
  PROVE  Roles'
<1>1. Role(x)'
  BY GotoRole DEF Quiet
<1>2. pc \in Preparing => proc[x].pc \in Preparing
  BY DEF Preparing, Serving, Moving, Deleting, Dropping
<1> QED
  BY <1>1, <1>2, NextStep

\* Steps of a handler that go on or end without an answer to the sender, a new
\* registration or a command for the runner.
LEMMA WorkingQuietRoles ==
  ASSUME TypeOK, Roles, NEW x \in Handlers,
         \/ Insert(x) \/ WritePart(x) \/ WriteNormal(x) \/ RemoveDir(x) \/ AddSnapshot(x)
         \/ DropRecord(x) \/ DropDir(x) \/ DropRegs(x) \/ DeleteLook(x) \/ DeleteFile(x)
  PROVE  Roles'
<1>0. x \in Procs /\ x # Runner
  BY ConstantsAssumption DEF Procs
<1>1. CASE Insert(x)
  <2>1. Quiet
    BY <1>1 DEF Insert, Quiet, SameSenders, redis, cache, db, TypeOK
  <2> QED
    BY <1>0, <1>1, <2>1, GotoRoles, ReturnRoles
       DEF Insert, At, Preparing, Serving, Moving, Deleting, Dropping
<1>2. CASE WritePart(x)
  <2>1. Quiet
    BY <1>2 DEF WritePart, Quiet, SameSenders, redis, cache, db, TypeOK
  <2> QED
    BY <1>0, <1>2, <2>1, GotoRoles, ReturnRoles
       DEF WritePart, At, Preparing, Serving, Moving, Deleting, Dropping
<1>3. CASE WriteNormal(x)
  <2>1. Quiet
    BY <1>3 DEF WriteNormal, Quiet, SameSenders, redis, cache, db, TypeOK
  <2> QED
    BY <1>0, <1>3, <2>1, GotoRoles, ReturnRoles
       DEF WriteNormal, At, Preparing, Serving, Moving, Deleting, Dropping
<1>4. CASE RemoveDir(x)
  <2>1. Quiet
    BY <1>4 DEF RemoveDir, Quiet, SameSenders, redis, cache, db, TypeOK
  <2> QED
    BY <1>0, <1>4, <2>1, GotoRoles, ReturnRoles
       DEF RemoveDir, At, Preparing, Serving, Moving, Deleting, Dropping
<1>5. CASE AddSnapshot(x)
  <2>1. Quiet
    BY <1>5 DEF AddSnapshot, Quiet, SameSenders, redis, cache, db, TypeOK
  <2> QED
    BY <1>0, <1>5, <2>1, GotoRoles, ReturnRoles
       DEF AddSnapshot, At, Preparing, Serving, Moving, Deleting, Dropping
<1>6. CASE DropRecord(x)
  <2>1. Quiet
    BY <1>6 DEF DropRecord, Quiet, SameSenders, redis, cache, db, TypeOK
  <2> QED
    BY <1>0, <1>6, <2>1, GotoRoles, ReturnRoles
       DEF DropRecord, At, Preparing, Serving, Moving, Deleting, Dropping
<1>7. CASE DropDir(x)
  <2>1. Quiet
    BY <1>7 DEF DropDir, Quiet, SameSenders, redis, cache, db, TypeOK
  <2> QED
    BY <1>0, <1>7, <2>1, GotoRoles, ReturnRoles
       DEF DropDir, At, Preparing, Serving, Moving, Deleting, Dropping
<1>8. CASE DropRegs(x)
  <2>1. Quiet
    BY <1>8 DEF DropRegs, Quiet, SameSenders, redis, cache, db, TypeOK
  <2> QED
    BY <1>0, <1>8, <2>1, GotoRoles, ReturnRoles
       DEF DropRegs, At, Preparing, Serving, Moving, Deleting, Dropping
<1>9. CASE DeleteLook(x)
  <2>1. Quiet
    BY <1>9 DEF DeleteLook, Quiet, SameSenders, redis, cache, db, TypeOK
  <2> QED
    BY <1>0, <1>9, <2>1, GotoRoles, ReturnRoles
       DEF DeleteLook, At, Preparing, Serving, Moving, Deleting, Dropping
<1>10. CASE DeleteFile(x)
  <2>1. Quiet
    BY <1>10 DEF DeleteFile, Quiet, SameSenders, redis, cache, db, TypeOK
  <2> QED
    BY <1>0, <1>10, <2>1, GotoRoles, ReturnRoles
       DEF DeleteFile, At, Preparing, Serving, Moving, Deleting, Dropping
<1> QED
  BY <1>1, <1>2, <1>3, <1>4, <1>5, <1>6, <1>7, <1>8, <1>9, <1>10

\* The same for the runner.
LEMMA RunningQuietRoles ==
  ASSUME TypeOK, Roles,
         \/ DropRecord(Runner) \/ DropDir(Runner) \/ DropRegs(Runner) \/ RunUpload
         \/ RunRefused \/ RunFailed \/ RunMeta \/ RunDisk \/ RunNormal
  PROVE  Roles'
<1>0. Runner \in Procs /\ Runner \notin Handlers
  BY ConstantsAssumption DEF Procs
<1>1. CASE DropRecord(Runner)
  <2>1. Quiet
    BY <1>1 DEF DropRecord, Quiet, SameSenders, redis, cache, db, TypeOK
  <2> QED
    BY <1>0, <1>1, <2>1, GotoRoles, ReturnRoles
       DEF DropRecord, At, Preparing, Serving, Moving, Deleting, Dropping
<1>2. CASE DropDir(Runner)
  <2>1. Quiet
    BY <1>2 DEF DropDir, Quiet, SameSenders, redis, cache, db, TypeOK
  <2> QED
    BY <1>0, <1>2, <2>1, GotoRoles, ReturnRoles
       DEF DropDir, At, Preparing, Serving, Moving, Deleting, Dropping
<1>3. CASE DropRegs(Runner)
  <2>1. Quiet
    BY <1>3 DEF DropRegs, Quiet, SameSenders, redis, cache, db, TypeOK
  <2>2. Return(Runner)
    BY <1>0, <1>3 DEF DropRegs, Roles, Role
  <2> QED
    BY <1>0, <2>1, <2>2, ReturnRoles
<1>4. CASE RunUpload
  <2>1. Quiet
    BY <1>4 DEF RunUpload, Quiet, SameSenders, redis, cache, db, TypeOK
  <2> QED
    BY <1>0, <1>4, <2>1, GotoRoles, ReturnRoles
       DEF RunUpload, At, Preparing, Serving, Moving, Deleting, Dropping
<1>5. CASE RunRefused
  <2>1. Quiet
    BY <1>5 DEF RunRefused, Quiet, SameSenders, redis, cache, db, TypeOK
  <2> QED
    BY <1>0, <1>5, <2>1, GotoRoles, ReturnRoles
       DEF RunRefused, At, Preparing, Serving, Moving, Deleting, Dropping
<1>6. CASE RunFailed
  <2>1. Quiet
    BY <1>6 DEF RunFailed, Quiet, SameSenders, redis, cache, db, TypeOK
  <2> QED
    BY <1>0, <1>6, <2>1, GotoRoles, ReturnRoles
       DEF RunFailed, At, Preparing, Serving, Moving, Deleting, Dropping
<1>7. CASE RunMeta
  <2>1. Quiet
    BY <1>7 DEF RunMeta, Quiet, SameSenders, redis, cache, db, TypeOK
  <2> QED
    BY <1>0, <1>7, <2>1, GotoRoles, ReturnRoles
       DEF RunMeta, At, Preparing, Serving, Moving, Deleting, Dropping
<1>8. CASE RunDisk
  <2>1. Quiet
    BY <1>8 DEF RunDisk, Quiet, SameSenders, redis, cache, db, TypeOK
  <2> QED
    BY <1>0, <1>8, <2>1, GotoRoles, ReturnRoles
       DEF RunDisk, At, Preparing, Serving, Moving, Deleting, Dropping
<1>9. CASE RunNormal
  <2>1. Quiet
    BY <1>9 DEF RunNormal, Quiet, SameSenders, redis, cache, db, TypeOK
  <2> QED
    BY <1>0, <1>9, <2>1, GotoRoles, ReturnRoles
       DEF RunNormal, At, Preparing, Serving, Moving, Deleting, Dropping
<1> QED
  BY <1>1, <1>2, <1>3, <1>4, <1>5, <1>6, <1>7, <1>8, <1>9

\* The lease of a record ends: every process keeps to its role.
LEMMA ExpireRecordRoles ==
  ASSUME TypeOK, Roles, ExpireRecord
  PROVE  Roles'
<1>1. Quiet
  BY DEF ExpireRecord, Quiet, SameSenders, redis, cache, db, TypeOK
<1>2. \A x \in Procs : Role(x)'
  BY <1>1, OtherRole DEF ExpireRecord, Quiet, SameSenders, SendersKept, Roles, Role
<1> QED
  BY <1>1, <1>2, QuietUploading DEF Roles, OnePreparer, ExpireRecord

\* The lease of a registration ends: every process keeps to its role.
LEMMA ExpireMoveRoles ==
  ASSUME TypeOK, Roles, ExpireMove
  PROVE  Roles'
<1>1. Quiet
  BY DEF ExpireMove, Quiet, SameSenders, redis, cache, db, TypeOK
<1>2. \A x \in Procs : Role(x)'
  BY <1>1, OtherRole DEF ExpireMove, Quiet, SameSenders, SendersKept, Roles, Role
<1> QED
  BY <1>1, <1>2, QuietUploading DEF Roles, OnePreparer, ExpireMove

\* A cancellation is taken: every process keeps to its role.
LEMMA CancelRoles ==
  ASSUME TypeOK, Roles, NEW x \in Handlers, NEW u \in Uploads, Cancel(x, u)
  PROVE  Roles'
<1>1. x \in Procs /\ x # Runner
  BY ConstantsAssumption DEF Procs
<1>2. Quiet
  BY DEF Cancel, Quiet, SameSenders, redis, cache, db, TypeOK
<1>3. proc'[x] = [Idle EXCEPT !.pc = "dropRecord", !.u = u]
  BY <1>1 DEF Cancel, TypeOK
<1>4. Role(x)'
  <2>1. /\ proc'[x].pc = "dropRecord" /\ proc'[x].u = u
        /\ proc'[x].todo = {} /\ proc'[x].move = None /\ proc'[x].gone = None
    BY <1>3 DEF Idle
  <2>2. Prepared(u)'
    BY <1>2 DEF Cancel, Prepared, Quiet, SameSenders
  <2> QED
    BY <1>1, <2>1, <2>2 DEF Role, Preparing, Serving, Moving, Deleting, Dropping
<1>5. proc' = [proc EXCEPT ![x] = [Idle EXCEPT !.pc = "dropRecord", !.u = u]]
  BY DEF Cancel
<1> QED
  BY <1>1, <1>2, <1>4, <1>5, QuietUploading, LocalRoles
     DEF Idle, Quiet, Preparing, Serving, Moving, Deleting, Dropping

\* A retry is taken: every process keeps to its role.
LEMMA RetryRoles ==
  ASSUME TypeOK, Roles, NEW x \in Handlers, NEW u \in Uploads, Retry(x, u)
  PROVE  Roles'
<1>1. x \in Procs /\ x # Runner
  BY ConstantsAssumption DEF Procs
<1>2. Quiet
  BY DEF Retry, Quiet, SameSenders, redis, cache, db, TypeOK
<1>3. proc'[x] = [Idle EXCEPT !.pc = "readMoves", !.u = u]
  BY <1>1 DEF Retry, TypeOK
<1>4. Role(x)'
  <2>1. /\ proc'[x].pc = "readMoves" /\ proc'[x].u = u
        /\ proc'[x].todo = {} /\ proc'[x].move = None /\ proc'[x].gone = None
    BY <1>3 DEF Idle
  <2>2. Prepared(u)'
    BY <1>2 DEF Retry, Prepared, Quiet, SameSenders
  <2> QED
    BY <1>1, <2>1, <2>2 DEF Role, Preparing, Serving, Moving, Deleting, Dropping
<1>5. proc' = [proc EXCEPT ![x] = [Idle EXCEPT !.pc = "readMoves", !.u = u]]
  BY DEF Retry
<1> QED
  BY <1>1, <1>2, <1>4, <1>5, QuietUploading, LocalRoles
     DEF Idle, Quiet, Preparing, Serving, Moving, Deleting, Dropping

\* A part is sent: every process keeps to its role.
LEMMA SendRoles ==
  ASSUME TypeOK, Roles, NEW x \in Handlers, NEW u \in Uploads,
         NEW p \in asks.parts, NEW piece \in Hashes \cup {Bad}, Send(x, u, p, piece)
  PROVE  Roles'
<1>1. x \in Procs /\ x # Runner
  BY ConstantsAssumption DEF Procs
<1>2. Quiet
  BY DEF Send, Quiet, SameSenders, redis, cache, db, TypeOK
<1>3. proc'[x] = [Idle EXCEPT !.pc = "writePart", !.u = u, !.part = p, !.piece = piece]
  BY <1>1 DEF Send, TypeOK
<1>4. Role(x)'
  <2>1. /\ proc'[x].pc = "writePart" /\ proc'[x].u = u /\ proc'[x].part = p
        /\ proc'[x].todo = {} /\ proc'[x].move = None /\ proc'[x].gone = None
    BY <1>3 DEF Idle
  <2>2. p \in Parts
    BY DEF TypeOK, AskType
  <2>3. Prepared(u)'
    BY <1>2 DEF Send, Prepared, Quiet, SameSenders
  <2> QED
    BY <1>1, <2>1, <2>2, <2>3 DEF Role, Preparing, Serving, Moving, Deleting, Dropping
<1>5. proc' = [proc EXCEPT ![x] = [Idle EXCEPT !.pc = "writePart", !.u = u, !.part = p,
          !.piece = piece]]
  BY DEF Send
<1> QED
  BY <1>1, <1>2, <1>4, <1>5, QuietUploading, LocalRoles
     DEF Idle, Quiet, Preparing, Serving, Moving, Deleting, Dropping

\* A removal of a snapshot is taken: every process keeps to its role.
LEMMA DeleteRoles ==
  ASSUME TypeOK, Roles, NEW x \in Handlers, NEW s \in snaps, Delete(x, s)
  PROVE  Roles'
<1>1. x \in Procs /\ x # Runner
  BY ConstantsAssumption DEF Procs
<1>2. Quiet
  BY DEF Delete, Quiet, SameSenders, redis, cache, db, TypeOK
<1>3. proc'[x] = [Idle EXCEPT !.pc = "snapLook", !.gone = s]
  BY <1>1 DEF Delete, TypeOK
<1>4. Role(x)'
  <2>1. /\ proc'[x].pc = "snapLook" /\ proc'[x].gone = s
        /\ proc'[x].todo = {} /\ proc'[x].move = None
    BY <1>3 DEF Idle
  <2>2. s # None
    BY ConstantsAssumption DEF TypeOK, SnapRecords
  <2> QED
    BY <1>1, <2>1, <2>2 DEF Role, Preparing, Serving, Moving, Deleting, Dropping
<1>5. proc' = [proc EXCEPT ![x] = [Idle EXCEPT !.pc = "snapLook", !.gone = s]]
  BY DEF Delete
<1> QED
  BY <1>1, <1>2, <1>4, <1>5, QuietUploading, LocalRoles
     DEF Idle, Quiet, Preparing, Serving, Moving, Deleting, Dropping

\* One process goes on, and its sender is answered.
LEMMA AnswerRoles ==
  ASSUME TypeOK, Roles, NEW x \in Procs, NEW at, NEW m,
         proc[x].pc \in Preparing, Answer(x, at, m), Return(x),
         asks' = asks, queue' = queue,
         at \in {"open", "joined"} => m \in Metas,
         at = "open" => m = Meta(proc[x].u),
         \A u \in Uploads : reg'[u] # "none" => reg[u] # "none" \/ (u = proc[x].u /\ at = "open")
  PROVE  Roles'
<1> DEFINE v == proc[x].u
<1>1. v \in Uploads /\ client[v].at = "asking" /\ client[v] \in Senders
  BY DEF Roles, Role, TypeOK
<1>2. /\ client'[v].at = at /\ client'[v].meta = m
      /\ \A u \in Uploads : u # v => client'[u] = client[u]
  BY <1>1 DEF Answer, TypeOK, Senders
<1>3. SendersKept
  BY <1>1, <1>2 DEF SendersKept, Prepared
<1>4. proc'[x] = Idle /\ \A y \in Procs : y # x => proc'[y] = proc[y]
  BY DEF Return, TypeOK
<1>5. \A y \in Procs : y # x /\ proc[y].pc \in Preparing => client'[proc[y].u].at = "asking"
  BY <1>2 DEF Roles, Role, OnePreparer
<1>6. \A u : Meta(u)' = Meta(u) /\ ToSnapshot(u)' = ToSnapshot(u)
  BY SameAsks
<1>7. Uploading'
  <2>1. \A u \in Uploads : Prepared(u)' => client'[u].meta \in Metas
    BY <1>2 DEF Prepared, Roles, Uploading
  <2>2. \A u \in Uploads : Opened(u)' => client'[u].meta = Meta(u)
    BY <1>2 DEF Opened, Roles, Uploading
  <2>3. \A u \in Uploads : Opened(u) => Opened(u)'
    BY <1>3 DEF SendersKept, Opened, Prepared
  <2>4. \A u \in Uploads : reg'[u] # "none" => Opened(u)'
    BY <1>2, <2>3 DEF Opened, Roles, Uploading
  <2> QED
    BY <1>6, <2>1, <2>2, <2>3, <2>4, QueueFacts DEF Uploading
<1>8. Role(x)'
  BY <1>4, IdleRole
<1>9. proc'[x].pc \notin Preparing
  BY <1>4 DEF Idle, Preparing
<1> QED
  BY <1>3, <1>4, <1>5, <1>7, <1>8, <1>9, RolesBuild

-----------------------------------------------------------------------------
(* Every step keeps the roles.                                               *)

\* Telling a sender what is missing tells it no new state and no new id.
LEMMA MissingQuiet ==
  ASSUME TypeOK, NEW v, NEW s, client' = [client EXCEPT ![v].missing = s]
  PROVE  \A u \in Uploads : client'[u].at = client[u].at /\ client'[u].meta = client[u].meta
BY DEF TypeOK, Senders

\* A process that goes on serving its upload keeps its role, if what it has to
\* do is about the same id.
LEMMA ServingRole ==
  ASSUME TypeOK, Roles, NEW x \in Procs, x # Runner, SameSenders,
         proc[x].pc \in Serving, proc'[x].pc \in Serving,
         proc'[x].u = proc[x].u, proc'[x].gone = proc[x].gone,
         proc'[x].todo \subseteq Uploads,
         \A u \in proc'[x].todo : Opened(u) /\ Meta(u) = Target(x),
         proc'[x].move \in Uploads \cup {None},
         proc'[x].move # None =>
           Opened(proc'[x].move) /\ Meta(proc'[x].move) = Target(x) /\ ToSnapshot(proc'[x].move),
         proc'[x].pc = "addSnapshot" => proc'[x].move # None,
         proc'[x].pc \in {"saveRecord", "gather", "writeNormal"} => proc'[x].hash \in Hashes,
         proc'[x].pc \notin {"writePart", "readRecord"}
  PROVE  Role(x)'
<1>1. Role(x) /\ proc[x].u \in Uploads
  BY DEF Roles, Role
<1>2. Target(x)' = Target(x)
  BY <1>1, SameAsks DEF Target, SameSenders
<1>3. \A u : Meta(u)' = Meta(u) /\ ToSnapshot(u)' = ToSnapshot(u)
  BY SameAsks DEF SameSenders
<1>4. \A u \in Uploads : (Opened(u)' <=> Opened(u)) /\ (Prepared(u)' <=> Prepared(u))
  BY DEF SameSenders, Opened, Prepared
<1> QED
  BY <1>1, <1>2, <1>3, <1>4 DEF Role, Preparing, Serving, Moving, Deleting, Dropping

\* A prepare request is taken: every process keeps to its role.
LEMMA PrepareRoles ==
  ASSUME TypeOK, Roles, NEW x \in Handlers, NEW u \in Uploads, Prepare(x, u)
  PROVE  Roles'
<1>1. x \in Procs /\ x # Runner
  BY ConstantsAssumption DEF Procs
<1>2. client[u].at = "new" /\ client[u] \in Senders
  BY DEF Prepare, TypeOK
<1>3. /\ client'[u].at = "asking" /\ client'[u].meta = client[u].meta
      /\ \A v \in Uploads : v # u => client'[v] = client[v]
  BY <1>2 DEF Prepare, TypeOK, Senders
<1>4. SendersKept
  BY <1>2, <1>3 DEF SendersKept, Prepared, Prepare
<1>5. /\ proc'[x].pc = "flash" /\ proc'[x].u = u
      /\ proc'[x].todo = {} /\ proc'[x].move = None /\ proc'[x].gone = None
      /\ \A y \in Procs : y # x => proc'[y] = proc[y]
  BY <1>1 DEF Prepare, TypeOK, Idle
<1>6. Role(x)'
  BY <1>1, <1>3, <1>5 DEF Role, Preparing, Serving, Moving, Deleting, Dropping
<1>7. \A y \in Procs : proc[y].pc \in Preparing => proc[y].u # u /\ client'[proc[y].u].at = "asking"
  BY <1>2, <1>3 DEF Roles, Role
<1>8. Uploading'
  <2>1. \A v : Meta(v)' = Meta(v) /\ ToSnapshot(v)' = ToSnapshot(v)
    BY <1>4, SameAsks DEF SendersKept
  <2>2. reg' = reg /\ queue' = queue
    BY DEF Prepare, redis
  <2>3. \A v \in Uploads : /\ Prepared(v)' => Prepared(v) /\ client'[v].meta = client[v].meta
                           /\ Opened(v)' <=> Opened(v)
    BY <1>2, <1>3 DEF Prepared, Opened
  <2> QED
    BY <2>1, <2>2, <2>3, QueueFacts DEF Uploading, Roles, Opened, Prepared
<1> QED
  BY <1>1, <1>4, <1>5, <1>6, <1>7, <1>8, RolesBuild

\* A file with the hash is looked for: every process keeps to its role.
LEMMA FlashRoles ==
  ASSUME TypeOK, Roles, NEW x \in Handlers, Flash(x)
  PROVE  Roles'
<1>1. x \in Procs /\ x # Runner /\ At(x, "flash")
  BY ConstantsAssumption DEF Procs, Flash
<1>2. Quiet
  BY DEF Flash, Quiet, SameSenders, redis, cache, db, TypeOK
<1>3. CASE Goto(x, "sameHash")
  BY <1>1, <1>2, <1>3, GotoRoles DEF At, Preparing, Serving, Moving, Deleting, Dropping
<1>4. ASSUME NEW pc \in {"flashDisk", "flashSnapshot"}, NEW m \in Metas,
             pc = "flashSnapshot" => ToSnapshot(proc[x].u),
             proc' = [proc EXCEPT ![x].pc = pc, ![x].found = m]
      PROVE  Roles'
  <2> DEFINE r == [proc[x] EXCEPT !.pc = pc, !.found = m]
  <2>1. proc' = [proc EXCEPT ![x] = r]
    BY <1>4
  <2>2. proc[x] \in Locals /\ Role(x)
    BY <1>1, LocalTypes DEF Roles
  <2>3. /\ r.pc = pc /\ r.found = m /\ r.u = proc[x].u /\ r.todo = proc[x].todo
        /\ r.move = proc[x].move /\ r.gone = proc[x].gone
    BY <2>2 DEF Locals
  <2>4. proc'[x] = r
    BY <1>1, <2>1 DEF TypeOK
  <2>5. /\ client'[proc[x].u].at = client[proc[x].u].at
        /\ \A u : ToSnapshot(u)' = ToSnapshot(u)
    <3>1. proc[x].u \in Uploads
      BY <1>1, <2>2 DEF Role, At, Preparing
    <3> QED
      BY <1>2, <3>1, SameAsks DEF Quiet, SameSenders
  <2> HIDE DEF r
  <2>6. Role(x)'
    BY <1>1, <1>4, <2>2, <2>3, <2>4, <2>5
       DEF Role, At, Preparing, Serving, Moving, Deleting, Dropping
  <2> QED
    BY <1>1, <1>2, <2>1, <2>3, <2>6, QuietUploading, LocalRoles DEF Quiet, At, Preparing
<1>5. \A s \in snaps : s.meta \in Metas
  BY DEF TypeOK, SnapRecords
<1> QED
  BY <1>3, <1>4, <1>5 DEF Flash

\* A flash upload enters a file in the net disk: every process keeps to its role.
LEMMA FlashDiskRoles ==
  ASSUME TypeOK, Roles, NEW x \in Handlers, FlashDisk(x)
  PROVE  Roles'
<1>1. x \in Procs /\ x # Runner /\ proc[x].pc \in Preparing
  BY ConstantsAssumption DEF Procs, FlashDisk, At, Preparing
<1> QED
  BY <1>1, AnswerRoles DEF FlashDisk, redis

\* A flash upload makes a snapshot: every process keeps to its role.
LEMMA FlashSnapshotRoles ==
  ASSUME TypeOK, Roles, NEW x \in Handlers, FlashSnapshot(x)
  PROVE  Roles'
<1>1. x \in Procs /\ x # Runner /\ proc[x].pc \in Preparing
  BY ConstantsAssumption DEF Procs, FlashSnapshot, At, Preparing
<1> QED
  BY <1>1, AnswerRoles DEF FlashSnapshot, redis

\* A record of the same hash is joined: every process keeps to its role.
LEMMA SameHashRoles ==
  ASSUME TypeOK, Roles, NEW x \in Handlers, SameHash(x)
  PROVE  Roles'
<1>1. x \in Procs /\ x # Runner /\ proc[x].pc \in Preparing
  BY ConstantsAssumption DEF Procs, SameHash, At, Preparing
<1>2. CASE Goto(x, "sameId") /\ UNCHANGED client
  <2>1. Quiet
    BY <1>2 DEF SameHash, Quiet, SameSenders, redis
  <2> QED
    BY <1>1, <1>2, <2>1, GotoRoles
       DEF SameHash, At, Preparing, Serving, Moving, Deleting, Dropping
<1> QED
  BY <1>1, <1>2, AnswerRoles DEF SameHash, redis

\* A record of another hash is a conflict: every process keeps to its role.
LEMMA SameIdRoles ==
  ASSUME TypeOK, Roles, NEW x \in Handlers, SameId(x)
  PROVE  Roles'
<1>1. x \in Procs /\ x # Runner /\ proc[x].pc \in Preparing
  BY ConstantsAssumption DEF Procs, SameId, At, Preparing
<1>2. CASE Goto(x, "insert") /\ UNCHANGED client
  <2>1. Quiet
    BY <1>2 DEF SameId, Quiet, SameSenders, redis
  <2> QED
    BY <1>1, <1>2, <2>1, GotoRoles
       DEF SameId, At, Preparing, Serving, Moving, Deleting, Dropping
<1> QED
  BY <1>1, <1>2, AnswerRoles DEF SameId, redis

\* A move is registered: every process keeps to its role.
LEMMA RegisterRoles ==
  ASSUME TypeOK, Roles, NEW x \in Handlers, Register(x)
  PROVE  Roles'
<1>1. x \in Procs /\ x # Runner /\ proc[x].pc \in Preparing
  BY ConstantsAssumption DEF Procs, Register, At, Preparing
<1>2. proc[x].u \in Uploads
  BY <1>1 DEF Roles, Role
<1>3. \A u \in Uploads : reg'[u] # "none" => reg[u] # "none" \/ u = proc[x].u
  BY DEF Register, TypeOK
<1> QED
  BY <1>1, <1>2, <1>3, AnswerRoles, AskFacts DEF Register

\* A handler that serves an upload goes on with new locals.
LEMMA ServingRoles ==
  ASSUME TypeOK, Roles, NEW x \in Handlers, NEW r, proc' = [proc EXCEPT ![x] = r], SameSenders,
         \A u \in Uploads : reg'[u] # "none" => reg[u] # "none",
         \A i \in DOMAIN queue' : queue'[i] \in Uploads /\ Opened(queue'[i]) /\
             ~ToSnapshot(queue'[i]),
         proc[x].pc \in Serving, r.pc \in Serving, r.u = proc[x].u, r.gone = proc[x].gone,
         r.todo \subseteq Uploads, \A u \in r.todo : Opened(u) /\ Meta(u) = Target(x),
         r.move \in Uploads \cup {None},
         r.move # None => Opened(r.move) /\ Meta(r.move) = Target(x) /\ ToSnapshot(r.move),
         r.pc = "addSnapshot" => r.move # None,
         r.pc \in {"saveRecord", "gather", "writeNormal"} => r.hash \in Hashes,
         r.pc \notin {"writePart", "readRecord"}
  PROVE  Roles'
<1>1. x \in Procs /\ x # Runner
  BY ConstantsAssumption DEF Procs
<1>2. proc'[x] = r
  BY <1>1 DEF TypeOK
<1>3. Role(x)'
  BY <1>1, <1>2, ServingRole
<1>4. Uploading'
  BY UploadingKept
<1>5. r.pc \notin Preparing
  BY DEF Serving, Preparing, Dropping
<1> QED
  BY <1>1, <1>3, <1>4, <1>5, LocalRoles

\* What a process that serves an upload has to do.
LEMMA ServingFacts ==
  ASSUME TypeOK, Roles, NEW x \in Handlers, proc[x].pc \in Serving
  PROVE  /\ x \in Procs /\ proc[x] \in Locals /\ Target(x) \in Metas
         /\ proc[x].todo \subseteq Uploads /\ proc[x].move \in Uploads \cup {None}
         /\ \A u \in proc[x].todo : Opened(u) /\ Meta(u) = Target(x)
         /\ proc[x].move # None =>
              Opened(proc[x].move) /\ Meta(proc[x].move) = Target(x) /\ ToSnapshot(proc[x].move)
         /\ \A u \in RegsOf(Target(x)) : u \in Uploads /\ Opened(u) /\ Meta(u) = Target(x)
<1>1. x \in Procs
  BY DEF Procs
<1> QED
  BY <1>1, LocalTypes, TargetId DEF Roles, Role, Uploading, RegsOf

\* ... and with what it had to do.
LEMMA QuietServing ==
  ASSUME TypeOK, Roles, NEW x \in Handlers, NEW r, proc' = [proc EXCEPT ![x] = r], Quiet,
         proc[x].pc \in Serving, r.pc \in Serving, r.u = proc[x].u, r.gone = proc[x].gone,
         r.todo = proc[x].todo \/ r.todo = RegsOf(Target(x)), r.move = proc[x].move,
         r.pc = "addSnapshot" => r.move # None,
         r.pc \in {"saveRecord", "gather", "writeNormal"} => r.hash \in Hashes,
         r.pc \notin {"writePart", "readRecord"}
  PROVE  Roles'
<1>1. r.todo \subseteq Uploads /\ \A u \in r.todo : Opened(u) /\ Meta(u) = Target(x)
  BY ServingFacts
<1>2. /\ r.move \in Uploads \cup {None}
      /\ r.move # None => Opened(r.move) /\ Meta(r.move) = Target(x) /\ ToSnapshot(r.move)
  BY ServingFacts
<1>3. /\ SameSenders /\ \A u \in Uploads : reg'[u] # "none" => reg[u] # "none"
      /\ \A i \in DOMAIN queue' : queue'[i] \in Uploads /\ Opened(queue'[i]) /\
             ~ToSnapshot(queue'[i])
  BY QueueFacts DEF Quiet
<1> QED
  BY <1>1, <1>2, <1>3, ServingRoles

\* The record is read: every process keeps to its role.
LEMMA ReadRecordRoles ==
  ASSUME TypeOK, Roles, NEW x \in Handlers, ReadRecord(x)
  PROVE  Roles'
<1>1. proc[x].pc \in Serving /\ x \in Procs
  BY DEF ReadRecord, At, Serving, Procs
<1>2. Quiet
  BY DEF ReadRecord, Quiet, SameSenders, redis
<1>3. ASSUME NEW h \in Hashes, NEW g,
             proc' = [proc EXCEPT ![x].pc = "saveRecord", ![x].hash = h, ![x].got = g]
      PROVE  Roles'
  <2> DEFINE r == [proc[x] EXCEPT !.pc = "saveRecord", !.hash = h, !.got = g]
  <2>1. proc' = [proc EXCEPT ![x] = r]
    BY <1>3
  <2>2. /\ r.pc = "saveRecord" /\ r.u = proc[x].u /\ r.hash = h /\ r.todo = proc[x].todo
        /\ r.move = proc[x].move /\ r.gone = proc[x].gone
    BY <1>1, ServingFacts DEF Locals
  <2> HIDE DEF r
  <2> QED
    BY <1>1, <1>2, <2>1, <2>2, QuietServing DEF Serving
<1> QED
  BY <1>1, <1>2, <1>3, ReturnRoles DEF ReadRecord, RecordsOf

\* The record is written back: every process keeps to its role.
LEMMA SaveRecordRoles ==
  ASSUME TypeOK, Roles, NEW x \in Handlers, SaveRecord(x)
  PROVE  Roles'
<1>1. x \in Procs /\ x # Runner
  BY ConstantsAssumption DEF Procs
<1>2. Quiet
  BY MissingQuiet DEF SaveRecord, Quiet, SameSenders
<1> QED
  BY <1>1, <1>2, GotoRoles, ReturnRoles
     DEF SaveRecord, At, Preparing, Serving, Moving, Deleting, Dropping

\* The parts are gathered and compared: every process keeps to its role.
LEMMA GatherRoles ==
  ASSUME TypeOK, Roles, NEW x \in Handlers, Gather(x)
  PROVE  Roles'
<1>1. proc[x].pc \in Serving /\ proc[x].pc = "gather" /\ x \in Procs /\ x # Runner
  BY ConstantsAssumption DEF Gather, At, Serving, Procs
<1>2. Quiet
  BY DEF Gather, Quiet, SameSenders, redis
<1>3. ASSUME NEW c, proc' = [proc EXCEPT ![x].pc = "writeNormal", ![x].piece = c]
      PROVE  Roles'
  <2> DEFINE r == [proc[x] EXCEPT !.pc = "writeNormal", !.piece = c]
  <2>1. proc' = [proc EXCEPT ![x] = r]
    BY <1>3
  <2>2. /\ r.pc = "writeNormal" /\ r.u = proc[x].u /\ r.hash = proc[x].hash /\ r.todo = proc[x].todo
        /\ r.move = proc[x].move /\ r.gone = proc[x].gone
    BY <1>1, ServingFacts DEF Locals
  <2>3. r.hash \in Hashes
    BY <1>1, <2>2 DEF Roles, Role
  <2> HIDE DEF r
  <2> QED
    BY <1>1, <1>2, <2>1, <2>2, <2>3, QuietServing DEF Serving
<1>4. CASE Goto(x, "readFailing")
  BY <1>1, <1>2, <1>4, GotoRoles DEF Preparing, Serving, Moving, Deleting, Dropping
<1> QED
  BY <1>1, <1>2, <1>3, <1>4, ReturnRoles DEF Gather

\* Moves that fail are read: every process keeps to its role.
LEMMA ReadFailingRoles ==
  ASSUME TypeOK, Roles, NEW x \in Handlers, ReadFailing(x)
  PROVE  Roles'
<1>1. proc[x].pc \in Serving
  BY DEF ReadFailing, At, Serving
<1>2. Quiet
  BY DEF ReadFailing, Quiet, SameSenders, redis
<1> DEFINE r == [proc[x] EXCEPT !.pc = "setFailed", !.todo = RegsOf(Target(x))]
<1>3. proc' = [proc EXCEPT ![x] = r]
  BY DEF ReadFailing
<1>4. /\ r.pc = "setFailed" /\ r.u = proc[x].u /\ r.todo = RegsOf(Target(x))
      /\ r.move = proc[x].move /\ r.gone = proc[x].gone
  BY <1>1, ServingFacts DEF Locals
<1> HIDE DEF r
<1> QED
  BY <1>1, <1>2, <1>3, <1>4, QuietServing DEF Serving, Dropping

\* The moves are read: every process keeps to its role.
LEMMA ReadMovesRoles ==
  ASSUME TypeOK, Roles, NEW x \in Handlers, ReadMoves(x)
  PROVE  Roles'
<1>1. proc[x].pc \in Serving
  BY DEF ReadMoves, At, Serving
<1>2. Quiet
  BY DEF ReadMoves, Quiet, SameSenders, redis
<1> DEFINE r == [proc[x] EXCEPT !.pc = "move", !.todo = RegsOf(Target(x))]
<1>3. proc' = [proc EXCEPT ![x] = r]
  BY DEF ReadMoves
<1>4. /\ r.pc = "move" /\ r.u = proc[x].u /\ r.todo = RegsOf(Target(x))
      /\ r.move = proc[x].move /\ r.gone = proc[x].gone
  BY <1>1, ServingFacts DEF Locals
<1> HIDE DEF r
<1> QED
  BY <1>1, <1>2, <1>3, <1>4, QuietServing DEF Serving, Dropping

\* A handler has one upload less to do.
LEMMA LessRoles ==
  ASSUME TypeOK, Roles, NEW x \in Handlers, proc[x].pc \in {"setFailed", "move"},
         NEW v \in proc[x].todo, proc' = [proc EXCEPT ![x].todo = @ \ {v}], SameSenders,
         \A u \in Uploads : reg'[u] # "none" => reg[u] # "none",
         \A i \in DOMAIN queue' : queue'[i] \in Uploads /\ Opened(queue'[i]) /\
             ~ToSnapshot(queue'[i])
  PROVE  Roles'
<1>1. proc[x].pc \in Serving
  BY DEF Serving
<1> DEFINE r == [proc[x] EXCEPT !.todo = @ \ {v}]
<1>2. proc' = [proc EXCEPT ![x] = r]
  OBVIOUS
<1>3. /\ r.pc = proc[x].pc /\ r.u = proc[x].u /\ r.todo = proc[x].todo \ {v}
      /\ r.move = proc[x].move /\ r.gone = proc[x].gone
  BY <1>1, ServingFacts DEF Locals
<1> HIDE DEF r
<1>4. /\ r.todo \subseteq Uploads /\ \A u \in r.todo : Opened(u) /\ Meta(u) = Target(x)
      /\ r.move \in Uploads \cup {None}
      /\ r.move # None => Opened(r.move) /\ Meta(r.move) = Target(x) /\ ToSnapshot(r.move)
  BY <1>1, <1>3, ServingFacts
<1> QED
  BY <1>1, <1>2, <1>3, <1>4, ServingRoles

\* A move is marked as failed: every process keeps to its role.
LEMMA SetFailedRoles ==
  ASSUME TypeOK, Roles, NEW x \in Handlers, SetFailed(x)
  PROVE  Roles'
<1>1. x \in Procs
  BY DEF Procs
<1>2. Quiet
  BY <1>1, LocalTypes, MissingQuiet DEF SetFailed, Quiet, SameSenders, TypeOK
<1> QED
  BY <1>1, <1>2, LessRoles, ReturnRoles, QueueFacts DEF SetFailed, At, Quiet

\* No move is left: every process keeps to its role.
LEMMA MovesDoneRoles ==
  ASSUME TypeOK, Roles, NEW x \in Handlers, MovesDone(x)
  PROVE  Roles'
<1>1. x \in Procs
  BY DEF Procs
<1>2. Quiet
  BY DEF MovesDone, Quiet, SameSenders, redis, TypeOK, Senders
<1> QED
  BY <1>1, <1>2, ReturnRoles DEF MovesDone

\* A move is queued: every process keeps to its role.
LEMMA MoveToStorageRoles ==
  ASSUME TypeOK, Roles, NEW x \in Handlers, MoveToStorage(x)
  PROVE  Roles'
<1>1. x \in Procs /\ proc[x].pc \in Serving
  BY DEF Procs, MoveToStorage, At, Serving
<1>2. CASE Return(x) /\ UNCHANGED queue
  <2>1. Quiet
    BY <1>2 DEF MoveToStorage, Quiet, SameSenders, redis
  <2> QED
    BY <1>1, <1>2, <2>1, ReturnRoles
<1>3. ASSUME NEW u \in proc[x].todo, ~ToSnapshot(u), queue' = Append(queue, u),
             proc' = [proc EXCEPT ![x].todo = @ \ {u}]
      PROVE  Roles'
  <2>1. u \in Uploads /\ Opened(u)
    BY <1>1, ServingFacts
  <2>2. \A i \in DOMAIN queue' : queue'[i] = u \/ (i \in DOMAIN queue /\ queue'[i] = queue[i])
    BY <1>3, <2>1 DEF TypeOK
  <2>3. \A i \in DOMAIN queue' : queue'[i] \in Uploads /\ Opened(queue'[i]) /\
            ~ToSnapshot(queue'[i])
    BY <1>3, <2>1, <2>2, QueueFacts
  <2>4. SameSenders /\ reg' = reg
    BY DEF MoveToStorage, SameSenders, redis
  <2> QED
    BY <1>3, <2>3, <2>4, LessRoles DEF MoveToStorage, At
<1> QED
  BY <1>2, <1>3 DEF MoveToStorage

\* A file becomes the file of a snapshot: every process keeps to its role.
LEMMA MoveToSnapshotRoles ==
  ASSUME TypeOK, Roles, NEW x \in Handlers, MoveToSnapshot(x)
  PROVE  Roles'
<1>1. x \in Procs /\ proc[x].pc \in Serving
  BY DEF Procs, MoveToSnapshot, At, Serving
<1>2. Quiet
  BY DEF MoveToSnapshot, Quiet, SameSenders, redis
<1>3. ASSUME NEW u \in proc[x].todo, ToSnapshot(u),
             proc' = [proc EXCEPT ![x].pc = "addSnapshot", ![x].move = u, ![x].todo = @ \ {u}]
      PROVE  Roles'
  <2> DEFINE r == [proc[x] EXCEPT !.pc = "addSnapshot", !.move = u, !.todo = @ \ {u}]
  <2>1. proc' = [proc EXCEPT ![x] = r]
    BY <1>3
  <2>2. /\ r.pc = "addSnapshot" /\ r.u = proc[x].u /\ r.todo = proc[x].todo \ {u}
        /\ r.move = u /\ r.gone = proc[x].gone
    BY <1>1, ServingFacts DEF Locals
  <2>3. u \in Uploads /\ u # None
    BY <1>1, ServingFacts, ConstantsAssumption
  <2> HIDE DEF r
  <2>4. /\ r.pc \in Serving /\ r.todo \subseteq Uploads
        /\ \A v \in r.todo : Opened(v) /\ Meta(v) = Target(x)
    BY <1>1, <2>2, ServingFacts DEF Serving
  <2>5. r.move \in Uploads \cup {None} /\ r.move # None
        /\ Opened(r.move) /\ Meta(r.move) = Target(x) /\ ToSnapshot(r.move)
    BY <1>1, <1>3, <2>2, <2>3, ServingFacts
  <2>6. \A i \in DOMAIN queue' : queue'[i] \in Uploads /\ Opened(queue'[i]) /\ ~ToSnapshot(queue'[i])
    BY <1>2, QueueFacts DEF Quiet
  <2>7. SameSenders /\ \A v \in Uploads : reg'[v] # "none" => reg[v] # "none"
    BY <1>2 DEF Quiet
  <2> QED
    BY <1>1, <2>1, <2>2, <2>4, <2>5, <2>6, <2>7, ServingRoles
<1> QED
  BY <1>1, <1>2, <1>3, ReturnRoles DEF MoveToSnapshot

\* The runner takes a command: every process keeps to its role.
LEMMA TakeRoles ==
  ASSUME TypeOK, Roles, Take
  PROVE  Roles'
<1>1. Runner \in Procs /\ Runner \notin Handlers
  BY ConstantsAssumption DEF Procs
<1>2. SameSenders /\ reg' = reg
  BY DEF Take, SameSenders, redis
<1>3. PICK u \in Uploads : u = Head(queue) /\ Opened(u) /\ ~ToSnapshot(u)
  BY QueueFacts DEF Take, TypeOK
<1>4. \A i \in DOMAIN queue' : queue'[i] \in Uploads /\ Opened(queue'[i]) /\ ~ToSnapshot(queue'[i])
  <2>1. \A i \in DOMAIN queue' : i + 1 \in DOMAIN queue /\ queue'[i] = queue[i + 1]
    BY DEF Take, TypeOK
  <2> QED
    BY <2>1, QueueFacts
<1>5. Uploading'
  BY <1>2, <1>4, UploadingKept
<1>6. CASE UNCHANGED proc
  <2>1. \A y \in Procs : Role(y)'
    BY <1>2, <1>6, OtherRole DEF SameSenders, SendersKept, Roles, Role
  <2> QED
    BY <1>5, <1>6, <2>1 DEF Roles, OnePreparer
<1>7. CASE proc' = [proc EXCEPT ![Runner] = [Idle EXCEPT !.pc = "runRead", !.u = u]]
  <2> DEFINE r == [Idle EXCEPT !.pc = "runRead", !.u = u]
  <2>1. proc'[Runner] = r
    BY <1>1, <1>7 DEF TypeOK
  <2>2. /\ r.pc = "runRead" /\ r.u = u /\ r.todo = {} /\ r.move = None /\ r.gone = None
    BY DEF Idle
  <2>3. Opened(u)' /\ Prepared(u)' /\ ~ToSnapshot(u)'
    BY <1>2, <1>3, SameAsks DEF SameSenders, Opened, Prepared
  <2> HIDE DEF r
  <2>4. Role(Runner)'
    BY <1>1, <1>3, <2>1, <2>2, <2>3
       DEF Role, Preparing, Serving, Moving, Deleting, Dropping
  <2> QED
    BY <1>1, <1>2, <1>5, <1>7, <2>2, <2>4, LocalRoles DEF r, Preparing
<1> QED
  BY <1>3, <1>6, <1>7 DEF Take

\* The runner reads the file: every process keeps to its role.
LEMMA RunReadRoles ==
  ASSUME TypeOK, Roles, RunRead
  PROVE  Roles'
<1>1. Runner \in Procs /\ Runner \notin Handlers
  BY ConstantsAssumption DEF Procs
<1>2. Quiet
  BY DEF RunRead, Quiet, SameSenders, redis
<1>3. CASE proc' = [proc EXCEPT ![Runner].pc = "runUpload", ![Runner].piece = normal[Mine]]
  <2> DEFINE r == [proc[Runner] EXCEPT !.pc = "runUpload", !.piece = normal[Mine]]
  <2>1. proc' = [proc EXCEPT ![Runner] = r] /\ proc'[Runner] = r
    BY <1>1, <1>3 DEF TypeOK
  <2>2. /\ r.pc = "runUpload" /\ r.u = proc[Runner].u /\ r.todo = proc[Runner].todo
        /\ r.move = proc[Runner].move /\ r.gone = proc[Runner].gone
    BY <1>1, LocalTypes DEF Locals
  <2>3. Role(Runner) /\ proc[Runner].pc = "runRead"
    BY <1>1 DEF Roles, RunRead, At
  <2>4. proc[Runner].todo = {} /\ proc[Runner].move = None
    BY <1>1, <2>3 DEF Role, Serving, Dropping
  <2>5. PICK u \in Uploads : u = proc[Runner].u /\ Opened(u)' /\ ~ToSnapshot(u)'
    <3>1. PICK u \in Uploads : u = proc[Runner].u /\ Opened(u) /\ ~ToSnapshot(u)
      BY <1>1, <2>3 DEF Role, Moving
    <3>2. Opened(u)' /\ ~ToSnapshot(u)'
      BY <1>2, <3>1, SameAsks DEF Quiet, SameSenders, Opened
    <3> QED
      BY <3>1, <3>2
  <2> HIDE DEF r
  <2>6. Role(Runner)'
    BY <1>1, <2>1, <2>2, <2>3, <2>4, <2>5
       DEF Role, Preparing, Serving, Moving, Deleting, Dropping, Opened, Prepared
  <2> QED
    BY <1>1, <1>2, <2>1, <2>2, <2>6, QuietUploading, LocalRoles DEF Quiet, Preparing
<1> QED
  BY <1>1, <1>2, <1>3, ReturnRoles DEF RunRead

\* A command fails: every process keeps to its role.
LEMMA FailRoles ==
  ASSUME TypeOK, Roles, NEW x \in Procs, Fail(x)
  PROVE  Roles'
<1>1. CASE proc[x].pc \in Preparing
  BY <1>1, AnswerRoles DEF Fail, Preparing, redis
<1>2. CASE proc[x].pc \notin Preparing
  <2>1. Quiet
    BY <1>2 DEF Fail, Preparing, Quiet, SameSenders, redis
  <2> QED
    BY <2>1, ReturnRoles DEF Fail
<1> QED
  BY <1>1, <1>2

\* co restarts: every process keeps to its role.
LEMMA CrashRoles ==
  ASSUME TypeOK, Roles, Crash
  PROVE  Roles'
<1>1. \A x \in Procs : proc'[x] = Idle
  BY DEF Crash
<1>2. \A x \in Procs : Role(x)'
  BY <1>1, IdleRole
<1>3. OnePreparer'
  BY <1>1 DEF OnePreparer, Idle, Preparing
<1>4. \A u \in Uploads : /\ client[u] \in Senders
                         /\ client'[u].meta = client[u].meta
                         /\ (Opened(u)' <=> Opened(u)) /\ (Prepared(u)' <=> Prepared(u))
  BY DEF Crash, TypeOK, Senders, Opened, Prepared
<1>5. \A u : Meta(u)' = Meta(u)
  BY SameAsks DEF Crash
<1>6. Uploading'
  BY <1>4, <1>5 DEF Crash, redis, Uploading, Roles
<1> QED
  BY <1>2, <1>3, <1>6 DEF Roles

LEMMA Step ==
  ASSUME TypeOK, Roles, Next
  PROVE  TypeOK' /\ Roles'
<1>1. ASSUME NEW x \in Handlers, NEW u \in Uploads, Prepare(x, u) PROVE TypeOK' /\ Roles'
  BY <1>1, PrepareTypes, PrepareRoles
<1>2. ASSUME NEW x \in Handlers, NEW u \in Uploads, Cancel(x, u) PROVE TypeOK' /\ Roles'
  BY <1>2, CancelTypes, CancelRoles
<1>3. ASSUME NEW x \in Handlers, NEW u \in Uploads, Retry(x, u) PROVE TypeOK' /\ Roles'
  BY <1>3, RetryTypes, RetryRoles
<1>4. ASSUME NEW x \in Handlers, NEW u \in Uploads,
             NEW p \in asks.parts, NEW piece \in Hashes \cup {Bad}, Send(x, u, p, piece)
      PROVE  TypeOK' /\ Roles'
  BY <1>4, SendTypes, SendRoles
<1>5. ASSUME NEW x \in Handlers, Flash(x) PROVE TypeOK' /\ Roles'
  BY <1>5, FlashTypes, FlashRoles
<1>6. ASSUME NEW x \in Handlers, FlashDisk(x) PROVE TypeOK' /\ Roles'
  BY <1>6, FlashDiskTypes, FlashDiskRoles
<1>7. ASSUME NEW x \in Handlers, FlashSnapshot(x) PROVE TypeOK' /\ Roles'
  BY <1>7, FlashSnapshotTypes, FlashSnapshotRoles
<1>8. ASSUME NEW x \in Handlers, SameHash(x) PROVE TypeOK' /\ Roles'
  BY <1>8, SameHashTypes, SameHashRoles
<1>9. ASSUME NEW x \in Handlers, SameId(x) PROVE TypeOK' /\ Roles'
  BY <1>9, SameIdTypes, SameIdRoles
<1>10. ASSUME NEW x \in Handlers, Insert(x) PROVE TypeOK' /\ Roles'
  BY <1>10, InsertTypes, WorkingQuietRoles
<1>11. ASSUME NEW x \in Handlers, Register(x) PROVE TypeOK' /\ Roles'
  BY <1>11, RegisterTypes, RegisterRoles
<1>12. ASSUME NEW x \in Handlers, WritePart(x) PROVE TypeOK' /\ Roles'
  BY <1>12, WritePartTypes, WorkingQuietRoles
<1>13. ASSUME NEW x \in Handlers, ReadRecord(x) PROVE TypeOK' /\ Roles'
  BY <1>13, ReadRecordTypes, ReadRecordRoles
<1>14. ASSUME NEW x \in Handlers, SaveRecord(x) PROVE TypeOK' /\ Roles'
  BY <1>14, SaveRecordTypes, SaveRecordRoles
<1>15. ASSUME NEW x \in Handlers, Gather(x) PROVE TypeOK' /\ Roles'
  BY <1>15, GatherTypes, GatherRoles
<1>16. ASSUME NEW x \in Handlers, WriteNormal(x) PROVE TypeOK' /\ Roles'
  BY <1>16, WriteNormalTypes, WorkingQuietRoles
<1>17. ASSUME NEW x \in Handlers, RemoveDir(x) PROVE TypeOK' /\ Roles'
  BY <1>17, RemoveDirTypes, WorkingQuietRoles
<1>18. ASSUME NEW x \in Handlers, ReadFailing(x) PROVE TypeOK' /\ Roles'
  BY <1>18, ReadFailingTypes, ReadFailingRoles
<1>19. ASSUME NEW x \in Handlers, SetFailed(x) PROVE TypeOK' /\ Roles'
  BY <1>19, SetFailedTypes, SetFailedRoles
<1>20. ASSUME NEW x \in Handlers, ReadMoves(x) PROVE TypeOK' /\ Roles'
  BY <1>20, ReadMovesTypes, ReadMovesRoles
<1>21. ASSUME NEW x \in Handlers, MovesDone(x) PROVE TypeOK' /\ Roles'
  BY <1>21, MovesDoneTypes, MovesDoneRoles
<1>22. ASSUME NEW x \in Handlers, MoveToStorage(x) PROVE TypeOK' /\ Roles'
  BY <1>22, MoveToStorageTypes, MoveToStorageRoles
<1>23. ASSUME NEW x \in Handlers, MoveToSnapshot(x) PROVE TypeOK' /\ Roles'
  BY <1>23, MoveToSnapshotTypes, MoveToSnapshotRoles
<1>24. ASSUME NEW x \in Handlers, AddSnapshot(x) PROVE TypeOK' /\ Roles'
  BY <1>24, AddSnapshotTypes, WorkingQuietRoles
<1>25. ASSUME NEW x \in Handlers, DropRecord(x) PROVE TypeOK' /\ Roles'
  BY <1>25, DropRecordTypes, WorkingQuietRoles DEF Procs
<1>26. ASSUME NEW x \in Handlers, DropDir(x) PROVE TypeOK' /\ Roles'
  BY <1>26, DropDirTypes, WorkingQuietRoles DEF Procs
<1>27. ASSUME NEW x \in Handlers, DropRegs(x) PROVE TypeOK' /\ Roles'
  BY <1>27, DropRegsTypes, WorkingQuietRoles DEF Procs
<1>28. ASSUME NEW x \in Handlers, DeleteLook(x) PROVE TypeOK' /\ Roles'
  BY <1>28, DeleteLookTypes, WorkingQuietRoles
<1>29. ASSUME NEW x \in Handlers, DeleteFile(x) PROVE TypeOK' /\ Roles'
  BY <1>29, DeleteFileTypes, WorkingQuietRoles
<1>30. ASSUME NEW x \in Handlers, NEW s \in snaps, Delete(x, s) PROVE TypeOK' /\ Roles'
  BY <1>30, DeleteTypes, DeleteRoles
<1>31. ASSUME Take PROVE TypeOK' /\ Roles'
  BY <1>31, TakeTypes, TakeRoles
<1>32. ASSUME RunRead PROVE TypeOK' /\ Roles'
  BY <1>32, RunReadTypes, RunReadRoles
<1>33. ASSUME RunUpload PROVE TypeOK' /\ Roles'
  BY <1>33, RunUploadTypes, RunningQuietRoles
<1>34. ASSUME RunFailed PROVE TypeOK' /\ Roles'
  BY <1>34, RunFailedTypes, RunningQuietRoles
<1>35. ASSUME RunMeta PROVE TypeOK' /\ Roles'
  BY <1>35, RunMetaTypes, RunningQuietRoles
<1>36. ASSUME RunDisk PROVE TypeOK' /\ Roles'
  BY <1>36, RunDiskTypes, RunningQuietRoles
<1>37. ASSUME RunNormal PROVE TypeOK' /\ Roles'
  BY <1>37, RunNormalTypes, RunningQuietRoles
<1>38. ASSUME DropRecord(Runner) PROVE TypeOK' /\ Roles'
  BY <1>38, DropRecordTypes, RunningQuietRoles DEF Procs
<1>39. ASSUME DropDir(Runner) PROVE TypeOK' /\ Roles'
  BY <1>39, DropDirTypes, RunningQuietRoles DEF Procs
<1>40. ASSUME DropRegs(Runner) PROVE TypeOK' /\ Roles'
  BY <1>40, DropRegsTypes, RunningQuietRoles DEF Procs
<1>41. ASSUME RunRefused PROVE TypeOK' /\ Roles'
  BY <1>41, RunRefusedTypes, RunningQuietRoles
<1>42. ASSUME NEW x \in Procs, Fail(x) PROVE TypeOK' /\ Roles'
  BY <1>42, FailTypes, FailRoles
<1>43. ASSUME Crash PROVE TypeOK' /\ Roles'
  BY <1>43, CrashTypes, CrashRoles
<1>44. ASSUME ExpireRecord PROVE TypeOK' /\ Roles'
  BY <1>44, ExpireRecordTypes, ExpireRecordRoles
<1>45. ASSUME ExpireMove PROVE TypeOK' /\ Roles'
  BY <1>45, ExpireMoveTypes, ExpireMoveRoles
<1> QED
  BY <1>1, <1>2, <1>3, <1>4, <1>5, <1>6, <1>7, <1>8, <1>9, <1>10, <1>11, <1>12, <1>13, <1>14,
     <1>15, <1>16, <1>17, <1>18, <1>19, <1>20, <1>21, <1>22, <1>23, <1>24, <1>25, <1>26, <1>27,
     <1>28, <1>29, <1>30, <1>31, <1>32, <1>33, <1>34, <1>35, <1>36, <1>37, <1>38, <1>39, <1>40,
     <1>41, <1>42, <1>43, <1>44, <1>45
     DEF Next, Working, Running

\* Nothing happens: every process keeps to its role.
LEMMA StutterRoles ==
  ASSUME TypeOK, Roles, UNCHANGED vars
  PROVE  TypeOK' /\ Roles'
<1>1. TypeOK'
  BY DEF TypeOK, vars, redis, cache, db
<1>2. Roles'
  BY DEF Roles, Uploading, OnePreparer, Role, Target, Opened, Prepared, Meta, ToSnapshot, vars,
         redis, cache, db
<1> QED
  BY <1>1, <1>2

\* Types hold, and every process keeps to its role: what FileMoveService,
\* MultipartService, SnapshotService and the runner read from Redis and the
\* cache is about the upload they serve, however handlers overlap, commands
\* fail, leases end and co restarts.
THEOREM TypeCorrect == Spec => [](TypeOK /\ Roles)
<1>1. TypeOK /\ Roles /\ [Next]_vars => (TypeOK /\ Roles)'
  BY Step, StutterRoles
<1> QED
  BY InitRoles, <1>1, PTL DEF Spec

-----------------------------------------------------------------------------
(* The safety properties, proved on top of the type invariant and the roles: *)
(* hashes tell the truth, files are entered once, snapshots stay readable,   *)
(* and what a sender was told is stored is not lost.                         *)

(* What a step of one process leaves alone.                                  *)

\* The step a process goes to, and what it keeps.
LEMMA GotoFields ==
  ASSUME TypeOK, NEW x \in Procs, NEW pc, Goto(x, pc)
  PROVE  /\ proc'[x].pc = pc /\ proc'[x].u = proc[x].u /\ proc'[x].part = proc[x].part
         /\ proc'[x].piece = proc[x].piece /\ proc'[x].hash = proc[x].hash
         /\ proc'[x].got = proc[x].got /\ proc'[x].found = proc[x].found
         /\ proc'[x].todo = proc[x].todo /\ proc'[x].move = proc[x].move
         /\ proc'[x].gone = proc[x].gone
         /\ \A y \in Procs : y # x => proc'[y] = proc[y]
<1>1. proc'[x] = [proc[x] EXCEPT !.pc = pc] /\ \A y \in Procs : y # x => proc'[y] = proc[y]
  BY DEF Goto, TypeOK
<1> QED
  BY <1>1, LocalTypes DEF Locals

\* What a process that returns leaves alone.
LEMMA ReturnFields ==
  ASSUME TypeOK, NEW x \in Procs, Return(x)
  PROVE  proc'[x] = Idle /\ \A y \in Procs : y # x => proc'[y] = proc[y]
BY DEF Return, TypeOK

\* The steps of a process keep what senders were told.
LEMMA PreparerKept ==
  ASSUME TypeOK, Roles, NEW x \in Procs, NEW at, NEW m, proc[x].pc \in Preparing,
         asks' = asks, Answer(x, at, m)
  PROVE  /\ SendersKept
         /\ at \notin {"open", "joined"} => \A u \in Uploads : Prepared(u)' => Prepared(u)
         /\ \A u \in Uploads : u # proc[x].u => client'[u] = client[u]
         /\ client'[proc[x].u].at = at /\ client'[proc[x].u].meta = m
<1> DEFINE v == proc[x].u
<1>1. v \in Uploads /\ client[v].at = "asking" /\ client[v] \in Senders
  BY DEF Roles, Role, TypeOK
<1>2. /\ client'[v].at = at /\ client'[v].meta = m
      /\ \A u \in Uploads : u # v => client'[u] = client[u]
  BY <1>1 DEF Answer, TypeOK, Senders
<1> QED
  BY <1>1, <1>2 DEF SendersKept, Prepared

\* Told nothing new, senders stay as they are.
LEMMA SameKept ==
  ASSUME SameSenders
  PROVE  SendersKept /\ \A u \in Uploads : Prepared(u)' => Prepared(u)
BY DEF SameSenders, SendersKept, Prepared

\* A step of a process is one of it alone.
Apart(x) == asks' = asks /\ \A y \in Procs : y # x => proc'[y] = proc[y]

\* The steps of a request move one process only,
LEMMA WorkingApart ==
  ASSUME TypeOK, NEW x \in Procs, Working(x)
  PROVE  Apart(x)
<1>1. ASSUME \/ Flash(x) \/ FlashDisk(x) \/ FlashSnapshot(x) \/ SameHash(x) \/ SameId(x)
             \/ Insert(x) \/ Register(x) \/ WritePart(x) \/ ReadRecord(x)
      PROVE  Apart(x)
  BY <1>1
     DEF Flash, FlashDisk, FlashSnapshot, SameHash, SameId, Insert, Register, WritePart,
         ReadRecord, Apart, Goto, Return, TypeOK
<1>2. ASSUME \/ SaveRecord(x) \/ Gather(x) \/ WriteNormal(x) \/ RemoveDir(x)
             \/ ReadFailing(x) \/ SetFailed(x) \/ ReadMoves(x) \/ MovesDone(x)
             \/ MoveToStorage(x)
      PROVE  Apart(x)
  BY <1>2
     DEF SaveRecord, Gather, WriteNormal, RemoveDir, ReadFailing, SetFailed, ReadMoves,
         MovesDone, MoveToStorage, Apart, Goto, Return, TypeOK
<1>3. ASSUME \/ MoveToSnapshot(x) \/ AddSnapshot(x) \/ DropRecord(x) \/ DropDir(x)
             \/ DropRegs(x) \/ DeleteLook(x) \/ DeleteFile(x)
      PROVE  Apart(x)
  BY <1>3
     DEF MoveToSnapshot, AddSnapshot, DropRecord, DropDir, DropRegs, DeleteLook, DeleteFile,
         Apart, Goto, Return, TypeOK
<1> QED
  BY <1>1, <1>2, <1>3 DEF Working

\* ... so do those of the runner,
LEMMA RunningApart ==
  ASSUME TypeOK, Running
  PROVE  Apart(Runner)
<1>1. ASSUME Take PROVE Apart(Runner)
  BY <1>1 DEF Take, Apart, Goto, Return, TypeOK
<1>2. ASSUME RunRead PROVE Apart(Runner)
  BY <1>2 DEF RunRead, Apart, Goto, Return, TypeOK
<1>3. ASSUME RunUpload PROVE Apart(Runner)
  BY <1>3 DEF RunUpload, Apart, Goto, Return, TypeOK
<1>4. ASSUME RunFailed PROVE Apart(Runner)
  BY <1>4 DEF RunFailed, Apart, Goto, Return, TypeOK
<1>5. ASSUME RunMeta PROVE Apart(Runner)
  BY <1>5 DEF RunMeta, Apart, Goto, Return, TypeOK
<1>6. ASSUME RunDisk PROVE Apart(Runner)
  BY <1>6 DEF RunDisk, Apart, Goto, Return, TypeOK
<1>7. ASSUME RunNormal PROVE Apart(Runner)
  BY <1>7 DEF RunNormal, Apart, Goto, Return, TypeOK
<1>8. ASSUME DropRecord(Runner) \/ DropDir(Runner) \/ DropRegs(Runner) PROVE Apart(Runner)
  <2>1. Runner \in Procs
    BY DEF Procs
  <2> QED
    BY <1>8, <2>1, WorkingApart DEF Working
<1> QED
  BY <1>1, <1>2, <1>3, <1>4, <1>5, <1>6, <1>7, <1>8 DEF Running

\* ... and taking a request.
LEMMA AskingApart ==
  ASSUME TypeOK, NEW x \in Handlers,
         \/ \E u \in Uploads : Prepare(x, u) \/ Cancel(x, u) \/ Retry(x, u)
         \/ \E u \in Uploads : \E p \in asks.parts, piece \in Hashes \cup {Bad} :
                Send(x, u, p, piece)
         \/ \E s \in snaps : Delete(x, s)
  PROVE  Apart(x)
BY DEF Prepare, Cancel, Retry, Send, Delete, Apart, TypeOK

\* The steps of a process keep what senders of prepared uploads were told.
LEMMA WorkingSenders ==
  ASSUME TypeOK, Roles, NEW x \in Procs, Working(x)
  PROVE  SendersKept
<1>1. ASSUME \/ Flash(x) \/ Insert(x) \/ WritePart(x) \/ ReadRecord(x) \/ Gather(x)
             \/ WriteNormal(x) \/ RemoveDir(x) \/ ReadFailing(x) \/ ReadMoves(x)
      PROVE  SendersKept
  BY <1>1
     DEF Flash, Insert, WritePart, ReadRecord, Gather, WriteNormal, RemoveDir, ReadFailing,
         ReadMoves, SendersKept
<1>2. ASSUME FlashDisk(x) PROVE SendersKept
  BY <1>2, PreparerKept, SameKept DEF FlashDisk, At, Preparing, SameSenders
<1>3. ASSUME FlashSnapshot(x) PROVE SendersKept
  BY <1>3, PreparerKept, SameKept DEF FlashSnapshot, At, Preparing, SameSenders
<1>4. ASSUME SameHash(x) PROVE SendersKept
  <2>1. ASSUME UNCHANGED client PROVE SendersKept
    BY <1>4, <2>1 DEF SameHash, SendersKept
  <2>2. ASSUME NEW m \in Metas, Answer(x, "joined", m) PROVE SendersKept
    <3>1. asks' = asks /\ proc[x].pc \in Preparing
      BY <1>4 DEF SameHash, At, Preparing
    <3> QED
      BY <2>2, <3>1, PreparerKept
  <2> QED
    BY <1>4, <2>1, <2>2 DEF SameHash
<1>5. ASSUME SameId(x) PROVE SendersKept
  BY <1>5, PreparerKept, SameKept DEF SameId, At, Preparing, SameSenders
<1>6. ASSUME Register(x) PROVE SendersKept
  BY <1>6, PreparerKept, SameKept DEF Register, At, Preparing, SameSenders
<1>7. ASSUME SaveRecord(x) PROVE SendersKept
  BY <1>7, MissingQuiet, SameKept DEF SaveRecord, SameSenders
<1>8. ASSUME SetFailed(x) PROVE SendersKept
  BY <1>8, MissingQuiet, SameKept DEF SetFailed, SameSenders
<1>9. ASSUME MovesDone(x) PROVE SendersKept
  BY <1>9 DEF MovesDone, SendersKept, TypeOK, Senders
<1>10. ASSUME \/ MoveToStorage(x) \/ MoveToSnapshot(x) \/ AddSnapshot(x) \/ DropRecord(x)
             \/ DropDir(x) \/ DropRegs(x) \/ DeleteLook(x) \/ DeleteFile(x)
      PROVE  SendersKept
  BY <1>10
     DEF MoveToStorage, MoveToSnapshot, AddSnapshot, DropRecord, DropDir, DropRegs, DeleteLook,
         DeleteFile, SendersKept
<1> QED
  BY <1>1, <1>2, <1>3, <1>4, <1>5, <1>6, <1>7, <1>8, <1>9, <1>10 DEF Working

-----------------------------------------------------------------------------
\* The contents that uploads promise for ids.
Promises == {<<Meta(u), Hash(u)>> : u \in Uploads}

\* The content a process has in its hands is one that was promised for the id it
\* is about, and the runner records a file only when its object is there.
Content(x) ==
  /\ proc[x].pc \in {"saveRecord", "gather", "writeNormal"} =>
       <<Target(x), proc[x].hash>> \in Promises
  /\ proc[x].pc = "writeNormal" => proc[x].piece = proc[x].hash
  /\ proc[x].pc = "runUpload" => proc[x].piece # None /\
         <<Meta(proc[x].u), proc[x].piece>> \in Promises
  /\ proc[x].pc = "runMeta" => storage[Meta(proc[x].u)] # None
  /\ proc[x].pc = "flashSnapshot" => <<proc[x].found, Hash(proc[x].u)>> \in Promises
  /\ proc[x].gone # None => <<proc[x].gone.meta, proc[x].gone.hash>> \in Promises

\* What senders, records, files and snapshots pair was promised.
SendersTrue == \A u \in Uploads : Prepared(u) => <<client[u].meta, Hash(u)>> \in Promises

RecordsTrue == \A m \in Metas, h \in Hashes : multipart[m, h].open => <<m, h>> \in Promises

FilesTrue ==
  \A m \in Metas :
    /\ normal[m] # None => <<m, normal[m]>> \in Promises
    /\ snapfile[m] # None => <<m, snapfile[m]>> \in Promises
    /\ storage[m] # None => <<m, storage[m]>> \in Promises
    /\ metas[m] # None => <<m, metas[m]>> \in Promises /\ storage[m] # None

SnapsTrue == \A s \in snaps : <<s.meta, s.hash>> \in Promises

\* The inductive invariant of ContentTrue.
Contents ==
  (\A x \in Procs : Content(x)) /\ SendersTrue /\ RecordsTrue /\ FilesTrue /\ SnapsTrue

\* Promises are those of the uploads.
LEMMA PromisesKept ==
  ASSUME asks' = asks
  PROVE  Promises' = Promises
BY SameAsks DEF Promises

\* An upload promises its own content.
LEMMA OwnPromise ==
  ASSUME NEW u \in Uploads
  PROVE  <<Meta(u), Hash(u)>> \in Promises
BY DEF Promises

\* Objects are not removed from the storage server.
StoredKept == \A m \in Metas : storage[m] # None => storage'[m] # None

\* A process that does not move keeps true contents.
LEMMA OtherContent ==
  ASSUME TypeOK, Roles, Contents, NEW y \in Procs, proc'[y] = proc[y], SendersKept, StoredKept
  PROVE  Content(y)'
<1>1. Content(y) /\ Role(y)
  BY DEF Roles, Contents
<1>2. Promises' = Promises
  BY PromisesKept DEF SendersKept
<1>3. proc[y].pc \in Serving => Target(y)' = Target(y)
  BY <1>1, SameAsks DEF Role, Target, SendersKept, Prepared
<1>4. \A u : Meta(u)' = Meta(u) /\ Hash(u)' = Hash(u)
  BY SameAsks DEF SendersKept
<1>5. proc[y].pc = "runMeta" => Meta(proc[y].u) \in Metas
  BY <1>1, AskFacts DEF Role, Moving
<1> QED
  BY <1>1, <1>2, <1>3, <1>4, <1>5 DEF Content, StoredKept, Serving

\* What a step of one process has to show.
LEMMA ContentsBuild ==
  ASSUME TypeOK, Roles, Contents, NEW x \in Procs,
         \A y \in Procs : y # x => proc'[y] = proc[y],
         SendersKept, StoredKept, Content(x)',
         SendersTrue', RecordsTrue', FilesTrue', SnapsTrue'
  PROVE  Contents'
<1>1. ASSUME NEW y \in Procs PROVE Content(y)'
  BY OtherContent
<1> QED
  BY <1>1 DEF Contents

\* What a step that leaves some of the state alone keeps.
LEMMA TrueKept ==
  ASSUME TypeOK, Contents, SendersKept
  PROVE  /\ (\A u \in Uploads : Prepared(u)' => Prepared(u)) => SendersTrue'
         /\ UNCHANGED multipart => RecordsTrue'
         /\ UNCHANGED <<normal, snapfile, storage, metas>> => FilesTrue'
         /\ UNCHANGED snaps => SnapsTrue'
         /\ UNCHANGED storage => StoredKept
<1>1. Promises' = Promises
  BY PromisesKept DEF SendersKept
<1>2. \A u : Hash(u)' = Hash(u)
  BY SameAsks DEF SendersKept
<1>3. (\A u \in Uploads : Prepared(u)' => Prepared(u)) => SendersTrue'
  BY <1>1, <1>2 DEF Contents, SendersTrue, SendersKept
<1> QED
  BY <1>1, <1>3 DEF Contents, RecordsTrue, FilesTrue, SnapsTrue, StoredKept

\* A process at a step of which nothing is asked.
Guarded == {"saveRecord", "gather", "writeNormal", "runUpload", "runMeta", "flashSnapshot"}

\* A process that goes to a step of which nothing is asked,
LEMMA FreeContent ==
  ASSUME NEW x \in Procs, Contents, asks' = asks, proc'[x].pc \notin Guarded,
         proc'[x].gone = None \/ proc'[x].gone = proc[x].gone
  PROVE  Content(x)'
<1>1. Promises' = Promises
  BY PromisesKept
<1> QED
  BY <1>1 DEF Content, Contents, Guarded

\* ... that returns,
LEMMA ReturnContent ==
  ASSUME TypeOK, Contents, NEW x \in Procs, Return(x), asks' = asks
  PROVE  Content(x)' /\ \A y \in Procs : y # x => proc'[y] = proc[y]
<1>1. Idle.pc \notin Guarded /\ Idle.gone = None
  BY DEF Idle, Guarded
<1> QED
  BY <1>1, ReturnFields, FreeContent

\* ... or that goes on.
LEMMA GotoContent ==
  ASSUME TypeOK, Contents, NEW x \in Procs, NEW pc, Goto(x, pc), pc \notin Guarded, asks' = asks
  PROVE  Content(x)' /\ \A y \in Procs : y # x => proc'[y] = proc[y]
BY GotoFields, FreeContent

\* A process that begins anew.
LEMMA FreshContent ==
  ASSUME TypeOK, Contents, NEW x \in Procs, NEW r, asks' = asks,
         proc' = [proc EXCEPT ![x] = r], r.pc \notin Guarded, r.gone = None
  PROVE  Content(x)' /\ \A y \in Procs : y # x => proc'[y] = proc[y]
<1>1. proc'[x] = r /\ \A y \in Procs : y # x => proc'[y] = proc[y]
  BY DEF TypeOK
<1> QED
  BY <1>1, FreeContent

\* Steps that change nothing that is kept.
Storeless ==
  /\ SendersKept
  /\ \A u \in Uploads : Prepared(u)' => Prepared(u)
  /\ UNCHANGED <<multipart, normal, snapfile, storage, metas, snaps>>

\* Steps that change nothing that is kept: contents stay true.
LEMMA StorelessStep ==
  ASSUME TypeOK, Roles, Contents, NEW x \in Procs, Storeless, Content(x)',
         \A y \in Procs : y # x => proc'[y] = proc[y]
  PROVE  Contents'
BY TrueKept, ContentsBuild DEF Storeless

\* Steps of a request that move no content.
LEMMA QuietContents ==
  ASSUME TypeOK, Roles, Contents, NEW x \in Procs,
         \/ FlashDisk(x) \/ SameId(x) \/ WritePart(x) \/ RemoveDir(x)
         \/ ReadFailing(x) \/ SetFailed(x) \/ ReadMoves(x) \/ MovesDone(x) \/ MoveToStorage(x)
         \/ DropDir(x) \/ DropRegs(x) \/ DeleteLook(x)
  PROVE  Contents'
<1>1. Apart(x) /\ SendersKept
  BY WorkingApart, WorkingSenders DEF Working
<1>2. \A u \in Uploads : Prepared(u)' => Prepared(u)
  <2>1. CASE FlashDisk(x) \/ SameId(x)
    BY <2>1, PreparerKept, SameKept DEF FlashDisk, SameId, At, Preparing, SameSenders
  <2>2. CASE SetFailed(x)
    BY <2>2, MissingQuiet DEF SetFailed, Prepared
  <2>3. CASE MovesDone(x)
    BY <2>3 DEF MovesDone, Prepared, TypeOK, Senders
  <2>4. CASE client' = client
    BY <2>4 DEF Prepared
  <2> QED
    BY <2>1, <2>2, <2>3, <2>4
       DEF WritePart, RemoveDir, ReadFailing, ReadMoves, MoveToStorage, DropDir, DropRegs,
           DeleteLook
<1>3. UNCHANGED <<multipart, normal, snapfile, storage, metas, snaps>>
  BY DEF FlashDisk, SameId, WritePart, RemoveDir, ReadFailing, SetFailed, ReadMoves, MovesDone,
         MoveToStorage, DropDir, DropRegs, DeleteLook, redis, cache, db
<1>4. Content(x)'
  <2>1. ASSUME NEW pc, NEW s, pc \notin Guarded, proc' = [proc EXCEPT ![x].pc = pc, ![x].todo = s]
        PROVE  Content(x)'
    <3>1. proc'[x].pc = pc /\ proc'[x].gone = proc[x].gone
      BY <2>1, LocalTypes DEF TypeOK, Locals
    <3> QED
      BY <1>1, <2>1, <3>1, FreeContent DEF Apart
  <2>2. ASSUME NEW s, proc[x].pc \notin Guarded, proc' = [proc EXCEPT ![x].todo = s]
        PROVE  Content(x)'
    <3>1. proc'[x].pc = proc[x].pc /\ proc'[x].gone = proc[x].gone
      BY <2>2, LocalTypes DEF TypeOK, Locals
    <3> QED
      BY <1>1, <2>2, <3>1, FreeContent DEF Apart
  <2>3. CASE ReadFailing(x) \/ SetFailed(x) \/ ReadMoves(x) \/ MoveToStorage(x)
    <3>1. CASE ReadFailing(x) \/ ReadMoves(x)
      BY <2>1, <3>1 DEF ReadFailing, ReadMoves, Guarded
    <3>2. CASE SetFailed(x)
      BY <1>1, <2>2, <3>2, ReturnContent DEF SetFailed, At, Guarded, Apart
    <3>3. CASE MoveToStorage(x)
      BY <1>1, <2>2, <3>3, ReturnContent DEF MoveToStorage, At, Guarded, Apart
    <3> QED
      BY <2>3, <3>1, <3>2, <3>3
  <2>4. CASE \/ FlashDisk(x) \/ SameId(x) \/ WritePart(x) \/ RemoveDir(x) \/ MovesDone(x)
             \/ DropDir(x) \/ DropRegs(x) \/ DeleteLook(x)
    BY <1>1, <2>4, GotoContent, ReturnContent
       DEF FlashDisk, SameId, WritePart, RemoveDir, MovesDone, DropDir, DropRegs, DeleteLook,
           Guarded, Apart
  <2> QED
    BY <2>3, <2>4
<1> QED
  BY <1>1, <1>2, <1>3, <1>4, StorelessStep DEF Storeless, Apart

\* A record is made for the id and the hash of its upload.
LEMMA InsertContents ==
  ASSUME TypeOK, Roles, Contents, NEW x \in Procs, Insert(x)
  PROVE  Contents'
<1>1. Apart(x) /\ SendersKept /\ \A u \in Uploads : Prepared(u)' => Prepared(u)
  BY WorkingApart, WorkingSenders DEF Working, Insert, Prepared
<1>2. Content(x)'
  BY <1>1, GotoContent, ReturnContent DEF Insert, Guarded, Apart
<1>3. SendersTrue' /\ FilesTrue' /\ SnapsTrue' /\ StoredKept
  BY <1>1, TrueKept DEF Insert, cache, db
<1>4. RecordsTrue'
  <2> DEFINE v == proc[x].u
  <2>1. v \in Uploads /\ Meta(v) \in Metas /\ Hash(v) \in Hashes
    BY AskFacts DEF Insert, At, Roles, Role, Preparing
  <2>2. \A m \in Metas, h \in Hashes :
          multipart'[m, h] = multipart[m, h] \/ <<m, h>> = <<Meta(v), Hash(v)>>
    BY <2>1 DEF Insert, TypeOK
  <2> QED
    BY <1>1, <2>1, <2>2, OwnPromise, PromisesKept DEF RecordsTrue, Contents, Apart
<1> QED
  BY <1>1, <1>2, <1>3, <1>4, ContentsBuild DEF Apart

\* The record is removed: contents stay true.
LEMMA DropRecordContents ==
  ASSUME TypeOK, Roles, Contents, NEW x \in Procs, DropRecord(x)
  PROVE  Contents'
<1>1. Apart(x) /\ SendersKept /\ \A u \in Uploads : Prepared(u)' => Prepared(u)
  BY WorkingApart, WorkingSenders DEF Working, DropRecord, Prepared
<1>2. Content(x)'
  BY <1>1, GotoContent, ReturnContent DEF DropRecord, Guarded, Apart
<1>3. SendersTrue' /\ FilesTrue' /\ SnapsTrue' /\ StoredKept
  BY <1>1, TrueKept DEF DropRecord, cache, db
<1>4. RecordsTrue'
  <2>1. \A m \in Metas, h \in Hashes :
            multipart'[m, h] = multipart[m, h] \/ multipart'[m, h] = NoRecord
    BY DEF DropRecord, TypeOK
  <2>2. ~NoRecord.open
    BY DEF NoRecord
  <2> QED
    BY <2>1, <2>2, PromisesKept DEF RecordsTrue, Contents, DropRecord
<1> QED
  BY <1>1, <1>2, <1>3, <1>4, ContentsBuild DEF Apart

\* The file that is written has the hash it was compared with.
LEMMA WriteNormalContents ==
  ASSUME TypeOK, Roles, Contents, NEW x \in Procs, WriteNormal(x)
  PROVE  Contents'
<1>1. Apart(x) /\ SendersKept /\ \A u \in Uploads : Prepared(u)' => Prepared(u)
  BY WorkingApart, WorkingSenders DEF Working, WriteNormal, Prepared
<1>2. Content(x)'
  BY <1>1, GotoContent, ReturnContent DEF WriteNormal, Guarded, Apart
<1>3. SendersTrue' /\ RecordsTrue' /\ SnapsTrue' /\ StoredKept
  BY <1>1, TrueKept DEF WriteNormal, redis, db
<1>4. FilesTrue'
  <2>1. <<Target(x), proc[x].piece>> \in Promises
    BY DEF Contents, Content, WriteNormal, At
  <2>2. \A m \in Metas : normal'[m] = normal[m] \/ (m = Target(x) /\ normal'[m] = proc[x].piece)
    BY DEF WriteNormal, TypeOK
  <2> QED
    BY <2>1, <2>2, PromisesKept DEF FilesTrue, Contents, WriteNormal, db
<1> QED
  BY <1>1, <1>2, <1>3, <1>4, ContentsBuild DEF Apart

\* The file of an id is renamed to that of a snapshot with that id.
LEMMA MoveToSnapshotContents ==
  ASSUME TypeOK, Roles, Contents, NEW x \in Procs, MoveToSnapshot(x)
  PROVE  Contents'
<1>1. Apart(x) /\ SendersKept /\ \A u \in Uploads : Prepared(u)' => Prepared(u)
  BY WorkingApart, WorkingSenders DEF Working, MoveToSnapshot, Prepared
<1>2. Content(x)'
  <2>1. CASE Return(x)
    BY <1>1, <2>1, ReturnContent DEF Apart
  <2>2. ASSUME NEW u, NEW s,
               proc' = [proc EXCEPT ![x].pc = "addSnapshot", ![x].move = u, ![x].todo = s]
        PROVE  Content(x)'
    <3>1. proc'[x].pc \notin Guarded /\ proc'[x].gone = proc[x].gone
      BY <2>2, LocalTypes DEF TypeOK, Locals, Guarded
    <3> QED
      BY <1>1, <3>1, FreeContent DEF Apart
  <2> QED
    BY <2>1, <2>2 DEF MoveToSnapshot
<1>3. SendersTrue' /\ RecordsTrue' /\ SnapsTrue' /\ StoredKept
  BY <1>1, TrueKept DEF MoveToSnapshot, redis, db
<1>4. FilesTrue'
  <2>1. \A m \in Metas :
          /\ normal'[m] = normal[m] \/ normal'[m] = None
          /\ snapfile'[m] = snapfile[m] \/ snapfile'[m] = normal[m]
    BY DEF MoveToSnapshot, TypeOK, cache
  <2> QED
    BY <2>1, PromisesKept DEF FilesTrue, Contents, MoveToSnapshot, db
<1> QED
  BY <1>1, <1>2, <1>3, <1>4, ContentsBuild DEF Apart

\* A snapshot is recorded: contents stay true.
LEMMA AddSnapshotContents ==
  ASSUME TypeOK, Roles, Contents, NEW x \in Procs, AddSnapshot(x)
  PROVE  Contents'
<1>1. Apart(x) /\ SendersKept /\ \A u \in Uploads : Prepared(u)' => Prepared(u)
  BY WorkingApart, WorkingSenders DEF Working, AddSnapshot, Prepared
<1>2. Content(x)'
  BY <1>1, GotoContent, ReturnContent DEF AddSnapshot, Guarded, Apart
<1>3. SendersTrue' /\ RecordsTrue' /\ FilesTrue' /\ StoredKept
  BY <1>1, TrueKept DEF AddSnapshot, cache, db
<1>4. SnapsTrue'
  <2>1. PICK v \in Uploads : v = proc[x].move /\ Meta(v) = Target(x)
    BY LocalTypes DEF AddSnapshot, At, Roles, Role
  <2>2. \A s \in snaps' : s \in snaps \/ (s.meta = Target(x) /\ s.hash = Hash(v))
    BY <2>1 DEF AddSnapshot, NewSnapshot
  <2>3. <<Target(x), Hash(v)>> \in Promises
    BY <2>1, OwnPromise
  <2>4. Promises' = Promises
    BY PromisesKept DEF AddSnapshot
  <2>5. \A s \in snaps : <<s.meta, s.hash>> \in Promises
    BY DEF Contents, SnapsTrue
  <2> QED
    BY <2>2, <2>3, <2>4, <2>5 DEF SnapsTrue
<1> QED
  BY <1>1, <1>2, <1>3, <1>4, ContentsBuild DEF Apart

\* The file of a snapshot is removed: contents stay true.
LEMMA DeleteFileContents ==
  ASSUME TypeOK, Roles, Contents, NEW x \in Procs, DeleteFile(x)
  PROVE  Contents'
<1>1. Apart(x) /\ SendersKept /\ \A u \in Uploads : Prepared(u)' => Prepared(u)
  BY WorkingApart, WorkingSenders DEF Working, DeleteFile, Prepared
<1>2. Content(x)'
  BY <1>1, GotoContent, ReturnContent DEF DeleteFile, Guarded, Apart
<1>3. SendersTrue' /\ RecordsTrue' /\ SnapsTrue' /\ StoredKept
  BY <1>1, TrueKept DEF DeleteFile, redis, db
<1>4. FilesTrue'
  <2>1. \A m \in Metas : snapfile'[m] = snapfile[m] \/ snapfile'[m] = None
    BY DEF DeleteFile, TypeOK
  <2> QED
    BY <2>1, PromisesKept DEF FilesTrue, Contents, DeleteFile, db
<1> QED
  BY <1>1, <1>2, <1>3, <1>4, ContentsBuild DEF Apart

\* A file with the hash is looked for: contents stay true.
LEMMA FlashContents ==
  ASSUME TypeOK, Roles, Contents, NEW x \in Procs, Flash(x)
  PROVE  Contents'
<1>1. x \in Procs /\ asks' = asks
  BY DEF Procs, Flash
<1>2. Storeless
  BY DEF Flash, Storeless, SendersKept, Prepared, redis, cache, db
<1>3. CASE Goto(x, "sameHash")
  BY <1>1, <1>2, <1>3, GotoContent, StorelessStep DEF Guarded
<1>4. ASSUME NEW m, proc' = [proc EXCEPT ![x].pc = "flashDisk", ![x].found = m]
      PROVE  Contents'
  <2>1. /\ proc'[x].pc \notin Guarded /\ proc'[x].gone = proc[x].gone
        /\ \A y \in Procs : y # x => proc'[y] = proc[y]
    BY <1>1, <1>4, LocalTypes DEF TypeOK, Locals, Guarded
  <2> QED
    BY <1>1, <1>2, <2>1, FreeContent, StorelessStep
<1>5. ASSUME NEW s \in snaps, s.hash = Hash(proc[x].u),
             proc' = [proc EXCEPT ![x].pc = "flashSnapshot", ![x].found = s.meta]
      PROVE  Contents'
  <2>1. /\ proc'[x].pc = "flashSnapshot" /\ proc'[x].gone = proc[x].gone
        /\ proc'[x].found = s.meta /\ proc'[x].u = proc[x].u
        /\ \A y \in Procs : y # x => proc'[y] = proc[y]
    BY <1>1, <1>5, LocalTypes DEF TypeOK, Locals
  <2>2. <<s.meta, Hash(proc[x].u)>> \in Promises
    BY <1>5 DEF Contents, SnapsTrue
  <2>3. \A u : Hash(u)' = Hash(u)
    BY <1>1, SameAsks
  <2>4. Content(x)'
    BY <1>1, <2>1, <2>2, <2>3, PromisesKept DEF Content, Contents
  <2> QED
    BY <1>1, <1>2, <2>1, <2>4, StorelessStep
<1> QED
  BY <1>3, <1>4, <1>5 DEF Flash

\* A flash upload makes a snapshot: contents stay true.
LEMMA FlashSnapshotContents ==
  ASSUME TypeOK, Roles, Contents, NEW x \in Procs, FlashSnapshot(x)
  PROVE  Contents'
<1>1. x \in Procs /\ asks' = asks
  BY DEF Procs, FlashSnapshot
<1>2. SendersKept /\ \A u \in Uploads : Prepared(u)' => Prepared(u)
  BY <1>1, PreparerKept DEF FlashSnapshot, At, Preparing
<1>3. SendersTrue' /\ RecordsTrue' /\ FilesTrue' /\ StoredKept
  BY <1>2, TrueKept DEF FlashSnapshot, cache, db
<1>4. SnapsTrue'
  <2>1. <<proc[x].found, Hash(proc[x].u)>> \in Promises
    BY <1>1 DEF FlashSnapshot, At, Contents, Content
  <2>2. \A s \in snaps' : s \in snaps \/ (s.meta = proc[x].found /\ s.hash = Hash(proc[x].u))
    BY DEF FlashSnapshot, NewSnapshot
  <2>3. Promises' = Promises
    BY <1>1, PromisesKept
  <2>4. \A s \in snaps : <<s.meta, s.hash>> \in Promises
    BY DEF Contents, SnapsTrue
  <2> QED
    BY <2>1, <2>2, <2>3, <2>4 DEF SnapsTrue
<1>5. Content(x)' /\ \A y \in Procs : y # x => proc'[y] = proc[y]
  BY <1>1, ReturnContent DEF FlashSnapshot
<1> QED
  BY <1>1, <1>2, <1>3, <1>4, <1>5, ContentsBuild

\* A record of the same hash is joined: contents stay true.
LEMMA SameHashContents ==
  ASSUME TypeOK, Roles, Contents, NEW x \in Procs, SameHash(x)
  PROVE  Contents'
<1>1. x \in Procs /\ asks' = asks /\ proc[x].pc \in Preparing /\ proc[x].u \in Uploads
  BY DEF Procs, SameHash, At, Roles, Role, Preparing
<1>2. CASE Goto(x, "sameId") /\ UNCHANGED client
  <2>1. Storeless
    BY <1>2 DEF SameHash, Storeless, SendersKept, Prepared, redis, cache, db
  <2> QED
    BY <1>1, <1>2, <2>1, GotoContent, StorelessStep DEF Guarded
<1>3. ASSUME NEW m \in Metas, multipart[m, Hash(proc[x].u)].open, Answer(x, "joined", m), Return(x)
      PROVE  Contents'
  <2>1. /\ SendersKept
        /\ \A u \in Uploads : u # proc[x].u => client'[u] = client[u]
        /\ client'[proc[x].u].meta = m
    BY <1>1, <1>3, PreparerKept
  <2>2. <<m, Hash(proc[x].u)>> \in Promises
    BY <1>1, <1>3, AskFacts DEF Contents, RecordsTrue
  <2>3. Promises' = Promises /\ \A u : Hash(u)' = Hash(u)
    BY <1>1, SameAsks, PromisesKept
  <2>4. SendersTrue'
    BY <2>1, <2>2, <2>3 DEF Contents, SendersTrue, Prepared
  <2>5. RecordsTrue' /\ FilesTrue' /\ SnapsTrue' /\ StoredKept
    BY <2>1, TrueKept DEF SameHash, redis, cache, db
  <2> QED
    BY <1>1, <1>3, <2>1, <2>4, <2>5, ReturnContent, ContentsBuild
<1> QED
  BY <1>2, <1>3 DEF SameHash

\* A move is registered: contents stay true.
LEMMA RegisterContents ==
  ASSUME TypeOK, Roles, Contents, NEW x \in Procs, Register(x)
  PROVE  Contents'
<1>1. x \in Procs /\ asks' = asks /\ proc[x].u \in Uploads
  BY DEF Procs, Register, At, Roles, Role, Preparing
<1>2. /\ SendersKept
      /\ \A u \in Uploads : u # proc[x].u => client'[u] = client[u]
      /\ client'[proc[x].u].meta = Meta(proc[x].u)
  BY <1>1, PreparerKept DEF Register, At, Preparing
<1>3. Promises' = Promises /\ \A u : Hash(u)' = Hash(u)
  BY <1>1, SameAsks, PromisesKept
<1>4. SendersTrue'
  BY <1>1, <1>2, <1>3, OwnPromise DEF Contents, SendersTrue, Prepared
<1>5. RecordsTrue' /\ FilesTrue' /\ SnapsTrue' /\ StoredKept
  BY <1>2, TrueKept DEF Register, cache, db
<1> QED
  BY <1>1, <1>2, <1>4, <1>5, ReturnContent, ContentsBuild DEF Register

\* The record is read: contents stay true.
LEMMA ReadRecordContents ==
  ASSUME TypeOK, Roles, Contents, NEW x \in Procs, ReadRecord(x)
  PROVE  Contents'
<1>1. x \in Procs /\ asks' = asks /\ proc[x].pc \in Serving
  BY DEF Procs, ReadRecord, At, Serving
<1>2. Storeless
  BY DEF ReadRecord, Storeless, SendersKept, Prepared, redis, cache, db
<1>3. CASE Return(x)
  BY <1>1, <1>2, <1>3, ReturnContent, StorelessStep
<1>4. ASSUME NEW h \in Hashes, NEW g, multipart[Target(x), h].open,
             proc' = [proc EXCEPT ![x].pc = "saveRecord", ![x].hash = h, ![x].got = g]
      PROVE  Contents'
  <2>1. /\ proc'[x].pc = "saveRecord" /\ proc'[x].gone = proc[x].gone
        /\ proc'[x].hash = h /\ proc'[x].u = proc[x].u
        /\ \A y \in Procs : y # x => proc'[y] = proc[y]
    BY <1>1, <1>4, LocalTypes DEF TypeOK, Locals
  <2>2. <<Target(x), h>> \in Promises
    BY <1>1, <1>4, TargetId DEF Contents, RecordsTrue
  <2>3. Target(x)' = Target(x)
    BY <1>1, <2>1, SameAsks DEF Target, ReadRecord
  <2>4. Content(x)'
    BY <1>1, <2>1, <2>2, <2>3, PromisesKept DEF Content, Contents
  <2> QED
    BY <1>1, <1>2, <2>1, <2>4, StorelessStep
<1> QED
  BY <1>3, <1>4 DEF ReadRecord, RecordsOf

\* The record is written back: contents stay true.
LEMMA SaveRecordContents ==
  ASSUME TypeOK, Roles, Contents, NEW x \in Procs, SaveRecord(x)
  PROVE  Contents'
<1>1. x \in Procs /\ asks' = asks /\ proc[x].pc = "saveRecord" /\ proc[x].u \in Uploads
  BY DEF Procs, SaveRecord, At, Roles, Role, Serving
<1>2. SameSenders
  BY MissingQuiet DEF SaveRecord, SameSenders
<1>3. SendersKept /\ SendersTrue' /\ FilesTrue' /\ SnapsTrue' /\ StoredKept
  BY <1>2, SameKept, TrueKept DEF SaveRecord, cache, db
<1>4. <<Target(x), proc[x].hash>> \in Promises
  BY <1>1 DEF Contents, Content
<1>5. RecordsTrue'
  <2>1. \A m \in Metas, h \in Hashes :
          multipart'[m, h] = multipart[m, h] \/ <<m, h>> = <<Target(x), proc[x].hash>>
    BY DEF SaveRecord, SavedRecord, TypeOK
  <2>2. Promises' = Promises
    BY <1>1, PromisesKept
  <2> QED
    BY <1>4, <2>1, <2>2 DEF RecordsTrue, Contents
<1>6. CASE Return(x)
  BY <1>1, <1>3, <1>5, <1>6, ReturnContent, ContentsBuild
<1>7. CASE Goto(x, "gather")
  <2>1. Target(x)' = Target(x)
    BY <1>1, <1>2, <1>7, GotoFields, SameAsks DEF Target, SameSenders
  <2>2. /\ proc'[x].pc = "gather" /\ proc'[x].hash = proc[x].hash /\ proc'[x].gone = proc[x].gone
        /\ \A y \in Procs : y # x => proc'[y] = proc[y]
    BY <1>1, <1>7, GotoFields
  <2>3. Content(x)'
    BY <1>1, <1>4, <2>1, <2>2, PromisesKept DEF Content, Contents
  <2> QED
    BY <1>1, <1>3, <1>5, <2>2, <2>3, ContentsBuild
<1> QED
  BY <1>6, <1>7 DEF SaveRecord

\* The parts are gathered and compared: contents stay true.
LEMMA GatherContents ==
  ASSUME TypeOK, Roles, Contents, NEW x \in Procs, Gather(x)
  PROVE  Contents'
<1>1. x \in Procs /\ asks' = asks /\ proc[x].pc = "gather"
  BY DEF Procs, Gather, At
<1>2. Storeless
  BY DEF Gather, Storeless, SendersKept, Prepared, redis, cache, db
<1>3. CASE Return(x) \/ Goto(x, "readFailing")
  BY <1>1, <1>2, <1>3, ReturnContent, GotoContent, StorelessStep DEF Guarded
<1>4. CASE /\ ContentOf(Target(x)) = proc[x].hash
           /\ proc' = [proc EXCEPT ![x].pc = "writeNormal", ![x].piece = ContentOf(Target(x))]
  <2>1. /\ proc'[x].pc = "writeNormal" /\ proc'[x].gone = proc[x].gone
        /\ proc'[x].hash = proc[x].hash /\ proc'[x].u = proc[x].u
        /\ proc'[x].piece = proc[x].hash
        /\ \A y \in Procs : y # x => proc'[y] = proc[y]
    BY <1>1, <1>4, LocalTypes DEF TypeOK, Locals
  <2>2. <<Target(x), proc[x].hash>> \in Promises
    BY <1>1 DEF Contents, Content
  <2>3. Target(x)' = Target(x)
    BY <1>1, <2>1, SameAsks DEF Target, Gather
  <2>4. Content(x)'
    BY <1>1, <2>1, <2>2, <2>3, PromisesKept DEF Content, Contents
  <2> QED
    BY <1>1, <1>2, <2>1, <2>4, StorelessStep
<1> QED
  BY <1>3, <1>4 DEF Gather

\* The runner reads the file: contents stay true.
LEMMA RunReadContents ==
  ASSUME TypeOK, Roles, Contents, RunRead
  PROVE  Contents'
<1>1. Runner \in Procs /\ asks' = asks /\ proc[Runner].pc = "runRead"
  BY DEF Procs, RunRead, At
<1>2. Storeless
  BY DEF RunRead, Storeless, SendersKept, Prepared, redis, cache, db
<1>3. CASE Return(Runner)
  BY <1>1, <1>2, <1>3, ReturnContent, StorelessStep
<1>4. CASE /\ normal[Mine] # None
           /\ proc' = [proc EXCEPT ![Runner].pc = "runUpload", ![Runner].piece = normal[Mine]]
  <2>1. /\ proc'[Runner].pc = "runUpload" /\ proc'[Runner].gone = proc[Runner].gone
        /\ proc'[Runner].u = proc[Runner].u /\ proc'[Runner].piece = normal[Mine]
        /\ \A y \in Procs : y # Runner => proc'[y] = proc[y]
    BY <1>1, <1>4, LocalTypes DEF TypeOK, Locals
  <2>2. Mine \in Metas
    BY <1>1, AskFacts DEF Mine, Roles, Role, Moving
  <2>3. <<Mine, normal[Mine]>> \in Promises
    BY <1>4, <2>2 DEF Contents, FilesTrue
  <2>4. \A u : Meta(u)' = Meta(u)
    BY <1>1, SameAsks
  <2>5. Content(Runner)'
    BY <1>1, <1>4, <2>1, <2>3, <2>4, PromisesKept DEF Content, Contents, Mine
  <2> QED
    BY <1>1, <1>2, <2>1, <2>5, StorelessStep
<1> QED
  BY <1>3, <1>4 DEF RunRead

\* The runner stores the object: contents stay true.
LEMMA RunUploadContents ==
  ASSUME TypeOK, Roles, Contents, RunUpload
  PROVE  Contents'
<1>1. Runner \in Procs /\ asks' = asks /\ proc[Runner].pc = "runUpload"
  BY DEF Procs, RunUpload, At
<1>2. SameSenders
  BY DEF RunUpload, SameSenders
<1>3. SendersKept /\ SendersTrue' /\ RecordsTrue' /\ SnapsTrue'
  BY <1>2, SameKept, TrueKept DEF RunUpload, redis
<1>4. Mine \in Metas
  BY <1>1, AskFacts DEF Mine, Roles, Role, Moving
<1>5. proc[Runner].piece # None /\ <<Mine, proc[Runner].piece>> \in Promises
  BY <1>1 DEF Contents, Content, Mine
<1>6. \A m \in Metas : storage'[m] = IF m = Mine THEN proc[Runner].piece ELSE storage[m]
  BY DEF RunUpload, TypeOK
<1>7. FilesTrue' /\ StoredKept
  BY <1>1, <1>5, <1>6, PromisesKept DEF FilesTrue, StoredKept, Contents, RunUpload, cache
<1>8. Goto(Runner, "runMeta")
  BY DEF RunUpload
<1>9. Content(Runner)'
  <2>1. \A u : Meta(u)' = Meta(u)
    BY <1>1, SameAsks
  <2>2. storage'[Mine] # None
    BY <1>4, <1>5, <1>6
  <2>3. /\ proc'[Runner].pc = "runMeta" /\ proc'[Runner].u = proc[Runner].u
        /\ proc'[Runner].gone = proc[Runner].gone
    BY <1>1, <1>8, GotoFields
  <2> QED
    BY <1>1, <2>1, <2>2, <2>3, PromisesKept DEF Content, Contents, Mine
<1> QED
  BY <1>1, <1>3, <1>7, <1>8, <1>9, GotoFields, ContentsBuild

\* The row of a file is written once the object is stored.
LEMMA RunMetaContents ==
  ASSUME TypeOK, Roles, Contents, RunMeta
  PROVE  Contents'
<1>1. Runner \in Procs /\ Apart(Runner) /\ SendersKept
  BY RunningApart DEF Running, RunMeta, SendersKept, Procs
<1>2. Content(Runner)'
  BY <1>1, GotoContent, ReturnContent DEF RunMeta, Guarded, Apart
<1>3. SendersTrue' /\ RecordsTrue' /\ SnapsTrue' /\ StoredKept
  BY <1>1, TrueKept DEF RunMeta, Prepared, redis
<1>4. FilesTrue'
  <2> DEFINE v == proc[Runner].u
  <2>1. v \in Uploads /\ (metas' # metas => storage[Meta(v)] # None)
    BY <1>1 DEF Contents, Content, RunMeta, At, Roles, Role, Moving
  <2>2. \A m \in Metas : metas'[m] = metas[m] \/ (m = Meta(v) /\ metas'[m] = Hash(v))
    BY DEF RunMeta, Mine, TypeOK
  <2> QED
    BY <2>1, <2>2, OwnPromise, PromisesKept DEF FilesTrue, Contents, RunMeta, cache
<1> QED
  BY <1>1, <1>2, <1>3, <1>4, ContentsBuild DEF Apart

\* Steps of the runner that move no content.
LEMMA RunnerContents ==
  ASSUME TypeOK, Roles, Contents, RunFailed \/ RunRefused \/ RunDisk \/ RunNormal
  PROVE  Contents'
<1>1. Runner \in Procs /\ Apart(Runner) /\ SendersKept
  BY RunningApart
     DEF Running, RunFailed, RunRefused, RunDisk, RunNormal, SendersKept, Procs, Apart,
                      Goto, TypeOK
<1>2. Content(Runner)'
  BY <1>1, GotoContent, ReturnContent
     DEF RunFailed, RunRefused, RunDisk, RunNormal, Guarded, Apart
<1>3. SendersTrue' /\ RecordsTrue' /\ SnapsTrue' /\ StoredKept
  BY <1>1, TrueKept DEF RunFailed, RunRefused, RunDisk, RunNormal, Prepared, redis, db
<1>4. FilesTrue'
  <2>1. \A m \in Metas : normal'[m] = normal[m] \/ normal'[m] = None
    BY DEF RunFailed, RunRefused, RunDisk, RunNormal, TypeOK, cache
  <2> QED
    BY <1>1, <2>1, PromisesKept
       DEF FilesTrue, Contents, Apart, RunFailed, RunRefused, RunDisk, RunNormal,
                                    cache, db
<1> QED
  BY <1>1, <1>2, <1>3, <1>4, ContentsBuild DEF Apart

\* The runner takes a command: contents stay true.
LEMMA TakeContents ==
  ASSUME TypeOK, Roles, Contents, Take
  PROVE  Contents'
<1>1. Runner \in Procs
  BY DEF Procs
<1>2. Storeless
  BY DEF Take, Storeless, SendersKept, Prepared, redis, cache, db
<1>3. CASE UNCHANGED proc
  <2>1. Content(Runner)'
    BY <1>1, <1>2, <1>3, OtherContent, TrueKept DEF Storeless
  <2> QED
    BY <1>1, <1>2, <1>3, <2>1, StorelessStep
<1>4. CASE proc' = [proc EXCEPT ![Runner] = [Idle EXCEPT !.pc = "runRead", !.u = Head(queue)]]
  <2> DEFINE r == [Idle EXCEPT !.pc = "runRead", !.u = Head(queue)]
  <2>1. r.pc \notin Guarded /\ r.gone = None
    BY DEF Idle, Guarded
  <2>2. proc' = [proc EXCEPT ![Runner] = r] /\ asks' = asks
    BY <1>4 DEF Take
  <2> HIDE DEF r
  <2> QED
    BY <1>1, <1>2, <2>1, <2>2, FreshContent, StorelessStep
<1> QED
  BY <1>3, <1>4 DEF Take

\* A removal of a snapshot is taken: contents stay true.
LEMMA DeleteContents ==
  ASSUME TypeOK, Roles, Contents, NEW x \in Handlers, NEW s \in snaps, Delete(x, s)
  PROVE  Contents'
<1>1. x \in Procs
  BY DEF Procs
<1>2. SameSenders /\ SendersKept
  BY SameKept DEF Delete, SameSenders
<1>3. SendersTrue' /\ RecordsTrue' /\ FilesTrue' /\ StoredKept
  BY <1>2, SameKept, TrueKept DEF Delete, cache, db
<1>4. SnapsTrue'
  BY PromisesKept DEF Delete, SnapsTrue, Contents
<1>5. /\ proc'[x] = [Idle EXCEPT !.pc = "snapLook", !.gone = s]
      /\ \A y \in Procs : y # x => proc'[y] = proc[y]
  BY <1>1 DEF Delete, TypeOK
<1>6. proc'[x].pc = "snapLook" /\ proc'[x].gone = s
  BY <1>5 DEF Idle
<1>7. Content(x)'
  BY <1>6, PromisesKept DEF Content, Contents, SnapsTrue, Delete
<1> QED
  BY <1>1, <1>2, <1>3, <1>4, <1>5, <1>7, ContentsBuild

\* A command fails: contents stay true.
LEMMA FailContents ==
  ASSUME TypeOK, Roles, Contents, NEW x \in Procs, Fail(x)
  PROVE  Contents'
<1>1. SendersKept /\ \A u \in Uploads : Prepared(u)' => Prepared(u)
  BY PreparerKept, SameKept DEF Fail, Preparing, SameSenders
<1>2. Storeless
  BY <1>1 DEF Fail, Storeless, redis, cache, db
<1> QED
  BY <1>2, ReturnContent, StorelessStep DEF Fail

\* co restarts: contents stay true.
LEMMA CrashContents ==
  ASSUME TypeOK, Roles, Contents, Crash
  PROVE  Contents'
<1>1. \A u \in Uploads : /\ client[u] \in Senders
                         /\ client'[u].meta = client[u].meta
                         /\ (Prepared(u)' <=> Prepared(u))
                         /\ Prepared(u) => client'[u] = client[u]
  BY DEF Crash, TypeOK, Senders, Prepared
<1>2. SendersKept
  BY <1>1 DEF Crash, SendersKept
<1>3. SendersTrue' /\ RecordsTrue' /\ FilesTrue' /\ SnapsTrue'
  BY <1>1, <1>2, TrueKept DEF Crash, redis, cache, db
<1>4. \A x \in Procs : proc'[x].pc = "idle" /\ proc'[x].gone = None
  BY DEF Crash, Idle
<1>5. \A x \in Procs : Content(x)'
  BY <1>4 DEF Content
<1> QED
  BY <1>3, <1>5 DEF Contents

\* The lease of a record ends: contents stay true.
LEMMA ExpireRecordContents ==
  ASSUME TypeOK, Roles, Contents, ExpireRecord
  PROVE  Contents'
<1>1. SameSenders /\ proc' = proc
  BY DEF ExpireRecord, SameSenders
<1>2. SendersKept /\ SendersTrue' /\ FilesTrue' /\ SnapsTrue' /\ StoredKept
  BY <1>1, SameKept, TrueKept DEF ExpireRecord, cache, db
<1>3. RecordsTrue'
  <2>1. \A m \in Metas, h \in Hashes :
            multipart'[m, h] = multipart[m, h] \/ multipart'[m, h] = NoRecord
    BY DEF ExpireRecord, TypeOK
  <2>2. ~NoRecord.open
    BY DEF NoRecord
  <2> QED
    BY <2>1, <2>2, PromisesKept DEF RecordsTrue, Contents, ExpireRecord
<1> QED
  BY <1>1, <1>2, <1>3, OtherContent DEF Contents

\* The lease of a registration ends: contents stay true.
LEMMA ExpireMoveContents ==
  ASSUME TypeOK, Roles, Contents, ExpireMove
  PROVE  Contents'
<1>1. SameSenders /\ proc' = proc
  BY DEF ExpireMove, SameSenders
<1>2. SendersKept /\ SendersTrue' /\ RecordsTrue' /\ FilesTrue' /\ SnapsTrue' /\ StoredKept
  BY <1>1, SameKept, TrueKept DEF ExpireMove, cache, db
<1> QED
  BY <1>1, <1>2, OtherContent DEF Contents

\* A request is taken.
LEMMA AskingContents ==
  ASSUME TypeOK, Roles, Contents, NEW x \in Handlers, NEW u \in Uploads,
         \/ Prepare(x, u) \/ Cancel(x, u) \/ Retry(x, u)
         \/ \E p \in asks.parts, piece \in Hashes \cup {Bad} : Send(x, u, p, piece)
  PROVE  Contents'
<1>1. x \in Procs /\ Apart(x)
  BY AskingApart DEF Procs
<1>2. Storeless
  <2>1. CASE Prepare(x, u)
    <3>1. \A v \in Uploads : /\ Prepared(v)' <=> Prepared(v)
                             /\ Prepared(v) => client'[v] = client[v]
      BY <2>1 DEF Prepare, Prepared, TypeOK, Senders
    <3> QED
      BY <2>1, <3>1 DEF Prepare, Storeless, SendersKept, redis, cache, db
  <2>2. CASE \/ Cancel(x, u) \/ Retry(x, u)
             \/ \E p \in asks.parts, piece \in Hashes \cup {Bad} : Send(x, u, p, piece)
    BY <2>2 DEF Cancel, Retry, Send, Storeless, SendersKept, Prepared, redis, cache, db
  <2> QED
    BY <2>1, <2>2
<1>3. ASSUME NEW r, proc' = [proc EXCEPT ![x] = r], r.pc \notin Guarded, r.gone = None
      PROVE  Content(x)'
  BY <1>1, <1>3, FreshContent DEF Apart
<1>4. CASE Prepare(x, u) \/ Cancel(x, u) \/ Retry(x, u)
  <2>1. ASSUME NEW pc, pc \notin Guarded, proc' = [proc EXCEPT ![x] = [Idle EXCEPT !.pc = pc,
            !.u = u]]
        PROVE  Content(x)'
    <3> DEFINE r == [Idle EXCEPT !.pc = pc, !.u = u]
    <3>1. r.pc \notin Guarded /\ r.gone = None
      BY <2>1 DEF Idle
    <3> QED
      BY <1>3, <2>1, <3>1
  <2>2. Content(x)'
    BY <1>4, <2>1 DEF Prepare, Cancel, Retry, Guarded
  <2> QED
    BY <1>1, <1>2, <2>2, StorelessStep DEF Apart
<1>5. ASSUME NEW p, NEW piece, Send(x, u, p, piece) PROVE Contents'
  <2> DEFINE r == [Idle EXCEPT !.pc = "writePart", !.u = u, !.part = p, !.piece = piece]
  <2>1. r.pc \notin Guarded /\ r.gone = None
    BY DEF Idle, Guarded
  <2>2. proc' = [proc EXCEPT ![x] = r]
    BY <1>5 DEF Send
  <2> HIDE DEF r
  <2> QED
    BY <1>1, <1>2, <1>3, <2>1, <2>2, StorelessStep DEF Apart
<1> QED
  BY <1>4, <1>5

\* Every step keeps contents true.
LEMMA ContentsStep ==
  ASSUME TypeOK, Roles, Contents, Next
  PROVE  Contents'
<1>1. ASSUME NEW x \in Procs, Working(x) PROVE Contents'
  BY <1>1, FlashContents, FlashSnapshotContents, SameHashContents, InsertContents,
     RegisterContents,
     ReadRecordContents, SaveRecordContents, GatherContents, WriteNormalContents,
     MoveToSnapshotContents, AddSnapshotContents, DropRecordContents, DeleteFileContents,
     QuietContents DEF Working
<1>2. ASSUME NEW x \in Handlers, Working(x) PROVE Contents'
  BY <1>1, <1>2 DEF Procs
<1>3. ASSUME Running \/ RunRefused PROVE Contents'
  <2>1. CASE DropRecord(Runner) \/ DropDir(Runner) \/ DropRegs(Runner)
    BY <1>1, <2>1 DEF Working, Procs
  <2> QED
    BY <1>3, <2>1, TakeContents, RunReadContents, RunUploadContents, RunMetaContents,
       RunnerContents
       DEF Running
<1>4. ASSUME NEW x \in Handlers, NEW u \in Uploads,
             \/ Prepare(x, u) \/ Cancel(x, u) \/ Retry(x, u)
             \/ \E p \in asks.parts, piece \in Hashes \cup {Bad} : Send(x, u, p, piece)
      PROVE Contents'
  BY <1>4, AskingContents
<1>5. ASSUME NEW x \in Handlers, NEW s \in snaps, Delete(x, s) PROVE Contents'
  BY <1>5, DeleteContents
<1>6. ASSUME NEW x \in Procs, Fail(x) PROVE Contents'
  BY <1>6, FailContents
<1>7. ASSUME Crash \/ ExpireRecord \/ ExpireMove PROVE Contents'
  BY <1>7, CrashContents, ExpireRecordContents, ExpireMoveContents
<1> QED
  BY <1>2, <1>3, <1>4, <1>5, <1>6, <1>7 DEF Next

\* Before any request: contents stay true.
LEMMA InitContents == Init => Contents
<1> SUFFICES ASSUME Init PROVE Contents
  OBVIOUS
<1>1. \A x \in Procs : proc[x].pc = "idle" /\ proc[x].gone = None
  BY DEF Init, Idle
<1>2. \A x \in Procs : Content(x)
  BY <1>1 DEF Content
<1>3. SendersTrue
  BY DEF Init, SendersTrue, Prepared
<1>4. RecordsTrue
  BY DEF Init, RecordsTrue, NoRecord
<1> QED
  BY <1>2, <1>3, <1>4 DEF Init, Contents, FilesTrue, SnapsTrue

\* Nothing happens: contents stay true.
LEMMA StutterContents ==
  ASSUME TypeOK, Roles, Contents, UNCHANGED vars
  PROVE  Contents'
<1>1. SameSenders /\ proc' = proc
  BY DEF vars, SameSenders
<1>2. SendersKept /\ SendersTrue' /\ RecordsTrue' /\ FilesTrue' /\ SnapsTrue' /\ StoredKept
  BY <1>1, SameKept, TrueKept DEF vars, redis, cache, db
<1> QED
  BY <1>1, <1>2, OtherContent DEF Contents

\* For an id with one content, pairs that were promised agree.
LEMMA ContentTrueHolds ==
  ASSUME TypeOK, Contents
  PROVE  ContentTrue
<1>1. ASSUME NEW m \in Metas, OneContent(m), metas[m] # None PROVE storage[m] = metas[m]
  <2>1. <<m, storage[m]>> \in Promises /\ <<m, metas[m]>> \in Promises
    BY <1>1 DEF Contents, FilesTrue
  <2> QED
    BY <1>1, <2>1 DEF Promises, OneContent
<1>2. ASSUME NEW s \in snaps, OneContent(s.meta), snapfile[s.meta] # None
      PROVE  snapfile[s.meta] = s.hash
  <2>1. s.meta \in Metas
    BY DEF TypeOK, SnapRecords
  <2>2. <<s.meta, snapfile[s.meta]>> \in Promises /\ <<s.meta, s.hash>> \in Promises
    BY <1>2, <2>1 DEF Contents, FilesTrue, SnapsTrue
  <2> QED
    BY <1>2, <2>2 DEF Promises, OneContent
<1> QED
  BY <1>1, <1>2 DEF ContentTrue

\* ContentTrue: file_metadata tells the hash of the object on the storage
\* server, and a snapshot that of its file, whatever parts were damaged,
\* repeated or mixed on the way (complete_part, upload_file,
\* SnapshotService::create).
THEOREM ContentsTrue == Spec => [](Contents /\ ContentTrue)
<1>1. TypeOK /\ Roles /\ Contents /\ [Next]_vars => Contents'
  BY ContentsStep, StutterContents
<1>2. TypeOK /\ Contents => ContentTrue
  BY ContentTrueHolds
<1> QED
  BY InitContents, <1>1, <1>2, TypeCorrect, PTL DEF Spec

-----------------------------------------------------------------------------
\* The steps of the runner after it recorded the file.
Recording == {"runDisk", "runNormal"} \cup Dropping

\* The runner enters a file that is recorded and was not entered.
Entries ==
  /\ OneEntryEach
  /\ proc[Runner].pc \in Recording => metas[Mine] # None
  /\ proc[Runner].pc = "runDisk" => disk[proc[Runner].u].moved = 0

\* Steps that record and enter nothing.
Unentered ==
  /\ asks' = asks /\ metas' = metas
  /\ \A u \in Uploads : disk'[u].moved = disk[u].moved
  /\ \/ proc'[Runner] = proc[Runner]
     \/ proc'[Runner].pc \notin Recording
     \/ /\ proc[Runner].pc \in Recording /\ proc'[Runner].pc \in Recording \ {"runDisk"}
        /\ proc'[Runner].u = proc[Runner].u

\* Steps that record and enter nothing: files are entered once.
LEMMA UnenteredEntries ==
  ASSUME TypeOK, Roles, Entries, Unentered
  PROVE  Entries'
<1>1. \A u : Meta(u)' = Meta(u)
  BY SameAsks DEF Unentered
<1>2. OneEntryEach'
  BY <1>1 DEF Entries, OneEntryEach, Unentered
<1>3. proc[Runner].pc \in Recording => proc[Runner].u \in Uploads
  BY DEF Recording, Roles, Role, Procs, Serving, Moving
<1> QED
  BY <1>1, <1>2, <1>3 DEF Entries, Unentered, Mine, Recording

\* Steps of a handler: files are entered once.
LEMMA WorkingEntries ==
  ASSUME TypeOK, Roles, Entries, NEW x \in Handlers, Working(x)
  PROVE  Entries'
<1> DEFINE Kept == metas' = metas /\ \A u \in Uploads : disk'[u].moved = disk[u].moved
<1>1. ASSUME \/ Flash(x) \/ FlashSnapshot(x) \/ SameHash(x) \/ SameId(x) \/ Insert(x)
             \/ Register(x) \/ WritePart(x) \/ ReadRecord(x) \/ SaveRecord(x)
      PROVE  Kept
  BY <1>1
     DEF Flash, FlashSnapshot, SameHash, SameId, Insert, Register, WritePart, ReadRecord,
         SaveRecord, db, TypeOK
<1>2. ASSUME FlashDisk(x) PROVE Kept
  BY <1>2 DEF FlashDisk, db, TypeOK
<1>3. ASSUME \/ Gather(x) \/ WriteNormal(x) \/ RemoveDir(x) \/ ReadFailing(x)
             \/ SetFailed(x) \/ ReadMoves(x) \/ MovesDone(x) \/ MoveToStorage(x)
             \/ MoveToSnapshot(x)
      PROVE  Kept
  BY <1>3
     DEF Gather, WriteNormal, RemoveDir, ReadFailing, SetFailed, ReadMoves, MovesDone,
         MoveToStorage, MoveToSnapshot, db, TypeOK
<1>4. ASSUME \/ AddSnapshot(x) \/ DropRecord(x) \/ DropDir(x) \/ DropRegs(x)
             \/ DeleteLook(x) \/ DeleteFile(x)
      PROVE  Kept
  BY <1>4 DEF AddSnapshot, DropRecord, DropDir, DropRegs, DeleteLook, DeleteFile, db, TypeOK
<1>5. Kept
  BY <1>1, <1>2, <1>3, <1>4 DEF Working
<1>6. Apart(x) /\ x # Runner /\ Runner \in Procs
  BY WorkingApart, ConstantsAssumption DEF Procs
<1> QED
  BY <1>5, <1>6, UnenteredEntries DEF Unentered, Apart

\* Steps of the runner: files are entered once.
LEMMA RunningEntries ==
  ASSUME TypeOK, Roles, Entries, Running
  PROVE  Entries'
<1>1. Runner \in Procs /\ asks' = asks /\ \A u : Meta(u)' = Meta(u)
  BY RunningApart, SameAsks DEF Apart, Procs
<1>2. \/ proc[Runner].u \in Uploads /\ Mine \in Metas /\ Hash(proc[Runner].u) \in Hashes
      \/ At(Runner, "idle")
  BY <1>1, AskFacts DEF Mine, At, Roles, Role, Moving, Serving
<1>3. CASE Take
  <2>1. metas' = metas /\ disk' = disk
    BY <1>3 DEF Take, db
  <2>2. proc'[Runner] = proc[Runner] \/ proc'[Runner].pc = "runRead"
    <3>1. proc' = proc \/ \E u : proc' = [proc EXCEPT ![Runner] = [Idle EXCEPT !.pc = "runRead", !.u = u]]
      BY <1>3 DEF Take
    <3>2. ASSUME NEW u, proc' = [proc EXCEPT ![Runner] = [Idle EXCEPT !.pc = "runRead", !.u = u]]
          PROVE  proc'[Runner] = [Idle EXCEPT !.pc = "runRead", !.u = u]
      BY <1>1, <3>2 DEF TypeOK
    <3>3. \A u : [Idle EXCEPT !.pc = "runRead", !.u = u].pc = "runRead"
      BY DEF Idle
    <3> QED
      BY <3>1, <3>2, <3>3
  <2>3. "runRead" \notin Recording
    BY DEF Recording, Dropping
  <2> QED
    BY <1>1, <2>1, <2>2, <2>3, UnenteredEntries DEF Unentered
<1>4. CASE RunRead
  <2>1. proc'[Runner].pc \notin Recording
    BY <1>1, <1>4, ReturnFields, LocalTypes
       DEF RunRead, Idle, TypeOK, Locals, Recording, Dropping
  <2> QED
    BY <1>1, <1>4, <2>1, UnenteredEntries DEF RunRead, Unentered, db
<1>5. CASE RunUpload
  BY <1>1, <1>5, GotoFields, UnenteredEntries DEF RunUpload, Unentered, Recording, Dropping
<1>6. CASE RunFailed
  BY <1>1, <1>6, ReturnFields, UnenteredEntries
     DEF RunFailed, Unentered, Idle, db, Recording, Dropping
<1>7. CASE RunMeta
  <2>1. CASE metas[Mine] # None
    BY <1>1, <1>7, <2>1, ReturnFields, UnenteredEntries
       DEF RunMeta, Unentered, Idle, Recording, Dropping
  <2>2. CASE metas[Mine] = None
    <3>1. Goto(Runner, "runDisk") /\ disk' = disk /\
              metas' = [metas EXCEPT ![Mine] = Hash(proc[Runner].u)]
      BY <1>7, <2>2 DEF RunMeta
    <3>2. proc'[Runner].pc = "runDisk" /\ proc'[Runner].u = proc[Runner].u
      BY <1>1, <3>1, GotoFields
    <3>3. At(Runner, "runMeta") /\ proc[Runner].u \in Uploads /\ Mine \in Metas
      BY <1>2, <1>7 DEF RunMeta, At
    <3>4. metas'[Mine] # None /\ \A m \in Metas : metas[m] # None => metas'[m] # None
      BY <1>2, <1>7, <3>1, <3>3, ConstantsAssumption DEF TypeOK, At, RunMeta
    <3>5. OneEntryEach'
      BY <1>1, <3>1, <3>4, AskFacts DEF Entries, OneEntryEach
    <3>6. disk[proc[Runner].u].moved \in Nat /\ disk[proc[Runner].u].moved <= 1
      BY <3>3 DEF TypeOK, Entries, OneEntryEach
    <3>7. disk[proc[Runner].u].moved # 1
      BY <2>2, <3>3 DEF Entries, OneEntryEach, Mine
    <3>8. disk[proc[Runner].u].moved = 0
      BY <3>6, <3>7
    <3> QED
      BY <1>1, <3>1, <3>2, <3>4, <3>5, <3>8 DEF Entries, Mine
  <2> QED
    BY <2>1, <2>2
<1>8. CASE RunDisk
  <2>1. Goto(Runner, "runNormal") /\ metas' = metas
    BY <1>8 DEF RunDisk
  <2>2. proc'[Runner].pc = "runNormal" /\ proc'[Runner].u = proc[Runner].u
    BY <1>1, <2>1, GotoFields
  <2>3. proc[Runner].u \in Uploads /\ disk[proc[Runner].u].moved = 0 /\ metas[Mine] # None
    BY <1>2, <1>8 DEF RunDisk, At, Entries, Recording
  <2>4. \A u \in Uploads :
            disk'[u].moved = IF u = proc[Runner].u THEN disk[u].moved + 1 ELSE disk[u].moved
    BY <1>8 DEF RunDisk, TypeOK
  <2>5. OneEntryEach'
    BY <1>1, <2>1, <2>3, <2>4 DEF Entries, OneEntryEach, Mine
  <2> QED
    BY <1>1, <2>1, <2>2, <2>3, <2>5 DEF Entries, Mine
<1>9. CASE RunNormal
  BY <1>1, <1>9, GotoFields, ReturnFields, UnenteredEntries
     DEF RunNormal, Unentered, At, Idle, db, Recording, Dropping
<1>10. CASE DropRecord(Runner) \/ DropDir(Runner) \/ DropRegs(Runner)
  <2>1. metas' = metas /\ disk' = disk
    BY <1>10 DEF DropRecord, DropDir, DropRegs, db
  <2>2. proc[Runner].pc \in Recording
    BY <1>10 DEF DropRecord, DropDir, DropRegs, At, Recording, Dropping
  <2>3. proc[Runner].move = None
    BY <1>1 DEF Roles, Role
  <2>4. Return(Runner) \/ Goto(Runner, "dropDir") \/ Goto(Runner, "dropRegs")
    BY <1>10, <2>3 DEF DropRecord, DropDir, DropRegs
  <2> QED
    BY <1>1, <2>1, <2>2, <2>4, GotoFields, ReturnFields, UnenteredEntries
       DEF Unentered, Idle, Recording, Dropping
<1> QED
  BY <1>3, <1>4, <1>5, <1>6, <1>7, <1>8, <1>9, <1>10 DEF Running

\* Every step enters files at most once.
LEMMA EntriesStep ==
  ASSUME TypeOK, Roles, Entries, Next
  PROVE  Entries'
<1>1. Runner \in Procs /\ Runner \notin Handlers /\ "idle" \notin Recording
  BY ConstantsAssumption DEF Procs, Recording, Dropping
<1>2. ASSUME NEW x \in Handlers, Working(x) PROVE Entries'
  BY <1>2, WorkingEntries
<1>3. ASSUME NEW x \in Handlers,
             \/ \E u \in Uploads : Prepare(x, u) \/ Cancel(x, u) \/ Retry(x, u)
             \/ \E u \in Uploads : \E p \in asks.parts, piece \in Hashes \cup {Bad} :
                    Send(x, u, p, piece)
             \/ \E s \in snaps : Delete(x, s)
      PROVE Entries'
  <2>1. Apart(x)
    BY <1>3, AskingApart
  <2>2. metas' = metas /\ disk' = disk
    BY <1>3 DEF Prepare, Cancel, Retry, Send, Delete, db
  <2> QED
    BY <1>1, <2>1, <2>2, UnenteredEntries DEF Apart, Unentered
<1>4. ASSUME RunRefused PROVE Entries'
  BY <1>1, <1>4, GotoFields, UnenteredEntries DEF RunRefused, Unentered, db, Recording, Dropping
<1>5. ASSUME NEW x \in Procs, Fail(x) PROVE Entries'
  <2>1. proc'[Runner] = proc[Runner] \/ proc'[Runner].pc = "idle"
    BY <1>1, <1>5, ReturnFields DEF Fail, Idle
  <2> QED
    BY <1>1, <1>5, <2>1, UnenteredEntries DEF Fail, Unentered, db
<1>6. ASSUME Crash PROVE Entries'
  <2>1. proc'[Runner].pc = "idle"
    BY <1>1, <1>6 DEF Crash, Idle
  <2> QED
    BY <1>1, <1>6, <2>1, UnenteredEntries DEF Crash, Unentered, db
<1>7. ASSUME ExpireRecord \/ ExpireMove PROVE Entries'
  BY <1>7, UnenteredEntries DEF ExpireRecord, ExpireMove, Unentered, db
<1> QED
  BY <1>2, <1>3, <1>4, <1>5, <1>6, <1>7, RunningEntries DEF Next

\* OneEntryEach: the runner enters the file of a move in the net disk at most
\* once, after it recorded it, however often the move is queued, fails or is
\* retried (upload_file inserts the row of file_metadata first).
THEOREM EntersOnce == Spec => [](Entries /\ OneEntryEach)
<1>1. Init => Entries
  BY DEF Init, Entries, OneEntryEach, Idle, Recording, Dropping, Procs
<1>2. TypeOK /\ Roles /\ Entries /\ [Next]_vars => Entries'
  <2>1. TypeOK /\ Roles /\ Entries /\ UNCHANGED vars => Entries'
    BY UnenteredEntries DEF vars, db, Unentered
  <2> QED
    BY <2>1, EntriesStep
<1>3. Entries => OneEntryEach
  BY DEF Entries
<1> QED
  BY <1>1, <1>2, <1>3, TypeCorrect, PTL DEF Spec

-----------------------------------------------------------------------------
\* Content h of id m has its file, or its hash was crossed.
Ready(h, m) == OneContent(m) => h \in used.crossed \/ snapfile[m] # None

\* The steps that are about to record a snapshot or to remove a file.
Snapping == {"addSnapshot", "flashSnapshot", "snapFile"}

\* A process about to record a snapshot has its file, one about to remove a
\* file knows no snapshot of the hash, or the hash is crossed.
Snapper(x) ==
  /\ proc[x].pc = "addSnapshot" => Ready(Hash(proc[x].move), Target(x))
  /\ proc[x].pc = "flashSnapshot" => Ready(Hash(proc[x].u), proc[x].found)
  /\ proc[x].pc = "snapFile" =>
       proc[x].gone.hash \in used.crossed \/ \A s \in snaps : s.hash # proc[x].gone.hash

\* The inductive invariant of SnapshotReadable.
Readable ==
  /\ \A s \in snaps : Ready(s.hash, s.meta)
  /\ \A x \in Procs : Snapper(x)

\* Files of snapshots and crossed hashes stay.
FilesStay ==
  /\ asks' = asks /\ used.crossed \subseteq used'.crossed
  /\ \A m \in Metas : snapfile[m] # None => snapfile'[m] # None

\* A file that is there stays while files do.
LEMMA ReadyStays ==
  ASSUME FilesStay, NEW h, NEW m \in Metas, Ready(h, m)
  PROVE  Ready(h, m)'
<1>1. \A u : Meta(u)' = Meta(u) /\ Hash(u)' = Hash(u)
  BY SameAsks DEF FilesStay
<1> QED
  BY <1>1 DEF Ready, OneContent, FilesStay

\* What a process at a step of these knows of its ids.
LEMMA SnapperFacts ==
  ASSUME TypeOK, Roles, Contents, NEW x \in Procs
  PROVE  /\ proc[x].pc = "addSnapshot" =>
              /\ proc[x].u \in Uploads /\ Prepared(proc[x].u)
              /\ Target(x) \in Metas /\ Target(x) = client[proc[x].u].meta
              /\ <<Target(x), Hash(proc[x].u)>> \in Promises
              /\ proc[x].move \in Uploads /\ <<Target(x), Hash(proc[x].move)>> \in Promises
         /\ proc[x].pc = "flashSnapshot" =>
              /\ proc[x].u \in Uploads /\ proc[x].found \in Metas
              /\ <<proc[x].found, Hash(proc[x].u)>> \in Promises
         /\ proc[x].pc = "snapFile" =>
              /\ proc[x].gone \in SnapRecords /\ proc[x].gone # None
              /\ <<proc[x].gone.meta, proc[x].gone.hash>> \in Promises
<1>1. Role(x) /\ Content(x)
  BY DEF Roles, Contents
<1>2. CASE proc[x].pc = "addSnapshot"
  <2>1. /\ proc[x].u \in Uploads /\ Prepared(proc[x].u)
        /\ Target(x) \in Metas /\ Target(x) = client[proc[x].u].meta
    BY <1>1, <1>2, TargetId DEF Role, Serving
  <2>2. <<Target(x), Hash(proc[x].u)>> \in Promises
    BY <2>1 DEF Contents, SendersTrue
  <2>3. proc[x].move \in Uploads /\ Meta(proc[x].move) = Target(x)
    BY <1>1, <1>2, LocalTypes DEF Role
  <2>4. <<Target(x), Hash(proc[x].move)>> \in Promises
    BY <2>3, OwnPromise
  <2> QED
    BY <1>2, <2>1, <2>2, <2>3, <2>4
<1>3. CASE proc[x].pc = "flashSnapshot"
  BY <1>1, <1>3 DEF Role, Content, Preparing
<1>4. CASE proc[x].pc = "snapFile"
  BY <1>1, <1>4, LocalTypes DEF Role, Content, Deleting
<1> QED
  BY <1>2, <1>3, <1>4

\* A process that does not move, with the snapshots there are.
LEMMA SnapperStays ==
  ASSUME TypeOK, Roles, Contents, Readable, FilesStay, SendersKept,
         NEW x \in Procs, proc'[x] = proc[x],
         \A s \in snaps' : s \in snaps \/ s.hash \in used'.crossed \/ Removing(s.hash) = {}
  PROVE  Snapper(x)'
<1>1. \A u : Hash(u)' = Hash(u) /\ Meta(u)' = Meta(u)
  BY SameAsks DEF FilesStay
<1>2. Snapper(x)
  BY DEF Readable
<1>3. CASE proc[x].pc = "addSnapshot"
  <2>1. PICK h \in Hashes : h = Hash(proc[x].move)
    BY <1>3, SnapperFacts, AskFacts
  <2>2. PICK m \in Metas : m = Target(x)
    BY <1>3, SnapperFacts
  <2>3. Ready(h, m)'
    BY <1>2, <1>3, <2>1, <2>2, ReadyStays DEF Snapper
  <2>4. Target(x)' = Target(x)
    BY <1>1, <1>3, SnapperFacts DEF Target, SendersKept
  <2> QED
    BY <1>1, <1>3, <2>1, <2>2, <2>3, <2>4 DEF Snapper
<1>4. CASE proc[x].pc = "flashSnapshot"
  <2>1. PICK h \in Hashes : h = Hash(proc[x].u)
    BY <1>4, SnapperFacts, AskFacts
  <2>2. PICK m \in Metas : m = proc[x].found
    BY <1>4, SnapperFacts
  <2>3. Ready(h, m)'
    BY <1>2, <1>4, <2>1, <2>2, ReadyStays DEF Snapper
  <2> QED
    BY <1>1, <1>4, <2>1, <2>2, <2>3 DEF Snapper
<1>5. CASE proc[x].pc = "snapFile"
  <2>1. x \in Removing(proc[x].gone.hash)
    BY <1>5, SnapperFacts DEF Removing
  <2> QED
    BY <1>2, <1>5, <2>1 DEF Snapper, FilesStay
<1> QED
  BY <1>3, <1>4, <1>5 DEF Snapper

\* Steps that make no snapshot and remove no file of one.
Unsnapped ==
  /\ SendersKept
  /\ snaps' \subseteq snaps /\ snapfile' = snapfile /\ used'.crossed = used.crossed
  /\ \A x \in Procs : proc'[x] = proc[x] \/ proc'[x].pc \notin Snapping

\* Steps that make and remove no snapshot: snapshots stay readable.
LEMMA UnsnappedReadable ==
  ASSUME TypeOK, Roles, Contents, Readable, Unsnapped
  PROVE  Readable'
<1>1. FilesStay
  BY DEF Unsnapped, FilesStay, SendersKept
<1>2. ASSUME NEW s \in snaps' PROVE Ready(s.hash, s.meta)'
  <2>1. s \in snaps /\ s.meta \in Metas
    BY DEF Unsnapped, TypeOK, SnapRecords
  <2> QED
    BY <1>1, <2>1, ReadyStays DEF Readable
<1>3. ASSUME NEW x \in Procs PROVE Snapper(x)'
  <2>1. CASE proc'[x] = proc[x]
    BY <1>1, <2>1, SnapperStays DEF Unsnapped
  <2>2. CASE proc'[x].pc \notin Snapping
    BY <2>2 DEF Snapper, Snapping
  <2> QED
    BY <2>1, <2>2 DEF Unsnapped
<1> QED
  BY <1>2, <1>3 DEF Readable

\* A file with the hash is looked for: snapshots stay readable.
LEMMA FlashReadable ==
  ASSUME TypeOK, Roles, Contents, Readable, NEW x \in Handlers, Flash(x)
  PROVE  Readable'
<1>1. x \in Procs /\ Apart(x) /\ SendersKept
  BY WorkingApart, WorkingSenders DEF Procs, Working
<1>2. snaps' = snaps /\ snapfile' = snapfile /\ used' = used
  BY DEF Flash, redis, cache
<1>3. FilesStay
  BY <1>1, <1>2 DEF FilesStay, Apart
<1>4. CASE proc'[x].pc \notin Snapping
  BY <1>1, <1>2, <1>4, UnsnappedReadable DEF Unsnapped, Apart
<1>5. ASSUME NEW s \in snaps, s.hash = Hash(proc[x].u),
             proc' = [proc EXCEPT ![x].pc = "flashSnapshot", ![x].found = s.meta]
      PROVE  Readable'
  <2>1. /\ proc'[x].pc = "flashSnapshot" /\ proc'[x].found = s.meta /\ proc'[x].u = proc[x].u
    BY <1>1, <1>5, LocalTypes DEF TypeOK, Locals
  <2>2. s.meta \in Metas
    BY DEF TypeOK, SnapRecords
  <2>3. Ready(s.hash, s.meta)'
    BY <1>3, <2>2, ReadyStays DEF Readable
  <2>4. \A u : Hash(u)' = Hash(u)
    BY <1>1, SameAsks DEF Apart
  <2>5. Snapper(x)'
    BY <1>5, <2>1, <2>3, <2>4 DEF Snapper
  <2>6. \A y \in Procs : y # x => Snapper(y)'
    BY <1>1, <1>2, <1>3, SnapperStays DEF Apart
  <2>7. ASSUME NEW t \in snaps' PROVE Ready(t.hash, t.meta)'
    BY <1>2, <1>3, ReadyStays DEF Readable, TypeOK, SnapRecords
  <2> QED
    BY <2>5, <2>6, <2>7 DEF Readable
<1>6. \/ proc'[x].pc \notin Snapping
      \/ \E s \in snaps :
           /\ s.hash = Hash(proc[x].u)
           /\ proc' = [proc EXCEPT ![x].pc = "flashSnapshot", ![x].found = s.meta]
  <2>1. ASSUME NEW m, proc' = [proc EXCEPT ![x].pc = "flashDisk", ![x].found = m]
        PROVE  proc'[x].pc \notin Snapping
    BY <1>1, <2>1, LocalTypes DEF TypeOK, Locals, Snapping
  <2>2. ASSUME Goto(x, "sameHash") PROVE proc'[x].pc \notin Snapping
    BY <1>1, <2>2, GotoFields DEF Snapping
  <2> QED
    BY <2>1, <2>2 DEF Flash
<1> QED
  BY <1>4, <1>5, <1>6

\* A snapshot is recorded, with its file.
LEMMA RecordedReadable ==
  ASSUME TypeOK, Roles, Contents, Readable, NEW x \in Procs, Apart(x), SendersKept,
         NEW m \in Metas, NEW h \in Hashes, Ready(h, m), NewSnapshot(m, h), snapfile' = snapfile,
         proc'[x].pc \notin Snapping
  PROVE  Readable'
<1>1. \A s \in snaps' : s \in snaps \/ (s.meta = m /\ s.hash = h)
  BY DEF NewSnapshot
<1>2. used'.crossed = IF Removing(h) = {} THEN used.crossed ELSE used.crossed \cup {h}
  BY DEF NewSnapshot, TypeOK, Counters
<1>3. FilesStay
  BY <1>2 DEF FilesStay, Apart
<1>4. ASSUME NEW s \in snaps' PROVE Ready(s.hash, s.meta)'
  <2>1. CASE s \in snaps
    BY <1>3, <2>1, ReadyStays DEF Readable, TypeOK, SnapRecords
  <2>2. CASE s.meta = m /\ s.hash = h
    BY <1>3, <2>2, ReadyStays
  <2> QED
    BY <1>1, <2>1, <2>2
<1>5. ASSUME NEW y \in Procs PROVE Snapper(y)'
  <2>1. CASE y = x
    BY <2>1 DEF Snapper, Snapping
  <2>2. CASE y # x
    <3>1. \A s \in snaps' : s \in snaps \/ s.hash \in used'.crossed \/ Removing(s.hash) = {}
      BY <1>1, <1>2
    <3> QED
      BY <1>3, <2>2, <3>1, SnapperStays DEF Apart
  <2> QED
    BY <2>1, <2>2
<1> QED
  BY <1>4, <1>5 DEF Readable

\* A flash upload makes a snapshot: snapshots stay readable.
LEMMA FlashSnapshotReadable ==
  ASSUME TypeOK, Roles, Contents, Readable, NEW x \in Handlers, FlashSnapshot(x)
  PROVE  Readable'
<1>1. x \in Procs /\ Apart(x) /\ SendersKept
  BY WorkingApart, WorkingSenders DEF Procs, Working
<1>2. PICK m \in Metas, h \in Hashes : m = proc[x].found /\ h = Hash(proc[x].u)
  BY <1>1, SnapperFacts, AskFacts DEF FlashSnapshot, At
<1>3. Ready(h, m)
  BY <1>1, <1>2 DEF FlashSnapshot, At, Readable, Snapper
<1>4. proc'[x].pc \notin Snapping
  BY <1>1, ReturnFields DEF FlashSnapshot, Idle, Snapping
<1>5. NewSnapshot(m, h) /\ snapfile' = snapfile
  BY <1>2 DEF FlashSnapshot, cache
<1> QED
  BY <1>1, <1>3, <1>4, <1>5, RecordedReadable

\* A snapshot is recorded: snapshots stay readable.
LEMMA AddSnapshotReadable ==
  ASSUME TypeOK, Roles, Contents, Readable, NEW x \in Handlers, AddSnapshot(x)
  PROVE  Readable'
<1>1. x \in Procs /\ Apart(x) /\ SendersKept
  BY WorkingApart, WorkingSenders DEF Procs, Working
<1>2. PICK m \in Metas, h \in Hashes : m = Target(x) /\ h = Hash(proc[x].move)
  BY <1>1, SnapperFacts, AskFacts DEF AddSnapshot, At
<1>3. Ready(h, m)
  BY <1>1, <1>2 DEF AddSnapshot, At, Readable, Snapper
<1>4. proc'[x].pc \notin Snapping
  BY <1>1, GotoFields DEF AddSnapshot, Snapping
<1>5. NewSnapshot(m, h) /\ snapfile' = snapfile
  BY <1>2 DEF AddSnapshot, cache
<1> QED
  BY <1>1, <1>3, <1>4, <1>5, RecordedReadable

\* A file becomes the file of a snapshot: snapshots stay readable.
LEMMA MoveToSnapshotReadable ==
  ASSUME TypeOK, Roles, Contents, Readable, NEW x \in Handlers, MoveToSnapshot(x)
  PROVE  Readable'
<1>1. x \in Procs /\ Apart(x) /\ SendersKept
  BY WorkingApart, WorkingSenders DEF Procs, Working
<1>2. CASE Return(x) /\ UNCHANGED cache
  <2>1. proc'[x].pc \notin Snapping
    BY <1>1, <1>2, ReturnFields DEF Idle, Snapping
  <2> QED
    BY <1>1, <1>2, <2>1, UnsnappedReadable DEF MoveToSnapshot, Unsnapped, Apart, cache, redis
<1>3. CASE normal[Target(x)] # None
  <2>1. PICK m \in Metas : m = Target(x)
    BY <1>1, TargetId DEF MoveToSnapshot, At, Serving
  <2>2. /\ proc'[x].pc = "addSnapshot" /\ proc'[x].u = proc[x].u
        /\ snapfile' = [snapfile EXCEPT ![m] = normal[m]]
    BY <1>1, <1>3, <2>1, LocalTypes DEF MoveToSnapshot, TypeOK, Locals
  <2>3. snapfile'[m] # None /\ \A n \in Metas : snapfile[n] # None => snapfile'[n] # None
    BY <1>3, <2>1, <2>2 DEF TypeOK
  <2>4. FilesStay /\ snaps' = snaps
    BY <1>1, <2>3 DEF FilesStay, Apart, MoveToSnapshot, redis
  <2>5. Target(x)' = m
    BY <2>1, <2>2, SameAsks DEF MoveToSnapshot, Target
  <2>6. Snapper(x)'
    BY <2>2, <2>3, <2>5 DEF Snapper, Ready
  <2>7. \A y \in Procs : y # x => Snapper(y)'
    BY <1>1, <2>4, SnapperStays DEF Apart
  <2>8. ASSUME NEW s \in snaps' PROVE Ready(s.hash, s.meta)'
    BY <2>4, ReadyStays DEF Readable, TypeOK, SnapRecords
  <2> QED
    BY <2>6, <2>7, <2>8 DEF Readable
<1> QED
  BY <1>2, <1>3 DEF MoveToSnapshot

\* Other snapshots of the hash are looked for: snapshots stay readable.
LEMMA DeleteLookReadable ==
  ASSUME TypeOK, Roles, Contents, Readable, NEW x \in Handlers, DeleteLook(x)
  PROVE  Readable'
<1>1. x \in Procs /\ Apart(x) /\ SendersKept
  BY WorkingApart, WorkingSenders DEF Procs, Working
<1>2. snaps' = snaps /\ snapfile' = snapfile /\ used' = used
  BY DEF DeleteLook, redis, cache
<1>3. FilesStay
  BY <1>1, <1>2 DEF FilesStay, Apart
<1>4. CASE Return(x)
  BY <1>1, <1>2, <1>4, ReturnFields, UnsnappedReadable DEF Unsnapped, Apart, Idle, Snapping
<1>5. CASE Goto(x, "snapFile") /\ \A s \in snaps : s.hash # proc[x].gone.hash
  <2>1. proc'[x].pc = "snapFile" /\ proc'[x].gone = proc[x].gone
    BY <1>1, <1>5, GotoFields
  <2>2. Snapper(x)'
    BY <1>2, <1>5, <2>1 DEF Snapper
  <2>3. \A y \in Procs : y # x => Snapper(y)'
    BY <1>1, <1>2, <1>3, SnapperStays DEF Apart
  <2>4. ASSUME NEW s \in snaps' PROVE Ready(s.hash, s.meta)'
    BY <1>2, <1>3, ReadyStays DEF Readable, TypeOK, SnapRecords
  <2> QED
    BY <2>2, <2>3, <2>4 DEF Readable
<1> QED
  BY <1>4, <1>5 DEF DeleteLook

\* The file that is removed was that of a hash of which no record is left; who
\* makes a record of it now crosses it.
LEMMA DeleteFileReadable ==
  ASSUME TypeOK, Roles, Contents, Readable, NEW x \in Handlers, DeleteFile(x)
  PROVE  Readable'
<1>1. x \in Procs /\ Apart(x) /\ SendersKept
  BY WorkingApart, WorkingSenders DEF Procs, Working
<1>2. PICK m \in Metas, h \in Hashes : m = proc[x].gone.meta /\ h = proc[x].gone.hash
  BY <1>1, SnapperFacts DEF DeleteFile, At, SnapRecords
<1>3. <<m, h>> \in Promises
  BY <1>1, <1>2, SnapperFacts DEF DeleteFile, At
<1>4. h \in used.crossed \/ \A s \in snaps : s.hash # h
  BY <1>1, <1>2 DEF DeleteFile, At, Readable, Snapper
<1>5. /\ used'.crossed = IF Making(h) = {} THEN used.crossed ELSE used.crossed \cup {h}
      /\ snaps' = snaps
      /\ \A n \in Metas : n # m => snapfile'[n] = snapfile[n]
  <2>1. used' = [used EXCEPT !.crossed = IF Making(h) = {} THEN @ ELSE @ \cup {h}]
    BY <1>2 DEF DeleteFile
  <2>2. used \in Counters
    BY DEF TypeOK
  <2>3. used'.crossed = IF Making(h) = {} THEN used.crossed ELSE used.crossed \cup {h}
    BY <2>1, <2>2 DEF Counters
  <2>4. snaps' = snaps /\ snapfile' = [snapfile EXCEPT ![m] = None]
    BY <1>2 DEF DeleteFile, redis
  <2> QED
    BY <2>3, <2>4 DEF TypeOK
<1>6. \A u : Meta(u)' = Meta(u) /\ Hash(u)' = Hash(u)
  BY <1>1, SameAsks DEF Apart
<1>7. ASSUME NEW n \in Metas, NEW k, Ready(k, n),
             n = m /\ OneContent(m) => k \in used'.crossed
      PROVE  Ready(k, n)'
  <2>1. OneContent(n)' => OneContent(n)
    BY <1>6 DEF OneContent
  <2> QED
    BY <1>5, <1>7, <2>1 DEF Ready
<1>8. ASSUME NEW k, <<m, k>> \in Promises, OneContent(m) PROVE k = h
  BY <1>3, <1>8 DEF Promises, OneContent
<1>9. ASSUME NEW s \in snaps' PROVE Ready(s.hash, s.meta)'
  <2>1. s \in snaps /\ s.meta \in Metas /\ Ready(s.hash, s.meta) /\ <<s.meta, s.hash>> \in Promises
    BY <1>5 DEF Readable, TypeOK, SnapRecords, Contents, SnapsTrue
  <2>2. s.meta = m /\ OneContent(m) => s.hash \in used'.crossed
    BY <1>4, <1>5, <1>8, <2>1
  <2> QED
    BY <1>7, <2>1, <2>2
<1>10. ASSUME NEW y \in Procs PROVE Snapper(y)'
  <2>1. CASE y = x
    BY <1>1, <2>1, ReturnFields DEF DeleteFile, Idle, Snapper
  <2>2. CASE y # x /\ proc[y].pc = "addSnapshot"
    <3>1. PICK k \in Hashes, n \in Metas : k = Hash(proc[y].move) /\ n = Target(y)
      BY <2>2, SnapperFacts, AskFacts
    <3>2. n = m /\ OneContent(m) => k = h /\ Hash(proc[y].u) = h
      BY <1>8, <2>2, <3>1, SnapperFacts
    <3>3. n = m /\ OneContent(m) => y \in Making(h)
      BY <2>2, <3>2, SnapperFacts, ConstantsAssumption DEF Making
    <3>4. Ready(k, n)'
      BY <1>5, <1>7, <2>2, <3>1, <3>2, <3>3 DEF Readable, Snapper
    <3>5. Target(y)' = n /\ proc'[y] = proc[y]
      BY <1>1, <1>6, <2>2, <3>1, SnapperFacts DEF Apart, SendersKept, Target
    <3> QED
      BY <1>6, <2>2, <3>1, <3>4, <3>5 DEF Snapper
  <2>3. CASE y # x /\ proc[y].pc = "flashSnapshot"
    <3>1. PICK k \in Hashes, n \in Metas : k = Hash(proc[y].u) /\ n = proc[y].found
      BY <2>3, SnapperFacts, AskFacts
    <3>2. n = m /\ OneContent(m) => k = h
      BY <1>8, <2>3, <3>1, SnapperFacts
    <3>3. n = m /\ OneContent(m) => y \in Making(h)
      BY <2>3, <3>1, <3>2, SnapperFacts, ConstantsAssumption DEF Making
    <3>4. Ready(k, n)'
      BY <1>5, <1>7, <2>3, <3>1, <3>2, <3>3 DEF Readable, Snapper
    <3> QED
      BY <1>1, <1>6, <2>3, <3>1, <3>4 DEF Snapper, Apart
  <2>4. CASE y # x /\ proc[y].pc \notin {"addSnapshot", "flashSnapshot"}
    <3>1. proc'[y] = proc[y] /\ Snapper(y)
      BY <1>1, <2>4 DEF Apart, Readable
    <3> QED
      BY <1>5, <2>4, <3>1 DEF Snapper
  <2> QED
    BY <2>1, <2>2, <2>3, <2>4
<1> QED
  BY <1>9, <1>10 DEF Readable

\* Steps of a handler: snapshots stay readable.
LEMMA WorkingReadable ==
  ASSUME TypeOK, Roles, Contents, Readable, NEW x \in Handlers, Working(x)
  PROVE  Readable'
<1>0. x \in Procs /\ Apart(x) /\ SendersKept
  BY WorkingApart, WorkingSenders DEF Procs
<1> DEFINE Same == snaps' = snaps /\ snapfile' = snapfile /\ used' = used /\
        proc'[x].pc \notin Snapping
<1>1. ASSUME FlashDisk(x) PROVE Same
  BY <1>0, <1>1, GotoFields, ReturnFields DEF FlashDisk, Idle, Snapping, redis, cache
<1>2. ASSUME SameHash(x) PROVE Same
  <2>1. snaps' = snaps /\ snapfile' = snapfile /\ used' = used
    BY <1>2 DEF SameHash, redis, cache
  <2>2. Return(x) \/ Goto(x, "sameId")
    BY <1>2 DEF SameHash
  <2>9. proc'[x].pc \notin Snapping
    BY <1>0, <2>2, GotoFields, ReturnFields DEF Idle, Snapping
  <2> QED
    BY <2>1, <2>9
<1>3. ASSUME SameId(x) PROVE Same
  BY <1>0, <1>3, GotoFields, ReturnFields DEF SameId, Idle, Snapping, redis, cache
<1>4. ASSUME Insert(x) PROVE Same
  BY <1>0, <1>4, GotoFields, ReturnFields DEF Insert, Idle, Snapping, redis, cache
<1>5. ASSUME Register(x) PROVE Same
  BY <1>0, <1>5, GotoFields, ReturnFields DEF Register, Idle, Snapping, redis, cache
<1>6. ASSUME WritePart(x) PROVE Same
  BY <1>0, <1>6, GotoFields, ReturnFields DEF WritePart, Idle, Snapping, redis, cache
<1>7. ASSUME ReadRecord(x) PROVE Same
  <2>1. snaps' = snaps /\ snapfile' = snapfile /\ used' = used
    BY <1>7 DEF ReadRecord, redis, cache
  <2>2. ASSUME NEW h, NEW g, proc' = [proc EXCEPT ![x].pc = "saveRecord", ![x].hash = h,
            ![x].got = g]
        PROVE  proc'[x].pc \notin Snapping
    BY <1>0, <2>2, LocalTypes DEF TypeOK, Locals, Snapping
  <2>3. ASSUME Return(x) PROVE proc'[x].pc \notin Snapping
    BY <1>0, <2>3, ReturnFields DEF Idle, Snapping
  <2>9. proc'[x].pc \notin Snapping
    BY <1>7, <2>2, <2>3 DEF ReadRecord
  <2> QED
    BY <2>1, <2>9
<1>8. ASSUME SaveRecord(x) PROVE Same
  BY <1>0, <1>8, GotoFields, ReturnFields DEF SaveRecord, Idle, Snapping, redis, cache
<1>9. ASSUME Gather(x) PROVE Same
  BY <1>0, <1>9, GotoFields, ReturnFields, LocalTypes
     DEF Gather, TypeOK, Locals, At, Idle, Snapping, redis, cache
<1>10. ASSUME WriteNormal(x) PROVE Same
  BY <1>0, <1>10, GotoFields, ReturnFields DEF WriteNormal, Idle, Snapping, redis, cache
<1>11. ASSUME RemoveDir(x) PROVE Same
  BY <1>0, <1>11, GotoFields, ReturnFields DEF RemoveDir, Idle, Snapping, redis, cache
<1>12. ASSUME ReadFailing(x) PROVE Same
  BY <1>0, <1>12, GotoFields, ReturnFields, LocalTypes
     DEF ReadFailing, TypeOK, Locals, At, Idle, Snapping, redis, cache
<1>13. ASSUME SetFailed(x) PROVE Same
  <2>1. snaps' = snaps /\ snapfile' = snapfile /\ used' = used
    BY <1>13 DEF SetFailed, redis, cache
  <2>2. ASSUME NEW t, proc' = [proc EXCEPT ![x].todo = t]
        PROVE  proc'[x].pc \notin Snapping
    BY <1>0, <1>13, <2>2, LocalTypes DEF TypeOK, Locals, Snapping, SetFailed, At
  <2>3. ASSUME Return(x) PROVE proc'[x].pc \notin Snapping
    BY <1>0, <2>3, ReturnFields DEF Idle, Snapping
  <2>9. proc'[x].pc \notin Snapping
    BY <1>13, <2>2, <2>3 DEF SetFailed
  <2> QED
    BY <2>1, <2>9
<1>14. ASSUME ReadMoves(x) PROVE Same
  BY <1>0, <1>14, GotoFields, ReturnFields, LocalTypes
     DEF ReadMoves, TypeOK, Locals, At, Idle, Snapping, redis, cache
<1>15. ASSUME MovesDone(x) PROVE Same
  BY <1>0, <1>15, GotoFields, ReturnFields DEF MovesDone, Idle, Snapping, redis, cache
<1>16. ASSUME MoveToStorage(x) PROVE Same
  <2>1. snaps' = snaps /\ snapfile' = snapfile /\ used' = used
    BY <1>16 DEF MoveToStorage, redis, cache
  <2>2. ASSUME NEW t, proc' = [proc EXCEPT ![x].todo = t]
        PROVE  proc'[x].pc \notin Snapping
    BY <1>0, <1>16, <2>2, LocalTypes DEF TypeOK, Locals, Snapping, MoveToStorage, At
  <2>3. ASSUME Return(x) PROVE proc'[x].pc \notin Snapping
    BY <1>0, <2>3, ReturnFields DEF Idle, Snapping
  <2>9. proc'[x].pc \notin Snapping
    BY <1>16, <2>2, <2>3 DEF MoveToStorage
  <2> QED
    BY <2>1, <2>9
<1>17. ASSUME DropRecord(x) PROVE Same
  <2>1. snaps' = snaps /\ snapfile' = snapfile /\ used' = used
    BY <1>17 DEF DropRecord, redis, cache
  <2>2. Return(x) \/ Goto(x, "dropDir")
    BY <1>17 DEF DropRecord
  <2>9. proc'[x].pc \notin Snapping
    BY <1>0, <2>2, GotoFields, ReturnFields DEF Idle, Snapping
  <2> QED
    BY <2>1, <2>9
<1>18. ASSUME DropDir(x) PROVE Same
  BY <1>0, <1>18, GotoFields, ReturnFields DEF DropDir, Idle, Snapping, redis, cache
<1>19. ASSUME DropRegs(x) PROVE Same
  BY <1>0, <1>19, GotoFields, ReturnFields DEF DropRegs, Idle, Snapping, redis, cache
<1>20. ASSUME Same PROVE Readable'
  BY <1>0, <1>20, UnsnappedReadable DEF Unsnapped, Apart
<1> QED
  BY <1>1, <1>2, <1>3, <1>4, <1>5, <1>6, <1>7, <1>8, <1>9, <1>10, <1>11, <1>12, <1>13, <1>14,
     <1>15, <1>16, <1>17, <1>18, <1>19, <1>20,
     FlashReadable, FlashSnapshotReadable, MoveToSnapshotReadable, AddSnapshotReadable,
         DeleteLookReadable, DeleteFileReadable DEF Working

\* Steps of the runner: snapshots stay readable.
LEMMA RunningReadable ==
  ASSUME TypeOK, Roles, Contents, Readable, Running \/ RunRefused
  PROVE  Readable'
<1>1. Runner \in Procs /\ Runner \notin Handlers
  BY ConstantsAssumption DEF Procs
<1>2. Apart(Runner)
  BY RunningApart DEF RunRefused, Apart, Goto, TypeOK
<1>3. client' = client /\ snaps' = snaps /\ snapfile' = snapfile /\ used'.crossed = used.crossed
  BY DEF Running, RunRefused, Take, RunRead, RunUpload, RunFailed, RunMeta, RunDisk, RunNormal,
         DropRecord, DropDir, DropRegs, redis, cache, TypeOK, Counters
<1>4. Roles'
  BY Step DEF Next
<1>5. proc'[Runner].pc \notin Snapping
  BY <1>1, <1>4 DEF Roles, Role, Snapping, Moving, Dropping
<1> QED
  BY <1>2, <1>3, <1>5, UnsnappedReadable DEF Unsnapped, Apart, SendersKept

\* Every step keeps snapshots readable.
LEMMA ReadableStep ==
  ASSUME TypeOK, Roles, Contents, Readable, Next
  PROVE  Readable'
<1>1. ASSUME NEW x \in Handlers, Working(x) PROVE Readable'
  BY <1>1, WorkingReadable
<1>2. ASSUME Running \/ RunRefused PROVE Readable'
  BY <1>2, RunningReadable
<1>3. ASSUME NEW x \in Handlers, NEW u \in Uploads,
             \/ Prepare(x, u) \/ Cancel(x, u) \/ Retry(x, u)
             \/ \E p \in asks.parts, piece \in Hashes \cup {Bad} : Send(x, u, p, piece)
      PROVE Readable'
  <2>1. Apart(x) /\ x \in Procs
    BY <1>3, AskingApart DEF Procs
  <2>2. snaps' = snaps /\ snapfile' = snapfile /\ used'.crossed = used.crossed
    BY <1>3 DEF Prepare, Cancel, Retry, Send, redis, cache, TypeOK, Counters
  <2>3. proc'[x].pc \notin Snapping
    <3>1. ASSUME NEW r, proc' = [proc EXCEPT ![x] = r], r.pc \notin Snapping
          PROVE  proc'[x].pc \notin Snapping
      BY <2>1, <3>1 DEF TypeOK
    <3>2. /\ [Idle EXCEPT !.pc = "flash", !.u = u].pc \notin Snapping
          /\ [Idle EXCEPT !.pc = "dropRecord", !.u = u].pc \notin Snapping
          /\ [Idle EXCEPT !.pc = "readMoves", !.u = u].pc \notin Snapping
          /\ \A p, piece : [Idle EXCEPT !.pc = "writePart", !.u = u, !.part = p,
                 !.piece = piece].pc \notin Snapping
      BY DEF Idle, Snapping
    <3>3. ASSUME Prepare(x, u) \/ Cancel(x, u) \/ Retry(x, u) PROVE proc'[x].pc \notin Snapping
      BY <3>1, <3>2, <3>3 DEF Prepare, Cancel, Retry
    <3>4. ASSUME NEW p, NEW piece, Send(x, u, p, piece) PROVE proc'[x].pc \notin Snapping
      BY <3>1, <3>2, <3>4 DEF Send
    <3> QED
      BY <1>3, <3>3, <3>4
  <2>4. SendersKept
    BY <1>3 DEF Prepare, Cancel, Retry, Send, TypeOK, SendersKept, Prepared
  <2> QED
    BY <2>1, <2>2, <2>3, <2>4, UnsnappedReadable DEF Apart, Unsnapped
<1>4. ASSUME NEW x \in Handlers, NEW s \in snaps, Delete(x, s) PROVE Readable'
  <2>1. Apart(x) /\ x \in Procs
    BY <1>4, AskingApart DEF Procs
  <2>2. snaps' \subseteq snaps /\ snapfile' = snapfile /\ used'.crossed = used.crossed /\
            SendersKept
    BY <1>4 DEF Delete, cache, TypeOK, Counters, SendersKept
  <2>3. proc'[x].pc \notin Snapping
    BY <1>4, <2>1 DEF Delete, TypeOK, Idle, Snapping
  <2> QED
    BY <2>1, <2>2, <2>3, UnsnappedReadable DEF Apart, Unsnapped
<1>5. ASSUME NEW x \in Procs, Fail(x) PROVE Readable'
  <2>1. SendersKept
    BY <1>5, PreparerKept, SameKept DEF Fail, Preparing, SameSenders
  <2>2. snaps' = snaps /\ snapfile' = snapfile /\ used'.crossed = used.crossed
    BY <1>5 DEF Fail, FaultUsed, redis, cache, TypeOK, Counters
  <2>3. \A y \in Procs : proc'[y] = proc[y] \/ proc'[y].pc \notin Snapping
    BY <1>5, ReturnFields DEF Fail, Idle, Snapping
  <2> QED
    BY <2>1, <2>2, <2>3, UnsnappedReadable DEF Unsnapped
<1>6. ASSUME Crash PROVE Readable'
  <2>1. SendersKept
    BY <1>6 DEF Crash, SendersKept, Prepared, TypeOK
  <2>2. snaps' = snaps /\ snapfile' = snapfile /\ used'.crossed = used.crossed
    BY <1>6 DEF Crash, FaultUsed, redis, cache, TypeOK, Counters
  <2>3. \A y \in Procs : proc'[y].pc \notin Snapping
    BY <1>6 DEF Crash, Idle, Snapping
  <2> QED
    BY <2>1, <2>2, <2>3, UnsnappedReadable DEF Unsnapped
<1>7. ASSUME ExpireRecord \/ ExpireMove PROVE Readable'
  <2>1. used'.crossed = used.crossed
    BY <1>7 DEF ExpireRecord, ExpireMove, FaultUsed, TypeOK, Counters
  <2> QED
    BY <1>7, <2>1, UnsnappedReadable
       DEF ExpireRecord, ExpireMove, Unsnapped, SendersKept, redis, cache
<1> QED
  BY <1>1, <1>2, <1>3, <1>4, <1>5, <1>6, <1>7 DEF Next

\* SnapshotReadable: the file of a snapshot is there as long as a record of it,
\* unless a record of its hash was made while a file of that hash was removed
\* (SnapshotService::remove looks for other records before it removes the file:
\* SnapshotKept, without the exception, does not hold).
THEOREM SnapshotsReadable == Spec => []SnapshotReadable
<1>1. Init => Readable
  BY DEF Init, Readable, Snapper, Idle
<1>2. TypeOK /\ Roles /\ Contents /\ Readable /\ [Next]_vars => Readable'
  <2>1. TypeOK /\ Roles /\ Contents /\ Readable /\ UNCHANGED vars => Readable'
    BY UnsnappedReadable DEF vars, redis, cache, Unsnapped, SendersKept
  <2> QED
    BY <2>1, ReadableStep
<1>3. Readable => SnapshotReadable
  BY DEF Readable, Ready, SnapshotReadable
<1> QED
  BY <1>1, <1>2, <1>3, TypeCorrect, ContentsTrue, PTL DEF Spec

-----------------------------------------------------------------------------
\* An id has a snapshot.
Recorded(m) == \E s \in snaps : s.meta = m

\* Ids that uploads send to the storage server,
ForStorage(m) == \E u \in Uploads : Meta(u) = m /\ ~ToSnapshot(u)

\* ... or to a snapshot.
ForSnapshot(m) == \E u \in Uploads : Meta(u) = m /\ ToSnapshot(u)

\* Ids that are sent to one place, and that nobody gave up.
Undisturbed(m) == OneDestination(m) /\ m \notin used.left

\* The file of an upload is where it was to go.
Stored(u) == IF ToSnapshot(u) THEN Recorded(Meta(u)) ELSE metas[Meta(u)] # None

\* The file of upload u is stored, or a registered move can store it.
Kept(u) ==
  Opened(u) /\ Undisturbed(Meta(u)) =>
    /\ reg[u] # "none" \/ Stored(u)
    /\ client[u].told => Stored(u) \/ (~ToSnapshot(u) /\ normal[Meta(u)] # None)

\* What a process between the last part and the end of the moves may rely on.
Placing == {"removeDir", "readMoves", "move"}

\* A process between the last part and the end of the moves: the whole file is in
\* the cache or stored until the moves were queued or recorded; records and
\* registrations are removed only when the file is stored.
Safe(x) ==
  proc[x].pc \in Placing \cup Dropping /\ Undisturbed(Target(x)) =>
    /\ proc[x].pc \in Placing /\ proc[x].part # None /\ ForStorage(Target(x)) =>
         normal[Target(x)] # None \/ metas[Target(x)] # None
    /\ proc[x].pc = "move" /\ proc[x].part # None /\ ForSnapshot(Target(x)) /\ Opened(proc[x].u) =>
         Recorded(Target(x)) \/ proc[x].todo # {}
    /\ proc[x].pc \in Dropping =>
         Recorded(Target(x)) \/ (x = Runner /\ metas[Target(x)] # None)

\* Snapshots have ids of uploads to snapshots.
SnapshotIds ==
  /\ \A s \in snaps : ForSnapshot(s.meta)
  /\ \A x \in Procs : proc[x].pc = "flashSnapshot" => ForSnapshot(proc[x].found)

\* Only senders of prepared uploads are told that all is there.
ToldSenders == \A u \in Uploads : client[u].told => Prepared(u)

\* The inductive invariant of NothingLost.
Saved ==
  ToldSenders /\ SnapshotIds /\ (\A u \in Uploads : Kept(u)) /\ (\A x \in Procs : Safe(x))

\* An id goes to one place.
LEMMA OnePlace ==
  ASSUME NEW m, OneDestination(m), ForStorage(m), ForSnapshot(m)
  PROVE  FALSE
BY DEF OneDestination, ForStorage, ForSnapshot

\* A file that was stored or waits in the cache does so until its id is left.
Keeping ==
  /\ asks' = asks /\ used.left \subseteq used'.left
  /\ \A m \in Metas :
       /\ Recorded(m) => m \in used'.left \/ \E s \in snaps' : s.meta = m
       /\ metas[m] # None => metas'[m] # None
       /\ normal[m] # None /\ OneDestination(m) /\ ForStorage(m) =>
            normal'[m] # None \/ metas'[m] # None

\* So does what is asked of an id.
LEMMA AsksStay ==
  ASSUME asks' = asks, NEW m
  PROVE  /\ ForStorage(m)' <=> ForStorage(m)
         /\ ForSnapshot(m)' <=> ForSnapshot(m)
         /\ OneDestination(m)' <=> OneDestination(m)
BY SameAsks DEF ForStorage, ForSnapshot, OneDestination

\* An upload stays kept.
LEMMA KeptStays ==
  ASSUME TypeOK, Keeping, NEW u \in Uploads, Kept(u),
         Opened(u)' => Opened(u), client'[u].told => client[u].told,
         Opened(u) /\ reg[u] # "none" /\ Undisturbed(Meta(u)) /\ Meta(u) \notin used'.left =>
           reg'[u] # "none" \/ Stored(u)
  PROVE  Kept(u)'
<1>1. PICK m \in Metas : m = Meta(u)
  BY AskFacts
<1>2. Meta(u)' = m /\ (ToSnapshot(u)' <=> ToSnapshot(u))
  BY <1>1, SameAsks DEF Keeping
<1>3. Undisturbed(m)' => Undisturbed(m) /\ m \notin used'.left
  BY AsksStay DEF Keeping, Undisturbed
<1>4. ~ToSnapshot(u) => ForStorage(m)
  BY <1>1 DEF ForStorage
<1>5. Undisturbed(m)' => (Stored(u) => Stored(u)')
  BY <1>1, <1>2, <1>3 DEF Stored, Recorded, Keeping
<1>6. Undisturbed(m)' /\ ~ToSnapshot(u) /\ normal[m] # None => normal'[m] # None \/ Stored(u)'
  BY <1>2, <1>3, <1>4 DEF Stored, Keeping, Undisturbed
<1> QED
  BY <1>1, <1>2, <1>3, <1>5, <1>6 DEF Kept

\* A process stays safe between the last part and the end of the moves.
LEMMA SafeStays ==
  ASSUME TypeOK, Roles, Saved, Keeping, SendersKept, NEW x \in Procs,
         proc'[x].pc \in Placing \cup Dropping, proc[x].pc \in Placing \cup Dropping,
         proc'[x].u = proc[x].u, proc'[x].part = proc[x].part,
         proc'[x].pc \in Placing => proc[x].pc \in Placing,
         proc'[x].pc \in Dropping => proc[x].pc \in Dropping,
         proc'[x].pc = "move" => proc[x].pc = "move" /\
             (proc[x].todo # {} /\ Undisturbed(Target(x)) /\ ForSnapshot(Target(x)) =>
                 proc'[x].todo # {})
  PROVE  Safe(x)'
<1>1. proc[x].pc \in Serving /\ proc[x].u \in Uploads /\ Prepared(proc[x].u)
  BY DEF Serving, Placing, Dropping, Roles, Role
<1>2. PICK m \in Metas : m = Target(x) /\ m = client[proc[x].u].meta
  BY <1>1, TargetId
<1>3. Target(x)' = m
  BY <1>1, <1>2, SameAsks DEF Target, SendersKept
<1>4. Undisturbed(m)' => Undisturbed(m) /\ m \notin used'.left
  BY AsksStay DEF Keeping, Undisturbed
<1>5. (ForStorage(m)' <=> ForStorage(m)) /\ (ForSnapshot(m)' <=> ForSnapshot(m))
  BY AsksStay DEF Keeping
<1>6. Opened(proc[x].u)' => Opened(proc[x].u)
  BY <1>1 DEF Opened, SendersKept
<1>7. Undisturbed(m)' => /\ Recorded(m) => Recorded(m)'
                         /\ metas[m] # None => metas'[m] # None
                         /\ normal[m] # None /\ ForStorage(m) =>
                                normal'[m] # None \/ metas'[m] # None
  BY <1>4 DEF Keeping, Undisturbed, Recorded
<1>8. Safe(x)
  BY DEF Saved
<1> QED
  BY <1>2, <1>3, <1>4, <1>5, <1>6, <1>7, <1>8 DEF Safe

\* A process that is not between the last part and the end of the moves.
LEMMA SafeElsewhere ==
  ASSUME NEW x, proc'[x].pc \notin Placing \cup Dropping
  PROVE  Safe(x)'
BY DEF Safe

\* What a step of one process has to show.
LEMMA SavedBuild ==
  ASSUME TypeOK, Roles, Saved, Keeping, SendersKept, NEW x \in Procs, Apart(x), Safe(x)',
         \A u \in Uploads : Kept(u)', SnapshotIds', ToldSenders'
  PROVE  Saved'
<1>1. ASSUME NEW y \in Procs, y # x PROVE Safe(y)'
  <2>1. proc'[y] = proc[y]
    BY <1>1 DEF Apart
  <2> QED
    BY <2>1, SafeStays, SafeElsewhere
<1> QED
  BY <1>1 DEF Saved

\* Steps that tell senders nothing new.
Untold ==
  \A u \in Uploads : (Opened(u)' => Opened(u)) /\ (client'[u].told => client[u].told)

\* Registrations stay.
RegsStay == \A u \in Uploads : reg[u] # "none" => reg'[u] # "none"

\* Uploads stay kept when no registration ends.
LEMMA AllKept ==
  ASSUME TypeOK, Saved, Keeping, Untold, RegsStay
  PROVE  \A u \in Uploads : Kept(u)'
BY KeptStays DEF Saved, Untold, RegsStay

\* Senders that were told all is there were prepared.
LEMMA ToldStay ==
  ASSUME Saved, SendersKept, Untold
  PROVE  ToldSenders'
BY DEF Saved, ToldSenders, SendersKept, Untold, Prepared

\* Snapshots keep their ids.
LEMMA IdsStay ==
  ASSUME TypeOK, Saved, asks' = asks, snaps' \subseteq snaps,
         \A x \in Procs : proc'[x] = proc[x] \/ proc'[x].pc # "flashSnapshot"
  PROVE  SnapshotIds'
BY AsksStay DEF Saved, SnapshotIds

-----------------------------------------------------------------------------
\* Every step keeps what is stored.
LEMMA WorkingKeeps ==
  ASSUME TypeOK, Roles, Contents, NEW x \in Procs, Working(x)
  PROVE  Keeping
<1>0. asks' = asks
  BY WorkingApart DEF Apart
<1> DEFINE Kind ==
             /\ used'.left = used.left /\ metas' = metas /\ snaps \subseteq snaps'
             /\ \A m \in Metas : normal[m] # None => normal'[m] # None
<1>1. ASSUME \/ Flash(x) \/ FlashDisk(x) \/ SameHash(x) \/ SameId(x) \/ Insert(x)
             \/ Register(x) \/ WritePart(x) \/ ReadRecord(x) \/ SaveRecord(x)
      PROVE  Kind
  BY <1>1
     DEF Flash, FlashDisk, SameHash, SameId, Insert, Register, WritePart, ReadRecord,
         SaveRecord, redis, cache, db
<1>2. ASSUME FlashSnapshot(x) PROVE Kind
  <2>1. used'.left = used.left
    BY <1>2 DEF FlashSnapshot, NewSnapshot, TypeOK, Counters
  <2> QED
    BY <1>2, <2>1 DEF FlashSnapshot, NewSnapshot, redis, cache, db
<1>3. ASSUME \/ Gather(x) \/ RemoveDir(x) \/ ReadFailing(x) \/ SetFailed(x) \/ ReadMoves(x)
             \/ MovesDone(x) \/ MoveToStorage(x) \/ DropRecord(x) \/ DropDir(x)
      PROVE  Kind
  BY <1>3
     DEF Gather, RemoveDir, ReadFailing, SetFailed, ReadMoves, MovesDone, MoveToStorage,
         DropRecord, DropDir, redis, cache, db
<1>4. ASSUME WriteNormal(x) PROVE Kind
  <2>1. proc[x].piece # None
    BY <1>4, ConstantsAssumption DEF WriteNormal, At, Roles, Role, Contents, Content
  <2> QED
    BY <1>4, <2>1 DEF WriteNormal, TypeOK, redis, db
<1>5. ASSUME AddSnapshot(x) PROVE Kind
  <2>1. used'.left = used.left
    BY <1>5 DEF AddSnapshot, NewSnapshot, TypeOK, Counters
  <2> QED
    BY <1>5, <2>1 DEF AddSnapshot, NewSnapshot, redis, cache, db
<1>6. ASSUME \/ DropRegs(x) \/ DeleteLook(x)
      PROVE  Kind
  BY <1>6 DEF DropRegs, DeleteLook, redis, cache, db
<1>7. ASSUME DeleteFile(x) PROVE Kind
  <2>1. used'.left = used.left
    BY <1>7 DEF DeleteFile, NewSnapshot, TypeOK, Counters
  <2> QED
    BY <1>7, <2>1 DEF DeleteFile, NewSnapshot, redis, cache, db
<1>8. ASSUME Kind PROVE Keeping
  BY <1>0, <1>8 DEF Keeping, Recorded
<1>9. ASSUME MoveToSnapshot(x) PROVE Keeping
  <2>1. PICK u \in proc[x].todo : ToSnapshot(u)
    BY <1>9 DEF MoveToSnapshot
  <2>2. u \in Uploads /\ Meta(u) = Target(x)
    BY <2>1, LocalTypes DEF Roles, Role
  <2>3. ForSnapshot(Target(x))
    BY <2>1, <2>2 DEF ForSnapshot
  <2>4. \A m \in Metas : m # Target(x) => normal'[m] = normal[m]
    BY <1>9 DEF MoveToSnapshot, TypeOK, cache
  <2>5. used' = used /\ metas' = metas /\ snaps' = snaps
    BY <1>9 DEF MoveToSnapshot, redis, db
  <2> QED
    BY <1>0, <2>3, <2>4, <2>5, OnePlace DEF Keeping, Recorded
<1> QED
  BY <1>1, <1>2, <1>3, <1>4, <1>5, <1>6, <1>7, <1>8, <1>9 DEF Working

\* So does every step of the runner.
LEMMA RunningKeeps ==
  ASSUME TypeOK, Roles, Contents, Entries, Running \/ RunRefused
  PROVE  Keeping
<1>1. Runner \in Procs /\ asks' = asks /\ used'.left = used.left /\ snaps' = snaps
  <2>1. asks' = asks
    BY RunningApart DEF Apart, RunRefused
  <2>2. used'.left = used.left /\ snaps' = snaps
    BY DEF Running, RunRefused, Take, RunRead, RunUpload, RunFailed, RunMeta, RunDisk,
           RunNormal,
           DropRecord, DropDir, DropRegs, redis, TypeOK, Counters
  <2> QED
    BY <2>1, <2>2 DEF Procs
<1>2. CASE RunMeta
  <2>1. Mine \in Metas
    BY <1>1, <1>2, AskFacts DEF RunMeta, At, Mine, Roles, Role, Moving
  <2>2. \A m \in Metas : metas[m] # None => metas'[m] # None
    BY <1>2, <2>1 DEF RunMeta, TypeOK
  <2> QED
    BY <1>1, <1>2, <2>2 DEF RunMeta, Keeping, Recorded, cache
<1>3. CASE RunNormal
  <2>1. metas[Mine] # None
    BY <1>3 DEF RunNormal, At, Entries, Recording
  <2>2. \A m \in Metas : m # Mine => normal'[m] = normal[m]
    BY <1>3 DEF RunNormal, TypeOK
  <2> QED
    BY <1>1, <1>3, <2>1, <2>2 DEF RunNormal, Keeping, Recorded, db
<1>4. CASE Take \/ RunRead \/ RunUpload \/ RunFailed \/ RunDisk \/ RunRefused
  BY <1>1, <1>4
     DEF Take, RunRead, RunUpload, RunFailed, RunDisk, RunRefused, Keeping, Recorded, cache, db
<1>5. CASE DropRecord(Runner) \/ DropDir(Runner) \/ DropRegs(Runner)
  BY <1>1, <1>5, WorkingKeeps DEF Working
<1> QED
  BY <1>2, <1>3, <1>4, <1>5 DEF Running

-----------------------------------------------------------------------------
\* Steps away from the moves.
LEMMA QuietSaved ==
  ASSUME TypeOK, Roles, Saved, Keeping, SendersKept, NEW x \in Procs, Apart(x),
         Untold, RegsStay, snaps' \subseteq snaps, proc'[x].pc # "flashSnapshot", Safe(x)'
  PROVE  Saved'
<1>1. SnapshotIds'
  BY IdsStay DEF Apart
<1> QED
  BY <1>1, AllKept, ToldStay, SavedBuild

\* An answer other than "open" opens no upload and tells nobody that all is there,
LEMMA AnswerUntold ==
  ASSUME TypeOK, NEW x \in Procs, NEW at, NEW m, Answer(x, at, m)
  PROVE  /\ at # "open" => Untold
         /\ \A u \in Uploads : client'[u].told = client[u].told
         /\ \A u \in Uploads : u # proc[x].u => client'[u] = client[u]
<1>1. \A u \in Uploads : client[u] \in Senders
  BY DEF TypeOK
<1>2. \A u \in Uploads : client'[u] = IF u = proc[x].u THEN [client[u] EXCEPT !.at = at, !.meta = m]
                                       ELSE client[u]
  BY DEF Answer, TypeOK
<1>3. ASSUME NEW u \in Uploads
      PROVE  /\ client'[u].told = client[u].told
             /\ at # "open" /\ client'[u].at = "open" => client[u].at = "open"
  BY <1>1, <1>2 DEF Senders
<1> QED
  BY <1>2, <1>3 DEF Untold, Opened

\* ... nor does the list of missing parts,
LEMMA MissingUntold ==
  ASSUME TypeOK, NEW v, NEW s, client' = [client EXCEPT ![v].missing = s]
  PROVE  Untold
BY DEF TypeOK, Senders, Untold, Opened

\* ... nor silence.
LEMMA SameUntold ==
  ASSUME client' = client
  PROVE  Untold
BY DEF Untold, Opened

\* Steps that only prepare, write parts, mark moves as failed or remove files.
LEMMA ElsewhereSaved ==
  ASSUME TypeOK, Roles, Contents, Saved, NEW x \in Procs,
         \/ FlashDisk(x) \/ SameHash(x) \/ SameId(x) \/ Insert(x)
         \/ WritePart(x) \/ ReadRecord(x) \/ SaveRecord(x) \/ Gather(x)
         \/ ReadFailing(x) \/ SetFailed(x) \/ MoveToSnapshot(x)
         \/ DeleteLook(x) \/ DeleteFile(x)
  PROVE  Saved'
<1>0. Apart(x) /\ SendersKept /\ Keeping
  BY WorkingApart, WorkingSenders, WorkingKeeps DEF Working
<1> DEFINE Away == proc'[x].pc \notin Placing \cup Dropping \cup {"flashSnapshot"}
           Quietly == Untold /\ RegsStay /\ snaps' \subseteq snaps /\ Away
<1>14. ASSUME NEW pc, Goto(x, pc), pc \notin Placing \cup Dropping \cup {"flashSnapshot"} PROVE Away
  BY <1>14, GotoFields
<1>15. ASSUME Return(x) PROVE Away
  BY <1>15, ReturnFields DEF Idle, Placing, Dropping
<1> HIDE DEF Away
<1>1. ASSUME FlashDisk(x) PROVE Quietly
  <2>1. Untold
    BY <1>1, AnswerUntold DEF FlashDisk
  <2>2. RegsStay /\ snaps' \subseteq snaps
    BY <1>1 DEF FlashDisk, RegsStay, redis
  <2>3. Away
    BY <1>1, <1>14, <1>15 DEF FlashDisk, Placing, Dropping
  <2> QED
    BY <2>1, <2>2, <2>3
<1>2. ASSUME SameHash(x) PROVE Quietly
  <2>1. Untold
    <3>1. ASSUME NEW m, Answer(x, "joined", m) PROVE Untold
      BY <3>1, AnswerUntold
    <3> QED
      BY <1>2, <3>1, SameUntold DEF SameHash
  <2>2. RegsStay /\ snaps' \subseteq snaps
    BY <1>2 DEF SameHash, RegsStay, redis
  <2>3. Away
    BY <1>2, <1>14, <1>15 DEF SameHash, Placing, Dropping
  <2> QED
    BY <2>1, <2>2, <2>3
<1>3. ASSUME SameId(x) PROVE Quietly
  <2>1. Untold
    BY <1>3, AnswerUntold, SameUntold DEF SameId
  <2>2. RegsStay /\ snaps' \subseteq snaps
    BY <1>3 DEF SameId, RegsStay, redis
  <2>3. Away
    BY <1>3, <1>14, <1>15 DEF SameId, Placing, Dropping
  <2> QED
    BY <2>1, <2>2, <2>3
<1>4. ASSUME Insert(x) PROVE Quietly
  <2>1. Untold
    BY <1>4, SameUntold DEF Insert
  <2>2. RegsStay /\ snaps' \subseteq snaps
    BY <1>4 DEF Insert, RegsStay, redis
  <2>3. Away
    BY <1>4, <1>14, <1>15 DEF Insert, Placing, Dropping
  <2> QED
    BY <2>1, <2>2, <2>3
<1>5. ASSUME WritePart(x) PROVE Quietly
  <2>1. Untold
    BY <1>5, SameUntold DEF WritePart
  <2>2. RegsStay /\ snaps' \subseteq snaps
    BY <1>5 DEF WritePart, RegsStay, redis
  <2>3. Away
    BY <1>5, <1>14, <1>15 DEF WritePart, Placing, Dropping
  <2> QED
    BY <2>1, <2>2, <2>3
<1>6. ASSUME ReadRecord(x) PROVE Quietly
  <2>1. Untold
    BY <1>6, SameUntold DEF ReadRecord
  <2>2. RegsStay /\ snaps' \subseteq snaps
    BY <1>6 DEF ReadRecord, RegsStay, redis
  <2>3. Away
    <3>1. ASSUME NEW h, NEW g, proc' = [proc EXCEPT ![x].pc = "saveRecord", ![x].hash = h,
              ![x].got = g]
          PROVE  Away
      BY <3>1, LocalTypes DEF TypeOK, Locals, Away, Placing, Dropping
    <3> QED
      BY <1>6, <1>14, <1>15, <3>1 DEF ReadRecord, Placing, Dropping
  <2> QED
    BY <2>1, <2>2, <2>3
<1>7. ASSUME SaveRecord(x) PROVE Quietly
  <2>1. Untold
    BY <1>7, MissingUntold, SameUntold DEF SaveRecord
  <2>2. RegsStay /\ snaps' \subseteq snaps
    BY <1>7 DEF SaveRecord, RegsStay, redis
  <2>3. Away
    BY <1>7, <1>14, <1>15 DEF SaveRecord, Placing, Dropping
  <2> QED
    BY <2>1, <2>2, <2>3
<1>8. ASSUME Gather(x) PROVE Quietly
  <2>1. Untold
    BY <1>8, SameUntold DEF Gather
  <2>2. RegsStay /\ snaps' \subseteq snaps
    BY <1>8 DEF Gather, RegsStay, redis
  <2>3. Away
    <3>1. ASSUME NEW c, proc' = [proc EXCEPT ![x].pc = "writeNormal", ![x].piece = c]
          PROVE  Away
      BY <3>1, LocalTypes DEF TypeOK, Locals, Away, Placing, Dropping
    <3> QED
      BY <1>8, <1>14, <1>15, <3>1 DEF Gather, Placing, Dropping
  <2> QED
    BY <2>1, <2>2, <2>3
<1>9. ASSUME ReadFailing(x) PROVE Quietly
  <2>1. Untold
    BY <1>9, SameUntold DEF ReadFailing
  <2>2. RegsStay /\ snaps' \subseteq snaps
    BY <1>9 DEF ReadFailing, RegsStay, redis
  <2>3. Away
    <3>1. ASSUME NEW t, proc' = [proc EXCEPT ![x].pc = "setFailed", ![x].todo = t]
          PROVE  Away
      BY <3>1, LocalTypes DEF TypeOK, Locals, Away, Placing, Dropping
    <3> QED
      BY <1>9, <1>14, <1>15, <3>1 DEF ReadFailing, Placing, Dropping
  <2> QED
    BY <2>1, <2>2, <2>3
<1>10. ASSUME SetFailed(x) PROVE Quietly
  <2>1. Untold
    BY <1>10, MissingUntold, SameUntold DEF SetFailed
  <2>2. RegsStay /\ snaps' \subseteq snaps
    BY <1>10 DEF SetFailed, RegsStay, redis, TypeOK
  <2>3. Away
    <3>1. ASSUME NEW t, proc' = [proc EXCEPT ![x].todo = t]
          PROVE  Away
      BY <3>1, <1>10, LocalTypes DEF TypeOK, Locals, Away, Placing, Dropping, SetFailed, At
    <3> QED
      BY <1>10, <1>14, <1>15, <3>1 DEF SetFailed, Placing, Dropping
  <2> QED
    BY <2>1, <2>2, <2>3
<1>11. ASSUME MoveToSnapshot(x) PROVE Quietly
  <2>1. Untold
    BY <1>11, SameUntold DEF MoveToSnapshot
  <2>2. RegsStay /\ snaps' \subseteq snaps
    BY <1>11 DEF MoveToSnapshot, RegsStay, redis
  <2>3. Away
    <3>1. ASSUME NEW u, NEW t, proc' = [proc EXCEPT ![x].pc = "addSnapshot", ![x].move = u,
              ![x].todo = t]
          PROVE  Away
      BY <3>1, LocalTypes DEF TypeOK, Locals, Away, Placing, Dropping
    <3> QED
      BY <1>11, <1>14, <1>15, <3>1 DEF MoveToSnapshot, Placing, Dropping
  <2> QED
    BY <2>1, <2>2, <2>3
<1>12. ASSUME DeleteLook(x) PROVE Quietly
  <2>1. Untold
    BY <1>12, SameUntold DEF DeleteLook
  <2>2. RegsStay /\ snaps' \subseteq snaps
    BY <1>12 DEF DeleteLook, RegsStay, redis
  <2>3. Away
    BY <1>12, <1>14, <1>15 DEF DeleteLook, Placing, Dropping
  <2> QED
    BY <2>1, <2>2, <2>3
<1>13. ASSUME DeleteFile(x) PROVE Quietly
  <2>1. Untold
    BY <1>13, SameUntold DEF DeleteFile
  <2>2. RegsStay /\ snaps' \subseteq snaps
    BY <1>13 DEF DeleteFile, RegsStay, redis
  <2>3. Away
    BY <1>13, <1>14, <1>15 DEF DeleteFile, Placing, Dropping
  <2> QED
    BY <2>1, <2>2, <2>3
<1>16. Quietly
  BY <1>1, <1>2, <1>3, <1>4, <1>5, <1>6, <1>7, <1>8, <1>9, <1>10, <1>11, <1>12, <1>13
<1>17. Safe(x)'
  BY <1>16, SafeElsewhere DEF Away
<1> QED
  BY <1>0, <1>16, <1>17, QuietSaved DEF Away

\* A file with the hash is looked for: nothing stored is lost.
LEMMA FlashSaved ==
  ASSUME TypeOK, Roles, Contents, Saved, NEW x \in Procs, Flash(x)
  PROVE  Saved'
<1>1. Apart(x) /\ SendersKept /\ Keeping
  BY WorkingApart, WorkingSenders, WorkingKeeps DEF Working
<1>2. Untold /\ RegsStay /\ snaps' = snaps
  BY SameUntold DEF Flash, RegsStay, redis
<1>3. /\ proc'[x].pc \notin Placing \cup Dropping
      /\ proc'[x].pc = "flashSnapshot" => \E s \in snaps : proc'[x].found = s.meta
  <2>1. ASSUME Goto(x, "sameHash") PROVE proc'[x].pc = "sameHash"
    BY <2>1, GotoFields
  <2>2. ASSUME NEW m, NEW pc, proc' = [proc EXCEPT ![x].pc = pc, ![x].found = m]
        PROVE  proc'[x].pc = pc /\ proc'[x].found = m
    BY <2>2, LocalTypes DEF TypeOK, Locals
  <2> QED
    BY <2>1, <2>2 DEF Flash, Placing, Dropping
<1>4. Safe(x)'
  BY <1>3, SafeElsewhere
<1>5. \A m : ForSnapshot(m)' <=> ForSnapshot(m)
  BY <1>1, AsksStay DEF Apart
<1>6. SnapshotIds'
  BY <1>1, <1>2, <1>3, <1>5 DEF Saved, SnapshotIds, Apart
<1> QED
  BY <1>1, <1>2, <1>4, <1>6, AllKept, ToldStay, SavedBuild

\* The file of an upload to a snapshot that is there was one.
LEMMA FlashSnapshotSaved ==
  ASSUME TypeOK, Roles, Contents, Saved, NEW x \in Procs, FlashSnapshot(x)
  PROVE  Saved'
<1>1. Apart(x) /\ SendersKept /\ Keeping
  BY WorkingApart, WorkingSenders, WorkingKeeps DEF Working
<1>2. Untold /\ RegsStay
  BY AnswerUntold DEF FlashSnapshot, RegsStay
<1>3. proc'[x] = Idle
  BY ReturnFields DEF FlashSnapshot
<1>4. proc'[x].pc \notin Placing \cup Dropping \cup {"flashSnapshot"}
  BY <1>3 DEF Idle, Placing, Dropping
<1>5. Safe(x)'
  BY <1>4, SafeElsewhere
<1>6. PICK m \in Metas : m = proc[x].found /\ ForSnapshot(m)
  BY SnapperFacts DEF FlashSnapshot, At, Saved, SnapshotIds
<1>7. \A s \in snaps' : s \in snaps \/ s.meta = m
  BY <1>6 DEF FlashSnapshot, NewSnapshot
<1>8. \A n : ForSnapshot(n)' <=> ForSnapshot(n)
  BY <1>1, AsksStay DEF Apart
<1>9. SnapshotIds'
  BY <1>1, <1>4, <1>6, <1>7, <1>8 DEF Saved, SnapshotIds, Apart
<1> QED
  BY <1>1, <1>2, <1>5, <1>9, AllKept, ToldStay, SavedBuild

\* A move is registered: nothing stored is lost.
LEMMA RegisterSaved ==
  ASSUME TypeOK, Roles, Contents, Saved, NEW x \in Procs, Register(x)
  PROVE  Saved'
<1>1. Apart(x) /\ SendersKept /\ Keeping
  BY WorkingApart, WorkingSenders, WorkingKeeps DEF Working
<1>2. PICK u \in Uploads : u = proc[x].u /\ client[u].at = "asking"
  BY DEF Register, At, Roles, Role, Preparing
<1>3. /\ \A v \in Uploads : client'[v].told = client[v].told
      /\ \A v \in Uploads : v # u => client'[v] = client[v]
  BY <1>2, AnswerUntold DEF Register
<1>4. ~client[u].told
  BY <1>2 DEF Saved, ToldSenders, Prepared
<1>5. reg'[u] # "none" /\ \A v \in Uploads : reg[v] # "none" => reg'[v] # "none"
  BY <1>2 DEF Register, TypeOK
<1>6. ASSUME NEW v \in Uploads PROVE Kept(v)'
  <2>1. CASE v = u
    BY <1>3, <1>4, <1>5, <2>1 DEF Kept
  <2>2. CASE v # u
    BY <1>1, <1>3, <1>5, <2>2, KeptStays DEF Saved, Opened
  <2> QED
    BY <2>1, <2>2
<1>7. proc'[x].pc \notin Placing \cup Dropping \cup {"flashSnapshot"}
  BY ReturnFields DEF Register, Idle, Placing, Dropping
<1>8. Safe(x)'
  BY <1>7, SafeElsewhere
<1>9. SnapshotIds'
  BY <1>1, <1>7, IdsStay DEF Register, Apart
<1>10. ToldSenders'
  BY <1>1, <1>3 DEF Saved, ToldSenders, SendersKept, Prepared
<1> QED
  BY <1>1, <1>6, <1>8, <1>9, <1>10, SavedBuild

\* The whole file is written: nothing stored is lost.
LEMMA WriteNormalSaved ==
  ASSUME TypeOK, Roles, Contents, Saved, NEW x \in Procs, WriteNormal(x)
  PROVE  Saved'
<1>1. Apart(x) /\ SendersKept /\ Keeping
  BY WorkingApart, WorkingSenders, WorkingKeeps DEF Working
<1>2. Untold /\ RegsStay /\ snaps' = snaps
  BY SameUntold DEF WriteNormal, RegsStay, redis
<1>3. proc'[x].pc = "removeDir" /\ proc'[x].u = proc[x].u
  BY GotoFields DEF WriteNormal
<1>4. PICK m \in Metas : m = Target(x)
  BY TargetId DEF WriteNormal, At, Serving
<1>5. Target(x)' = m
  BY <1>1, <1>3, <1>4, SameAsks DEF WriteNormal, Target
<1>6. proc[x].piece # None
  BY ConstantsAssumption DEF WriteNormal, At, Roles, Role, Contents, Content
<1>7. normal'[m] # None
  BY <1>4, <1>6 DEF WriteNormal, TypeOK
<1>8. Safe(x)'
  BY <1>3, <1>5, <1>7 DEF Safe, Placing, Dropping
<1> QED
  BY <1>1, <1>2, <1>3, <1>8, QuietSaved

\* The parts are removed: nothing stored is lost.
LEMMA RemoveDirSaved ==
  ASSUME TypeOK, Roles, Contents, Saved, NEW x \in Procs, RemoveDir(x)
  PROVE  Saved'
<1>1. Apart(x) /\ SendersKept /\ Keeping
  BY WorkingApart, WorkingSenders, WorkingKeeps DEF Working
<1>2. Untold /\ RegsStay /\ snaps' = snaps
  BY SameUntold DEF RemoveDir, RegsStay, redis
<1>3. CASE Goto(x, "readMoves")
  <2>1. /\ proc'[x].pc = "readMoves" /\ proc'[x].u = proc[x].u /\ proc'[x].part = proc[x].part
    BY <1>3, GotoFields
  <2>2. proc[x].pc = "removeDir"
    BY DEF RemoveDir, At
  <2>3. Safe(x)'
    BY <1>1, <2>1, <2>2, SafeStays DEF Placing, Dropping
  <2> QED
    BY <1>1, <1>2, <2>1, <2>3, QuietSaved
<1>4. CASE Return(x)
  <2>1. proc'[x].pc \notin Placing \cup Dropping \cup {"flashSnapshot"}
    BY <1>4, ReturnFields DEF Idle, Placing, Dropping
  <2> QED
    BY <1>1, <1>2, <2>1, SafeElsewhere, QuietSaved
<1> QED
  BY <1>3, <1>4 DEF RemoveDir

\* Who reads the moves finds that of its own upload, unless it is done.
LEMMA ReadMovesSaved ==
  ASSUME TypeOK, Roles, Contents, Saved, NEW x \in Procs, ReadMoves(x)
  PROVE  Saved'
<1>1. Apart(x) /\ SendersKept /\ Keeping
  BY WorkingApart, WorkingSenders, WorkingKeeps DEF Working
<1>2. Untold /\ RegsStay /\ snaps' = snaps /\ metas' = metas /\ normal' = normal /\ used' = used
  BY SameUntold DEF ReadMoves, RegsStay, redis, cache, db
<1>3. /\ proc'[x].pc = "move" /\ proc'[x].u = proc[x].u /\ proc'[x].part = proc[x].part
      /\ proc'[x].todo = RegsOf(Target(x))
  BY LocalTypes DEF ReadMoves, TypeOK, Locals
<1>4. PICK m \in Metas, u \in Uploads : m = Target(x) /\ u = proc[x].u
  BY TargetId DEF ReadMoves, At, Serving, Roles, Role
<1>5. Target(x)' = m
  BY <1>1, <1>3, <1>4, SameAsks DEF ReadMoves, Target
<1>6. (ForStorage(m)' <=> ForStorage(m)) /\ (ForSnapshot(m)' <=> ForSnapshot(m))
      /\ (Undisturbed(m)' <=> Undisturbed(m)) /\ (Recorded(m)' <=> Recorded(m))
      /\ (Opened(u)' <=> Opened(u))
  BY <1>1, <1>2, AsksStay DEF Apart, Undisturbed, Recorded, ReadMoves, Opened
<1>7. ASSUME Undisturbed(m), ForSnapshot(m), Opened(u), ~Recorded(m) PROVE RegsOf(m) # {}
  <2>1. Meta(u) = m
    BY <1>4, <1>7, TargetId DEF ReadMoves, At, Serving
  <2>2. ToSnapshot(u)
    BY <1>7, <2>1 DEF ForSnapshot, Undisturbed, OneDestination
  <2>3. reg[u] # "none"
    BY <1>7, <2>1, <2>2 DEF Saved, Kept, Stored
  <2> QED
    BY <2>1, <2>3 DEF RegsOf
<1>8. Safe(x) /\ proc[x].pc = "readMoves"
  BY DEF Saved, ReadMoves, At
<1>9. Safe(x)'
  BY <1>2, <1>3, <1>4, <1>5, <1>6, <1>7, <1>8 DEF Safe, Placing, Dropping
<1> QED
  BY <1>1, <1>2, <1>3, <1>9, QuietSaved

\* The sender is told that all is uploaded when the moves are done.
LEMMA MovesDoneSaved ==
  ASSUME TypeOK, Roles, Contents, Saved, NEW x \in Procs, MovesDone(x)
  PROVE  Saved'
<1>1. Apart(x) /\ SendersKept /\ Keeping
  BY WorkingApart, WorkingSenders, WorkingKeeps DEF Working
<1>2. PICK m \in Metas, u \in Uploads : m = Target(x) /\ u = proc[x].u /\ Prepared(u)
  BY TargetId DEF MovesDone, At, Serving, Roles, Role
<1>3. RegsStay /\ snaps' = snaps
  BY DEF MovesDone, RegsStay, redis
<1>4. proc'[x].pc \notin Placing \cup Dropping \cup {"flashSnapshot"}
  BY ReturnFields DEF MovesDone, Idle, Placing, Dropping
<1>5. CASE proc[x].part = None
  <2>1. Untold
    BY <1>5, SameUntold DEF MovesDone
  <2> QED
    BY <1>1, <1>3, <1>4, <2>1, SafeElsewhere, QuietSaved
<1>6. CASE proc[x].part # None
  <2>1. /\ \A v \in Uploads : Opened(v)' <=> Opened(v)
        /\ \A v \in Uploads : v # u => client'[v] = client[v]
    BY <1>2, <1>6 DEF MovesDone, TypeOK, Senders, Opened
  <2>2. ASSUME NEW v \in Uploads, v # u PROVE Kept(v)'
    BY <1>1, <1>3, <2>1, <2>2, KeptStays DEF Saved, RegsStay
  <2>3. Kept(u)'
    <3>1. SUFFICES ASSUME Opened(u), Undisturbed(m), m = Meta(u)
                   PROVE  Kept(u)'
      <4>1. Opened(u) => m = Meta(u)
        BY <1>2, TargetId DEF MovesDone, At, Serving
      <4>2. Meta(u)' = Meta(u)
        BY <1>1, SameAsks DEF Apart
      <4>3. Undisturbed(m)' => Undisturbed(m)
        BY <1>1, AsksStay DEF Keeping, Undisturbed
      <4> QED
        BY <2>1, <4>1, <4>2, <4>3 DEF Kept
    <3>2. Safe(x) /\ Kept(u)
      BY DEF Saved
    <3>3. ToSnapshot(u) => ForSnapshot(m)
      BY <3>1 DEF ForSnapshot
    <3>4. ~ToSnapshot(u) => ForStorage(m)
      BY <3>1 DEF ForStorage
    <3>5. Stored(u) \/ (~ToSnapshot(u) /\ normal[m] # None)
      BY <1>2, <1>6, <3>1, <3>2, <3>3, <3>4 DEF Safe, Stored, MovesDone, At, Placing
    <3>6. snaps' = snaps /\ metas' = metas /\ normal' = normal /\ reg' = reg
      BY DEF MovesDone, redis, cache, db
    <3>7. Meta(u)' = m /\ (ToSnapshot(u)' <=> ToSnapshot(u))
      BY <1>1, <3>1, SameAsks DEF Apart
    <3>8. Stored(u)' <=> Stored(u)
      BY <3>1, <3>6, <3>7 DEF Stored, Recorded
    <3> QED
      BY <3>1, <3>2, <3>5, <3>6, <3>7, <3>8 DEF Kept
  <2>4. \A v \in Uploads : v = u \/ client'[v].told => v = u \/ client[v].told
    BY <2>1
  <2>5. ToldSenders'
    BY <1>1, <1>2, <2>4 DEF Saved, ToldSenders, SendersKept, Prepared
  <2>6. SnapshotIds'
    BY <1>1, <1>3, <1>4, IdsStay DEF Apart
  <2> QED
    BY <1>1, <1>4, <2>2, <2>3, <2>5, <2>6, SafeElsewhere, SavedBuild
<1> QED
  BY <1>5, <1>6

\* A move is queued: nothing stored is lost.
LEMMA MoveToStorageSaved ==
  ASSUME TypeOK, Roles, Contents, Saved, NEW x \in Procs, MoveToStorage(x)
  PROVE  Saved'
<1>1. Apart(x) /\ SendersKept /\ Keeping
  BY WorkingApart, WorkingSenders, WorkingKeeps DEF Working
<1>2. Untold /\ RegsStay /\ snaps' = snaps
  BY SameUntold DEF MoveToStorage, RegsStay, redis
<1>3. PICK u \in proc[x].todo : /\ ~ToSnapshot(u)
                                /\ Return(x) \/ proc' = [proc EXCEPT ![x].todo = @ \ {u}]
  BY DEF MoveToStorage
<1>4. CASE Return(x)
  <2>1. proc'[x].pc \notin Placing \cup Dropping \cup {"flashSnapshot"}
    BY <1>4, ReturnFields DEF Idle, Placing, Dropping
  <2> QED
    BY <1>1, <1>2, <2>1, SafeElsewhere, QuietSaved
<1>5. CASE proc' = [proc EXCEPT ![x].todo = @ \ {u}]
  <2>1. /\ proc[x].pc = "move" /\ proc'[x].pc = "move"
        /\ proc'[x].u = proc[x].u /\ proc'[x].part = proc[x].part
    BY <1>5, LocalTypes DEF MoveToStorage, At, TypeOK, Locals
  <2>2. u \in Uploads /\ Meta(u) = Target(x)
    BY LocalTypes DEF Roles, Role
  <2>3. ForStorage(Target(x))
    BY <1>3, <2>2 DEF ForStorage
  <2>4. ~(Undisturbed(Target(x)) /\ ForSnapshot(Target(x)))
    BY <2>3, OnePlace DEF Undisturbed
  <2>5. Safe(x)'
    BY <1>1, <2>1, <2>4, SafeStays DEF Placing, Dropping
  <2> QED
    BY <1>1, <1>2, <2>1, <2>5, QuietSaved
<1> QED
  BY <1>3, <1>4, <1>5

\* A snapshot is recorded: nothing stored is lost.
LEMMA AddSnapshotSaved ==
  ASSUME TypeOK, Roles, Contents, Saved, NEW x \in Procs, AddSnapshot(x)
  PROVE  Saved'
<1>1. Apart(x) /\ SendersKept /\ Keeping
  BY WorkingApart, WorkingSenders, WorkingKeeps DEF Working
<1>2. Untold /\ RegsStay
  BY SameUntold DEF AddSnapshot, RegsStay
<1>3. proc'[x].pc = "dropRecord" /\ proc'[x].u = proc[x].u
  BY GotoFields DEF AddSnapshot
<1>4. PICK m \in Metas : m = Target(x)
  BY SnapperFacts DEF AddSnapshot, At
<1>5. Target(x)' = m
  BY <1>1, <1>3, <1>4, SameAsks DEF AddSnapshot, Target
<1>6. ForSnapshot(m)
  <2>1. proc[x].move # None /\ proc[x].move \in Uploads
    BY LocalTypes DEF AddSnapshot, At, Roles, Role
  <2> QED
    BY <1>4, <2>1 DEF Roles, Role, ForSnapshot
<1>7. \A s \in snaps' : s \in snaps \/ s.meta = m
  BY <1>4 DEF AddSnapshot, NewSnapshot
<1>8. \E s \in snaps' : s.meta = m
  <2> DEFINE s == [id |-> used.snaps, meta |-> m, hash |-> Hash(proc[x].move)]
  <2>1. s \in snaps' /\ s.meta = m
    BY <1>4 DEF AddSnapshot, NewSnapshot
  <2> QED
    BY <2>1
<1>9. Safe(x)'
  BY <1>3, <1>5, <1>8 DEF Safe, Recorded, Placing, Dropping
<1>10. \A n : ForSnapshot(n)' <=> ForSnapshot(n)
  BY <1>1, AsksStay DEF Apart
<1>11. SnapshotIds'
  BY <1>1, <1>3, <1>6, <1>7, <1>10 DEF Saved, SnapshotIds, Apart
<1> QED
  BY <1>1, <1>2, <1>9, <1>11, AllKept, ToldStay, SavedBuild

\* Steps of a removal: nothing stored is lost.
LEMMA DropSaved ==
  ASSUME TypeOK, Roles, Contents, Saved, NEW x \in Procs, DropRecord(x) \/ DropDir(x)
  PROVE  Saved'
<1>1. Apart(x) /\ SendersKept /\ Keeping
  BY WorkingApart, WorkingSenders, WorkingKeeps DEF Working
<1>2. Untold /\ RegsStay /\ snaps' = snaps
  BY SameUntold DEF DropRecord, DropDir, RegsStay, redis
<1>3. PICK pc \in {"dropDir", "dropRegs"} : Return(x) \/ Goto(x, pc)
  BY DEF DropRecord, DropDir
<1>4. CASE Return(x)
  <2>1. proc'[x].pc \notin Placing \cup Dropping \cup {"flashSnapshot"}
    BY <1>4, ReturnFields DEF Idle, Placing, Dropping
  <2> QED
    BY <1>1, <1>2, <2>1, SafeElsewhere, QuietSaved
<1>5. CASE Goto(x, pc)
  <2>1. /\ proc'[x].pc = pc /\ proc'[x].u = proc[x].u /\ proc'[x].part = proc[x].part
    BY <1>5, GotoFields
  <2>2. proc[x].pc \in Dropping /\ pc \in Dropping
    BY <1>3 DEF DropRecord, DropDir, At, Dropping
  <2>3. Safe(x)'
    BY <1>1, <2>1, <2>2, SafeStays DEF Placing, Dropping
  <2> QED
    BY <1>1, <1>2, <2>1, <2>3, QuietSaved
<1> QED
  BY <1>3, <1>4, <1>5

\* Registrations are removed once the file is stored.
LEMMA DropRegsSaved ==
  ASSUME TypeOK, Roles, Contents, Saved, NEW x \in Procs, DropRegs(x)
  PROVE  Saved'
<1>1. Apart(x) /\ SendersKept /\ Keeping
  BY WorkingApart, WorkingSenders, WorkingKeeps DEF Working
<1>2. Untold /\ snaps' = snaps /\ used' = used /\ metas' = metas /\ normal' = normal
  BY SameUntold DEF DropRegs, cache, db
<1>3. proc[x].pc = "dropRegs" /\ proc[x].pc \in Serving /\ proc[x].u \in Uploads /\
          Prepared(proc[x].u)
  BY DEF DropRegs, At, Serving, Dropping, Roles, Role
<1>4. PICK m \in Metas : m = Target(x) /\ m = client[proc[x].u].meta
  BY <1>3, TargetId
<1>5. Undisturbed(m) => Recorded(m) \/ (x = Runner /\ metas[m] # None)
  BY <1>3, <1>4 DEF Saved, Safe, Dropping
<1>6. x = Runner => ForStorage(m)
  BY <1>3, <1>4, TargetId DEF Roles, Role, ForStorage
<1>7. Recorded(m) => ForSnapshot(m)
  BY DEF Saved, SnapshotIds, Recorded
<1>8. ASSUME NEW u \in Uploads, Meta(u) = m, Undisturbed(m) PROVE Stored(u)
  <2>1. ToSnapshot(u) => ForSnapshot(m)
    BY <1>8 DEF ForSnapshot
  <2>2. ~ToSnapshot(u) => ForStorage(m)
    BY <1>8 DEF ForStorage
  <2> QED
    BY <1>5, <1>6, <1>7, <1>8, <2>1, <2>2, OnePlace DEF Stored, Undisturbed
<1>9. ASSUME NEW u \in Uploads PROVE Kept(u)'
  <2>1. reg'[u] = IF Meta(u) = m THEN "none" ELSE reg[u]
    BY <1>4 DEF DropRegs
  <2> QED
    BY <1>1, <1>2, <1>8, <2>1, KeptStays DEF Saved, Untold
<1>10. Safe(x)' /\ proc'[x].pc # "flashSnapshot"
  <2>1. CASE Return(x)
    <3>1. proc'[x].pc \notin Placing \cup Dropping \cup {"flashSnapshot"}
      BY <2>1, ReturnFields DEF Idle, Placing, Dropping
    <3> QED
      BY <3>1, SafeElsewhere
  <2>2. CASE proc[x].move # None /\ Goto(x, "move")
    <3>1. proc'[x].pc = "move" /\ proc'[x].u = proc[x].u
      BY <2>2, GotoFields
    <3>2. Target(x)' = m
      BY <1>1, <1>3, <1>4, <3>1, SameAsks DEF Target, SendersKept
    <3>3. ForSnapshot(m)
      <4>1. proc[x].move \in Uploads
        BY <2>2, LocalTypes
      <4> QED
        BY <1>4, <2>2, <4>1 DEF Roles, Role, ForSnapshot
    <3>4. x # Runner
      BY <2>2 DEF Roles, Role
    <3>5. Undisturbed(m)' => Undisturbed(m) /\ ~ForStorage(m)'
      BY <1>1, <1>2, <3>3, AsksStay, OnePlace DEF Apart, Undisturbed
    <3>6. Recorded(m)' <=> Recorded(m)
      BY <1>2 DEF Recorded
    <3> QED
      BY <1>5, <3>1, <3>2, <3>4, <3>5, <3>6 DEF Safe, Dropping
  <2> QED
    BY <2>1, <2>2 DEF DropRegs
<1>11. SnapshotIds'
  BY <1>1, <1>2, <1>10, IdsStay DEF Apart
<1> QED
  BY <1>1, <1>2, <1>9, <1>10, <1>11, ToldStay, SavedBuild

\* Steps of the runner: nothing stored is lost.
LEMMA RunningSaved ==
  ASSUME TypeOK, Roles, Contents, Entries, Saved, Running \/ RunRefused
  PROVE  Saved'
<1>1. Runner \in Procs /\ Runner \notin Handlers
  BY ConstantsAssumption DEF Procs
<1>2. Apart(Runner) /\ Keeping
  BY RunningApart, RunningKeeps DEF RunRefused, Apart, Goto, TypeOK
<1>3. client' = client /\ snaps' = snaps
  BY DEF Running, RunRefused, Take, RunRead, RunUpload, RunFailed, RunMeta, RunDisk, RunNormal,
         DropRecord, DropDir, DropRegs, redis
<1>4. SendersKept /\ Untold
  BY <1>2, <1>3, SameUntold DEF SendersKept, Apart
<1>5. CASE Take \/ RunRead \/ RunUpload \/ RunFailed \/ RunMeta \/ RunDisk \/ RunRefused
  <2>1. RegsStay
    BY <1>5
       DEF Take, RunRead, RunUpload, RunFailed, RunMeta, RunDisk, RunRefused, RegsStay, redis,
           TypeOK
  <2>2. CASE UNCHANGED proc
    <3>1. Safe(Runner)'
      BY <1>1, <1>2, <1>4, <2>2, SafeStays, SafeElsewhere
    <3>2. proc'[Runner].pc # "flashSnapshot"
      BY <1>1, <2>2 DEF Roles, Role, Moving, Dropping
    <3> QED
      BY <1>1, <1>2, <1>3, <1>4, <2>1, <3>1, <3>2, QuietSaved
  <2>3. CASE proc'[Runner].pc \in Moving \cup {"idle"}
    <3>1. proc'[Runner].pc \notin Placing \cup Dropping \cup {"flashSnapshot"}
      BY <2>3 DEF Moving, Placing, Dropping
    <3> QED
      BY <1>1, <1>2, <1>3, <1>4, <2>1, <3>1, SafeElsewhere, QuietSaved
  <2>4. UNCHANGED proc \/ proc'[Runner].pc \in Moving \cup {"idle"}
    <3>1. ASSUME Return(Runner) PROVE proc'[Runner].pc = "idle"
      BY <1>1, <3>1, ReturnFields DEF Idle
    <3>2. ASSUME NEW pc, Goto(Runner, pc) PROVE proc'[Runner].pc = pc
      BY <1>1, <3>2, GotoFields
    <3>3. ASSUME Take PROVE UNCHANGED proc \/ proc'[Runner].pc \in Moving
      BY <1>1, <3>3 DEF Take, TypeOK, Idle, Moving
    <3>4. ASSUME RunRead PROVE proc'[Runner].pc \in Moving \cup {"idle"}
      BY <1>1, <3>1, <3>4, LocalTypes DEF RunRead, TypeOK, Locals, Moving
    <3> QED
      BY <1>5, <3>1, <3>2, <3>3, <3>4
         DEF RunUpload, RunFailed, RunMeta, RunDisk, RunRefused, Moving
  <2> QED
    BY <2>2, <2>3, <2>4
<1>6. CASE RunNormal
  <2>1. RegsStay
    BY <1>6 DEF RunNormal, RegsStay, redis
  <2>2. CASE Return(Runner)
    <3>1. proc'[Runner].pc \notin Placing \cup Dropping \cup {"flashSnapshot"}
      BY <1>1, <2>2, ReturnFields DEF Idle, Placing, Dropping
    <3> QED
      BY <1>1, <1>2, <1>3, <1>4, <2>1, <3>1, SafeElsewhere, QuietSaved
  <2>3. CASE Goto(Runner, "dropRecord")
    <3>1. proc'[Runner].pc = "dropRecord" /\ proc'[Runner].u = proc[Runner].u
      BY <1>1, <2>3, GotoFields
    <3>2. PICK m \in Metas : m = Target(Runner) /\ m = Mine
      BY <1>1, <1>6, TargetId DEF RunNormal, At, Mine, Roles, Role, Moving
    <3>3. Target(Runner)' = m
      BY <1>2, <1>3, <3>1, <3>2, SameAsks DEF Target, Apart
    <3>4. metas'[m] # None
      BY <1>6, <3>2 DEF RunNormal, At, Entries, Recording, db
    <3>5. Safe(Runner)'
      BY <3>1, <3>3, <3>4 DEF Safe, Placing, Dropping
    <3> QED
      BY <1>1, <1>2, <1>3, <1>4, <2>1, <3>1, <3>5, QuietSaved
  <2> QED
    BY <1>6, <2>2, <2>3 DEF RunNormal
<1>7. CASE DropRecord(Runner) \/ DropDir(Runner) \/ DropRegs(Runner)
  BY <1>1, <1>7, DropSaved, DropRegsSaved
<1> QED
  BY <1>5, <1>6, <1>7 DEF Running

\* A command fails: nothing stored is lost.
LEMMA FailSaved ==
  ASSUME TypeOK, Roles, Saved, NEW x \in Procs, Fail(x)
  PROVE  Saved'
<1>1. Apart(x)
  BY ReturnFields DEF Fail, Apart
<1>2. SendersKept
  BY PreparerKept, SameKept DEF Fail, Preparing, SameSenders
<1>3. snaps' = snaps /\ used'.left = used.left /\ reg' = reg /\ normal' = normal /\ metas' = metas
  BY DEF Fail, FaultUsed, redis, cache, db, TypeOK, Counters
<1>4. Keeping /\ RegsStay
  BY <1>1, <1>3 DEF Keeping, RegsStay, Recorded, Apart
<1>5. Untold
  BY AnswerUntold, SameUntold DEF Fail
<1>6. proc'[x].pc \notin Placing \cup Dropping \cup {"flashSnapshot"}
  BY ReturnFields DEF Fail, Idle, Placing, Dropping
<1> QED
  BY <1>1, <1>2, <1>3, <1>4, <1>5, <1>6, SafeElsewhere, QuietSaved

\* co restarts: nothing stored is lost.
LEMMA CrashSaved ==
  ASSUME TypeOK, Roles, Saved, Crash
  PROVE  Saved'
<1>1. /\ snaps' = snaps /\ used'.left = used.left /\ reg' = reg /\ normal' = normal
      /\ metas' = metas /\ asks' = asks
  BY DEF Crash, FaultUsed, redis, cache, db, TypeOK, Counters
<1>2. Keeping /\ RegsStay
  BY <1>1 DEF Keeping, RegsStay, Recorded
<1>3. \A u \in Uploads : /\ client'[u].told = client[u].told
                         /\ Opened(u)' => Opened(u)
                         /\ Prepared(u) => Prepared(u)'
  BY DEF Crash, TypeOK, Senders, Opened, Prepared
<1>4. \A x \in Procs : proc'[x].pc = "idle"
  BY DEF Crash, Idle
<1>5. \A x \in Procs : Safe(x)'
  BY <1>4 DEF Safe, Placing, Dropping
<1>6. SnapshotIds'
  BY <1>1, <1>4, IdsStay
<1>7. ToldSenders'
  BY <1>3 DEF Saved, ToldSenders
<1> QED
  BY <1>2, <1>3, <1>5, <1>6, <1>7, AllKept DEF Untold, Saved

\* A request is taken: a cancellation and a removal give the id up.
LEMMA AskingSaved ==
  ASSUME TypeOK, Roles, Saved, NEW x \in Handlers, NEW u \in Uploads,
         \/ Prepare(x, u) \/ Cancel(x, u) \/ Retry(x, u)
         \/ \E p \in asks.parts, piece \in Hashes \cup {Bad} : Send(x, u, p, piece)
  PROVE  Saved'
<1>1. Apart(x) /\ x \in Procs
  BY AskingApart DEF Procs
<1>2. /\ snaps' = snaps /\ reg' = reg /\ normal' = normal /\ metas' = metas
      /\ used.left \subseteq used'.left
  <2>1. ASSUME NEW n, NEW k, used' = [used EXCEPT !.extras = n, !.left = k], used.left \subseteq k
        PROVE  used.left \subseteq used'.left
    BY <2>1 DEF TypeOK, Counters
  <2>2. ASSUME NEW n, used' = [used EXCEPT !.extras = n]
        PROVE  used.left \subseteq used'.left
    BY <2>2 DEF TypeOK, Counters
  <2>3. CASE Prepare(x, u)
    BY <2>3 DEF Prepare, redis, cache, db
  <2>4. CASE Cancel(x, u)
    BY <2>1, <2>4 DEF Cancel, redis, cache, db
  <2>5. CASE Retry(x, u)
    BY <2>2, <2>5 DEF Retry, redis, cache, db
  <2>6. ASSUME NEW p, NEW piece, Send(x, u, p, piece)
        PROVE  /\ snaps' = snaps /\ reg' = reg /\ normal' = normal /\ metas' = metas
               /\ used.left \subseteq used'.left
    BY <2>2, <2>6 DEF Send, redis, cache, db
  <2> QED
    BY <2>3, <2>4, <2>5, <2>6
<1>3. Keeping /\ RegsStay
  BY <1>1, <1>2 DEF Keeping, RegsStay, Recorded, Apart
<1>4. SendersKept /\ Untold
  <2>1. CASE Prepare(x, u)
    <3>1. \A v \in Uploads : /\ client'[v].told = client[v].told
                             /\ Opened(v)' => Opened(v)
                             /\ Prepared(v) => client'[v] = client[v]
      BY <2>1 DEF Prepare, TypeOK, Senders, Prepared, Opened
    <3> QED
      BY <1>1, <3>1 DEF SendersKept, Untold, Apart
  <2>2. CASE client' = client
    BY <1>1, <2>2, SameUntold DEF SendersKept, Apart
  <2> QED
    BY <2>1, <2>2 DEF Cancel, Retry, Send
<1>5. CASE Cancel(x, u)
  <2>1. proc'[x] = [Idle EXCEPT !.pc = "dropRecord", !.u = u]
    BY <1>1, <1>5 DEF Cancel, TypeOK
  <2>2. proc'[x].pc = "dropRecord" /\ proc'[x].u = u
    BY <2>1 DEF Idle
  <2>3. client[u].meta \in Metas /\ client' = client
    BY <1>5 DEF Cancel, Roles, Uploading, Prepared
  <2>4. Target(x)' = client[u].meta
    BY <2>2, <2>3, ConstantsAssumption DEF Target
  <2>5. client[u].meta \in used'.left
    BY <1>5 DEF Cancel, TypeOK, Counters
  <2>6. Safe(x)'
    BY <2>4, <2>5 DEF Safe, Undisturbed
  <2> QED
    BY <1>1, <1>2, <1>3, <1>4, <2>2, <2>6, QuietSaved
<1>6. CASE Retry(x, u)
  <2>1. proc'[x] = [Idle EXCEPT !.pc = "readMoves", !.u = u]
    BY <1>1, <1>6 DEF Retry, TypeOK
  <2>2. proc'[x].pc = "readMoves" /\ proc'[x].part = None
    BY <2>1 DEF Idle
  <2>3. Safe(x)'
    BY <2>2 DEF Safe, Placing, Dropping
  <2> QED
    BY <1>1, <1>2, <1>3, <1>4, <2>2, <2>3, QuietSaved
<1>7. CASE \/ Prepare(x, u)
           \/ \E p \in asks.parts, piece \in Hashes \cup {Bad} : Send(x, u, p, piece)
  <2>1. ASSUME NEW r, proc' = [proc EXCEPT ![x] = r] PROVE proc'[x] = r
    BY <1>1, <2>1 DEF TypeOK
  <2>2. /\ [Idle EXCEPT !.pc = "flash", !.u = u].pc = "flash"
        /\ \A p, piece : [Idle EXCEPT !.pc = "writePart", !.u = u, !.part = p, !.piece = piece].pc
                           = "writePart"
    BY DEF Idle
  <2>3. ASSUME Prepare(x, u) PROVE proc'[x].pc = "flash"
    BY <2>1, <2>2, <2>3 DEF Prepare
  <2>4. ASSUME NEW p, NEW piece, Send(x, u, p, piece) PROVE proc'[x].pc = "writePart"
    <3> DEFINE r == [Idle EXCEPT !.pc = "writePart", !.u = u, !.part = p, !.piece = piece]
    <3>1. proc' = [proc EXCEPT ![x] = r]
      BY <2>4 DEF Send
    <3>2. r.pc = "writePart"
      BY <2>2
    <3> QED
      BY <2>1, <3>1, <3>2
  <2>5. proc'[x].pc \notin Placing \cup Dropping \cup {"flashSnapshot"}
    BY <1>7, <2>3, <2>4 DEF Placing, Dropping
  <2> QED
    BY <1>1, <1>2, <1>3, <1>4, <2>5, SafeElsewhere, QuietSaved
<1> QED
  BY <1>5, <1>6, <1>7

\* A removal of a snapshot is taken: nothing stored is lost.
LEMMA DeleteSaved ==
  ASSUME TypeOK, Roles, Saved, NEW x \in Handlers, NEW s \in snaps, Delete(x, s)
  PROVE  Saved'
<1>1. Apart(x) /\ x \in Procs
  BY AskingApart DEF Procs
<1>2. /\ reg' = reg /\ normal' = normal /\ metas' = metas /\ client' = client
      /\ used.left \subseteq used'.left /\ s.meta \in used'.left /\ snaps' = snaps \ {s}
  BY DEF Delete, cache, db, TypeOK, Counters
<1>3. Keeping /\ RegsStay
  BY <1>1, <1>2 DEF Keeping, RegsStay, Recorded, Apart
<1>4. SendersKept /\ Untold
  BY <1>1, <1>2, SameUntold DEF SendersKept, Apart
<1>5. proc'[x].pc = "snapLook"
  BY <1>1 DEF Delete, TypeOK, Idle
<1>6. proc'[x].pc \notin Placing \cup Dropping \cup {"flashSnapshot"}
  BY <1>5 DEF Placing, Dropping
<1> QED
  BY <1>1, <1>2, <1>3, <1>4, <1>6, SafeElsewhere, QuietSaved

\* A lease ends: nothing stored is lost.
LEMMA ExpireSaved ==
  ASSUME TypeOK, Roles, Saved, ExpireRecord \/ ExpireMove
  PROVE  Saved'
<1>1. /\ snaps' = snaps /\ normal' = normal /\ metas' = metas /\ client' = client
      /\ proc' = proc /\ asks' = asks
  BY DEF ExpireRecord, ExpireMove, redis, cache, db
<1>2. /\ used.left \subseteq used'.left
      /\ \A u \in Uploads : reg[u] # "none" => reg'[u] # "none" \/ Meta(u) \in used'.left
  <2>1. CASE ExpireRecord
    BY <2>1 DEF ExpireRecord, FaultUsed, TypeOK, Counters
  <2>2. CASE ExpireMove
    <3>1. PICK u \in Uploads :
            /\ reg' = [reg EXCEPT ![u] = "none"]
            /\ used' = [used EXCEPT !.faults = @ + 1, !.left = @ \cup {Meta(u)}]
      BY <2>2 DEF ExpireMove
    <3>2. used'.left = used.left \cup {Meta(u)}
      BY <3>1 DEF TypeOK, Counters
    <3> QED
      BY <3>1, <3>2 DEF TypeOK
  <2> QED
    BY <2>1, <2>2
<1>3. Keeping
  BY <1>1, <1>2 DEF Keeping, Recorded
<1>4. SendersKept /\ Untold
  BY <1>1, SameUntold DEF SendersKept
<1>5. \A u \in Uploads : Kept(u)'
  BY <1>2, <1>3, <1>4, KeptStays DEF Saved, Untold
<1>6. \A x \in Procs : Safe(x)'
  BY <1>1, <1>3, <1>4, SafeStays, SafeElsewhere
<1> QED
  BY <1>1, <1>4, <1>5, <1>6, IdsStay, ToldStay DEF Saved

\* Every step loses nothing.
LEMMA SavedStep ==
  ASSUME TypeOK, Roles, Contents, Entries, Saved, Next
  PROVE  Saved'
<1>1. ASSUME NEW x \in Handlers, Working(x) PROVE Saved'
  <2>1. x \in Procs
    BY DEF Procs
  <2> QED
    BY <1>1, <2>1, FlashSaved, FlashSnapshotSaved, RegisterSaved, WriteNormalSaved,
       RemoveDirSaved,
       ReadMovesSaved, MovesDoneSaved, MoveToStorageSaved, AddSnapshotSaved, DropSaved,
       DropRegsSaved, ElsewhereSaved DEF Working
<1>2. ASSUME Running \/ RunRefused PROVE Saved'
  BY <1>2, RunningSaved
<1>3. ASSUME NEW x \in Handlers, NEW u \in Uploads,
             \/ Prepare(x, u) \/ Cancel(x, u) \/ Retry(x, u)
             \/ \E p \in asks.parts, piece \in Hashes \cup {Bad} : Send(x, u, p, piece)
      PROVE Saved'
  BY <1>3, AskingSaved
<1>4. ASSUME NEW x \in Handlers, NEW s \in snaps, Delete(x, s) PROVE Saved'
  BY <1>4, DeleteSaved
<1>5. ASSUME NEW x \in Procs, Fail(x) PROVE Saved'
  BY <1>5, FailSaved
<1>6. ASSUME Crash \/ ExpireRecord \/ ExpireMove PROVE Saved'
  BY <1>6, CrashSaved, ExpireSaved
<1> QED
  BY <1>1, <1>2, <1>3, <1>4, <1>5, <1>6 DEF Next

\* Nothing happens: nothing stored is lost.
LEMMA StutterSaved ==
  ASSUME TypeOK, Roles, Saved, UNCHANGED vars
  PROVE  Saved'
<1>1. /\ snaps' = snaps /\ normal' = normal /\ metas' = metas /\ client' = client
      /\ proc' = proc /\ asks' = asks /\ reg' = reg /\ used' = used
  BY DEF vars, redis, cache, db
<1>2. Keeping /\ RegsStay
  BY <1>1 DEF Keeping, Recorded, RegsStay
<1>3. SendersKept /\ Untold
  BY <1>1, SameUntold DEF SendersKept
<1>4. \A x \in Procs : Safe(x)'
  BY <1>1, <1>2, <1>3, SafeStays, SafeElsewhere
<1> QED
  BY <1>1, <1>2, <1>3, <1>4, AllKept, IdsStay, ToldStay DEF Saved

\* NothingLost: once the sender of a prepared upload was told that all its
\* parts are there, the file is stored, or it waits in the cache with its move
\* registered, so that RetryPartialUpload can store it; errors, restarts and
\* repeated parts do not change that, cancellations, removals and ended leases
\* do (the runner removes the cache and the registrations last).
THEOREM NothingIsLost == Spec => []NothingLost
<1>1. Init => Saved
  BY DEF Init, Saved, ToldSenders, SnapshotIds, Kept, Safe, Opened, Idle, Placing, Dropping
<1>2. TypeOK /\ Roles /\ Contents /\ Entries /\ Saved /\ [Next]_vars => Saved'
  BY SavedStep, StutterSaved
<1>3. Saved => NothingLost
  BY DEF Saved, Kept, NothingLost, Opened, Undisturbed, Stored, Recorded
<1> QED
  BY <1>1, <1>2, <1>3, TypeCorrect, ContentsTrue, EntersOnce, PTL DEF Spec

===============================================================================
