----------------------------- MODULE FileUpload -----------------------------
(* The upload of files to co: FileMoveService, MultipartService,            *)
(* SnapshotService, MetaStorageService and LocalCacheService of the kernel, *)
(* the controllers file_storage.rs and snapshot.rs that call them, and the  *)
(* FileUploadRunner behind the internal queue.                              *)
(*                                                                          *)
(* An upload is prepared (a multipart record and a move registration in     *)
(* Redis), its parts are sent one by one (a local cache), and the request   *)
(* that completes the last part starts the registered moves: a snapshot is  *)
(* renamed at once, a file for the storage server is queued to the runner.  *)
(* Handlers run concurrently; each step of a handler is one command to      *)
(* Redis, to the file system or to the database, and a step may fail.       *)
(* The queue is in memory: a crash of co loses it, and what was being done. *)
(*                                                                          *)
(* Not modelled: KEYS and the read that follows it are one step; all parts  *)
(* have the same count, so no part is out of range; names, sizes and users. *)
EXTENDS Naturals, Sequences, FiniteSets

CONSTANTS
  Uploads,      \* the prepare requests; each has a move id of its own
  Metas,        \* file meta ids
  Hashes,       \* hashes; a hash stands for the content that has it
  Parts,        \* numbers of parts
  Handlers,     \* requests to the controllers that are served concurrently
  Asks,         \* what may be asked: which uploads are made, what each one is,
                \* the parts files have, and the bounds: faults (steps that
                \* fail, crashes, ends of leases), extras (parts repeated or
                \* damaged, retries, cancellations), deletions of snapshots
  Runner,       \* the consumer of the internal queue
  None, Bad     \* nothing; a content whose hash is none of Hashes

AskType ==
  [made : SUBSET Uploads, parts : SUBSET Parts,
   up : [Uploads -> [snapshot : BOOLEAN, meta : Metas, hash : Hashes]],
   faults : Nat, extras : Nat, deletes : Nat]

ASSUME ConstantsAssumption ==
  /\ {None, Bad} \cap Hashes = {}
  /\ None # Bad
  /\ None \notin Uploads \cup Metas \cup Parts
  /\ None \notin [id : Nat, meta : Metas, hash : Hashes]
  /\ Runner \notin Handlers
  /\ Asks \subseteq AskType

VARIABLES
  asks,       \* what each upload is; chosen once
  client,     \* what the sender of an upload has been told
  multipart,  \* Redis: multipart records, by meta id and hash
  reg,        \* Redis: move registrations
  snaps,      \* Redis: snapshot records
  parts,      \* cache: the directories of parts
  normal,     \* cache: whole files that wait for their move
  snapfile,   \* cache: files of snapshots
  storage,    \* objects on the storage server
  metas,      \* database: file_metadata with file_storage
  disk,       \* database: net disk entries made for an upload
  queue,      \* internal queue: moves for the runner
  proc,       \* the state of each handler and of the runner
  used        \* faults, extras and deletions so far, snapshots ever made, and
              \* which hashes and meta ids the properties make exceptions of

redis == <<multipart, reg, snaps>>
cache == <<parts, normal, snapfile>>
db    == <<storage, metas, disk>>
vars  == <<asks, client, redis, cache, db, queue, proc, used>>

Procs == Handlers \cup {Runner}
ToSnapshot(u) == asks.up[u].snapshot
Meta(u) == asks.up[u].meta
Hash(u) == asks.up[u].hash

\* A multipart record: whether it is there, and the parts marked as uploaded.
NoRecord == [open |-> FALSE, got |-> {}]

\* Locals of a process: the step it is at, the upload it serves, the part it
\* was sent, a content, the record it read, the file a flash upload found, the
\* moves it has still to do, the move to a snapshot and the snapshot removed.
Idle == [pc |-> "idle", u |-> None, part |-> None, piece |-> None, hash |-> None, got |-> {},
         found |-> None, todo |-> {}, move |-> None, gone |-> None]

Steps == {"idle", "flash", "flashDisk", "flashSnapshot", "sameHash", "sameId", "insert", "register",
          "writePart", "readRecord", "saveRecord", "gather", "writeNormal", "removeDir",
          "readFailing", "setFailed", "readMoves", "move", "addSnapshot",
          "dropRecord", "dropDir", "dropRegs",
          "runRead", "runUpload", "runMeta", "runDisk", "runNormal", "runFailed",
          "snapLook", "snapFile"}

Init ==
  /\ asks \in Asks
  /\ client = [u \in Uploads |-> [at |-> "new", meta |-> None, missing |-> asks.parts, told |-> FALSE]]
  /\ multipart = [k \in Metas \X Hashes |-> NoRecord]
  /\ reg = [u \in Uploads |-> "none"]
  /\ snaps = {}
  /\ parts = [m \in Metas |-> [p \in Parts |-> None]]
  /\ normal = [m \in Metas |-> None]
  /\ snapfile = [m \in Metas |-> None]
  /\ storage = [m \in Metas |-> None]
  /\ metas = [m \in Metas |-> None]
  /\ disk = [u \in Uploads |-> [moved |-> 0, linked |-> 0]]
  /\ queue = << >>
  /\ proc = [x \in Procs |-> Idle]
  /\ used = [faults |-> 0, extras |-> 0, deletes |-> 0, snaps |-> 0, crossed |-> {}, left |-> {}]

-----------------------------------------------------------------------------
(* Steps of a process.                                                      *)

At(x, pc) == proc[x].pc = pc
Goto(x, pc) == proc' = [proc EXCEPT ![x].pc = pc]
Return(x) == proc' = [proc EXCEPT ![x] = Idle]

\* The meta id a request is about: the one its sender was told to use.
Target(x) == IF client[proc[x].u].meta = None THEN Meta(proc[x].u) ELSE client[proc[x].u].meta

\* The answer to the sender of upload u.
Answer(x, at, meta) ==
  client' = [client EXCEPT ![proc[x].u].at = at, ![proc[x].u].meta = meta]

HasDir(m) == \E p \in asks.parts : parts[m][p] # None

RemovedDir(m) == [parts EXCEPT ![m] = [p \in Parts |-> None]]
RegsOf(m) == {u \in Uploads : Meta(u) = m /\ reg[u] # "none"}
RecordsOf(m) == {h \in Hashes : multipart[m, h].open}

-----------------------------------------------------------------------------
(* Prepare: PreparePartialUploadFrom{FlowEditor,NodeInstance,NetDisk,       *)
(* Snapshot}, which differ in the destination only.                         *)

Prepare(x, u) ==
  /\ x \in Handlers /\ At(x, "idle")
  /\ u \in asks.made /\ client[u].at = "new"
  /\ client' = [client EXCEPT ![u].at = "asking"]
  /\ proc' = [proc EXCEPT ![x] = [Idle EXCEPT !.pc = "flash", !.u = u]]
  /\ UNCHANGED <<asks, redis, cache, db, queue, used>>

\* if_possible_do_flash_upload looks for a file with the hash; any row will do.
Flash(x) ==
  LET u == proc[x].u IN
  /\ At(x, "flash")
  /\ \/ /\ ~ToSnapshot(u)
        /\ \E m \in Metas :
             /\ metas[m] = Hash(u)
             /\ proc' = [proc EXCEPT ![x].pc = "flashDisk", ![x].found = m]
     \/ /\ ToSnapshot(u)
        /\ \E s \in snaps :
             /\ s.hash = Hash(u)
             /\ proc' = [proc EXCEPT ![x].pc = "flashSnapshot", ![x].found = s.meta]
     \/ /\ IF ToSnapshot(u)
             THEN \A s \in snaps : s.hash # Hash(u)
             ELSE \A m \in Metas : metas[m] # Hash(u)
        /\ Goto(x, "sameHash")
  /\ UNCHANGED <<asks, client, redis, cache, db, queue, used>>

FlashDisk(x) ==
  /\ At(x, "flashDisk")
  /\ disk' = [disk EXCEPT ![proc[x].u].linked = @ + 1]
  /\ Answer(x, "flash", proc[x].found)
  /\ Return(x)
  /\ UNCHANGED <<asks, redis, cache, storage, metas, queue, used>>

\* Removals of a snapshot with hash h that have yet to look at its file.
Removing(h) == {x \in Procs : proc[x].gone # None /\ proc[x].gone.hash = h}

\* A snapshot record under a new id. (A hash is crossed when a record of it was
\* made while another one was being removed.)
NewSnapshot(m, h) ==
  /\ snaps' = snaps \cup {[id |-> used.snaps, meta |-> m, hash |-> h]}
  /\ used' = [used EXCEPT !.snaps = @ + 1,
                          !.crossed = IF Removing(h) = {} THEN @ ELSE @ \cup {h}]

FlashSnapshot(x) ==
  /\ At(x, "flashSnapshot")
  /\ NewSnapshot(proc[x].found, Hash(proc[x].u))
  /\ Answer(x, "flash", proc[x].found)
  /\ Return(x)
  /\ UNCHANGED <<asks, multipart, reg, cache, db, queue>>

\* MultipartService::create: a record of the same hash is joined ...
SameHash(x) ==
  LET u == proc[x].u IN
  /\ At(x, "sameHash")
  /\ \/ \E m \in Metas :
          /\ multipart[m, Hash(u)].open
          /\ Answer(x, "joined", m)
          /\ Return(x)
     \/ /\ \A m \in Metas : ~multipart[m, Hash(u)].open
        /\ Goto(x, "sameId")
        /\ UNCHANGED client
  /\ UNCHANGED <<asks, redis, cache, db, queue, used>>

\* ... a record of the same id and another hash is a conflict.
SameId(x) ==
  /\ At(x, "sameId")
  /\ IF RecordsOf(Meta(proc[x].u)) # {}
       THEN Answer(x, "conflict", None) /\ Return(x)
       ELSE Goto(x, "insert") /\ UNCHANGED client
  /\ UNCHANGED <<asks, redis, cache, db, queue, used>>

Insert(x) ==
  LET u == proc[x].u IN
  /\ At(x, "insert")
  /\ multipart' = [multipart EXCEPT ![<<Meta(u), Hash(u)>>] = [open |-> TRUE, got |-> {}]]
  /\ Goto(x, "register")
  /\ UNCHANGED <<asks, client, reg, snaps, cache, db, queue, used>>

Register(x) ==
  LET u == proc[x].u IN
  /\ At(x, "register")
  /\ reg' = [reg EXCEPT ![u] = "registered"]
  /\ Answer(x, "open", Meta(u))
  /\ Return(x)
  /\ UNCHANGED <<asks, multipart, snaps, cache, db, queue, used>>

-----------------------------------------------------------------------------
(* PartialUpload: MultipartService::complete_part, then the moves.          *)

\* The sender sends a part the last answer listed as missing. Sending another
\* one (a repetition), or a damaged one, counts as an extra.
Send(x, u, p, piece) ==
  LET extra == IF p \notin client[u].missing \/ piece = Bad THEN 1 ELSE 0 IN
  /\ x \in Handlers /\ At(x, "idle")
  /\ client[u].at \in {"open", "joined"}
  /\ piece \in {Hash(u), Bad}
  /\ \A y \in Handlers : proc[y].u = u => proc[y].part # p \/ extra = 1
  /\ used.extras + extra <= asks.extras
  /\ used' = [used EXCEPT !.extras = @ + extra]
  /\ proc' = [proc EXCEPT ![x] =
                [Idle EXCEPT !.pc = "writePart", !.u = u, !.part = p, !.piece = piece]]
  /\ UNCHANGED <<asks, client, redis, cache, db, queue>>

WritePart(x) ==
  /\ At(x, "writePart")
  /\ parts' = [parts EXCEPT ![Target(x)][proc[x].part] = proc[x].piece]
  /\ Goto(x, "readRecord")
  /\ UNCHANGED <<asks, client, redis, normal, snapfile, db, queue, used>>

ReadRecord(x) ==
  LET m == Target(x) IN
  /\ At(x, "readRecord")
  /\ \/ \E h \in RecordsOf(m) :
          proc' = [proc EXCEPT ![x].pc = "saveRecord", ![x].hash = h,
                               ![x].got = multipart[m, h].got \cup {proc[x].part}]
     \/ RecordsOf(m) = {} /\ Return(x)
  /\ UNCHANGED <<asks, client, redis, cache, db, queue, used>>

\* The whole record is written back, also when it was removed meanwhile.
SavedRecord(x) ==
  [multipart EXCEPT ![<<Target(x), proc[x].hash>>] = [open |-> TRUE, got |-> proc[x].got]]

SaveRecord(x) ==
  /\ At(x, "saveRecord")
  /\ multipart' = SavedRecord(x)
  /\ IF proc[x].got = asks.parts
       THEN Goto(x, "gather") /\ UNCHANGED client
       ELSE /\ client' = [client EXCEPT ![proc[x].u].missing =
                             IF client[proc[x].u].told THEN {} ELSE asks.parts \ proc[x].got]
            /\ Return(x)
  /\ UNCHANGED <<asks, reg, snaps, cache, db, queue, used>>

\* What the parts of m make up: the content of a hash, or another one.
ContentOf(m) == IF \E h \in Hashes : \A p \in asks.parts : parts[m][p] = h
                  THEN CHOOSE h \in Hashes : \A p \in asks.parts : parts[m][p] = h
                  ELSE Bad

\* Mutant: the hash is not compared.
GatherUnchecked(x) ==
  /\ At(x, "gather")
  /\ IF \E p \in asks.parts : parts[Target(x)][p] = None THEN Return(x)
     ELSE proc' = [proc EXCEPT ![x].pc = "writeNormal", ![x].piece = ContentOf(Target(x))]
  /\ UNCHANGED <<asks, client, redis, cache, db, queue, used>>

\* All parts are read, and their hash is compared with the one promised.
Gather(x) ==
  LET m == Target(x) IN
  /\ At(x, "gather")
  /\ IF \E p \in asks.parts : parts[m][p] = None THEN Return(x)
     ELSE IF ContentOf(m) # proc[x].hash THEN Goto(x, "readFailing")
     ELSE proc' = [proc EXCEPT ![x].pc = "writeNormal", ![x].piece = ContentOf(m)]
  /\ UNCHANGED <<asks, client, redis, cache, db, queue, used>>

WriteNormal(x) ==
  /\ At(x, "writeNormal")
  /\ normal' = [normal EXCEPT ![Target(x)] = proc[x].piece]
  /\ Goto(x, "removeDir")
  /\ UNCHANGED <<asks, client, redis, parts, snapfile, db, queue, used>>

RemoveDir(x) ==
  /\ At(x, "removeDir")
  /\ parts' = RemovedDir(Target(x))
  /\ IF HasDir(Target(x)) THEN Goto(x, "readMoves") ELSE Return(x)
  /\ UNCHANGED <<asks, client, redis, normal, snapfile, db, queue, used>>

\* set_all_moves_with_same_meta_id_as_failed; its own failure is ignored. The
\* sender is told of the damage, and may send every part again.
ReadFailing(x) ==
  /\ At(x, "readFailing")
  /\ proc' = [proc EXCEPT ![x].pc = "setFailed", ![x].todo = RegsOf(Target(x))]
  /\ UNCHANGED <<asks, client, redis, cache, db, queue, used>>

SetFailed(x) ==
  /\ At(x, "setFailed")
  /\ IF \E u \in proc[x].todo : reg[u] # "none"
       THEN \E u \in proc[x].todo :
              /\ reg[u] # "none"
              /\ reg' = [reg EXCEPT ![u] = "failed"]
              /\ proc' = [proc EXCEPT ![x].todo = @ \ {u}]
              /\ UNCHANGED client
       ELSE /\ client' = [client EXCEPT ![proc[x].u].missing =
                             IF client[proc[x].u].told THEN {} ELSE asks.parts]
            /\ Return(x)
            /\ UNCHANGED reg
  /\ UNCHANGED <<asks, multipart, snaps, cache, db, queue, used>>

-----------------------------------------------------------------------------
(* FileMoveService::do_registered_moves.                                    *)

ReadMoves(x) ==
  /\ At(x, "readMoves")
  /\ proc' = [proc EXCEPT ![x].pc = "move", ![x].todo = RegsOf(Target(x))]
  /\ UNCHANGED <<asks, client, redis, cache, db, queue, used>>

\* No move is left: the sender of the last part is told that all is uploaded.
MovesDone(x) ==
  /\ At(x, "move") /\ proc[x].todo = {}
  /\ client' = IF proc[x].part = None THEN client
               ELSE [client EXCEPT ![proc[x].u].told = TRUE, ![proc[x].u].missing = {}]
  /\ Return(x)
  /\ UNCHANGED <<asks, redis, cache, db, queue, used>>

\* A move to the storage server needs the user of its registration.
MoveToStorage(x) ==
  /\ At(x, "move")
  /\ \E u \in proc[x].todo :
       /\ ~ToSnapshot(u)
       /\ IF reg[u] = "none" THEN Return(x) /\ UNCHANGED queue
          ELSE /\ queue' = Append(queue, u)
               /\ proc' = [proc EXCEPT ![x].todo = @ \ {u}]
  /\ UNCHANGED <<asks, client, redis, cache, db, used>>

\* SnapshotService::create renames the file, then records it ...
MoveToSnapshot(x) ==
  LET m == Target(x) IN
  /\ At(x, "move")
  /\ \E u \in proc[x].todo :
       /\ ToSnapshot(u)
       /\ IF normal[m] = None THEN Return(x) /\ UNCHANGED cache
          ELSE /\ snapfile' = [snapfile EXCEPT ![m] = normal[m]]
               /\ normal' = [normal EXCEPT ![m] = None]
               /\ proc' = [proc EXCEPT ![x].pc = "addSnapshot", ![x].move = u,
                                       ![x].todo = @ \ {u}]
               /\ UNCHANGED parts
  /\ UNCHANGED <<asks, client, redis, db, queue, used>>

AddSnapshot(x) ==
  /\ At(x, "addSnapshot")
  /\ NewSnapshot(Target(x), Hash(proc[x].move))
  /\ Goto(x, "dropRecord")
  /\ UNCHANGED <<asks, client, multipart, reg, cache, db, queue>>

\* ... and multipart and registrations of the meta id are removed: also by a
\* cancellation and by the runner. Removing a record that is not there fails.
DropRecord(x) ==
  LET m == Target(x) IN
  /\ At(x, "dropRecord")
  /\ \/ \E h \in RecordsOf(m) :
          /\ multipart' = [multipart EXCEPT ![<<m, h>>] = NoRecord]
          /\ Goto(x, "dropDir")
     \/ RecordsOf(m) = {} /\ Return(x) /\ UNCHANGED multipart
  /\ UNCHANGED <<asks, client, reg, snaps, cache, db, queue, used>>

DropDir(x) ==
  /\ At(x, "dropDir")
  /\ parts' = RemovedDir(Target(x))
  /\ Goto(x, "dropRegs")
  /\ UNCHANGED <<asks, client, redis, normal, snapfile, db, queue, used>>

DropRegs(x) ==
  LET m == Target(x) IN
  /\ At(x, "dropRegs")
  /\ reg' = [u \in Uploads |-> IF Meta(u) = m THEN "none" ELSE reg[u]]
  /\ IF proc[x].move # None /\ RegsOf(m) # {} THEN Goto(x, "move") ELSE Return(x)
  /\ UNCHANGED <<asks, client, multipart, snaps, cache, db, queue, used>>

\* CancelPartialUpload and RetryPartialUpload, by the sender of an upload.
Cancel(x, u) ==
  /\ x \in Handlers /\ At(x, "idle")
  /\ client[u].at \in {"open", "joined"}
  /\ used.extras < asks.extras
  /\ used' = [used EXCEPT !.extras = @ + 1, !.left = @ \cup {client[u].meta}]
  /\ proc' = [proc EXCEPT ![x] = [Idle EXCEPT !.pc = "dropRecord", !.u = u]]
  /\ UNCHANGED <<asks, client, redis, cache, db, queue>>

Retry(x, u) ==
  /\ x \in Handlers /\ At(x, "idle")
  /\ client[u].at \in {"open", "joined"}
  /\ used.extras < asks.extras
  /\ used' = [used EXCEPT !.extras = @ + 1]
  /\ proc' = [proc EXCEPT ![x] = [Idle EXCEPT !.pc = "readMoves", !.u = u]]
  /\ UNCHANGED <<asks, client, redis, cache, db, queue>>

-----------------------------------------------------------------------------
(* FileUploadRunner::upload_file, one command of the queue after the other. *)

Take ==
  /\ At(Runner, "idle") /\ queue # << >>
  /\ queue' = Tail(queue)
  /\ IF reg[Head(queue)] = "none" THEN UNCHANGED proc
     ELSE proc' = [proc EXCEPT ![Runner] = [Idle EXCEPT !.pc = "runRead", !.u = Head(queue)]]
  /\ UNCHANGED <<asks, client, redis, cache, db, used>>

Mine == Meta(proc[Runner].u)

RunRead ==
  /\ At(Runner, "runRead")
  /\ IF normal[Mine] = None THEN Return(Runner)
     ELSE proc' = [proc EXCEPT ![Runner].pc = "runUpload", ![Runner].piece = normal[Mine]]
  /\ UNCHANGED <<asks, client, redis, cache, db, queue, used>>

RunUpload ==
  /\ At(Runner, "runUpload")
  /\ storage' = [storage EXCEPT ![Mine] = proc[Runner].piece]
  /\ Goto(Runner, "runMeta")
  /\ UNCHANGED <<asks, client, redis, cache, metas, disk, queue, used>>

\* The upload is refused: the move is marked as failed.
RunRefused ==
  /\ At(Runner, "runUpload")
  /\ used.faults < asks.faults
  /\ used' = [used EXCEPT !.faults = @ + 1]
  /\ Goto(Runner, "runFailed")
  /\ UNCHANGED <<asks, client, redis, cache, db, queue>>

\* Mutant: a move that failed is removed.
RunForgotten ==
  /\ At(Runner, "runFailed")
  /\ reg' = [reg EXCEPT ![proc[Runner].u] = "none"]
  /\ Return(Runner)
  /\ UNCHANGED <<asks, client, multipart, snaps, cache, db, queue, used>>

RunFailed ==
  LET u == proc[Runner].u IN
  /\ At(Runner, "runFailed")
  /\ reg' = [reg EXCEPT ![u] = IF @ = "none" THEN @ ELSE "failed"]
  /\ Return(Runner)
  /\ UNCHANGED <<asks, client, multipart, snaps, cache, db, queue, used>>

\* Mutant: a row that exists is passed over.
RunMetaAnyway ==
  LET u == proc[Runner].u IN
  /\ At(Runner, "runMeta")
  /\ metas' = [metas EXCEPT ![Mine] = IF @ = None THEN Hash(u) ELSE @]
  /\ Goto(Runner, "runDisk")
  /\ UNCHANGED <<asks, client, redis, cache, storage, disk, queue, used>>

\* The meta id is a primary key: a second row is refused.
RunMeta ==
  LET u == proc[Runner].u IN
  /\ At(Runner, "runMeta")
  /\ IF metas[Mine] # None THEN Return(Runner) /\ UNCHANGED metas
     ELSE metas' = [metas EXCEPT ![Mine] = Hash(u)] /\ Goto(Runner, "runDisk")
  /\ UNCHANGED <<asks, client, redis, cache, storage, disk, queue, used>>

RunDisk ==
  /\ At(Runner, "runDisk")
  /\ disk' = [disk EXCEPT ![proc[Runner].u].moved = @ + 1]
  /\ Goto(Runner, "runNormal")
  /\ UNCHANGED <<asks, client, redis, cache, storage, metas, queue, used>>

\* Mutant: the registrations stay when the file is stored.
RunNormalOnly ==
  /\ At(Runner, "runNormal")
  /\ normal' = [normal EXCEPT ![Mine] = None]
  /\ Return(Runner)
  /\ UNCHANGED <<asks, client, redis, parts, snapfile, db, queue, used>>

RunNormal ==
  /\ At(Runner, "runNormal")
  /\ normal' = [normal EXCEPT ![Mine] = None]
  /\ IF normal[Mine] = None THEN Return(Runner) ELSE Goto(Runner, "dropRecord")
  /\ UNCHANGED <<asks, client, redis, parts, snapfile, db, queue, used>>

-----------------------------------------------------------------------------
(* SnapshotService::remove: the record, then the file if its hash has no    *)
(* record left.                                                             *)

\* Processes that may still make a record of a snapshot with hash h.
Making(h) == {x \in Procs : proc[x].u # None /\ Hash(proc[x].u) = h /\ proc[x].pc # "flash"}

Delete(x, s) ==
  /\ x \in Handlers /\ At(x, "idle")
  /\ used.deletes < asks.deletes
  /\ snaps' = snaps \ {s}
  /\ used' = [used EXCEPT !.deletes = @ + 1, !.left = @ \cup {s.meta}]
  /\ proc' = [proc EXCEPT ![x] = [Idle EXCEPT !.pc = "snapLook", !.gone = s]]
  /\ UNCHANGED <<asks, client, multipart, reg, cache, db, queue>>

\* Mutant: other records of the hash are not looked for.
DeleteUnseen(x) ==
  /\ At(x, "snapLook")
  /\ Goto(x, "snapFile")
  /\ UNCHANGED <<asks, client, redis, cache, db, queue, used>>

DeleteLook(x) ==
  /\ At(x, "snapLook")
  /\ IF \E s \in snaps : s.hash = proc[x].gone.hash THEN Return(x) ELSE Goto(x, "snapFile")
  /\ UNCHANGED <<asks, client, redis, cache, db, queue, used>>

DeleteFile(x) ==
  /\ At(x, "snapFile")
  /\ snapfile' = [snapfile EXCEPT ![proc[x].gone.meta] = None]
  /\ used' = [used EXCEPT !.crossed = IF Making(proc[x].gone.hash) = {} THEN @
                                     ELSE @ \cup {proc[x].gone.hash}]
  /\ Return(x)
  /\ UNCHANGED <<asks, client, redis, parts, normal, db, queue>>

-----------------------------------------------------------------------------
(* Faults.                                                                  *)

Fault == used.faults < asks.faults
FaultUsed == used' = [used EXCEPT !.faults = @ + 1]

\* A command of a handler or of the runner fails: it answers with an error.
Fail(x) ==
  /\ ~At(x, "idle") /\ Fault /\ FaultUsed
  /\ IF proc[x].pc \in {"flash", "flashDisk", "flashSnapshot", "sameHash", "sameId", "insert", "register"}
       THEN Answer(x, "error", None) ELSE UNCHANGED client
  /\ Return(x)
  /\ UNCHANGED <<asks, redis, cache, db, queue>>

\* co restarts: Redis, the cache directory and the database stay.
Crash ==
  /\ Fault /\ FaultUsed
  /\ proc' = [x \in Procs |-> Idle]
  /\ queue' = << >>
  /\ client' = [u \in Uploads |->
                  IF client[u].at = "asking" THEN [client[u] EXCEPT !.at = "error"] ELSE client[u]]
  /\ UNCHANGED <<asks, redis, cache, db>>

\* Records have a lease of a day; each expires on its own.
ExpireRecord ==
  /\ Fault /\ FaultUsed
  /\ \E m \in Metas, h \in Hashes :
       multipart[m, h].open /\ multipart' = [multipart EXCEPT ![<<m, h>>] = NoRecord]
  /\ UNCHANGED <<asks, client, reg, snaps, cache, db, queue, proc>>

ExpireMove ==
  /\ Fault
  /\ \E u \in Uploads :
       /\ reg[u] # "none"
       /\ reg' = [reg EXCEPT ![u] = "none"]
       /\ used' = [used EXCEPT !.faults = @ + 1, !.left = @ \cup {Meta(u)}]
  /\ UNCHANGED <<asks, client, multipart, snaps, cache, db, queue, proc>>

-----------------------------------------------------------------------------
Working(x) ==
  \/ Flash(x) \/ FlashDisk(x) \/ FlashSnapshot(x) \/ SameHash(x) \/ SameId(x)
  \/ Insert(x) \/ Register(x)
  \/ WritePart(x) \/ ReadRecord(x) \/ SaveRecord(x) \/ Gather(x) \/ WriteNormal(x)
  \/ RemoveDir(x) \/ ReadFailing(x) \/ SetFailed(x)
  \/ ReadMoves(x) \/ MovesDone(x) \/ MoveToStorage(x) \/ MoveToSnapshot(x) \/ AddSnapshot(x)
  \/ DropRecord(x) \/ DropDir(x) \/ DropRegs(x)
  \/ DeleteLook(x) \/ DeleteFile(x)

Running ==
  \/ Take \/ RunRead \/ RunUpload \/ RunFailed \/ RunMeta \/ RunDisk \/ RunNormal
  \/ DropRecord(Runner) \/ DropDir(Runner) \/ DropRegs(Runner)

Sending(u, p) ==
  p \in client[u].missing /\ \E x \in Handlers : Send(x, u, p, Hash(u))

Next ==
  \/ \E x \in Handlers, u \in Uploads :
       \/ Prepare(x, u) \/ Cancel(x, u) \/ Retry(x, u)
       \/ \E p \in asks.parts, piece \in Hashes \cup {Bad} : Send(x, u, p, piece)
  \/ \E x \in Handlers : Working(x)
  \/ \E x \in Handlers, s \in snaps : Delete(x, s)
  \/ Running \/ RunRefused
  \/ \E x \in Procs : Fail(x)
  \/ Crash \/ ExpireRecord \/ ExpireMove

Spec == Init /\ [][Next]_vars

\* Handlers and the runner go on, and a sender sends what it was told is
\* missing; nothing makes it prepare, cancel, retry or delete.
FairSpec ==
  /\ Spec
  /\ \A x \in Handlers : WF_vars(Working(x))
  /\ WF_vars(Running)
  /\ \A u \in Uploads, p \in Parts : SF_vars(Sending(u, p))

-----------------------------------------------------------------------------
Files == Hashes \cup {None, Bad}

Senders ==
  [at : {"new", "asking", "open", "joined", "flash", "conflict", "error"},
   meta : Metas \cup {None}, missing : SUBSET Parts, told : BOOLEAN]
Records == [open : BOOLEAN, got : SUBSET Parts]
SnapRecords == [id : Nat, meta : Metas, hash : Hashes]
Counters ==
  [faults : Nat, extras : Nat, deletes : Nat, snaps : Nat,
   crossed : SUBSET Hashes, left : SUBSET (Metas \cup {None})]
Locals ==
  [pc : Steps, u : Uploads \cup {None}, part : Parts \cup {None}, piece : Files,
   hash : Hashes \cup {None}, got : SUBSET Parts, found : Metas \cup {None},
   todo : SUBSET Uploads, move : Uploads \cup {None}, gone : SnapRecords \cup {None}]

\* The state has the expected shape.
TypeOK ==
  /\ asks \in AskType
  /\ client \in [Uploads -> Senders]
  /\ multipart \in [Metas \X Hashes -> Records]
  /\ reg \in [Uploads -> {"none", "registered", "failed"}]
  /\ snaps \subseteq SnapRecords
  /\ parts \in [Metas -> [Parts -> Files]]
  /\ {normal, snapfile, storage, metas} \subseteq [Metas -> Files]
  /\ disk \in [Uploads -> [moved : Nat, linked : Nat]]
  /\ queue \in Seq(Uploads)
  /\ proc \in [Procs -> Locals]
  /\ used \in Counters

\* A meta id that uploads give to one content only.
OneContent(m) == \A u, v \in Uploads : Meta(u) = m /\ Meta(v) = m => Hash(u) = Hash(v)

\* A meta id that uploads send to one place only. (The id of an upload to a
\* snapshot is drawn for it, so that no other upload should have it.)
OneDestination(m) ==
  \A u, v \in Uploads : Meta(u) = m /\ Meta(v) = m => ToSnapshot(u) = ToSnapshot(v)

\* file_metadata tells the hash of the object on the storage server, and a
\* snapshot the hash of its file, whatever parts were damaged, repeated or
\* mixed on the way (complete_part compares the hash, the runner reads the
\* whole file only).
ContentTrue ==
  /\ \A m \in Metas : OneContent(m) /\ metas[m] # None => storage[m] = metas[m]
  /\ \A s \in snaps : OneContent(s.meta) => snapfile[s.meta] \in {None, s.hash}

\* Once the sender of a prepared upload was told that all its parts are there,
\* the file is stored, or a retry can still store it: its content waits in the
\* cache and its move is registered. Errors, crashes and repetitions do not
\* change that; only a cancellation, a removal or a lease that ends does.
NothingLost ==
  \A u \in Uploads :
    /\ client[u].told /\ client[u].at = "open"
    /\ Meta(u) \notin used.left /\ OneDestination(Meta(u))
    =>
      IF ToSnapshot(u)
        THEN \E s \in snaps : s.meta = Meta(u)
        ELSE metas[Meta(u)] # None \/ (normal[Meta(u)] # None /\ reg[u] # "none")

\* However often a move is started, the runner enters its file in the net disk
\* at most once, and only after the file is recorded (upload_file).
OneEntryEach ==
  \A u \in Uploads : disk[u].moved <= 1 /\ (disk[u].moved = 1 => metas[Meta(u)] # None)

\* What is said of removals: the file is not removed until no snapshot uses it.
\* It is: between the look for other records and the removal of the file, a
\* flash upload of the same content may record a snapshot that uses it
\* (SnapshotService::remove, create_record).
SnapshotKept == \A s \in snaps : snapfile[s.meta] # None

\* What is left of it: the file of a snapshot stays as long as a record of it,
\* whatever fails or is repeated, if nobody was about to record a snapshot of
\* its hash at the moment a file of that hash was removed, nor the other way
\* round.
SnapshotReadable ==
  \A s \in snaps :
    OneContent(s.meta) => s.hash \in used.crossed \/ snapfile[s.meta] # None

\* Undisturbed, a registered upload is stored and entered in the net disk, and
\* its registration ends.
Calm == used.faults = 0 /\ used.extras = 0 /\ used.left = {}
Settled(u) == IF ToSnapshot(u)
                THEN (\E s \in snaps : s.meta = Meta(u)) /\ reg[u] = "none"
                ELSE metas[Meta(u)] = Hash(u) /\ disk[u].moved = 1 /\ reg[u] = "none"
EventuallyStored ==
  \A u \in Uploads : client[u].at = "open" ~> Settled(u) \/ ~Calm
=============================================================================
