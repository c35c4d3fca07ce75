------------------------------ MODULE NetDisk ------------------------------
(* The net disk of the co service: NetDiskService.create_file, called by the *)
(* upload runner and by the flash uploads of the HTTP handlers, over the     *)
(* table file_system.  Each await on the database is a step, so uploads that *)
(* start together look for, and create, the same directories.  Rows are      *)
(* never updated and never removed.                                          *)
EXTENDS Naturals, FiniteSets

CONSTANTS
  Users, Drafts, Flows, Nodes,
  Owner,     \* [Drafts \cup Flows -> Users]: column user_id of a draft or an instance
  FlowOf,    \* [Nodes -> Flows]: the workflow instance of a node instance
  Uploads,   \* calls of create_file
  Names,     \* file names the clients use
  Stamps,    \* times of day, as fix_file_name writes them
  MaxTries,  \* bound: how often one upload is asked for
  None

Kinds == {"flowDraft", "flowInstance", "nodeInstance"}

ASSUME DiskAssumption ==
  /\ Owner \in [Drafts \cup Flows -> Users]
  /\ FlowOf \in [Nodes -> Flows]
  /\ MaxTries \in Nat
  /\ None \notin Users \cup Drafts \cup Flows \cup Nodes \cup Names \cup Stamps \cup Kinds

VARIABLES
  disk,     \* the table: the row of each id, None for an id without one
  pc,       \* where each upload is
  ask,      \* what each upload asks for
  parent,   \* the directory an upload has found or made so far
  name,     \* the name fix_file_name settled on
  tries,    \* how often an upload has been started
  refused,  \* how often an upload was refused by the primary key
  before    \* the uploads that were over when an upload chose its name

vars == <<disk, pc, ask, parent, name, tries, refused, before>>

---------------------------------------------------------------------------
(* Ids and rows.  Every id but that of a file is derived: a user's root has  *)
(* the user's id, the two collecting directories the next two numbers, and   *)
(* the directory of a draft, an instance or a node the id of what it holds.  *)

RootId(u)   == [is |-> "root", of |-> u]
\* Mutant: both collecting directories of every user keep the id they are built with.
TopIdAsBuilt(k, u) == [is |-> "drafts", of |-> CHOOSE w \in Users : TRUE]

TopId(k, u) == [is |-> IF k = "draft" THEN "drafts" ELSE "instances", of |-> u]
DirId(k, x) == [is |-> IF k = "draft" THEN "draft" ELSE "flow", of |-> x]
NodeId(n)   == [is |-> "node", of |-> n]
FileId(r)   == [is |-> "file", of |-> r]

Ids == [is : {"root", "drafts", "instances"}, of : Users]
       \cup [is : {"draft"}, of : Drafts] \cup [is : {"flow"}, of : Flows]
       \cup [is : {"node"}, of : Nodes] \cup [is : {"file"}, of : Uploads]

\* A name is free text, or a client's name with a time behind it.
FileNames == [text : Names \cup {None}, stamp : Stamps \cup {None}]

Rows == [parent : Ids \cup {None}, name : FileNames, dir : BOOLEAN, owner : Users,
         kind : Kinds \cup {None},
         draft : Drafts \cup {None}, flow : Flows \cup {None}, node : Nodes \cup {None}]

Asks ==
  [kind : {"draft"}, target : Drafts, user : Users, via : {"runner", "handler"},
   name : Names]
  \cup [kind : {"node"}, target : Nodes, user : Users, via : {"runner", "handler"},
        name : Names]
  \cup [kind : {"normal"}, target : Ids \cup {None}, user : Users,
        via : {"runner", "handler"}, name : Names]

Stored == {i \in Ids : disk[i] # None}

Plain == [text |-> None, stamp |-> None]

Dir(p, u, k, d, f, n) ==
  [parent |-> p, name |-> Plain, dir |-> TRUE, owner |-> u,
   kind |-> k, draft |-> d, flow |-> f, node |-> n]

Kind(a) == IF a.kind = "draft" THEN "flowDraft" ELSE "flowInstance"

\* The draft, or the workflow instance of the node, an upload belongs to.
Subject(a) == IF a.kind = "node" THEN FlowOf[a.target] ELSE a.target
DraftOf(a) == IF a.kind = "draft" THEN a.target ELSE None
InstanceOf(a) == IF a.kind = "node" THEN FlowOf[a.target] ELSE None
NodeOf(a) == IF a.kind = "node" THEN a.target ELSE None

\* The directory an upload names: that of the draft, of the node, or the one
\* the user chose.
Home(a) ==
  CASE a.kind = "draft"  -> DirId("draft", a.target)
    [] a.kind = "node"   -> NodeId(a.target)
    [] a.kind = "normal" -> IF a.target = None THEN RootId(a.user) ELSE a.target

\* The user of the request's scope: the handler of node uploads has none.
Session(a) == IF a.kind = "node" /\ a.via = "handler" THEN None ELSE a.user

---------------------------------------------------------------------------
(* The repository.                                                           *)

\* INSERT ... ON CONFLICT (id) DO NOTHING, saved in a transaction of its own.
Insert(i, row) ==
  disk' = IF i \in Stored THEN disk ELSE [disk EXCEPT ![i] = row]

NodeDirs(a) ==
  {i \in Stored : disk[i].kind = "nodeInstance" /\ disk[i].node = a.target}
DraftDirs(a) ==
  {i \in Stored : /\ disk[i].kind = "flowDraft"
                  /\ disk[i].draft = a.target
                  /\ disk[i].owner = a.user}
\* Mutant: any directory of workflow instances will do.
FlowDirsAny(a) == {i \in Stored : disk[i].kind = "flowInstance"}

\* Any row marked with the instance: its directory, or one of its nodes'.
FlowDirs(a) ==
  {i \in Stored : /\ disk[i].kind = "flowInstance"
                  /\ disk[i].flow = FlowOf[a.target]}
Dirs(a) == IF a.kind = "draft" THEN DraftDirs(a) ELSE FlowDirs(a)
Tops(a) ==
  {i \in Stored : /\ disk[i].kind = Kind(a)
                  /\ disk[i].owner = a.user
                  /\ (IF a.kind = "draft" THEN disk[i].draft ELSE disk[i].flow) = None}

\* Mutant: a file without a directory is looked for among rows without a parent.
TakenAsGiven(p, a) ==
  \E i \in Stored : /\ disk[i].parent = p
                    /\ disk[i].owner = a.user
                    /\ disk[i].name = [text |-> a.name, stamp |-> None]

\* A row with this parent, name and owner; no parent stands for the root.
Taken(p, a) ==
  \E i \in Stored : /\ disk[i].parent = IF p = None THEN RootId(a.user) ELSE p
                    /\ disk[i].owner = a.user
                    /\ disk[i].name = [text |-> a.name, stamp |-> None]

---------------------------------------------------------------------------

At(r, l) == pc[r] = l
Goto(r, l) == pc' = [pc EXCEPT ![r] = l]
\* The call is over, and what it had found is gone.
Leave(r, l) ==
  /\ Goto(r, l)
  /\ parent' = [parent EXCEPT ![r] = None]
  /\ name' = [name EXCEPT ![r] = Plain]
Over == {"idle", "done", "failed", "refused"}
Busy(r) == pc[r] \notin Over

\* One row of the answer, whichever the database returns first, or none.
Found(rows, r, yes, no) ==
  \/ /\ rows = {}
     /\ Goto(r, no)
     /\ UNCHANGED parent
  \/ \E i \in rows :
       /\ parent' = [parent EXCEPT ![r] = i]
       /\ Goto(r, yes)

Init ==
  /\ disk = [i \in Ids |-> None]
  /\ pc = [r \in Uploads |-> "idle"]
  /\ ask = [r \in Uploads |-> None]
  /\ parent = [r \in Uploads |-> None]
  /\ name = [r \in Uploads |-> Plain]
  /\ tries = [r \in Uploads |-> 0]
  /\ refused = [r \in Uploads |-> 0]
  /\ before = [r \in Uploads |-> {}]

\* The draft is read with the user of the scope; nodes and directories are not.
Admitted(a) == a.kind = "draft" => Owner[a.target] = a.user

Begin(r, a) ==
  /\ tries[r] < MaxTries
  /\ a.via = "runner" => \A q \in Uploads : Busy(q) => ask[q].via # "runner"
  /\ tries' = [tries EXCEPT ![r] = @ + 1]
  /\ ask' = [ask EXCEPT ![r] = a]
  /\ parent' = [parent EXCEPT ![r] = IF a.kind = "normal" THEN a.target ELSE None]
  /\ Goto(r, IF ~Admitted(a) THEN "failed"
             ELSE IF a.kind = "node" THEN "own"
             ELSE IF a.kind = "draft" THEN "dir" ELSE "name")
  /\ UNCHANGED <<disk, name, refused, before>>

\* What can be asked for: a node's files belong to the user of its instance, and
\* for a file of one's own any row may be named as the place: that it is there is
\* left to the foreign key, that it is a directory, and the user's, to nobody.
\* Only the id of a file is not known before its row is made.
Askable(a) ==
  /\ a.kind = "node" => a.user = Owner[FlowOf[a.target]]
  /\ a.kind = "normal" /\ a.target # None /\ a.target.is = "file" => a.target \in Stored

Start(r, a) ==
  /\ At(r, "idle")
  /\ Askable(a)
  /\ Begin(r, a)

Retry(r) ==
  /\ pc[r] \in {"failed", "refused"}
  /\ Begin(r, ask[r])

\* get_node_instance_dir_id
LookNode(r) ==
  /\ At(r, "own")
  /\ Found(NodeDirs(ask[r]), r, "nodeSave", "dir")
  /\ UNCHANGED <<disk, ask, name, tries, refused, before>>

\* get_flow_draft_dir_id, get_flow_instance_dir_id
LookDir(r) ==
  /\ At(r, "dir")
  /\ Found(Dirs(ask[r]), r, IF ask[r].kind = "draft" THEN "name" ELSE "nodeSave", "top")
  /\ UNCHANGED <<disk, ask, name, tries, refused, before>>

\* get_flow_draft_root_id, get_flow_instance_root_id
LookTop(r) ==
  /\ At(r, "top")
  /\ Found(Tops(ask[r]), r, "dirSave", "root")
  /\ UNCHANGED <<disk, ask, name, tries, refused, before>>

AfterRoot(a) == IF a.kind = "normal" THEN "file" ELSE "topSave"

\* Mutant: any directory that lies in the root shows that the root is there.
LookRootByParent(r) ==
  /\ At(r, "root")
  /\ Found({i \in Stored : disk[i].parent = RootId(ask[r].user) /\ disk[i].dir}, r,
           AfterRoot(ask[r]), "rootSave")
  /\ UNCHANGED <<disk, ask, name, tries, refused, before>>

\* get_root_id
LookRoot(r) ==
  /\ At(r, "root")
  /\ Found({RootId(ask[r].user)} \cap Stored, r, AfterRoot(ask[r]), "rootSave")
  /\ UNCHANGED <<disk, ask, name, tries, refused, before>>

\* create_root: the user is the scope's, and the row's id must be free.
SaveRoot(r) ==
  /\ At(r, "rootSave")
  /\ LET a == ask[r]
         i == RootId(a.user)
     IN  IF Session(a) # None /\ i \notin Stored
         THEN /\ disk' = [disk EXCEPT ![i] = Dir(None, a.user, None, None, None, None)]
              /\ parent' = [parent EXCEPT ![r] = i]
              /\ Goto(r, AfterRoot(a))
              /\ UNCHANGED refused
         ELSE /\ refused' = [refused EXCEPT ![r] = @ + 1]
              /\ Goto(r, "refused")
              /\ UNCHANGED <<disk, parent>>
  /\ UNCHANGED <<ask, name, tries, before>>

\* flow_draft_root, flow_instance_root
SaveTop(r) ==
  /\ At(r, "topSave")
  /\ LET a == ask[r]
         i == TopId(a.kind, a.user)
     IN  /\ Insert(i, Dir(parent[r], a.user, Kind(a), None, None, None))
         /\ parent' = [parent EXCEPT ![r] = i]
  /\ Goto(r, "dirSave")
  /\ UNCHANGED <<ask, name, tries, refused, before>>

\* flow_draft_dir, flow_instance_dir
SaveDir(r) ==
  /\ At(r, "dirSave")
  /\ LET a == ask[r]
         i == DirId(a.kind, Subject(a))
     IN  /\ Insert(i, Dir(parent[r], a.user, Kind(a), DraftOf(a), InstanceOf(a), None))
         /\ parent' = [parent EXCEPT ![r] = i]
         /\ Goto(r, IF a.kind = "draft" THEN "name" ELSE "nodeSave")
  /\ UNCHANGED <<ask, name, tries, refused, before>>

\* node_instance_dir: it is made, or found made, for every file.
SaveNode(r) ==
  /\ At(r, "nodeSave")
  /\ LET a == ask[r]
         i == NodeId(a.target)
     IN  /\ Insert(i, Dir(parent[r], a.user, "flowInstance", None, InstanceOf(a), a.target))
         /\ parent' = [parent EXCEPT ![r] = i]
  /\ Goto(r, "name")
  /\ UNCHANGED <<ask, name, tries, refused, before>>

\* fix_file_name: time has passed since anything was saved.
ChooseName(r) ==
  /\ At(r, "name")
  /\ LET a == ask[r]
     IN  /\ IF Taken(parent[r], a)
            THEN \E t \in Stamps \ {disk[i].name.stamp : i \in Stored} :
                   name' = [name EXCEPT ![r] = [text |-> a.name, stamp |-> t]]
            ELSE name' = [name EXCEPT ![r] = [text |-> a.name, stamp |-> None]]
         /\ Goto(r, IF parent[r] = None THEN "root" ELSE "file")
  /\ before' = [before EXCEPT ![r] = {q \in Uploads : At(q, "done")}]
  /\ UNCHANGED <<disk, ask, parent, tries, refused>>

\* The row of a file: the foreign key on parent_id refuses one without a parent.
SaveFile(r) ==
  /\ At(r, "file")
  /\ LET a == ask[r]
     IN  \/ /\ parent[r] \in Stored
            /\ Insert(FileId(r), [parent |-> parent[r], name |-> name[r], dir |-> FALSE,
                                  owner |-> a.user, kind |-> None, draft |-> DraftOf(a),
                                  flow |-> InstanceOf(a), node |-> NodeOf(a)])
            /\ Leave(r, "done")
         \/ /\ parent[r] \notin Stored
            /\ Leave(r, "failed")
            /\ UNCHANGED disk
  /\ UNCHANGED <<ask, tries, refused, before>>

\* A call to the database fails, or the service stops: what was saved stays.
Fail(r) ==
  /\ Busy(r)
  /\ Leave(r, "failed")
  /\ UNCHANGED <<disk, ask, tries, refused, before>>

Step(r) ==
  \/ LookNode(r) \/ LookDir(r) \/ LookTop(r) \/ LookRoot(r)
  \/ SaveRoot(r) \/ SaveTop(r) \/ SaveDir(r) \/ SaveNode(r)
  \/ ChooseName(r) \/ SaveFile(r)

CONSTANT Requests   \* what the uploads of an instance ask for

ASSUME RequestsAssumption ==
  /\ Requests \subseteq Asks
  /\ None \notin Asks \cup Ids \cup Rows

Next ==
  \E r \in Uploads :
    \/ \E a \in Requests : Start(r, a)
    \/ Retry(r)
    \/ Step(r)
    \/ Fail(r)

Spec == Init /\ [][Next]_vars

---------------------------------------------------------------------------

Labels == Over \cup {"own", "dir", "top", "root", "rootSave", "topSave", "dirSave",
                     "nodeSave", "name", "file"}

\* Every variable has its type.
TypeOK ==
  /\ disk \in [Ids -> Rows \cup {None}]
  /\ pc \in [Uploads -> Labels]
  /\ ask \in [Uploads -> Asks \cup {None}]
  /\ parent \in [Uploads -> Ids \cup {None}]
  /\ name \in [Uploads -> FileNames]
  /\ tries \in [Uploads -> 0 .. MaxTries]
  /\ refused \in [Uploads -> Nat]
  /\ before \in [Uploads -> SUBSET Uploads]

\* The upload leaves the place of its file to the service.
Unplaced(a) == a.kind # "normal" \/ a.target = None

\* Every row but a root lies in a row that is there, and in a directory of the
\* same user where create_file chooses the place, however many uploads make the
\* directories of a new user at once, and wherever they are cut off.  A file whose
\* place the client names may come to lie in a file, or with another user.
Tree ==
  \A i \in Stored :
    IF i.is = "root" THEN disk[i].parent = None
    ELSE /\ disk[i].parent \in Stored
         /\ i.is # "file" \/ Unplaced(ask[i.of]) =>
              /\ disk[disk[i].parent].dir
              /\ disk[disk[i].parent].owner = disk[i].owner

\* Part of InPlace: what belongs to a workflow instance lies below its directory:
\* its parent is of the same instance, or it is the directory of the instance
\* itself, in the collecting directory of the user (get_flow_instance_dir_id
\* takes any row marked with the instance for its directory).
FlowsApart ==
  \A i \in Stored : disk[i].flow # None =>
    \/ /\ i = DirId("flow", disk[i].flow)
       /\ disk[i].parent = TopId("flow", Owner[disk[i].flow])
    \/ /\ disk[i].parent \in Stored
       /\ disk[disk[i].parent].flow = disk[i].flow

\* Part of InPlace: a file whose upload is over is in the directory its upload
\* names.
FilesInTheirDir ==
  \A r \in Uploads : At(r, "done") =>
    /\ FileId(r) \in Stored
    /\ disk[FileId(r)].parent = Home(ask[r])

\* Nothing of a workflow instance is found outside it, although nodes' directories
\* are taken for the instance's, and every file is where its upload says.
InPlace == FlowsApart /\ FilesInTheirDir

\* Two files of one directory, one user and one name were uploaded at the same
\* time: a name that was there when fix_file_name looked is never given again.
NamesApart ==
  \A r, q \in Uploads :
    /\ r # q /\ At(r, "done") /\ At(q, "done")
    /\ disk[FileId(r)].parent = disk[FileId(q)].parent
    /\ disk[FileId(r)].owner = disk[FileId(q)].owner
    /\ disk[FileId(r)].name = disk[FileId(q)].name
    => q \notin before[r] /\ r \notin before[q]

\* The primary key refuses an upload when another made the user's root after it
\* looked; repeated, it is not refused again.
RefusedOnce ==
  \A r \in Uploads : refused[r] > 0 /\ Session(ask[r]) # None => refused[r] = 1

=============================================================================
