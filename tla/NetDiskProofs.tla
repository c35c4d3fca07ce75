--------------------------- MODULE NetDiskProofs ---------------------------
(* Proofs about NetDisk, for any users, drafts, instances, uploads, requests *)
(* and bounds: the table stays a forest of the users, whatever uploads       *)
(* overlap, fail and are repeated.                                           *)
EXTENDS NetDisk, TLAPS

---------------------------------------------------------------------------
(* The inductive invariant.                                                  *)

\* The row of an id is what the id says.
Shape(i, row) ==
  /\ i.is = "root" => row = Dir(None, i.of, None, None, None, None)
  /\ i.is = "drafts" => row = Dir(RootId(i.of), i.of, "flowDraft", None, None, None)
  /\ i.is = "instances" => row = Dir(RootId(i.of), i.of, "flowInstance", None, None, None)
  /\ i.is = "draft" =>
       row = Dir(TopId("draft", Owner[i.of]), Owner[i.of], "flowDraft", i.of, None, None)
  /\ i.is = "flow" =>
       row = Dir(TopId("flow", Owner[i.of]), Owner[i.of], "flowInstance", None, i.of, None)
  /\ i.is = "node" =>
       row = Dir(row.parent, Owner[FlowOf[i.of]], "flowInstance", None, FlowOf[i.of], i.of)
  /\ i.is = "file" => ~row.dir /\ row.kind = None

\* Its parent is stored, and for a directory a directory of the same user; rows of
\* an instance, its directory excepted, lie in directories of the instance.
Placed(i, row) ==
  i.is # "root" =>
    /\ row.parent \in Stored
    /\ i.is # "file" => disk[row.parent].dir /\ disk[row.parent].owner = row.owner
    /\ i.is \in {"node", "file"} /\ row.flow # None => disk[row.parent].flow = row.flow

RowsFit == \A i \in Stored : Shape(i, disk[i]) /\ Placed(i, disk[i])

\* An upload serves a request that was admitted, and what it has found or made
\* is there and is what the next step takes it for.
Known(r) ==
  /\ ~At(r, "done") => FileId(r) \notin Stored
  /\ ~At(r, "idle") => ask[r] \in Asks /\ Askable(ask[r])
  /\ Busy(r) \/ At(r, "done") => Admitted(ask[r])
  /\ At(r, "own") => ask[r].kind = "node"
  /\ pc[r] \in {"dir", "top", "topSave", "dirSave"} => ask[r].kind # "normal"
  /\ pc[r] \in {"root", "rootSave"} /\ ask[r].kind = "normal" => ask[r].target = None
  /\ At(r, "topSave") => parent[r] = RootId(ask[r].user) /\ parent[r] \in Stored
  /\ At(r, "dirSave") => parent[r] = TopId(ask[r].kind, ask[r].user) /\ parent[r] \in Stored
  /\ At(r, "nodeSave") =>
       /\ ask[r].kind = "node"
       /\ parent[r] \in Stored
       /\ disk[parent[r]].kind = "flowInstance"
       /\ disk[parent[r]].flow = FlowOf[ask[r].target]
  /\ At(r, "name") =>
       IF ask[r].kind = "normal" THEN parent[r] = ask[r].target
       ELSE parent[r] = Home(ask[r]) /\ parent[r] \in Stored
  /\ At(r, "file") =>
       parent[r] = Home(ask[r]) /\ (Unplaced(ask[r]) => parent[r] \in Stored)
  /\ At(r, "done") =>
       /\ FileId(r) \in Stored
       /\ disk[FileId(r)].parent = Home(ask[r])
       /\ disk[FileId(r)].owner = ask[r].user

\* The file of upload q has this place, this owner and this name.
Equal(q, p, u, n) ==
  disk[FileId(q)].parent = p /\ disk[FileId(q)].owner = u /\ disk[FileId(q)].name = n

Named(r) ==
  \/ At(r, "file")
  \/ At(r, "root") /\ ask[r].kind = "normal"
  \/ At(r, "rootSave") /\ ask[r].kind = "normal"

\* The name an upload has chosen is not that of a file it saw.
Apart(r) ==
  /\ \A q \in before[r] : At(q, "done")
  /\ Named(r) => \A q \in before[r] : ~Equal(q, Home(ask[r]), ask[r].user, name[r])
  /\ At(r, "done") =>
       \A q \in before[r] \ {r} :
         ~Equal(q, disk[FileId(r)].parent, disk[FileId(r)].owner, disk[FileId(r)].name)

\* An upload that was refused finds the root the next time.
RefusalKnown(r) ==
  /\ At(r, "idle") => refused[r] = 0
  /\ refused[r] > 0 /\ Session(ask[r]) # None =>
       /\ refused[r] = 1
       /\ RootId(ask[r].user) \in Stored
       /\ ~At(r, "rootSave")

DiskInv ==
  /\ TypeOK
  /\ RowsFit
  /\ \A r \in Uploads : Known(r) /\ Apart(r) /\ RefusalKnown(r)

---------------------------------------------------------------------------
(* Requests, ids and rows.                                                   *)

\* What a request consists of.
LEMMA AskType ==
  ASSUME NEW a \in Asks
  PROVE  /\ a.kind \in {"draft", "node", "normal"}
         /\ a.user \in Users /\ a.name \in Names
         /\ a.kind = "draft" => a.target \in Drafts
         /\ a.kind = "node" => a.target \in Nodes /\ FlowOf[a.target] \in Flows
         /\ a.kind = "normal" => a.target \in Ids \cup {None}
BY DiskAssumption DEF Asks

\* The ids a request speaks of are ids.
LEMMA IdsOfAsk ==
  ASSUME NEW a \in Asks
  PROVE  /\ RootId(a.user) \in Ids
         /\ TopId(a.kind, a.user) \in Ids
         /\ a.kind # "normal" => DirId(a.kind, Subject(a)) \in Ids
         /\ a.kind = "node" => NodeId(a.target) \in Ids
         /\ Home(a) \in Ids
<1>1. RootId(a.user) \in Ids /\ TopId(a.kind, a.user) \in Ids
  BY AskType DEF RootId, TopId, Ids
<1>2. a.kind # "normal" => DirId(a.kind, Subject(a)) \in Ids
  BY AskType DEF DirId, Subject, Ids
<1>3. a.kind = "node" => NodeId(a.target) \in Ids
  BY AskType DEF NodeId, Ids
<1>4. Home(a) \in Ids
  <2>1. CASE a.kind = "draft"
    BY <2>1, AskType DEF Home, DirId, Ids
  <2>2. CASE a.kind = "node"
    BY <2>2, <1>3 DEF Home
  <2>3. CASE a.kind = "normal"
    BY <2>3, <1>1, AskType DEF Home
  <2> QED
    BY <2>1, <2>2, <2>3, AskType
<1> QED
  BY <1>1, <1>2, <1>3, <1>4

\* The row of a directory is a row.
LEMMA DirType ==
  ASSUME NEW p \in Ids \cup {None}, NEW u \in Users,
         NEW k \in {"flowDraft", "flowInstance", None},
         NEW d \in Drafts \cup {None}, NEW f \in Flows \cup {None}, NEW n \in Nodes \cup {None}
  PROVE  Dir(p, u, k, d, f, n) \in Rows
<1>1. Plain \in FileNames
  BY DEF Plain, FileNames
<1> QED
  BY <1>1 DEF Dir, Rows, Kinds

\* No row that was there changes or goes.
Kept == \A j \in Stored : j \in Stored' /\ disk'[j] = disk[j]

\* A row that fits its id, in a directory that is there, keeps the table sound.
LEMMA Adding ==
  ASSUME disk \in [Ids -> Rows \cup {None}], RowsFit,
         NEW i \in Ids, NEW row \in Rows, Shape(i, row), Placed(i, row),
         Insert(i, row)
  PROVE  /\ disk' \in [Ids -> Rows \cup {None}]
         /\ RowsFit'
         /\ Kept
         /\ i \in Stored'
         /\ Stored' \subseteq Stored \cup {i}
         /\ i \notin Stored => disk'[i] = row
<1>1. None \notin Rows
  BY RequestsAssumption
<1>2. CASE i \in Stored
  <2>1. disk' = disk
    BY <1>2 DEF Insert
  <2> QED
    BY <2>1, <1>2 DEF Kept, RowsFit, Stored, Placed
<1>3. CASE i \notin Stored
  <2>1. disk' = [disk EXCEPT ![i] = row]
    BY <1>3 DEF Insert
  <2>2. disk'[i] = row /\ \A j \in Ids : j # i => disk'[j] = disk[j]
    BY <2>1
  <2>3. Stored' = Stored \cup {i}
    BY <2>2, <1>1 DEF Stored
  <2>4. Kept
    BY <2>2, <2>3, <1>3 DEF Kept, Stored
  <2>5. ASSUME NEW j \in Stored'
        PROVE  Shape(j, disk[j])' /\ Placed(j, disk[j])'
    <3>1. Shape(j, disk'[j]) /\ Placed(j, disk'[j])
      <4>1. CASE j = i
        BY <4>1, <2>2
      <4>2. CASE j # i
        BY <4>2, <2>2, <2>3 DEF RowsFit, Stored
      <4> QED
        BY <4>1, <4>2
    <3>2. \A p \in Stored : p \in Stored' /\ disk'[p] = disk[p]
      BY <2>4 DEF Kept
    <3> QED
      BY <3>1, <3>2 DEF Placed
  <2>6. RowsFit'
    BY <2>5 DEF RowsFit
  <2> QED
    BY <2>1, <2>2, <2>3, <2>4, <2>6
<1> QED
  BY <1>2, <1>3

---------------------------------------------------------------------------
(* What a step of one upload leaves to the others.                           *)

\* The variables of other uploads stay as they are.
Quiet(r) ==
  \A q \in Uploads \ {r} :
    /\ pc'[q] = pc[q] /\ ask'[q] = ask[q] /\ parent'[q] = parent[q]
    /\ name'[q] = name[q] /\ refused'[q] = refused[q] /\ before'[q] = before[q]

\* What was known of a stored file is still true.
LEMMA EqualKept ==
  ASSUME Kept, NEW q \in Uploads, FileId(q) \in Stored, NEW p, NEW u, NEW n, ~Equal(q, p, u, n)
  PROVE  ~Equal(q, p, u, n)'
<1>1. disk'[FileId(q)] = disk[FileId(q)]
  BY DEF Kept
<1> QED
  BY <1>1 DEF Equal

\* What another upload knows stays true.
LEMMA KnownKept ==
  ASSUME DiskInv, NEW r \in Uploads, Kept, Quiet(r),
         \A q \in Uploads \ {r} : FileId(q) \in Stored' => FileId(q) \in Stored,
         NEW q \in Uploads \ {r}
  PROVE  Known(q)'
<1>1. Known(q)
  BY DEF DiskInv
<1>2. pc'[q] = pc[q] /\ ask'[q] = ask[q] /\ parent'[q] = parent[q]
  BY DEF Quiet
<1>3. \A j \in Stored : j \in Stored' /\ disk'[j] = disk[j]
  BY DEF Kept
<1>4. ~At(q, "done")' => FileId(q) \notin Stored'
  BY <1>1, <1>2 DEF Known, At
<1>5. ~At(q, "idle")' => (ask[q])' \in Asks /\ Askable(ask[q])'
  BY <1>1, <1>2, <1>3 DEF Known, At, Askable
<1>6. /\ Busy(q)' \/ At(q, "done")' => Admitted(ask[q])'
      /\ At(q, "own")' => (ask[q].kind)' = "node"
      /\ (pc[q])' \in {"dir", "top", "topSave", "dirSave"} => (ask[q].kind)' # "normal"
      /\ (pc[q])' \in {"root", "rootSave"} /\ (ask[q].kind)' = "normal" => (ask[q].target)' = None
  BY <1>1, <1>2 DEF Known, At, Busy, Admitted
<1>7. /\ At(q, "topSave")' => (parent[q] = RootId(ask[q].user) /\ parent[q] \in Stored)'
      /\ At(q, "dirSave")' => (parent[q] = TopId(ask[q].kind, ask[q].user) /\ parent[q] \in Stored)'
  BY <1>1, <1>2, <1>3 DEF Known, At
<1>8. At(q, "nodeSave")' =>
        /\ (ask[q].kind)' = "node"
        /\ (parent[q])' \in Stored'
        /\ (disk[parent[q]].kind)' = "flowInstance"
        /\ (disk[parent[q]].flow)' = (FlowOf[ask[q].target])'
  BY <1>1, <1>2, <1>3 DEF Known, At
<1>9. At(q, "name")' =>
        IF (ask[q].kind)' = "normal" THEN (parent[q])' = (ask[q].target)'
        ELSE (parent[q])' = Home(ask[q])' /\ (parent[q])' \in Stored'
  BY <1>1, <1>2, <1>3 DEF Known, At
<1>10. At(q, "file")' =>
         (parent[q])' = Home(ask[q])' /\ (Unplaced(ask[q])' => (parent[q])' \in Stored')
  BY <1>1, <1>2, <1>3 DEF Known, At
<1>11. At(q, "done")' =>
         /\ FileId(q) \in Stored'
         /\ (disk[FileId(q)].parent)' = Home(ask[q])'
         /\ (disk[FileId(q)].owner)' = (ask[q].user)'
  BY <1>1, <1>2, <1>3 DEF Known, At
<1> QED
  BY <1>4, <1>5, <1>6, <1>7, <1>8, <1>9, <1>10, <1>11 DEF Known

\* Uploads that are over stay over, and so do the names they were given.
LEMMA ApartKept ==
  ASSUME DiskInv, NEW r \in Uploads, Kept, Quiet(r), ~At(r, "done"),
         NEW q \in Uploads \ {r}
  PROVE  Apart(q)'
<1>1. Apart(q) /\ Known(q) /\ before[q] \subseteq Uploads
  BY DEF DiskInv, TypeOK
<1>2. pc'[q] = pc[q] /\ ask'[q] = ask[q] /\ name'[q] = name[q] /\ before'[q] = before[q]
  BY DEF Quiet
<1>3. \A p \in before[q] : At(p, "done") /\ p # r
  BY <1>1 DEF Apart
<1>4. \A p \in before'[q] : At(p, "done")'
  BY <1>1, <1>2, <1>3 DEF Quiet, At
<1>5. \A p \in before[q] : FileId(p) \in Stored
  BY <1>1, <1>3 DEF DiskInv, Known
<1>6. Named(q)' =>
        \A p \in before'[q] : ~Equal(p, Home(ask[q]), ask[q].user, name[q])'
  <2>1. SUFFICES ASSUME Named(q)', NEW p \in before[q]
                 PROVE  ~Equal(p, Home(ask[q]), ask[q].user, name[q])'
    BY <1>2
  <2>2. Named(q)
    BY <2>1, <1>2 DEF Named, At
  <2>3. ~Equal(p, Home(ask[q]), ask[q].user, name[q])
    BY <2>1, <2>2, <1>1 DEF Apart
  <2>4. disk'[FileId(p)] = disk[FileId(p)]
    BY <2>1, <1>5 DEF Kept
  <2> QED
    BY <2>3, <2>4, <1>2 DEF Equal
<1>7. At(q, "done")' =>
        \A p \in before'[q] \ {q} :
          ~Equal(p, disk[FileId(q)].parent, disk[FileId(q)].owner, disk[FileId(q)].name)'
  <2>1. SUFFICES ASSUME At(q, "done")', NEW p \in before[q] \ {q}
                 PROVE  ~Equal(p, disk[FileId(q)].parent, disk[FileId(q)].owner,
                               disk[FileId(q)].name)'
    BY <1>2
  <2>2. At(q, "done")
    BY <2>1, <1>2 DEF At
  <2>3. ~Equal(p, disk[FileId(q)].parent, disk[FileId(q)].owner, disk[FileId(q)].name)
    BY <2>1, <2>2, <1>1 DEF Apart
  <2>4. FileId(q) \in Stored
    BY <2>2, <1>1 DEF Known
  <2>5. disk'[FileId(p)] = disk[FileId(p)] /\ disk'[FileId(q)] = disk[FileId(q)]
    BY <2>1, <2>4, <1>5 DEF Kept
  <2> QED
    BY <2>3, <2>5 DEF Equal
<1> QED
  BY <1>4, <1>6, <1>7 DEF Apart

LEMMA RefusalKept ==
  ASSUME DiskInv, NEW r \in Uploads, Kept, Quiet(r), NEW q \in Uploads \ {r}
  PROVE  RefusalKnown(q)'
<1>1. RefusalKnown(q)
  BY DEF DiskInv
<1>2. pc'[q] = pc[q] /\ ask'[q] = ask[q] /\ refused'[q] = refused[q]
  BY DEF Quiet
<1>3. RootId(ask[q].user) \in Stored => RootId(ask[q].user) \in Stored'
  BY DEF Kept
<1> QED
  BY <1>1, <1>2, <1>3 DEF RefusalKnown, At

\* So a step of an upload has only its own part of the invariant to keep.
LEMMA Stepping ==
  ASSUME DiskInv, NEW r \in Uploads, ~At(r, "done"), Kept, Quiet(r),
         \A q \in Uploads \ {r} : FileId(q) \in Stored' => FileId(q) \in Stored,
         TypeOK', RowsFit', Known(r)', Apart(r)', RefusalKnown(r)'
  PROVE  DiskInv'
<1>1. ASSUME NEW q \in Uploads
      PROVE  Known(q)' /\ Apart(q)' /\ RefusalKnown(q)'
  <2>1. CASE q = r
    BY <2>1
  <2>2. CASE q # r
    <3>1. q \in Uploads \ {r}
      BY <2>2
    <3> QED
      BY <3>1, KnownKept, ApartKept, RefusalKept
  <2> QED
    BY <2>1, <2>2
<1> QED
  BY <1>1 DEF DiskInv

---------------------------------------------------------------------------
(* What is read from the table.                                              *)

\* An id is what it is of what it is of.
LEMMA IdParts ==
  ASSUME NEW i \in Ids
  PROVE  /\ i = [is |-> i.is, of |-> i.of]
         /\ i.is \in {"root", "drafts", "instances", "draft", "flow", "node", "file"}
         /\ i.is \in {"root", "drafts", "instances"} => i.of \in Users
         /\ i.is = "draft" => i.of \in Drafts
         /\ i.is = "flow" => i.of \in Flows
         /\ i.is = "node" => i.of \in Nodes
         /\ i.is = "file" => i.of \in Uploads
BY DEF Ids

\* The mark of a row tells whether it is a directory of drafts or of instances.
LEMMA Marks ==
  ASSUME RowsFit, NEW i \in Stored
  PROVE  /\ disk[i].kind = "flowDraft" => i.is \in {"drafts", "draft"}
         /\ disk[i].kind = "flowInstance" => i.is \in {"instances", "flow", "node"}
         /\ disk[i].kind # "nodeInstance"
<1>1. i \in Ids /\ Shape(i, disk[i])
  BY DEF RowsFit, Stored
<1>2. None \notin Kinds
  BY DiskAssumption
<1>3. i.is \in {"root", "drafts", "instances", "draft", "flow", "node", "file"}
  BY <1>1, IdParts
<1> QED
  BY <1>1, <1>2, <1>3 DEF Shape, Dir, Kinds

\* A user's root is hers.
LEMMA RootRow ==
  ASSUME RowsFit, NEW u \in Users, RootId(u) \in Stored
  PROVE  disk[RootId(u)].dir /\ disk[RootId(u)].owner = u
<1>1. RootId(u).is = "root" /\ RootId(u).of = u
  BY DEF RootId
<1>2. Shape(RootId(u), disk[RootId(u)])
  BY DEF RowsFit
<1> QED
  BY <1>1, <1>2 DEF Shape, Dir

\* So are her collecting directories.
LEMMA TopRow ==
  ASSUME RowsFit, NEW u \in Users, NEW k, TopId(k, u) \in Stored
  PROVE  disk[TopId(k, u)].dir /\ disk[TopId(k, u)].owner = u
<1>1. TopId(k, u).is \in {"drafts", "instances"} /\ TopId(k, u).of = u
  BY DEF TopId
<1>2. Shape(TopId(k, u), disk[TopId(k, u)])
  BY DEF RowsFit
<1> QED
  BY <1>1, <1>2 DEF Shape, Dir

\* And so is the directory of a request that leaves the place to the service.
LEMMA HomeRow ==
  ASSUME RowsFit, NEW a \in Asks, Askable(a), Admitted(a), Unplaced(a), Home(a) \in Stored
  PROVE  /\ disk[Home(a)].dir /\ disk[Home(a)].owner = a.user
         /\ a.kind = "node" => disk[Home(a)].flow = FlowOf[a.target]
<1>1. CASE a.kind = "draft"
  <2>1. Home(a) = [is |-> "draft", of |-> a.target] /\ Owner[a.target] = a.user
    BY <1>1 DEF Home, DirId, Admitted
  <2>2. Shape(Home(a), disk[Home(a)])
    BY DEF RowsFit
  <2> QED
    BY <1>1, <2>1, <2>2 DEF Shape, Dir
<1>2. CASE a.kind = "node"
  <2>1. Home(a) = [is |-> "node", of |-> a.target] /\ a.user = Owner[FlowOf[a.target]]
    BY <1>2 DEF Home, NodeId, Askable
  <2>2. Shape(Home(a), disk[Home(a)])
    BY DEF RowsFit
  <2> QED
    BY <2>1, <2>2 DEF Shape, Dir
<1>3. CASE a.kind = "normal" /\ a.target = None
  <2>1. Home(a) = RootId(a.user) /\ a.user \in Users
    BY <1>3, AskType DEF Home
  <2> QED
    BY <1>3, <2>1, RootRow
<1> QED
  BY <1>1, <1>2, <1>3, AskType DEF Unplaced

---------------------------------------------------------------------------
(* What a step keeps of its own upload.                                      *)

\* A step that does not write keeps the table.
LEMMA Unmoved ==
  ASSUME RowsFit, UNCHANGED disk
  PROVE  RowsFit' /\ Kept /\ Stored' = Stored
<1>1. Stored' = Stored
  BY DEF Stored
<1> QED
  BY <1>1 DEF RowsFit, Placed, Kept

\* An upload that has yet to choose a name stays apart.
LEMMA ApartElsewhere ==
  ASSUME DiskInv, NEW r \in Uploads, ~At(r, "done"), Quiet(r), before'[r] = before[r],
         ~Named(r)', ~At(r, "done")'
  PROVE  Apart(r)'
<1>1. before[r] \subseteq Uploads /\ \A q \in before[r] : At(q, "done")
  BY DEF DiskInv, TypeOK, Apart
<1>2. \A q \in before'[r] : At(q, "done")'
  BY <1>1 DEF Quiet, At
<1> QED
  BY <1>2 DEF Apart

\* An upload that keeps its name stays apart.
LEMMA ApartSame ==
  ASSUME DiskInv, NEW r \in Uploads, Kept, Quiet(r), before'[r] = before[r],
         name'[r] = name[r], ask'[r] = ask[r], ~At(r, "done"), Named(r), ~At(r, "done")'
  PROVE  Apart(r)'
<1>1. Apart(r) /\ before[r] \subseteq Uploads
  BY DEF DiskInv, TypeOK
<1>2. \A q \in before[r] : At(q, "done") /\ q # r
  BY <1>1 DEF Apart
<1>3. \A q \in before'[r] : At(q, "done")'
  BY <1>1, <1>2 DEF Quiet, At
<1>4. \A q \in before[r] : FileId(q) \in Stored
  BY <1>1, <1>2 DEF DiskInv, Known
<1>5. ASSUME NEW q \in before[r]
      PROVE  ~Equal(q, Home(ask[r]), ask[r].user, name[r])'
  <2>1. ~Equal(q, Home(ask[r]), ask[r].user, name[r])
    BY <1>1 DEF Apart
  <2>2. disk'[FileId(q)] = disk[FileId(q)]
    BY <1>4 DEF Kept
  <2> QED
    BY <2>1, <2>2 DEF Equal
<1> QED
  BY <1>3, <1>5 DEF Apart

\* An upload that is not refused and does not come to create the root keeps what
\* is known of its refusals.
LEMMA RefusalSame ==
  ASSUME DiskInv, NEW r \in Uploads, Kept, ask'[r] = ask[r], refused'[r] = refused[r],
         ~At(r, "idle")', ~At(r, "rootSave")'
  PROVE  RefusalKnown(r)'
<1>1. RefusalKnown(r)
  BY DEF DiskInv
<1>2. RootId(ask[r].user) \in Stored => RootId(ask[r].user) \in Stored'
  BY DEF Kept
<1> QED
  BY <1>1, <1>2 DEF RefusalKnown

---------------------------------------------------------------------------
(* The steps.                                                                *)

LEMMA BeginStep ==
  ASSUME DiskInv, NEW r \in Uploads, NEW a \in Asks, Askable(a),
         pc[r] \in {"idle", "failed", "refused"}, At(r, "idle") \/ a = ask[r],
         Begin(r, a)
  PROVE  DiskInv'
<1>1. RowsFit' /\ Kept /\ Stored' = Stored
  BY Unmoved DEF DiskInv, Begin
<1>2. /\ pc'[r] \in {"failed", "own", "dir", "name"}
      /\ pc'[r] # "failed" => Admitted(a)
      /\ pc'[r] = "own" => a.kind = "node"
      /\ pc'[r] = "dir" => a.kind = "draft"
      /\ pc'[r] = "name" => a.kind = "normal" /\ parent'[r] = a.target
      /\ ask'[r] = a
  BY AskType DEF DiskInv, TypeOK, Begin, Goto
<1>3. Quiet(r)
  BY DEF DiskInv, TypeOK, Begin, Goto, Quiet
<1>4. ~At(r, "done")
  BY DEF At
<1>5. TypeOK'
  <2>1. pc' \in [Uploads -> Labels]
    BY DEF DiskInv, TypeOK, Begin, Goto, Labels, Over
  <2>2. ask' \in [Uploads -> Asks \cup {None}]
    BY DEF DiskInv, TypeOK, Begin
  <2>3. parent' \in [Uploads -> Ids \cup {None}]
    BY AskType DEF DiskInv, TypeOK, Begin
  <2>4. tries' \in [Uploads -> 0 .. MaxTries]
    BY DiskAssumption DEF DiskInv, TypeOK, Begin
  <2> QED
    BY <2>1, <2>2, <2>3, <2>4 DEF DiskInv, TypeOK, Begin
<1>6. Known(r)'
  <2>1. FileId(r) \notin Stored'
    BY <1>1, <1>4 DEF DiskInv, Known
  <2>2. Askable(ask[r])'
    BY <1>1, <1>2 DEF Askable, Kept
  <2> QED
    BY <1>2, <2>1, <2>2 DEF Known, At, Busy, Over, Admitted
<1>7. Apart(r)'
  BY <1>2, <1>3, <1>4, ApartElsewhere DEF Begin, Named, At
<1>8. RefusalKnown(r)'
  <2>1. RefusalKnown(r) /\ refused'[r] = refused[r]
    BY DEF DiskInv, Begin
  <2>2. CASE At(r, "idle")
    BY <1>2, <2>1, <2>2 DEF RefusalKnown, At, DiskInv, TypeOK
  <2>3. CASE ~At(r, "idle")
    BY <1>1, <1>2, <2>1, <2>3, RefusalSame DEF At
  <2> QED
    BY <2>2, <2>3
<1> QED
  BY <1>1, <1>3, <1>4, <1>5, <1>6, <1>7, <1>8, Stepping

LEMMA StartStep ==
  ASSUME DiskInv, NEW r \in Uploads, NEW a \in Requests, Start(r, a)
  PROVE  DiskInv'
<1>1. a \in Asks
  BY RequestsAssumption
<1> QED
  BY <1>1, BeginStep DEF Start, At

LEMMA RetryStep ==
  ASSUME DiskInv, NEW r \in Uploads, Retry(r)
  PROVE  DiskInv'
<1>1. ask[r] \in Asks /\ Askable(ask[r])
  BY DEF DiskInv, Known, Retry, At
<1> QED
  BY <1>1, BeginStep DEF Retry, At

\* A step that looks for a row takes one or none, and writes nothing.
LEMMA FoundStep ==
  ASSUME DiskInv, NEW r \in Uploads, NEW rows, rows \subseteq Stored,
         NEW yes \in Labels, NEW no \in Labels, Found(rows, r, yes, no),
         UNCHANGED <<disk, ask, name, tries, refused, before>>
  PROVE  /\ RowsFit' /\ Kept /\ Stored' = Stored /\ TypeOK' /\ Quiet(r)
         /\ ask'[r] = ask[r] /\ name'[r] = name[r]
         /\ refused'[r] = refused[r] /\ before'[r] = before[r]
         /\ \/ pc'[r] = yes /\ parent'[r] \in rows
            \/ pc'[r] = no /\ parent'[r] = parent[r] /\ rows = {}
<1>1. RowsFit' /\ Kept /\ Stored' = Stored
  BY Unmoved DEF DiskInv
<1>2. pc' \in [Uploads -> Labels]
  BY DEF DiskInv, TypeOK, Found, Goto
<1>3. parent' \in [Uploads -> Ids \cup {None}]
  BY DEF DiskInv, TypeOK, Found, Stored
<1>4. TypeOK'
  BY <1>2, <1>3 DEF DiskInv, TypeOK
<1>5. Quiet(r)
  BY DEF DiskInv, TypeOK, Found, Goto, Quiet
<1>6. \/ pc'[r] = yes /\ parent'[r] \in rows
      \/ pc'[r] = no /\ parent'[r] = parent[r] /\ rows = {}
  BY DEF DiskInv, TypeOK, Found, Goto
<1> QED
  BY <1>1, <1>4, <1>5, <1>6

LEMMA LookNodeStep ==
  ASSUME DiskInv, NEW r \in Uploads, LookNode(r)
  PROVE  DiskInv'
<1>1. NodeDirs(ask[r]) = {}
  BY Marks DEF DiskInv, NodeDirs
<1>2. /\ RowsFit' /\ Kept /\ Stored' = Stored /\ TypeOK' /\ Quiet(r)
      /\ ask'[r] = ask[r] /\ refused'[r] = refused[r] /\ before'[r] = before[r]
      /\ pc'[r] = "dir"
  <2>1. /\ Found(NodeDirs(ask[r]), r, "nodeSave", "dir")
        /\ UNCHANGED <<disk, ask, name, tries, refused, before>>
    BY DEF LookNode
  <2>2. "nodeSave" \in Labels /\ "dir" \in Labels
    BY DEF Labels
  <2>3. NodeDirs(ask[r]) \subseteq Stored
    BY <1>1
  <2> QED
    BY <1>1, <2>1, <2>2, <2>3, FoundStep
<1>3. ~At(r, "done") /\ Busy(r) /\ ask[r].kind = "node" /\ ask[r] \in Asks /\ Askable(ask[r])
      /\ FileId(r) \notin Stored
  BY DEF DiskInv, Known, LookNode, At, Busy, Over
<1>4. Known(r)'
  <2>1. Askable(ask[r])'
    BY <1>2, <1>3 DEF Askable, Kept
  <2> QED
    BY <1>2, <1>3, <2>1 DEF Known, At, Busy, Over, Admitted
<1>5. Apart(r)' /\ RefusalKnown(r)'
  BY <1>2, <1>3, ApartElsewhere, RefusalSame DEF Named, At
<1> QED
  BY <1>2, <1>3, <1>4, <1>5, Stepping

LEMMA LookDirStep ==
  ASSUME DiskInv, NEW r \in Uploads, LookDir(r)
  PROVE  DiskInv'
<1> DEFINE a == ask[r]
<1>1. ~At(r, "done") /\ a \in Asks /\ Askable(a) /\ Admitted(a)
      /\ a.kind \in {"draft", "node"} /\ FileId(r) \notin Stored
  <2>1. Known(r) /\ pc[r] = "dir"
    BY DEF DiskInv, LookDir, At
  <2> QED
    BY <2>1, AskType DEF Known, At, Busy, Over
<1>2. Dirs(a) \subseteq Stored
  BY DEF Dirs, DraftDirs, FlowDirs
<1>3. /\ RowsFit' /\ Kept /\ Stored' = Stored /\ TypeOK' /\ Quiet(r)
      /\ ask'[r] = a /\ refused'[r] = refused[r] /\ before'[r] = before[r]
      /\ \/ pc'[r] = (IF a.kind = "draft" THEN "name" ELSE "nodeSave") /\ parent'[r] \in Dirs(a)
         \/ pc'[r] = "top"
  <2>1. /\ Found(Dirs(a), r, IF a.kind = "draft" THEN "name" ELSE "nodeSave", "top")
        /\ UNCHANGED <<disk, ask, name, tries, refused, before>>
    BY DEF LookDir
  <2>2. (IF a.kind = "draft" THEN "name" ELSE "nodeSave") \in Labels /\ "top" \in Labels
    BY DEF Labels
  <2> QED
    BY <1>2, <2>1, <2>2, FoundStep
<1>4. ASSUME a.kind = "draft", NEW i \in Dirs(a)
      PROVE  i = Home(a)
  <2>1. i \in Stored /\ i \in Ids /\ disk[i].kind = "flowDraft" /\ disk[i].draft = a.target
    BY <1>4 DEF Dirs, DraftDirs, Stored
  <2>2. Shape(i, disk[i]) /\ i.is \in {"drafts", "draft"}
    BY <2>1, Marks DEF DiskInv, RowsFit
  <2>3. a.target \in Drafts /\ None \notin Drafts
    BY <1>1, <1>4, AskType, DiskAssumption
  <2>4. i.is = "draft" /\ i.of = a.target
    BY <2>1, <2>2, <2>3 DEF Shape, Dir
  <2> QED
    BY <1>4, <2>1, <2>4, IdParts DEF Home, DirId
<1>5. ASSUME a.kind = "node", NEW i \in Dirs(a)
      PROVE  disk[i].kind = "flowInstance" /\ disk[i].flow = FlowOf[a.target]
  BY <1>5 DEF Dirs, FlowDirs
<1>6. Known(r)'
  <2>1. Askable(ask[r])'
    BY <1>1, <1>3 DEF Askable, Kept
  <2>2. CASE pc'[r] = "top"
    BY <1>1, <1>3, <2>1, <2>2 DEF Known, At, Busy, Over, Admitted
  <2>3. CASE pc'[r] = "name" /\ a.kind = "draft" /\ parent'[r] \in Dirs(a)
    <3>1. parent'[r] = Home(a) /\ parent'[r] \in Stored'
      BY <1>2, <1>3, <1>4, <2>3
    <3> QED
      BY <1>1, <1>3, <2>1, <2>3, <3>1 DEF Known, At, Busy, Over, Admitted
  <2>4. CASE pc'[r] = "nodeSave" /\ a.kind = "node" /\ parent'[r] \in Dirs(a)
    <3>1. /\ parent'[r] \in Stored'
          /\ disk'[parent'[r]].kind = "flowInstance"
          /\ disk'[parent'[r]].flow = FlowOf[a.target]
      BY <1>2, <1>3, <1>5, <2>4 DEF LookDir
    <3> QED
      BY <1>1, <1>3, <2>1, <2>4, <3>1 DEF Known, At, Busy, Over, Admitted
  <2> QED
    BY <1>1, <1>3, <2>2, <2>3, <2>4
<1>7. Apart(r)' /\ RefusalKnown(r)'
  BY <1>1, <1>3, ApartElsewhere, RefusalSame DEF Named, At
<1> QED
  BY <1>1, <1>3, <1>6, <1>7, Stepping

LEMMA LookTopStep ==
  ASSUME DiskInv, NEW r \in Uploads, LookTop(r)
  PROVE  DiskInv'
<1> DEFINE a == ask[r]
<1>1. ~At(r, "done") /\ a \in Asks /\ Askable(a) /\ Admitted(a)
      /\ a.kind \in {"draft", "node"} /\ FileId(r) \notin Stored
  <2>1. Known(r) /\ pc[r] = "top"
    BY DEF DiskInv, LookTop, At
  <2> QED
    BY <2>1, AskType DEF Known, At, Busy, Over
<1>2. Tops(a) \subseteq Stored
  BY DEF Tops
<1>3. /\ RowsFit' /\ Kept /\ Stored' = Stored /\ TypeOK' /\ Quiet(r)
      /\ ask'[r] = a /\ refused'[r] = refused[r] /\ before'[r] = before[r]
      /\ \/ pc'[r] = "dirSave" /\ parent'[r] \in Tops(a)
         \/ pc'[r] = "root"
  <2>1. /\ Found(Tops(a), r, "dirSave", "root")
        /\ UNCHANGED <<disk, ask, name, tries, refused, before>>
    BY DEF LookTop
  <2>2. "dirSave" \in Labels /\ "root" \in Labels
    BY DEF Labels
  <2> QED
    BY <1>2, <2>1, <2>2, FoundStep
<1>4. ASSUME NEW i \in Tops(a)
      PROVE  i = TopId(a.kind, a.user)
  <2>1. i \in Stored /\ i \in Ids /\ disk[i].owner = a.user /\ Shape(i, disk[i])
    BY <1>4 DEF Tops, Stored, DiskInv, RowsFit
  <2>2. None \notin Drafts /\ None \notin Flows
    BY DiskAssumption
  <2>3. CASE a.kind = "draft"
    <3>1. disk[i].kind = "flowDraft" /\ disk[i].draft = None
      BY <1>4, <2>3 DEF Tops, Kind
    <3>2. i.is \in {"drafts", "draft"}
      BY <2>1, <3>1, Marks DEF DiskInv
    <3>3. i.is # "draft"
      BY <2>1, <2>2, <3>1, IdParts DEF Shape, Dir
    <3>4. i.of = a.user
      BY <2>1, <3>2, <3>3 DEF Shape, Dir
    <3> QED
      BY <2>1, <2>3, <3>2, <3>3, <3>4, IdParts DEF TopId
  <2>4. CASE a.kind = "node"
    <3>1. disk[i].kind = "flowInstance" /\ disk[i].flow = None
      BY <1>4, <2>4 DEF Tops, Kind
    <3>2. i.is \in {"instances", "flow", "node"}
      BY <2>1, <3>1, Marks DEF DiskInv
    <3>3. i.is # "flow"
      BY <2>1, <2>2, <3>1, IdParts DEF Shape, Dir
    <3>4. i.is # "node"
      <4>1. i.is = "node" => FlowOf[i.of] \in Flows
        BY <2>1, IdParts, DiskAssumption
      <4> QED
        BY <2>1, <2>2, <3>1, <4>1 DEF Shape, Dir
    <3>5. i.of = a.user
      BY <2>1, <3>2, <3>3, <3>4 DEF Shape, Dir
    <3> QED
      BY <2>1, <2>4, <3>2, <3>3, <3>4, <3>5, IdParts DEF TopId
  <2> QED
    BY <1>1, <2>3, <2>4
<1>5. Known(r)'
  <2>1. Askable(ask[r])'
    BY <1>1, <1>3 DEF Askable, Kept
  <2>2. pc'[r] = "dirSave" => parent'[r] = TopId(a.kind, a.user) /\ parent'[r] \in Stored'
    BY <1>2, <1>3, <1>4
  <2> QED
    BY <1>1, <1>3, <2>1, <2>2 DEF Known, At, Busy, Over, Admitted
<1>6. Apart(r)' /\ RefusalKnown(r)'
  BY <1>1, <1>3, ApartElsewhere, RefusalSame DEF Named, At
<1> QED
  BY <1>1, <1>3, <1>5, <1>6, Stepping

\* What is known of an upload that looks for the root, or makes it.
LEMMA AtRoot ==
  ASSUME DiskInv, NEW r \in Uploads, pc[r] \in {"root", "rootSave"}
  PROVE  /\ ~At(r, "done") /\ ~At(r, "idle")
         /\ ask[r] \in Asks /\ Askable(ask[r]) /\ Admitted(ask[r])
         /\ FileId(r) \notin Stored
         /\ ask[r].kind = "normal" => ask[r].target = None /\ Home(ask[r]) = RootId(ask[r].user)
         /\ ask[r].kind = "normal" => Named(r)
<1>1. Known(r)
  BY DEF DiskInv
<1> QED
  BY <1>1 DEF Known, At, Busy, Over, Home, Named

\* What is known of it when the root is there.
LEMMA AfterRootKnown ==
  ASSUME DiskInv, NEW r \in Uploads, pc[r] \in {"root", "rootSave"}, Kept, FileId(r) \notin Stored',
         ask'[r] = ask[r], pc'[r] = AfterRoot(ask[r]),
         parent'[r] = RootId(ask[r].user), parent'[r] \in Stored'
  PROVE  Known(r)'
<1>1. Askable(ask[r])'
  BY AtRoot DEF Askable, Kept
<1>2. CASE ask[r].kind = "normal"
  <2>1. pc'[r] = "file" /\ parent'[r] = Home(ask[r])
    BY <1>2, AtRoot DEF AfterRoot
  <2> QED
    BY <1>1, <1>2, <2>1, AtRoot DEF Known, At, Busy, Over, Admitted
<1>3. CASE ask[r].kind # "normal"
  <2>1. pc'[r] = "topSave"
    BY <1>3 DEF AfterRoot
  <2> QED
    BY <1>1, <1>3, <2>1, AtRoot DEF Known, At, Busy, Over, Admitted
<1> QED
  BY <1>2, <1>3

\* Its name, if it has one, stays apart.
LEMMA RootApart ==
  ASSUME DiskInv, NEW r \in Uploads, pc[r] \in {"root", "rootSave"}, Kept, Quiet(r),
         ask'[r] = ask[r], name'[r] = name[r], before'[r] = before[r],
         pc'[r] \in {"rootSave", "refused"} \/ pc'[r] = AfterRoot(ask[r])
  PROVE  Apart(r)'
<1>1. ~At(r, "done")'
  BY DEF At, AfterRoot
<1>2. CASE ask[r].kind = "normal"
  BY <1>1, <1>2, AtRoot, ApartSame
<1>3. CASE ask[r].kind # "normal"
  <2>1. ~Named(r)'
    BY <1>3 DEF Named, At, AfterRoot
  <2> QED
    BY <1>1, <2>1, AtRoot, ApartElsewhere
<1> QED
  BY <1>2, <1>3

LEMMA LookRootStep ==
  ASSUME DiskInv, NEW r \in Uploads, LookRoot(r)
  PROVE  DiskInv'
<1> DEFINE a == ask[r]
           i == RootId(a.user)
<1>1. pc[r] \in {"root", "rootSave"}
  BY DEF LookRoot, At
<1>2. /\ RowsFit' /\ Kept /\ Stored' = Stored /\ TypeOK' /\ Quiet(r)
      /\ ask'[r] = a /\ name'[r] = name[r]
      /\ refused'[r] = refused[r] /\ before'[r] = before[r]
      /\ \/ pc'[r] = AfterRoot(a) /\ parent'[r] = i /\ i \in Stored
         \/ pc'[r] = "rootSave" /\ i \notin Stored
  <2>1. /\ Found({i} \cap Stored, r, AfterRoot(a), "rootSave")
        /\ UNCHANGED <<disk, ask, name, tries, refused, before>>
    BY DEF LookRoot
  <2>2. AfterRoot(a) \in Labels /\ "rootSave" \in Labels
    BY DEF AfterRoot, Labels
  <2>3. {i} \cap Stored \subseteq Stored
    OBVIOUS
  <2>4. \/ pc'[r] = AfterRoot(a) /\ parent'[r] \in {i} \cap Stored
        \/ pc'[r] = "rootSave" /\ {i} \cap Stored = {}
    BY <2>1, <2>2, <2>3, FoundStep
  <2> QED
    BY <2>1, <2>2, <2>3, <2>4, FoundStep
<1>3. Known(r)'
  <2>1. FileId(r) \notin Stored'
    BY <1>1, <1>2, AtRoot
  <2>2. CASE pc'[r] = AfterRoot(a) /\ parent'[r] = i /\ i \in Stored
    BY <1>1, <1>2, <2>1, <2>2, AfterRootKnown
  <2>3. CASE pc'[r] = "rootSave"
    <3>1. Askable(ask[r])'
      BY <1>1, <1>2, AtRoot DEF Askable, Kept
    <3> QED
      BY <1>1, <1>2, <2>1, <2>3, <3>1, AtRoot DEF Known, At, Busy, Over, Admitted
  <2> QED
    BY <1>2, <2>2, <2>3
<1>4. Apart(r)'
  BY <1>1, <1>2, RootApart
<1>5. RefusalKnown(r)'
  <2>1. RefusalKnown(r)
    BY DEF DiskInv
  <2> QED
    BY <1>2, <2>1 DEF RefusalKnown, At, AfterRoot
<1> QED
  BY <1>1, <1>2, <1>3, <1>4, <1>5, AtRoot, Stepping

LEMMA SaveRootStep ==
  ASSUME DiskInv, NEW r \in Uploads, SaveRoot(r)
  PROVE  DiskInv'
<1> DEFINE a == ask[r]
           i == RootId(a.user)
           row == Dir(None, a.user, None, None, None, None)
<1>1. pc[r] \in {"root", "rootSave"} /\ pc[r] = "rootSave"
  BY DEF SaveRoot, At
<1>2. /\ ask'[r] = a /\ name'[r] = name[r] /\ before'[r] = before[r]
      /\ a \in Asks /\ a.user \in Users /\ i \in Ids
      /\ i.is = "root" /\ i.of = a.user
  BY <1>1, AtRoot, AskType, IdsOfAsk DEF SaveRoot, RootId
<1>3. Quiet(r)
  BY DEF DiskInv, TypeOK, SaveRoot, Goto, Quiet
<1>4. CASE Session(a) # None /\ i \notin Stored
  <2>1. /\ disk' = [disk EXCEPT ![i] = row]
        /\ pc'[r] = AfterRoot(a) /\ parent'[r] = i /\ refused'[r] = refused[r]
    BY <1>4 DEF SaveRoot, DiskInv, TypeOK, Goto
  <2>2. row \in Rows
    BY <1>2, DirType
  <2>3. Shape(i, row) /\ Placed(i, row) /\ Insert(i, row)
    BY <1>2, <1>4, <2>1 DEF Shape, Placed, Insert
  <2>4. /\ disk' \in [Ids -> Rows \cup {None}] /\ RowsFit' /\ Kept
        /\ i \in Stored' /\ Stored' \subseteq Stored \cup {i}
    BY <1>2, <2>2, <2>3, Adding DEF DiskInv, TypeOK
  <2>5. \A q \in Uploads : FileId(q) \in Stored' => FileId(q) \in Stored
    BY <1>2, <2>4 DEF FileId
  <2>6. TypeOK'
    <3>1. pc' \in [Uploads -> Labels]
      BY <1>4 DEF DiskInv, TypeOK, SaveRoot, Goto, AfterRoot, Labels
    <3>2. parent' \in [Uploads -> Ids \cup {None}]
      BY <1>2, <1>4 DEF DiskInv, TypeOK, SaveRoot
    <3> QED
      BY <1>4, <2>4, <3>1, <3>2 DEF DiskInv, TypeOK, SaveRoot
  <2>7. Known(r)'
    BY <1>1, <1>2, <2>1, <2>4, <2>5, AtRoot, AfterRootKnown
  <2>8. Apart(r)'
    BY <1>1, <1>2, <1>3, <2>1, <2>4, RootApart
  <2>9. RefusalKnown(r)'
    BY <1>2, <2>1, <2>4, RefusalSame DEF At, AfterRoot
  <2> QED
    BY <1>1, <1>3, <2>4, <2>5, <2>6, <2>7, <2>8, <2>9, AtRoot, Stepping
<1>5. CASE ~(Session(a) # None /\ i \notin Stored)
  <2>1. /\ UNCHANGED <<disk, parent>>
        /\ pc'[r] = "refused" /\ refused'[r] = refused[r] + 1
    BY <1>5 DEF SaveRoot, DiskInv, TypeOK, Goto
  <2>2. RowsFit' /\ Kept /\ Stored' = Stored
    BY <2>1, Unmoved DEF DiskInv
  <2>3. TypeOK'
    <3>1. pc' \in [Uploads -> Labels]
      BY <1>5 DEF DiskInv, TypeOK, SaveRoot, Goto, Labels, Over
    <3>2. refused' \in [Uploads -> Nat]
      BY <1>5 DEF DiskInv, TypeOK, SaveRoot
    <3> QED
      BY <2>1, <3>1, <3>2 DEF DiskInv, TypeOK, SaveRoot
  <2>4. Known(r)'
    <3>1. Askable(ask[r])'
      BY <1>1, <1>2, <2>2, AtRoot DEF Askable, Kept
    <3> QED
      BY <1>1, <1>2, <2>1, <2>2, <3>1, AtRoot DEF Known, At, Busy, Over
  <2>5. Apart(r)'
    BY <1>1, <1>2, <1>3, <2>1, <2>2, RootApart
  <2>6. RefusalKnown(r)'
    <3>1. RefusalKnown(r) /\ refused[r] \in Nat
      BY DEF DiskInv, TypeOK
    <3>2. ASSUME Session(a) # None
          PROVE  refused'[r] = 1 /\ i \in Stored
      <4>1. ~(refused[r] > 0)
        BY <1>1, <3>1, <3>2 DEF RefusalKnown, At
      <4>2. refused[r] = 0
        BY <3>1, <4>1
      <4> QED
        BY <1>5, <2>1, <3>2, <4>2
    <3> QED
      BY <1>2, <2>1, <2>2, <3>2 DEF RefusalKnown, At
  <2> QED
    BY <1>1, <1>3, <2>2, <2>3, <2>4, <2>5, <2>6, AtRoot, Stepping
<1> QED
  BY <1>4, <1>5

\* A step that makes the directory of an id, and goes on below it.
LEMMA MakeStep ==
  ASSUME DiskInv, NEW r \in Uploads, NEW i \in Ids, i.is # "file",
         NEW row \in Rows, Shape(i, row), Placed(i, row), Insert(i, row),
         NEW l \in Labels, parent' = [parent EXCEPT ![r] = i], Goto(r, l),
         UNCHANGED <<ask, name, tries, refused, before>>
  PROVE  /\ RowsFit' /\ Kept /\ i \in Stored'
         /\ disk'[i] = IF i \in Stored THEN disk[i] ELSE row
         /\ \A q \in Uploads : FileId(q) \in Stored' => FileId(q) \in Stored
         /\ TypeOK' /\ Quiet(r)
         /\ pc'[r] = l /\ parent'[r] = i /\ ask'[r] = ask[r]
         /\ refused'[r] = refused[r] /\ before'[r] = before[r]
<1>1. /\ disk' \in [Ids -> Rows \cup {None}] /\ RowsFit' /\ Kept
      /\ i \in Stored' /\ Stored' \subseteq Stored \cup {i}
      /\ i \notin Stored => disk'[i] = row
  BY Adding DEF DiskInv, TypeOK
<1>2. i \in Stored => disk'[i] = disk[i]
  BY <1>1 DEF Kept
<1>3. \A q \in Uploads : FileId(q) \in Stored' => FileId(q) \in Stored
  BY <1>1 DEF FileId
<1>4. TypeOK'
  <2>1. pc' \in [Uploads -> Labels] /\ parent' \in [Uploads -> Ids \cup {None}]
    BY DEF DiskInv, TypeOK, Goto
  <2> QED
    BY <1>1, <2>1 DEF DiskInv, TypeOK
<1>5. Quiet(r) /\ pc'[r] = l /\ parent'[r] = i
  BY DEF DiskInv, TypeOK, Goto, Quiet
<1> QED
  BY <1>1, <1>2, <1>3, <1>4, <1>5

LEMMA SaveTopStep ==
  ASSUME DiskInv, NEW r \in Uploads, SaveTop(r)
  PROVE  DiskInv'
<1> DEFINE a == ask[r]
           i == TopId(a.kind, a.user)
           row == Dir(parent[r], a.user, Kind(a), None, None, None)
           l == "dirSave"
<1>1. /\ ~At(r, "done") /\ a \in Asks /\ Askable(a) /\ Admitted(a)
      /\ a.kind \in {"draft", "node"} /\ a.user \in Users /\ FileId(r) \notin Stored
      /\ parent[r] = RootId(a.user) /\ parent[r] \in Stored
  <2>1. Known(r) /\ pc[r] = "topSave"
    BY DEF DiskInv, SaveTop, At
  <2> QED
    BY <2>1, AskType DEF Known, At, Busy, Over
<1>2. i \in Ids /\ i.is = (IF a.kind = "draft" THEN "drafts" ELSE "instances") /\ i.of = a.user
  BY <1>1, IdsOfAsk DEF TopId
<1>3. row \in Rows
  <2>1. parent[r] \in Ids /\ Kind(a) \in {"flowDraft", "flowInstance", None}
    BY <1>1 DEF Stored, Kind
  <2> QED
    BY <1>1, <2>1, DirType
<1>4. Shape(i, row)
  BY <1>1, <1>2 DEF Shape, Kind
<1>5. Placed(i, row)
  <2>1. disk[parent[r]].dir /\ disk[parent[r]].owner = a.user
    BY <1>1, RootRow DEF DiskInv
  <2> QED
    BY <1>1, <1>2, <2>1 DEF Placed, Dir
<1>6. l \in Labels /\ i.is # "file"
  BY <1>2 DEF Labels
<1>7. /\ Insert(i, row) /\ parent' = [parent EXCEPT ![r] = i] /\ Goto(r, l)
      /\ UNCHANGED <<ask, name, tries, refused, before>>
  BY DEF SaveTop
<1> HIDE DEF i, row, l
<1>8. /\ RowsFit' /\ Kept /\ i \in Stored'
      /\ disk'[i] = IF i \in Stored THEN disk[i] ELSE row
      /\ \A q \in Uploads : FileId(q) \in Stored' => FileId(q) \in Stored
      /\ TypeOK' /\ Quiet(r)
      /\ pc'[r] = l /\ parent'[r] = i /\ ask'[r] = ask[r]
      /\ refused'[r] = refused[r] /\ before'[r] = before[r]
  BY <1>2, <1>3, <1>4, <1>5, <1>6, <1>7, MakeStep
<1>9. Known(r)'
  <2>1. Askable(ask[r])'
    BY <1>1, <1>8 DEF Askable, Kept
  <2> QED
    BY <1>1, <1>8, <2>1 DEF i, l, Known, At, Busy, Over, Admitted
<1>10. Apart(r)' /\ RefusalKnown(r)'
  BY <1>1, <1>8, ApartElsewhere, RefusalSame DEF l, Named, At
<1> QED
  BY <1>1, <1>8, <1>9, <1>10, Stepping

LEMMA SaveDirStep ==
  ASSUME DiskInv, NEW r \in Uploads, SaveDir(r)
  PROVE  DiskInv'
<1> DEFINE a == ask[r]
           i == DirId(a.kind, Subject(a))
           row == Dir(parent[r], a.user, Kind(a), DraftOf(a), InstanceOf(a), None)
           l == IF a.kind = "draft" THEN "name" ELSE "nodeSave"
<1>1. /\ ~At(r, "done") /\ a \in Asks /\ Askable(a) /\ Admitted(a)
      /\ a.kind \in {"draft", "node"} /\ a.user \in Users /\ FileId(r) \notin Stored
      /\ parent[r] = TopId(a.kind, a.user) /\ parent[r] \in Stored
  <2>1. Known(r) /\ pc[r] = "dirSave"
    BY DEF DiskInv, SaveDir, At
  <2> QED
    BY <2>1, AskType DEF Known, At, Busy, Over
<1>2. i \in Ids /\ i.is = (IF a.kind = "draft" THEN "draft" ELSE "flow") /\ i.of = Subject(a)
  BY <1>1, IdsOfAsk DEF DirId
<1>3. row \in Rows
  <2>1. parent[r] \in Ids /\ Kind(a) \in {"flowDraft", "flowInstance", None}
    BY <1>1 DEF Stored, Kind
  <2>2. DraftOf(a) \in Drafts \cup {None} /\ InstanceOf(a) \in Flows \cup {None}
    BY <1>1, AskType DEF DraftOf, InstanceOf
  <2> QED
    BY <1>1, <2>1, <2>2, DirType
<1>4. a.user = Owner[Subject(a)]
  BY <1>1 DEF Subject, Admitted, Askable
<1>5. Shape(i, row)
  <2>1. CASE a.kind = "draft"
    BY <1>1, <1>2, <1>4, <2>1 DEF Shape, Kind, DraftOf, InstanceOf, Subject
  <2>2. CASE a.kind = "node"
    <3>1. parent[r] = TopId("flow", a.user)
      BY <1>1, <2>2 DEF TopId
    <3> QED
      BY <1>1, <1>2, <1>4, <2>2, <3>1 DEF Shape, Kind, DraftOf, InstanceOf, Subject
  <2> QED
    BY <1>1, <2>1, <2>2
<1>6. Placed(i, row)
  <2>1. disk[parent[r]].dir /\ disk[parent[r]].owner = a.user
    BY <1>1, TopRow DEF DiskInv
  <2> QED
    BY <1>1, <1>2, <2>1 DEF Placed, Dir
<1>7. l \in Labels /\ i.is # "file"
  BY <1>2 DEF Labels
<1>8. /\ Insert(i, row) /\ parent' = [parent EXCEPT ![r] = i] /\ Goto(r, l)
      /\ UNCHANGED <<ask, name, tries, refused, before>>
  BY DEF SaveDir
<1> HIDE DEF i, row, l
<1>9. /\ RowsFit' /\ Kept /\ i \in Stored'
      /\ disk'[i] = IF i \in Stored THEN disk[i] ELSE row
      /\ \A q \in Uploads : FileId(q) \in Stored' => FileId(q) \in Stored
      /\ TypeOK' /\ Quiet(r)
      /\ pc'[r] = l /\ parent'[r] = i /\ ask'[r] = ask[r]
      /\ refused'[r] = refused[r] /\ before'[r] = before[r]
  BY <1>2, <1>3, <1>5, <1>6, <1>7, <1>8, MakeStep
<1>10. Known(r)'
  <2>1. Askable(ask[r])'
    BY <1>1, <1>9 DEF Askable, Kept
  <2>2. CASE a.kind = "draft"
    <3>1. i = Home(a)
      BY <2>2 DEF i, Home, Subject
    <3> QED
      BY <1>1, <1>9, <2>1, <2>2, <3>1 DEF l, Known, At, Busy, Over, Admitted
  <2>3. CASE a.kind = "node"
    <3>1. Shape(i, disk'[i])
      BY <1>5, <1>9 DEF DiskInv, RowsFit
    <3>2. i.is = "flow" /\ i.of = FlowOf[a.target]
      BY <1>2, <2>3 DEF Subject
    <3>3. disk'[i].kind = "flowInstance" /\ disk'[i].flow = FlowOf[a.target]
      BY <3>1, <3>2 DEF Shape, Dir
    <3> QED
      BY <1>1, <1>9, <2>1, <2>3, <3>3 DEF l, Known, At, Busy, Over, Admitted
  <2> QED
    BY <1>1, <2>2, <2>3
<1>11. Apart(r)' /\ RefusalKnown(r)'
  BY <1>1, <1>9, ApartElsewhere, RefusalSame DEF l, Named, At
<1> QED
  BY <1>1, <1>9, <1>10, <1>11, Stepping

LEMMA SaveNodeStep ==
  ASSUME DiskInv, NEW r \in Uploads, SaveNode(r)
  PROVE  DiskInv'
<1> DEFINE a == ask[r]
           i == NodeId(a.target)
           row == Dir(parent[r], a.user, "flowInstance", None, InstanceOf(a), a.target)
           l == "name"
<1>1. /\ ~At(r, "done") /\ a \in Asks /\ Askable(a) /\ Admitted(a)
      /\ a.kind = "node" /\ a.user \in Users /\ FileId(r) \notin Stored
      /\ parent[r] \in Stored /\ disk[parent[r]].kind = "flowInstance"
      /\ disk[parent[r]].flow = FlowOf[a.target]
      /\ a.user = Owner[FlowOf[a.target]]
  <2>1. Known(r) /\ pc[r] = "nodeSave"
    BY DEF DiskInv, SaveNode, At
  <2> QED
    BY <2>1, AskType DEF Known, At, Busy, Over, Askable
<1>2. /\ i \in Ids /\ i.is = "node" /\ i.of = a.target
      /\ a.target \in Nodes /\ FlowOf[a.target] \in Flows
  BY <1>1, IdsOfAsk, AskType DEF NodeId
<1>3. row \in Rows
  <2>1. parent[r] \in Ids /\ InstanceOf(a) \in Flows
    BY <1>1, <1>2 DEF Stored, InstanceOf
  <2> QED
    BY <1>1, <1>2, <2>1, DirType
<1>4. Shape(i, row)
  BY <1>1, <1>2 DEF Shape, Dir, InstanceOf
<1>5. Placed(i, row)
  <2>1. disk[parent[r]].dir /\ disk[parent[r]].owner = a.user
    <3>1. parent[r] \in Ids /\ Shape(parent[r], disk[parent[r]])
      BY <1>1 DEF DiskInv, RowsFit, Stored
    <3>2. parent[r].is \in {"instances", "flow", "node"}
      BY <1>1, Marks DEF DiskInv
    <3>3. parent[r].is # "instances"
      BY <1>1, <1>2, <3>1, DiskAssumption DEF Shape, Dir
    <3> QED
      BY <1>1, <3>1, <3>2, <3>3 DEF Shape, Dir
  <2> QED
    BY <1>1, <1>2, <2>1 DEF Placed, Dir, InstanceOf
<1>6. l \in Labels /\ i.is # "file"
  BY <1>2 DEF Labels
<1>7. /\ Insert(i, row) /\ parent' = [parent EXCEPT ![r] = i] /\ Goto(r, l)
      /\ UNCHANGED <<ask, name, tries, refused, before>>
  BY DEF SaveNode
<1> HIDE DEF i, row, l
<1>8. /\ RowsFit' /\ Kept /\ i \in Stored'
      /\ disk'[i] = IF i \in Stored THEN disk[i] ELSE row
      /\ \A q \in Uploads : FileId(q) \in Stored' => FileId(q) \in Stored
      /\ TypeOK' /\ Quiet(r)
      /\ pc'[r] = l /\ parent'[r] = i /\ ask'[r] = ask[r]
      /\ refused'[r] = refused[r] /\ before'[r] = before[r]
  BY <1>2, <1>3, <1>4, <1>5, <1>6, <1>7, MakeStep
<1>9. Known(r)'
  <2>1. Askable(ask[r])'
    BY <1>1, <1>8 DEF Askable, Kept
  <2>2. i = Home(a)
    BY <1>1 DEF i, Home
  <2> QED
    BY <1>1, <1>8, <2>1, <2>2 DEF l, Known, At, Busy, Over, Admitted
<1>10. Apart(r)' /\ RefusalKnown(r)'
  BY <1>1, <1>8, ApartElsewhere, RefusalSame DEF l, Named, At
<1> QED
  BY <1>1, <1>8, <1>9, <1>10, Stepping

LEMMA ChooseNameStep ==
  ASSUME DiskInv, NEW r \in Uploads, ChooseName(r)
  PROVE  DiskInv'
<1> DEFINE a == ask[r]
<1>1. /\ ~At(r, "done") /\ ~At(r, "idle") /\ a \in Asks /\ Askable(a) /\ Admitted(a)
      /\ FileId(r) \notin Stored /\ a.user \in Users /\ a.name \in Names
      /\ IF a.kind = "normal" THEN parent[r] = a.target
         ELSE parent[r] = Home(a) /\ parent[r] \in Stored
  <2>1. Known(r) /\ pc[r] = "name"
    BY DEF DiskInv, ChooseName, At
  <2> QED
    BY <2>1, AskType DEF Known, At, Busy, Over
<1>2. /\ RowsFit' /\ Kept /\ Stored' = Stored
      /\ ask'[r] = a /\ parent'[r] = parent[r] /\ refused'[r] = refused[r]
      /\ pc'[r] = (IF parent[r] = None THEN "root" ELSE "file")
      /\ before'[r] = {q \in Uploads : At(q, "done")}
  BY Unmoved DEF DiskInv, TypeOK, ChooseName, Goto
<1>3. PICK t \in Stamps \cup {None} :
        /\ name' = [name EXCEPT ![r] = [text |-> a.name, stamp |-> t]]
        /\ \/ ~Taken(parent[r], a) /\ t = None
           \/ \A i \in Stored : disk[i].name.stamp # t
  BY DEF ChooseName
<1>4. name'[r] = [text |-> a.name, stamp |-> t] /\ name'[r] \in FileNames
  BY <1>1, <1>3 DEF DiskInv, TypeOK, FileNames
<1>5. Quiet(r)
  BY <1>3 DEF DiskInv, TypeOK, ChooseName, Goto, Quiet
<1>6. TypeOK'
  <2>1. pc' \in [Uploads -> Labels]
    BY DEF DiskInv, TypeOK, ChooseName, Goto, Labels
  <2>2. name' \in [Uploads -> FileNames]
    BY <1>3, <1>4 DEF DiskInv, TypeOK
  <2>3. before' \in [Uploads -> SUBSET Uploads]
    BY DEF DiskInv, TypeOK, ChooseName
  <2> QED
    BY <2>1, <2>2, <2>3 DEF DiskInv, TypeOK, ChooseName
<1>7. None \notin Ids
  BY RequestsAssumption
<1>8. parent[r] # None => parent[r] = Home(a) /\ (Unplaced(a) => parent[r] \in Stored)
  BY <1>1 DEF Home, Unplaced
<1>9. parent[r] = None => a.kind = "normal" /\ a.target = None /\ Home(a) = RootId(a.user)
  <2>1. Home(a) \in Ids
    BY <1>1, IdsOfAsk
  <2> QED
    BY <1>1, <1>7, <2>1 DEF Home
<1>10. Known(r)'
  <2>1. Askable(ask[r])'
    BY <1>1, <1>2 DEF Askable, Kept
  <2> QED
    BY <1>1, <1>2, <1>8, <1>9, <2>1 DEF Known, At, Busy, Over, Admitted
<1>11. Apart(r)'
  <2>1. \A q \in before'[r] : At(q, "done")'
    BY <1>1, <1>2, <1>5 DEF Quiet, At
  <2>2. ASSUME NEW q \in before'[r]
        PROVE  ~Equal(q, Home(a), a.user, name'[r])
    <3>1. FileId(q) \in Stored
      BY <1>2, <2>2 DEF DiskInv, Known
    <3>2. CASE ~Taken(parent[r], a) /\ t = None
      BY <1>4, <1>8, <1>9, <3>1, <3>2 DEF Taken, Equal
    <3>3. CASE \A i \in Stored : disk[i].name.stamp # t
      BY <1>4, <3>1, <3>3 DEF Equal
    <3> QED
      BY <1>3, <3>2, <3>3
  <2>3. \A q \in before'[r] : ~Equal(q, Home(ask[r]), ask[r].user, name[r])'
    <3>1. disk' = disk
      BY DEF ChooseName
    <3> QED
      BY <1>2, <2>2, <3>1 DEF Equal
  <2>4. ~At(r, "done")'
    BY <1>2 DEF At
  <2> QED
    BY <2>1, <2>3, <2>4 DEF Apart
<1>12. RefusalKnown(r)'
  BY <1>2, RefusalSame DEF At
<1> QED
  BY <1>1, <1>2, <1>5, <1>6, <1>10, <1>11, <1>12, Stepping

LEMMA FailStep ==
  ASSUME DiskInv, NEW r \in Uploads, Fail(r)
  PROVE  DiskInv'
<1>1. /\ ~At(r, "done") /\ ask[r] \in Asks /\ Askable(ask[r])
      /\ FileId(r) \notin Stored
  BY DEF DiskInv, Known, Fail, Busy, Over, At
<1>2. /\ RowsFit' /\ Kept /\ Stored' = Stored
      /\ Quiet(r) /\ pc'[r] = "failed" /\ ask'[r] = ask[r]
      /\ refused'[r] = refused[r] /\ before'[r] = before[r]
  BY Unmoved DEF DiskInv, TypeOK, Fail, Leave, Goto, Quiet
<1>3. TypeOK'
  <2>1. pc' \in [Uploads -> Labels]
    BY DEF DiskInv, TypeOK, Fail, Leave, Goto, Labels, Over
  <2>2. parent' \in [Uploads -> Ids \cup {None}]
    BY DEF DiskInv, TypeOK, Fail, Leave
  <2>3. name' \in [Uploads -> FileNames]
    BY DEF DiskInv, TypeOK, Fail, Leave, Plain, FileNames
  <2> QED
    BY <2>1, <2>2, <2>3 DEF DiskInv, TypeOK, Fail
<1>4. Known(r)'
  <2>1. Askable(ask[r])'
    BY <1>1, <1>2 DEF Askable, Kept
  <2> QED
    BY <1>1, <1>2, <2>1 DEF Known, At, Busy, Over
<1>5. Apart(r)' /\ RefusalKnown(r)'
  BY <1>1, <1>2, ApartElsewhere, RefusalSame DEF Named, At
<1> QED
  BY <1>1, <1>2, <1>3, <1>4, <1>5, Stepping

\* The row of a file whose parent is there.
LEMMA SavedFileStep ==
  ASSUME DiskInv, NEW r \in Uploads, SaveFile(r), parent[r] \in Stored
  PROVE  DiskInv'
<1> DEFINE a == ask[r]
           i == FileId(r)
           row == [parent |-> parent[r], name |-> name[r], dir |-> FALSE,
                   owner |-> a.user, kind |-> None, draft |-> DraftOf(a),
                   flow |-> InstanceOf(a), node |-> NodeOf(a)]
<1>1. /\ ~At(r, "done") /\ Named(r) /\ a \in Asks /\ Askable(a) /\ Admitted(a)
      /\ a.user \in Users /\ i \notin Stored
      /\ parent[r] = Home(a) /\ parent[r] \in Stored
  <2>1. Known(r) /\ pc[r] = "file"
    BY DEF DiskInv, SaveFile, At
  <2> QED
    BY <2>1, AskType DEF Known, At, Busy, Over, Named
<1>2. i \in Ids /\ i.is = "file"
  BY DEF FileId, Ids
<1>3. row \in Rows
  <2>1. parent[r] \in Ids /\ name[r] \in FileNames
    BY <1>1 DEF Stored, DiskInv, TypeOK
  <2>2. /\ DraftOf(a) \in Drafts \cup {None} /\ InstanceOf(a) \in Flows \cup {None}
        /\ NodeOf(a) \in Nodes \cup {None}
    BY <1>1, AskType DEF DraftOf, InstanceOf, NodeOf
  <2> QED
    BY <1>1, <2>1, <2>2 DEF Rows
<1>4. Shape(i, row)
  BY <1>2 DEF Shape
<1>5. Placed(i, row)
  <2>1. a.kind = "node" => disk[parent[r]].flow = FlowOf[a.target]
    BY <1>1, HomeRow DEF DiskInv, Unplaced
  <2>2. InstanceOf(a) # None => disk[parent[r]].flow = InstanceOf(a)
    BY <2>1 DEF InstanceOf
  <2> QED
    BY <1>1, <1>2, <2>2 DEF Placed
<1>6. row.parent = Home(a) /\ row.owner = a.user /\ row.name = name[r]
  BY <1>1
<1>7. Insert(i, row) /\ Leave(r, "done") /\ UNCHANGED <<ask, tries, refused, before>>
  BY DEF SaveFile
<1> HIDE DEF row
<1>8. /\ disk' \in [Ids -> Rows \cup {None}] /\ RowsFit' /\ Kept
      /\ i \in Stored' /\ Stored' \subseteq Stored \cup {i} /\ disk'[i] = row
  <2>1. disk \in [Ids -> Rows \cup {None}] /\ RowsFit
    BY DEF DiskInv, TypeOK
  <2> HIDE DEF i
  <2> QED
    BY <1>1, <1>2, <1>3, <1>4, <1>5, <1>7, <2>1, Adding
<1>9. \A q \in Uploads \ {r} : FileId(q) \in Stored' => FileId(q) \in Stored
  BY <1>8 DEF FileId
<1>10. /\ Quiet(r) /\ pc'[r] = "done" /\ ask'[r] = a
       /\ refused'[r] = refused[r] /\ before'[r] = before[r]
  BY <1>7 DEF DiskInv, TypeOK, Leave, Goto, Quiet
<1>11. TypeOK'
  <2>1. pc' \in [Uploads -> Labels]
    BY <1>7 DEF DiskInv, TypeOK, Leave, Goto, Labels, Over
  <2>2. parent' \in [Uploads -> Ids \cup {None}]
    BY <1>7 DEF DiskInv, TypeOK, Leave
  <2>3. name' \in [Uploads -> FileNames]
    BY <1>7 DEF DiskInv, TypeOK, Leave, Plain, FileNames
  <2> QED
    BY <1>7, <1>8, <2>1, <2>2, <2>3 DEF DiskInv, TypeOK
<1>12. Known(r)'
  <2>1. Askable(ask[r])'
    BY <1>1, <1>8, <1>10 DEF Askable, Kept
  <2> QED
    BY <1>1, <1>6, <1>8, <1>10, <2>1 DEF Known, At, Busy, Over
<1>13. Apart(r)'
  <2>1. Apart(r) /\ before[r] \subseteq Uploads
    BY DEF DiskInv, TypeOK
  <2>2. \A q \in before[r] : At(q, "done") /\ q # r
    BY <1>1, <2>1 DEF Apart
  <2>3. \A q \in before'[r] : At(q, "done")'
    BY <1>10, <2>1, <2>2 DEF Quiet, At
  <2>4. ASSUME NEW q \in before[r]
        PROVE  ~Equal(q, disk[i].parent, disk[i].owner, disk[i].name)'
    <3>1. ~Equal(q, Home(a), a.user, name[r])
      BY <1>1, <2>1 DEF Apart
    <3>2. FileId(q) \in Stored
      BY <2>1, <2>2 DEF DiskInv, Known
    <3>3. disk'[FileId(q)] = disk[FileId(q)]
      BY <1>8, <3>2 DEF Kept
    <3> QED
      BY <1>6, <1>8, <3>1, <3>3 DEF Equal
  <2>5. ~Named(r)'
    BY <1>10 DEF Named, At
  <2> QED
    BY <1>10, <2>3, <2>4, <2>5 DEF Apart
<1>14. RefusalKnown(r)'
  BY <1>8, <1>10, RefusalSame DEF At
<1> QED
  BY <1>1, <1>8, <1>9, <1>10, <1>11, <1>12, <1>13, <1>14, Stepping

\* A file whose parent is not there: the upload has failed.
LEMMA OrphanStep ==
  ASSUME DiskInv, NEW r \in Uploads, SaveFile(r), parent[r] \notin Stored
  PROVE  DiskInv'
<1>1. /\ Leave(r, "failed") /\ At(r, "file") /\ UNCHANGED <<disk, ask, tries, refused, before>>
  BY DEF SaveFile
<1>2. Fail(r)
  BY <1>1 DEF Fail, Busy, Over, At
<1> QED
  BY <1>2, FailStep

LEMMA SaveFileStep ==
  ASSUME DiskInv, NEW r \in Uploads, SaveFile(r)
  PROVE  DiskInv'
BY SavedFileStep, OrphanStep

---------------------------------------------------------------------------
(* Theorems.                                                                 *)

LEMMA InitHolds == Init => DiskInv
<1> SUFFICES ASSUME Init
             PROVE  DiskInv
  OBVIOUS
<1>1. Stored = {}
  BY DEF Init, Stored
<1>2. TypeOK
  <2>1. Plain \in FileNames /\ 0 \in 0 .. MaxTries
    BY DiskAssumption DEF Plain, FileNames
  <2> QED
    BY <2>1 DEF Init, TypeOK, Labels, Over
<1>3. RowsFit
  BY <1>1 DEF RowsFit
<1>4. ASSUME NEW r \in Uploads
      PROVE  Known(r) /\ Apart(r) /\ RefusalKnown(r)
  <2>1. pc[r] = "idle" /\ before[r] = {} /\ refused[r] = 0
    BY DEF Init
  <2> QED
    BY <1>1, <2>1 DEF Known, Apart, Named, RefusalKnown, At, Busy, Over
<1> QED
  BY <1>2, <1>3, <1>4 DEF DiskInv

LEMMA StepHolds == DiskInv /\ [Next]_vars => DiskInv'
<1> SUFFICES ASSUME DiskInv, [Next]_vars
             PROVE  DiskInv'
  OBVIOUS
<1>1. ASSUME NEW r \in Uploads, NEW a \in Requests, Start(r, a)
      PROVE  DiskInv'
  BY <1>1, StartStep
<1>2. ASSUME NEW r \in Uploads, Retry(r)
      PROVE  DiskInv'
  BY <1>2, RetryStep
<1>3. ASSUME NEW r \in Uploads, Step(r)
      PROVE  DiskInv'
  BY <1>3, LookNodeStep, LookDirStep, LookTopStep, LookRootStep, SaveRootStep,
     SaveTopStep, SaveDirStep, SaveNodeStep, ChooseNameStep, SaveFileStep DEF Step
<1>4. ASSUME NEW r \in Uploads, Fail(r)
      PROVE  DiskInv'
  BY <1>4, FailStep
<1>5. CASE UNCHANGED vars
  BY <1>5 DEF vars, DiskInv, TypeOK, RowsFit, Placed, Stored, Known, Apart, Named, Equal,
     RefusalKnown, At, Busy, Askable
<1> QED
  BY <1>1, <1>2, <1>3, <1>4, <1>5 DEF Next

\* Every row fits its id and lies in the directory it should, and every upload
\* acts on what is there (create_file with all that it calls).
THEOREM InductiveInvariant == Spec => []DiskInv
<1>1. Init => DiskInv
  BY InitHolds
<1>2. DiskInv /\ [Next]_vars => DiskInv'
  BY StepHolds
<1> QED
  BY <1>1, <1>2, PTL DEF Spec

\* Every variable has its type.
THEOREM TypeCorrect == Spec => []TypeOK
<1>1. DiskInv => TypeOK
  BY DEF DiskInv
<1> QED
  BY <1>1, InductiveInvariant, PTL

\* Every row but a root lies in a row that is there, and in a directory of the same
\* user unless it is a file whose place the client named, whatever uploads make the
\* directories of a new user at once, and wherever they are cut off (create_root and
\* the *_dir and *_root constructors, each inserted by a statement of its own, and
\* create_normal_file, which takes any parent_id the foreign key lets through).
THEOREM Forest == Spec => []Tree
<1>1. DiskInv => Tree
  <2> SUFFICES ASSUME DiskInv, NEW i \in Stored
               PROVE  IF i.is = "root" THEN disk[i].parent = None
                      ELSE /\ disk[i].parent \in Stored
                           /\ i.is # "file" \/ Unplaced(ask[i.of]) =>
                                /\ disk[disk[i].parent].dir
                                /\ disk[disk[i].parent].owner = disk[i].owner
    BY DEF Tree
  <2>1. i \in Ids /\ Shape(i, disk[i]) /\ Placed(i, disk[i])
    BY DEF DiskInv, RowsFit, Stored
  <2>2. CASE i.is # "file"
    BY <2>1, <2>2 DEF Shape, Placed, Dir
  <2>3. CASE i.is = "file"
    <3>1. PICK r \in Uploads : i = FileId(r) /\ i.of = r
      BY <2>1, <2>3, IdParts DEF FileId
    <3>2. /\ At(r, "done") /\ disk[i].parent = Home(ask[r]) /\ disk[i].owner = ask[r].user
          /\ ask[r] \in Asks /\ Askable(ask[r]) /\ Admitted(ask[r])
      BY <3>1 DEF DiskInv, Known, At
    <3>3. disk[i].parent \in Stored
      BY <2>1, <2>3 DEF Placed
    <3>4. Unplaced(ask[r]) =>
            disk[disk[i].parent].dir /\ disk[disk[i].parent].owner = disk[i].owner
      BY <3>2, <3>3, HomeRow DEF DiskInv
    <3> QED
      BY <2>3, <3>1, <3>3, <3>4
  <2> QED
    BY <2>2, <2>3
<1> QED
  BY <1>1, InductiveInvariant, PTL

\* What belongs to an instance lies below its directory, although the directory of
\* a node may be taken for it, and every file is in the directory its upload names
\* (get_flow_instance_dir_id, create_file).
THEOREM Located == Spec => []InPlace
<1>1. DiskInv => FlowsApart
  <2> SUFFICES ASSUME DiskInv, NEW i \in Stored, disk[i].flow # None
               PROVE  \/ /\ i = DirId("flow", disk[i].flow)
                         /\ disk[i].parent = TopId("flow", Owner[disk[i].flow])
                      \/ /\ disk[i].parent \in Stored
                         /\ disk[disk[i].parent].flow = disk[i].flow
    BY DEF FlowsApart
  <2>1. i \in Ids /\ Shape(i, disk[i]) /\ Placed(i, disk[i])
    BY DEF DiskInv, RowsFit, Stored
  <2>2. i.is \in {"flow", "node", "file"}
    BY <2>1, IdParts DEF Shape, Dir
  <2>3. CASE i.is = "flow"
    <3>1. i.of = disk[i].flow /\ disk[i].parent = TopId("flow", Owner[i.of])
      BY <2>1, <2>3 DEF Shape, Dir
    <3> QED
      BY <2>1, <2>3, <3>1, IdParts DEF DirId
  <2>4. CASE i.is \in {"node", "file"}
    BY <2>1, <2>4 DEF Placed
  <2> QED
    BY <2>2, <2>3, <2>4
<1>2. DiskInv => FilesInTheirDir
  BY DEF DiskInv, Known, FilesInTheirDir
<1>3. DiskInv => InPlace
  BY <1>1, <1>2 DEF InPlace
<1> QED
  BY <1>3, InductiveInvariant, PTL

\* A name that was there when fix_file_name looked is never given again: equal
\* names are those of uploads that overlap.
THEOREM NamesDiffer == Spec => []NamesApart
<1>1. DiskInv => NamesApart
  <2> SUFFICES ASSUME DiskInv, NEW r \in Uploads, NEW q \in Uploads,
                      r # q, At(r, "done"), At(q, "done"),
                      disk[FileId(r)].parent = disk[FileId(q)].parent,
                      disk[FileId(r)].owner = disk[FileId(q)].owner,
                      disk[FileId(r)].name = disk[FileId(q)].name
               PROVE  q \notin before[r] /\ r \notin before[q]
    BY DEF NamesApart
  <2>1. Apart(r) /\ Apart(q)
    BY DEF DiskInv
  <2> QED
    BY <2>1 DEF Apart, Equal
<1> QED
  BY <1>1, InductiveInvariant, PTL

\* The primary key refuses an upload of a user at most once (create_root inserts
\* without ON CONFLICT).
THEOREM RefusedAtMostOnce == Spec => []RefusedOnce
<1>1. DiskInv => RefusedOnce
  BY DEF DiskInv, RefusalKnown, RefusedOnce
<1> QED
  BY <1>1, InductiveInvariant, PTL

=============================================================================
