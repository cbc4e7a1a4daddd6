-------------------------- MODULE PlanUsageProofs ---------------------------
(***************************************************************************)
(* Documents and slots of a workspace, proved for any number of projects,  *)
(* tasks and requests. First the types. Then the slot counter, which is    *)
(* exact: a commit may land between the snapshot of a callback and its own *)
(* commit, so the invariant (SlotsInv) says of every running transaction   *)
(* that its writes are still right for the documents as they are now       *)
(* (StillRight). The heart of the proof is StillRightKept: writes of two   *)
(* transactions that share no document do not disturb each other.          *)
(***************************************************************************)
EXTENDS PlanUsage, FiniteSetTheorems, TLAPS

-----------------------------------------------------------------------------
(* A whole set of documents of the right types.                            *)
DbOK(d) == DOMAIN d = Docs /\ \A x \in Docs : DocOK(x, d[x])

(* Writes taken from a typed image are typed.                              *)
LEMMA WritesTyped ==
  ASSUME NEW image, NEW docs, DbOK(image), docs \subseteq Docs
  PROVE  WritesOK(Writes(image, docs))
  BY DEF WritesOK, Writes, DbOK

(* Projects, tasks and the organization are different documents.           *)
LEMMA Disjoint ==
  /\ \A p \in Projects : p \notin Tasks /\ p # Org
  /\ \A t \in Tasks : t \notin Projects /\ t # Org
  /\ \A t \in Tasks : ProjectOf[t] \in Projects
  /\ Org \notin Projects /\ Org \notin Tasks
  BY UsageAssumption

(* Changing a project's life or archive keeps the types.                   *)
LEMMA ProjectImage ==
  ASSUME NEW d, DbOK(d), NEW p \in Projects, NEW v \in Lives, NEW a \in Archive
  PROVE  /\ DbOK([d EXCEPT ![p].life = v])
         /\ DbOK([d EXCEPT ![p].arch = a])
  BY Disjoint DEF DbOK, DocOK, Docs, ProjectDocs

(* Changing a task's life, archive or status keeps the types.              *)
LEMMA TaskImage ==
  ASSUME NEW d, DbOK(d), NEW t \in Tasks, NEW v \in Lives, NEW a \in Archive,
         NEW s \in {"open", "done"}
  PROVE  /\ DbOK([d EXCEPT ![t].life = v])
         /\ DbOK([d EXCEPT ![t].arch = a])
         /\ DbOK([d EXCEPT ![t].status = s])
  BY Disjoint DEF DbOK, DocOK, Docs, TaskDocs

(* Creating a project or a task keeps the types.                           *)
LEMMA NewImage ==
  ASSUME NEW d, DbOK(d)
  PROVE  /\ \A p \in Projects : DbOK([d EXCEPT ![p] = NewProject])
         /\ \A t \in Tasks : DbOK([d EXCEPT ![t] = NewTask])
  BY Disjoint DEF DbOK, DocOK, Docs, ProjectDocs, TaskDocs, NewProject, NewTask,
                  Lives, Archive

(* Changing the slot counter keeps the types.                              *)
LEMMA OrgImage ==
  ASSUME NEW d, DbOK(d), NEW n \in Int
  PROVE  DbOK(Count(d, n))
  BY Disjoint DEF DbOK, DocOK, Docs, OrgDocs, Count

(* What syncProjectSlot leaves to write is typed.                          *)
LEMMA SlotWritesTyped ==
  ASSUME NEW p \in Projects, NEW image, DbOK(image),
         NEW docs \in SUBSET Docs
  PROVE  \A w \in SlotWrites(p, image, docs) : WritesOK(w)
  <1> DEFINE locked == docs \cup Lock(p)
  <1>1. locked \subseteq Docs /\ locked \cup {Org} \subseteq Docs
    BY DEF Lock, Docs
  <1>2. DbOK(Count(image, 1)) /\ DbOK(Count(image, -1))
    BY OrgImage
  <1>3. WritesOK(Writes(image, locked))
    BY <1>1, WritesTyped
  <1>4. WritesOK(Writes(Count(image, 1), locked \cup {Org}))
    BY <1>1, <1>2, WritesTyped
  <1>5. WritesOK(Writes(Count(image, -1), locked \cup {Org}))
    BY <1>1, <1>2, WritesTyped
  <1> QED
    BY <1>3, <1>4, <1>5 DEF SlotWrites

(* Running a callback with typed outcomes keeps the types.                 *)
LEMMA BeginTyped ==
  ASSUME TypeOK, NEW r \in Requests, NEW op, NEW chk, NEW outcomes,
         NEW open \in Int, chk = Idle \/ CheckedOK(chk),
         \A w \in outcomes : WritesOK(w),
         Begin(r, op, chk, outcomes, open)
  PROVE  TypeOK'
  <1>1. PICK w \in outcomes : req' = [req EXCEPT ![r] = Running(op, chk, w, open)]
    BY DEF Begin
  <1>2. db[Org].plan \in Plans
    BY DEF TypeOK, Docs, DocOK, OrgDocs
  <1>3. RequestOK(Running(op, chk, w, open))
    BY <1>2 DEF RequestOK, Running
  <1>4. \A q \in Requests : RequestOK(req'[q])
    BY <1>1, <1>3 DEF TypeOK
  <1> QED
    BY <1>1, <1>4 DEF TypeOK, Begin

(* The same for a request that opens its transaction at once.              *)
LEMMA BeginNewTyped ==
  ASSUME TypeOK, NEW r \in Requests, NEW op, NEW outcomes,
         \A w \in outcomes : WritesOK(w), BeginNew(r, op, outcomes)
  PROVE  TypeOK'
  BY BeginTyped DEF BeginNew, NoRoomCheck

(* The same for a request that has read its document.                      *)
LEMMA ResumeTyped ==
  ASSUME TypeOK, NEW r \in Requests, NEW outcomes, NEW open \in Int,
         req[r].st = "checked",
         \A w \in outcomes : WritesOK(w), Resume(r, outcomes, open)
  PROVE  TypeOK'
  <1>1. CheckedOK(req[r])
    BY DEF TypeOK, RequestOK, Idle
  <1> QED
    BY <1>1, BeginTyped DEF Resume

(* The same with a single outcome.                                         *)
LEMMA ResumeOneTyped ==
  ASSUME TypeOK, NEW r \in Requests, NEW w, NEW open \in Int,
         req[r].st = "checked", WritesOK(w), Resume(r, {w}, open)
  PROVE  TypeOK'
  BY ResumeTyped

(* A read before the transaction keeps the types.                          *)
LEMMA CheckTyped ==
  ASSUME TypeOK, NEW r \in Requests, NEW op, NEW doc, NEW counts \in BOOLEAN,
         doc \in IF op = "purgeExpiredProjects" THEN Projects ELSE Tasks,
         Check(r, op, doc, counts)
  PROVE  TypeOK'
  <1>1. RequestOK(Checked(op, doc, counts))
    BY DEF RequestOK, CheckedOK, Checked, Check
  <1>2. \A q \in Requests : RequestOK(req'[q])
    BY <1>1 DEF TypeOK, Check
  <1> QED
    BY <1>2 DEF TypeOK, Check

(* Installing typed writes leaves typed documents, and only binned ones    *)
(* aged.                                                                   *)
LEMMA InstallTyped ==
  ASSUME TypeOK, NEW w, WritesOK(w), Install(w)
  PROVE  /\ DbOK(db')
         /\ aged' \subseteq {x \in Projects \cup Tasks : db'[x].life = "bin"}
  BY DEF TypeOK, WritesOK, Install, Apply, DbOK

(* A request keeps its type when another one commits.                      *)
LEMMA AfterCommitTyped ==
  ASSUME NEW q, RequestOK(q), NEW w, WritesOK(w)
  PROVE  RequestOK(AfterCommit(q, w))
  <1>1. CASE q.st # "running"
    BY <1>1 DEF AfterCommit
  <1>2. CASE q.st = "running" /\ DOMAIN q.writes \cap DOMAIN w # {}
    BY <1>2 DEF AfterCommit, RequestOK, Idle, CheckedOK
  <1>3. CASE /\ q.st = "running"
             /\ DOMAIN q.writes \cap DOMAIN w = {}
             /\ q.open # NoRoomCheck /\ Org \in DOMAIN w
    <2> DEFINE q2 == [q EXCEPT !.plans = @ \cup {w[Org].plan}]
    <2>1. AfterCommit(q, w) = q2
      BY <1>3 DEF AfterCommit
    <2>2. w[Org].plan \in Plans
      BY <1>3 DEF WritesOK, DocOK, OrgDocs
    <2>3. q.st # "checked" /\ q # Idle
      BY <1>3 DEF Idle
    <2>4. /\ q2.st = q.st /\ q2.chk = q.chk /\ q2.writes = q.writes
          /\ q2.open = q.open /\ q2.plans = q.plans \cup {w[Org].plan}
          /\ DOMAIN q2 = DOMAIN q
      BY <2>3 DEF RequestOK, CheckedOK
    <2> QED
      BY <2>1, <2>2, <2>3, <2>4 DEF RequestOK, CheckedOK
  <1>4. CASE /\ q.st = "running"
             /\ DOMAIN q.writes \cap DOMAIN w = {}
             /\ ~(q.open # NoRoomCheck /\ Org \in DOMAIN w)
    BY <1>4 DEF AfterCommit
  <1> QED
    BY <1>1, <1>2, <1>3, <1>4

(* The open tasks of a project can be counted.                             *)
LEMMA OpenCountType ==
  ASSUME NEW d, NEW p
  PROVE  OpenCount(d, p) \in Nat
  BY UsageAssumption, FS_Subset, FS_CardinalityType
     DEF OpenCount, OpenTasks, TasksOf

(* The part of TypeOK about documents.                                     *)
LEMMA TypedDb == TypeOK => DbOK(db)
  BY DEF TypeOK, DbOK

(* What is known of a request that has read a task.                        *)
LEMMA CheckedTask ==
  ASSUME TypeOK, NEW r \in Requests, NEW op, op # "purgeExpiredProjects",
         AtBegin(r, op)
  PROVE  /\ req[r].doc \in Tasks
         /\ ProjectOf[req[r].doc] \in Projects
         /\ req[r].doc \in Docs /\ ProjectOf[req[r].doc] \in Docs
         /\ req[r].st = "checked"
         /\ req[r].counts \in BOOLEAN
  BY Disjoint DEF AtBegin, TypeOK, RequestOK, CheckedOK, Idle, Docs

(* The writes of destroyProject are typed.                                 *)
LEMMA DestroyedTyped ==
  ASSUME TypeOK, NEW p \in Projects
  PROVE  WritesOK(Destroyed(p))
  <1> DEFINE docs == {y \in {p} \cup TasksOf(p) : Stored(db, y)}
  <1>1. docs \subseteq Projects \cup Tasks
    BY DEF TasksOf
  <1>2. \A x \in docs : DocOK(x, [db[x] EXCEPT !.life = "gone"])
    BY <1>1, Disjoint DEF TypeOK, DocOK, Docs, ProjectDocs, TaskDocs, Lives
  <1> QED
    BY <1>1, <1>2 DEF Destroyed, WritesOK, Docs

(* The writes of destroyTask are typed.                                    *)
LEMMA DestroyedTaskTyped ==
  ASSUME TypeOK, NEW t \in Tasks
  PROVE  WritesOK(DestroyedTask(t))
  <1>1. DocOK(t, [db[t] EXCEPT !.life = "gone"])
    BY Disjoint DEF TypeOK, DocOK, Docs, TaskDocs, Lives
  <1> QED
    BY <1>1 DEF DestroyedTask, WritesOK, Docs

(* Every request about a project keeps the types.                          *)
LEMMA ProjectRequestTyped ==
  ASSUME TypeOK, NEW r \in Requests, NEW p \in Projects, ProjectRequest(r, p)
  PROVE  TypeOK'
  <1> USE TypedDb DEF Lives, Archive
  <1>0. p \in Docs /\ Org \in Docs /\ {p} \in SUBSET Docs
    BY DEF Docs
  <1>1. CASE CreateProject(r, p)
    <2>0. DbOK([db EXCEPT ![p] = NewProject])
      BY NewImage
    <2>1. DbOK(Count([db EXCEPT ![p] = NewProject], 1))
      BY <2>0, OrgImage
    <2>2. WritesOK(Writes(Count([db EXCEPT ![p] = NewProject], 1), {p, Org}))
      BY <2>1, <1>0, WritesTyped
    <2> QED
      BY <1>1, <2>2, BeginNewTyped DEF CreateProject
  <1>2. CASE ArchiveProject(r, p)
    <2>1. DbOK([db EXCEPT ![p].arch = "manual"])
      BY ProjectImage
    <2> QED
      BY <1>0, <1>2, <2>1, SlotWritesTyped, BeginNewTyped DEF ArchiveProject
  <1>3. CASE UnarchiveProject(r, p)
    <2>1. DbOK([db EXCEPT ![p].arch = "no"])
      BY ProjectImage
    <2> QED
      BY <1>0, <1>3, <2>1, SlotWritesTyped, BeginNewTyped DEF UnarchiveProject
  <1>4. CASE MoveProjectToBin(r, p)
    <2>1. DbOK([db EXCEPT ![p].life = "bin"])
      BY ProjectImage
    <2> QED
      BY <1>0, <1>4, <2>1, SlotWritesTyped, BeginNewTyped DEF MoveProjectToBin
  <1>5. CASE RestoreProject(r, p)
    <2>1. DbOK([db EXCEPT ![p].life = "live"])
      BY ProjectImage
    <2> QED
      BY <1>0, <1>5, <2>1, SlotWritesTyped, BeginNewTyped DEF RestoreProject
  <1>6. CASE DeleteProjectPermanently(r, p)
    BY <1>6, DestroyedTyped, BeginNewTyped DEF DeleteProjectPermanently
  <1>7. CASE FindExpiredProject(r, p)
    BY <1>7, CheckTyped DEF FindExpiredProject
  <1>8. CASE KeepProjectArchived(r, p)
    <2> DEFINE docs == {p} \cup {t \in LiveTasks(db, p) : db[t].arch = "plan"}
    <2>1. docs \subseteq Projects \cup Tasks
      BY DEF LiveTasks, TasksOf
    <2>2. \A x \in docs : DocOK(x, [db[x] EXCEPT !.arch = "manual"])
      BY <2>1, Disjoint DEF DbOK, DocOK, Docs, ProjectDocs, TaskDocs
    <2>3. WritesOK([x \in docs |-> [db[x] EXCEPT !.arch = "manual"]])
      BY <2>1, <2>2 DEF WritesOK, Docs
    <2> QED
      BY <1>8, <2>3, BeginNewTyped DEF KeepProjectArchived
  <1> QED
    BY <1>1, <1>2, <1>3, <1>4, <1>5, <1>6, <1>7, <1>8 DEF ProjectRequest

(* Every first step of a request about a task keeps the types.             *)
LEMMA TaskRequestTyped ==
  ASSUME TypeOK, NEW r \in Requests, NEW t \in Tasks, TaskRequest(r, t)
  PROVE  TypeOK'
  <1>1. CASE CheckCreateTask(r, t)
    BY <1>1, CheckTyped DEF CheckCreateTask
  <1>2. CASE \E op \in DOMAIN StatusBefore : CheckUpdateTask(r, t, op)
    <2>1. PICK op \in DOMAIN StatusBefore : CheckUpdateTask(r, t, op)
      BY <1>2
    <2>2. op # "purgeExpiredProjects"
      BY <2>1 DEF StatusBefore
    <2> QED
      BY <2>1, <2>2, CheckTyped DEF CheckUpdateTask
  <1>3. CASE CheckArchiveTask(r, t)
    BY <1>3, CheckTyped DEF CheckArchiveTask
  <1>4. CASE CheckUnarchiveTask(r, t)
    BY <1>4, CheckTyped DEF CheckUnarchiveTask
  <1>5. CASE CheckMoveTaskToBin(r, t)
    BY <1>5, CheckTyped DEF CheckMoveTaskToBin
  <1>6. CASE CheckRestoreTask(r, t)
    BY <1>6, CheckTyped DEF CheckRestoreTask
  <1>7. CASE DeleteTaskPermanently(r, t)
    BY <1>7, DestroyedTaskTyped, BeginNewTyped DEF DeleteTaskPermanently
  <1>8. CASE FindExpiredTask(r, t)
    BY <1>8, CheckTyped DEF FindExpiredTask
  <1>9. CASE KeepTaskArchived(r, t)
    <2>1. DbOK([db EXCEPT ![t].arch = "manual"])
      BY TypedDb, TaskImage DEF Archive, Lives
    <2>2. WritesOK(Writes([db EXCEPT ![t].arch = "manual"], {t}))
      BY <2>1, WritesTyped DEF Docs
    <2> QED
      BY <1>9, <2>2, BeginNewTyped DEF KeepTaskArchived
  <1> QED
    BY <1>1, <1>2, <1>3, <1>4, <1>5, <1>6, <1>7, <1>8, <1>9 DEF TaskRequest

(* Every callback keeps the types.                                         *)
LEMMA CallbackTyped ==
  ASSUME TypeOK, NEW r \in Requests, Callback(r)
  PROVE  TypeOK'
  <1> DEFINE t == req[r].doc
             p == ProjectOf[t]
  <1> USE TypedDb, CheckedTask, OpenCountType DEF Lives, Archive, NoRoomCheck
  <1>1. CASE CreateTask(r)
    <2>1. DbOK([db EXCEPT ![t] = NewTask])
      BY <1>1, NewImage DEF CreateTask
    <2>2. \A w \in SlotWrites(p, [db EXCEPT ![t] = NewTask], {t}) : WritesOK(w)
      BY <1>1, <2>1, SlotWritesTyped DEF CreateTask
    <2>3. Resume(r, SlotWrites(p, [db EXCEPT ![t] = NewTask], {t}), OpenCount(db, p))
      BY <1>1 DEF CreateTask
    <2>4. req[r].st = "checked"
      BY <1>1 DEF CreateTask
    <2> QED
      BY <2>2, <2>3, <2>4, ResumeTyped
  <1>2. CASE \E op \in DOMAIN StatusBefore : UpdateTask(r, op)
    <2>1. PICK op \in DOMAIN StatusBefore : UpdateTask(r, op)
      BY <1>2
    <2>2. op # "purgeExpiredProjects" /\ StatusAfter[op] \in {"open", "done"}
      BY <2>1 DEF StatusBefore, StatusAfter
    <2>3. t \in Tasks /\ p \in Projects /\ t \in Docs /\ req[r].st = "checked"
      BY <2>1, <2>2 DEF UpdateTask
    <2>4. DbOK([db EXCEPT ![t].status = StatusAfter[op]])
      BY <2>2, <2>3, TaskImage
    <2>5. \A w \in SlotWrites(p, [db EXCEPT ![t].status = StatusAfter[op]], {t}) :
            WritesOK(w)
      BY <2>3, <2>4, SlotWritesTyped
    <2>6. (IF op = "reopenTask" THEN OpenCount(db, p) ELSE NoRoomCheck) \in Int
      OBVIOUS
    <2> QED
      BY <2>1, <2>3, <2>5, <2>6, ResumeTyped DEF UpdateTask
  <1>3. CASE ArchiveTask(r)
    <2>1. DbOK([db EXCEPT ![t].arch = "manual"])
      BY <1>3, TaskImage DEF ArchiveTask
    <2>2. WritesOK(Writes([db EXCEPT ![t].arch = "manual"], {t}))
      BY <1>3, <2>1, WritesTyped DEF ArchiveTask
    <2>3. Resume(r, {Writes([db EXCEPT ![t].arch = "manual"], {t})}, NoRoomCheck)
      BY <1>3 DEF ArchiveTask
    <2>4. req[r].st = "checked" /\ NoRoomCheck \in Int
      BY <1>3 DEF ArchiveTask
    <2> QED
      BY <2>2, <2>3, <2>4, ResumeOneTyped
  <1>4. CASE UnarchiveTask(r)
    <2> DEFINE docs == IF req[r].counts THEN {t} \cup Lock(p) ELSE {t}
    <2>1. DbOK([db EXCEPT ![t].arch = "no"])
      BY <1>4, TaskImage DEF UnarchiveTask
    <2>2. docs \subseteq Docs
      BY <1>4 DEF UnarchiveTask, Lock
    <2>3. WritesOK(Writes([db EXCEPT ![t].arch = "no"], docs))
      BY <2>1, <2>2, WritesTyped
    <2>4. (IF req[r].counts THEN OpenCount(db, p) ELSE NoRoomCheck) \in Int
      OBVIOUS
    <2>5. Resume(r, {Writes([db EXCEPT ![t].arch = "no"], docs)},
                 IF req[r].counts THEN OpenCount(db, p) ELSE NoRoomCheck)
      BY <1>4 DEF UnarchiveTask
    <2>6. req[r].st = "checked"
      BY <1>4 DEF UnarchiveTask
    <2> QED
      BY <2>3, <2>4, <2>5, <2>6, ResumeOneTyped
  <1>5. CASE MoveTaskToBin(r)
    <2>1. DbOK([db EXCEPT ![t].life = "bin"])
      BY <1>5, TaskImage DEF MoveTaskToBin
    <2>2. \A w \in SlotWrites(p, [db EXCEPT ![t].life = "bin"], {t}) : WritesOK(w)
      BY <1>5, <2>1, SlotWritesTyped DEF MoveTaskToBin
    <2>3. Resume(r, SlotWrites(p, [db EXCEPT ![t].life = "bin"], {t}), NoRoomCheck)
      BY <1>5 DEF MoveTaskToBin
    <2>4. req[r].st = "checked"
      BY <1>5 DEF MoveTaskToBin
    <2> QED
      BY <2>2, <2>3, <2>4, ResumeTyped
  <1>6. CASE RestoreTask(r)
    <2>1. DbOK([db EXCEPT ![t].life = "live"])
      BY <1>6, TaskImage DEF RestoreTask
    <2>2. \A w \in SlotWrites(p, [db EXCEPT ![t].life = "live"], {t}) : WritesOK(w)
      BY <1>6, <2>1, SlotWritesTyped DEF RestoreTask
    <2>3. (IF req[r].counts THEN OpenCount(db, p) ELSE NoRoomCheck) \in Int
      OBVIOUS
    <2>4. Resume(r, SlotWrites(p, [db EXCEPT ![t].life = "live"], {t}),
                 IF req[r].counts THEN OpenCount(db, p) ELSE NoRoomCheck)
      BY <1>6 DEF RestoreTask
    <2>5. req[r].st = "checked"
      BY <1>6 DEF RestoreTask
    <2> QED
      BY <2>2, <2>3, <2>4, <2>5, ResumeTyped
  <1>7. CASE PurgeProject(r)
    <2>1. t \in Projects /\ req[r].st = "checked"
      BY <1>7 DEF PurgeProject, AtBegin, TypeOK, RequestOK, CheckedOK, Idle
    <2> QED
      BY <1>7, <2>1, DestroyedTyped, ResumeTyped DEF PurgeProject
  <1>8. CASE PurgeTask(r)
    BY <1>8, DestroyedTaskTyped, ResumeTyped DEF PurgeTask
  <1> QED
    BY <1>1, <1>2, <1>3, <1>4, <1>5, <1>6, <1>7, <1>8 DEF Callback

(* Archiving documents keeps the types.                                    *)
LEMMA ArchivedTyped ==
  ASSUME TypeOK, NEW docs \in SUBSET (Projects \cup Tasks)
  PROVE  DbOK(Archived(db, docs))
  BY Disjoint DEF TypeOK, DbOK, DocOK, Archived, Docs, ProjectDocs, TaskDocs,
                  Archive

(* The projects that take a slot can be counted.                           *)
LEMMA ConsumingCard ==
  ASSUME NEW d
  PROVE  /\ IsFiniteSet(Consuming(d))
         /\ Cardinality(Consuming(d)) \in Nat
  BY UsageAssumption, FS_Subset, FS_CardinalityType DEF Consuming

(* The writes of archiveExcessForFree are typed.                           *)
LEMMA RecountedTyped ==
  ASSUME TypeOK, NEW S \in SUBSET Projects, NEW T \in SUBSET Tasks
  PROVE  WritesOK(Recounted(S, T))
  <1> DEFINE d == Archived(db, S \cup T)
             n == Cardinality(Consuming(d))
  <1>1. DbOK(d)
    BY ArchivedTyped
  <1>2. n \in Int
    BY ConsumingCard
  <1>3. DbOK([d EXCEPT ![Org].projectCount = n])
    <2> HIDE DEF d, n
    <2> QED BY <1>1, <1>2, Disjoint DEF DbOK, DocOK, Docs, OrgDocs
  <1>4. S \cup T \cup {Org} \subseteq Docs
    BY DEF Docs
  <1> QED
    BY <1>3, <1>4, WritesTyped DEF Recounted

(* The writes of restorePlanArchivedProjects are typed.                    *)
LEMMA RestoredTyped ==
  ASSUME TypeOK, NEW docs \in SUBSET (Projects \cup Tasks)
  PROVE  WritesOK(Restored(docs))
  <1> DEFINE d == [x \in Docs |->
                     IF x \in docs THEN [db[x] EXCEPT !.arch = "no"] ELSE db[x]]
             n == Cardinality(Consuming(d)) - Cardinality(Consuming(db))
  <1>1. DbOK(d)
    BY Disjoint DEF TypeOK, DbOK, DocOK, Docs, ProjectDocs, TaskDocs, Archive
  <1>2. n \in Int
    BY ConsumingCard
  <1>3. DbOK(Count(d, n))
    BY <1>1, <1>2, OrgImage
  <1>4. docs \cup {x \in {Org} : n > 0} \subseteq Docs
    BY DEF Docs
  <1> QED
    BY <1>3, <1>4, WritesTyped DEF Restored

(* Every request about the plan keeps the types.                           *)
LEMMA PlanRequestTyped ==
  ASSUME TypeOK, NEW r \in Requests, PlanRequest(r)
  PROVE  TypeOK'
  <1>1. CASE \E plan \in Plans : ChangePlan(r, plan)
    <2>1. PICK plan \in Plans : ChangePlan(r, plan)
      BY <1>1
    <2>2. DbOK([db EXCEPT ![Org].plan = plan])
      BY TypedDb, Disjoint DEF DbOK, DocOK, Docs, OrgDocs
    <2>3. WritesOK(Writes([db EXCEPT ![Org].plan = plan], {Org}))
      BY <2>2, WritesTyped DEF Docs
    <2> QED
      BY <2>1, <2>3, BeginNewTyped DEF ChangePlan
  <1>2. CASE ArchiveExcessForFree(r)
    <2> DEFINE Extra(keep) == Consuming(db) \ keep
               outcomes ==
                 UNION {{Recounted(Extra(keep), T) :
                           T \in Trims(Archived(db, Extra(keep)), TaskLimit[Free])} :
                        keep \in AsMany(ProjectLimit[Free], Consuming(db))}
    <2>1. ASSUME NEW w \in outcomes PROVE WritesOK(w)
      <3>1. PICK keep : w \in {Recounted(Extra(keep), T) :
                T \in Trims(Archived(db, Extra(keep)), TaskLimit[Free])}
        OBVIOUS
      <3>2. PICK T \in Trims(Archived(db, Extra(keep)), TaskLimit[Free]) :
              w = Recounted(Extra(keep), T)
        BY <3>1
      <3>3. T \in SUBSET Tasks /\ Extra(keep) \in SUBSET Projects
        BY DEF Trims, Consuming
      <3> QED
        BY <3>2, <3>3, RecountedTyped
    <2>2. BeginNew(r, "archiveExcess", outcomes)
      BY <1>2 DEF ArchiveExcessForFree
    <2> HIDE DEF outcomes
    <2> QED
      BY <2>1, <2>2, BeginNewTyped
  <1>3. CASE RestorePlanArchived(r)
    <2>1. \A docs \in RestoreChoices : docs \in SUBSET (Projects \cup Tasks)
      BY DEF RestoreChoices, RestoreCandidates
    <2>2. \A w \in {Restored(docs) : docs \in RestoreChoices} : WritesOK(w)
      BY <2>1, RestoredTyped
    <2> QED
      BY <1>3, <2>2, BeginNewTyped DEF RestorePlanArchived
  <1> QED
    BY <1>1, <1>2, <1>3 DEF PlanRequest

(* A commit keeps the types.                                               *)
LEMMA CommitTyped ==
  ASSUME TypeOK, NEW r \in Requests, Commit(r)
  PROVE  TypeOK'
  <1> DEFINE w == req[r].writes
  <1>1. WritesOK(w)
    BY DEF Commit, IsRunning, TypeOK, RequestOK, Idle, CheckedOK
  <1>2. \A q \in Requests : RequestOK(req'[q])
    BY <1>1, AfterCommitTyped, ZenonT(60) DEF Commit, TypeOK, RequestOK
  <1>3. DbOK(db') /\ aged' \subseteq {x \in Projects \cup Tasks : db'[x].life = "bin"}
    BY <1>1, InstallTyped DEF Commit
  <1> QED
    BY <1>2, <1>3 DEF TypeOK, DbOK, Commit

(* The expiry of the plan keeps the types.                                 *)
LEMMA ExpirePlanTyped ==
  ASSUME TypeOK, ExpirePlan
  PROVE  TypeOK'
  <1> DEFINE w == Writes([db EXCEPT ![Org].plan = Free], {Org})
  <1>1. DbOK([db EXCEPT ![Org].plan = Free])
    BY TypedDb, Disjoint, UsageAssumption DEF DbOK, DocOK, Docs, OrgDocs
  <1>2. WritesOK(w)
    BY <1>1, WritesTyped DEF Docs
  <1>3. Install(w) /\ req' = [q \in Requests |-> AfterCommit(req[q], w)]
    BY DEF ExpirePlan
  <1> HIDE DEF w
  <1>4. \A q \in Requests : RequestOK(req'[q])
    BY <1>2, <1>3, AfterCommitTyped DEF TypeOK
  <1>5. DbOK(db') /\ aged' \subseteq {x \in Projects \cup Tasks : db'[x].life = "bin"}
    BY <1>2, <1>3, InstallTyped
  <1> QED
    BY <1>3, <1>4, <1>5 DEF TypeOK, DbOK

(* Every step of the workspace keeps the types.                            *)
LEMMA StepTyped == TypeOK /\ [Next]_vars => TypeOK'
  <1> SUFFICES ASSUME TypeOK, [Next]_vars PROVE TypeOK'
    OBVIOUS
  <1>1. ASSUME NEW r \in Requests, NEW p \in Projects, ProjectRequest(r, p)
        PROVE  TypeOK'
    BY <1>1, ProjectRequestTyped
  <1>2. ASSUME NEW r \in Requests, NEW t \in Tasks, TaskRequest(r, t)
        PROVE  TypeOK'
    BY <1>2, TaskRequestTyped
  <1>3. ASSUME NEW r \in Requests, Callback(r) PROVE TypeOK'
    BY <1>3, CallbackTyped
  <1>4. ASSUME NEW r \in Requests, PlanRequest(r) PROVE TypeOK'
    BY <1>4, PlanRequestTyped
  <1>5. ASSUME NEW r \in Requests, Commit(r) PROVE TypeOK'
    BY <1>5, CommitTyped
  <1>6. ASSUME NEW r \in Requests, Abort(r) PROVE TypeOK'
    BY <1>6 DEF Abort, TypeOK, RequestOK
  <1>7. CASE ExpirePlan
    BY <1>7, ExpirePlanTyped
  <1>8. ASSUME NEW x \in Projects \cup Tasks, Age(x) PROVE TypeOK'
    BY <1>8 DEF Age, TypeOK
  <1>9. CASE UNCHANGED vars
    BY <1>9 DEF vars, TypeOK
  <1> QED
    BY <1>1, <1>2, <1>3, <1>4, <1>5, <1>6, <1>7, <1>8, <1>9 DEF Next

(* The types hold at the start.                                            *)
LEMMA InitTyped == Init => TypeOK
  <1> SUFFICES ASSUME Init PROVE TypeOK
    OBVIOUS
  <1>1. \A x \in Docs : DocOK(x, db[x])
    BY Disjoint, UsageAssumption
       DEF Init, DocOK, Docs, ProjectDocs, TaskDocs, OrgDocs, Lives, Archive
  <1> QED
    BY <1>1 DEF Init, TypeOK, RequestOK

(* Types: the documents and requests of PlanUsage.                         *)
THEOREM TypeCorrect == Spec => []TypeOK
  BY InitTyped, StepTyped, PTL DEF Spec

-----------------------------------------------------------------------------
(* What a project's slot depends on.                                       *)

(* Consumes looks at the project's own state and at the view of its tasks. *)
LEMMA ConsumesView ==
  ASSUME NEW d, DbOK(d), NEW q \in Projects
  PROVE  Consumes(d, q) <=>
           /\ InUse(d, q)
           /\ \/ \A t \in TasksOf(q) : View(d[t]) = "none"
              \/ \E t \in TasksOf(q) : View(d[t]) = "open"
  <1>1. \A t \in TasksOf(q) : d[t].status \in {"open", "done"}
    BY DEF DbOK, DocOK, Docs, TaskDocs, TasksOf
  <1> QED
    BY <1>1 DEF Consumes, InUse, View

(* Two states of a project with the same use and task views take the same  *)
(* slot.                                                                   *)
LEMMA SameSlot ==
  ASSUME NEW d, DbOK(d), NEW e, DbOK(e), NEW q \in Projects,
         InUse(d, q) <=> InUse(e, q),
         \A t \in TasksOf(q) : View(d[t]) = View(e[t])
  PROVE  Consumes(d, q) <=> Consumes(e, q)
  BY ConsumesView

(* A project that is not in use takes no slot.                             *)
LEMMA NotInUse ==
  ASSUME NEW d, NEW q, ~InUse(d, q)
  PROVE  ~Consumes(d, q)
  BY DEF Consumes, InUse

(* The slots are the same if they are for each project.                    *)
LEMMA SameConsuming ==
  ASSUME NEW d, NEW e,
         \A q \in Projects : Consumes(d, q) <=> Consumes(e, q)
  PROVE  Consuming(d) = Consuming(e)
  BY DEF Consuming

(* And the other way round.                                                *)
LEMMA ConsumingMember ==
  ASSUME NEW d, NEW e, Consuming(d) = Consuming(e), NEW q \in Projects
  PROVE  Consumes(d, q) <=> Consumes(e, q)
  BY DEF Consuming

(* Typed writes leave typed documents.                                     *)
LEMMA ApplyTyped ==
  ASSUME NEW d, DbOK(d), NEW w, WritesOK(w)
  PROVE  DbOK(Apply(d, w))
  BY DEF DbOK, WritesOK, Apply

(* A task of a project, its project and the organization are different     *)
(* documents.                                                              *)
LEMMA TaskFacts ==
  ASSUME NEW q \in Projects, NEW t \in TasksOf(q)
  PROVE  t \in Tasks /\ ProjectOf[t] = q /\ t \in Docs /\ q \in Docs /\ t # Org
         /\ q # Org
  BY Disjoint DEF TasksOf, Docs

-----------------------------------------------------------------------------
(* Writes that are still right.                                            *)

(* The first half of StillRight: what the writes do to single documents.   *)
Shape(d, w) ==
  /\ \A x \in DOMAIN w \ {Org} : w[x].life # "none" /\ d[x].life # "gone"
  /\ \A t \in DOMAIN w \cap Tasks :
       /\ d[ProjectOf[t]].life # "none"
       /\ \/ ProjectOf[t] \in DOMAIN w
          \/ View(w[t]) = View(d[t])
          \/ d[ProjectOf[t]].life = "gone"

(* The second half: the slots they count.                                  *)
Counted(d, w) ==
  IF Org \in DOMAIN w
  THEN w[Org].projectCount = Cardinality(Consuming(Apply(d, w)))
  ELSE Consuming(Apply(d, w)) = Consuming(d)

(* StillRight is the two halves.                                           *)
LEMMA StillRightParts ==
  ASSUME NEW d, NEW w
  PROVE  StillRight(d, w) <=> Shape(d, w) /\ Counted(d, w)
  BY DEF StillRight, Shape, Counted

(* A project that the writes leave alone keeps its slot, or its lack.      *)
LEMMA Untouched ==
  ASSUME NEW d, DbOK(d), NEW w, WritesOK(w), Shape(d, w),
         NEW q \in Projects, q \notin DOMAIN w
  PROVE  Consumes(Apply(d, w), q) <=> Consumes(d, q)
  <1> DEFINE e == Apply(d, w)
  <1>1. DbOK(e)
    BY ApplyTyped
  <1>2. e[q] = d[q]
    BY DEF Apply, Docs
  <1>3. InUse(e, q) <=> InUse(d, q)
    BY <1>2 DEF InUse
  <1>4. CASE d[q].life = "gone"
    BY <1>2, <1>4, NotInUse DEF InUse
  <1>5. CASE d[q].life # "gone"
    <2>1. ASSUME NEW t \in TasksOf(q) PROVE View(d[t]) = View(e[t])
      BY <1>5, TaskFacts DEF Apply, Shape
    <2>2. Consumes(e, q) <=> Consumes(d, q)
      <3> HIDE DEF e
      <3> QED BY <2>1, <1>1, <1>3, SameSlot
    <2> QED
      BY <2>2
  <1> QED
    BY <1>4, <1>5

(* The slot of a project that w writes is the same with and without the    *)
(* writes w2 of another transaction.                                       *)
LEMMA Touched ==
  ASSUME NEW d, DbOK(d), NEW w, WritesOK(w), NEW w2, WritesOK(w2),
         Shape(d, w), Shape(d, w2), DOMAIN w \cap DOMAIN w2 = {},
         NEW q \in Projects, q \in DOMAIN w
  PROVE  Consumes(Apply(Apply(d, w2), w), q) <=> Consumes(Apply(d, w), q)
  <1> DEFINE e == Apply(Apply(d, w2), w)
             f == Apply(d, w)
  <1>1. DbOK(e) /\ DbOK(f)
    BY ApplyTyped
  <1>2. q \notin DOMAIN w2 /\ d[q].life # "gone" /\ q # Org /\ q \in Docs
    BY Disjoint DEF Shape, Docs
  <1>3. e[q] = f[q]
    BY <1>2 DEF Apply
  <1>4. InUse(e, q) <=> InUse(f, q)
    BY <1>3 DEF InUse
  <1>5. ASSUME NEW t \in TasksOf(q) PROVE View(e[t]) = View(f[t])
    <2>1. CASE t \in DOMAIN w
      BY <2>1, TaskFacts DEF Apply
    <2>2. CASE t \notin DOMAIN w /\ t \notin DOMAIN w2
      BY <2>2, TaskFacts DEF Apply
    <2>3. CASE t \notin DOMAIN w /\ t \in DOMAIN w2
      <3>1. View(w2[t]) = View(d[t])
        BY <1>2, <2>3, TaskFacts DEF Shape
      <3>2. e[t] = w2[t] /\ f[t] = d[t]
        BY <2>3, TaskFacts DEF Apply
      <3> QED
        BY <3>1, <3>2
    <2> QED
      BY <2>1, <2>2, <2>3
  <1> HIDE DEF e, f
  <1>6. Consumes(e, q) <=> Consumes(f, q)
    BY <1>1, <1>4, <1>5, SameSlot
  <1> QED
    BY <1>6 DEF e, f

(* The first half is kept by a commit that shares no document.             *)
LEMMA ShapeKept ==
  ASSUME NEW d, DbOK(d), NEW w, WritesOK(w), NEW w2, WritesOK(w2),
         Shape(d, w), Shape(d, w2), DOMAIN w \cap DOMAIN w2 = {}
  PROVE  Shape(Apply(d, w2), w)
  <1> DEFINE e == Apply(d, w2)
  <1>1. ASSUME NEW x \in DOMAIN w \ {Org}
        PROVE  w[x].life # "none" /\ e[x].life # "gone"
    BY DEF Apply, Shape, WritesOK
  <1>2. ASSUME NEW t \in DOMAIN w \cap Tasks
        PROVE  /\ e[ProjectOf[t]].life # "none"
               /\ \/ ProjectOf[t] \in DOMAIN w
                  \/ View(w[t]) = View(e[t])
                  \/ e[ProjectOf[t]].life = "gone"
    <2>1. ProjectOf[t] \in Docs /\ ProjectOf[t] # Org /\ t \in Docs
      BY Disjoint DEF Docs
    <2>2. e[t] = d[t]
      BY <2>1 DEF Apply
    <2>3. CASE ProjectOf[t] \in DOMAIN w2
      <3>1. w2[ProjectOf[t]].life # "none" /\ d[ProjectOf[t]].life # "gone"
        BY <2>1, <2>3 DEF Shape
      <3>2. e[ProjectOf[t]] = w2[ProjectOf[t]]
        BY <2>1, <2>3 DEF Apply
      <3> QED
        BY <2>2, <3>1, <3>2 DEF Shape
    <2>4. CASE ProjectOf[t] \notin DOMAIN w2
      <3>1. e[ProjectOf[t]] = d[ProjectOf[t]]
        BY <2>1, <2>4 DEF Apply
      <3> QED
        BY <2>2, <3>1 DEF Shape
    <2> QED
      BY <2>3, <2>4
  <1> QED
    BY <1>1, <1>2 DEF Shape

(* Two transactions whose writes are both right and share no document: the *)
(* commit of one leaves the other right.                                   *)
LEMMA StillRightKept ==
  ASSUME NEW d, DbOK(d), NEW w, WritesOK(w), NEW w2, WritesOK(w2),
         StillRight(d, w), StillRight(d, w2), DOMAIN w \cap DOMAIN w2 = {}
  PROVE  StillRight(Apply(d, w2), w)
  <1> DEFINE e == Apply(d, w2)
  <1>1. Shape(d, w) /\ Counted(d, w) /\ Shape(d, w2) /\ Counted(d, w2)
    BY StillRightParts
  <1>2. DbOK(e) /\ Shape(e, w)
    BY <1>1, ShapeKept, ApplyTyped
  <1>3. \A q \in Projects : q \in DOMAIN w =>
          (Consumes(Apply(e, w), q) <=> Consumes(Apply(d, w), q))
    BY <1>1, Touched
  <1>4. \A q \in Projects : q \notin DOMAIN w =>
          /\ Consumes(Apply(e, w), q) <=> Consumes(e, q)
          /\ Consumes(Apply(d, w), q) <=> Consumes(d, q)
    <2> HIDE DEF e
    <2> QED
      BY <1>1, <1>2, Untouched
  <1>5. \A q \in Projects : q \notin DOMAIN w2 => (Consumes(e, q) <=> Consumes(d, q))
    BY <1>1, Untouched
  <1>6. CASE Org \in DOMAIN w
    <2>1. Org \notin DOMAIN w2
      BY <1>6
    <2>2. Consuming(e) = Consuming(d)
      BY <1>1, <2>1 DEF Counted
    <2>3. \A q \in Projects : Consumes(e, q) <=> Consumes(d, q)
      BY <2>2, ConsumingMember
    <2>4. \A q \in Projects : Consumes(Apply(e, w), q) <=> Consumes(Apply(d, w), q)
      <3> HIDE DEF e
      <3> QED BY <1>3, <1>4, <2>3
    <2>5. Consuming(Apply(e, w)) = Consuming(Apply(d, w))
      BY <2>4, SameConsuming
    <2>6. Counted(e, w)
      BY <1>1, <1>6, <2>5 DEF Counted
    <2> QED
      BY <1>2, <2>6, StillRightParts
  <1>7. CASE Org \notin DOMAIN w
    <2>1. Consuming(Apply(d, w)) = Consuming(d)
      BY <1>1, <1>7 DEF Counted
    <2>2. \A q \in Projects : Consumes(Apply(d, w), q) <=> Consumes(d, q)
      BY <2>1, ConsumingMember
    <2>3. \A q \in Projects : Consumes(Apply(e, w), q) <=> Consumes(e, q)
      <3>1. \A q \in Projects : q \in DOMAIN w => q \notin DOMAIN w2
        OBVIOUS
      <3> HIDE DEF e
      <3> QED BY <1>3, <1>4, <1>5, <2>2, <3>1
    <2>4. Consuming(Apply(e, w)) = Consuming(e)
      BY <2>3, SameConsuming
    <2>5. Counted(e, w)
      BY <1>7, <2>4 DEF Counted
    <2> QED
      BY <1>2, <2>5, StillRightParts
  <1> QED
    BY <1>6, <1>7

-----------------------------------------------------------------------------
(* Steps.                                                                  *)

(* What a request is based on: its check, before and while it runs.        *)
From(r) == IF IsRunning(r) THEN req[r].chk ELSE req[r]

FromOK(d, c) == c # Idle /\ c.doc \in Tasks => d[ProjectOf[c.doc]].life # "none"

TasksHaveProjects(d) ==
  \A t \in Tasks : d[t].life # "none" => d[ProjectOf[t]].life # "none"

(* SlotsInv with the parts of the proof for conjuncts.                     *)
LEMMA SlotsInvParts ==
  SlotsInv <=>
    /\ TypeOK
    /\ SlotsExact
    /\ TasksHaveProjects(db)
    /\ \A r \in Requests :
         /\ FromOK(db, From(r))
         /\ IsRunning(r) => StillRight(db, req[r].writes)
  BY DEF SlotsInv, TasksHaveProjects, FromOK, From

(* A project once created is there, or gone: no commit uncreates it.       *)
LEMMA CreatedStays ==
  ASSUME NEW d, NEW w, WritesOK(w), Shape(d, w),
         NEW p \in Projects, d[p].life # "none"
  PROVE  Apply(d, w)[p].life # "none"
  BY Disjoint DEF Apply, Shape, Docs

(* The writes of a running transaction are typed.                          *)
LEMMA WritesTypedOf ==
  ASSUME TypeOK, NEW r \in Requests, IsRunning(r)
  PROVE  WritesOK(req[r].writes)
  BY DEF IsRunning, TypeOK, RequestOK, Idle, CheckedOK

(* What a request is based on is nothing or a check.                       *)
LEMMA ChkFrom ==
  ASSUME TypeOK, NEW r \in Requests
  PROVE  From(r) = Idle \/ (CheckedOK(From(r)) /\ From(r).st # "running")
  BY DEF From, IsRunning, TypeOK, RequestOK, Idle, CheckedOK

(* The commit of writes that are right, of a request or of the expiry of   *)
(* the plan, when everybody else goes through AfterCommit.                 *)
LEMMA InstallSlots ==
  ASSUME SlotsInv, TypeOK', NEW w, WritesOK(w), StillRight(db, w), Install(w),
         \A q \in Requests : \/ req'[q] = Idle
                             \/ req'[q] = AfterCommit(req[q], w)
  PROVE  SlotsInv'
  <1>1. DbOK(db) /\ Shape(db, w) /\ Counted(db, w) /\ db' = Apply(db, w)
    BY TypedDb, StillRightParts DEF SlotsInv, Install
  <1>2. TasksHaveProjects(db')
    <2> SUFFICES ASSUME NEW t \in Tasks, db'[t].life # "none"
                 PROVE  db'[ProjectOf[t]].life # "none"
      BY DEF TasksHaveProjects
    <2>1. CASE t \in DOMAIN w
      <3>1. db[ProjectOf[t]].life # "none"
        BY <1>1, <2>1 DEF Shape
      <3> QED
        BY <1>1, <3>1, Disjoint, CreatedStays
    <2>2. CASE t \notin DOMAIN w
      <3>1. db[t].life # "none"
        BY <1>1, <2>2 DEF Apply, Docs
      <3>2. db[ProjectOf[t]].life # "none"
        BY <3>1 DEF SlotsInv
      <3> QED
        BY <1>1, <3>2, Disjoint, CreatedStays
    <2> QED
      BY <2>1, <2>2
  <1>3. SlotsExact'
    <2>1. CASE Org \in DOMAIN w
      BY <1>1, <2>1 DEF SlotsExact, Counted, Apply, Docs
    <2>2. CASE Org \notin DOMAIN w
      BY <1>1, <2>2 DEF SlotsExact, SlotsInv, Counted, Apply, Docs
    <2> QED
      BY <2>1, <2>2
  <1>4. ASSUME NEW c, FromOK(db, c)
        PROVE  FromOK(db', c)
    BY <1>1, <1>4, Disjoint, CreatedStays DEF FromOK
  <1>5. ASSUME NEW q \in Requests
        PROVE  /\ FromOK(db', From(q)')
               /\ IsRunning(q)' => StillRight(db', req'[q].writes)
    <2>0. FromOK(db, From(q)) /\ (IsRunning(q) => StillRight(db, req[q].writes))
      BY SlotsInvParts
    <2>1. CASE req'[q] = Idle
      <3>1. ~IsRunning(q)' /\ From(q)' = Idle
        BY <2>1 DEF IsRunning, From, Idle
      <3> QED
        BY <3>1 DEF FromOK
    <2>2. CASE req'[q] = AfterCommit(req[q], w) /\ ~IsRunning(q)
      <3>1. req'[q] = req[q]
        BY <2>2 DEF AfterCommit, IsRunning
      <3>2. ~IsRunning(q)' /\ From(q)' = From(q)
        BY <2>2, <3>1 DEF IsRunning, From
      <3> QED
        BY <2>0, <1>4, <3>2
    <2>3. CASE /\ req'[q] = AfterCommit(req[q], w) /\ IsRunning(q)
               /\ DOMAIN req[q].writes \cap DOMAIN w # {}
      <3>1. req'[q] = From(q)
        BY <2>3 DEF AfterCommit, IsRunning, From
      <3>2. From(q).st # "running"
        BY ChkFrom DEF SlotsInv, Idle
      <3>3. ~IsRunning(q)' /\ From(q)' = From(q)
        BY <3>1, <3>2 DEF IsRunning, From
      <3> QED
        BY <2>0, <1>4, <3>3
    <2>4. CASE /\ req'[q] = AfterCommit(req[q], w) /\ IsRunning(q)
               /\ DOMAIN req[q].writes \cap DOMAIN w = {}
      <3>1. /\ req'[q].st = "running"
            /\ req'[q].chk = req[q].chk
            /\ req'[q].writes = req[q].writes
        <4>1. RequestOK(req[q]) /\ req[q].st = "running"
          BY <2>4 DEF SlotsInv, TypeOK, IsRunning
        <4>2. DOMAIN req[q] = {"st", "op", "chk", "writes", "open", "plans"}
          BY <4>1 DEF RequestOK, Idle, CheckedOK
        <4> QED
          BY <2>4, <4>1, <4>2 DEF AfterCommit
      <3>2. IsRunning(q)' /\ From(q)' = From(q)
        BY <2>4, <3>1 DEF IsRunning, From
      <3>3. WritesOK(req[q].writes)
        BY <2>4, WritesTypedOf DEF SlotsInv
      <3>4. StillRight(db', req[q].writes)
        BY <1>1, <2>0, <2>4, <3>3, StillRightKept
      <3> QED
        BY <2>0, <1>4, <3>1, <3>2, <3>4
    <2> QED
      BY <2>1, <2>2, <2>3, <2>4
  <1> QED
    BY <1>2, <1>3, <1>5 DEF SlotsInv, TasksHaveProjects, FromOK, From

(* A callback that runs on the documents as they are and leaves right      *)
(* writes.                                                                 *)
LEMMA BeginSlots ==
  ASSUME SlotsInv, TypeOK', NEW r \in Requests, NEW op, NEW outcomes, NEW open,
         NEW chk, chk = Idle \/ (chk = req[r] /\ ~IsRunning(r)),
         \A w \in outcomes : StillRight(db, w),
         Begin(r, op, chk, outcomes, open)
  PROVE  SlotsInv'
  <1>1. PICK w \in outcomes : req' = [req EXCEPT ![r] = Running(op, chk, w, open)]
    BY DEF Begin
  <1>2. db' = db /\ DOMAIN req = Requests
    BY DEF Begin, SlotsInv, TypeOK
  <1>3. SlotsExact' /\ TasksHaveProjects(db')
    BY <1>2 DEF SlotsInv, SlotsExact, TasksHaveProjects
  <1>4. FromOK(db, chk)
    BY SlotsInvParts DEF FromOK, From
  <1>5. ASSUME NEW q \in Requests
        PROVE  /\ FromOK(db', From(q)')
               /\ IsRunning(q)' => StillRight(db', req'[q].writes)
    <2>1. CASE q = r
      <3>1. /\ req'[q].st = "running"
            /\ req'[q].chk = chk
            /\ req'[q].writes = w
        BY <1>1, <1>2, <2>1 DEF Running
      <3>2. IsRunning(q)' /\ From(q)' = chk
        BY <3>1 DEF IsRunning, From
      <3> QED
        BY <1>2, <1>4, <3>1, <3>2
    <2>2. CASE q # r
      <3>1. req'[q] = req[q]
        BY <1>1, <1>2, <2>2
      <3>2. From(q)' = From(q) /\ (IsRunning(q)' <=> IsRunning(q))
        BY <3>1 DEF From, IsRunning
      <3> QED
        BY <1>2, <3>1, <3>2, SlotsInvParts
    <2> QED
      BY <2>1, <2>2
  <1> QED
    BY <1>3, <1>5 DEF SlotsInv, TasksHaveProjects, FromOK, From

(* The same for a request that opens its transaction at once.              *)
LEMMA BeginNewSlots ==
  ASSUME SlotsInv, TypeOK', NEW r \in Requests, NEW op, NEW outcomes,
         \A w \in outcomes : StillRight(db, w),
         BeginNew(r, op, outcomes)
  PROVE  SlotsInv'
  BY BeginSlots DEF BeginNew

(* The same for a request that has read its document.                      *)
LEMMA ResumeSlots ==
  ASSUME SlotsInv, TypeOK', NEW r \in Requests, NEW outcomes, NEW open,
         req[r].st = "checked",
         \A w \in outcomes : StillRight(db, w),
         Resume(r, outcomes, open)
  PROVE  SlotsInv'
  BY BeginSlots DEF Resume, IsRunning

(* A check about a task that has a project.                                *)
LEMMA CheckSlots ==
  ASSUME SlotsInv, TypeOK', NEW r \in Requests, NEW op, NEW t \in Tasks,
         NEW counts, db[ProjectOf[t]].life # "none", Check(r, op, t, counts)
  PROVE  SlotsInv'
  <1>1. db' = db /\ DOMAIN req = Requests
        /\ req' = [req EXCEPT ![r] = Checked(op, t, counts)]
    BY DEF Check, SlotsInv, TypeOK
  <1>2. SlotsExact' /\ TasksHaveProjects(db')
    BY <1>1 DEF SlotsInv, SlotsExact, TasksHaveProjects
  <1>3. ASSUME NEW q \in Requests
        PROVE  /\ FromOK(db', From(q)')
               /\ IsRunning(q)' => StillRight(db', req'[q].writes)
    <2>1. CASE q = r
      <3>1. req'[q].st = "checked" /\ req'[q].doc = t /\ req'[q] # Idle
        BY <1>1, <2>1 DEF Checked, Idle
      <3>2. ~IsRunning(q)' /\ From(q)' = req'[q]
        BY <3>1 DEF IsRunning, From
      <3> QED
        BY <1>1, <3>1, <3>2 DEF FromOK
    <2>2. CASE q # r
      <3>1. req'[q] = req[q]
        BY <1>1, <2>2
      <3>2. From(q)' = From(q) /\ (IsRunning(q)' <=> IsRunning(q))
        BY <3>1 DEF From, IsRunning
      <3> QED
        BY <1>1, <3>1, <3>2, SlotsInvParts
    <2> QED
      BY <2>1, <2>2
  <1> QED
    BY <1>2, <1>3 DEF SlotsInv, TasksHaveProjects, FromOK, From

-----------------------------------------------------------------------------
(* What callbacks write.                                                   *)

(* The slots depend on projects and tasks alone.                           *)
LEMMA SameDocs ==
  ASSUME NEW d, NEW e, \A x \in Projects \cup Tasks : d[x] = e[x]
  PROVE  Consuming(d) = Consuming(e)
  <1>1. ASSUME NEW q \in Projects PROVE Consumes(d, q) <=> Consumes(e, q)
    BY DEF Consumes, TasksOf
  <1> QED
    BY <1>1, SameConsuming

(* The projects with a slot once the documents of an image are written.    *)
LEMMA ApplyWrites ==
  ASSUME NEW d, NEW image, NEW docs,
         \A x \in (Projects \cup Tasks) \ docs : image[x] = d[x]
  PROVE  Consuming(Apply(d, Writes(image, docs))) = Consuming(image)
  <1> DEFINE e == Apply(d, Writes(image, docs))
  <1>1. \A x \in Projects \cup Tasks : e[x] = image[x]
    BY DEF Apply, Writes, Docs
  <1> HIDE DEF e
  <1>2. Consuming(e) = Consuming(image)
    BY <1>1, SameDocs
  <1> QED
    BY <1>2 DEF e

(* $inc changes the counter and nothing else.                              *)
LEMMA CountSame ==
  ASSUME NEW d, DbOK(d), NEW n \in Int
  PROVE  /\ \A x \in Projects \cup Tasks : Count(d, n)[x] = d[x]
         /\ Count(d, n)[Org].projectCount = d[Org].projectCount + n
  BY Disjoint DEF Count, DbOK, Docs, DocOK, OrgDocs

(* Writes of an image that locks the project of the tasks it changes.      *)
LEMMA LockedShape ==
  ASSUME SlotsInv, NEW p \in Projects, db[p].life # "none", NEW image,
         NEW docs \in SUBSET (Projects \cup Tasks), NEW E \in SUBSET {Org},
         \A x \in (Projects \cup Tasks) \ docs : image[x] = db[x],
         \A t \in docs \cap Tasks : ProjectOf[t] = p,
         \A x \in docs : image[x].life # "none" /\ db[x].life # "gone"
  PROVE  Shape(db, Writes(image, docs \cup Lock(p) \cup E))
  <1> DEFINE w == Writes(image, docs \cup Lock(p) \cup E)
  <1>1. DOMAIN w = docs \cup Lock(p) \cup E /\ \A x \in DOMAIN w : w[x] = image[x]
    BY DEF Writes
  <1>2. ASSUME NEW x \in DOMAIN w \ {Org}
        PROVE  w[x].life # "none" /\ db[x].life # "gone"
    <2>1. CASE x \in docs
      BY <1>1, <2>1
    <2>2. CASE x \notin docs
      <3>1. x = p /\ Stored(db, p)
        BY <1>1, <2>2 DEF Lock
      <3> QED
        BY <1>1, <2>2, <3>1 DEF Stored
    <2> QED
      BY <2>1, <2>2
  <1>3. ASSUME NEW t \in DOMAIN w \cap Tasks
        PROVE  /\ db[ProjectOf[t]].life # "none"
               /\ ProjectOf[t] \in DOMAIN w \/ db[ProjectOf[t]].life = "gone"
    <2>1. t \in docs
      BY <1>1, Disjoint DEF Lock
    <2>2. ProjectOf[t] = p
      BY <2>1
    <2>3. CASE Stored(db, p)
      BY <1>1, <2>2, <2>3 DEF Lock
    <2>4. CASE ~Stored(db, p)
      BY <2>2, <2>4 DEF SlotsInv, TypeOK, DocOK, Docs, ProjectDocs, Lives, Stored
    <2> QED
      BY <2>3, <2>4
  <1> QED
    BY <1>2, <1>3 DEF Shape

(* One slot given back.                                                    *)
LEMMA OneLess ==
  ASSUME NEW S, IsFiniteSet(S), NEW T, NEW p, p \in S, T = S \ {p}
  PROVE  Cardinality(T) = Cardinality(S) - 1
  BY FS_RemoveElement

(* One slot taken.                                                         *)
LEMMA OneMore ==
  ASSUME NEW S, IsFiniteSet(S), NEW T, NEW p, p \notin S, T = S \cup {p}
  PROVE  Cardinality(T) = Cardinality(S) + 1
  BY FS_AddElement

(* syncProjectSlot counts what it leaves.                                  *)
LEMMA SlotWritesRight ==
  ASSUME SlotsInv, NEW p \in Projects, db[p].life # "none",
         NEW image, DbOK(image),
         NEW docs \in SUBSET (Projects \cup Tasks),
         \A x \in Docs \ docs : image[x] = db[x],
         docs \cap Projects \subseteq {p},
         \A t \in docs \cap Tasks : ProjectOf[t] = p,
         \A x \in docs : image[x].life # "none" /\ db[x].life # "gone"
  PROVE  \A w \in SlotWrites(p, image, docs) : StillRight(db, w)
  <1> DEFINE locked == docs \cup Lock(p)
             down == Count(image, -1)
             up == Count(image, 1)
  <1>0. /\ image[Org] = db[Org]
        /\ \A x \in (Projects \cup Tasks) \ docs : image[x] = db[x]
        /\ Org \notin locked /\ Org \in Docs
        /\ db[Org].projectCount = Cardinality(Consuming(db))
        /\ IsFiniteSet(Consuming(db)) /\ Cardinality(Consuming(db)) \in Nat
    BY Disjoint, ConsumingCard DEF Docs, SlotsInv, SlotsExact, Lock
  <1>1. ASSUME NEW q \in Projects, q # p
        PROVE  Consumes(db, q) <=> Consumes(image, q)
    <2>1. image[q] = db[q] /\ \A t \in TasksOf(q) : image[t] = db[t]
      BY <1>0, <1>1 DEF TasksOf
    <2> QED
      BY <2>1 DEF Consumes
  <1>2. /\ \A x \in Projects \cup Tasks : down[x] = image[x] /\ up[x] = image[x]
        /\ down[Org].projectCount = db[Org].projectCount - 1
        /\ up[Org].projectCount = db[Org].projectCount + 1
    <2>1. image[Org].projectCount \in Int
      BY Disjoint DEF DbOK, DocOK, Docs, OrgDocs
    <2> QED
      BY <1>0, <2>1, CountSame
  <1>3. /\ Consuming(Apply(db, Writes(image, locked))) = Consuming(image)
        /\ Consuming(Apply(db, Writes(down, locked \cup {Org}))) = Consuming(image)
        /\ Consuming(Apply(db, Writes(up, locked \cup {Org}))) = Consuming(image)
    <2> HIDE DEF down, up
    <2>1. Consuming(down) = Consuming(image) /\ Consuming(up) = Consuming(image)
      BY <1>2, SameDocs
    <2>2. \A x \in (Projects \cup Tasks) \ locked :
            image[x] = db[x] /\ down[x] = db[x] /\ up[x] = db[x]
      BY <1>0, <1>2
    <2>3. Consuming(Apply(db, Writes(image, locked))) = Consuming(image)
      BY <2>2, ApplyWrites
    <2>4. Consuming(Apply(db, Writes(down, locked \cup {Org}))) = Consuming(down)
      BY <2>2, ApplyWrites
    <2>5. Consuming(Apply(db, Writes(up, locked \cup {Org}))) = Consuming(up)
      BY <2>2, ApplyWrites
    <2> QED
      BY <2>1, <2>3, <2>4, <2>5
  <1>4. /\ Shape(db, Writes(image, locked))
        /\ Shape(db, Writes(down, locked \cup {Org}))
        /\ Shape(db, Writes(up, locked \cup {Org}))
    <2> HIDE DEF down, up
    <2>1. Shape(db, Writes(image, docs \cup Lock(p) \cup {}))
      <3>1. {} \in SUBSET {Org}
        OBVIOUS
      <3> QED BY <1>0, <3>1, LockedShape
    <2>2. Shape(db, Writes(down, docs \cup Lock(p) \cup {Org}))
      BY <1>0, <1>2, LockedShape, ZenonT(60)
    <2>3. Shape(db, Writes(up, docs \cup Lock(p) \cup {Org}))
      BY <1>0, <1>2, LockedShape, ZenonT(60)
    <2>4. docs \cup Lock(p) \cup {} = locked
      OBVIOUS
    <2> QED
      BY <2>1, <2>2, <2>3, <2>4
  <1>5. CASE Consumes(db, p) = Consumes(image, p)
    <2>1. SlotWrites(p, image, docs) = {Writes(image, locked)}
      BY <1>5 DEF SlotWrites
    <2>2. \A q \in Projects : Consumes(image, q) <=> Consumes(db, q)
      <3>1. Consumes(db, p) <=> Consumes(image, p)
        BY <1>5 DEF Consumes
      <3> QED BY <1>1, <3>1
    <2>3. Consuming(image) = Consuming(db)
      BY <2>2, SameConsuming
    <2>4. Counted(db, Writes(image, locked))
      BY <1>0, <1>3, <2>3 DEF Counted, Writes
    <2> QED
      BY <1>4, <2>1, <2>4, StillRightParts
  <1>6. CASE Consumes(db, p) # Consumes(image, p) /\ Consumes(db, p)
    <2>1. SlotWrites(p, image, docs) = {Writes(down, locked \cup {Org})}
      BY <1>6 DEF SlotWrites
    <2>2. ~Consumes(image, p)
      BY <1>6 DEF Consumes
    <2>3. Consuming(image) = Consuming(db) \ {p} /\ p \in Consuming(db)
      BY <1>1, <1>6, <2>2 DEF Consuming
    <2>4. Cardinality(Consuming(image)) = Cardinality(Consuming(db)) - 1
      BY <1>0, <2>3, OneLess
    <2>5. Counted(db, Writes(down, locked \cup {Org}))
      <3> HIDE DEF down
      <3> QED BY <1>0, <1>2, <1>3, <2>4 DEF Counted, Writes
    <2> QED
      BY <1>4, <2>1, <2>5, StillRightParts
  <1>7. CASE ~Consumes(db, p) /\ Consumes(image, p)
    <2>1. SlotWrites(p, image, docs) \subseteq {Writes(up, locked \cup {Org})}
      BY <1>7 DEF SlotWrites
    <2>3. Consuming(image) = Consuming(db) \cup {p} /\ p \notin Consuming(db)
      BY <1>1, <1>7 DEF Consuming
    <2>4. Cardinality(Consuming(image)) = Cardinality(Consuming(db)) + 1
      BY <1>0, <2>3, OneMore
    <2>5. Counted(db, Writes(up, locked \cup {Org}))
      <3> HIDE DEF up
      <3> QED BY <1>0, <1>2, <1>3, <2>4 DEF Counted, Writes
    <2> QED
      BY <1>4, <2>1, <2>5, StillRightParts
  <1>8. Consumes(db, p) \in BOOLEAN /\ Consumes(image, p) \in BOOLEAN
    BY DEF Consumes
  <1> HIDE DEF locked, down, up
  <1> QED
    BY <1>5, <1>6, <1>7, <1>8

(* Writes that leave the organization and the slot of each project written *)
(* alone.                                                                  *)
LEMMA NoSlotRight ==
  ASSUME SlotsInv, NEW w, WritesOK(w), Org \notin DOMAIN w, Shape(db, w),
         \A q \in DOMAIN w \cap Projects :
           Consumes(Apply(db, w), q) <=> Consumes(db, q)
  PROVE  StillRight(db, w)
  <1>1. DbOK(db)
    BY TypedDb DEF SlotsInv
  <1>2. \A q \in Projects : Consumes(Apply(db, w), q) <=> Consumes(db, q)
    BY <1>1, Untouched
  <1>3. Consuming(Apply(db, w)) = Consuming(db)
    BY <1>2, SameConsuming
  <1> QED
    BY <1>3, StillRightParts DEF Counted

(* Documents of w that are there and keep their life and their status.     *)
KeepsViews(w, docs) ==
  /\ \A x \in docs : db[x].life \in {"live", "bin"} /\ w[x].life = db[x].life
  /\ \A t \in docs \cap Tasks : w[t].status = db[t].status

(* Writes that keep what they find are right about single documents.       *)
LEMMA ArchShape ==
  ASSUME SlotsInv, NEW w, WritesOK(w), KeepsViews(w, DOMAIN w \ {Org})
  PROVE  Shape(db, w)
  <1>1. \A x \in DOMAIN w \ {Org} : w[x].life # "none" /\ db[x].life # "gone"
    BY DEF KeepsViews
  <1>2. ASSUME NEW t \in DOMAIN w \cap Tasks
        PROVE  db[ProjectOf[t]].life # "none" /\ View(w[t]) = View(db[t])
    <2>1. t \in DOMAIN w \ {Org}
      BY Disjoint
    <2> QED
      BY <2>1 DEF KeepsViews, SlotsInv, View
  <1> QED
    BY <1>1, <1>2 DEF Shape

(* Writes that change nothing but archivedAt, and of no project the        *)
(* question whether it is archived.                                        *)
LEMMA ArchOnlyRight ==
  ASSUME SlotsInv, NEW w, WritesOK(w), Org \notin DOMAIN w,
         KeepsViews(w, DOMAIN w),
         \A q \in DOMAIN w \cap Projects : w[q].arch = "no" <=> db[q].arch = "no"
  PROVE  StillRight(db, w)
  <1>1. DbOK(db) /\ DOMAIN w \ {Org} = DOMAIN w
    BY TypedDb DEF SlotsInv
  <1>2. Shape(db, w)
    BY <1>1, ArchShape
  <1>3. ASSUME NEW q \in DOMAIN w \cap Projects
        PROVE  Consumes(Apply(db, w), q) <=> Consumes(db, q)
    <2> DEFINE e == Apply(db, w)
    <2>1. DbOK(e)
      BY <1>1, ApplyTyped
    <2>2. InUse(db, q) <=> InUse(e, q)
      BY DEF InUse, Apply, Docs, KeepsViews
    <2>3. ASSUME NEW t \in TasksOf(q) PROVE View(db[t]) = View(e[t])
      BY TaskFacts DEF Apply, KeepsViews, View
    <2> HIDE DEF e
    <2>4. Consumes(e, q) <=> Consumes(db, q)
      BY <1>1, <2>1, <2>2, <2>3, SameSlot
    <2> QED
      BY <2>4 DEF e
  <1> QED
    BY <1>2, <1>3, NoSlotRight

(* A project that has not been created has no tasks, and takes one slot.   *)
LEMMA CreatedRight ==
  ASSUME SlotsInv, NEW p \in Projects, db[p].life = "none"
  PROVE  StillRight(db, Writes(Count([db EXCEPT ![p] = NewProject], 1), {p, Org}))
  <1> DEFINE image == [db EXCEPT ![p] = NewProject]
             up == Count(image, 1)
             w == Writes(up, {p, Org})
  <1>1. DbOK(db) /\ DbOK(image) /\ image[Org] = db[Org] /\ p # Org /\ p \in Docs
    BY TypedDb, NewImage, Disjoint DEF SlotsInv, DbOK, Docs
  <1>2. image[p] = NewProject /\ \A x \in (Projects \cup Tasks) \ {p} : image[x] = db[x]
    BY <1>1 DEF DbOK
  <1> HIDE DEF image
  <1>3. /\ \A x \in Projects \cup Tasks : up[x] = image[x]
        /\ up[Org].projectCount = Cardinality(Consuming(db)) + 1
    BY <1>1, CountSame DEF SlotsInv, SlotsExact
  <1> HIDE DEF up
  <1>4. \A t \in TasksOf(p) : db[t].life = "none"
    BY DEF TasksOf, SlotsInv
  <1>5. Consumes(image, p) /\ ~Consumes(db, p)
    BY <1>2, <1>4, Disjoint DEF Consumes, NewProject, TasksOf
  <1>6. \A q \in Projects : q # p => (Consumes(image, q) <=> Consumes(db, q))
    BY <1>2, Disjoint DEF Consumes, TasksOf
  <1>7. Consuming(image) = Consuming(db) \cup {p} /\ p \notin Consuming(db)
    BY <1>5, <1>6 DEF Consuming
  <1>8. Cardinality(Consuming(image)) = Cardinality(Consuming(db)) + 1
    BY <1>7, ConsumingCard, OneMore
  <1>9. Consuming(Apply(db, w)) = Consuming(image)
    <2>1. Consuming(Apply(db, w)) = Consuming(up)
      BY <1>2, <1>3, ApplyWrites
    <2>2. Consuming(up) = Consuming(image)
      BY <1>3, SameDocs
    <2> QED
      BY <2>1, <2>2
  <1>10. Counted(db, w)
    BY <1>3, <1>8, <1>9 DEF Counted, Writes
  <1>11. Shape(db, w)
    BY <1>2, <1>3, Disjoint DEF Shape, Writes, NewProject
  <1>12. StillRight(db, w)
    BY <1>10, <1>11, StillRightParts
  <1> QED
    BY <1>12 DEF up, image

(* What is deleted for good out of the bin had no slot.                    *)
LEMMA DestroyedRight ==
  ASSUME SlotsInv, NEW p \in Projects, db[p].life = "bin"
  PROVE  StillRight(db, Destroyed(p))
  <1> DEFINE w == Destroyed(p)
  <1>1. TypeOK /\ WritesOK(w)
    BY DestroyedTyped DEF SlotsInv
  <1>2. /\ DOMAIN w = {y \in {p} \cup TasksOf(p) : Stored(db, y)}
        /\ \A x \in DOMAIN w : w[x].life = "gone"
    <2>1. \A x \in {p} \cup TasksOf(p) : "life" \in DOMAIN db[x]
      BY Disjoint, <1>1 DEF TypeOK, DocOK, Docs, TasksOf, ProjectDocs, TaskDocs
    <2> QED
      BY <2>1 DEF Destroyed
  <1>3. p \in DOMAIN w /\ Org \notin DOMAIN w /\ p \in Docs
        /\ DOMAIN w \cap Projects = {p}
    BY <1>2, Disjoint DEF Stored, TasksOf, Docs
  <1>4. Shape(db, w)
    <2>1. \A x \in DOMAIN w : w[x].life # "none" /\ db[x].life # "gone"
      BY <1>2 DEF Stored
    <2>2. \A t \in DOMAIN w \cap Tasks : ProjectOf[t] = p
      BY <1>2, Disjoint DEF TasksOf
    <2> HIDE DEF w
    <2> QED
      BY <1>3, <2>1, <2>2 DEF Shape
  <1>5. ~Consumes(db, p) /\ ~Consumes(Apply(db, w), p)
    <2>1. Apply(db, w)[p].life = "gone"
      BY <1>2, <1>3 DEF Apply
    <2> QED
      BY <2>1 DEF Consumes
  <1> HIDE DEF w
  <1>6. StillRight(db, w)
    BY <1>1, <1>3, <1>4, <1>5, NoSlotRight
  <1> QED
    BY <1>6 DEF w

(* A task deleted out of the bin had no part in a slot.                    *)
LEMMA DestroyedTaskRight ==
  ASSUME SlotsInv, NEW t \in Tasks, db[t].life = "bin"
  PROVE  StillRight(db, DestroyedTask(t))
  <1> DEFINE w == DestroyedTask(t)
  <1>1. TypeOK /\ WritesOK(w)
    BY DestroyedTaskTyped DEF SlotsInv
  <1>2. "life" \in DOMAIN db[t]
    BY Disjoint, <1>1 DEF TypeOK, DocOK, Docs, TaskDocs
  <1>3. DOMAIN w = {t} /\ w[t].life = "gone"
    BY <1>2 DEF DestroyedTask, Stored
  <1>4. Shape(db, w)
    BY <1>3 DEF Shape, View, SlotsInv
  <1>5. Org \notin DOMAIN w /\ DOMAIN w \cap Projects = {}
    BY <1>3, Disjoint
  <1> HIDE DEF w
  <1>6. StillRight(db, w)
    BY <1>1, <1>4, <1>5, NoSlotRight
  <1> QED
    BY <1>6 DEF w

-----------------------------------------------------------------------------
(* The requests.                                                           *)

(* A change of a live or binned project alone.                             *)
LEMMA ProjectChangeRight ==
  ASSUME SlotsInv, NEW p \in Projects, db[p].life \in {"live", "bin"},
         NEW image, DbOK(image), image[p].life \in {"live", "bin"},
         \A x \in Docs \ {p} : image[x] = db[x]
  PROVE  \A w \in SlotWrites(p, image, {p}) : StillRight(db, w)
  BY SlotWritesRight, Disjoint

(* Every request about a project keeps the counter exact.                  *)
LEMMA ProjectRequestSlots ==
  ASSUME SlotsInv, TypeOK', "purgeExpiredProjects" \notin Ops,
         NEW r \in Requests, NEW p \in Projects, ProjectRequest(r, p)
  PROVE  SlotsInv'
  <1>0. DbOK(db) /\ p \in Docs /\ TypeOK
    BY TypedDb DEF SlotsInv, Docs
  <1> USE DEF Lives, Archive
  <1>1. CASE CreateProject(r, p)
    BY <1>1, CreatedRight, BeginNewSlots DEF CreateProject
  <1>2. CASE ArchiveProject(r, p)
    <2> DEFINE image == [db EXCEPT ![p].arch = "manual"]
    <2>0. db[p].life = "live"
      BY <1>2 DEF ArchiveProject
    <2>1. DbOK(image) /\ image[p].life = "live"
          /\ \A x \in Docs \ {p} : image[x] = db[x]
      <3>1. DbOK(image)
        BY <1>0, ProjectImage
      <3>2. image[p].life = "live"
        BY <1>0, <2>0, Disjoint DEF DbOK, DocOK, ProjectDocs
      <3>3. \A x \in Docs \ {p} : image[x] = db[x]
        BY <1>0 DEF DbOK
      <3> HIDE DEF image
      <3> QED
        BY <3>1, <3>2, <3>3
    <2>2. BeginNew(r, "archiveProject", SlotWrites(p, image, {p}))
      BY <1>2 DEF ArchiveProject
    <2> HIDE DEF image
    <2> QED
      BY <2>0, <2>1, <2>2, ProjectChangeRight, BeginNewSlots
  <1>3. CASE UnarchiveProject(r, p)
    <2> DEFINE image == [db EXCEPT ![p].arch = "no"]
    <2>0. db[p].life = "live"
      BY <1>3 DEF UnarchiveProject
    <2>1. DbOK(image) /\ image[p].life = "live"
          /\ \A x \in Docs \ {p} : image[x] = db[x]
      <3>1. DbOK(image)
        BY <1>0, ProjectImage
      <3>2. image[p].life = "live"
        BY <1>0, <2>0, Disjoint DEF DbOK, DocOK, ProjectDocs
      <3>3. \A x \in Docs \ {p} : image[x] = db[x]
        BY <1>0 DEF DbOK
      <3> HIDE DEF image
      <3> QED
        BY <3>1, <3>2, <3>3
    <2>2. BeginNew(r, "unarchiveProject", SlotWrites(p, image, {p}))
      BY <1>3 DEF UnarchiveProject
    <2> HIDE DEF image
    <2> QED
      BY <2>0, <2>1, <2>2, ProjectChangeRight, BeginNewSlots
  <1>4. CASE MoveProjectToBin(r, p)
    <2> DEFINE image == [db EXCEPT ![p].life = "bin"]
    <2>0. db[p].life = "live"
      BY <1>4 DEF MoveProjectToBin
    <2>1. DbOK(image) /\ image[p].life = "bin"
          /\ \A x \in Docs \ {p} : image[x] = db[x]
      <3>1. DbOK(image)
        BY <1>0, ProjectImage
      <3>2. image[p].life = "bin"
        BY <1>0, <2>0, Disjoint DEF DbOK, DocOK, ProjectDocs
      <3>3. \A x \in Docs \ {p} : image[x] = db[x]
        BY <1>0 DEF DbOK
      <3> HIDE DEF image
      <3> QED
        BY <3>1, <3>2, <3>3
    <2>2. BeginNew(r, "moveProjectToBin", SlotWrites(p, image, {p}))
      BY <1>4 DEF MoveProjectToBin
    <2> HIDE DEF image
    <2> QED
      BY <2>0, <2>1, <2>2, ProjectChangeRight, BeginNewSlots
  <1>5. CASE RestoreProject(r, p)
    <2> DEFINE image == [db EXCEPT ![p].life = "live"]
    <2>0. db[p].life = "bin"
      BY <1>5 DEF RestoreProject
    <2>1. DbOK(image) /\ image[p].life = "live"
          /\ \A x \in Docs \ {p} : image[x] = db[x]
      <3>1. DbOK(image)
        BY <1>0, ProjectImage
      <3>2. image[p].life = "live"
        BY <1>0, <2>0, Disjoint DEF DbOK, DocOK, ProjectDocs
      <3>3. \A x \in Docs \ {p} : image[x] = db[x]
        BY <1>0 DEF DbOK
      <3> HIDE DEF image
      <3> QED
        BY <3>1, <3>2, <3>3
    <2>2. BeginNew(r, "restoreProject", SlotWrites(p, image, {p}))
      BY <1>5 DEF RestoreProject
    <2> HIDE DEF image
    <2> QED
      BY <2>0, <2>1, <2>2, ProjectChangeRight, BeginNewSlots
  <1>6. CASE DeleteProjectPermanently(r, p)
    BY <1>6, DestroyedRight, BeginNewSlots DEF DeleteProjectPermanently
  <1>7. CASE FindExpiredProject(r, p)
    BY <1>7 DEF FindExpiredProject, Check
  <1>8. CASE KeepProjectArchived(r, p)
    <2> DEFINE docs == {p} \cup {t \in LiveTasks(db, p) : db[t].arch = "plan"}
               w == [x \in docs |-> [db[x] EXCEPT !.arch = "manual"]]
    <2>1. docs \subseteq Projects \cup Tasks /\ docs \cap Projects = {p}
          /\ Org \notin docs
      BY Disjoint DEF LiveTasks, TasksOf
    <2>2. db[p].arch = "plan" /\ \A x \in docs : db[x].life = "live"
      BY <1>8 DEF KeepProjectArchived, LiveTasks
    <2>3. \A x \in docs : DocOK(x, w[x]) /\ w[x].life = db[x].life
                         /\ w[x].arch = "manual"
                         /\ (x \in Tasks => w[x].status = db[x].status)
      BY <1>0, <2>1, Disjoint DEF DbOK, DocOK, Docs, ProjectDocs, TaskDocs
    <2>4. BeginNew(r, "keepPlanArchived", {w})
      BY <1>8 DEF KeepProjectArchived
    <2>5. DOMAIN w = docs
      OBVIOUS
    <2> HIDE DEF w, docs
    <2>6. WritesOK(w) /\ KeepsViews(w, DOMAIN w)
      BY <2>1, <2>2, <2>3, <2>5 DEF WritesOK, KeepsViews, Docs
    <2>7. StillRight(db, w)
      BY <2>1, <2>2, <2>3, <2>5, <2>6, ArchOnlyRight
    <2> QED
      BY <2>4, <2>7, BeginNewSlots
  <1> QED
    BY <1>1, <1>2, <1>3, <1>4, <1>5, <1>6, <1>7, <1>8 DEF ProjectRequest

(* Every first step of a request about a task keeps the counter exact.     *)
LEMMA TaskRequestSlots ==
  ASSUME SlotsInv, TypeOK', "purgeExpiredTasks" \notin Ops,
         NEW r \in Requests, NEW t \in Tasks, TaskRequest(r, t)
  PROVE  SlotsInv'
  <1>0. db[t].life # "none" => db[ProjectOf[t]].life # "none"
    BY DEF SlotsInv
  <1>1. CASE CheckCreateTask(r, t)
    BY <1>1, CheckSlots DEF CheckCreateTask, InUse
  <1>2. CASE \E op \in DOMAIN StatusBefore : CheckUpdateTask(r, t, op)
    BY <1>2, CheckSlots DEF CheckUpdateTask, InLiveProject
  <1>3. CASE CheckArchiveTask(r, t)
    BY <1>3, CheckSlots DEF CheckArchiveTask, InLiveProject
  <1>4. CASE CheckUnarchiveTask(r, t)
    BY <1>4, CheckSlots DEF CheckUnarchiveTask, InLiveProject
  <1>5. CASE CheckMoveTaskToBin(r, t)
    BY <1>5, CheckSlots DEF CheckMoveTaskToBin, InLiveProject
  <1>6. CASE CheckRestoreTask(r, t)
    BY <1>6, <1>0, CheckSlots DEF CheckRestoreTask
  <1>7. CASE DeleteTaskPermanently(r, t)
    BY <1>7, DestroyedTaskRight, BeginNewSlots DEF DeleteTaskPermanently
  <1>8. CASE FindExpiredTask(r, t)
    BY <1>8 DEF FindExpiredTask, Check
  <1>9. CASE KeepTaskArchived(r, t)
    <2> DEFINE image == [db EXCEPT ![t].arch = "manual"]
               w == Writes(image, {t})
    <2>0. DbOK(db) /\ t \in Docs
      BY TypedDb DEF SlotsInv, Docs
    <2>1. DbOK(image)
      BY <2>0, TaskImage DEF Lives, Archive
    <2>11. db[t].life = "live"
      BY <1>9 DEF KeepTaskArchived
    <2>12. image[t].life = "live" /\ image[t].status = db[t].status
      BY <2>0, <2>11, Disjoint DEF DbOK, DocOK, TaskDocs
    <2>2. BeginNew(r, "keepPlanArchived", {w})
      BY <1>9 DEF KeepTaskArchived
    <2> HIDE DEF image
    <2>3. WritesOK(w) /\ KeepsViews(w, DOMAIN w) /\ DOMAIN w = {t}
      BY <2>0, <2>1, <2>11, <2>12, WritesTyped DEF KeepsViews, Writes
    <2> HIDE DEF w
    <2>4. StillRight(db, w)
      BY <2>3, Disjoint, ArchOnlyRight
    <2> QED
      BY <2>2, <2>4, BeginNewSlots
  <1> QED
    BY <1>1, <1>2, <1>3, <1>4, <1>5, <1>6, <1>7, <1>8, <1>9 DEF TaskRequest

(* A change of one task, by a callback that syncs the slot of its project. *)
LEMMA TaskChangeRight ==
  ASSUME SlotsInv, NEW t \in Tasks, db[ProjectOf[t]].life # "none",
         db[t].life # "gone",
         NEW image, DbOK(image), image[t].life # "none",
         \A x \in Docs \ {t} : image[x] = db[x]
  PROVE  \A w \in SlotWrites(ProjectOf[t], image, {t}) : StillRight(db, w)
  BY SlotWritesRight, Disjoint

(* Archiving or unarchiving a task, with or without locking its project.   *)
LEMMA TaskArchRight ==
  ASSUME SlotsInv, NEW t \in Tasks, db[t].life = "live", NEW a \in Archive,
         NEW L \in SUBSET {ProjectOf[t]}, \A x \in L : Stored(db, x)
  PROVE  StillRight(db, Writes([db EXCEPT ![t].arch = a], {t} \cup L))
  <1> DEFINE image == [db EXCEPT ![t].arch = a]
             w == Writes(image, {t} \cup L)
  <1>0. DbOK(db) /\ t \in Docs /\ ProjectOf[t] \in Projects /\ {t} \cup L \subseteq Docs
        /\ Org \notin {t} \cup L /\ ({t} \cup L) \cap Tasks = {t}
    BY TypedDb, Disjoint DEF SlotsInv, Docs
  <1>1. DbOK(image)
    BY <1>0, TaskImage DEF Lives
  <1>2. image[t].life = "live" /\ image[t].status = db[t].status
    BY <1>0, Disjoint DEF DbOK, DocOK, TaskDocs
  <1>3. \A x \in L : image[x] = db[x]
    BY <1>0, Disjoint DEF DbOK
  <1> HIDE DEF image
  <1>4. DOMAIN w = {t} \cup L /\ \A x \in DOMAIN w : w[x] = image[x]
    BY DEF Writes
  <1>5. WritesOK(w)
    BY <1>0, <1>1, WritesTyped
  <1> HIDE DEF w
  <1>6. KeepsViews(w, DOMAIN w)
    BY <1>0, <1>2, <1>3, <1>4 DEF KeepsViews, Stored
  <1>7. \A q \in DOMAIN w \cap Projects : w[q].arch = "no" <=> db[q].arch = "no"
    BY <1>3, <1>4, Disjoint
  <1>8. StillRight(db, w)
    BY <1>0, <1>4, <1>5, <1>6, <1>7, ArchOnlyRight
  <1> QED
    BY <1>8 DEF w, image

(* The task a request was checked for still has its project, if only as a  *)
(* deleted one.                                                            *)
LEMMA CheckedHasProject ==
  ASSUME SlotsInv, NEW r \in Requests, req[r].st = "checked",
         req[r].doc \in Tasks
  PROVE  db[ProjectOf[req[r].doc]].life # "none"
  BY DEF SlotsInv, IsRunning, Idle

(* Every callback keeps the counter exact.                                 *)
LEMMA CallbackSlots ==
  ASSUME SlotsInv, TypeOK', "purgeExpiredProjects" \notin Ops,
         "purgeExpiredTasks" \notin Ops,
         NEW r \in Requests, Callback(r)
  PROVE  SlotsInv'
  <1> DEFINE t == req[r].doc
             p == ProjectOf[t]
  <1>0. TypeOK /\ DbOK(db)
    BY TypedDb DEF SlotsInv
  <1>1. CASE CreateTask(r)
    <2> DEFINE image == [db EXCEPT ![t] = NewTask]
    <2>1. t \in Tasks /\ t \in Docs /\ req[r].st = "checked" /\ db[t].life = "none"
      BY <1>0, <1>1, CheckedTask DEF CreateTask
    <2>2. DbOK(image)
      BY <1>0, <2>1, NewImage
    <2>3. image[t].life = "live" /\ \A x \in Docs \ {t} : image[x] = db[x]
      BY <1>0, <2>1 DEF DbOK, NewTask
    <2>4. Resume(r, SlotWrites(p, image, {t}), OpenCount(db, p))
      BY <1>1 DEF CreateTask
    <2>5. db[p].life # "none"
      BY <2>1, CheckedHasProject
    <2> HIDE DEF image, t, p
    <2>6. \A w \in SlotWrites(p, image, {t}) : StillRight(db, w)
      BY <2>1, <2>2, <2>3, <2>5, TaskChangeRight DEF p
    <2> QED
      BY <2>1, <2>4, <2>6, ResumeSlots
  <1>2. CASE \E op \in DOMAIN StatusBefore : UpdateTask(r, op)
    <2>0. PICK op \in DOMAIN StatusBefore : UpdateTask(r, op)
      BY <1>2
    <2> DEFINE image == [db EXCEPT ![t].status = StatusAfter[op]]
               open == IF op = "reopenTask" THEN OpenCount(db, p) ELSE NoRoomCheck
    <2>1. t \in Tasks /\ t \in Docs /\ req[r].st = "checked" /\ db[t].life = "live"
      BY <1>0, <2>0, CheckedTask DEF UpdateTask, StatusBefore
    <2>2. DbOK(image)
      <3>1. StatusAfter[op] \in {"open", "done"}
        BY DEF StatusBefore, StatusAfter
      <3> QED
        BY <1>0, <2>1, <3>1, TaskImage DEF Lives, Archive
    <2>3. image[t].life = "live" /\ \A x \in Docs \ {t} : image[x] = db[x]
      BY <1>0, <2>1, Disjoint DEF DbOK, DocOK, TaskDocs
    <2>4. Resume(r, SlotWrites(p, image, {t}), open)
      BY <2>0 DEF UpdateTask
    <2>5. db[p].life # "none"
      BY <2>1, CheckedHasProject
    <2> HIDE DEF image, t, p, open
    <2>6. \A w \in SlotWrites(p, image, {t}) : StillRight(db, w)
      BY <2>1, <2>2, <2>3, <2>5, TaskChangeRight DEF p
    <2> QED
      BY <2>1, <2>4, <2>6, ResumeSlots
  <1>3. CASE ArchiveTask(r)
    <2> DEFINE w == Writes([db EXCEPT ![t].arch = "manual"], {t})
    <2>1. t \in Tasks /\ req[r].st = "checked" /\ db[t].life = "live"
      BY <1>0, <1>3, CheckedTask DEF ArchiveTask
    <2>2. Resume(r, {w}, NoRoomCheck)
      BY <1>3 DEF ArchiveTask
    <2>3. StillRight(db, w)
      <3>1. StillRight(db, Writes([db EXCEPT ![t].arch = "manual"], {t} \cup {}))
        <4>1. {} \in SUBSET {p} /\ "manual" \in Archive
          BY DEF Archive
        <4> QED BY <2>1, <4>1, TaskArchRight
      <3>2. {t} \cup {} = {t}
        OBVIOUS
      <3> QED
        BY <3>1, <3>2
    <2> HIDE DEF w
    <2> QED
      BY <2>1, <2>2, <2>3, ResumeSlots
  <1>4. CASE UnarchiveTask(r)
    <2> DEFINE docs == IF req[r].counts THEN {t} \cup Lock(p) ELSE {t}
               w == Writes([db EXCEPT ![t].arch = "no"], docs)
               open == IF req[r].counts THEN OpenCount(db, p) ELSE NoRoomCheck
    <2>1. t \in Tasks /\ req[r].st = "checked" /\ db[t].life = "live"
      BY <1>0, <1>4, CheckedTask DEF UnarchiveTask
    <2>2. Resume(r, {w}, open)
      BY <1>4 DEF UnarchiveTask
    <2>3. PICK L \in SUBSET {p} : docs = {t} \cup L /\ \A x \in L : Stored(db, x)
      <3>1. CASE req[r].counts
        <4>1. Lock(p) \in SUBSET {p} /\ docs = {t} \cup Lock(p)
              /\ \A x \in Lock(p) : Stored(db, x)
          BY <3>1 DEF Lock
        <4> HIDE DEF docs
        <4> QED BY <4>1
      <3>2. CASE ~req[r].counts
        <4>1. {} \in SUBSET {p} /\ docs = {t} \cup {}
          BY <3>2
        <4> HIDE DEF docs
        <4> QED BY <4>1
      <3> QED
        BY <3>1, <3>2
    <2>4. StillRight(db, w)
      <3>1. "no" \in Archive
        BY DEF Archive
      <3> QED
        BY <2>1, <2>3, <3>1, TaskArchRight
    <2> HIDE DEF w, open
    <2> QED
      BY <2>1, <2>2, <2>4, ResumeSlots
  <1>5. CASE MoveTaskToBin(r)
    <2> DEFINE image == [db EXCEPT ![t].life = "bin"]
    <2>1. t \in Tasks /\ t \in Docs /\ req[r].st = "checked" /\ db[t].life = "live"
      BY <1>0, <1>5, CheckedTask DEF MoveTaskToBin
    <2>2. DbOK(image)
      BY <1>0, <2>1, TaskImage DEF Lives, Archive
    <2>3. image[t].life = "bin" /\ \A x \in Docs \ {t} : image[x] = db[x]
      BY <1>0, <2>1, Disjoint DEF DbOK, DocOK, TaskDocs
    <2>4. Resume(r, SlotWrites(p, image, {t}), NoRoomCheck)
      BY <1>5 DEF MoveTaskToBin
    <2>5. db[p].life # "none"
      BY <2>1, CheckedHasProject
    <2> HIDE DEF image, t, p
    <2>6. \A w \in SlotWrites(p, image, {t}) : StillRight(db, w)
      BY <2>1, <2>2, <2>3, <2>5, TaskChangeRight DEF p
    <2> QED
      BY <2>1, <2>4, <2>6, ResumeSlots
  <1>6. CASE RestoreTask(r)
    <2> DEFINE image == [db EXCEPT ![t].life = "live"]
               open == IF req[r].counts THEN OpenCount(db, p) ELSE NoRoomCheck
    <2>1. t \in Tasks /\ t \in Docs /\ req[r].st = "checked" /\ db[t].life = "bin"
      BY <1>0, <1>6, CheckedTask DEF RestoreTask
    <2>2. DbOK(image)
      BY <1>0, <2>1, TaskImage DEF Lives, Archive
    <2>3. image[t].life = "live" /\ \A x \in Docs \ {t} : image[x] = db[x]
      BY <1>0, <2>1, Disjoint DEF DbOK, DocOK, TaskDocs
    <2>4. Resume(r, SlotWrites(p, image, {t}), open)
      BY <1>6 DEF RestoreTask
    <2>5. db[p].life # "none"
      BY <2>1, CheckedHasProject
    <2> HIDE DEF image, t, p, open
    <2>6. \A w \in SlotWrites(p, image, {t}) : StillRight(db, w)
      BY <2>1, <2>2, <2>3, <2>5, TaskChangeRight DEF p
    <2> QED
      BY <2>1, <2>4, <2>6, ResumeSlots
  <1>7. CASE PurgeProject(r) \/ PurgeTask(r)
    BY <1>0, <1>7 DEF PurgeProject, PurgeTask, AtBegin, TypeOK, RequestOK, CheckedOK,
                      Idle
  <1> QED
    BY <1>1, <1>2, <1>3, <1>4, <1>5, <1>6, <1>7 DEF Callback

(* A change of plan keeps the counter.                                     *)
LEMMA PlanChangeRight ==
  ASSUME SlotsInv, NEW plan \in Plans
  PROVE  /\ WritesOK(Writes([db EXCEPT ![Org].plan = plan], {Org}))
         /\ StillRight(db, Writes([db EXCEPT ![Org].plan = plan], {Org}))
  <1> DEFINE image == [db EXCEPT ![Org].plan = plan]
             w == Writes(image, {Org})
  <1>0. DbOK(db) /\ Org \in Docs
    BY TypedDb DEF SlotsInv, Docs
  <1>1. DbOK(image)
    BY <1>0, Disjoint DEF DbOK, DocOK, Docs, OrgDocs
  <1>2. image[Org].projectCount = db[Org].projectCount
    BY <1>0, Disjoint DEF DbOK, DocOK, OrgDocs
  <1>3. \A x \in Projects \cup Tasks : image[x] = db[x]
    BY <1>0, Disjoint DEF DbOK, Docs
  <1> HIDE DEF image
  <1>4. WritesOK(w)
    BY <1>0, <1>1, WritesTyped
  <1>5. Consuming(Apply(db, w)) = Consuming(db)
    <2>1. Consuming(Apply(db, w)) = Consuming(image)
      BY <1>3, ApplyWrites
    <2> QED
      BY <2>1, <1>3, SameDocs
  <1>6. Counted(db, w)
    BY <1>2, <1>5 DEF Counted, Writes, SlotsInv, SlotsExact
  <1>7. Shape(db, w)
    BY Disjoint DEF Shape, Writes
  <1>8. WritesOK(w) /\ StillRight(db, w)
    BY <1>4, <1>6, <1>7, StillRightParts
  <1> QED
    BY <1>8 DEF image

(* archiveExcessForFree recounts what remains.                             *)
LEMMA RecountedRight ==
  ASSUME SlotsInv, NEW S \in SUBSET Consuming(db), NEW T \in SUBSET Tasks,
         \A t \in T : db[t].life = "live"
  PROVE  StillRight(db, Recounted(S, T))
  <1> DEFINE d == Archived(db, S \cup T)
             n == Cardinality(Consuming(d))
             image == [d EXCEPT ![Org].projectCount = n]
             docs == S \cup T \cup {Org}
             w == Writes(image, docs)
  <1>0. /\ TypeOK /\ DbOK(db) /\ Org \in Docs /\ S \subseteq Projects
        /\ Org \notin S \cup T /\ n \in Int
        /\ \A x \in S \cup T : db[x].life = "live"
    <2>1. S \subseteq Projects /\ \A x \in S : db[x].life = "live"
      BY DEF Consuming, Consumes
    <2>2. n \in Int
      BY ConsumingCard
    <2>3. TypeOK /\ DbOK(db)
      BY TypedDb DEF SlotsInv
    <2> HIDE DEF n
    <2> QED
      BY <2>1, <2>2, <2>3, Disjoint DEF Docs
  <1>1. /\ DbOK(d) /\ WritesOK(w)
        /\ w = Recounted(S, T)
    BY <1>0, ArchivedTyped, RecountedTyped DEF Recounted
  <1>2. \A x \in Docs : d[x] = IF x \in S \cup T THEN [db[x] EXCEPT !.arch = "plan"]
                              ELSE db[x]
    BY DEF Archived
  <1>3. \A x \in S \cup T : /\ d[x].life = db[x].life
                            /\ x \in Tasks => d[x].status = db[x].status
    <2> SUFFICES ASSUME NEW x \in S \cup T
                 PROVE  /\ d[x].life = db[x].life
                        /\ x \in Tasks => d[x].status = db[x].status
      OBVIOUS
    <2>1. x \in Docs /\ x \in Projects \cup Tasks /\ d[x] = [db[x] EXCEPT !.arch = "plan"]
      BY <1>0, <1>2 DEF Docs
    <2> HIDE DEF d
    <2> QED
      BY <1>0, <2>1, Disjoint DEF DbOK, DocOK, ProjectDocs, TaskDocs
  <1> HIDE DEF d
  <1>4. /\ \A x \in Projects \cup Tasks : image[x] = d[x]
        /\ image[Org].projectCount = n
    BY <1>1, <1>0, Disjoint DEF DbOK, Docs, DocOK, OrgDocs
  <1> HIDE DEF image
  <1>5. DOMAIN w = docs /\ (\A x \in docs : w[x] = image[x])
        /\ DOMAIN w \ {Org} = S \cup T
    BY <1>0 DEF Writes
  <1>6. KeepsViews(w, DOMAIN w \ {Org})
    <2>1. \A x \in S \cup T : x \in Projects \cup Tasks /\ x \in docs
      BY <1>0
    <2> HIDE DEF w, docs
    <2>2. \A x \in S \cup T : w[x] = d[x]
      BY <2>1, <1>4, <1>5
    <2> QED
      BY <1>0, <1>3, <1>5, <2>2 DEF KeepsViews
  <1>7. Shape(db, w)
    BY <1>1, <1>6, ArchShape
  <1>8. Consuming(Apply(db, w)) = Consuming(d)
    <2>1. \A x \in (Projects \cup Tasks) \ docs : image[x] = db[x]
      BY <1>2, <1>4 DEF Docs
    <2>2. Consuming(Apply(db, w)) = Consuming(image)
      BY <2>1, ApplyWrites
    <2> QED
      BY <2>2, <1>4, SameDocs
  <1>9. Counted(db, w)
    BY <1>4, <1>5, <1>8 DEF Counted
  <1>10. StillRight(db, w)
    BY <1>7, <1>9, StillRightParts
  <1> QED
    BY <1>1, <1>10

(* restorePlanArchivedProjects counts the slots it takes.                  *)
LEMMA RestoredRight ==
  ASSUME SlotsInv, NEW docs \in SUBSET (Projects \cup Tasks),
         \A x \in docs : db[x].life = "live"
  PROVE  StillRight(db, Restored(docs))
  <1> DEFINE d == [x \in Docs |->
                     IF x \in docs THEN [db[x] EXCEPT !.arch = "no"] ELSE db[x]]
             n == Cardinality(Consuming(d)) - Cardinality(Consuming(db))
             image == Count(d, n)
             written == docs \cup {x \in {Org} : n > 0}
             w == Writes(image, written)
  <1>0. TypeOK /\ DbOK(db) /\ Org \in Docs /\ Org \notin docs
    BY TypedDb, Disjoint DEF SlotsInv, Docs
  <1>1. w = Restored(docs) /\ WritesOK(w)
    BY <1>0, RestoredTyped DEF Restored
  <1>2. DbOK(d)
    BY Disjoint DEF SlotsInv, TypeOK, DbOK, DocOK, Docs, ProjectDocs, TaskDocs, Archive
  <1>3. /\ d[Org] = db[Org]
        /\ \A x \in (Projects \cup Tasks) \ docs : d[x] = db[x]
        /\ \A x \in docs : /\ d[x].life = db[x].life
                           /\ d[x].arch = "no"
                           /\ x \in Tasks => d[x].status = db[x].status
    BY <1>0, Disjoint DEF DbOK, DocOK, Docs, ProjectDocs, TaskDocs
  <1> HIDE DEF d
  <1>4. n \in Int /\ IsFiniteSet(Consuming(d)) /\ IsFiniteSet(Consuming(db))
        /\ Cardinality(Consuming(d)) \in Nat /\ Cardinality(Consuming(db)) \in Nat
    BY ConsumingCard
  <1>5. Consuming(db) \subseteq Consuming(d)
    <2> SUFFICES ASSUME NEW q \in Projects, Consumes(db, q)
                 PROVE  Consumes(d, q)
      BY DEF Consuming
    <2>1. d[q].life = "live" /\ d[q].arch = "no"
      <3>1. CASE q \in docs
        BY <3>1, <1>3 DEF Consumes
      <3>2. CASE q \notin docs
        BY <3>2, <1>3 DEF Consumes
      <3> QED
        BY <3>1, <3>2
    <2>2. ASSUME NEW t \in TasksOf(q)
          PROVE  d[t].life = db[t].life /\ d[t].status = db[t].status
      <3>1. t \in Tasks
        BY DEF TasksOf
      <3>2. CASE t \in docs
        BY <3>1, <3>2, <1>3
      <3>3. CASE t \notin docs
        BY <3>1, <3>3, <1>3
      <3> QED
        BY <3>2, <3>3
    <2> QED
      BY <2>1, <2>2 DEF Consumes
  <1>6. /\ \A x \in Projects \cup Tasks : image[x] = d[x]
        /\ image[Org].projectCount = db[Org].projectCount + n
    <2> HIDE DEF n
    <2> QED BY <1>2, <1>3, <1>4, CountSame
  <1>7. Consuming(Apply(db, w)) = Consuming(d)
    <2> HIDE DEF image, n
    <2>1. \A x \in (Projects \cup Tasks) \ written : image[x] = db[x]
      BY <1>3, <1>6
    <2>2. Consuming(Apply(db, w)) = Consuming(image)
      BY <2>1, ApplyWrites
    <2> QED
      BY <2>2, <1>6, SameDocs
  <1>8. DOMAIN w = written /\ (\A x \in written : w[x] = image[x])
        /\ DOMAIN w \ {Org} = docs /\ (Org \in DOMAIN w <=> n > 0)
    <2> HIDE DEF image, n
    <2> QED BY <1>0 DEF Writes
  <1>9. KeepsViews(w, DOMAIN w \ {Org})
    <2>1. \A x \in docs : w[x] = d[x]
      <3> HIDE DEF image, n, w
      <3> QED BY <1>6, <1>8
    <2>2. \A x \in docs : w[x].life = db[x].life /\ db[x].life = "live"
      BY <2>1, <1>3
    <2>3. \A x \in docs \cap Tasks : w[x].status = db[x].status
      BY <2>1, <1>3
    <2> HIDE DEF image, n, w
    <2> QED BY <2>2, <2>3, <1>8 DEF KeepsViews
  <1>10. Shape(db, w)
    BY <1>1, <1>9, ArchShape
  <1>11. Counted(db, w)
    <2>1. CASE n > 0
      <3>1. db[Org].projectCount + n = Cardinality(Consuming(d))
        BY <1>4 DEF SlotsInv, SlotsExact
      <3> HIDE DEF image, n, w
      <3> QED BY <2>1, <3>1, <1>6, <1>7, <1>8 DEF Counted
    <2>2. CASE ~(n > 0)
      <3>1. Cardinality(Consuming(db)) = Cardinality(Consuming(d))
        BY <2>2, <1>4, <1>5, FS_Subset
      <3>2. Consuming(d) = Consuming(db)
        BY <3>1, <1>4, <1>5, FS_Subset
      <3> HIDE DEF image, n, w
      <3> QED BY <2>2, <3>2, <1>7, <1>8 DEF Counted
    <2> QED
      BY <2>1, <2>2
  <1>12. StillRight(db, w)
    BY <1>10, <1>11, StillRightParts
  <1> QED
    BY <1>1, <1>12

(* The tasks archiveExcessForFree archives are live.                       *)
LEMMA TrimsLive ==
  ASSUME TypeOK, NEW S \in SUBSET Projects, NEW limit,
         NEW T \in Trims(Archived(db, S), limit), NEW t \in T
  PROVE  t \in Tasks /\ db[t].life = "live"
  <1> DEFINE d == Archived(db, S)
             p == ProjectOf[t]
  <1>1. t \in Tasks /\ p \in Projects /\ t \in T \cap TasksOf(p) /\ t \notin S
    BY Disjoint DEF Trims, TasksOf
  <1>2. T \cap TasksOf(p) \subseteq OpenTasks(d, p)
    BY <1>1 DEF Trims
  <1>3. d[t].life = "live"
    BY <1>1, <1>2 DEF OpenTasks, IsActiveTask
  <1> QED
    BY <1>1, <1>3 DEF Archived, Docs

(* The projects and tasks a user restores are live.                        *)
LEMMA ChosenLive ==
  ASSUME NEW docs \in RestoreChoices
  PROVE  docs \in SUBSET (Projects \cup Tasks) /\ \A x \in docs : db[x].life = "live"
  <1>1. docs \in SUBSET (RestoreCandidates \cup Tasks)
    BY DEF RestoreChoices
  <1>2. ASSUME NEW x \in docs, x \in Tasks
        PROVE  db[x].life = "live"
    <2> DEFINE p == ProjectOf[x]
    <2>1. p \in Projects /\ x \in docs \cap TasksOf(p)
      BY <1>2, Disjoint DEF TasksOf
    <2>2. docs \cap TasksOf(p) \in TasksBack(p, docs)
      BY <2>1 DEF RestoreChoices
    <2>3. docs \cap TasksOf(p) \subseteq PlanArchivedTasks(db, p)
      BY <2>1, <2>2 DEF TasksBack, AsMany, UpTo
    <2> QED
      BY <2>1, <2>3 DEF PlanArchivedTasks, LiveTasks
  <1> QED
    BY <1>1, <1>2 DEF RestoreCandidates

(* Every request about the plan keeps the counter exact.                   *)
LEMMA PlanRequestSlots ==
  ASSUME SlotsInv, TypeOK', NEW r \in Requests, PlanRequest(r)
  PROVE  SlotsInv'
  <1>1. CASE \E plan \in Plans : ChangePlan(r, plan)
    BY <1>1, PlanChangeRight, BeginNewSlots DEF ChangePlan
  <1>2. CASE ArchiveExcessForFree(r)
    <2> DEFINE Extra(keep) == Consuming(db) \ keep
               outcomes ==
                 UNION {{Recounted(Extra(keep), T) :
                           T \in Trims(Archived(db, Extra(keep)), TaskLimit[Free])} :
                        keep \in AsMany(ProjectLimit[Free], Consuming(db))}
    <2>1. ASSUME NEW w \in outcomes PROVE StillRight(db, w)
      <3>1. PICK keep : w \in {Recounted(Extra(keep), T) :
                T \in Trims(Archived(db, Extra(keep)), TaskLimit[Free])}
        OBVIOUS
      <3>2. PICK T \in Trims(Archived(db, Extra(keep)), TaskLimit[Free]) :
              w = Recounted(Extra(keep), T)
        BY <3>1
      <3>3. Extra(keep) \in SUBSET Consuming(db) /\ Extra(keep) \in SUBSET Projects
        BY DEF Consuming
      <3> HIDE DEF Extra
      <3>4. T \in SUBSET Tasks /\ \A t \in T : db[t].life = "live"
        BY <3>3, TrimsLive DEF SlotsInv
      <3> QED
        BY <3>2, <3>3, <3>4, RecountedRight
    <2>2. BeginNew(r, "archiveExcess", outcomes)
      BY <1>2 DEF ArchiveExcessForFree
    <2> HIDE DEF outcomes
    <2> QED
      BY <2>1, <2>2, BeginNewSlots
  <1>3. CASE RestorePlanArchived(r)
    <2>1. \A w \in {Restored(docs) : docs \in RestoreChoices} : StillRight(db, w)
      BY ChosenLive, RestoredRight
    <2> QED
      BY <1>3, <2>1, BeginNewSlots DEF RestorePlanArchived
  <1> QED
    BY <1>1, <1>2, <1>3 DEF PlanRequest

(* A commit keeps the counter exact.                                       *)
LEMMA CommitSlots ==
  ASSUME SlotsInv, TypeOK', NEW r \in Requests, Commit(r)
  PROVE  SlotsInv'
  <1> DEFINE w == req[r].writes
  <1>1. IsRunning(r) /\ Install(w)
    BY DEF Commit
  <1>2. WritesOK(w) /\ StillRight(db, w)
    BY <1>1, WritesTypedOf DEF SlotsInv
  <1>3. \A q \in Requests : req'[q] = Idle \/ req'[q] = AfterCommit(req[q], w)
    BY DEF Commit
  <1> HIDE DEF w
  <1> QED
    BY <1>1, <1>2, <1>3, InstallSlots

(* The expiry of the plan keeps the counter exact.                         *)
LEMMA ExpirePlanSlots ==
  ASSUME SlotsInv, TypeOK', ExpirePlan
  PROVE  SlotsInv'
  <1> DEFINE w == Writes([db EXCEPT ![Org].plan = Free], {Org})
  <1>1. WritesOK(w) /\ StillRight(db, w)
    BY UsageAssumption, PlanChangeRight
  <1>2. Install(w) /\ req' = [q \in Requests |-> AfterCommit(req[q], w)]
    BY DEF ExpirePlan
  <1>3. \A q \in Requests : req'[q] = AfterCommit(req[q], w)
    BY <1>2
  <1> HIDE DEF w
  <1> QED
    BY <1>1, <1>2, <1>3, InstallSlots

(* A step that only ends a request, or touches none.                       *)
LEMMA QuietSlots ==
  ASSUME SlotsInv, TypeOK', db' = db,
         \A q \in Requests : req'[q] = req[q] \/ req'[q] = Idle
  PROVE  SlotsInv'
  <1>1. SlotsExact' /\ TasksHaveProjects(db')
    BY DEF SlotsInv, SlotsExact, TasksHaveProjects
  <1>2. ASSUME NEW q \in Requests
        PROVE  /\ FromOK(db', From(q)')
               /\ IsRunning(q)' => StillRight(db', req'[q].writes)
    <2>1. CASE req'[q] = req[q]
      <3>1. From(q)' = From(q) /\ (IsRunning(q)' <=> IsRunning(q))
        BY <2>1 DEF From, IsRunning
      <3> QED
        BY <2>1, <3>1, SlotsInvParts
    <2>2. CASE req'[q] = Idle
      <3>1. ~IsRunning(q)' /\ From(q)' = Idle
        BY <2>2 DEF IsRunning, From, Idle
      <3> QED
        BY <3>1 DEF FromOK
    <2> QED
      BY <2>1, <2>2
  <1> QED
    BY <1>1, <1>2 DEF SlotsInv, TasksHaveProjects, FromOK, From

-----------------------------------------------------------------------------
(* The sweeps of the bin are not among the requests.                       *)
NoSweeps == {"purgeExpiredProjects", "purgeExpiredTasks"} \cap Ops = {}

(* Every step keeps the counter exact.                                     *)
LEMMA StepSlots ==
  ASSUME NoSweeps
  PROVE  SlotsInv /\ [Next]_vars => SlotsInv'
  <1> SUFFICES ASSUME SlotsInv, [Next]_vars PROVE SlotsInv'
    OBVIOUS
  <1>0. TypeOK /\ TypeOK' /\ DOMAIN req = Requests
        /\ "purgeExpiredProjects" \notin Ops /\ "purgeExpiredTasks" \notin Ops
    BY StepTyped DEF SlotsInv, TypeOK, NoSweeps
  <1>1. ASSUME NEW r \in Requests, NEW p \in Projects, ProjectRequest(r, p)
        PROVE  SlotsInv'
    BY <1>0, <1>1, ProjectRequestSlots
  <1>2. ASSUME NEW r \in Requests, NEW t \in Tasks, TaskRequest(r, t)
        PROVE  SlotsInv'
    BY <1>0, <1>2, TaskRequestSlots
  <1>3. ASSUME NEW r \in Requests, Callback(r) PROVE SlotsInv'
    BY <1>0, <1>3, CallbackSlots
  <1>4. ASSUME NEW r \in Requests, PlanRequest(r) PROVE SlotsInv'
    BY <1>0, <1>4, PlanRequestSlots
  <1>5. ASSUME NEW r \in Requests, Commit(r) PROVE SlotsInv'
    BY <1>0, <1>5, CommitSlots
  <1>6. ASSUME NEW r \in Requests, Abort(r) PROVE SlotsInv'
    <2>1. db' = db /\ \A q \in Requests : req'[q] = req[q] \/ req'[q] = Idle
      BY <1>0, <1>6 DEF Abort
    <2> QED
      BY <1>0, <2>1, QuietSlots
  <1>7. CASE ExpirePlan
    BY <1>0, <1>7, ExpirePlanSlots
  <1>8. ASSUME NEW x \in Projects \cup Tasks, Age(x) PROVE SlotsInv'
    BY <1>0, <1>8, QuietSlots DEF Age
  <1>9. CASE UNCHANGED vars
    BY <1>0, <1>9, QuietSlots DEF vars
  <1> QED
    BY <1>1, <1>2, <1>3, <1>4, <1>5, <1>6, <1>7, <1>8, <1>9 DEF Next

(* A new workspace has no projects and counts none.                        *)
LEMMA InitSlots == Init => SlotsInv
  <1> SUFFICES ASSUME Init PROVE SlotsInv
    OBVIOUS
  <1>1. TypeOK
    BY InitTyped
  <1>2. /\ db[Org].projectCount = 0
        /\ \A x \in Projects \cup Tasks : db[x].life = "none"
    BY Disjoint DEF Init, Docs
  <1>3. Consuming(db) = {}
    BY <1>2 DEF Consuming, Consumes
  <1>4. SlotsExact
    BY <1>2, <1>3, FS_EmptySet DEF SlotsExact
  <1>5. \A r \in Requests : req[r] = Idle /\ ~IsRunning(r)
    BY DEF Init, IsRunning, Idle
  <1> QED
    BY <1>1, <1>2, <1>4, <1>5 DEF SlotsInv

(* The inductive invariant, in a workspace whose bin is not swept.         *)
THEOREM SlotsInvCorrect ==
  ASSUME NoSweeps
  PROVE  Spec => []SlotsInv
  BY InitSlots, StepSlots, PTL DEF Spec

(* The slot counter of the organization is the number of projects that     *)
(* take a slot, whatever requests of projects.service.ts, tasks.service.ts *)
(* and orgs.service.ts run together and wherever they fail, except for the *)
(* sweeps of the bin, which can delete a project restored meanwhile and    *)
(* leave its slot counted.                                                 *)
THEOREM SlotsCorrect ==
  ASSUME NoSweeps
  PROVE  Spec => []SlotsExact
  <1>1. SlotsInv => SlotsExact
    BY DEF SlotsInv
  <1> QED
    BY <1>1, SlotsInvCorrect, PTL

-----------------------------------------------------------------------------
(* No slot over the plan.                                                  *)

(* The slots that writes w add fit the plan that w leaves.                 *)
RoomOK(w) ==
  Org \in DOMAIN w /\ w[Org].projectCount > db[Org].projectCount
    => w[Org].projectCount <= ProjectLimit[w[Org].plan]

SlotRoom == TypeOK /\ \A r \in Requests : IsRunning(r) => RoomOK(req[r].writes)

(* A callback whose outcomes fit keeps SlotRoom.                           *)
LEMMA BeginRoom ==
  ASSUME SlotRoom, TypeOK', NEW r \in Requests, NEW op, NEW chk, NEW outcomes, NEW open,
         \A w \in outcomes : RoomOK(w),
         Begin(r, op, chk, outcomes, open)
  PROVE  SlotRoom' /\ db' = db
  <1>1. PICK w \in outcomes : req' = [req EXCEPT ![r] = Running(op, chk, w, open)]
    BY DEF Begin
  <1>2. db' = db /\ DOMAIN req = Requests
    BY DEF Begin, SlotRoom, TypeOK
  <1>3. ASSUME NEW q \in Requests, IsRunning(q)' PROVE RoomOK(req[q].writes)'
    <2>1. CASE q = r
      BY <1>1, <1>2, <2>1 DEF Running, RoomOK
    <2>2. CASE q # r
      BY <1>1, <1>2, <1>3, <2>2 DEF SlotRoom, IsRunning, RoomOK
    <2> QED
      BY <2>1, <2>2
  <1> QED
    BY <1>2, <1>3 DEF SlotRoom

(* The same for a request that opens its transaction at once.              *)
LEMMA BeginNewRoom ==
  ASSUME SlotRoom, TypeOK', NEW r \in Requests, NEW op, NEW outcomes,
         \A w \in outcomes : RoomOK(w), BeginNew(r, op, outcomes)
  PROVE  SlotRoom' /\ db' = db
  BY BeginRoom DEF BeginNew

(* The same for a request that has read its document.                      *)
LEMMA ResumeRoom ==
  ASSUME SlotRoom, TypeOK', NEW r \in Requests, NEW outcomes, NEW open,
         \A w \in outcomes : RoomOK(w), Resume(r, outcomes, open)
  PROVE  SlotRoom' /\ db' = db
  BY BeginRoom DEF Resume

(* Steps that start no transaction keep SlotRoom.                          *)
LEMMA QuietRoom ==
  ASSUME SlotRoom, TypeOK', db' = db,
         \A q \in Requests : req'[q] = req[q] \/ req'[q].st # "running"
  PROVE  SlotRoom'
  BY DEF SlotRoom, IsRunning, RoomOK

(* A read before the transaction keeps SlotRoom.                           *)
LEMMA CheckRoom ==
  ASSUME SlotRoom, TypeOK', NEW r \in Requests, NEW op, NEW doc, NEW counts,
         Check(r, op, doc, counts)
  PROVE  SlotRoom' /\ db' = db
  <1>1. db' = db /\ DOMAIN req = Requests
        /\ req' = [req EXCEPT ![r] = Checked(op, doc, counts)]
    BY DEF Check, SlotRoom, TypeOK
  <1>2. \A q \in Requests : req'[q] = req[q] \/ req'[q].st # "running"
    BY <1>1 DEF Checked
  <1> QED
    BY <1>1, <1>2, QuietRoom

(* A commit keeps SlotRoom: those that write the organization too start    *)
(* again.                                                                  *)
LEMMA InstallRoom ==
  ASSUME SlotRoom, TypeOK', NEW w, WritesOK(w), RoomOK(w), Install(w),
         \A q \in Requests : \/ req'[q] = Idle
                             \/ req'[q] = AfterCommit(req[q], w)
  PROVE  /\ SlotRoom'
         /\ db'[Org].projectCount > db[Org].projectCount
              => db'[Org].projectCount <= ProjectLimit[db'[Org].plan]
  <1>1. db'[Org] = IF Org \in DOMAIN w THEN w[Org] ELSE db[Org]
    BY DEF Install, Apply, Docs
  <1>2. ASSUME NEW q \in Requests, IsRunning(q)' PROVE RoomOK(req[q].writes)'
    <2>1. req'[q].st = "running" /\ req'[q] = AfterCommit(req[q], w)
      BY <1>2 DEF IsRunning, Idle
    <2>2. RequestOK(req[q]) /\ req[q].st = "running"
      BY <2>1 DEF SlotRoom, TypeOK, AfterCommit
    <2>3. DOMAIN req[q] = {"st", "op", "chk", "writes", "open", "plans"}
          /\ (req[q].chk = Idle \/ CheckedOK(req[q].chk))
      BY <2>2 DEF RequestOK, Idle, CheckedOK
    <2>4. req[q].chk.st # "running"
      BY <2>3 DEF Idle, CheckedOK
    <2>5. req'[q].writes = req[q].writes /\ DOMAIN req[q].writes \cap DOMAIN w = {}
      BY <2>1, <2>2, <2>3, <2>4 DEF AfterCommit
    <2>6. RoomOK(req[q].writes)
      BY <2>2 DEF SlotRoom, IsRunning
    <2> QED
      BY <1>1, <2>5, <2>6 DEF RoomOK
  <1>3. SlotRoom'
    BY <1>2 DEF SlotRoom
  <1>4. CASE Org \in DOMAIN w
    BY <1>1, <1>3, <1>4 DEF RoomOK
  <1>5. CASE Org \notin DOMAIN w
    <2>1. db[Org].projectCount \in Int
      BY DEF SlotRoom, TypeOK, Docs, DocOK, OrgDocs
    <2>2. db'[Org].projectCount = db[Org].projectCount
      BY <1>1, <1>5
    <2> QED
      BY <1>3, <2>1, <2>2
  <1> QED
    BY <1>4, <1>5

(* Writes that leave the organization alone fit.                           *)
LEMMA NoOrgRoom ==
  ASSUME NEW w, Org \notin DOMAIN w
  PROVE  RoomOK(w)
  BY DEF RoomOK

(* reserveProjectSlot takes a slot below the limit only.                   *)
LEMMA OneMoreRoom ==
  ASSUME TypeOK, NEW image, DbOK(image), image[Org] = db[Org], HasSlot(db), NEW docs
  PROVE  RoomOK(Writes(Count(image, 1), docs))
  <1>1. /\ Count(image, 1)[Org].projectCount = db[Org].projectCount + 1
        /\ Count(image, 1)[Org].plan = db[Org].plan
        /\ db[Org].projectCount \in Int /\ db[Org].plan \in Plans
    BY Disjoint DEF Count, DbOK, DocOK, Docs, OrgDocs
  <1>2. ProjectLimit[db[Org].plan] \in Nat
    BY <1>1, UsageAssumption
  <1> QED
    BY <1>1, <1>2 DEF RoomOK, Writes, HasSlot

(* syncProjectSlot takes a slot below the limit only.                      *)
LEMMA SlotWritesRoom ==
  ASSUME TypeOK, NEW p \in Projects, NEW image, DbOK(image), image[Org] = db[Org],
         NEW docs, Org \notin docs
  PROVE  \A w \in SlotWrites(p, image, docs) : RoomOK(w)
  <1> DEFINE locked == docs \cup Lock(p)
  <1>1. RoomOK(Writes(image, locked))
    BY Disjoint, NoOrgRoom DEF Lock, Writes
  <1>2. RoomOK(Writes(Count(image, -1), locked \cup {Org}))
    <2>1. /\ Count(image, -1)[Org].projectCount = db[Org].projectCount - 1
          /\ db[Org].projectCount \in Int
      BY Disjoint DEF Count, DbOK, DocOK, Docs, OrgDocs
    <2> QED
      BY <2>1 DEF RoomOK, Writes
  <1>3. HasSlot(db) => RoomOK(Writes(Count(image, 1), locked \cup {Org}))
    BY OneMoreRoom
  <1> HIDE DEF locked
  <1>4. \A w \in SlotWrites(p, image, docs) :
          \/ w = Writes(image, locked)
          \/ w = Writes(Count(image, -1), locked \cup {Org})
          \/ HasSlot(db) /\ w = Writes(Count(image, 1), locked \cup {Org})
    BY DEF SlotWrites, locked
  <1> QED
    BY <1>1, <1>2, <1>3, <1>4

(* The archival after a grace period counts the projects it keeps, which    *)
(* the Free plan has room for.                                             *)
LEMMA RecountedRoom ==
  ASSUME TypeOK, db[Org].plan = Free,
         NEW keep \in AsMany(ProjectLimit[Free], Consuming(db)),
         NEW T \in SUBSET Tasks
  PROVE  /\ RoomOK(Recounted(Consuming(db) \ keep, T))
         /\ Recounted(Consuming(db) \ keep, T)[Org].projectCount <= ProjectLimit[Free]
  <1> DEFINE S == Consuming(db) \ keep
             d == Archived(db, S \cup T)
             n == Cardinality(Consuming(d))
             image == [d EXCEPT ![Org].projectCount = n]
             w == Writes(image, S \cup T \cup {Org})
  <1>1. DbOK(d) /\ S \subseteq Projects /\ Org \notin S \cup T /\ w = Recounted(S, T)
    BY ArchivedTyped, Disjoint DEF Consuming, Recounted
  <1>2. \A x \in Docs : d[x] = IF x \in S \cup T THEN [db[x] EXCEPT !.arch = "plan"]
                              ELSE db[x]
    BY DEF Archived
  <1>3. ASSUME NEW q \in Projects, Consumes(d, q)
        PROVE  q \in keep
    <2>1. q \in Docs /\ DocOK(q, db[q])
      BY DEF TypeOK, Docs
    <2>2. q \notin S
      BY <1>2, <1>3, <2>1 DEF Consumes, DocOK, ProjectDocs
    <2>3. d[q] = db[q]
      BY <1>2, <2>1, <2>2, Disjoint
    <2>4. ASSUME NEW t \in TasksOf(q)
          PROVE  d[t].life = db[t].life /\ d[t].status = db[t].status
      <3>1. t \in Docs /\ t \in Tasks /\ DocOK(t, db[t])
        BY DEF TypeOK, Docs, TasksOf
      <3>2. d[t] = db[t] \/ d[t] = [db[t] EXCEPT !.arch = "plan"]
        BY <1>2, <3>1
      <3> HIDE DEF d
      <3> QED
        BY <3>1, <3>2 DEF DocOK, TaskDocs
    <2> HIDE DEF d
    <2>5. Consumes(db, q)
      BY <1>3, <2>3, <2>4 DEF Consumes
    <2> QED
      BY <2>2, <2>5 DEF Consuming
  <1>4. n <= ProjectLimit[Free]
    <2>1. ProjectLimit[Free] \in Nat /\ n \in Nat
      BY UsageAssumption, ConsumingCard
    <2>2. keep \subseteq Consuming(db) /\ (keep = {} \/ Cardinality(keep) <= ProjectLimit[Free])
      BY DEF AsMany, UpTo
    <2>3. IsFiniteSet(keep) /\ Cardinality(keep) \in Nat
      BY <2>2, ConsumingCard, FS_Subset, FS_CardinalityType
    <2>4. Cardinality(keep) <= ProjectLimit[Free]
      BY <2>1, <2>2, FS_EmptySet
    <2>5. Consuming(d) \subseteq keep
      BY <1>3 DEF Consuming
    <2>6. n <= Cardinality(keep)
      BY <2>3, <2>5, FS_Subset
    <2> HIDE DEF n
    <2> QED
      BY <2>1, <2>3, <2>4, <2>6
  <1>5. d[Org] = db[Org]
    BY <1>1, <1>2, Disjoint DEF Docs
  <1>6. image[Org].projectCount = n /\ image[Org].plan = Free
    <2>1. Org \in DOMAIN d /\ d[Org] \in OrgDocs /\ d[Org].plan = Free
      BY <1>1, <1>5 DEF DbOK, Docs, DocOK
    <2> HIDE DEF d, n
    <2> QED
      BY <2>1 DEF OrgDocs
  <1> HIDE DEF image, n
  <1>7. RoomOK(w) /\ w[Org].projectCount <= ProjectLimit[Free]
    BY <1>4, <1>6 DEF RoomOK, Writes
  <1> HIDE DEF w
  <1> QED
    BY <1>1, <1>7 DEF S

(* A restoration takes no more slots than it chooses projects.             *)
LEMMA RestoredRoom ==
  ASSUME TypeOK, NEW docs \in RestoreChoices
  PROVE  RoomOK(Restored(docs))
  <1> DEFINE d == [x \in Docs |->
                     IF x \in docs THEN [db[x] EXCEPT !.arch = "no"] ELSE db[x]]
             n == Cardinality(Consuming(d)) - Cardinality(Consuming(db))
             image == Count(d, n)
             written == docs \cup {x \in {Org} : n > 0}
             w == Writes(image, written)
             back == docs \cap Projects
             room == ProjectLimit[db[Org].plan] - db[Org].projectCount
  <1>1. /\ docs \in SUBSET (Projects \cup Tasks)
        /\ back = {} \/ Cardinality(back) <= room
        /\ Org \notin docs
    BY ChosenLive, Disjoint DEF RestoreChoices, UpTo
  <1>2. w = Restored(docs)
    BY DEF Restored
  <1>3. DbOK(d) /\ d[Org] = db[Org]
    BY <1>1, Disjoint DEF TypeOK, DbOK, DocOK, Docs, ProjectDocs, TaskDocs, Archive
  <1>4. ASSUME NEW q \in Projects, q \notin docs, Consumes(d, q)
        PROVE  Consumes(db, q)
    <2>1. d[q] = db[q]
      BY <1>4 DEF Docs
    <2>2. ASSUME NEW t \in TasksOf(q)
          PROVE  d[t].life = db[t].life /\ d[t].status = db[t].status
      <3>1. t \in Docs /\ t \in Tasks /\ DocOK(t, db[t])
        BY DEF TypeOK, Docs, TasksOf
      <3>2. d[t] = db[t] \/ d[t] = [db[t] EXCEPT !.arch = "no"]
        BY <3>1
      <3> HIDE DEF d
      <3> QED
        BY <3>1, <3>2 DEF DocOK, TaskDocs
    <2> HIDE DEF d
    <2> QED
      BY <1>4, <2>1, <2>2 DEF Consumes
  <1> HIDE DEF d
  <1>5. /\ n \in Int /\ IsFiniteSet(Consuming(db)) /\ IsFiniteSet(back)
        /\ Cardinality(Consuming(d)) \in Nat /\ Cardinality(Consuming(db)) \in Nat
        /\ Cardinality(back) \in Nat
    <2>1. IsFiniteSet(back)
      BY UsageAssumption, FS_Subset
    <2> QED
      BY <2>1, ConsumingCard, FS_CardinalityType
  <1>6. n <= Cardinality(back)
    <2>1. Consuming(d) \subseteq Consuming(db) \cup back
      BY <1>4 DEF Consuming
    <2>2. IsFiniteSet(Consuming(db) \cup back)
          /\ Cardinality(Consuming(db) \cup back)
               <= Cardinality(Consuming(db)) + Cardinality(back)
      <3>1. /\ IsFiniteSet(Consuming(db) \cap back)
            /\ Cardinality(Consuming(db) \cap back) \in Nat
        BY <1>5, FS_Intersection, FS_CardinalityType
      <3>2. /\ IsFiniteSet(Consuming(db) \cup back)
            /\ Cardinality(Consuming(db) \cup back) =
                 Cardinality(Consuming(db)) + Cardinality(back)
                   - Cardinality(Consuming(db) \cap back)
        BY <1>5, FS_Union
      <3> QED
        BY <1>5, <3>1, <3>2
    <2>3. Cardinality(Consuming(d)) <= Cardinality(Consuming(db) \cup back)
      BY <2>1, <2>2, FS_Subset
    <2>4. Cardinality(Consuming(db) \cup back) \in Nat
      BY <2>2, FS_CardinalityType
    <2> QED
      BY <1>5, <2>2, <2>3, <2>4
  <1>7. /\ db[Org].projectCount \in Int /\ ProjectLimit[db[Org].plan] \in Nat
    BY UsageAssumption DEF TypeOK, Docs, DocOK, OrgDocs
  <1>8. image[Org].projectCount = db[Org].projectCount + n
        /\ image[Org].plan = db[Org].plan
    <2> HIDE DEF n
    <2> QED
      BY <1>3, <1>5, Disjoint DEF Count, DbOK, DocOK, Docs, OrgDocs
  <1>9. n > 0 => db[Org].projectCount + n <= ProjectLimit[db[Org].plan]
    <2>1. back = {} => Cardinality(back) = 0
      BY FS_EmptySet
    <2> HIDE DEF n, back
    <2> QED
      BY <1>1, <1>5, <1>6, <1>7, <2>1
  <1>10. Org \in DOMAIN w => n > 0 /\ w[Org] = image[Org]
    <2> HIDE DEF n, image
    <2> QED BY <1>1 DEF Writes
  <1> HIDE DEF n, image, w
  <1> QED
    BY <1>2, <1>8, <1>9, <1>10 DEF RoomOK

(* Every request keeps SlotRoom and leaves the documents alone until it    *)
(* commits.                                                                *)
LEMMA ProjectRequestRoom ==
  ASSUME SlotRoom, TypeOK', NEW r \in Requests, NEW p \in Projects, ProjectRequest(r, p)
  PROVE  SlotRoom' /\ db' = db
  <1>0. TypeOK /\ DbOK(db) /\ p \in Docs /\ p # Org /\ Org \notin {p}
    BY TypedDb, Disjoint DEF SlotRoom, Docs
  <1> USE DEF Lives, Archive
  <1>1. CASE CreateProject(r, p)
    <2> DEFINE image == [db EXCEPT ![p] = NewProject]
    <2>1. DbOK(image) /\ image[Org] = db[Org]
      BY <1>0, NewImage DEF DbOK, Docs
    <2>2. HasSlot(db) /\ BeginNew(r, "createProject", {Writes(Count(image, 1), {p, Org})})
      BY <1>1 DEF CreateProject
    <2> HIDE DEF image
    <2>3. RoomOK(Writes(Count(image, 1), {p, Org}))
      BY <1>0, <2>1, <2>2, OneMoreRoom
    <2> QED
      BY <2>2, <2>3, BeginNewRoom
  <1>2. ASSUME NEW op, NEW v \in Lives,
               BeginNew(r, op, SlotWrites(p, [db EXCEPT ![p].life = v], {p}))
        PROVE  SlotRoom' /\ db' = db
    <2> DEFINE image == [db EXCEPT ![p].life = v]
    <2>1. DbOK(image)
      BY <1>0, ProjectImage
    <2>2. image[Org] = db[Org]
      BY <1>0 DEF DbOK, Docs
    <2>3. BeginNew(r, op, SlotWrites(p, image, {p}))
      BY <1>2
    <2> HIDE DEF image
    <2>4. \A w \in SlotWrites(p, image, {p}) : RoomOK(w)
      BY <1>0, <2>1, <2>2, SlotWritesRoom
    <2> QED
      BY <2>3, <2>4, BeginNewRoom
  <1>8. ASSUME NEW op, NEW v \in Archive,
               BeginNew(r, op, SlotWrites(p, [db EXCEPT ![p].arch = v], {p}))
        PROVE  SlotRoom' /\ db' = db
    <2> DEFINE image == [db EXCEPT ![p].arch = v]
    <2>1. DbOK(image)
      BY <1>0, ProjectImage
    <2>2. image[Org] = db[Org]
      BY <1>0 DEF DbOK, Docs
    <2>3. BeginNew(r, op, SlotWrites(p, image, {p}))
      BY <1>8
    <2> HIDE DEF image
    <2>4. \A w \in SlotWrites(p, image, {p}) : RoomOK(w)
      BY <1>0, <2>1, <2>2, SlotWritesRoom
    <2> QED
      BY <2>3, <2>4, BeginNewRoom
  <1>3. CASE ArchiveProject(r, p) \/ UnarchiveProject(r, p)
    BY <1>8, <1>3 DEF ArchiveProject, UnarchiveProject
  <1>4. CASE MoveProjectToBin(r, p) \/ RestoreProject(r, p)
    BY <1>2, <1>4 DEF MoveProjectToBin, RestoreProject
  <1>5. CASE DeleteProjectPermanently(r, p)
    <2>1. Org \notin DOMAIN Destroyed(p)
      BY Disjoint DEF Destroyed, TasksOf
    <2> QED
      BY <1>5, <2>1, NoOrgRoom, BeginNewRoom DEF DeleteProjectPermanently
  <1>6. CASE FindExpiredProject(r, p)
    BY <1>6, CheckRoom DEF FindExpiredProject
  <1>7. CASE KeepProjectArchived(r, p)
    <2> DEFINE docs == {p} \cup {t \in LiveTasks(db, p) : db[t].arch = "plan"}
               w == [x \in docs |-> [db[x] EXCEPT !.arch = "manual"]]
    <2>1. RoomOK(w)
      BY Disjoint, NoOrgRoom DEF LiveTasks, TasksOf
    <2>2. BeginNew(r, "keepPlanArchived", {w})
      BY <1>7 DEF KeepProjectArchived
    <2> HIDE DEF w
    <2> QED
      BY <2>1, <2>2, BeginNewRoom
  <1> QED
    BY <1>1, <1>3, <1>4, <1>5, <1>6, <1>7 DEF ProjectRequest

(* The same of the first steps of requests about a task.                   *)
LEMMA TaskRequestRoom ==
  ASSUME SlotRoom, TypeOK', NEW r \in Requests, NEW t \in Tasks, TaskRequest(r, t)
  PROVE  SlotRoom' /\ db' = db
  <1>1. CASE DeleteTaskPermanently(r, t)
    <2>1. Org \notin DOMAIN DestroyedTask(t)
      BY Disjoint DEF DestroyedTask
    <2> QED
      BY <1>1, <2>1, NoOrgRoom, BeginNewRoom DEF DeleteTaskPermanently
  <1>2. CASE KeepTaskArchived(r, t)
    <2>1. RoomOK(Writes([db EXCEPT ![t].arch = "manual"], {t}))
      BY Disjoint, NoOrgRoom DEF Writes
    <2> QED
      BY <1>2, <2>1, BeginNewRoom DEF KeepTaskArchived
  <1>3. CASE \/ CheckCreateTask(r, t)
             \/ \E op \in DOMAIN StatusBefore : CheckUpdateTask(r, t, op)
             \/ CheckArchiveTask(r, t) \/ CheckUnarchiveTask(r, t)
             \/ CheckMoveTaskToBin(r, t) \/ CheckRestoreTask(r, t)
             \/ FindExpiredTask(r, t)
    BY <1>3, CheckRoom DEF CheckCreateTask, CheckUpdateTask, CheckArchiveTask,
         CheckUnarchiveTask, CheckMoveTaskToBin, CheckRestoreTask, FindExpiredTask
  <1> QED
    BY <1>1, <1>2, <1>3 DEF TaskRequest

(* The same of a callback that changes one task and syncs the slot.        *)
LEMMA TaskSyncRoom ==
  ASSUME SlotRoom, TypeOK', NEW r \in Requests, NEW t \in Tasks, NEW open,
         NEW image, DbOK(image), image[Org] = db[Org],
         Resume(r, SlotWrites(ProjectOf[t], image, {t}), open)
  PROVE  SlotRoom' /\ db' = db
  <1>1. \A w \in SlotWrites(ProjectOf[t], image, {t}) : RoomOK(w)
    BY Disjoint, SlotWritesRoom DEF SlotRoom
  <1> QED
    BY <1>1, ResumeRoom

(* The same of every callback.                                             *)
LEMMA CallbackRoom ==
  ASSUME SlotRoom, TypeOK', NEW r \in Requests, Callback(r)
  PROVE  SlotRoom' /\ db' = db
  <1> DEFINE t == req[r].doc
             p == ProjectOf[t]
  <1>0. TypeOK /\ DbOK(db)
    BY TypedDb DEF SlotRoom
  <1> USE DEF Lives, Archive
  <1>1. CASE CreateTask(r)
    <2> DEFINE image == [db EXCEPT ![t] = NewTask]
    <2>1. t \in Tasks
      BY <1>0, <1>1, CheckedTask DEF CreateTask
    <2>2. DbOK(image)
      BY <1>0, <2>1, NewImage
    <2>3. image[Org] = db[Org]
      BY <1>0, <2>1, Disjoint DEF DbOK, Docs
    <2>4. Resume(r, SlotWrites(p, image, {t}), OpenCount(db, p))
      BY <1>1 DEF CreateTask
    <2> HIDE DEF image, t
    <2> QED
      BY <2>1, <2>2, <2>3, <2>4, TaskSyncRoom
  <1>2. CASE \E op \in DOMAIN StatusBefore : UpdateTask(r, op)
    <2>0. PICK op \in DOMAIN StatusBefore : UpdateTask(r, op)
      BY <1>2
    <2> DEFINE image == [db EXCEPT ![t].status = StatusAfter[op]]
               open == IF op = "reopenTask" THEN OpenCount(db, p) ELSE NoRoomCheck
    <2>1. t \in Tasks
      BY <1>0, <2>0, CheckedTask DEF UpdateTask, StatusBefore
    <2>2. DbOK(image)
      <3>1. StatusAfter[op] \in {"open", "done"}
        BY DEF StatusBefore, StatusAfter
      <3> QED
        BY <1>0, <2>1, <3>1, TaskImage
    <2>3. image[Org] = db[Org]
      BY <1>0, <2>1, Disjoint DEF DbOK, Docs
    <2>4. Resume(r, SlotWrites(p, image, {t}), open)
      BY <2>0 DEF UpdateTask
    <2> HIDE DEF image, t, open
    <2> QED
      BY <2>1, <2>2, <2>3, <2>4, TaskSyncRoom
  <1>3. CASE ArchiveTask(r)
    <2>1. t \in Tasks
      BY <1>0, <1>3, CheckedTask DEF ArchiveTask
    <2> DEFINE w == Writes([db EXCEPT ![t].arch = "manual"], {t})
    <2>2. RoomOK(w)
      BY <2>1, Disjoint, NoOrgRoom DEF Writes
    <2>3. Resume(r, {w}, NoRoomCheck)
      BY <1>3 DEF ArchiveTask
    <2> HIDE DEF w
    <2> QED
      BY <2>2, <2>3, ResumeRoom
  <1>4. CASE UnarchiveTask(r)
    <2> DEFINE docs == IF req[r].counts THEN {t} \cup Lock(p) ELSE {t}
               w == Writes([db EXCEPT ![t].arch = "no"], docs)
               open == IF req[r].counts THEN OpenCount(db, p) ELSE NoRoomCheck
    <2>1. t \in Tasks /\ p \in Projects
      BY <1>0, <1>4, CheckedTask DEF UnarchiveTask
    <2>2. Org \notin docs
      BY <2>1, Disjoint DEF Lock
    <2>3. RoomOK(w)
      BY <2>2, NoOrgRoom DEF Writes
    <2>4. Resume(r, {w}, open)
      BY <1>4 DEF UnarchiveTask
    <2> HIDE DEF w, open
    <2> QED
      BY <2>3, <2>4, ResumeRoom
  <1>5. CASE MoveTaskToBin(r)
    <2> DEFINE image == [db EXCEPT ![t].life = "bin"]
    <2>1. t \in Tasks
      BY <1>0, <1>5, CheckedTask DEF MoveTaskToBin
    <2>2. DbOK(image)
      BY <1>0, <2>1, TaskImage
    <2>3. image[Org] = db[Org]
      BY <1>0, <2>1, Disjoint DEF DbOK, Docs
    <2>4. Resume(r, SlotWrites(p, image, {t}), NoRoomCheck)
      BY <1>5 DEF MoveTaskToBin
    <2> HIDE DEF image, t
    <2> QED
      BY <2>1, <2>2, <2>3, <2>4, TaskSyncRoom
  <1>6. CASE RestoreTask(r)
    <2> DEFINE image == [db EXCEPT ![t].life = "live"]
               open == IF req[r].counts THEN OpenCount(db, p) ELSE NoRoomCheck
    <2>1. t \in Tasks
      BY <1>0, <1>6, CheckedTask DEF RestoreTask
    <2>2. DbOK(image)
      BY <1>0, <2>1, TaskImage
    <2>3. image[Org] = db[Org]
      BY <1>0, <2>1, Disjoint DEF DbOK, Docs
    <2>4. Resume(r, SlotWrites(p, image, {t}), open)
      BY <1>6 DEF RestoreTask
    <2> HIDE DEF image, t, open
    <2> QED
      BY <2>1, <2>2, <2>3, <2>4, TaskSyncRoom
  <1>7. CASE PurgeProject(r)
    <2>1. t \in Projects
      BY <1>0, <1>7 DEF PurgeProject, AtBegin, TypeOK, RequestOK, CheckedOK, Idle
    <2>2. Org \notin DOMAIN Destroyed(t)
      BY <2>1, Disjoint DEF Destroyed, TasksOf
    <2> QED
      BY <1>7, <2>2, NoOrgRoom, ResumeRoom DEF PurgeProject
  <1>8. CASE PurgeTask(r)
    <2>1. t \in Tasks
      BY <1>0, <1>8, CheckedTask DEF PurgeTask
    <2>2. Org \notin DOMAIN DestroyedTask(t)
      BY <2>1, Disjoint DEF DestroyedTask
    <2> QED
      BY <1>8, <2>2, NoOrgRoom, ResumeRoom DEF PurgeTask
  <1> QED
    BY <1>1, <1>2, <1>3, <1>4, <1>5, <1>6, <1>7, <1>8 DEF Callback

(* Writes that change the plan only leave the counter.                     *)
LEMMA PlanChangeRoom ==
  ASSUME TypeOK, NEW plan \in Plans
  PROVE  /\ WritesOK(Writes([db EXCEPT ![Org].plan = plan], {Org}))
         /\ RoomOK(Writes([db EXCEPT ![Org].plan = plan], {Org}))
  <1> DEFINE image == [db EXCEPT ![Org].plan = plan]
  <1>0. DbOK(db) /\ Org \in Docs
    BY TypedDb DEF Docs
  <1>1. DbOK(image)
    BY <1>0, Disjoint DEF DbOK, DocOK, Docs, OrgDocs
  <1>2. image[Org].projectCount = db[Org].projectCount /\ db[Org].projectCount \in Int
    BY <1>0, Disjoint DEF DbOK, DocOK, OrgDocs
  <1> HIDE DEF image
  <1>3. WritesOK(Writes(image, {Org}))
    BY <1>0, <1>1, WritesTyped
  <1>4. RoomOK(Writes(image, {Org}))
    BY <1>2 DEF RoomOK, Writes
  <1> QED
    BY <1>3, <1>4 DEF image

(* The same of the requests about the plan.                                *)
LEMMA PlanRequestRoom ==
  ASSUME SlotRoom, TypeOK', NEW r \in Requests, PlanRequest(r)
  PROVE  SlotRoom' /\ db' = db
  <1>0. TypeOK
    BY DEF SlotRoom
  <1>1. CASE \E plan \in Plans : ChangePlan(r, plan)
    BY <1>0, <1>1, PlanChangeRoom, BeginNewRoom DEF ChangePlan
  <1>2. CASE ArchiveExcessForFree(r)
    <2> DEFINE Extra(keep) == Consuming(db) \ keep
               outcomes ==
                 UNION {{Recounted(Extra(keep), T) :
                           T \in Trims(Archived(db, Extra(keep)), TaskLimit[Free])} :
                        keep \in AsMany(ProjectLimit[Free], Consuming(db))}
    <2>1. ASSUME NEW w \in outcomes PROVE RoomOK(w)
      <3>1. PICK keep \in AsMany(ProjectLimit[Free], Consuming(db)) :
              w \in {Recounted(Extra(keep), T) :
                T \in Trims(Archived(db, Extra(keep)), TaskLimit[Free])}
        OBVIOUS
      <3>2. PICK T \in Trims(Archived(db, Extra(keep)), TaskLimit[Free]) :
              w = Recounted(Extra(keep), T)
        BY <3>1
      <3>3. T \in SUBSET Tasks
        BY DEF Trims
      <3>4. db[Org].plan = Free
        BY <1>2 DEF ArchiveExcessForFree
      <3> QED
        BY <1>0, <3>2, <3>3, <3>4, RecountedRoom
    <2>2. BeginNew(r, "archiveExcess", outcomes)
      BY <1>2 DEF ArchiveExcessForFree
    <2> HIDE DEF outcomes
    <2> QED
      BY <2>1, <2>2, BeginNewRoom
  <1>3. CASE RestorePlanArchived(r)
    <2>1. \A w \in {Restored(docs) : docs \in RestoreChoices} : RoomOK(w)
      BY <1>0, RestoredRoom
    <2> QED
      BY <1>3, <2>1, BeginNewRoom DEF RestorePlanArchived
  <1> QED
    BY <1>1, <1>2, <1>3 DEF PlanRequest

(* What NoSlotOverPlan asks of one step.                                   *)
RoomStep ==
  db'[Org].projectCount > db[Org].projectCount =>
    db'[Org].projectCount <= ProjectLimit[db'[Org].plan]

(* A step that leaves the documents alone takes no slot.                   *)
LEMMA SameDbRoom ==
  ASSUME TypeOK, db' = db
  PROVE  RoomStep
  <1>1. db[Org].projectCount \in Int
    BY DEF TypeOK, Docs, DocOK, OrgDocs
  <1> QED
    BY <1>1 DEF RoomStep

(* Every step keeps SlotRoom and takes a slot within the plan only.        *)
LEMMA StepRoom == SlotRoom /\ [Next]_vars => SlotRoom' /\ RoomStep
  <1> SUFFICES ASSUME SlotRoom, [Next]_vars PROVE SlotRoom' /\ RoomStep
    OBVIOUS
  <1>0. TypeOK /\ TypeOK' /\ DOMAIN req = Requests
    BY StepTyped DEF SlotRoom, TypeOK
  <1>1. ASSUME NEW r \in Requests, NEW p \in Projects, ProjectRequest(r, p)
        PROVE  SlotRoom' /\ RoomStep
    BY <1>0, <1>1, ProjectRequestRoom, SameDbRoom
  <1>2. ASSUME NEW r \in Requests, NEW t \in Tasks, TaskRequest(r, t)
        PROVE  SlotRoom' /\ RoomStep
    BY <1>0, <1>2, TaskRequestRoom, SameDbRoom
  <1>3. ASSUME NEW r \in Requests, Callback(r) PROVE SlotRoom' /\ RoomStep
    BY <1>0, <1>3, CallbackRoom, SameDbRoom
  <1>4. ASSUME NEW r \in Requests, PlanRequest(r) PROVE SlotRoom' /\ RoomStep
    BY <1>0, <1>4, PlanRequestRoom, SameDbRoom
  <1>5. ASSUME NEW r \in Requests, Commit(r) PROVE SlotRoom' /\ RoomStep
    <2> DEFINE w == req[r].writes
    <2>1. IsRunning(r) /\ Install(w)
      BY <1>5 DEF Commit
    <2>2. WritesOK(w) /\ RoomOK(w)
      BY <1>0, <2>1, WritesTypedOf DEF SlotRoom
    <2>3. \A q \in Requests : req'[q] = Idle \/ req'[q] = AfterCommit(req[q], w)
      BY <1>5 DEF Commit
    <2> HIDE DEF w
    <2> QED
      BY <1>0, <2>1, <2>2, <2>3, InstallRoom DEF RoomStep
  <1>6. ASSUME NEW r \in Requests, Abort(r) PROVE SlotRoom' /\ RoomStep
    <2>1. db' = db /\ \A q \in Requests : req'[q] = req[q] \/ req'[q].st # "running"
      BY <1>0, <1>6 DEF Abort, Idle
    <2> QED
      BY <1>0, <2>1, QuietRoom, SameDbRoom
  <1>7. CASE ExpirePlan
    <2> DEFINE w == Writes([db EXCEPT ![Org].plan = Free], {Org})
    <2>1. WritesOK(w) /\ RoomOK(w)
      BY <1>0, UsageAssumption, PlanChangeRoom
    <2>2. Install(w) /\ req' = [q \in Requests |-> AfterCommit(req[q], w)]
      BY <1>7 DEF ExpirePlan
    <2>3. \A q \in Requests : req'[q] = AfterCommit(req[q], w)
      BY <2>2
    <2> HIDE DEF w
    <2> QED
      BY <1>0, <2>1, <2>2, <2>3, InstallRoom DEF RoomStep
  <1>8. ASSUME NEW x \in Projects \cup Tasks, Age(x) PROVE SlotRoom' /\ RoomStep
    BY <1>0, <1>8, QuietRoom, SameDbRoom DEF Age
  <1>9. CASE UNCHANGED vars
    BY <1>0, <1>9, QuietRoom, SameDbRoom DEF vars
  <1> QED
    BY <1>1, <1>2, <1>3, <1>4, <1>5, <1>6, <1>7, <1>8, <1>9 DEF Next

(* No step takes a slot the plan does not have: reserveProjectSlot and     *)
(* syncProjectSlot increment the counter under the limit only, and the     *)
(* plan cannot change between the check and the commit. Whatever the       *)
(* requests are, the sweeps of the bin included.                           *)
THEOREM SlotsWithinPlan == Spec => NoSlotOverPlan
  <1>1. Init => SlotRoom
    BY InitTyped DEF Init, SlotRoom, IsRunning, Idle
  <1>2. SlotRoom /\ [Next]_vars => SlotRoom' /\ [RoomStep]_vars
    BY StepRoom
  <1>3. Spec => [][RoomStep]_vars
    BY <1>1, <1>2, PTL DEF Spec
  <1> QED
    BY <1>3 DEF NoSlotOverPlan, RoomStep

-----------------------------------------------------------------------------
(* What a transaction leaves of projects and of the tasks in them. Writes  *)
(* w are a callback's, computed on a snapshot; the documents d are those   *)
(* of now.                                                                 *)

(* Nothing is uncreated, nothing gone is brought back.                     *)
KeepsLives(d, w) ==
  \A x \in DOMAIN w \ {Org} : w[x].life # "none" /\ d[x].life # "gone"

(* Whoever destroys a project destroys every task that is stored in it.    *)
TakesTasks(d, w) ==
  \A p \in DOMAIN w \cap Projects : w[p].life = "gone" =>
    \A t \in TasksOf(p) :
      IF t \in DOMAIN w THEN w[t].life = "gone" ELSE ~Stored(d, t)

(* Whoever creates a task writes its project, unless it is gone.           *)
KnowsProject(d, w) ==
  \A t \in DOMAIN w \cap Tasks :
    /\ d[ProjectOf[t]].life # "none"
    /\ d[t].life = "none" =>
         ProjectOf[t] \in DOMAIN w \/ d[ProjectOf[t]].life = "gone"

Lasting(d, w) == KeepsLives(d, w) /\ TakesTasks(d, w) /\ KnowsProject(d, w)

CreatesNone(d, w) == \A t \in DOMAIN w \cap Tasks : d[t].life # "none"

SparesProjects(w) == \A p \in DOMAIN w \cap Projects : w[p].life # "gone"

(* A transaction without a room check fills no place under a task limit,   *)
(* one with it fills at most one, in a project it holds and that has no    *)
(* more open tasks than it counted, unless the project is gone.            *)
FillsNone(d, w) ==
  \A t \in DOMAIN w \cap Tasks : IsActiveTask(w[t]) => IsActiveTask(d[t])

FillsOne(d, w, open) ==
  \E t \in Tasks :
    /\ DOMAIN w \cap Tasks = {t}
    /\ d[ProjectOf[t]].life # "gone" =>
         ProjectOf[t] \in DOMAIN w /\ OpenCount(d, ProjectOf[t]) <= open

Fills(d, w, open) ==
  IF open = NoRoomCheck THEN FillsNone(d, w) ELSE open \in Nat /\ FillsOne(d, w, open)

(* No project comes into use with open tasks, unless the counter is        *)
(* written too.                                                            *)
UsesNone(d, w) ==
  \/ Org \in DOMAIN w
  \/ \A p \in DOMAIN w \cap Projects :
       InUse(w, p) => InUse(d, p) \/ OpenTasks(d, p) = {}

(* The archival after a grace period, on the Free plan.                    *)
Enforces(d, w, open) ==
  /\ open = NoRoomCheck
  /\ Org \in DOMAIN w
  /\ d[Org].plan = Free
  /\ w[Org].projectCount <= ProjectLimit[Free]
  /\ OverTaskLimit(Apply(d, w), TaskLimit[Free]) = {}

(* Requests that destroy projects, and that bring tasks back without a     *)
(* check of the room there is now.                                         *)
Destroying == {"deleteProjectPermanently", "purgeExpiredProjects"}
TaskReturns == {"unarchiveTask", "restoreTask", "restorePlanArchived"}

(* What is so of the outcome of every callback.                            *)
Outcome(op, w, open) ==
  /\ Lasting(db, w)
  /\ op # "createTask" => CreatesNone(db, w)
  /\ op \notin Destroying => SparesProjects(w)
  /\ op \notin TaskReturns => Fills(db, w, open)
  /\ op # "restorePlanArchived" => UsesNone(db, w)
  /\ op = "archiveExcess" => Enforces(db, w, open) /\ GraceOver

(* A request that has read a task knows that it has a project.             *)
Rooted ==
  /\ TypeOK
  /\ TasksHaveProjects(db)
  /\ \A r \in Requests : FromOK(db, From(r))

(* The invariants. Every transaction under way still keeps tasks with      *)
(* their project;                                                          *)
LeftOK(d, q) ==
  /\ q.op \in Ops
  /\ Lasting(d, q.writes)
  /\ q.op # "createTask" => CreatesNone(d, q.writes)

LeftInv ==
  /\ Rooted
  /\ \A r \in Requests : IsRunning(r) => LeftOK(db, req[r])

(* and fills the places it counted;                                        *)
PlacesOK(d, q) == Fills(d, q.writes, q.open)

PlacesInv ==
  /\ LeftInv
  /\ \A r \in Requests : IsRunning(r) => PlacesOK(db, req[r])

(* and an archival would still leave the workspace within the Free plan.   *)
EnforceOK(d, q) ==
  /\ UsesNone(d, q.writes)
  /\ q.op = "archiveExcess" => Enforces(d, q.writes, q.open)

EnforceInv ==
  /\ PlacesInv
  /\ \A r \in Requests : IsRunning(r) => EnforceOK(db, req[r])
  /\ \A r \in Requests : IsRunning(r) /\ req[r].op = "archiveExcess" => GraceOver

(* Where no project is deleted for good.                                   *)
KeptInv ==
  /\ LeftInv
  /\ \A p \in Projects : db[p].life # "gone"
  /\ \A r \in Requests : IsRunning(r) => SparesProjects(req[r].writes)

-----------------------------------------------------------------------------
(* Outcomes.                                                               *)

LEMMA RootedTyped ==
  ASSUME Rooted
  PROVE  /\ TypeOK /\ DbOK(db)
         /\ \A t \in Tasks : db[t].life # "none" => db[ProjectOf[t]].life # "none"
  BY TypedDb DEF Rooted, TasksHaveProjects

(* What syncProjectSlot writes: documents of the image, those that changed *)
(* and the project's, and perhaps the counter.                             *)
LEMMA SyncDocs ==
  ASSUME NEW p \in Projects, NEW image, DbOK(image),
         NEW docs \in SUBSET (Projects \cup Tasks),
         NEW w \in SlotWrites(p, image, docs)
  PROVE  /\ docs \cup Lock(p) \subseteq DOMAIN w
         /\ DOMAIN w \subseteq docs \cup Lock(p) \cup {Org}
         /\ \A x \in docs \cup Lock(p) : w[x] = image[x]
  <1> DEFINE locked == docs \cup Lock(p)
             down == Count(image, -1)
             up == Count(image, 1)
  <1>1. \A x \in locked : x \in Projects \cup Tasks
    BY DEF Lock
  <1>2. \A x \in locked : down[x] = image[x] /\ up[x] = image[x]
    BY <1>1, CountSame
  <1>3. \/ w = Writes(image, locked)
        \/ w = Writes(down, locked \cup {Org})
        \/ w = Writes(up, locked \cup {Org})
    BY DEF SlotWrites
  <1> HIDE DEF down, up
  <1>4. \/ DOMAIN w = locked /\ \A x \in locked : w[x] = image[x]
        \/ DOMAIN w = locked \cup {Org} /\ \A x \in locked : w[x] = down[x]
        \/ DOMAIN w = locked \cup {Org} /\ \A x \in locked : w[x] = up[x]
    BY <1>3 DEF Writes
  <1> HIDE DEF locked
  <1>5. locked \subseteq DOMAIN w /\ DOMAIN w \subseteq locked \cup {Org}
        /\ \A x \in locked : w[x] = image[x]
    BY <1>2, <1>4
  <1> QED
    BY <1>5 DEF locked

(* A change of one project, alone or with the counter.                     *)
LEMMA ProjectLasts ==
  ASSUME NEW p \in Projects, NEW w, db[p].life # "gone",
         p \in DOMAIN w, DOMAIN w \subseteq {p, Org}, w[p].life \in {"live", "bin"}
  PROVE  /\ Lasting(db, w) /\ CreatesNone(db, w) /\ SparesProjects(w) /\ Fills(db, w, NoRoomCheck)
         /\ (InUse(w, p) => InUse(db, p)) => UsesNone(db, w)
  BY Disjoint DEF Lasting, KeepsLives, TakesTasks, KnowsProject, CreatesNone,
                  SparesProjects, Fills, FillsNone, UsesNone

(* A change of one task, with its project and perhaps the counter.         *)
LEMMA TaskLasts ==
  ASSUME NEW t \in Tasks, NEW w, db[ProjectOf[t]].life # "none", db[t].life # "gone",
         t \in DOMAIN w, DOMAIN w \subseteq {t, ProjectOf[t], Org}, w[t].life # "none",
         ProjectOf[t] \in DOMAIN w => Stored(db, ProjectOf[t]) /\ w[ProjectOf[t]] = db[ProjectOf[t]],
         db[t].life = "none" => ProjectOf[t] \in DOMAIN w \/ db[ProjectOf[t]].life = "gone"
  PROVE  /\ Lasting(db, w) /\ SparesProjects(w) /\ UsesNone(db, w)
         /\ db[t].life # "none" => CreatesNone(db, w)
         /\ (IsActiveTask(w[t]) => IsActiveTask(db[t])) => Fills(db, w, NoRoomCheck)
         /\ (db[ProjectOf[t]].life # "gone" => ProjectOf[t] \in DOMAIN w)
              => Fills(db, w, OpenCount(db, ProjectOf[t]))
  <1> DEFINE p == ProjectOf[t]
  <1>1. p \in Projects /\ p # Org /\ t # Org /\ t # p /\ p \notin Tasks /\ t \notin Projects
    BY Disjoint
  <1>2. DOMAIN w \cap Tasks = {t} /\ DOMAIN w \cap Projects \subseteq {p}
    BY <1>1, Disjoint
  <1>3. KeepsLives(db, w)
    BY <1>1 DEF KeepsLives, Stored
  <1>4. SparesProjects(w) /\ TakesTasks(db, w)
    BY <1>2 DEF SparesProjects, TakesTasks, Stored
  <1>5. KnowsProject(db, w)
    BY <1>2 DEF KnowsProject
  <1>6. UsesNone(db, w)
    BY <1>2 DEF UsesNone, InUse
  <1>7. db[t].life # "none" => CreatesNone(db, w)
    BY <1>2 DEF CreatesNone
  <1>8. (IsActiveTask(w[t]) => IsActiveTask(db[t])) => Fills(db, w, NoRoomCheck)
    BY <1>2 DEF Fills, FillsNone
  <1>9. (db[p].life # "gone" => p \in DOMAIN w) => Fills(db, w, OpenCount(db, p))
    <2>1. OpenCount(db, p) \in Nat
      BY OpenCountType
    <2>2. OpenCount(db, p) # NoRoomCheck /\ OpenCount(db, p) <= OpenCount(db, p)
      BY <2>1 DEF NoRoomCheck
    <2> QED
      BY <1>2, <2>1, <2>2 DEF Fills, FillsOne
  <1> QED
    BY <1>3, <1>4, <1>5, <1>6, <1>7, <1>8, <1>9 DEF Lasting

(* Documents that are there and keep their life.                           *)
LEMMA ArchLasts ==
  ASSUME Rooted, NEW w, KeepsViews(w, DOMAIN w \ {Org})
  PROVE  Lasting(db, w) /\ CreatesNone(db, w) /\ SparesProjects(w)
  <1>1. \A x \in DOMAIN w \ {Org} : db[x].life \in {"live", "bin"} /\ w[x].life = db[x].life
    BY DEF KeepsViews
  <1>2. \A p \in DOMAIN w \cap Projects : p \in DOMAIN w \ {Org} /\ w[p].life # "gone"
    BY <1>1, Disjoint
  <1>3. \A t \in DOMAIN w \cap Tasks : t \in DOMAIN w \ {Org} /\ db[t].life # "none"
    BY <1>1, Disjoint
  <1>4. KeepsLives(db, w)
    BY <1>1 DEF KeepsLives
  <1>5. TakesTasks(db, w) /\ SparesProjects(w)
    BY <1>2 DEF TakesTasks, SparesProjects
  <1>6. KnowsProject(db, w) /\ CreatesNone(db, w)
    BY <1>3, RootedTyped DEF KnowsProject, CreatesNone
  <1> QED
    BY <1>4, <1>5, <1>6 DEF Lasting

(* destroyProject takes the tasks with the project.                        *)
LEMMA DestroyedLasts ==
  ASSUME Rooted, NEW p \in Projects
  PROVE  /\ Lasting(db, Destroyed(p)) /\ CreatesNone(db, Destroyed(p))
         /\ Fills(db, Destroyed(p), NoRoomCheck) /\ UsesNone(db, Destroyed(p))
  <1> DEFINE w == Destroyed(p)
  <1>1. /\ DOMAIN w = {y \in {p} \cup TasksOf(p) : Stored(db, y)}
        /\ \A x \in DOMAIN w : w[x].life = "gone"
    <2>1. \A x \in {p} \cup TasksOf(p) : "life" \in DOMAIN db[x]
      BY Disjoint, RootedTyped DEF TypeOK, DocOK, Docs, TasksOf, ProjectDocs, TaskDocs
    <2> QED
      BY <2>1 DEF Destroyed
  <1>2. /\ DOMAIN w \cap Projects \subseteq {p}
        /\ \A t \in DOMAIN w \cap Tasks : ProjectOf[t] = p /\ db[t].life # "none"
    BY <1>1, Disjoint DEF TasksOf, Stored
  <1>3. KeepsLives(db, w)
    BY <1>1 DEF KeepsLives, Stored
  <1>4. TakesTasks(db, w)
    BY <1>1, <1>2 DEF TakesTasks
  <1>5. KnowsProject(db, w) /\ CreatesNone(db, w)
    BY <1>2, RootedTyped DEF KnowsProject, CreatesNone
  <1>6. Fills(db, w, NoRoomCheck)
    BY <1>1 DEF Fills, FillsNone, IsActiveTask
  <1>7. UsesNone(db, w)
    BY <1>1 DEF UsesNone, InUse
  <1> HIDE DEF w
  <1>8. Lasting(db, w) /\ CreatesNone(db, w) /\ Fills(db, w, NoRoomCheck) /\ UsesNone(db, w)
    BY <1>3, <1>4, <1>5, <1>6, <1>7 DEF Lasting
  <1> QED
    BY <1>8 DEF w

(* destroyTask                                                             *)
LEMMA DestroyedTaskLasts ==
  ASSUME Rooted, NEW t \in Tasks
  PROVE  /\ Lasting(db, DestroyedTask(t)) /\ CreatesNone(db, DestroyedTask(t))
         /\ SparesProjects(DestroyedTask(t)) /\ UsesNone(db, DestroyedTask(t))
         /\ Fills(db, DestroyedTask(t), NoRoomCheck)
  <1> DEFINE w == DestroyedTask(t)
  <1>1. /\ DOMAIN w = {y \in {t} : Stored(db, y)}
        /\ \A x \in DOMAIN w : w[x].life = "gone"
    <2>1. "life" \in DOMAIN db[t]
      BY RootedTyped, Disjoint DEF TypeOK, DocOK, Docs, TaskDocs
    <2> QED
      BY <2>1 DEF DestroyedTask
  <1>2. DOMAIN w \cap Projects = {} /\ \A x \in DOMAIN w : x = t /\ Stored(db, t)
    BY <1>1, Disjoint
  <1>3. KeepsLives(db, w) /\ TakesTasks(db, w) /\ SparesProjects(w) /\ UsesNone(db, w)
    BY <1>1, <1>2 DEF KeepsLives, TakesTasks, SparesProjects, UsesNone, Stored
  <1>4. KnowsProject(db, w) /\ CreatesNone(db, w)
    BY <1>2, RootedTyped DEF KnowsProject, CreatesNone, Stored
  <1>5. Fills(db, w, NoRoomCheck)
    BY <1>1 DEF Fills, FillsNone, IsActiveTask
  <1> HIDE DEF w
  <1>6. Lasting(db, w) /\ CreatesNone(db, w) /\ SparesProjects(w) /\ UsesNone(db, w) /\ Fills(db, w, NoRoomCheck)
    BY <1>3, <1>4, <1>5 DEF Lasting
  <1> QED
    BY <1>6 DEF w

(* Writes of the organization alone.                                       *)
LEMMA OrgLasts ==
  ASSUME NEW w, DOMAIN w = {Org}
  PROVE  /\ Lasting(db, w) /\ CreatesNone(db, w) /\ SparesProjects(w) /\ UsesNone(db, w)
         /\ Fills(db, w, NoRoomCheck)
  BY Disjoint DEF Lasting, KeepsLives, TakesTasks, KnowsProject, CreatesNone,
                  SparesProjects, UsesNone, Fills, FillsNone

(* The archival after a grace period leaves single documents as they are,  *)
(* but for the archive mark.                                               *)
LEMMA RecountedDocs ==
  ASSUME Rooted, NEW S \in SUBSET Projects, NEW T \in SUBSET Tasks
  PROVE  /\ DOMAIN Recounted(S, T) = S \cup T \cup {Org}
         /\ \A x \in S \cup T :
              /\ Recounted(S, T)[x].arch = "plan"
              /\ Recounted(S, T)[x].life = db[x].life
              /\ x \in Tasks => Recounted(S, T)[x].status = db[x].status
  <1> DEFINE d == Archived(db, S \cup T)
             n == Cardinality(Consuming(d))
             image == [d EXCEPT ![Org].projectCount = n]
             w == Writes(image, S \cup T \cup {Org})
  <1>1. \A x \in S \cup T :
          /\ x \in DOMAIN d /\ x # Org
          /\ d[x].arch = "plan" /\ d[x].life = db[x].life
          /\ x \in Tasks => d[x].status = db[x].status
    <2>1. ASSUME NEW x \in S \cup T
          PROVE  /\ x \in DOMAIN d /\ x # Org
                 /\ d[x].arch = "plan" /\ d[x].life = db[x].life
                 /\ x \in Tasks => d[x].status = db[x].status
      <3>1. x \in Docs /\ x # Org /\ DocOK(x, db[x])
        BY RootedTyped, Disjoint DEF Docs, DbOK
      <3>2. DOMAIN d = Docs /\ d[x] = [db[x] EXCEPT !.arch = "plan"]
        BY <3>1 DEF Archived
      <3>3. PICK doc : doc = db[x]
        OBVIOUS
      <3>4. doc \in ProjectDocs \/ doc \in TaskDocs
        BY <3>1, <3>3 DEF DocOK
      <3>5. x \in Tasks => doc \in TaskDocs
        BY <3>1, <3>3 DEF DocOK
      <3>6. /\ [doc EXCEPT !.arch = "plan"].arch = "plan"
            /\ [doc EXCEPT !.arch = "plan"].life = doc.life
            /\ x \in Tasks => [doc EXCEPT !.arch = "plan"].status = doc.status
        BY <3>4, <3>5 DEF ProjectDocs, TaskDocs
      <3> HIDE DEF d
      <3> QED
        BY <3>1, <3>2, <3>3, <3>6
    <2> HIDE DEF d
    <2> QED BY <2>1
  <1> HIDE DEF d, n
  <1>2. \A x \in S \cup T : image[x] = d[x]
    BY <1>1
  <1> HIDE DEF image
  <1>3. DOMAIN w = S \cup T \cup {Org} /\ \A x \in S \cup T : w[x] = d[x]
    BY <1>2 DEF Writes
  <1>4. w = Recounted(S, T)
    BY DEF Recounted, image, d, n
  <1> HIDE DEF w
  <1>5. \A x \in S \cup T :
          /\ w[x].arch = "plan" /\ w[x].life = db[x].life
          /\ x \in Tasks => w[x].status = db[x].status
    BY <1>1, <1>3
  <1> QED
    BY <1>3, <1>4, <1>5

(* A larger set of open tasks is no smaller.                               *)
LEMMA OpenSubset ==
  ASSUME NEW d, NEW e, NEW p, NEW q, OpenTasks(e, q) \subseteq OpenTasks(d, p)
  PROVE  OpenCount(e, q) <= OpenCount(d, p)
  <1>1. IsFiniteSet(OpenTasks(d, p))
    BY UsageAssumption, FS_Subset DEF OpenTasks, TasksOf
  <1> QED
    BY <1>1, FS_Subset DEF OpenCount

(* Trimming every project in use leaves none over the limit.               *)
LEMMA RecountedFits ==
  ASSUME Rooted, NEW S \in SUBSET Projects,
         NEW T \in Trims(Archived(db, S), TaskLimit[Free])
  PROVE  OverTaskLimit(Apply(db, Recounted(S, T)), TaskLimit[Free]) = {}
  <1> DEFINE w == Recounted(S, T)
             e == Apply(db, w)
             d == Archived(db, S)
             limit == TaskLimit[Free]
  <1>0. T \in SUBSET Tasks /\ limit \in Nat
    BY UsageAssumption DEF Trims
  <1>1. /\ DOMAIN w = S \cup T \cup {Org}
        /\ \A x \in S \cup T : w[x].arch = "plan"
    BY <1>0, RecountedDocs
  <1> HIDE DEF w
  <1>2. \A x \in Projects \cup Tasks :
          e[x] = IF x \in S \cup T THEN w[x] ELSE db[x]
    BY <1>1, Disjoint DEF Apply, Docs
  <1>3. \A x \in Projects \cup Tasks : x \notin S => d[x] = db[x]
    BY DEF Archived, Docs
  <1> SUFFICES ASSUME NEW p \in Projects, InUse(e, p)
               PROVE  ~(OpenCount(e, p) > limit)
    BY DEF OverTaskLimit, w
  <1> HIDE DEF e, d, limit
  <1>4. p \notin S /\ p \notin T
    BY <1>0, <1>1, <1>2, Disjoint DEF InUse
  <1>5. InUse(d, p)
    BY <1>2, <1>3, <1>4 DEF InUse
  <1>6. ASSUME NEW t \in OpenTasks(e, p)
        PROVE  t \in OpenTasks(d, p) /\ t \notin T
    <2>1. t \in Tasks /\ t \in TasksOf(p) /\ t \notin S /\ IsActiveTask(e[t])
      BY Disjoint DEF OpenTasks, TasksOf
    <2>2. t \notin T
      BY <1>1, <1>2, <2>1 DEF IsActiveTask
    <2>3. d[t] = e[t]
      BY <1>2, <1>3, <2>1, <2>2
    <2> QED
      BY <2>1, <2>2, <2>3 DEF OpenTasks
  <1>7. OpenCount(e, p) \in Nat /\ OpenCount(d, p) \in Nat
    BY OpenCountType
  <1>8. CASE p \in OverTaskLimit(d, limit)
    <2>1. PICK keep \in AsMany(limit, OpenTasks(d, p)) :
            T \cap TasksOf(p) = OpenTasks(d, p) \ keep
      BY <1>8 DEF Trims, d, limit
    <2>2. OpenTasks(e, p) \subseteq keep
      BY <1>6, <2>1 DEF OpenTasks
    <2>3. keep \subseteq OpenTasks(d, p) /\ (keep = {} \/ Cardinality(keep) <= limit)
      BY DEF AsMany, UpTo
    <2>4. IsFiniteSet(keep)
      BY <2>3, UsageAssumption, FS_Subset DEF OpenTasks, TasksOf
    <2>5. Cardinality(keep) \in Nat /\ Cardinality(keep) <= limit
      BY <1>0, <2>3, <2>4, FS_EmptySet, FS_CardinalityType DEF limit
    <2>6. OpenCount(e, p) <= Cardinality(keep)
      BY <2>2, <2>4, FS_Subset DEF OpenCount
    <2> QED
      BY <1>0, <1>7, <2>5, <2>6 DEF limit
  <1>9. CASE p \notin OverTaskLimit(d, limit)
    <2>1. ~(OpenCount(d, p) > limit)
      BY <1>5, <1>9 DEF OverTaskLimit
    <2>2. OpenCount(e, p) <= OpenCount(d, p)
      BY <1>6, OpenSubset
    <2> QED
      BY <1>0, <1>7, <2>1, <2>2 DEF limit
  <1> QED
    BY <1>8, <1>9

(* archiveExcessForFree                                                    *)
LEMMA RecountedLasts ==
  ASSUME Rooted, db[Org].plan = Free,
         NEW keep \in AsMany(ProjectLimit[Free], Consuming(db)),
         NEW T \in Trims(Archived(db, Consuming(db) \ keep), TaskLimit[Free])
  PROVE  LET w == Recounted(Consuming(db) \ keep, T)
         IN  /\ Lasting(db, w) /\ CreatesNone(db, w) /\ SparesProjects(w)
             /\ Fills(db, w, NoRoomCheck) /\ UsesNone(db, w) /\ Enforces(db, w, NoRoomCheck)
  <1> DEFINE S == Consuming(db) \ keep
             w == Recounted(S, T)
  <1>1. S \in SUBSET Projects /\ \A x \in S : db[x].life = "live"
    BY DEF Consuming, Consumes
  <1>2. T \in SUBSET Tasks /\ \A t \in T : db[t].life = "live"
    <2>1. T \in SUBSET Tasks
      BY DEF Trims
    <2> HIDE DEF S
    <2>2. ASSUME NEW t \in T PROVE db[t].life = "live"
      BY <1>1, TrimsLive, RootedTyped DEF S
    <2> QED
      BY <2>1, <2>2
  <1> HIDE DEF S
  <1>3. /\ DOMAIN w = S \cup T \cup {Org}
        /\ \A x \in S \cup T :
             /\ w[x].arch = "plan"
             /\ w[x].life = db[x].life
             /\ x \in Tasks => w[x].status = db[x].status
    BY <1>1, <1>2, RecountedDocs
  <1>4. OverTaskLimit(Apply(db, w), TaskLimit[Free]) = {}
    BY <1>1, RecountedFits DEF S
  <1>5. w[Org].projectCount <= ProjectLimit[Free]
    BY <1>2, RootedTyped, RecountedRoom DEF S
  <1> HIDE DEF w
  <1>6. DOMAIN w \ {Org} \subseteq S \cup T
    BY <1>3
  <1>7. KeepsViews(w, DOMAIN w \ {Org})
    BY <1>1, <1>2, <1>3, <1>6 DEF KeepsViews
  <1>8. Lasting(db, w) /\ CreatesNone(db, w) /\ SparesProjects(w)
    BY <1>7, ArchLasts
  <1>9. Fills(db, w, NoRoomCheck)
    BY <1>3, Disjoint DEF Fills, FillsNone, IsActiveTask
  <1>10. UsesNone(db, w) /\ Enforces(db, w, NoRoomCheck)
    BY <1>3, <1>4, <1>5 DEF UsesNone, Enforces
  <1> QED
    BY <1>8, <1>9, <1>10 DEF w, S

(* restorePlanArchivedProjects                                             *)
LEMMA RestoredLasts ==
  ASSUME Rooted, NEW docs \in RestoreChoices
  PROVE  Lasting(db, Restored(docs)) /\ CreatesNone(db, Restored(docs))
         /\ SparesProjects(Restored(docs))
  <1> DEFINE d == [x \in Docs |->
                     IF x \in docs THEN [db[x] EXCEPT !.arch = "no"] ELSE db[x]]
             n == Cardinality(Consuming(d)) - Cardinality(Consuming(db))
             image == Count(d, n)
             written == docs \cup {x \in {Org} : n > 0}
             w == Writes(image, written)
  <1>0. TypeOK /\ DbOK(db)
    BY RootedTyped
  <1>1. docs \in SUBSET (Projects \cup Tasks) /\ \A x \in docs : db[x].life = "live"
    BY ChosenLive
  <1>11. docs \in SUBSET (Projects \cup Tasks)
    BY <1>1
  <1>2. DbOK(d)
    BY <1>0, <1>11, Disjoint DEF TypeOK, DbOK, DocOK, Docs, ProjectDocs, TaskDocs, Archive
  <1>3. \A x \in docs : d[x].life = db[x].life /\ (x \in Tasks => d[x].status = db[x].status)
    BY <1>0, <1>1, Disjoint DEF DbOK, DocOK, Docs, ProjectDocs, TaskDocs
  <1> HIDE DEF d
  <1>4. n \in Int
    BY ConsumingCard
  <1> HIDE DEF n
  <1>5. \A x \in docs : image[x] = d[x]
    BY <1>1, <1>2, <1>4, CountSame
  <1> HIDE DEF image
  <1>6. DOMAIN w \ {Org} \subseteq docs /\ \A x \in DOMAIN w \ {Org} : w[x] = image[x]
    BY DEF Writes
  <1>7. w = Restored(docs)
    BY DEF Restored, image, n, d
  <1> HIDE DEF w
  <1>8. KeepsViews(w, DOMAIN w \ {Org})
    BY <1>1, <1>3, <1>5, <1>6 DEF KeepsViews
  <1> QED
    BY <1>7, <1>8, ArchLasts

(* A change of one project by a callback that syncs its slot.              *)
LEMMA ProjectOutcome ==
  ASSUME Rooted, NEW p \in Projects, db[p].life \in {"live", "bin"},
         NEW image, DbOK(image), image[p].life \in {"live", "bin"},
         NEW op, op # "archiveExcess",
         \/ InUse(image, p) => InUse(db, p)
         \/ \A t \in Tasks : image[t] = db[t]
  PROVE  \A w \in SlotWrites(p, image, {p}) : Outcome(op, w, NoRoomCheck)
  <1> SUFFICES ASSUME NEW w \in SlotWrites(p, image, {p})
               PROVE  Outcome(op, w, NoRoomCheck)
    OBVIOUS
  <1>1. p \in DOMAIN w /\ DOMAIN w \subseteq {p, Org} /\ w[p] = image[p]
    <2>1. {p} \in SUBSET (Projects \cup Tasks) /\ Lock(p) \subseteq {p}
      BY DEF Lock
    <2> QED
      BY <2>1, SyncDocs
  <1>2. /\ Lasting(db, w) /\ CreatesNone(db, w) /\ SparesProjects(w) /\ Fills(db, w, NoRoomCheck)
        /\ (InUse(w, p) => InUse(db, p)) => UsesNone(db, w)
    BY <1>1, ProjectLasts
  <1>3. CASE InUse(image, p) => InUse(db, p)
    <2>1. UsesNone(db, w)
      BY <1>1, <1>2, <1>3 DEF InUse
    <2> QED
      BY <1>2, <2>1 DEF Outcome
  <1>4. CASE ~InUse(db, p) /\ \A t \in Tasks : image[t] = db[t]
    <2>1. CASE Org \in DOMAIN w
      BY <1>2, <2>1 DEF Outcome, UsesNone
    <2>2. CASE Org \notin DOMAIN w
      <3>1. Consumes(image, p) = Consumes(db, p)
        BY <2>2 DEF SlotWrites, Writes
      <3>2. ~Consumes(db, p)
        BY <1>4 DEF Consumes, InUse
      <3>3. InUse(image, p) => OpenTasks(db, p) = {}
        BY <1>4, <3>1, <3>2 DEF Consumes, InUse, OpenTasks, TasksOf, IsActiveTask
      <3>4. UsesNone(db, w)
        BY <1>1, <3>3, Disjoint DEF UsesNone, InUse
      <3> QED
        BY <1>2, <3>4 DEF Outcome
    <2> QED
      BY <2>1, <2>2
  <1> QED
    BY <1>3, <1>4

-----------------------------------------------------------------------------
(* A callback that has begun, and steps that begin none.                   *)

Started(r) ==
  \E op \in Ops : \E chk, w, open :
    /\ chk = Idle \/ (chk = req[r] /\ ~IsRunning(r))
    /\ req' = [req EXCEPT ![r] = Running(op, chk, w, open)]
    /\ db' = db
    /\ Outcome(op, w, open)

Quiet ==
  /\ db' = db
  /\ \A q \in Requests :
       \/ req'[q] = req[q]
       \/ req'[q] = Idle
       \/ req'[q].st = "checked" /\ FromOK(db, req'[q])

LEMMA BeginNewStarted ==
  ASSUME NEW r \in Requests, NEW op, NEW outcomes,
         \A w \in outcomes : Outcome(op, w, NoRoomCheck),
         BeginNew(r, op, outcomes)
  PROVE  Started(r)
  <1>1. PICK w \in outcomes : req' = [req EXCEPT ![r] = Running(op, Idle, w, NoRoomCheck)]
    BY DEF BeginNew, Begin
  <1>2. op \in Ops /\ db' = db
    BY DEF BeginNew, Begin
  <1> QED
    BY <1>1, <1>2 DEF Started

LEMMA ResumeStarted ==
  ASSUME TypeOK, NEW r \in Requests, NEW op, NEW outcomes, NEW open,
         AtBegin(r, op), \A w \in outcomes : Outcome(op, w, open),
         Resume(r, outcomes, open)
  PROVE  Started(r)
  <1>1. PICK w \in outcomes : req' = [req EXCEPT ![r] = Running(op, req[r], w, open)]
    BY DEF Resume, Begin, AtBegin
  <1>2. db' = db /\ ~IsRunning(r)
    BY DEF Resume, Begin, AtBegin, IsRunning
  <1>3. op \in Ops
    BY DEF TypeOK, RequestOK, CheckedOK, AtBegin, Idle
  <1> QED
    BY <1>1, <1>2, <1>3 DEF Started

LEMMA CheckQuiet ==
  ASSUME TypeOK, NEW r \in Requests, NEW op, NEW doc, NEW counts,
         doc \in Tasks => db[ProjectOf[doc]].life # "none",
         Check(r, op, doc, counts)
  PROVE  Quiet
  <1>1. db' = db /\ DOMAIN req = Requests
        /\ req' = [req EXCEPT ![r] = Checked(op, doc, counts)]
    BY DEF Check, TypeOK
  <1>2. ASSUME NEW q \in Requests, q # r PROVE req'[q] = req[q]
    BY <1>1, <1>2
  <1>3. req'[r].st = "checked" /\ req'[r].doc = doc
    BY <1>1 DEF Checked
  <1>4. FromOK(db, req'[r])
    BY <1>3 DEF FromOK
  <1> QED
    BY <1>1, <1>2, <1>3, <1>4 DEF Quiet

(* Every request about a project begins one of these callbacks, or only    *)
(* reads.                                                                  *)
LEMMA ProjectRequestStarted ==
  ASSUME Rooted, NEW r \in Requests, NEW p \in Projects, ProjectRequest(r, p)
  PROVE  Quiet \/ Started(r)
  <1>0. TypeOK /\ DbOK(db) /\ p \in Docs
    BY RootedTyped DEF Docs
  <1> USE DEF Lives, Archive
  <1>1. CASE CreateProject(r, p)
    <2> DEFINE w == Writes(Count([db EXCEPT ![p] = NewProject], 1), {p, Org})
    <2>0. 1 \in Int
      OBVIOUS
    <2>1. DOMAIN w = {p, Org} /\ w[p].life = "live" /\ db[p].life = "none"
      <3>1. w[p] = Count([db EXCEPT ![p] = NewProject], 1)[p]
        BY DEF Writes
      <3> DEFINE image == [db EXCEPT ![p] = NewProject]
      <3>2. DbOK(image) /\ image[p] = NewProject
        BY <1>0, NewImage DEF DbOK
      <3> HIDE DEF image
      <3>3. Count(image, 1)[p] = image[p]
        BY <2>0, <3>2, CountSame
      <3>4. Count([db EXCEPT ![p] = NewProject], 1)[p] = NewProject
        BY <3>2, <3>3 DEF image
      <3> QED
        BY <1>1, <3>1, <3>4 DEF CreateProject, NewProject, Writes
    <2>2. BeginNew(r, "createProject", {w})
      BY <1>1 DEF CreateProject
    <2> HIDE DEF w
    <2>3. Lasting(db, w) /\ CreatesNone(db, w) /\ SparesProjects(w) /\ Fills(db, w, NoRoomCheck)
      BY <2>1, ProjectLasts
    <2>4. Outcome("createProject", w, NoRoomCheck)
      BY <2>1, <2>3 DEF Outcome, UsesNone
    <2> QED
      BY <2>2, <2>4, BeginNewStarted
  <1>2. CASE ArchiveProject(r, p)
    <2> DEFINE image == [db EXCEPT ![p].arch = "manual"]
    <2>0. db[p].life = "live"
      BY <1>2 DEF ArchiveProject
    <2>1. DbOK(image)
      BY <1>0, ProjectImage
    <2>2. image[p].life = "live" /\ image[p].arch = "manual"
      BY <1>0, <2>0, Disjoint DEF DbOK, DocOK, ProjectDocs
    <2>3. BeginNew(r, "archiveProject", SlotWrites(p, image, {p}))
      BY <1>2 DEF ArchiveProject
    <2> HIDE DEF image
    <2>4. \A w \in SlotWrites(p, image, {p}) : Outcome("archiveProject", w, NoRoomCheck)
      BY <2>0, <2>1, <2>2, ProjectOutcome DEF InUse
    <2> QED
      BY <2>3, <2>4, BeginNewStarted
  <1>3. CASE UnarchiveProject(r, p)
    <2> DEFINE image == [db EXCEPT ![p].arch = "no"]
    <2>0. db[p].life = "live"
      BY <1>3 DEF UnarchiveProject
    <2>1. DbOK(image)
      BY <1>0, ProjectImage
    <2>2. image[p].life = "live"
      BY <1>0, <2>0, Disjoint DEF DbOK, DocOK, ProjectDocs
    <2>3. BeginNew(r, "unarchiveProject", SlotWrites(p, image, {p}))
      BY <1>3 DEF UnarchiveProject
    <2>4. \A t \in Tasks : image[t] = db[t]
      BY <1>0, Disjoint DEF DbOK, Docs
    <2> HIDE DEF image
    <2>5. \A w \in SlotWrites(p, image, {p}) : Outcome("unarchiveProject", w, NoRoomCheck)
      BY <2>0, <2>1, <2>2, <2>4, ProjectOutcome
    <2> QED
      BY <2>3, <2>5, BeginNewStarted
  <1>4. CASE MoveProjectToBin(r, p)
    <2> DEFINE image == [db EXCEPT ![p].life = "bin"]
    <2>0. db[p].life = "live"
      BY <1>4 DEF MoveProjectToBin
    <2>1. DbOK(image)
      BY <1>0, ProjectImage
    <2>2. image[p].life = "bin"
      BY <1>0, <2>0, Disjoint DEF DbOK, DocOK, ProjectDocs
    <2>3. BeginNew(r, "moveProjectToBin", SlotWrites(p, image, {p}))
      BY <1>4 DEF MoveProjectToBin
    <2> HIDE DEF image
    <2>4. \A w \in SlotWrites(p, image, {p}) : Outcome("moveProjectToBin", w, NoRoomCheck)
      BY <2>0, <2>1, <2>2, ProjectOutcome DEF InUse
    <2> QED
      BY <2>3, <2>4, BeginNewStarted
  <1>5. CASE RestoreProject(r, p)
    <2> DEFINE image == [db EXCEPT ![p].life = "live"]
    <2>0. db[p].life = "bin"
      BY <1>5 DEF RestoreProject
    <2>1. DbOK(image)
      BY <1>0, ProjectImage
    <2>2. image[p].life = "live"
      BY <1>0, <2>0, Disjoint DEF DbOK, DocOK, ProjectDocs
    <2>3. BeginNew(r, "restoreProject", SlotWrites(p, image, {p}))
      BY <1>5 DEF RestoreProject
    <2>4. \A t \in Tasks : image[t] = db[t]
      BY <1>0, Disjoint DEF DbOK, Docs
    <2> HIDE DEF image
    <2>5. \A w \in SlotWrites(p, image, {p}) : Outcome("restoreProject", w, NoRoomCheck)
      BY <2>0, <2>1, <2>2, <2>4, ProjectOutcome
    <2> QED
      BY <2>3, <2>5, BeginNewStarted
  <1>6. CASE DeleteProjectPermanently(r, p)
    <2>1. \A w \in {Destroyed(p)} : Outcome("deleteProjectPermanently", w, NoRoomCheck)
      BY DestroyedLasts DEF Outcome, Destroying
    <2> QED
      BY <1>6, <2>1, BeginNewStarted DEF DeleteProjectPermanently
  <1>7. CASE FindExpiredProject(r, p)
    BY <1>0, <1>7, Disjoint, CheckQuiet DEF FindExpiredProject
  <1>8. CASE KeepProjectArchived(r, p)
    <2> DEFINE docs == {p} \cup {t \in LiveTasks(db, p) : db[t].arch = "plan"}
               w == [x \in docs |-> [db[x] EXCEPT !.arch = "manual"]]
    <2>1. docs \subseteq Projects \cup Tasks /\ Org \notin docs
      BY Disjoint DEF LiveTasks, TasksOf
    <2>2. \A x \in docs : db[x].life = "live"
      BY <1>8 DEF KeepProjectArchived, LiveTasks
    <2>3. \A x \in docs : /\ w[x].life = db[x].life
                         /\ w[x].arch = "manual"
                         /\ (x \in Tasks => w[x].status = db[x].status)
      BY <1>0, <2>1, Disjoint DEF DbOK, DocOK, Docs, ProjectDocs, TaskDocs
    <2>4. BeginNew(r, "keepPlanArchived", {w})
      BY <1>8 DEF KeepProjectArchived
    <2>5. DOMAIN w = docs
      OBVIOUS
    <2> HIDE DEF w, docs
    <2>6. KeepsViews(w, DOMAIN w \ {Org})
      BY <2>1, <2>2, <2>3, <2>5 DEF KeepsViews
    <2>7. Lasting(db, w) /\ CreatesNone(db, w) /\ SparesProjects(w)
      BY <2>6, ArchLasts
    <2>8. Fills(db, w, NoRoomCheck) /\ UsesNone(db, w)
      BY <2>3, <2>5 DEF Fills, FillsNone, IsActiveTask, UsesNone, InUse
    <2>9. Outcome("keepPlanArchived", w, NoRoomCheck)
      BY <2>7, <2>8 DEF Outcome
    <2> QED
      BY <2>4, <2>9, BeginNewStarted
  <1> QED
    BY <1>1, <1>2, <1>3, <1>4, <1>5, <1>6, <1>7, <1>8 DEF ProjectRequest

(* A change of one task by a callback that syncs the slot of its project.  *)
LEMMA TaskOutcome ==
  ASSUME Rooted, NEW t \in Tasks, db[ProjectOf[t]].life # "none",
         db[t].life # "gone",
         NEW image, DbOK(image), image[t].life # "none",
         \A x \in Docs \ {t} : image[x] = db[x],
         NEW op, op # "archiveExcess", db[t].life = "none" => op = "createTask",
         NEW open,
         \/ op \in TaskReturns
         \/ open = NoRoomCheck /\ (IsActiveTask(image[t]) => IsActiveTask(db[t]))
         \/ open = OpenCount(db, ProjectOf[t])
  PROVE  \A w \in SlotWrites(ProjectOf[t], image, {t}) : Outcome(op, w, open)
  <1> DEFINE p == ProjectOf[t]
  <1> SUFFICES ASSUME NEW w \in SlotWrites(p, image, {t})
               PROVE  Outcome(op, w, open)
    OBVIOUS
  <1>1. p \in Projects /\ p \in Docs /\ p # t
    BY Disjoint DEF Docs
  <1>2. /\ {t} \cup Lock(p) \subseteq DOMAIN w
        /\ DOMAIN w \subseteq {t} \cup Lock(p) \cup {Org}
        /\ \A x \in {t} \cup Lock(p) : w[x] = image[x]
    BY <1>1, SyncDocs
  <1>3. Stored(db, p) => p \in DOMAIN w
    BY <1>2 DEF Lock
  <1>4. p \in DOMAIN w => Stored(db, p) /\ w[p] = db[p]
    BY <1>1, <1>2, Disjoint DEF Lock
  <1>5. DOMAIN w \subseteq {t, p, Org} /\ t \in DOMAIN w /\ w[t] = image[t]
    BY <1>2 DEF Lock
  <1>6. Stored(db, p) \/ db[p].life = "gone"
    <2>1. db[p] \in ProjectDocs
      BY <1>1, RootedTyped DEF DbOK, DocOK
    <2> QED
      BY <2>1 DEF ProjectDocs, Lives, Stored
  <1>7. /\ Lasting(db, w) /\ SparesProjects(w) /\ UsesNone(db, w)
        /\ db[t].life # "none" => CreatesNone(db, w)
        /\ (IsActiveTask(w[t]) => IsActiveTask(db[t])) => Fills(db, w, NoRoomCheck)
        /\ (db[p].life # "gone" => p \in DOMAIN w) => Fills(db, w, OpenCount(db, p))
    BY <1>3, <1>4, <1>5, <1>6, TaskLasts
  <1>8. op \notin TaskReturns => Fills(db, w, open)
    BY <1>3, <1>5, <1>6, <1>7
  <1> QED
    BY <1>7, <1>8 DEF Outcome

(* The archive mark of one task.                                           *)
LEMMA TaskArchOutcome ==
  ASSUME Rooted, NEW t \in Tasks, db[t].life = "live", NEW a \in Archive,
         NEW L \in SUBSET {ProjectOf[t]}, \A x \in L : Stored(db, x),
         NEW op, op # "archiveExcess", NEW open,
         op \in TaskReturns \/ (a # "no" /\ open = NoRoomCheck)
  PROVE  Outcome(op, Writes([db EXCEPT ![t].arch = a], {t} \cup L), open)
  <1> DEFINE p == ProjectOf[t]
             image == [db EXCEPT ![t].arch = a]
             w == Writes(image, {t} \cup L)
  <1>0. DbOK(db) /\ t \in Docs /\ p \in Docs /\ p # t /\ db[p].life # "none"
    BY RootedTyped, Disjoint DEF Docs
  <1>1. image[t].life = "live" /\ image[t].arch = a /\ image[p] = db[p]
    BY <1>0, Disjoint DEF DbOK, DocOK, TaskDocs
  <1> HIDE DEF image
  <1>2. DOMAIN w = {t} \cup L /\ \A x \in DOMAIN w : w[x] = image[x]
    BY DEF Writes
  <1> HIDE DEF w
  <1>3. /\ t \in DOMAIN w /\ DOMAIN w \subseteq {t, p, Org}
        /\ p \in DOMAIN w => Stored(db, p) /\ w[p] = db[p]
        /\ w[t].life = "live" /\ w[t].arch = a
    BY <1>0, <1>1, <1>2
  <1>4. /\ Lasting(db, w) /\ SparesProjects(w) /\ UsesNone(db, w) /\ CreatesNone(db, w)
        /\ (IsActiveTask(w[t]) => IsActiveTask(db[t])) => Fills(db, w, NoRoomCheck)
    BY <1>0, <1>3, TaskLasts
  <1>5. op \notin TaskReturns => Fills(db, w, open)
    BY <1>3, <1>4 DEF IsActiveTask
  <1>6. Outcome(op, w, open)
    BY <1>4, <1>5 DEF Outcome
  <1> QED
    BY <1>6 DEF w, image

(* Every request about a task only reads, or begins one of these.          *)
LEMMA TaskRequestStarted ==
  ASSUME Rooted, NEW r \in Requests, NEW t \in Tasks, TaskRequest(r, t)
  PROVE  Quiet \/ Started(r)
  <1>0. TypeOK /\ (db[t].life # "none" => db[ProjectOf[t]].life # "none")
    BY RootedTyped
  <1>1. CASE CheckCreateTask(r, t)
    BY <1>0, <1>1, CheckQuiet DEF CheckCreateTask, InUse
  <1>2. CASE \E op \in DOMAIN StatusBefore : CheckUpdateTask(r, t, op)
    BY <1>0, <1>2, CheckQuiet DEF CheckUpdateTask, InLiveProject
  <1>3. CASE CheckArchiveTask(r, t)
    BY <1>0, <1>3, CheckQuiet DEF CheckArchiveTask, InLiveProject
  <1>4. CASE CheckUnarchiveTask(r, t)
    BY <1>0, <1>4, CheckQuiet DEF CheckUnarchiveTask, InLiveProject
  <1>5. CASE CheckMoveTaskToBin(r, t)
    BY <1>0, <1>5, CheckQuiet DEF CheckMoveTaskToBin, InLiveProject
  <1>6. CASE CheckRestoreTask(r, t)
    BY <1>0, <1>6, CheckQuiet DEF CheckRestoreTask
  <1>7. CASE DeleteTaskPermanently(r, t)
    <2>1. \A w \in {DestroyedTask(t)} : Outcome("deleteTaskPermanently", w, NoRoomCheck)
      BY DestroyedTaskLasts DEF Outcome
    <2> QED
      BY <1>7, <2>1, BeginNewStarted DEF DeleteTaskPermanently
  <1>8. CASE FindExpiredTask(r, t)
    <2>1. db[t].life = "bin"
      BY <1>0, <1>8 DEF FindExpiredTask, TypeOK
    <2> QED
      BY <1>0, <1>8, <2>1, CheckQuiet DEF FindExpiredTask
  <1>9. CASE KeepTaskArchived(r, t)
    <2> DEFINE w == Writes([db EXCEPT ![t].arch = "manual"], {t})
    <2>1. Outcome("keepPlanArchived", w, NoRoomCheck)
      <3>1. {} \in SUBSET {ProjectOf[t]} /\ "manual" \in Archive /\ db[t].life = "live"
        BY <1>9 DEF Archive, KeepTaskArchived
      <3>2. Outcome("keepPlanArchived",
                    Writes([db EXCEPT ![t].arch = "manual"], {t} \cup {}), NoRoomCheck)
        BY <3>1, TaskArchOutcome
      <3>3. {t} \cup {} = {t}
        OBVIOUS
      <3> QED
        BY <3>2, <3>3
    <2>2. BeginNew(r, "keepPlanArchived", {w})
      BY <1>9 DEF KeepTaskArchived
    <2> HIDE DEF w
    <2> QED
      BY <2>1, <2>2, BeginNewStarted
  <1> QED
    BY <1>1, <1>2, <1>3, <1>4, <1>5, <1>6, <1>7, <1>8, <1>9 DEF TaskRequest

(* The task a request has read has a project, if only a deleted one.       *)
LEMMA RootedTask ==
  ASSUME Rooted, NEW r \in Requests, NEW op, op # "purgeExpiredProjects",
         AtBegin(r, op)
  PROVE  /\ req[r].doc \in Tasks /\ req[r].doc \in Docs /\ req[r].st = "checked"
         /\ db[ProjectOf[req[r].doc]].life # "none"
  <1>1. /\ req[r].doc \in Tasks /\ req[r].doc \in Docs /\ req[r].st = "checked"
    BY RootedTyped, CheckedTask
  <1>2. FromOK(db, req[r]) /\ req[r] # Idle
    BY <1>1 DEF Rooted, From, IsRunning, Idle
  <1> QED
    BY <1>1, <1>2 DEF FromOK

(* Every callback of a request that has read its document.                 *)
LEMMA CallbackStarted ==
  ASSUME Rooted, NEW r \in Requests, Callback(r)
  PROVE  Started(r)
  <1> DEFINE t == req[r].doc
             p == ProjectOf[t]
  <1>0. TypeOK /\ DbOK(db)
    BY RootedTyped
  <1>1. CASE CreateTask(r)
    <2> DEFINE image == [db EXCEPT ![t] = NewTask]
               open == OpenCount(db, p)
    <2>0. AtBegin(r, "createTask") /\ db[t].life = "none"
      BY <1>1 DEF CreateTask
    <2>1. t \in Tasks /\ t \in Docs /\ db[p].life # "none"
      BY <2>0, RootedTask
    <2>2. DbOK(image)
      BY <1>0, <2>1, NewImage
    <2>3. image[t].life = "live" /\ \A x \in Docs \ {t} : image[x] = db[x]
      BY <1>0, <2>1 DEF DbOK, NewTask
    <2>4. Resume(r, SlotWrites(p, image, {t}), open)
      BY <1>1 DEF CreateTask
    <2> HIDE DEF image, t
    <2>5. \A w \in SlotWrites(p, image, {t}) : Outcome("createTask", w, open)
      BY <2>0, <2>1, <2>2, <2>3, TaskOutcome
    <2> QED
      BY <1>0, <2>0, <2>4, <2>5, ResumeStarted
  <1>2. CASE \E op \in DOMAIN StatusBefore : UpdateTask(r, op)
    <2>0. PICK op \in DOMAIN StatusBefore : UpdateTask(r, op)
      BY <1>2
    <2> DEFINE image == [db EXCEPT ![t].status = StatusAfter[op]]
               open == IF op = "reopenTask" THEN OpenCount(db, p) ELSE NoRoomCheck
    <2>1. AtBegin(r, op) /\ db[t].life = "live" /\ db[t].status = StatusBefore[op]
      BY <2>0 DEF UpdateTask
    <2>2. op \in {"completeTask", "editTask", "reopenTask"}
      BY DEF StatusBefore
    <2>3. t \in Tasks /\ t \in Docs /\ db[p].life # "none"
      BY <2>1, <2>2, RootedTask
    <2>4. DbOK(image)
      <3>1. StatusAfter[op] \in {"open", "done"}
        BY <2>2 DEF StatusAfter
      <3> QED
        BY <1>0, <2>1, <2>3, <3>1, TaskImage DEF Lives, Archive
    <2>5. /\ image[t].life = "live" /\ image[t].arch = db[t].arch
          /\ image[t].status = StatusAfter[op]
          /\ \A x \in Docs \ {t} : image[x] = db[x]
      BY <1>0, <2>1, <2>3, Disjoint DEF DbOK, DocOK, TaskDocs
    <2>6. Resume(r, SlotWrites(p, image, {t}), open)
      BY <2>0 DEF UpdateTask
    <2>7. op # "reopenTask" => (IsActiveTask(image[t]) => IsActiveTask(db[t]))
      <3> HIDE DEF image
      <3>1. op = "completeTask" => StatusAfter[op] = "done"
        BY DEF StatusAfter
      <3>2. op = "editTask" => StatusBefore[op] = "open"
        BY DEF StatusBefore
      <3> QED
        BY <2>1, <2>2, <2>5, <3>1, <3>2 DEF IsActiveTask
    <2>8. \/ open = NoRoomCheck /\ (IsActiveTask(image[t]) => IsActiveTask(db[t]))
          \/ open = OpenCount(db, ProjectOf[t])
      BY <2>7
    <2> HIDE DEF image, t, open
    <2>9. \A w \in SlotWrites(p, image, {t}) : Outcome(op, w, open)
      BY <2>1, <2>2, <2>3, <2>4, <2>5, <2>8, TaskOutcome
    <2> QED
      BY <1>0, <2>1, <2>6, <2>9, ResumeStarted
  <1>3. CASE ArchiveTask(r)
    <2> DEFINE w == Writes([db EXCEPT ![t].arch = "manual"], {t})
    <2>0. AtBegin(r, "archiveTask") /\ db[t].life = "live"
      BY <1>3 DEF ArchiveTask
    <2>1. t \in Tasks
      BY <2>0, RootedTask
    <2>2. Resume(r, {w}, NoRoomCheck)
      BY <1>3 DEF ArchiveTask
    <2>3. Outcome("archiveTask", w, NoRoomCheck)
      <3> HIDE DEF t
      <3>1. {} \in SUBSET {p} /\ "manual" \in Archive
        BY DEF Archive
      <3>2. Outcome("archiveTask",
                    Writes([db EXCEPT ![t].arch = "manual"], {t} \cup {}), NoRoomCheck)
        BY <2>0, <2>1, <3>1, TaskArchOutcome
      <3>3. {t} \cup {} = {t}
        OBVIOUS
      <3> QED
        BY <3>2, <3>3
    <2> HIDE DEF w
    <2> QED
      BY <1>0, <2>0, <2>2, <2>3, ResumeStarted
  <1>4. CASE UnarchiveTask(r)
    <2> DEFINE docs == IF req[r].counts THEN {t} \cup Lock(p) ELSE {t}
               w == Writes([db EXCEPT ![t].arch = "no"], docs)
               open == IF req[r].counts THEN OpenCount(db, p) ELSE NoRoomCheck
    <2>0. AtBegin(r, "unarchiveTask") /\ db[t].life = "live"
      BY <1>4 DEF UnarchiveTask
    <2>1. t \in Tasks
      BY <2>0, RootedTask
    <2>2. Resume(r, {w}, open)
      BY <1>4 DEF UnarchiveTask
    <2>3. PICK L \in SUBSET {p} : docs = {t} \cup L /\ \A x \in L : Stored(db, x)
      <3>1. CASE req[r].counts
        <4>1. Lock(p) \in SUBSET {p} /\ docs = {t} \cup Lock(p)
              /\ \A x \in Lock(p) : Stored(db, x)
          BY <3>1 DEF Lock
        <4> HIDE DEF docs
        <4> QED BY <4>1
      <3>2. CASE ~req[r].counts
        <4>1. {} \in SUBSET {p} /\ docs = {t} \cup {}
          BY <3>2
        <4> HIDE DEF docs
        <4> QED BY <4>1
      <3> QED
        BY <3>1, <3>2
    <2>4. Outcome("unarchiveTask", w, open)
      <3> HIDE DEF t, docs, open
      <3>1. "no" \in Archive /\ "unarchiveTask" \in TaskReturns
        BY DEF Archive, TaskReturns
      <3>2. Outcome("unarchiveTask", Writes([db EXCEPT ![t].arch = "no"], {t} \cup L), open)
        BY <2>0, <2>1, <2>3, <3>1, TaskArchOutcome
      <3> QED
        BY <2>3, <3>2
    <2> HIDE DEF w, open
    <2> QED
      BY <1>0, <2>0, <2>2, <2>4, ResumeStarted
  <1>5. CASE MoveTaskToBin(r)
    <2> DEFINE image == [db EXCEPT ![t].life = "bin"]
    <2>0. AtBegin(r, "moveTaskToBin") /\ db[t].life = "live"
      BY <1>5 DEF MoveTaskToBin
    <2>1. t \in Tasks /\ t \in Docs /\ db[p].life # "none"
      BY <2>0, RootedTask
    <2>2. DbOK(image)
      BY <1>0, <2>1, TaskImage DEF Lives, Archive
    <2>3. image[t].life = "bin" /\ \A x \in Docs \ {t} : image[x] = db[x]
      BY <1>0, <2>1, Disjoint DEF DbOK, DocOK, TaskDocs
    <2>4. Resume(r, SlotWrites(p, image, {t}), NoRoomCheck)
      BY <1>5 DEF MoveTaskToBin
    <2> HIDE DEF image, t
    <2>5. \A w \in SlotWrites(p, image, {t}) : Outcome("moveTaskToBin", w, NoRoomCheck)
      BY <2>0, <2>1, <2>2, <2>3, TaskOutcome DEF IsActiveTask
    <2> QED
      BY <1>0, <2>0, <2>4, <2>5, ResumeStarted
  <1>6. CASE RestoreTask(r)
    <2> DEFINE image == [db EXCEPT ![t].life = "live"]
               open == IF req[r].counts THEN OpenCount(db, p) ELSE NoRoomCheck
    <2>0. AtBegin(r, "restoreTask") /\ db[t].life = "bin"
      BY <1>6 DEF RestoreTask
    <2>1. t \in Tasks /\ t \in Docs /\ db[p].life # "none"
      BY <2>0, RootedTask
    <2>2. DbOK(image)
      BY <1>0, <2>1, TaskImage DEF Lives, Archive
    <2>3. image[t].life = "live" /\ \A x \in Docs \ {t} : image[x] = db[x]
      BY <1>0, <2>1, Disjoint DEF DbOK, DocOK, TaskDocs
    <2>4. Resume(r, SlotWrites(p, image, {t}), open)
      BY <1>6 DEF RestoreTask
    <2> HIDE DEF image, t, open
    <2>5. \A w \in SlotWrites(p, image, {t}) : Outcome("restoreTask", w, open)
      BY <2>0, <2>1, <2>2, <2>3, TaskOutcome DEF TaskReturns
    <2> QED
      BY <1>0, <2>0, <2>4, <2>5, ResumeStarted
  <1>7. CASE PurgeProject(r)
    <2>0. AtBegin(r, "purgeExpiredProjects")
          /\ Resume(r, {Destroyed(req[r].doc)}, NoRoomCheck)
      BY <1>7 DEF PurgeProject
    <2>1. req[r].doc \in Projects
      BY <1>0, <2>0 DEF TypeOK, RequestOK, CheckedOK, AtBegin, Idle
    <2>2. \A w \in {Destroyed(req[r].doc)} :
            Outcome("purgeExpiredProjects", w, NoRoomCheck)
      <3> HIDE DEF t
      <3>1. PICK x \in Projects : x = req[r].doc
        BY <2>1
      <3>2. Outcome("purgeExpiredProjects", Destroyed(x), NoRoomCheck)
        BY DestroyedLasts DEF Outcome, Destroying
      <3> QED
        BY <3>1, <3>2
    <2> QED
      BY <1>0, <2>0, <2>2, ResumeStarted
  <1>8. CASE PurgeTask(r)
    <2>0. AtBegin(r, "purgeExpiredTasks")
          /\ Resume(r, {DestroyedTask(req[r].doc)}, NoRoomCheck)
      BY <1>8 DEF PurgeTask
    <2>1. \A w \in {DestroyedTask(req[r].doc)} :
            Outcome("purgeExpiredTasks", w, NoRoomCheck)
      <3>1. PICK x \in Tasks : x = req[r].doc
        BY <2>0, RootedTask
      <3>2. Outcome("purgeExpiredTasks", DestroyedTask(x), NoRoomCheck)
        BY DestroyedTaskLasts DEF Outcome
      <3> QED
        BY <3>1, <3>2
    <2> QED
      BY <1>0, <2>0, <2>1, ResumeStarted
  <1> QED
    BY <1>1, <1>2, <1>3, <1>4, <1>5, <1>6, <1>7, <1>8 DEF Callback

(* Every request about the plan.                                           *)
LEMMA PlanRequestStarted ==
  ASSUME Rooted, NEW r \in Requests, PlanRequest(r)
  PROVE  Started(r)
  <1>1. CASE \E plan \in Plans : ChangePlan(r, plan)
    <2>1. PICK plan \in Plans : ChangePlan(r, plan)
      BY <1>1
    <2> DEFINE w == Writes([db EXCEPT ![Org].plan = plan], {Org})
    <2>2. DOMAIN w = {Org}
      BY DEF Writes
    <2>3. BeginNew(r, "changePlan", {w})
      BY <2>1 DEF ChangePlan
    <2> HIDE DEF w
    <2>4. Outcome("changePlan", w, NoRoomCheck)
      BY <2>2, OrgLasts DEF Outcome
    <2> QED
      BY <2>3, <2>4, BeginNewStarted
  <1>2. CASE ArchiveExcessForFree(r)
    <2> DEFINE Extra(keep) == Consuming(db) \ keep
               outcomes ==
                 UNION {{Recounted(Extra(keep), T) :
                           T \in Trims(Archived(db, Extra(keep)), TaskLimit[Free])} :
                        keep \in AsMany(ProjectLimit[Free], Consuming(db))}
    <2>0. db[Org].plan = Free /\ GraceOver
      BY <1>2 DEF ArchiveExcessForFree
    <2>1. ASSUME NEW w \in outcomes PROVE Outcome("archiveExcess", w, NoRoomCheck)
      <3>1. PICK keep \in AsMany(ProjectLimit[Free], Consuming(db)) :
              w \in {Recounted(Extra(keep), T) :
                T \in Trims(Archived(db, Extra(keep)), TaskLimit[Free])}
        OBVIOUS
      <3>2. PICK T \in Trims(Archived(db, Extra(keep)), TaskLimit[Free]) :
              w = Recounted(Extra(keep), T)
        BY <3>1
      <3>3. /\ Lasting(db, w) /\ CreatesNone(db, w) /\ SparesProjects(w)
            /\ Fills(db, w, NoRoomCheck) /\ UsesNone(db, w) /\ Enforces(db, w, NoRoomCheck)
        BY <2>0, <3>2, RecountedLasts
      <3> QED
        BY <2>0, <3>3 DEF Outcome
    <2>2. BeginNew(r, "archiveExcess", outcomes)
      BY <1>2 DEF ArchiveExcessForFree
    <2> HIDE DEF outcomes
    <2> QED
      BY <2>1, <2>2, BeginNewStarted
  <1>3. CASE RestorePlanArchived(r)
    <2>1. \A w \in {Restored(docs) : docs \in RestoreChoices} :
            Outcome("restorePlanArchived", w, NoRoomCheck)
      BY RestoredLasts DEF Outcome, TaskReturns
    <2> QED
      BY <1>3, <2>1, BeginNewStarted DEF RestorePlanArchived
  <1> QED
    BY <1>1, <1>2, <1>3 DEF PlanRequest

-----------------------------------------------------------------------------
(* What a step does to the requests.                                       *)

(* A step that begins no callback leaves the running ones as they are.     *)
LEMMA QuietRunning ==
  ASSUME Quiet, NEW q \in Requests
  PROVE  /\ IsRunning(q)' => IsRunning(q) /\ req'[q] = req[q]
         /\ FromOK(db, From(q)) => FromOK(db, From(q)')
  <1>1. CASE req'[q] = req[q]
    <2>1. From(q)' = From(q)
      BY <1>1 DEF From, IsRunning
    <2> QED
      BY <1>1, <2>1 DEF IsRunning
  <1>2. CASE req'[q] = Idle
    <2>1. From(q)' = Idle /\ ~IsRunning(q)'
      BY <1>2 DEF From, IsRunning, Idle
    <2> QED
      BY <2>1 DEF FromOK
  <1>3. CASE req'[q].st = "checked" /\ FromOK(db, req'[q])
    BY <1>3 DEF From, IsRunning
  <1> QED
    BY <1>1, <1>2, <1>3 DEF Quiet

(* A callback that begins.                                                 *)
LEMMA StartedRunning ==
  ASSUME TypeOK, NEW r \in Requests, Started(r)
  PROVE  /\ db' = db
         /\ \A q \in Requests \ {r} : req'[q] = req[q]
         /\ req'[r].op \in Ops
         /\ Outcome(req'[r].op, req'[r].writes, req'[r].open)
         /\ req'[r].plans = IF req'[r].open = NoRoomCheck THEN {} ELSE {db[Org].plan}
         /\ FromOK(db, From(r)) => FromOK(db, From(r)')
  <1>1. PICK op, chk, w, open :
          /\ op \in Ops
          /\ chk = Idle \/ (chk = req[r] /\ ~IsRunning(r))
          /\ req' = [req EXCEPT ![r] = Running(op, chk, w, open)]
          /\ db' = db
          /\ Outcome(op, w, open)
    BY DEF Started
  <1>2. DOMAIN req = Requests
    BY DEF TypeOK
  <1>3. req'[r] = Running(op, chk, w, open) /\ \A q \in Requests \ {r} : req'[q] = req[q]
    BY <1>1, <1>2
  <1>4. /\ req'[r].st = "running" /\ req'[r].chk = chk /\ req'[r].op = op
        /\ req'[r].writes = w /\ req'[r].open = open
        /\ req'[r].plans = IF open = NoRoomCheck THEN {} ELSE {db[Org].plan}
    BY <1>3 DEF Running
  <1>5. From(r)' = chk
    BY <1>4 DEF From, IsRunning
  <1>6. chk = Idle \/ chk = From(r)
    BY <1>1 DEF From
  <1>7. FromOK(db, From(r)) => FromOK(db, From(r)')
    BY <1>5, <1>6 DEF FromOK
  <1> QED
    BY <1>1, <1>3, <1>4, <1>7

(* The requests that a commit lets run are as they were.                   *)
LEMMA InstalledRunning ==
  ASSUME TypeOK, NEW w, NEW q \in Requests,
         req'[q] = Idle \/ req'[q] = AfterCommit(req[q], w)
  PROVE  /\ From(q)' = Idle \/ From(q)' = From(q)
         /\ IsRunning(q)' =>
              /\ IsRunning(q)
              /\ req'[q].op = req[q].op
              /\ req'[q].writes = req[q].writes
              /\ req'[q].open = req[q].open
              /\ DOMAIN req[q].writes \cap DOMAIN w = {}
              /\ Org \notin DOMAIN w => req'[q].plans = req[q].plans
  <1>1. CASE req'[q] = Idle
    BY <1>1 DEF IsRunning, From, Idle
  <1>2. CASE req'[q] = AfterCommit(req[q], w) /\ ~IsRunning(q)
    <2>1. req'[q] = req[q]
      BY <1>2 DEF AfterCommit, IsRunning
    <2> QED
      BY <1>2, <2>1 DEF IsRunning, From
  <1>3. CASE /\ req'[q] = AfterCommit(req[q], w) /\ IsRunning(q)
             /\ DOMAIN req[q].writes \cap DOMAIN w # {}
    <2>1. req'[q] = From(q)
      BY <1>3 DEF AfterCommit, IsRunning, From
    <2>2. From(q).st # "running"
      BY ChkFrom DEF Idle
    <2> QED
      BY <2>1, <2>2 DEF IsRunning, From
  <1>4. CASE /\ req'[q] = AfterCommit(req[q], w) /\ IsRunning(q)
             /\ DOMAIN req[q].writes \cap DOMAIN w = {}
    <2>1. RequestOK(req[q]) /\ req[q].st = "running"
      BY <1>4 DEF TypeOK, IsRunning
    <2>2. DOMAIN req[q] = {"st", "op", "chk", "writes", "open", "plans"}
      BY <2>1 DEF RequestOK, Idle, CheckedOK
    <2>3. /\ req'[q].st = "running"
          /\ req'[q].chk = req[q].chk
          /\ req'[q].op = req[q].op
          /\ req'[q].writes = req[q].writes
          /\ req'[q].open = req[q].open
          /\ Org \notin DOMAIN w => req'[q].plans = req[q].plans
      BY <1>4, <2>1, <2>2 DEF AfterCommit
    <2> QED
      BY <1>4, <2>3 DEF IsRunning, From
  <1> QED
    BY <1>1, <1>2, <1>3, <1>4

-----------------------------------------------------------------------------
(* No task left behind.                                                    *)

(* What is committed beside a transaction that goes on leaves it lasting.  *)
LEMMA LastingKept ==
  ASSUME NEW d, DbOK(d), NEW w, WritesOK(w), NEW w2, WritesOK(w2),
         Lasting(d, w), Lasting(d, w2), DOMAIN w \cap DOMAIN w2 = {}
  PROVE  /\ Lasting(Apply(d, w), w2)
         /\ CreatesNone(d, w2) => CreatesNone(Apply(d, w), w2)
  <1> DEFINE e == Apply(d, w)
  <1>1. \A x \in Docs : e[x] = IF x \in DOMAIN w THEN w[x] ELSE d[x]
    BY DEF Apply
  <1>2. \A x \in DOMAIN w2 : e[x] = d[x]
    BY <1>1 DEF WritesOK
  <1>3. \A x \in Projects \cup Tasks : x \in Docs /\ x # Org
    BY Disjoint DEF Docs
  <1> HIDE DEF e
  <1>4. KeepsLives(e, w2)
    BY <1>2 DEF Lasting, KeepsLives
  <1>5. TakesTasks(e, w2)
    <2> SUFFICES ASSUME NEW p \in DOMAIN w2 \cap Projects, w2[p].life = "gone",
                        NEW t \in TasksOf(p), t \notin DOMAIN w2
                 PROVE  ~Stored(e, t)
      BY DEF TakesTasks, Lasting
    <2>1. t \in Tasks /\ ProjectOf[t] = p /\ ~Stored(d, t)
      BY DEF TasksOf, Lasting, TakesTasks
    <2>2. d[p].life # "gone" /\ p \notin DOMAIN w
      BY <1>3 DEF Lasting, KeepsLives
    <2>3. CASE t \in DOMAIN w
      <3>1. d[t].life # "gone"
        BY <1>3, <2>1, <2>3 DEF Lasting, KeepsLives
      <3>2. d[t] \in TaskDocs
        BY <1>3, <2>1 DEF DbOK, DocOK
      <3>3. d[t].life = "none"
        BY <2>1, <3>1, <3>2 DEF TaskDocs, Lives, Stored
      <3> QED
        BY <2>1, <2>2, <2>3, <3>3 DEF Lasting, KnowsProject
    <2>4. CASE t \notin DOMAIN w
      BY <1>1, <1>3, <2>1, <2>4 DEF Stored
    <2> QED
      BY <2>3, <2>4
  <1>6. KnowsProject(e, w2)
    <2> SUFFICES ASSUME NEW t \in DOMAIN w2 \cap Tasks
                 PROVE  /\ e[ProjectOf[t]].life # "none"
                        /\ e[t].life = "none" =>
                             ProjectOf[t] \in DOMAIN w2 \/ e[ProjectOf[t]].life = "gone"
      BY DEF KnowsProject
    <2> DEFINE p == ProjectOf[t]
    <2>1. p \in Docs /\ p # Org
      BY <1>3, Disjoint
    <2>2. /\ d[p].life # "none"
          /\ d[t].life = "none" => p \in DOMAIN w2 \/ d[p].life = "gone"
      BY DEF Lasting, KnowsProject
    <2>3. p \in DOMAIN w => w[p].life # "none" /\ d[p].life # "gone"
      BY <2>1 DEF Lasting, KeepsLives
    <2> HIDE DEF p
    <2>4. e[p].life # "none" /\ (d[p].life = "gone" => e[p].life = "gone")
      BY <1>1, <2>1, <2>2, <2>3
    <2>5. e[t] = d[t]
      BY <1>2
    <2> QED
      BY <2>2, <2>4, <2>5 DEF p
  <1>7. CreatesNone(d, w2) => CreatesNone(e, w2)
    BY <1>2 DEF CreatesNone
  <1> QED
    BY <1>4, <1>5, <1>6, <1>7 DEF Lasting, e

(* Writes that are committed, by a request or by the expiry of the plan.   *)
Installed(w) ==
  /\ Install(w)
  /\ \A q \in Requests : req'[q] = Idle \/ req'[q] = AfterCommit(req[q], w)

LEMMA CommitInstalls ==
  ASSUME TypeOK, NEW r \in Requests, Commit(r)
  PROVE  IsRunning(r) /\ WritesOK(req[r].writes) /\ Installed(req[r].writes)
  BY WritesTypedOf DEF Commit, Installed

LEMMA ExpiryInstalls ==
  ASSUME TypeOK, ExpirePlan
  PROVE  \E w : DOMAIN w = {Org} /\ WritesOK(w) /\ Installed(w)
  <1> DEFINE image == [db EXCEPT ![Org].plan = Free]
             w == Writes(image, {Org})
  <1>1. DbOK(image)
    BY TypedDb, UsageAssumption, Disjoint DEF DbOK, DocOK, Docs, OrgDocs
  <1>2. Install(w) /\ req' = [q \in Requests |-> AfterCommit(req[q], w)]
    BY DEF ExpirePlan
  <1> HIDE DEF image
  <1>3. WritesOK(w) /\ DOMAIN w = {Org}
    BY <1>1, WritesTyped DEF Docs, Writes
  <1> HIDE DEF w
  <1>4. Installed(w)
    BY <1>2 DEF Installed
  <1> QED
    BY <1>3, <1>4

(* Every step is of one of these kinds.                                    *)
LEMMA StepKinds ==
  ASSUME Rooted, [Next]_vars
  PROVE  \/ Quiet
         \/ \E r \in Requests : Started(r)
         \/ \E r \in Requests : Commit(r)
         \/ ExpirePlan
  <1>1. ASSUME NEW r \in Requests, NEW p \in Projects, ProjectRequest(r, p)
        PROVE  Quiet \/ Started(r)
    BY <1>1, ProjectRequestStarted
  <1>2. ASSUME NEW r \in Requests, NEW t \in Tasks, TaskRequest(r, t)
        PROVE  Quiet \/ Started(r)
    BY <1>2, TaskRequestStarted
  <1>3. ASSUME NEW r \in Requests, Callback(r) \/ PlanRequest(r)
        PROVE  Started(r)
    BY <1>3, CallbackStarted, PlanRequestStarted
  <1>4. ASSUME NEW r \in Requests, Abort(r)
        PROVE  Quiet
    BY <1>4, RootedTyped DEF Abort, Quiet, TypeOK
  <1>5. ASSUME NEW x \in Projects \cup Tasks, Age(x)
        PROVE  Quiet
    BY <1>5 DEF Age, Quiet
  <1>6. CASE UNCHANGED vars
    BY <1>6 DEF vars, Quiet
  <1> QED
    BY <1>1, <1>2, <1>3, <1>4, <1>5, <1>6 DEF Next

(* A commit keeps a task with its project, and what requests have read.    *)
LEMMA InstalledRooted ==
  ASSUME Rooted, TypeOK', NEW w, Lasting(db, w), Installed(w)
  PROVE  Rooted'
  <1>0. TypeOK /\ db' = Apply(db, w) /\ \A r \in Requests : FromOK(db, From(r))
    BY RootedTyped DEF Installed, Install, Rooted
  <1>1. \A x \in Docs : db'[x] = IF x \in DOMAIN w THEN w[x] ELSE db[x]
    BY <1>0 DEF Apply
  <1>2. ASSUME NEW p \in Projects, db[p].life # "none"
        PROVE  db'[p].life # "none"
    BY <1>1, <1>2, Disjoint DEF Docs, Lasting, KeepsLives
  <1>3. TasksHaveProjects(db')
    <2> SUFFICES ASSUME NEW t \in Tasks, db'[t].life # "none"
                 PROVE  db'[ProjectOf[t]].life # "none"
      BY DEF TasksHaveProjects
    <2>1. CASE t \in DOMAIN w
      BY <1>2, <2>1, Disjoint DEF Lasting, KnowsProject
    <2>2. CASE t \notin DOMAIN w
      <3>1. db[t].life # "none"
        BY <1>1, <2>2 DEF Docs
      <3> QED
        BY <1>2, <3>1, Disjoint, RootedTyped
    <2> QED
      BY <2>1, <2>2
  <1>4. ASSUME NEW c, FromOK(db, c) PROVE FromOK(db', c)
    BY <1>2, <1>4, Disjoint DEF FromOK
  <1>5. ASSUME NEW q \in Requests PROVE FromOK(db', From(q)')
    <2>1. From(q)' = Idle \/ From(q)' = From(q)
      BY <1>0, InstalledRunning DEF Installed
    <2>2. FromOK(db', Idle)
      BY DEF FromOK
    <2> QED
      BY <1>0, <1>4, <2>1, <2>2
  <1> QED
    BY <1>3, <1>5 DEF Rooted

(* Every running transaction stays lasting.                                *)
LEMMA InstalledLeft ==
  ASSUME LeftInv, TypeOK', NEW w, WritesOK(w), Lasting(db, w), Installed(w)
  PROVE  LeftInv'
  <1>0. Rooted /\ TypeOK /\ DbOK(db) /\ db' = Apply(db, w)
    BY RootedTyped DEF LeftInv, Installed, Install
  <1>1. Rooted'
    BY <1>0, InstalledRooted
  <1>2. ASSUME NEW q \in Requests, IsRunning(q)'
        PROVE  LeftOK(db', req'[q])
    <2>1. /\ IsRunning(q)
          /\ req'[q].op = req[q].op
          /\ req'[q].writes = req[q].writes
          /\ DOMAIN req[q].writes \cap DOMAIN w = {}
      BY <1>0, <1>2, InstalledRunning DEF Installed
    <2>2. LeftOK(db, req[q]) /\ WritesOK(req[q].writes)
      BY <1>0, <2>1, WritesTypedOf DEF LeftInv
    <2>3. /\ Lasting(db', req[q].writes)
          /\ CreatesNone(db, req[q].writes) => CreatesNone(db', req[q].writes)
      BY <1>0, <2>1, <2>2, LastingKept DEF LeftOK
    <2> QED
      BY <2>1, <2>2, <2>3 DEF LeftOK
  <1> QED
    BY <1>1, <1>2 DEF LeftInv

LEMMA QuietLeft ==
  ASSUME LeftInv, TypeOK', Quiet
  PROVE  LeftInv'
  <1>0. db' = db /\ TasksHaveProjects(db) /\ \A q \in Requests : FromOK(db, From(q))
    BY DEF Quiet, LeftInv, Rooted
  <1>1. \A q \in Requests : FromOK(db', From(q)')
    BY <1>0, QuietRunning
  <1>2. TasksHaveProjects(db')
    BY <1>0
  <1>3. \A q \in Requests : IsRunning(q)' => LeftOK(db', req'[q])
    BY <1>0, QuietRunning DEF LeftInv
  <1> QED
    BY <1>1, <1>2, <1>3 DEF LeftInv, Rooted

LEMMA StartedLeft ==
  ASSUME LeftInv, TypeOK', NEW r \in Requests, Started(r)
  PROVE  LeftInv'
  <1>0. TypeOK /\ TasksHaveProjects(db) /\ \A q \in Requests : FromOK(db, From(q))
    BY DEF LeftInv, Rooted
  <1>1. /\ db' = db
        /\ \A q \in Requests \ {r} : req'[q] = req[q]
        /\ req'[r].op \in Ops
        /\ Outcome(req'[r].op, req'[r].writes, req'[r].open)
        /\ FromOK(db, From(r)')
    BY <1>0, StartedRunning
  <1>2. ASSUME NEW q \in Requests, q # r
        PROVE  FromOK(db', From(q)') /\ (IsRunning(q)' => LeftOK(db', req'[q]))
    <2>1. req'[q] = req[q] /\ From(q)' = From(q)
      BY <1>1, <1>2 DEF From, IsRunning
    <2> QED
      BY <1>0, <1>1, <2>1 DEF LeftInv, IsRunning
  <1>3. FromOK(db', From(r)') /\ LeftOK(db', req'[r])
    BY <1>1 DEF Outcome, LeftOK
  <1>4. TasksHaveProjects(db')
    BY <1>0, <1>1
  <1> QED
    BY <1>2, <1>3, <1>4 DEF LeftInv, Rooted

(* What a commit leaves behind in a deleted project was there, or is new.  *)
LEMMA InstalledBehind ==
  ASSUME TypeOK, NEW w, WritesOK(w), Lasting(db, w), Installed(w),
         NEW t \in Tasks, db'[ProjectOf[t]].life = "gone", Stored(db', t)
  PROVE  /\ db[ProjectOf[t]].life = "gone"
         /\ Stored(db, t) \/ db[t].life = "none"
         /\ CreatesNone(db, w) => Stored(db, t)
  <1> DEFINE p == ProjectOf[t]
  <1>1. \A x \in Docs : db'[x] = IF x \in DOMAIN w THEN w[x] ELSE db[x]
    BY DEF Installed, Install, Apply
  <1>2. p \in Projects /\ p \in Docs /\ t \in Docs /\ t # Org /\ t \in TasksOf(p)
    BY Disjoint DEF Docs, TasksOf
  <1>3. p \notin DOMAIN w
    <2> SUFFICES ASSUME p \in DOMAIN w PROVE FALSE
      OBVIOUS
    <2>1. IF t \in DOMAIN w THEN w[t].life = "gone" ELSE ~Stored(db, t)
      BY <1>1, <1>2 DEF Lasting, TakesTasks
    <2> QED
      BY <1>1, <1>2, <2>1 DEF Stored
  <1>4. db[p].life = "gone"
    BY <1>1, <1>2, <1>3
  <1>5. CASE t \notin DOMAIN w
    BY <1>1, <1>2, <1>4, <1>5 DEF Stored
  <1>6. CASE t \in DOMAIN w
    <2>1. db[t].life # "gone"
      BY <1>2, <1>6 DEF Lasting, KeepsLives
    <2>2. db[t] \in TaskDocs
      BY <1>2, TypedDb DEF DbOK, DocOK
    <2>3. Stored(db, t) \/ db[t].life = "none"
      BY <2>1, <2>2 DEF TaskDocs, Lives, Stored
    <2>4. CreatesNone(db, w) => db[t].life # "none"
      BY <1>6 DEF CreatesNone
    <2> QED
      BY <1>4, <2>3, <2>4
  <1> QED
    BY <1>5, <1>6

(* A task is left in a deleted project only as one that was, or as a new   *)
(* one whose project was deleted before.                                   *)
LeftStep ==
  \A t \in Tasks : db'[ProjectOf[t]].life = "gone" /\ Stored(db', t) =>
    /\ db[ProjectOf[t]].life = "gone"
    /\ Stored(db, t) \/ db[t].life = "none"

LEMMA StepLeft == LeftInv /\ [Next]_vars => LeftInv' /\ LeftStep
  <1> SUFFICES ASSUME LeftInv, [Next]_vars PROVE LeftInv' /\ LeftStep
    OBVIOUS
  <1>0. Rooted /\ TypeOK /\ TypeOK'
    BY RootedTyped, StepTyped DEF LeftInv
  <1>1. ASSUME NEW w, WritesOK(w), Lasting(db, w), Installed(w)
        PROVE  LeftInv' /\ LeftStep
    BY <1>0, <1>1, InstalledLeft, InstalledBehind DEF LeftStep
  <1>2. CASE Quiet
    BY <1>0, <1>2, QuietLeft DEF Quiet, LeftStep
  <1>3. ASSUME NEW r \in Requests, Started(r)
        PROVE  LeftInv' /\ LeftStep
    BY <1>0, <1>3, StartedLeft, StartedRunning DEF LeftStep
  <1>4. ASSUME NEW r \in Requests, Commit(r)
        PROVE  LeftInv' /\ LeftStep
    <2>1. IsRunning(r) /\ WritesOK(req[r].writes) /\ Installed(req[r].writes)
      BY <1>0, <1>4, CommitInstalls
    <2>2. Lasting(db, req[r].writes)
      BY <2>1 DEF LeftInv, LeftOK
    <2> QED
      BY <1>1, <2>1, <2>2
  <1>5. CASE ExpirePlan
    <2>1. PICK w : DOMAIN w = {Org} /\ WritesOK(w) /\ Installed(w)
      BY <1>0, <1>5, ExpiryInstalls
    <2> QED
      BY <1>1, <2>1, OrgLasts
  <1> QED
    BY <1>0, <1>2, <1>3, <1>4, <1>5, StepKinds

(* Once no request creates tasks, a step leaves no other task behind.      *)
LEMMA StepBehind ==
  ASSUME "createTask" \notin Ops
  PROVE  LeftInv /\ NoTaskLeftBehind /\ [Next]_vars => NoTaskLeftBehind'
  <1> SUFFICES ASSUME LeftInv, NoTaskLeftBehind, [Next]_vars,
                      NEW t \in Tasks, db'[ProjectOf[t]].life = "gone",
                      Stored(db', t)
               PROVE  FALSE
    BY DEF NoTaskLeftBehind
  <1>0. Rooted /\ TypeOK
    BY RootedTyped DEF LeftInv
  <1>1. ASSUME NEW w, WritesOK(w), Lasting(db, w), Installed(w), CreatesNone(db, w)
        PROVE  FALSE
    BY <1>0, <1>1, InstalledBehind DEF NoTaskLeftBehind
  <1>2. CASE db' = db
    BY <1>2 DEF NoTaskLeftBehind
  <1>3. ASSUME NEW r \in Requests, Commit(r)
        PROVE  FALSE
    <2>1. IsRunning(r) /\ WritesOK(req[r].writes) /\ Installed(req[r].writes)
      BY <1>0, <1>3, CommitInstalls
    <2>2. Lasting(db, req[r].writes) /\ CreatesNone(db, req[r].writes)
      BY <2>1 DEF LeftInv, LeftOK
    <2> QED
      BY <1>1, <2>1, <2>2
  <1>4. CASE ExpirePlan
    <2>1. PICK w : DOMAIN w = {Org} /\ WritesOK(w) /\ Installed(w)
      BY <1>0, <1>4, ExpiryInstalls
    <2> QED
      BY <1>1, <2>1, OrgLasts
  <1> QED
    BY <1>0, <1>2, <1>3, <1>4, StepKinds, StartedRunning DEF Quiet

(* A workspace between requests, whatever is in it.                        *)
Settled ==
  /\ TypeOK
  /\ TasksHaveProjects(db)
  /\ NoTaskLeftBehind
  /\ \A r \in Requests : req[r] = Idle

LEMMA SettledLeft == Settled => LeftInv
  BY DEF Settled, LeftInv, Rooted, FromOK, From, IsRunning, Idle

LEMMA InitSettled == Init => Settled
  <1> SUFFICES ASSUME Init PROVE Settled
    OBVIOUS
  <1>1. TypeOK
    BY InitTyped
  <1>2. \A x \in Projects \cup Tasks : db[x].life = "none"
    BY Disjoint DEF Init, Docs
  <1> QED
    BY <1>1, <1>2, Disjoint DEF Init, Settled, TasksHaveProjects, NoTaskLeftBehind, Stored

(* Permanent deletion takes every task with its project, in whatever order *)
(* it and the sweeps of the bin commit beside other requests: from any     *)
(* settled workspace, while no task is being created, none is left behind. *)
THEOREM NoneLeftBehind ==
  ASSUME "createTask" \notin Ops
  PROVE  Settled /\ [][Next]_vars => []NoTaskLeftBehind
  <1> DEFINE Inv == LeftInv /\ NoTaskLeftBehind
  <1>1. Settled => Inv
    BY SettledLeft DEF Settled
  <1>2. Inv /\ [Next]_vars => Inv'
    BY StepLeft, StepBehind
  <1>3. Inv => NoTaskLeftBehind
    OBVIOUS
  <1> QED
    BY <1>1, <1>2, <1>3, PTL

(* With every kind of request, the one way to leave a task behind is to    *)
(* create it in a project that was deleted before the task was committed   *)
(* (createTask does not look at the project again in its transaction).     *)
THEOREM LeftByCreation ==
  Spec => [][\A t \in Tasks : db'[ProjectOf[t]].life = "gone" /\ Stored(db', t) =>
               /\ db[ProjectOf[t]].life = "gone"
               /\ Stored(db, t) \/ db[t].life = "none"]_vars
  <1>1. Init => LeftInv
    BY InitSettled, SettledLeft
  <1>2. LeftInv /\ [Next]_vars => LeftInv' /\ [LeftStep]_vars
    BY StepLeft
  <1>3. Spec => [][LeftStep]_vars
    BY <1>1, <1>2, PTL DEF Spec
  <1> QED
    BY <1>3 DEF LeftStep

-----------------------------------------------------------------------------
(* Places under the task limit.                                            *)

(* No request brings tasks back without a check of the room there is now.  *)
RoomIsChecked == Ops \cap TaskReturns = {}

(* No request deletes projects for good: a deleted one has no lock.        *)
NoneDestroyed == Ops \cap Destroying = {}

(* Writes that fill no place of project p leave its open tasks as they     *)
(* are, or fewer; those that fill one hold its project.                    *)
LEMMA OpenAfter ==
  ASSUME NEW d, NEW w, NEW open, Fills(d, w, open),
         NEW p \in Projects, d[p].life # "gone"
  PROVE  \/ OpenTasks(Apply(d, w), p) \subseteq OpenTasks(d, p)
         \/ /\ open \in Nat /\ OpenCount(d, p) <= open /\ p \in DOMAIN w
            /\ \E t \in Tasks : OpenTasks(Apply(d, w), p) \subseteq OpenTasks(d, p) \cup {t}
  <1> DEFINE e == Apply(d, w)
  <1>1. \A x \in Docs : e[x] = IF x \in DOMAIN w THEN w[x] ELSE d[x]
    BY DEF Apply
  <1> HIDE DEF e
  <1>2. ASSUME NEW u \in OpenTasks(e, p), u \notin DOMAIN w \/ IsActiveTask(d[u])
        PROVE  u \in OpenTasks(d, p)
    BY <1>1, <1>2 DEF OpenTasks, TasksOf, Docs
  <1>3. CASE open = NoRoomCheck
    <2>1. FillsNone(d, w)
      BY <1>3 DEF Fills
    <2>2. ASSUME NEW u \in OpenTasks(e, p), u \in DOMAIN w
          PROVE  IsActiveTask(d[u])
      BY <1>1, <2>1, <2>2 DEF FillsNone, OpenTasks, TasksOf, Docs
    <2> QED
      BY <1>2, <2>2 DEF e
  <1>4. CASE open # NoRoomCheck
    <2>1. open \in Nat
      BY <1>4 DEF Fills
    <2>2. PICK t \in Tasks :
            /\ DOMAIN w \cap Tasks = {t}
            /\ d[ProjectOf[t]].life # "gone" =>
                 ProjectOf[t] \in DOMAIN w /\ OpenCount(d, ProjectOf[t]) <= open
      BY <1>4 DEF Fills, FillsOne
    <2>3. CASE ProjectOf[t] = p
      <3>1. OpenTasks(e, p) \subseteq OpenTasks(d, p) \cup {t}
        BY <1>2, <2>2 DEF OpenTasks, TasksOf
      <3> QED
        BY <2>1, <2>2, <2>3, <3>1 DEF e
    <2>4. CASE ProjectOf[t] # p
      BY <1>2, <2>2, <2>4 DEF OpenTasks, TasksOf, e
    <2> QED
      BY <2>3, <2>4
  <1> QED
    BY <1>3, <1>4

(* One more open task at most.                                             *)
LEMMA OpenPlusOne ==
  ASSUME NEW d, NEW e, NEW p, NEW t, OpenTasks(e, p) \subseteq OpenTasks(d, p) \cup {t}
  PROVE  OpenCount(e, p) <= OpenCount(d, p) + 1
  <1>1. IsFiniteSet(OpenTasks(d, p))
    BY UsageAssumption, FS_Subset DEF OpenTasks, TasksOf
  <1>2. /\ IsFiniteSet(OpenTasks(d, p) \cup {t})
        /\ Cardinality(OpenTasks(d, p) \cup {t}) \in Nat
        /\ Cardinality(OpenTasks(d, p) \cup {t}) <= Cardinality(OpenTasks(d, p)) + 1
    <2>1. /\ IsFiniteSet(OpenTasks(d, p) \cup {t})
          /\ Cardinality(OpenTasks(d, p) \cup {t})
               = IF t \in OpenTasks(d, p) THEN Cardinality(OpenTasks(d, p))
                 ELSE Cardinality(OpenTasks(d, p)) + 1
      BY <1>1, FS_AddElement
    <2>2. Cardinality(OpenTasks(d, p)) \in Nat
      BY <1>1, FS_CardinalityType
    <2> QED
      BY <2>1, <2>2
  <1>3. /\ Cardinality(OpenTasks(e, p)) \in Nat
        /\ Cardinality(OpenTasks(e, p)) <= Cardinality(OpenTasks(d, p) \cup {t})
    BY <1>2, FS_Subset, FS_CardinalityType
  <1>4. Cardinality(OpenTasks(d, p)) \in Nat
    BY <1>1, FS_CardinalityType
  <1> QED
    BY <1>2, <1>3, <1>4 DEF OpenCount

(* What is committed beside a transaction that goes on leaves its count of *)
(* places an upper bound.                                                  *)
LEMMA FillsKept ==
  ASSUME NEW d, NEW w, KeepsLives(d, w), NEW open, Fills(d, w, open),
         NEW w2, WritesOK(w2), NEW open2, Fills(d, w2, open2),
         DOMAIN w \cap DOMAIN w2 = {}
  PROVE  Fills(Apply(d, w), w2, open2)
  <1> DEFINE e == Apply(d, w)
  <1>1. \A x \in DOMAIN w2 : e[x] = d[x]
    BY DEF Apply, WritesOK
  <1>2. \A x \in Projects : d[x].life = "gone" => e[x].life = "gone"
    BY Disjoint DEF Apply, KeepsLives, Docs
  <1> HIDE DEF e
  <1>3. CASE open2 = NoRoomCheck
    BY <1>1, <1>3 DEF Fills, FillsNone, e
  <1>4. CASE open2 # NoRoomCheck
    <2>1. open2 \in Nat
      BY <1>4 DEF Fills
    <2>2. PICK t \in Tasks :
            /\ DOMAIN w2 \cap Tasks = {t}
            /\ d[ProjectOf[t]].life # "gone" =>
                 ProjectOf[t] \in DOMAIN w2 /\ OpenCount(d, ProjectOf[t]) <= open2
      BY <1>4 DEF Fills, FillsOne
    <2> DEFINE p == ProjectOf[t]
    <2>3. p \in Projects
      BY Disjoint
    <2>4. CASE e[p].life # "gone"
      <3>1. d[p].life # "gone" /\ p \in DOMAIN w2 /\ p \notin DOMAIN w
        BY <1>2, <2>2, <2>3, <2>4
      <3> HIDE DEF p
      <3>2. OpenTasks(e, p) \subseteq OpenTasks(d, p)
        BY <2>3, <3>1, OpenAfter DEF e
      <3>3. OpenCount(e, p) <= OpenCount(d, p)
        BY <3>2, OpenSubset
      <3>4. OpenCount(e, p) \in Nat /\ OpenCount(d, p) \in Nat /\ OpenCount(d, p) <= open2
        BY <2>2, <3>1, OpenCountType DEF p
      <3>5. OpenCount(e, p) <= open2
        BY <2>1, <3>3, <3>4
      <3> QED
        BY <1>4, <2>1, <2>2, <3>1, <3>5 DEF Fills, FillsOne, p, e
    <2>5. CASE e[p].life = "gone"
      BY <1>4, <2>1, <2>2, <2>5 DEF Fills, FillsOne, p, e
    <2> QED
      BY <2>4, <2>5
  <1> QED
    BY <1>3, <1>4

LEMMA InstalledPlaces ==
  ASSUME PlacesInv, TypeOK', NEW w, WritesOK(w), Lasting(db, w), NEW open,
         Fills(db, w, open), Installed(w)
  PROVE  PlacesInv'
  <1>0. LeftInv /\ TypeOK /\ db' = Apply(db, w) /\ KeepsLives(db, w)
    BY RootedTyped DEF PlacesInv, LeftInv, Installed, Install, Lasting
  <1>1. LeftInv'
    BY <1>0, InstalledLeft
  <1>2. ASSUME NEW q \in Requests, IsRunning(q)'
        PROVE  PlacesOK(db', req'[q])
    <2>1. /\ IsRunning(q)
          /\ req'[q].writes = req[q].writes
          /\ req'[q].open = req[q].open
          /\ DOMAIN req[q].writes \cap DOMAIN w = {}
      BY <1>0, <1>2, InstalledRunning DEF Installed
    <2>2. Fills(db, req[q].writes, req[q].open) /\ WritesOK(req[q].writes)
      BY <1>0, <2>1, WritesTypedOf DEF PlacesInv, PlacesOK
    <2>3. Fills(db', req[q].writes, req[q].open)
      BY <1>0, <2>1, <2>2, FillsKept
    <2> QED
      BY <2>1, <2>3 DEF PlacesOK
  <1> QED
    BY <1>1, <1>2 DEF PlacesInv

LEMMA QuietPlaces ==
  ASSUME PlacesInv, TypeOK', Quiet
  PROVE  PlacesInv'
  <1>0. db' = db /\ LeftInv'
    BY QuietLeft DEF Quiet, PlacesInv
  <1>1. \A q \in Requests : IsRunning(q)' => PlacesOK(db', req'[q])
    BY <1>0, QuietRunning DEF PlacesInv
  <1> QED
    BY <1>0, <1>1 DEF PlacesInv

LEMMA StartedPlaces ==
  ASSUME RoomIsChecked, PlacesInv, TypeOK', NEW r \in Requests, Started(r)
  PROVE  PlacesInv'
  <1>0. LeftInv' /\ TypeOK
    BY StartedLeft DEF PlacesInv, LeftInv, Rooted
  <1>1. /\ db' = db
        /\ \A q \in Requests \ {r} : req'[q] = req[q]
        /\ req'[r].op \in Ops
        /\ Outcome(req'[r].op, req'[r].writes, req'[r].open)
    BY <1>0, StartedRunning
  <1>2. \A q \in Requests \ {r} : IsRunning(q)' => PlacesOK(db', req'[q])
    BY <1>1 DEF PlacesInv, IsRunning
  <1>3. PlacesOK(db', req'[r])
    BY <1>1 DEF RoomIsChecked, Outcome, PlacesOK
  <1> QED
    BY <1>0, <1>2, <1>3 DEF PlacesInv

LEMMA StepPlaces ==
  ASSUME RoomIsChecked
  PROVE  PlacesInv /\ [Next]_vars => PlacesInv'
  <1> SUFFICES ASSUME PlacesInv, [Next]_vars PROVE PlacesInv'
    OBVIOUS
  <1>0. Rooted /\ TypeOK /\ TypeOK'
    BY RootedTyped, StepTyped DEF PlacesInv, LeftInv
  <1>1. CASE Quiet
    BY <1>0, <1>1, QuietPlaces
  <1>2. ASSUME NEW r \in Requests, Started(r) PROVE PlacesInv'
    BY <1>0, <1>2, StartedPlaces
  <1>3. ASSUME NEW r \in Requests, Commit(r) PROVE PlacesInv'
    <2>1. IsRunning(r) /\ WritesOK(req[r].writes) /\ Installed(req[r].writes)
      BY <1>0, <1>3, CommitInstalls
    <2>2. Lasting(db, req[r].writes) /\ Fills(db, req[r].writes, req[r].open)
      BY <2>1 DEF PlacesInv, PlacesOK, LeftInv, LeftOK
    <2> QED
      BY <1>0, <2>1, <2>2, InstalledPlaces
  <1>4. CASE ExpirePlan
    <2>1. PICK w : DOMAIN w = {Org} /\ WritesOK(w) /\ Installed(w)
      BY <1>0, <1>4, ExpiryInstalls
    <2> QED
      BY <1>0, <2>1, OrgLasts, InstalledPlaces
  <1> QED
    BY <1>0, <1>1, <1>2, <1>3, <1>4, StepKinds

(* A commit that adds an open task to a project had room for it.           *)
LEMMA CommitRoom ==
  ASSUME PlacesInv, NEW r \in Requests, Commit(r), NEW p \in Projects,
         db[p].life # "gone", OpenCount(db', p) > OpenCount(db, p)
  PROVE  \E plan \in req[r].plans : OpenCount(db', p) <= TaskLimit[plan]
  <1> DEFINE w == req[r].writes
             open == req[r].open
  <1>0. TypeOK
    BY RootedTyped DEF PlacesInv, LeftInv
  <1>1. IsRunning(r) /\ Fills(db, w, open) /\ db' = Apply(db, w)
    BY DEF Commit, PlacesInv, PlacesOK, Install
  <1>2. OpenCount(db, p) \in Nat /\ OpenCount(db', p) \in Nat
    BY OpenCountType
  <1>3. CASE OpenTasks(db', p) \subseteq OpenTasks(db, p)
    BY <1>2, <1>3, OpenSubset
  <1>4. CASE /\ open \in Nat /\ OpenCount(db, p) <= open
             /\ \E t \in Tasks : OpenTasks(db', p) \subseteq OpenTasks(db, p) \cup {t}
    <2>1. OpenCount(db', p) <= OpenCount(db, p) + 1
      BY <1>4, OpenPlusOne
    <2>2. PICK plan \in req[r].plans : open < TaskLimit[plan]
      BY <1>4 DEF Commit, NoRoomCheck
    <2>3. TaskLimit[plan] \in Nat
      <3>1. req[r].plans \subseteq Plans
        BY <1>0, <1>1 DEF TypeOK, RequestOK, IsRunning, Idle, CheckedOK
      <3> QED
        BY <3>1, UsageAssumption
    <2> HIDE DEF open
    <2>4. OpenCount(db', p) <= TaskLimit[plan]
      BY <1>2, <1>4, <2>1, <2>2, <2>3
    <2> QED
      BY <2>4
  <1> HIDE DEF w, open
  <1> QED
    BY <1>1, <1>3, <1>4, OpenAfter

LEMMA InitPlaces == Init => PlacesInv
  <1> SUFFICES ASSUME Init PROVE PlacesInv
    OBVIOUS
  <1>1. LeftInv
    BY InitSettled, SettledLeft
  <1> QED
    BY <1>1 DEF Init, PlacesInv, IsRunning, Idle

(* Two requests that add open tasks to one project cannot pass its limit   *)
(* together: both write the project, and the count each took still bounds  *)
(* what is there when it commits. So it is for every project that has not  *)
(* been deleted for good.                                                  *)
THEOREM StoredTasksWithinPlan ==
  ASSUME RoomIsChecked
  PROVE  Spec => [][\A r \in Requests, p \in Projects :
           /\ IsRunning(r) /\ Commit(r)
           /\ db[p].life # "gone"
           /\ OpenCount(db', p) > OpenCount(db, p)
           => \E plan \in req[r].plans : OpenCount(db', p) <= TaskLimit[plan]]_vars
  <1> DEFINE Step == \A r \in Requests, p \in Projects :
           /\ IsRunning(r) /\ Commit(r)
           /\ db[p].life # "gone"
           /\ OpenCount(db', p) > OpenCount(db, p)
           => \E plan \in req[r].plans : OpenCount(db', p) <= TaskLimit[plan]
  <1>1. PlacesInv /\ [Next]_vars => PlacesInv' /\ [Step]_vars
    BY StepPlaces, CommitRoom
  <1>2. Spec => [][Step]_vars
    BY <1>1, InitPlaces, PTL DEF Spec
  <1> QED
    BY <1>2

(* Where no request deletes projects, none is ever gone.                   *)
LEMMA StepKept ==
  ASSUME NoneDestroyed
  PROVE  KeptInv /\ [Next]_vars => KeptInv'
  <1> SUFFICES ASSUME KeptInv, [Next]_vars PROVE KeptInv'
    OBVIOUS
  <1>0. Rooted /\ TypeOK /\ TypeOK' /\ LeftInv'
    BY RootedTyped, StepTyped, StepLeft DEF KeptInv, LeftInv
  <1>1. CASE Quiet
    <2>1. \A q \in Requests : IsRunning(q)' => SparesProjects(req'[q].writes)
      BY <1>1, QuietRunning DEF KeptInv
    <2>2. \A p \in Projects : db'[p].life # "gone"
      BY <1>1 DEF KeptInv, Quiet
    <2> QED
      BY <1>0, <2>1, <2>2 DEF KeptInv, SparesProjects
  <1>2. ASSUME NEW r \in Requests, Started(r) PROVE KeptInv'
    <2>1. /\ db' = db
          /\ \A q \in Requests \ {r} : req'[q] = req[q]
          /\ req'[r].op \in Ops
          /\ Outcome(req'[r].op, req'[r].writes, req'[r].open)
      BY <1>0, <1>2, StartedRunning
    <2>2. SparesProjects(req'[r].writes)
      BY <2>1 DEF NoneDestroyed, Outcome
    <2>3. \A q \in Requests \ {r} : IsRunning(q)' => SparesProjects(req'[q].writes)
      BY <2>1 DEF KeptInv, IsRunning
    <2>4. \A p \in Projects : db'[p].life # "gone"
      BY <2>1 DEF KeptInv
    <2> QED
      BY <1>0, <2>2, <2>3, <2>4 DEF KeptInv, SparesProjects
  <1>3. ASSUME NEW w, SparesProjects(w), Installed(w) PROVE KeptInv'
    <2>1. \A p \in Projects : db'[p].life # "gone"
      BY <1>3 DEF KeptInv, Installed, Install, Apply, Docs, SparesProjects
    <2>2. \A q \in Requests : IsRunning(q)' => SparesProjects(req'[q].writes)
      BY <1>0, <1>3, InstalledRunning DEF KeptInv, Installed
    <2> QED
      BY <1>0, <2>1, <2>2 DEF KeptInv, SparesProjects
  <1>4. ASSUME NEW r \in Requests, Commit(r) PROVE KeptInv'
    BY <1>0, <1>3, <1>4, CommitInstalls DEF KeptInv
  <1>5. CASE ExpirePlan
    BY <1>0, <1>3, <1>5, ExpiryInstalls, OrgLasts
  <1> QED
    BY <1>0, <1>1, <1>2, <1>4, <1>5, StepKinds

(* So the same holds of every project where none is deleted for good.      *)
THEOREM TasksWithinPlan ==
  ASSUME RoomIsChecked, NoneDestroyed
  PROVE  Spec => NoTaskOverPlan
  <1> DEFINE Step == \A r \in Requests, p \in Projects :
       IsRunning(r) /\ Commit(r) /\ OpenCount(db', p) > OpenCount(db, p) =>
         \E plan \in req[r].plans : OpenCount(db', p) <= TaskLimit[plan]
  <1>1. Init => KeptInv
    <2> SUFFICES ASSUME Init PROVE KeptInv
      OBVIOUS
    <2>1. LeftInv
      BY InitSettled, SettledLeft
    <2>2. \A p \in Projects : db[p].life # "gone"
      BY Disjoint DEF Init, Docs
    <2> QED
      BY <2>1, <2>2 DEF Init, KeptInv, IsRunning, Idle
  <1>2. PlacesInv /\ KeptInv /\ [Next]_vars => PlacesInv' /\ KeptInv' /\ [Step]_vars
    BY StepPlaces, StepKept, CommitRoom DEF KeptInv
  <1>3. Spec => [][Step]_vars
    BY <1>1, <1>2, InitPlaces, PTL DEF Spec
  <1> QED
    BY <1>3 DEF NoTaskOverPlan

-----------------------------------------------------------------------------
(* The archival after a grace period.                                      *)

(* What is committed beside an archival leaves it within the Free plan: a  *)
(* project in use stays trimmed, but for a task that there was room for.   *)
LEMMA EnforcesKept ==
  ASSUME NEW d, NEW w, KeepsLives(d, w), NEW open, Fills(d, w, open),
         UsesNone(d, w), open # NoRoomCheck => open < TaskLimit[Free],
         NEW w2, WritesOK(w2), KeepsLives(d, w2), Fills(d, w2, NoRoomCheck),
         NEW open2, Enforces(d, w2, open2), DOMAIN w \cap DOMAIN w2 = {}
  PROVE  Enforces(Apply(d, w), w2, open2)
  <1> DEFINE e == Apply(d, w)
             f == Apply(e, w2)
             g == Apply(d, w2)
             limit == TaskLimit[Free]
  <1>0. limit \in Nat
    BY UsageAssumption
  <1>1. \A x \in Docs : e[x] = IF x \in DOMAIN w THEN w[x] ELSE d[x]
    BY DEF Apply
  <1> HIDE DEF e
  <1>2. \A x \in Docs : f[x] = IF x \in DOMAIN w2 THEN w2[x] ELSE e[x]
    BY DEF Apply
  <1>3. \A x \in Docs : g[x] = IF x \in DOMAIN w2 THEN w2[x] ELSE d[x]
    BY DEF Apply
  <1>4. Org \in DOMAIN w2 /\ Org \notin DOMAIN w /\ OverTaskLimit(g, limit) = {}
    BY DEF Enforces
  <1> HIDE DEF f, g
  <1>5. \A u \in DOMAIN w2 \cap Tasks : IsActiveTask(w2[u]) => IsActiveTask(d[u])
    BY DEF Fills, FillsNone
  <1>6. OverTaskLimit(f, limit) = {}
    <2> SUFFICES ASSUME NEW p \in Projects, InUse(f, p)
                 PROVE  ~(OpenCount(f, p) > limit)
      BY DEF OverTaskLimit
    <2> HIDE DEF limit
    <2>0. p \in Docs /\ p # Org
      BY Disjoint DEF Docs
    <2>1. d[p].life # "gone" /\ (InUse(g, p) \/ OpenTasks(d, p) = {})
      <3>1. CASE p \in DOMAIN w2
        BY <1>2, <1>3, <2>0, <3>1 DEF InUse, KeepsLives
      <3>2. CASE p \notin DOMAIN w2 /\ p \in DOMAIN w
        <4>1. InUse(w, p) /\ d[p].life # "gone"
          BY <1>1, <1>2, <2>0, <3>2 DEF InUse, KeepsLives
        <4>2. InUse(d, p) \/ OpenTasks(d, p) = {}
          BY <1>4, <3>2, <4>1 DEF UsesNone
        <4> QED
          BY <1>3, <2>0, <3>2, <4>1, <4>2 DEF InUse
      <3>3. CASE p \notin DOMAIN w2 /\ p \notin DOMAIN w
        BY <1>1, <1>2, <1>3, <2>0, <3>3 DEF InUse
      <3> QED
        BY <3>1, <3>2, <3>3
    <2>2. ~(OpenCount(g, p) > limit)
      <3>1. CASE InUse(g, p)
        BY <1>4, <3>1 DEF OverTaskLimit
      <3>2. CASE OpenTasks(d, p) = {}
        <4>1. OpenTasks(g, p) = {}
          BY <1>3, <1>5, <3>2 DEF OpenTasks, TasksOf, Docs
        <4>2. OpenCount(g, p) = 0
          BY <4>1, FS_EmptySet DEF OpenCount
        <4> QED
          BY <1>0, <4>2 DEF limit
      <3> QED
        BY <2>1, <3>1, <3>2
    <2>3. OpenCount(f, p) \in Nat /\ OpenCount(g, p) \in Nat /\ OpenCount(d, p) \in Nat
      BY OpenCountType
    <2>4. ASSUME NEW u \in OpenTasks(f, p)
          PROVE  /\ u \in DOMAIN w2 => u \in OpenTasks(g, p) /\ u \in OpenTasks(d, p)
                 /\ u \notin DOMAIN w2 =>
                      /\ u \in OpenTasks(e, p)
                      /\ u \in OpenTasks(d, p) => u \in OpenTasks(g, p)
      <3>1. u \in Tasks /\ u \in TasksOf(p) /\ u \in Docs /\ IsActiveTask(f[u])
        BY DEF OpenTasks, TasksOf, Docs
      <3>2. CASE u \in DOMAIN w2
        BY <1>2, <1>3, <1>5, <3>1, <3>2 DEF OpenTasks
      <3>3. CASE u \notin DOMAIN w2
        BY <1>2, <1>3, <3>1, <3>3 DEF OpenTasks
      <3> QED
        BY <3>2, <3>3
    <2>5. CASE OpenTasks(e, p) \subseteq OpenTasks(d, p)
      <3>1. OpenTasks(f, p) \subseteq OpenTasks(g, p)
        BY <2>4, <2>5
      <3>2. OpenCount(f, p) <= OpenCount(g, p)
        BY <3>1, OpenSubset
      <3> QED
        BY <1>0, <2>2, <2>3, <3>2 DEF limit
    <2>6. CASE /\ open \in Nat /\ OpenCount(d, p) <= open
               /\ \E t \in Tasks : OpenTasks(e, p) \subseteq OpenTasks(d, p) \cup {t}
      <3>1. PICK t \in Tasks : OpenTasks(e, p) \subseteq OpenTasks(d, p) \cup {t}
        BY <2>6
      <3>2. OpenTasks(f, p) \subseteq OpenTasks(d, p) \cup {t}
        BY <2>4, <3>1
      <3>3. OpenCount(f, p) <= OpenCount(d, p) + 1
        BY <3>2, OpenPlusOne
      <3>4. open < limit
        BY <2>6 DEF NoRoomCheck, limit
      <3>5. limit \in Nat
        BY <1>0 DEF limit
      <3> QED
        BY <2>3, <2>6, <3>3, <3>4, <3>5
    <2> QED
      BY <2>1, <2>5, <2>6, OpenAfter DEF e
  <1>7. e[Org] = d[Org]
    BY <1>1, <1>4 DEF Docs
  <1> QED
    BY <1>6, <1>7 DEF Enforces, e, f, limit

LEMMA InstalledEnforce ==
  ASSUME EnforceInv, TypeOK', NEW w, WritesOK(w), Lasting(db, w), NEW open,
         Fills(db, w, open), UsesNone(db, w), Installed(w),
         \A q \in Requests : IsRunning(q) /\ req[q].op = "archiveExcess" =>
           (open # NoRoomCheck => open < TaskLimit[Free])
  PROVE  EnforceInv'
  <1>0. PlacesInv /\ LeftInv /\ TypeOK /\ db' = Apply(db, w) /\ KeepsLives(db, w)
    BY RootedTyped DEF EnforceInv, PlacesInv, LeftInv, Installed, Install, Lasting
  <1>1. PlacesInv'
    BY <1>0, InstalledPlaces
  <1>2. ASSUME NEW q \in Requests, IsRunning(q)'
        PROVE  /\ IsRunning(q) /\ req'[q].op = req[q].op
               /\ Org \notin DOMAIN w => req'[q].plans = req[q].plans
               /\ EnforceOK(db', req'[q])
    <2>1. /\ IsRunning(q)
          /\ req'[q].op = req[q].op
          /\ req'[q].writes = req[q].writes
          /\ req'[q].open = req[q].open
          /\ DOMAIN w \cap DOMAIN req[q].writes = {}
          /\ Org \notin DOMAIN w => req'[q].plans = req[q].plans
      BY <1>0, <1>2, InstalledRunning DEF Installed
    <2> DEFINE w2 == req[q].writes
    <2>2. /\ WritesOK(w2) /\ KeepsLives(db, w2) /\ Fills(db, w2, req[q].open)
          /\ UsesNone(db, w2)
          /\ req[q].op = "archiveExcess" => Enforces(db, w2, req[q].open)
      BY <1>0, <2>1, WritesTypedOf
         DEF EnforceInv, EnforceOK, PlacesInv, PlacesOK, LeftInv, LeftOK, Lasting
    <2>3. \A x \in DOMAIN w2 : db'[x] = db[x]
      BY <1>0, <2>1, <2>2 DEF Apply, WritesOK
    <2>4. UsesNone(db', w2)
      <3> SUFFICES ASSUME Org \notin DOMAIN w2, NEW p \in DOMAIN w2 \cap Projects, InUse(w2, p)
                   PROVE  InUse(db, p)' \/ OpenTasks(db', p) = {}
        BY DEF UsesNone, InUse
      <3>1. db'[p] = db[p] /\ db[p].life # "gone" /\ p \notin DOMAIN w
        BY <2>1, <2>2, <2>3, Disjoint DEF KeepsLives
      <3>2. InUse(db, p) \/ OpenTasks(db, p) = {}
        BY <2>2 DEF UsesNone
      <3>3. OpenTasks(Apply(db, w), p) \subseteq OpenTasks(db, p)
        BY <3>1, OpenAfter
      <3> QED
        BY <1>0, <3>1, <3>2, <3>3 DEF InUse
    <2>5. req[q].op = "archiveExcess" => Enforces(db', w2, req[q].open)
      <3> SUFFICES ASSUME req[q].op = "archiveExcess"
                   PROVE  Enforces(db', w2, req[q].open)
        OBVIOUS
      <3>1. Enforces(db, w2, req[q].open) /\ req[q].open = NoRoomCheck
        BY <2>2 DEF Enforces
      <3>2. open # NoRoomCheck => open < TaskLimit[Free]
        BY <2>1
      <3>3. Fills(db, w2, NoRoomCheck)
        BY <2>2, <3>1
      <3> HIDE DEF w2
      <3> QED
        BY <1>0, <2>1, <2>2, <3>1, <3>2, <3>3, EnforcesKept DEF w2
    <2> QED
      BY <2>1, <2>4, <2>5 DEF EnforceOK
  <1>3. ASSUME NEW q \in Requests, IsRunning(q)', req'[q].op = "archiveExcess"
        PROVE  GraceOver'
    <2>1. IsRunning(q) /\ req[q].op = "archiveExcess"
      BY <1>2, <1>3
    <2>2. Org \notin DOMAIN w
      <3>1. Enforces(db, req[q].writes, req[q].open)
        BY <2>1 DEF EnforceInv, EnforceOK
      <3>2. DOMAIN req[q].writes \cap DOMAIN w = {}
        BY <1>0, <1>3, InstalledRunning DEF Installed
      <3> QED
        BY <3>1, <3>2 DEF Enforces
    <2>3. \A s \in Requests : IsRunning(s) => req[s].plans \subseteq {Free}
      BY <2>1 DEF EnforceInv, GraceOver
    <2>4. \A s \in Requests : IsRunning(s)' => req'[s].plans \subseteq {Free}
      BY <1>2, <2>2, <2>3
    <2> QED
      BY <2>4 DEF GraceOver
  <1> QED
    BY <1>1, <1>2, <1>3 DEF EnforceInv

LEMMA QuietEnforce ==
  ASSUME EnforceInv, TypeOK', Quiet
  PROVE  EnforceInv'
  <1>0. db' = db /\ PlacesInv'
    BY QuietPlaces DEF Quiet, EnforceInv
  <1>1. \A q \in Requests : IsRunning(q)' => IsRunning(q) /\ req'[q] = req[q]
    BY QuietRunning
  <1>2. \A q \in Requests : IsRunning(q)' => EnforceOK(db', req'[q])
    BY <1>0, <1>1 DEF EnforceInv
  <1>3. ASSUME NEW q \in Requests, IsRunning(q)', req'[q].op = "archiveExcess"
        PROVE  GraceOver'
    <2>1. \A s \in Requests : IsRunning(s) => req[s].plans \subseteq {Free}
      BY <1>1, <1>3 DEF EnforceInv, GraceOver
    <2>2. \A s \in Requests : IsRunning(s)' => req'[s].plans \subseteq {Free}
      BY <1>1, <2>1
    <2> QED
      BY <2>2 DEF GraceOver
  <1> QED
    BY <1>0, <1>2, <1>3 DEF EnforceInv

LEMMA StartedEnforce ==
  ASSUME RoomIsChecked, EnforceInv, TypeOK', NEW r \in Requests, Started(r)
  PROVE  EnforceInv'
  <1>0. TypeOK
    BY DEF EnforceInv, PlacesInv, LeftInv, Rooted
  <1>1. PlacesInv'
    BY StartedPlaces DEF EnforceInv
  <1>2. /\ db' = db
        /\ \A q \in Requests \ {r} : req'[q] = req[q]
        /\ req'[r].op \in Ops
        /\ Outcome(req'[r].op, req'[r].writes, req'[r].open)
        /\ req'[r].plans = IF req'[r].open = NoRoomCheck THEN {} ELSE {db[Org].plan}
    BY <1>0, StartedRunning
  <1>3. \A q \in Requests \ {r} : IsRunning(q)' => EnforceOK(db', req'[q])
    BY <1>2 DEF EnforceInv, IsRunning
  <1>4. EnforceOK(db', req'[r])
    BY <1>2 DEF RoomIsChecked, TaskReturns, Outcome, EnforceOK
  <1>5. ASSUME NEW q \in Requests, IsRunning(q)', req'[q].op = "archiveExcess"
        PROVE  GraceOver'
    <2>1. GraceOver /\ req'[r].plans \subseteq {Free}
      <3>1. CASE q = r
        BY <1>2, <1>5, <3>1 DEF Outcome, Enforces
      <3>2. CASE q # r
        <4>1. IsRunning(q) /\ req[q].op = "archiveExcess"
          BY <1>2, <1>5, <3>2 DEF IsRunning
        <4>2. db[Org].plan = Free /\ GraceOver
          BY <4>1 DEF EnforceInv, EnforceOK, Enforces
        <4> QED
          BY <1>2, <4>2
      <3> QED
        BY <3>1, <3>2
    <2>2. \A s \in Requests : IsRunning(s) => req[s].plans \subseteq {Free}
      BY <2>1 DEF GraceOver
    <2>3. \A s \in Requests \ {r} : IsRunning(s)' => req'[s].plans \subseteq {Free}
      BY <1>2, <2>2 DEF IsRunning
    <2>4. \A s \in Requests : IsRunning(s)' => req'[s].plans \subseteq {Free}
      BY <2>1, <2>3
    <2> QED
      BY <2>4 DEF GraceOver
  <1> QED
    BY <1>1, <1>3, <1>4, <1>5 DEF EnforceInv

LEMMA StepEnforce ==
  ASSUME RoomIsChecked
  PROVE  EnforceInv /\ [Next]_vars => EnforceInv'
  <1> SUFFICES ASSUME EnforceInv, [Next]_vars PROVE EnforceInv'
    OBVIOUS
  <1>0. Rooted /\ TypeOK /\ TypeOK'
    BY RootedTyped, StepTyped DEF EnforceInv, PlacesInv, LeftInv
  <1>1. CASE Quiet
    BY <1>0, <1>1, QuietEnforce
  <1>2. ASSUME NEW r \in Requests, Started(r) PROVE EnforceInv'
    BY <1>0, <1>2, StartedEnforce
  <1>3. ASSUME NEW r \in Requests, Commit(r) PROVE EnforceInv'
    <2>1. IsRunning(r) /\ WritesOK(req[r].writes) /\ Installed(req[r].writes)
      BY <1>0, <1>3, CommitInstalls
    <2>2. /\ Lasting(db, req[r].writes) /\ Fills(db, req[r].writes, req[r].open)
          /\ UsesNone(db, req[r].writes)
      BY <2>1 DEF EnforceInv, EnforceOK, PlacesInv, PlacesOK, LeftInv, LeftOK
    <2>3. ASSUME NEW q \in Requests, IsRunning(q), req[q].op = "archiveExcess",
                 req[r].open # NoRoomCheck
          PROVE  req[r].open < TaskLimit[Free]
      <3>1. req[r].plans \subseteq {Free}
        BY <2>1, <2>3 DEF EnforceInv, GraceOver
      <3>2. \E plan \in req[r].plans : req[r].open < TaskLimit[plan]
        BY <1>3, <2>3 DEF Commit
      <3> QED
        BY <3>1, <3>2
    <2> QED
      BY <1>0, <2>1, <2>2, <2>3, InstalledEnforce
  <1>4. CASE ExpirePlan
    <2>1. PICK w : DOMAIN w = {Org} /\ WritesOK(w) /\ Installed(w)
      BY <1>0, <1>4, ExpiryInstalls
    <2> QED
      BY <1>0, <2>1, OrgLasts, InstalledEnforce
  <1> QED
    BY <1>0, <1>1, <1>2, <1>3, <1>4, StepKinds

LEMMA CommitEnforces ==
  ASSUME EnforceInv, NEW r \in Requests, IsRunning(r), req[r].op = "archiveExcess",
         Commit(r)
  PROVE  /\ db'[Org].projectCount <= ProjectLimit[Free]
         /\ OverTaskLimit(db', TaskLimit[Free]) = {}
  <1>1. Enforces(db, req[r].writes, req[r].open) /\ db' = Apply(db, req[r].writes)
    BY DEF EnforceInv, EnforceOK, Commit, Install
  <1>2. db'[Org] = req[r].writes[Org]
    BY <1>1 DEF Enforces, Apply, Docs
  <1> QED
    BY <1>1, <1>2 DEF Enforces

(* The archival after a grace period leaves the workspace within the Free  *)
(* plan at the moment it commits, whatever committed since it read. It     *)
(* locks none of the projects whose tasks it trims: a task that is opened  *)
(* meanwhile found room under the Free plan, and a project that comes back *)
(* with open tasks takes a slot, which the archival counts.                *)
THEOREM ArchivalEnforces ==
  ASSUME RoomIsChecked
  PROVE  Spec => EnforcedWithinFree
  <1> DEFINE Step == \A r \in Requests :
       IsRunning(r) /\ req[r].op = "archiveExcess" /\ Commit(r) =>
         /\ db'[Org].projectCount <= ProjectLimit[Free]
         /\ OverTaskLimit(db', TaskLimit[Free]) = {}
  <1>1. Init => EnforceInv
    BY InitPlaces DEF Init, EnforceInv, IsRunning, Idle
  <1>2. EnforceInv /\ [Next]_vars => EnforceInv' /\ [Step]_vars
    BY StepEnforce, CommitEnforces
  <1>3. Spec => [][Step]_vars
    BY <1>1, <1>2, PTL DEF Spec
  <1> QED
    BY <1>3 DEF EnforcedWithinFree
=============================================================================
