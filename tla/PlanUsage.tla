----------------------------- MODULE PlanUsage -----------------------------
(***************************************************************************)
(* Projects and tasks of one workspace against the limits of its plan:     *)
(* the requests of projects.service.ts and tasks.service.ts, the plan      *)
(* changes of orgs.service.ts and the archival after a grace period, as    *)
(* concurrent MongoDB transactions.                                        *)
(*                                                                         *)
(* A request first reads outside its transaction (Check...), then runs its *)
(* callback on a snapshot (Begin), which fixes the documents it will write *)
(* and their values, then commits. A commit that writes a document makes   *)
(* every running transaction that also writes it stale: those can only run *)
(* their callback again. Reads are not validated (snapshot isolation), and *)
(* getPlan reads the organization outside the session, so it may see any   *)
(* plan the workspace had while the transaction ran.                       *)
(***************************************************************************)
EXTENDS Integers, FiniteSets

CONSTANTS
  Requests,      \* requests in flight at once
  Projects,      \* ids of projects
  Tasks,         \* ids of tasks
  ProjectOf,     \* the project a task belongs to, for life
  Org,           \* the organization document
  Plans,         \* the plans
  Free,          \* the plan an ended one falls back to
  ProjectLimit,  \* projectLimit of PLAN_LIMITS
  TaskLimit,     \* activeTaskLimit of PLAN_LIMITS (null: a large number)
  Ops            \* the kinds of request this workspace receives

ASSUME UsageAssumption ==
  /\ ProjectOf \in [Tasks -> Projects]
  /\ Projects \cap Tasks = {}
  /\ Org \notin Projects \cup Tasks
  /\ Free \in Plans
  /\ ProjectLimit \in [Plans -> Nat]
  /\ TaskLimit \in [Plans -> Nat]
  /\ IsFiniteSet(Projects)
  /\ IsFiniteSet(Tasks)

VARIABLES
  db,    \* the committed documents
  aged,  \* documents in the bin for longer than BIN_RETENTION_DAYS
  req    \* what each request is doing

vars == <<db, aged, req>>

Docs == Projects \cup Tasks \cup {Org}

(* "none": not created yet; "bin": deletedAt set; "gone": deleted for good. *)
Lives == {"none", "live", "bin", "gone"}
(* archivedAt and archivedReason: "plan" is the reason plan_limit.          *)
Archive == {"no", "manual", "plan"}

ProjectDocs == [life : Lives, arch : Archive]
TaskDocs == [life : Lives, arch : Archive, status : {"open", "done"}]
OrgDocs == [plan : Plans, projectCount : Int]

TasksOf(p) == {t \in Tasks : ProjectOf[t] = p}

-----------------------------------------------------------------------------
(* What the services ask of a set of documents d.                          *)

Stored(d, x) == d[x].life \in {"live", "bin"}

LiveTasks(d, p) == {t \in TasksOf(p) : d[t].life = "live"}

(* A task that fills a place under the per-project task limit.             *)
IsActiveTask(doc) ==
  doc.life = "live" /\ doc.arch = "no" /\ doc.status = "open"

OpenTasks(d, p) == {t \in TasksOf(p) : IsActiveTask(d[t])}

OpenCount(d, p) == Cardinality(OpenTasks(d, p))

(* A project takes a plan slot: not archived, and open work or no tasks.   *)
(* Archived tasks still count here; binned ones do not.                    *)
Consumes(d, p) ==
  /\ d[p].life = "live"
  /\ d[p].arch = "no"
  /\ \/ \A t \in TasksOf(p) : d[t].life # "live"
     \/ \E t \in TasksOf(p) : d[t].life = "live" /\ d[t].status = "open"

Consuming(d) == {p \in Projects : Consumes(d, p)}

(* Projects in use, whose open tasks the plan's task limit is about.       *)
InUse(d, p) == d[p].life = "live" /\ d[p].arch = "no"

OverTaskLimit(d, limit) ==
  {p \in Projects : InUse(d, p) /\ OpenCount(d, p) > limit}

HasSlot(d) == d[Org].projectCount < ProjectLimit[d[Org].plan]

HasTaskRoom(d, p) == OpenCount(d, p) < TaskLimit[d[Org].plan]

-----------------------------------------------------------------------------
(* Transactions.                                                           *)

(* The open-task count of a transaction that makes no room check.          *)
NoRoomCheck == -1

Idle == [st |-> "idle"]

(* What a request read before its transaction: doc is the document it is   *)
(* about, counts whether that task was seen to fill a place.               *)
Checked(op, doc, counts) ==
  [st |-> "checked", op |-> op, doc |-> doc, counts |-> counts]

(* A transaction with its snapshot read: chk is where it restarts from,    *)
(* open the number of open tasks it counted, plans what getPlan may see.   *)
Running(op, chk, writes, open) ==
  [st |-> "running", op |-> op, chk |-> chk, writes |-> writes, open |-> open,
   plans |-> IF open = NoRoomCheck THEN {} ELSE {db[Org].plan}]

IsRunning(r) == req[r].st = "running"

(* The documents of an image that a transaction writes.                    *)
Writes(image, docs) == [x \in docs |-> image[x]]

Apply(d, writes) ==
  [x \in Docs |-> IF x \in DOMAIN writes THEN writes[x] ELSE d[x]]

(* Mutant of Lock: the revision is not bumped.                             *)
Lock_NoBump(p) == {}

(* The revision bump of projectConsumesSlot: a write of the project's      *)
(* document, if it is still stored.                                        *)
Lock(p) == {x \in {p} : Stored(db, x)}

(* $inc of the slot counter.                                               *)
Count(image, step) == [image EXCEPT ![Org].projectCount = @ + step]

(* Mutant of SlotWrites: a slot is taken without the conditional update.   *)
SlotWrites_Unconditional(p, image, docs) ==
  LET step == Cardinality(Consuming(image)) - Cardinality(Consuming(db))
  IN  {Writes(Count(image, step),
              docs \cup Lock(p) \cup {x \in {Org} : step # 0})}

(* syncProjectSlot at the end of a callback that turned db into image: the *)
(* possible writes, none at all if it needs a slot the plan lacks.         *)
SlotWrites(p, image, docs) ==
  LET locked == docs \cup Lock(p)
  IN  IF Consumes(db, p) = Consumes(image, p) THEN {Writes(image, locked)}
      ELSE IF Consumes(db, p)
      THEN {Writes(Count(image, -1), locked \cup {Org})}
      ELSE IF HasSlot(db)
      THEN {Writes(Count(image, 1), locked \cup {Org})}
      ELSE {}

(* One run of a transaction's callback, from chk, leaving one of outcomes. *)
Begin(r, op, chk, outcomes, open) ==
  /\ \E w \in outcomes : req' = [req EXCEPT ![r] = Running(op, chk, w, open)]
  /\ UNCHANGED <<db, aged>>

(* A request that opens its transaction at once.                           *)
BeginNew(r, op, outcomes) ==
  /\ op \in Ops
  /\ req[r] = Idle
  /\ Begin(r, op, Idle, outcomes, NoRoomCheck)

(* A request that reads the document doc first.                            *)
Check(r, op, doc, counts) ==
  /\ op \in Ops
  /\ req[r] = Idle
  /\ req' = [req EXCEPT ![r] = Checked(op, doc, counts)]
  /\ UNCHANGED <<db, aged>>

(* The transaction of a request that has read its document.                *)
Resume(r, outcomes, open) == Begin(r, req[r].op, req[r], outcomes, open)

AtBegin(r, op) == req[r].st = "checked" /\ req[r].op = op

(* What the commit of writes w does to another request: a running callback *)
(* that writes one of its documents has to run again; the others go on,    *)
(* and getPlan may see the plan either from before or from after.          *)
AfterCommit(q, w) ==
  IF q.st # "running" THEN q
  ELSE IF DOMAIN q.writes \cap DOMAIN w # {} THEN q.chk
  ELSE IF q.open # NoRoomCheck /\ Org \in DOMAIN w
       THEN [q EXCEPT !.plans = @ \cup {w[Org].plan}]
       ELSE q

Install(w) ==
  /\ db' = Apply(db, w)
  /\ aged' = {x \in aged : Apply(db, w)[x].life = "bin"}

(* A commit. assertRoomForActiveTask let it through under some plan that   *)
(* getPlan may have seen while it ran.                                     *)
Commit(r) ==
  /\ IsRunning(r)
  /\ \/ req[r].open = NoRoomCheck
     \/ \E plan \in req[r].plans : req[r].open < TaskLimit[plan]
  /\ Install(req[r].writes)
  /\ req' = [q \in Requests |->
               IF q = r THEN Idle ELSE AfterCommit(req[q], req[r].writes)]

(* The request ends without effect: refused, failed, or its process died.  *)
Abort(r) ==
  /\ req[r] # Idle
  /\ req' = [req EXCEPT ![r] = Idle]
  /\ UNCHANGED <<db, aged>>

-----------------------------------------------------------------------------
(* Projects.                                                               *)

NewProject == [life |-> "live", arch |-> "no"]

CreateProject(r, p) ==
  /\ db[p].life = "none"
  /\ HasSlot(db)
  /\ BeginNew(r, "createProject",
       {Writes(Count([db EXCEPT ![p] = NewProject], 1), {p, Org})})

(* Also re-archives an archived project, whose archivedReason it clears.   *)
ArchiveProject(r, p) ==
  /\ db[p].life = "live"
  /\ BeginNew(r, "archiveProject",
       SlotWrites(p, [db EXCEPT ![p].arch = "manual"], {p}))

UnarchiveProject(r, p) ==
  /\ db[p].life = "live"
  /\ db[p].arch # "no"
  /\ OpenCount(db, p) <= TaskLimit[db[Org].plan]
  /\ BeginNew(r, "unarchiveProject",
       SlotWrites(p, [db EXCEPT ![p].arch = "no"], {p}))

(* Mutant of MoveProjectToBin: the slot is not given back.                 *)
MoveProjectToBin_NoSync(r, p) ==
  /\ db[p].life = "live"
  /\ BeginNew(r, "moveProjectToBin",
       {Writes([db EXCEPT ![p].life = "bin"], {p})})

MoveProjectToBin(r, p) ==
  /\ db[p].life = "live"
  /\ BeginNew(r, "moveProjectToBin",
       SlotWrites(p, [db EXCEPT ![p].life = "bin"], {p}))

(* Neither the retention time nor the plan's task limit is looked at.      *)
RestoreProject(r, p) ==
  /\ db[p].life = "bin"
  /\ BeginNew(r, "restoreProject",
       SlotWrites(p, [db EXCEPT ![p].life = "live"], {p}))

(* Mutant of Destroyed: deleteMany without includeDeleted.                 *)
Destroyed_NotBinned(p) ==
  [x \in {p} \cup LiveTasks(db, p) |-> [db[x] EXCEPT !.life = "gone"]]

(* destroyProject: the project and its tasks, whatever state they are in.  *)
Destroyed(p) ==
  [x \in {y \in {p} \cup TasksOf(p) : Stored(db, y)} |->
     [db[x] EXCEPT !.life = "gone"]]

(* Mutant of DeleteProjectPermanently: the bin is not checked.             *)
DeleteProjectPermanently_Any(r, p) ==
  /\ Stored(db, p)
  /\ BeginNew(r, "deleteProjectPermanently", {Destroyed(p)})

DeleteProjectPermanently(r, p) ==
  /\ db[p].life = "bin"
  /\ BeginNew(r, "deleteProjectPermanently", {Destroyed(p)})

(* purgeExpiredProjects finds its projects first and destroys each in a    *)
(* transaction of its own, without looking at the project again.           *)
FindExpiredProject(r, p) ==
  /\ p \in aged
  /\ Check(r, "purgeExpiredProjects", p, FALSE)

PurgeProject(r) ==
  /\ AtBegin(r, "purgeExpiredProjects")
  /\ Resume(r, {Destroyed(req[r].doc)}, NoRoomCheck)

-----------------------------------------------------------------------------
(* Tasks.                                                                  *)

CheckCreateTask(r, t) ==
  /\ db[t].life = "none"
  /\ InUse(db, ProjectOf[t])
  /\ HasTaskRoom(db, ProjectOf[t])
  /\ Check(r, "createTask", t, TRUE)

NewTask == [life |-> "live", arch |-> "no", status |-> "open"]

(* The project's own state is not looked at again in the transaction. An   *)
(* id is given to one task only.                                           *)
CreateTask(r) ==
  LET t == req[r].doc
      p == ProjectOf[t]
  IN  /\ AtBegin(r, "createTask")
      /\ db[t].life = "none"
      /\ Resume(r, SlotWrites(p, [db EXCEPT ![t] = NewTask], {t}), OpenCount(db, p))

(* findTaskInLiveProject                                                   *)
InLiveProject(t) == db[t].life = "live" /\ db[ProjectOf[t]].life = "live"

(* updateTask with a change of status; editing the other fields of an open *)
(* task writes the same documents and leaves the status.                   *)
StatusBefore == [completeTask |-> "open", editTask |-> "open", reopenTask |-> "done"]
(* Mutant of StatusAfter: a task completed is not marked done.             *)
StatusAfter_Unset == [completeTask |-> "none", editTask |-> "open", reopenTask |-> "open"]

StatusAfter == [completeTask |-> "done", editTask |-> "open", reopenTask |-> "open"]

CheckUpdateTask(r, t, op) ==
  /\ InLiveProject(t)
  /\ db[t].arch = "no"
  /\ db[t].status = StatusBefore[op]
  /\ op = "reopenTask" => HasTaskRoom(db, ProjectOf[t])
  /\ Check(r, op, t, op = "reopenTask")

(* The status must still be the one read before; archivedAt is not checked *)
(* again, nor the project.                                                 *)
UpdateTask(r, op) ==
  LET t == req[r].doc
      p == ProjectOf[t]
  IN  /\ AtBegin(r, op)
      /\ db[t].life = "live"
      /\ db[t].status = StatusBefore[op]
      /\ Resume(r,
               SlotWrites(p, [db EXCEPT ![t].status = StatusAfter[op]], {t}),
               IF op = "reopenTask" THEN OpenCount(db, p) ELSE NoRoomCheck)

CheckArchiveTask(r, t) ==
  /\ InLiveProject(t)
  /\ db[t].arch = "no"
  /\ Check(r, "archiveTask", t, FALSE)

(* Touches neither the project nor its slot.                               *)
ArchiveTask(r) ==
  LET t == req[r].doc
  IN  /\ AtBegin(r, "archiveTask")
      /\ db[t].life = "live"
      /\ db[t].arch = "no"
      /\ Resume(r, {Writes([db EXCEPT ![t].arch = "manual"], {t})},
               NoRoomCheck)

CheckUnarchiveTask(r, t) ==
  /\ InLiveProject(t)
  /\ db[t].arch # "no"
  /\ Check(r, "unarchiveTask", t, db[t].status = "open")

(* Whether room is needed follows the status read before the transaction.  *)
UnarchiveTask(r) ==
  LET t      == req[r].doc
      p      == ProjectOf[t]
      counts == req[r].counts
  IN  /\ AtBegin(r, "unarchiveTask")
      /\ db[t].life = "live"
      /\ db[t].arch # "no"
      /\ Resume(r,
               {Writes([db EXCEPT ![t].arch = "no"],
                       IF counts THEN {t} \cup Lock(p) ELSE {t})},
               IF counts THEN OpenCount(db, p) ELSE NoRoomCheck)

CheckMoveTaskToBin(r, t) ==
  /\ InLiveProject(t)
  /\ Check(r, "moveTaskToBin", t, FALSE)

MoveTaskToBin(r) ==
  LET t == req[r].doc
  IN  /\ AtBegin(r, "moveTaskToBin")
      /\ db[t].life = "live"
      /\ Resume(r,
               SlotWrites(ProjectOf[t], [db EXCEPT ![t].life = "bin"], {t}),
               NoRoomCheck)

CheckRestoreTask(r, t) ==
  LET counts == db[t].status = "open" /\ db[t].arch = "no"
  IN  /\ db[t].life = "bin"
      /\ t \notin aged
      /\ db[ProjectOf[t]].life = "live"
      /\ counts => HasTaskRoom(db, ProjectOf[t])
      /\ Check(r, "restoreTask", t, counts)

RestoreTask(r) ==
  LET t == req[r].doc
      p == ProjectOf[t]
  IN  /\ AtBegin(r, "restoreTask")
      /\ db[t].life = "bin"
      /\ Resume(r, SlotWrites(p, [db EXCEPT ![t].life = "live"], {t}),
               IF req[r].counts THEN OpenCount(db, p) ELSE NoRoomCheck)

(* destroyTask                                                             *)
DestroyedTask(t) ==
  [x \in {y \in {t} : Stored(db, y)} |-> [db[x] EXCEPT !.life = "gone"]]

DeleteTaskPermanently(r, t) ==
  /\ db[t].life = "bin"
  /\ BeginNew(r, "deleteTaskPermanently", {DestroyedTask(t)})

FindExpiredTask(r, t) ==
  /\ t \in aged
  /\ Check(r, "purgeExpiredTasks", t, FALSE)

PurgeTask(r) ==
  /\ AtBegin(r, "purgeExpiredTasks")
  /\ Resume(r, {DestroyedTask(req[r].doc)}, NoRoomCheck)

-----------------------------------------------------------------------------
(* The plan, and what it archives.                                         *)

(* Usage must fit the new plan; its limits come with it.                   *)
ChangePlan(r, plan) ==
  /\ OverTaskLimit(db, TaskLimit[plan]) = {}
  /\ db[Org].projectCount <= ProjectLimit[plan]
  /\ BeginNew(r, "changePlan",
       {Writes([db EXCEPT ![Org].plan = plan], {Org})})

(* expirePlanIfDue: one conditional update, whatever the usage is.         *)
ExpirePlan ==
  LET w == Writes([db EXCEPT ![Org].plan = Free], {Org})
  IN  /\ "expirePlan" \in Ops
      /\ db[Org].plan # Free
      /\ Install(w)
      /\ req' = [q \in Requests |-> AfterCommit(req[q], w)]

(* The grace period is over ten days after the plan ended: by then every   *)
(* request that read the previous plan has long finished.                  *)
GraceOver ==
  \A q \in Requests : IsRunning(q) => req[q].plans \subseteq {Free}

(* Mutants of UpTo and AsMany: no limit, and one too many.                 *)
UpTo_Unlimited(n, S) == SUBSET S
AsMany_OneMore(n, S) == {T \in SUBSET S : Cardinality(T) = n + 1 \/ T = S}

(* Subsets of S with at most n members, and with n of them if there are.   *)
UpTo(n, S) == {T \in SUBSET S : T = {} \/ Cardinality(T) <= n}
AsMany(n, S) == {T \in UpTo(n, S) : Cardinality(T) = n \/ T = S}

Archived(d, docs) ==
  [x \in Docs |-> IF x \in docs THEN [d[x] EXCEPT !.arch = "plan"] ELSE d[x]]

(* Step 2: in every project in use, all but limit open tasks.              *)
Trims(d, limit) ==
  {T \in SUBSET Tasks : \A p \in Projects :
     IF p \in OverTaskLimit(d, limit)
     THEN \E keep \in AsMany(limit, OpenTasks(d, p)) :
            T \cap TasksOf(p) = OpenTasks(d, p) \ keep
     ELSE T \cap TasksOf(p) = {}}

(* Mutant of Recounted: only the archived projects that still have tasks   *)
(* are subtracted.                                                         *)
Recounted_Empty(S, T) ==
  LET d == Archived(db, S \cup T)
      n == Cardinality({p \in S : LiveTasks(db, p) # {}})
  IN  Writes([d EXCEPT ![Org].projectCount = @ - n], S \cup T \cup {Org})

(* The writes of archiving projects S and tasks T: the counter is          *)
(* recomputed from what remains.                                           *)
Recounted(S, T) ==
  LET d == Archived(db, S \cup T)
  IN  Writes([d EXCEPT ![Org].projectCount = Cardinality(Consuming(d))],
             S \cup T \cup {Org})

(* archiveExcessForFree: the projects that keep their slot and the tasks   *)
(* that stay open are the most recently active ones, here any. Projects    *)
(* over the task limit are not locked.                                     *)
ArchiveExcessForFree(r) ==
  LET Extra(keep) == Consuming(db) \ keep
  IN  /\ db[Org].plan = Free
      /\ GraceOver
      /\ BeginNew(r, "archiveExcess",
           UNION {{Recounted(Extra(keep), T) :
                     T \in Trims(Archived(db, Extra(keep)), TaskLimit[Free])} :
                  keep \in AsMany(ProjectLimit[Free], Consuming(db))})

PlanArchivedTasks(d, p) ==
  {t \in LiveTasks(d, p) : d[t].arch = "plan" /\ d[t].status = "open"}

RestoreCandidates ==
  {p \in Projects : /\ db[p].life = "live"
                    /\ db[p].arch = "plan"
                    /\ OpenCount(db, p) <= TaskLimit[db[Org].plan]}

(* Which tasks of project p come back when the documents docs do: with the *)
(* project, as many as the limit leaves room for, oldest first, here any,  *)
(* so that no room is left for more; in a project in use, those chosen one *)
(* by one while there is room.                                             *)
TasksBack(p, docs) ==
  LET n == TaskLimit[db[Org].plan] - OpenCount(db, p)
  IN  IF p \in docs THEN AsMany(n, PlanArchivedTasks(db, p))
      ELSE IF InUse(db, p) THEN UpTo(n, PlanArchivedTasks(db, p))
      ELSE {{}}

RestoreChoices ==
  LET room == ProjectLimit[db[Org].plan] - db[Org].projectCount
  IN  {docs \in SUBSET (RestoreCandidates \cup Tasks) :
         /\ docs \cap Projects \in UpTo(room, RestoreCandidates)
         /\ \A p \in Projects : docs \cap TasksOf(p) \in TasksBack(p, docs)}

Restored(docs) ==
  LET d == [x \in Docs |->
              IF x \in docs THEN [db[x] EXCEPT !.arch = "no"] ELSE db[x]]
      n == Cardinality(Consuming(d)) - Cardinality(Consuming(db))
  IN  Writes(Count(d, n), docs \cup {x \in {Org} : n > 0})

(* restorePlanArchivedProjects for chosen projects and tasks. Projects of  *)
(* the tasks chosen one by one are not locked.                             *)
RestorePlanArchived(r) ==
  BeginNew(r, "restorePlanArchived", {Restored(docs) : docs \in RestoreChoices})

(* keepPlanArchivedResource                                                *)
KeepProjectArchived(r, p) ==
  /\ db[p].life = "live"
  /\ db[p].arch = "plan"
  /\ BeginNew(r, "keepPlanArchived",
       {[x \in {p} \cup {t \in LiveTasks(db, p) : db[t].arch = "plan"} |->
           [db[x] EXCEPT !.arch = "manual"]]})

KeepTaskArchived(r, t) ==
  /\ db[t].life = "live"
  /\ db[t].arch = "plan"
  /\ BeginNew(r, "keepPlanArchived",
       {Writes([db EXCEPT ![t].arch = "manual"], {t})})

(* Thirty days pass for a document in the bin.                             *)
Age(x) ==
  /\ "age" \in Ops
  /\ db[x].life = "bin"
  /\ x \notin aged
  /\ aged' = aged \cup {x}
  /\ UNCHANGED <<db, req>>

-----------------------------------------------------------------------------
Init ==
  /\ db = [x \in Docs |->
             IF x = Org THEN [plan |-> Free, projectCount |-> 0]
             ELSE IF x \in Projects THEN [life |-> "none", arch |-> "no"]
             ELSE [life |-> "none", arch |-> "no", status |-> "open"]]
  /\ aged = {}
  /\ req = [r \in Requests |-> Idle]

ProjectRequest(r, p) ==
  \/ CreateProject(r, p)
  \/ ArchiveProject(r, p)
  \/ UnarchiveProject(r, p)
  \/ MoveProjectToBin(r, p)
  \/ RestoreProject(r, p)
  \/ DeleteProjectPermanently(r, p)
  \/ FindExpiredProject(r, p)
  \/ KeepProjectArchived(r, p)

TaskRequest(r, t) ==
  \/ CheckCreateTask(r, t)
  \/ \E op \in DOMAIN StatusBefore : CheckUpdateTask(r, t, op)
  \/ CheckArchiveTask(r, t)
  \/ CheckUnarchiveTask(r, t)
  \/ CheckMoveTaskToBin(r, t)
  \/ CheckRestoreTask(r, t)
  \/ DeleteTaskPermanently(r, t)
  \/ FindExpiredTask(r, t)
  \/ KeepTaskArchived(r, t)

Callback(r) ==
  \/ CreateTask(r)
  \/ \E op \in DOMAIN StatusBefore : UpdateTask(r, op)
  \/ ArchiveTask(r)
  \/ UnarchiveTask(r)
  \/ MoveTaskToBin(r)
  \/ RestoreTask(r)
  \/ PurgeProject(r)
  \/ PurgeTask(r)

PlanRequest(r) ==
  \/ \E plan \in Plans : ChangePlan(r, plan)
  \/ ArchiveExcessForFree(r)
  \/ RestorePlanArchived(r)

Next ==
  \/ \E r \in Requests :
       \/ \E p \in Projects : ProjectRequest(r, p)
       \/ \E t \in Tasks : TaskRequest(r, t)
       \/ Callback(r)
       \/ PlanRequest(r)
       \/ Commit(r)
       \/ Abort(r)
  \/ ExpirePlan
  \/ \E x \in Projects \cup Tasks : Age(x)

Spec == Init /\ [][Next]_vars

-----------------------------------------------------------------------------
DocOK(x, doc) ==
  /\ x \in Projects => doc \in ProjectDocs
  /\ x \in Tasks => doc \in TaskDocs
  /\ x = Org => doc \in OrgDocs

(* The sweep of the project bin is the one pre-read that is about a        *)
(* project.                                                                *)
CheckedOK(q) ==
  /\ q.st = "checked"
  /\ q.op \in Ops
  /\ q.counts \in BOOLEAN
  /\ q.doc \in IF q.op = "purgeExpiredProjects" THEN Projects ELSE Tasks

WritesOK(w) ==
  /\ DOMAIN w \subseteq Docs
  /\ \A x \in DOMAIN w : DocOK(x, w[x])

RequestOK(q) ==
  \/ q = Idle
  \/ CheckedOK(q)
  \/ /\ DOMAIN q = {"st", "op", "chk", "writes", "open", "plans"}
     /\ q.st = "running"
     /\ q.chk = Idle \/ CheckedOK(q.chk)
     /\ WritesOK(q.writes)
     /\ q.open \in Int
     /\ q.plans \subseteq Plans

(* Documents and requests have their types, and only what is in the bin    *)
(* ages there.                                                             *)
TypeOK ==
  /\ DOMAIN db = Docs
  /\ \A x \in Docs : DocOK(x, db[x])
  /\ aged \subseteq {x \in Projects \cup Tasks : db[x].life = "bin"}
  /\ DOMAIN req = Requests
  /\ \A r \in Requests : RequestOK(req[r])

(* The slot counter of the organization is the number of projects that     *)
(* take a slot, however the requests that change it interleave: every      *)
(* reserve has its release (reserveProjectSlot, syncProjectSlot,           *)
(* releaseProjectSlot, archiveExcessForFree).                              *)
SlotsExact == db[Org].projectCount = Cardinality(Consuming(db))

(* Why SlotsExact is inductive. What Consumes asks of a task:              *)
View(doc) == IF doc.life = "live" THEN doc.status ELSE "none"

(* Writes w that a callback computed on a snapshot are still right for the *)
(* documents d, when no commit since has written one of the documents of w:*)
(* they bring nothing back to life that is gone; the tasks they change     *)
(* without their project keep what Consumes asks of them, or the project   *)
(* is gone; and the slots counted are those in use afterwards.             *)
StillRight(d, w) ==
  /\ \A x \in DOMAIN w \ {Org} : w[x].life # "none" /\ d[x].life # "gone"
  /\ \A t \in DOMAIN w \cap Tasks :
       /\ d[ProjectOf[t]].life # "none"
       /\ \/ ProjectOf[t] \in DOMAIN w
          \/ View(w[t]) = View(d[t])
          \/ d[ProjectOf[t]].life = "gone"
  /\ IF Org \in DOMAIN w
     THEN w[Org].projectCount = Cardinality(Consuming(Apply(d, w)))
     ELSE Consuming(Apply(d, w)) = Consuming(d)

(* Every running transaction would leave the counter exact, and a task     *)
(* that exists or is about to has a project.                               *)
SlotsInv ==
  /\ TypeOK
  /\ SlotsExact
  /\ \A t \in Tasks : db[t].life # "none" => db[ProjectOf[t]].life # "none"
  /\ \A r \in Requests :
       LET from == IF IsRunning(r) THEN req[r].chk ELSE req[r]
       IN  /\ from # Idle /\ from.doc \in Tasks =>
                db[ProjectOf[from.doc]].life # "none"
           /\ IsRunning(r) => StillRight(db, req[r].writes)

(* No step takes a slot the plan does not have, even when the plan changes *)
(* while the request runs (reserveProjectSlot's conditional increment).    *)
NoSlotOverPlan ==
  [][db'[Org].projectCount > db[Org].projectCount =>
       db'[Org].projectCount <= ProjectLimit[db'[Org].plan]]_vars

(* No commit takes a project above the open tasks that a plan of the       *)
(* workspace allows, a plan it had while the request ran: two that add     *)
(* open tasks cannot pass the limit together (assertRoomForActiveTask      *)
(* after the lock of projectConsumesSlot).                                 *)
NoTaskOverPlan ==
  [][\A r \in Requests, p \in Projects :
       IsRunning(r) /\ Commit(r) /\ OpenCount(db', p) > OpenCount(db, p) =>
         \E plan \in req[r].plans : OpenCount(db', p) <= TaskLimit[plan]]_vars

(* Nothing outside the bin is deleted for good, a task at most together    *)
(* with its project: a restore that answered the user is not undone by a   *)
(* deletion decided before it ("permanently deleted BIN_RETENTION_DAYS     *)
(* later unless restored").                                                *)
OnlyBinnedDestroyed ==
  [][\A x \in Projects \cup Tasks :
       /\ db[x].life = "live"
       /\ db'[x].life = "gone"
       => /\ x \in Tasks
          /\ db[ProjectOf[x]].life = "bin"]_vars

(* A project deleted for good leaves no task of it behind ("removes a      *)
(* project and everything in it for good").                                *)
NoTaskLeftBehind ==
  \A t \in Tasks : db[ProjectOf[t]].life = "gone" => ~Stored(db, t)

(* The archival after a grace period leaves the workspace within the Free  *)
(* plan in what is committed, not only in what it read: requests that ran  *)
(* beside it have not put it over again (archiveExcessForFree).            *)
EnforcedWithinFree ==
  [][\A r \in Requests :
       IsRunning(r) /\ req[r].op = "archiveExcess" /\ Commit(r) =>
         /\ db'[Org].projectCount <= ProjectLimit[Free]
         /\ OverTaskLimit(db', TaskLimit[Free]) = {}]_vars

(* A change of plan leaves no project over the new plan's task limit       *)
(* (changePlan is refused with PLAN_DOWNGRADE_BLOCKED otherwise).          *)
ChangeFitsUsage ==
  [][\A r \in Requests :
       IsRunning(r) /\ req[r].op = "changePlan" /\ Commit(r) =>
         OverTaskLimit(db', TaskLimit[db'[Org].plan]) = {}]_vars

(* Restoring a project checks its open tasks against the plan, from the    *)
(* archive and from the bin.                                               *)
RestoreFitsPlan ==
  [][\A p \in Projects :
       ~InUse(db, p) /\ InUse(db', p) =>
         OpenCount(db', p) <= TaskLimit[db'[Org].plan]]_vars

(* No task starts to live in a project that is not in use ("Cannot create  *)
(* tasks in an archived project").                                         *)
TasksCreatedInUse ==
  [][\A t \in Tasks :
       db[t].life = "none" /\ db'[t].life = "live" =>
         InUse(db, ProjectOf[t])]_vars

(* The status of an archived task does not change ("Unarchive this task    *)
(* before changing it").                                                   *)
ArchivedTasksUnchanged ==
  [][\A t \in Tasks :
       /\ db[t].life = "live"
       /\ db[t].arch # "no"
       => db'[t].status = db[t].status]_vars

=============================================================================
