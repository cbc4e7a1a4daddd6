------------------------------ MODULE Reminders ------------------------------
(***************************************************************************)
(* The reminders one person gets of one task or project that is due        *)
(* (notifications.service.ts), and what edits of the task, of the person's *)
(* role and of the assignment do to them. The background sweep and the     *)
(* person's own visits work them out from what they read, in separate      *)
(* database calls.                                                         *)
(*                                                                         *)
(* The due date is as far away as phase says. Each new date, and each      *)
(* reopening, is a new reminderCycle, which is part of the event keys.     *)
(***************************************************************************)
EXTENDS Integers, FiniteSets

CONSTANTS
  Rounds,    \* runs of ensureMyDueNotifications at once
  MaxCycle,  \* bound: new due dates and reopenings
  Subjects,  \* "task", "project"
  Changes    \* bound: the sets of changes looked at together

ASSUME RemindersAssumption == MaxCycle \in Nat

VARIABLES
  change,   \* the changes of this behaviour
  subject,  \* what is due
  due,      \* its due date, cycle, whether it is open and archived
  person,   \* role and assignment
  note,     \* the notifications by event key
  round,    \* what each run is doing
  fresh,    \* a whole run has seen things as they are now (history)
  crossed,  \* a run has written something new from what was no longer so
            \* (history)
  away      \* what the person has dismissed since the last change of role
            \* (history)

reminderVars == <<change, subject, due, person, note, round, fresh, crossed, away>>

Phases == {"far", "soon", "today", "over"}
Roles == {"member", "manager", "admin"}
Cycles == 0..MaxCycle

(* eventKey: the type, the cycle and the suffix. What a key announces is   *)
(* its label.                                                              *)
Keys == [type : {"soon"}, cycle : Cycles, suffix : {"", "48h", "24h"}]
          \cup [type : {"over"}, cycle : Cycles, suffix : {""}]
Labels == {"soon", "today", "over"}
NoNote == [st |-> "none", label |-> "over"]
NoteDocs == [st : {"none", "live", "dismissed"}, label : Labels]

DueDocs == [phase : Phases, cycle : Cycles,
            open : BOOLEAN, archived : BOOLEAN]
PersonDocs == [role : Roles, assigned : BOOLEAN]

Rests == [st |-> "idle"]
InRound(r, st) == round[r].st = st
Sets(r, q) == round' = [round EXCEPT ![r] = q]

(* What a run has read is no longer so.                                    *)
Outdated ==
  round' = [r \in Rounds |-> IF round[r] = Rests THEN Rests ELSE [round[r] EXCEPT !.stale = TRUE]]

Shown == {k \in Keys : note[k].st = "live"}

Dismissed(ks) ==
  [k \in Keys |-> IF k \in ks /\ k \in Shown THEN [note[k] EXCEPT !.st = "dismissed"]
                  ELSE note[k]]

Deleted(ks) == [k \in Keys |-> IF k \in ks /\ k \in Shown THEN NoNote ELSE note[k]]

OfType(t) == {k \in Keys : k.type = t}

-----------------------------------------------------------------------------
(* getDueSoonEventKey: managers, who hear of every task two days before,   *)
(* have the plain key for that, everybody else for the day itself.         *)
SuffixOf(label, role) ==
  CASE label = "over" -> ""
    [] label = "today" -> IF subject = "project" \/ role = "manager" THEN "24h" ELSE ""
    [] label = "soon" -> IF subject # "project" /\ role = "manager" THEN "" ELSE "48h"

KeyOf(label, cycle, role) ==
  [type |-> IF label = "over" THEN "over" ELSE "soon", cycle |-> cycle,
   suffix |-> SuffixOf(label, role)]

(* What somebody should hear of an open task. A project is everybody's.    *)
Wanted(phase, role, assigned) ==
  LET mine == assigned \/ subject = "project"
      lead == role # "member"
  IN  CASE phase = "over" -> IF mine \/ lead THEN {"over"} ELSE {}
        [] phase = "today" -> IF mine THEN {"today"}
                              ELSE IF role = "manager" THEN {"soon"} ELSE {}
        [] phase = "soon" -> IF mine \/ role = "manager" THEN {"soon"} ELSE {}
        [] OTHER -> {}

(* ensureMyDueNotifications: the membership, then the tasks.               *)
ReadMembership(r) ==
  /\ round[r] = Rests
  /\ Sets(r, [st |-> "member", role |-> person.role, stale |-> FALSE])
  /\ UNCHANGED <<change, subject, due, person, note, fresh, crossed, away>>

Concerns(role) == role # "member" \/ person.assigned \/ subject = "project"

ReadDue(r) ==
  /\ InRound(r, "member")
  /\ Sets(r, IF due.open /\ ~due.archived /\ due.phase # "far" /\ Concerns(round[r].role)
             THEN [st |-> "today", role |-> round[r].role, assigned |-> person.assigned,
                   phase |-> due.phase, cycle |-> due.cycle, stale |-> round[r].stale]
             ELSE Rests)
  /\ fresh' = (fresh \/ (~round[r].stale /\ round'[r] = Rests))
  /\ UNCHANGED <<change, subject, due, person, note, crossed, away>>

(* Mutant of DismissEarlier: the notice of two days before stays.          *)
DismissEarlier_None(q) == {}

(* The notice of two days before goes when the day itself has come.        *)
DismissEarlier(q) ==
  IF q.phase = "today" /\ (q.assigned \/ subject = "project")
  THEN {KeyOf("soon", q.cycle, q.role)} ELSE {}

DismissToday(r) ==
  /\ InRound(r, "today")
  /\ note' = Dismissed(DismissEarlier(round[r]))
  /\ Sets(r, [round[r] EXCEPT !.st = "over"])
  /\ UNCHANGED <<change, subject, due, person, fresh, crossed, away>>

(* All notices that it will be due go when it is overdue.                  *)
DismissOverdue(r) ==
  /\ InRound(r, "over")
  /\ note' = IF round[r].phase = "over" THEN Dismissed(OfType("soon")) ELSE note
  /\ Sets(r, [round[r] EXCEPT !.st = "write"])
  /\ UNCHANGED <<change, subject, due, person, fresh, crossed, away>>

(* Mutant of Announced: a reminder that was dismissed is set again.        *)
Announced_Again(q, k, label) == [st |-> "live", label |-> label]

(* What the upsert makes of a notification: the message is set, the rest   *)
(* only when it is inserted.                                               *)
Announced(q, k, label) ==
  [st |-> IF note[k].st = "none" THEN "live" ELSE note[k].st, label |-> label]

WriteReminders(r) ==
  LET q == round[r]
      new == {[key |-> KeyOf(l, q.cycle, q.role), label |-> l] :
                l \in Wanted(q.phase, q.role, q.assigned)}
  IN  /\ InRound(r, "write")
      /\ note' = [k \in Keys |->
           IF \E n \in new : n.key = k
           THEN Announced(q, k, (CHOOSE n \in new : n.key = k).label) ELSE note[k]]
      /\ fresh' = (fresh \/ ~q.stale)
      /\ crossed' = (crossed \/ (q.stale /\ note' # note))
      /\ Sets(r, Rests)
      /\ UNCHANGED <<change, subject, due, person, away>>

(* dismissNotifications.                                                   *)
DismissOne(k) ==
  /\ k \in Shown
  /\ note' = Dismissed({k})
  /\ away' = away \cup {[label |-> note[k].label, cycle |-> k.cycle]}
  /\ UNCHANGED <<change, subject, due, person, round, fresh, crossed>>

-----------------------------------------------------------------------------
PhaseAfter(p) == CASE p = "far" -> "soon" [] p = "soon" -> "today" [] OTHER -> "over"

DueComesNearer ==
  /\ due.phase # "over"
  /\ due' = [due EXCEPT !.phase = PhaseAfter(@)]
  /\ fresh' = FALSE
  /\ Outdated
  /\ UNCHANGED <<change, subject, person, note, crossed, away>>

(* Mutant of Reschedule: the reminders of the old date stay.               *)
Reschedule_Keep(p) ==
  /\ due.open /\ ~due.archived
  /\ due.cycle < MaxCycle
  /\ due' = [due EXCEPT !.phase = p, !.cycle = @ + 1]
  /\ fresh' = FALSE
  /\ Outdated
  /\ UNCHANGED <<change, subject, person, note, crossed, away>>

(* updateTask and updateProject with another due date.                     *)
Reschedule(p) ==
  /\ due.open /\ ~due.archived
  /\ due.cycle < MaxCycle
  /\ due' = [due EXCEPT !.phase = p, !.cycle = @ + 1]
  /\ note' = Dismissed(Keys)
  /\ fresh' = FALSE
  /\ Outdated
  /\ UNCHANGED <<change, subject, person, crossed, away>>

(* updateTask: done, and to do again.                                      *)
CompleteTask ==
  /\ subject = "task" /\ due.open /\ ~due.archived
  /\ due' = [due EXCEPT !.open = FALSE]
  /\ note' = Dismissed(Keys)
  /\ fresh' = FALSE
  /\ Outdated
  /\ UNCHANGED <<change, subject, person, crossed, away>>

ReopenTask ==
  /\ ~due.open /\ ~due.archived
  /\ due.cycle < MaxCycle
  /\ due' = [due EXCEPT !.open = TRUE, !.cycle = @ + 1]
  /\ fresh' = FALSE
  /\ Outdated
  /\ UNCHANGED <<change, subject, person, note, crossed, away>>

(* archiveTask dismisses; of an archived project the notices are hidden.   *)
ArchiveDue ==
  /\ ~due.archived
  /\ due' = [due EXCEPT !.archived = TRUE]
  /\ note' = IF subject = "task" THEN Dismissed(Keys) ELSE note
  /\ fresh' = FALSE
  /\ Outdated
  /\ UNCHANGED <<change, subject, person, crossed, away>>

UnarchiveDue ==
  /\ due.archived
  /\ due' = [due EXCEPT !.archived = FALSE]
  /\ fresh' = FALSE
  /\ Outdated
  /\ UNCHANGED <<change, subject, person, note, crossed, away>>

(* What updateTask deletes for somebody taken off the task.                *)
NotForOthers(role) ==
  CASE role = "member" -> Keys
    [] role = "admin" -> OfType("soon")
    [] OTHER -> {k \in OfType("soon") : k.suffix = "24h"}

Reassign ==
  /\ subject = "task" /\ due.open /\ ~due.archived
  /\ person' = [person EXCEPT !.assigned = ~@]
  /\ note' = IF person.assigned THEN Deleted(NotForOthers(person.role)) ELSE note
  /\ fresh' = FALSE
  /\ Outdated
  /\ UNCHANGED <<change, subject, due, crossed, away>>

(* changeMemberRole.                                                       *)
ChangeRole(role) ==
  /\ subject = "task" /\ role # person.role
  /\ person' = [person EXCEPT !.role = role]
  /\ note' = Deleted(OfType("soon") \cup
                     IF role = "member" /\ ~person.assigned THEN OfType("over") ELSE {})
  /\ away' = {}
  /\ fresh' = FALSE
  /\ Outdated
  /\ UNCHANGED <<change, subject, due, crossed>>

RemindersInit ==
  /\ change \in Changes
  /\ subject \in Subjects
  /\ due = [phase |-> "far", cycle |-> 0, open |-> TRUE, archived |-> FALSE]
  /\ person \in [role : IF subject = "task" THEN Roles ELSE {"admin"}, assigned : {TRUE}]
  /\ note = [k \in Keys |-> NoNote]
  /\ round = [r \in Rounds |-> Rests]
  /\ fresh = FALSE
  /\ crossed = FALSE
  /\ away = {}

Changing ==
  \/ "date" \in change /\ \E p \in Phases : Reschedule(p)
  \/ "done" \in change /\ (CompleteTask \/ ReopenTask)
  \/ "archive" \in change /\ (ArchiveDue \/ UnarchiveDue)
  \/ "assign" \in change /\ Reassign
  \/ "role" \in change /\ \E role \in Roles : ChangeRole(role)

(* Of what follows when a run has written from what was no longer so       *)
(* nothing is said.                                                        *)
RemindersNext == ~crossed /\ (
  \/ \E r \in Rounds : \/ ReadMembership(r) \/ ReadDue(r) \/ DismissToday(r)
                       \/ DismissOverdue(r) \/ WriteReminders(r)
  \/ \E k \in Keys : DismissOne(k)
  \/ DueComesNearer
  \/ Changing)

RemindersSpec == RemindersInit /\ [][RemindersNext]_reminderVars

-----------------------------------------------------------------------------
(* Documents have their types.                                             *)
RemindersTypeOK ==
  /\ due \in DueDocs
  /\ person \in PersonDocs
  /\ note \in [Keys -> NoteDocs]

(* "Reminders that are dismissed aren't sent again for the same due date": *)
(* what the person has sent away does not come back under another key,     *)
(* while the role stays.                                                   *)
SentAwayStaysAway ==
  ~crossed => \A k \in Shown : [label |-> note[k].label, cycle |-> k.cycle] \notin away

(* What is shown is about the date the task has; and after a whole run it  *)
(* is what the person should hear now, one reminder at most. Unless a run  *)
(* has written from what was no longer so.                                 *)
RemindersRight ==
  ~crossed /\ ~due.archived =>
    /\ \A k \in Shown : due.open /\ k.cycle = due.cycle
    /\ fresh => {note[k].label : k \in Shown} \subseteq
                  Wanted(due.phase, person.role, person.assigned)

(* What is shown is right, and what was sent away stays away.              *)
RemindersInOrder == SentAwayStaysAway /\ RemindersRight

(* A finished task reminds nobody. It does not hold.                       *)
DoneIsQuiet ==
  ~due.open /\ (\A r \in Rounds : round[r] = Rests) => Shown = {}

(* Whatever the person should hear has been said, or sent away by the      *)
(* person. It does not hold.                                               *)
NobodyMissed ==
  fresh /\ due.open /\ ~due.archived =>
    \A l \in Wanted(due.phase, person.role, person.assigned) :
      \/ note[KeyOf(l, due.cycle, person.role)].st = "live"
      \/ [label |-> l, cycle |-> due.cycle] \in away
=============================================================================
