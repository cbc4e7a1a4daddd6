------------------------------- MODULE Groups -------------------------------
(***************************************************************************)
(* Group chats and the people who leave (chat.service.ts, and the first    *)
(* half of cleanupAfterDeparture in departure.service.ts).                 *)
(*                                                                         *)
(* Nothing here runs in a transaction: a request reads the conversation,   *)
(* may read the memberships, and then updates the conversation with what   *)
(* it concluded. Every database call that matters is a step, and a request *)
(* may end after any of them.                                              *)
(***************************************************************************)
EXTENDS Integers, FiniteSets

CONSTANTS
  People,         \* accounts that are or were in the organization
  Chats,          \* ids of group conversations
  GroupRequests,  \* requests in flight at once
  MaxGroup        \* MAX_GROUP_MEMBERS

ASSUME GroupsAssumption == IsFiniteSet(GroupRequests) /\ MaxGroup \in Nat

VARIABLES
  standing,  \* of each person: "staff"; "leaving" until the clean-up after
             \* the departure is through, then "tidied", or "late" if a
             \* request that had checked earlier added the person after all
  group,     \* the conversation documents
  greq,      \* what each request is doing
  crossed    \* groups where a removal wrote over another one (history)

groupVars == <<standing, group, greq, crossed>>

(* $push adds a person a second time when two requests add at once.        *)
GroupDocs == [life : {"none", "live", "gone"},
              members : [People -> 0..Cardinality(GroupRequests)],
              admins : SUBSET People]

Resting == [st |-> "idle"]

Staff == {u \in People : standing[u] = "staff"}

MemberIds(d) == {u \in People : d.members[u] > 0}

(* findMine, for somebody of the organization.                             *)
FindMine(u, g) ==
  /\ u \in Staff
  /\ group[g].life = "live"
  /\ u \in MemberIds(group[g])

RequireGroupAdmin(u, g) == u \in group[g].admins

GroupStep(r, q) == greq' = [greq EXCEPT ![r] = q]

Asks(r, q) ==
  /\ greq[r] = Resting
  /\ GroupStep(r, q)
  /\ UNCHANGED <<standing, group, crossed>>

Doing(r, st) == greq[r].st = st

(* Whoever is put in a group but has left meanwhile.                       *)
PutIn(us) ==
  standing' = [u \in People |->
                 IF u \in us \ Staff THEN "late" ELSE standing[u]]

-----------------------------------------------------------------------------
(* createConversation, a group: requireOrgMembers, then the document.      *)
CheckNewGroup(r, u, g, others) ==
  /\ u \in Staff
  /\ group[g].life = "none"
  /\ others # {}
  /\ others \subseteq Staff \ {u}
  /\ Cardinality(others) < MaxGroup
  /\ Asks(r, [st |-> "create", who |-> u, chat |-> g, whom |-> others])

CreateConversation(r) ==
  LET q == greq[r]
  IN  /\ Doing(r, "create")
      /\ group[q.chat].life = "none"
      /\ group' = [group EXCEPT ![q.chat] =
           [life |-> "live",
            members |-> [u \in People |-> IF u \in q.whom \cup {q.who} THEN 1 ELSE 0],
            admins |-> {q.who}]]
      /\ PutIn(q.whom \cup {q.who})
      /\ GroupStep(r, Resting)
      /\ UNCHANGED crossed

(* Mutant of FindToAdd: nobody looks who is in already.                    *)
FindToAdd_Anyone(r, u, g, v) ==
  /\ FindMine(u, g)
  /\ RequireGroupAdmin(u, g)
  /\ Asks(r, [st |-> "find", who |-> u, chat |-> g, whom |-> {v}])

(* addConversationMembers: find the group, see that the person belongs to  *)
(* the organization, add.                                                  *)
FindToAdd(r, u, g, v) ==
  /\ FindMine(u, g)
  /\ RequireGroupAdmin(u, g)
  /\ v \notin MemberIds(group[g])
  /\ Cardinality(MemberIds(group[g])) < MaxGroup
  /\ Asks(r, [st |-> "find", who |-> u, chat |-> g, whom |-> {v}])

RequireOrgMembers(r) ==
  /\ Doing(r, "find")
  /\ greq[r].whom \subseteq Staff
  /\ GroupStep(r, [greq[r] EXCEPT !.st = "add"])
  /\ UNCHANGED <<standing, group, crossed>>

AddConversationMembers(r) ==
  LET q == greq[r]
  IN  /\ Doing(r, "add")
      /\ group[q.chat].life = "live"
      /\ group' = [group EXCEPT ![q.chat].members =
           [u \in People |-> @[u] + IF u \in q.whom THEN 1 ELSE 0]]
      /\ PutIn(q.whom)
      /\ GroupStep(r, Resting)
      /\ UNCHANGED crossed

(* Mutant of Successors: the last administrator is not replaced.           *)
Successors_None(seen, u) == {seen.admins \ {u}}

(* The administrators after u has gone, by the document as it was read:    *)
(* the others, or else one member who remains ("A group is never left      *)
(* without an admin.").                                                    *)
Successors(seen, u) ==
  IF seen.admins \ {u} # {} THEN {seen.admins \ {u}}
  ELSE {{v} : v \in MemberIds(seen) \ {u}}

Gone(d) == [d EXCEPT !.life = "gone", !.admins = {}, !.members = [u \in People |-> 0]]

(* Mutant of Left: only the administrators are rewritten.                  *)
Left_Stays(g, seen, u) ==
  IF MemberIds(seen) = {u} THEN {Gone(group[g])}
  ELSE {[group[g] EXCEPT !.admins = admins] : admins \in Successors(seen, u)}

(* What $pull of the member and $set of adminIds make of a group: seen is  *)
(* the document that was read, and the last member takes it along.         *)
Left(g, seen, u) ==
  IF MemberIds(seen) = {u} THEN {Gone(group[g])}
  ELSE {[group[g] EXCEPT !.members[u] = 0, !.admins = admins] :
          admins \in Successors(seen, u)}

(* Does the removal presume a group that is no longer like that? Members   *)
(* added meanwhile do no harm.                                             *)
Crosses(g, seen) ==
  \/ group[g].admins # seen.admins
  \/ ~(MemberIds(seen) \subseteq MemberIds(group[g]))

Leave(g, seen, u) ==
  /\ group[g].life = "live"
  /\ \E d \in Left(g, seen, u) : group' = [group EXCEPT ![g] = d]
  /\ crossed' = IF Crosses(g, seen) THEN crossed \cup {g} ELSE crossed

(* removeConversationMember: by an administrator, or leaving.              *)
FindToRemove(r, u, g, v) ==
  /\ FindMine(u, g)
  /\ v # u => RequireGroupAdmin(u, g)
  /\ v \in MemberIds(group[g])
  /\ Asks(r, [st |-> "remove", chat |-> g, whom |-> v, seen |-> group[g]])

RemoveConversationMember(r) ==
  /\ Doing(r, "remove")
  /\ Leave(greq[r].chat, greq[r].seen, greq[r].whom)
  /\ GroupStep(r, Resting)
  /\ UNCHANGED standing

-----------------------------------------------------------------------------
(* removeMember: the membership goes in a transaction that leaves an       *)
(* administrator (module Seats), and then the groups are tidied up.        *)
LeaveOrganization(r, u) ==
  /\ u \in Staff
  /\ Staff # {u}
  /\ greq[r] = Resting
  /\ standing' = [standing EXCEPT ![u] = "leaving"]
  /\ GroupStep(r, [st |-> "left", whom |-> u])
  /\ UNCHANGED <<group, crossed>>

FindGroups(r) ==
  LET u    == greq[r].whom
      mine == {g \in Chats : group[g].life = "live" /\ u \in MemberIds(group[g])}
  IN  /\ Doing(r, "left")
      /\ GroupStep(r, [st |-> "tidy", whom |-> u, seen |-> [g \in mine |-> group[g]]])
      /\ UNCHANGED <<standing, group, crossed>>

(* One group after the other.                                              *)
TidyGroup(r, g) ==
  LET q == greq[r]
  IN  /\ Doing(r, "tidy")
      /\ g \in DOMAIN q.seen
      /\ IF group[g].life = "live" THEN Leave(g, q.seen[g], q.whom)
         ELSE UNCHANGED <<group, crossed>>
      /\ GroupStep(r, [q EXCEPT !.seen = [h \in DOMAIN @ \ {g} |-> @[h]]])
      /\ UNCHANGED standing

GroupsTidied(r) ==
  LET u == greq[r].whom
  IN  /\ Doing(r, "tidy")
      /\ DOMAIN greq[r].seen = {}
      /\ standing' = [standing EXCEPT ![u] = IF @ = "leaving" THEN "tidied" ELSE @]
      /\ GroupStep(r, Resting)
      /\ UNCHANGED <<group, crossed>>

(* An invite brings the person back (not while the clean-up is under way). *)
ComeBack(u) ==
  /\ u \notin Staff
  /\ \A r \in GroupRequests : greq[r].st \in {"left", "tidy"} => greq[r].whom # u
  /\ standing' = [standing EXCEPT ![u] = "staff"]
  /\ UNCHANGED <<group, greq, crossed>>

(* A refusal, a failed call or the end of the server: what was done stays. *)
GroupRequestEnds(r) ==
  /\ greq[r] # Resting
  /\ GroupStep(r, Resting)
  /\ UNCHANGED <<standing, group, crossed>>

-----------------------------------------------------------------------------
GroupsInit ==
  /\ standing = [u \in People |-> "staff"]
  /\ group = [g \in Chats |->
                [life |-> "none", members |-> [u \in People |-> 0], admins |-> {}]]
  /\ greq = [r \in GroupRequests |-> Resting]
  /\ crossed = {}

GroupsNext ==
  \/ \E r \in GroupRequests :
       \/ \E u \in People, g \in Chats :
            \/ \E others \in SUBSET People : CheckNewGroup(r, u, g, others)
            \/ \E v \in People : FindToAdd(r, u, g, v)
            \/ \E v \in People : FindToRemove(r, u, g, v)
       \/ CreateConversation(r)
       \/ RequireOrgMembers(r)
       \/ AddConversationMembers(r)
       \/ RemoveConversationMember(r)
       \/ \E u \in People : LeaveOrganization(r, u)
       \/ FindGroups(r)
       \/ \E g \in Chats : TidyGroup(r, g)
       \/ GroupsTidied(r)
       \/ GroupRequestEnds(r)
  \/ \E u \in People : ComeBack(u)

GroupsSpec == GroupsInit /\ [][GroupsNext]_groupVars

-----------------------------------------------------------------------------
(* Documents have their types; a person is listed at most once for every   *)
(* request that may add people at the same time.                           *)
GroupsTypeOK ==
  /\ standing \in [People -> {"staff", "leaving", "tidied", "late"}]
  /\ group \in [Chats -> GroupDocs]
  /\ crossed \subseteq Chats

(* "A group is never left without an admin": whatever is added, created or *)
(* interrupted beside it, a live group has administrators and all of them  *)
(* are members. Only two removals that overlap can break it, because each  *)
(* writes the administrators from what it read (removeConversationMember,  *)
(* cleanupAfterDeparture).                                                 *)
AdminKept ==
  \A g \in Chats \ crossed :
    group[g].life = "live" =>
      group[g].admins # {} /\ group[g].admins \subseteq MemberIds(group[g])

(* The same without the exception. It does not hold.                       *)
NeverWithoutAdmin ==
  \A g \in Chats :
    group[g].life = "live" => group[g].admins \cap MemberIds(group[g]) # {}

(* Whoever left the organization is in none of its groups once the         *)
(* clean-up is through, unless a request that had already found the person *)
(* among the members adds them afterwards (cleanupAfterDeparture).         *)
OutOfGroups ==
  \A u \in People : standing[u] = "tidied" =>
    \A g \in Chats : u \notin MemberIds(group[g])

(* What a group promises its members and the organization: there is an     *)
(* administrator, and whoever left the organization is out.                *)
GroupsInOrder == AdminKept /\ OutOfGroups

=============================================================================
