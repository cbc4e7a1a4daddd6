---------------------------- MODULE PeopleProofs ----------------------------
(***************************************************************************)
(* Who leaves groups and meetings behind, proved for any number of people, *)
(* requests, groups and times: first the groups, then the meetings, then   *)
(* both beside each other, which share nothing.                            *)
(***************************************************************************)
EXTENDS MCPeople, FiniteSetTheorems, TLAPS

-----------------------------------------------------------------------------
(* Groups: types.                                                          *)
GroupRequestDocs ==
  {Resting}
    \cup [st : {"create", "find", "add"}, who : People, chat : Chats, whom : SUBSET People]
    \cup [st : {"remove"}, chat : Chats, whom : People, seen : GroupDocs]
    \cup [st : {"left"}, whom : People]
    \cup [st : {"tidy"}, whom : People, seen : UNION {[gs -> GroupDocs] : gs \in SUBSET Chats}]

Standings == {"staff", "leaving", "tidied", "late"}

GroupsTyped ==
  /\ GroupsTypeOK
  /\ greq \in [GroupRequests -> GroupRequestDocs]

(* The requests that will add v to g.                                      *)
Adding(g, v) ==
  {r \in GroupRequests : greq[r].st \in {"find", "add"} /\ greq[r].chat = g /\ v \in greq[r].whom}

(* A person is listed once for each request that found the person missing. *)
ListedAsFound ==
  \A g \in Chats, v \in People :
    group[g].members[v] + Cardinality(Adding(g, v)) <= Cardinality(GroupRequests)

(* Only a group that lives has members and is looked at.                   *)
LivesWithMembers ==
  /\ \A g \in Chats : group[g].life # "live" => MemberIds(group[g]) = {}
  /\ \A r \in GroupRequests : greq[r].st \in {"find", "add"} =>
       group[greq[r].chat].life # "none"

(* Whoever is being tidied up after has left, and the groups still to be   *)
(* seen to are known, unless somebody added the person after all.          *)
TidiesTheRest ==
  \A r \in GroupRequests : greq[r].st \in {"left", "tidy"} =>
    /\ standing[greq[r].whom] # "staff"
    /\ greq[r].st = "tidy" /\ standing[greq[r].whom] = "leaving" =>
         \A g \in Chats : greq[r].whom \in MemberIds(group[g]) => g \in DOMAIN greq[r].seen

GroupsInv ==
  /\ GroupsTyped /\ ListedAsFound /\ LivesWithMembers /\ TidiesTheRest
  /\ AdminKept /\ OutOfGroups

LEMMA RequestsCounted ==
  /\ IsFiniteSet(GroupRequests) /\ Cardinality(GroupRequests) \in Nat
  /\ \A g \in Chats, v \in People :
       /\ IsFiniteSet(Adding(g, v)) /\ Cardinality(Adding(g, v)) \in Nat
       /\ Cardinality(Adding(g, v)) <= Cardinality(GroupRequests)
       /\ IsFiniteSet(Adding(g, v)') /\ Cardinality(Adding(g, v)') \in Nat
       /\ Cardinality(Adding(g, v)') <= Cardinality(GroupRequests)
<1>1. IsFiniteSet(GroupRequests)
  BY GroupsAssumption DEF GroupsAssumption
<1>2. \A S \in SUBSET GroupRequests :
        /\ IsFiniteSet(S) /\ Cardinality(S) \in Nat
        /\ Cardinality(S) <= Cardinality(GroupRequests)
  BY <1>1, FS_Subset, FS_CardinalityType
<1>3. \A g \in Chats, v \in People :
        Adding(g, v) \in SUBSET GroupRequests /\ Adding(g, v)' \in SUBSET GroupRequests
  BY DEF Adding
<1> QED BY <1>1, <1>2, <1>3, FS_CardinalityType

LEMMA GroupRequestShapes ==
  ASSUME NEW q \in GroupRequestDocs
  PROVE  \/ q = Resting
         \/ /\ q.st \in {"create", "find", "add"} /\ q.who \in People /\ q.chat \in Chats
            /\ q.whom \subseteq People
         \/ q.st = "remove" /\ q.chat \in Chats /\ q.whom \in People /\ q.seen \in GroupDocs
         \/ q.st = "left" /\ q.whom \in People
         \/ /\ q.st = "tidy" /\ q.whom \in People
            /\ DOMAIN q.seen \subseteq Chats
            /\ q.seen \in [DOMAIN q.seen -> GroupDocs]
BY DEF GroupRequestDocs

LEMMA GroupsBegin == GroupsInit => GroupsInv
<1> SUFFICES ASSUME GroupsInit PROVE GroupsInv
  OBVIOUS
<1>1. Resting \in GroupRequestDocs /\ Resting.st = "idle"
  BY DEF GroupRequestDocs, Resting
<1>2. \A g \in Chats : group[g].life = "none" /\ group[g].members = [u \in People |-> 0]
  BY DEF GroupsInit
<1>3. GroupsTyped
  <2>1. 0 \in 0..Cardinality(GroupRequests)
    BY RequestsCounted
  <2>2. [life |-> "none", members |-> [u \in People |-> 0], admins |-> {}] \in GroupDocs
    BY <2>1 DEF GroupDocs
  <2> QED BY <1>1, <2>2 DEF GroupsInit, GroupsTyped, GroupsTypeOK
<1>4. ListedAsFound
  BY <1>2, RequestsCounted DEF ListedAsFound
<1>5. \A r \in GroupRequests : greq[r].st = "idle"
  BY <1>1 DEF GroupsInit
<1>6. LivesWithMembers /\ AdminKept
  BY <1>2, <1>5 DEF LivesWithMembers, AdminKept, MemberIds
<1>7. TidiesTheRest /\ OutOfGroups
  BY <1>5 DEF GroupsInit, TidiesTheRest, OutOfGroups
<1> QED BY <1>3, <1>4, <1>6, <1>7 DEF GroupsInv

(* Only what a request knows changes.                                      *)
LEMMA BookkeepingInv ==
  ASSUME GroupsInv, NEW r \in GroupRequests, NEW q \in GroupRequestDocs, GroupStep(r, q),
         UNCHANGED <<standing, group, crossed>>,
         q.st \in {"find", "add"} =>
           /\ group[q.chat].life # "none"
           /\ \/ greq[r].st \in {"find", "add"} /\ greq[r].chat = q.chat /\ greq[r].whom = q.whom
              \/ \A v \in q.whom : group[q.chat].members[v] = 0,
         q.st \in {"left", "tidy"} =>
           /\ standing[q.whom] # "staff"
           /\ q.st = "tidy" /\ standing[q.whom] = "leaving" =>
                \A g \in Chats : q.whom \in MemberIds(group[g]) => g \in DOMAIN q.seen
  PROVE  GroupsInv'
<1>1. /\ greq' \in [GroupRequests -> GroupRequestDocs] /\ greq'[r] = q
      /\ \A x \in GroupRequests : x # r => greq'[x] = greq[x]
  BY DEF GroupStep, GroupsInv, GroupsTyped
<1>2. GroupsTyped' /\ AdminKept' /\ OutOfGroups'
  BY <1>1 DEF GroupsInv, GroupsTyped, GroupsTypeOK, AdminKept, OutOfGroups, MemberIds
<1>3. LivesWithMembers'
  BY <1>1 DEF GroupsInv, LivesWithMembers, MemberIds
<1>4. TidiesTheRest'
  BY <1>1 DEF GroupsInv, TidiesTheRest, MemberIds
<1>5. ListedAsFound'
  <2> SUFFICES ASSUME NEW g \in Chats, NEW v \in People
      PROVE  group[g].members[v] + Cardinality(Adding(g, v)') <= Cardinality(GroupRequests)
    BY DEF ListedAsFound
  <2>0. group[g].members[v] \in Nat
    BY RequestsCounted DEF GroupsInv, GroupsTyped, GroupsTypeOK, GroupDocs
  <2>1. CASE Adding(g, v)' \subseteq Adding(g, v)
    <3>1. Cardinality(Adding(g, v)') <= Cardinality(Adding(g, v))
      BY <2>1, RequestsCounted, FS_Subset
    <3>2. group[g].members[v] + Cardinality(Adding(g, v)) <= Cardinality(GroupRequests)
      BY DEF GroupsInv, ListedAsFound
    <3> QED BY <2>0, <3>1, <3>2, RequestsCounted
  <2>2. CASE ~(Adding(g, v)' \subseteq Adding(g, v))
    <3>1. PICK x \in Adding(g, v)' : x \notin Adding(g, v)
      BY <2>2
    <3>2. x = r /\ q.st \in {"find", "add"} /\ q.chat = g /\ v \in q.whom
      BY <1>1, <3>1 DEF Adding
    <3>3. group[g].members[v] = 0
      BY <3>1, <3>2 DEF Adding
    <3> QED BY <3>3, RequestsCounted
  <2> QED BY <2>1, <2>2
<1> QED BY <1>2, <1>3, <1>4, <1>5 DEF GroupsInv

(* What the removal of u makes of a group.                                 *)
Without(u, d, e) ==
  /\ e \in GroupDocs
  /\ e.life \in {"live", "gone"}
  /\ MemberIds(e) \subseteq MemberIds(d) \ {u}
  /\ \A v \in People : e.members[v] <= d.members[v]
  /\ e.life # "live" => MemberIds(e) = {}

LEMMA LeftIsWithout ==
  ASSUME NEW g \in Chats, group[g] \in GroupDocs, group[g].life = "live",
         NEW u \in People, NEW seen \in GroupDocs, NEW d \in Left(g, seen, u)
  PROVE  /\ Without(u, group[g], d)
         /\ (~Crosses(g, seen) /\ d.life = "live"
               /\ group[g].admins \subseteq MemberIds(group[g])) =>
              d.admins # {} /\ d.admins \subseteq MemberIds(d)
<1>1. CASE MemberIds(seen) = {u}
  <2>1. d = [group[g] EXCEPT !.life = "gone", !.admins = {}, !.members = [x \in People |-> 0]]
    BY <1>1 DEF Left, Gone
  <2>2. d.life = "gone" /\ d.admins = {} /\ d.members = [x \in People |-> 0] /\ d \in GroupDocs
    <3>1. 0 \in 0..Cardinality(GroupRequests)
      BY RequestsCounted
    <3>2. PICK m \in [People -> 0..Cardinality(GroupRequests)] : m = [x \in People |-> 0]
      BY <3>1
    <3>3. d = [group[g] EXCEPT !.life = "gone", !.admins = {}, !.members = m]
      BY <2>1, <3>2
    <3> QED BY <3>2, <3>3 DEF GroupDocs
  <2>3. MemberIds(d) = {}
    BY <2>2 DEF MemberIds
  <2>4. \A v \in People : d.members[v] <= group[g].members[v]
    BY <2>2, RequestsCounted DEF GroupDocs
  <2>5. Without(u, group[g], d) /\ d.life # "live"
    BY <2>2, <2>3, <2>4 DEF Without
  <2> QED BY <2>5
<1>2. CASE MemberIds(seen) # {u}
  <2>1. PICK admins \in Successors(seen, u) :
          d = [group[g] EXCEPT !.members[u] = 0, !.admins = admins]
    BY <1>2 DEF Left
  <2>2. admins \subseteq People /\ admins # {} /\ u \notin admins
    BY <2>1 DEF Successors, GroupDocs, MemberIds
  <2>3. /\ d.life = "live" /\ d.admins = admins /\ d.members = [group[g].members EXCEPT ![u] = 0]
        /\ d \in GroupDocs
    <3>1. PICK m \in [People -> 0..Cardinality(GroupRequests)] : m = [group[g].members EXCEPT ![u] = 0]
      <4>1. 0 \in 0..Cardinality(GroupRequests)
        BY RequestsCounted
      <4> QED BY <4>1 DEF GroupDocs
    <3>2. d = [group[g] EXCEPT !.members = m, !.admins = admins]
      BY <2>1, <3>1
    <3> QED BY <2>2, <3>1, <3>2 DEF GroupDocs
  <2>4. MemberIds(d) = MemberIds(group[g]) \ {u} /\ \A v \in People : d.members[v] <= group[g].members[v]
    BY <2>3, RequestsCounted DEF GroupDocs, MemberIds
  <2>5. Without(u, group[g], d)
    BY <2>3, <2>4 DEF Without
  <2>6. ASSUME ~Crosses(g, seen), group[g].admins \subseteq MemberIds(group[g])
        PROVE  admins \subseteq MemberIds(d)
    <3>1. MemberIds(seen) \subseteq MemberIds(group[g]) /\ group[g].admins = seen.admins
      BY <2>6 DEF Crosses
    <3> QED BY <2>1, <2>2, <2>4, <2>6, <3>1 DEF Successors
  <2>7. d.admins # {} /\ (~Crosses(g, seen) /\ group[g].admins \subseteq MemberIds(group[g]) =>
                            d.admins \subseteq MemberIds(d))
    BY <2>2, <2>3, <2>6
  <2> QED BY <2>5, <2>7
<1> QED BY <1>1, <1>2

(* One person is out of one group.                                         *)
LEMMA LeaveInv ==
  ASSUME GroupsInv, NEW g \in Chats, NEW u \in People, NEW seen \in GroupDocs,
         Leave(g, seen, u), UNCHANGED standing,
         NEW r \in GroupRequests, NEW q \in GroupRequestDocs, GroupStep(r, q),
         q.st \notin {"find", "add", "left"},
         q.st = "tidy" =>
           /\ greq[r].st = "tidy" /\ q.whom = u /\ greq[r].whom = u
           /\ DOMAIN q.seen = DOMAIN greq[r].seen \ {g}
  PROVE  GroupsInv'
<1>1. /\ greq' \in [GroupRequests -> GroupRequestDocs] /\ greq'[r] = q
      /\ \A x \in GroupRequests : x # r => greq'[x] = greq[x]
  BY DEF GroupStep, GroupsInv, GroupsTyped
<1>2. group \in [Chats -> GroupDocs] /\ crossed \subseteq Chats
  BY DEF GroupsInv, GroupsTyped, GroupsTypeOK
<1>3. PICK d \in Left(g, seen, u) : group' = [group EXCEPT ![g] = d]
  BY DEF Leave
<1>4. /\ Without(u, group[g], d)
      /\ (~Crosses(g, seen) /\ d.life = "live"
            /\ group[g].admins \subseteq MemberIds(group[g])) =>
           d.admins # {} /\ d.admins \subseteq MemberIds(d)
  BY <1>2, LeftIsWithout DEF Leave
<1>5. group' \in [Chats -> GroupDocs] /\ group'[g] = d /\ \A h \in Chats : h # g => group'[h] = group[h]
  BY <1>2, <1>3, <1>4 DEF Without
<1>6. /\ crossed' \subseteq Chats /\ crossed \subseteq crossed'
      /\ g \notin crossed' => ~Crosses(g, seen)
  BY <1>2 DEF Leave
<1>7. GroupsTyped'
  BY <1>1, <1>5, <1>6 DEF GroupsInv, GroupsTyped, GroupsTypeOK
<1>8. \A h \in Chats : MemberIds(group[h])' \subseteq MemberIds(group[h])
  BY <1>4, <1>5 DEF Without, MemberIds
<1>9. u \notin MemberIds(group[g])'
  BY <1>4, <1>5 DEF Without, MemberIds
<1>10. AdminKept'
  <2> SUFFICES ASSUME NEW h \in Chats \ crossed', group'[h].life = "live"
      PROVE  group'[h].admins # {} /\ group'[h].admins \subseteq MemberIds(group'[h])
    BY DEF AdminKept
  <2>1. CASE h = g
    <3>1. group[g].admins \subseteq MemberIds(group[g])
      BY <1>6, <2>1 DEF GroupsInv, AdminKept, Leave
    <3>2. d.admins # {} /\ d.admins \subseteq MemberIds(d)
      BY <1>4, <1>5, <1>6, <2>1, <3>1
    <3> QED BY <1>5, <2>1, <3>2 DEF MemberIds
  <2>2. CASE h # g
    BY <1>5, <1>6, <2>2 DEF GroupsInv, AdminKept, MemberIds
  <2> QED BY <2>1, <2>2
<1>11. OutOfGroups'
  BY <1>8 DEF GroupsInv, OutOfGroups
<1>12. LivesWithMembers'
  <2>1. ASSUME NEW h \in Chats, group'[h].life # "live" PROVE MemberIds(group'[h]) = {}
    <3>1. CASE h = g
      BY <1>4, <1>5, <2>1, <3>1 DEF Without, MemberIds
    <3>2. CASE h # g
      BY <1>5, <2>1, <3>2 DEF GroupsInv, LivesWithMembers, MemberIds
    <3> QED BY <3>1, <3>2
  <2>2. ASSUME NEW x \in GroupRequests, greq'[x].st \in {"find", "add"}
        PROVE  group'[greq'[x].chat].life # "none"
    <3>1. x # r /\ greq'[x] = greq[x] /\ greq[x].chat \in Chats
      BY <1>1, <2>2, GroupRequestShapes DEF GroupsInv, GroupsTyped, Resting
    <3>2. group[greq[x].chat].life # "none"
      BY <2>2, <3>1 DEF GroupsInv, LivesWithMembers
    <3> QED BY <1>4, <1>5, <3>1, <3>2 DEF Without
  <2> QED BY <2>1, <2>2 DEF LivesWithMembers
<1>13. TidiesTheRest'
  <2> SUFFICES ASSUME NEW x \in GroupRequests, greq'[x].st \in {"left", "tidy"}
      PROVE  /\ standing[greq'[x].whom] # "staff"
             /\ greq'[x].st = "tidy" /\ standing[greq'[x].whom] = "leaving" =>
                  \A h \in Chats : greq'[x].whom \in MemberIds(group'[h]) =>
                    h \in DOMAIN greq'[x].seen
    BY DEF TidiesTheRest
  <2>1. CASE x = r
    <3>1. /\ q.st = "tidy" /\ greq[r].st = "tidy" /\ q.whom = u /\ greq[r].whom = u
          /\ DOMAIN q.seen = DOMAIN greq[r].seen \ {g}
      BY <1>1, <2>1
    <3>2. /\ standing[u] # "staff"
          /\ standing[u] = "leaving" =>
               \A h \in Chats : u \in MemberIds(group[h]) => h \in DOMAIN greq[r].seen
      BY <3>1 DEF GroupsInv, TidiesTheRest
    <3>3. \A h \in Chats : u \in MemberIds(group'[h]) => u \in MemberIds(group[h]) /\ h # g
      BY <1>8, <1>9 DEF MemberIds
    <3> QED BY <1>1, <2>1, <3>1, <3>2, <3>3
  <2>2. CASE x # r
    <3>1. \A h \in Chats : MemberIds(group'[h]) \subseteq MemberIds(group[h])
      BY <1>8 DEF MemberIds
    <3> QED BY <1>1, <2>2, <3>1 DEF GroupsInv, TidiesTheRest
  <2> QED BY <2>1, <2>2
<1>14. ListedAsFound'
  <2> SUFFICES ASSUME NEW h \in Chats, NEW v \in People
      PROVE  group'[h].members[v] + Cardinality(Adding(h, v)') <= Cardinality(GroupRequests)
    BY DEF ListedAsFound
  <2>1. group'[h].members[v] <= group[h].members[v]
    <3>1. \A n \in 0..Cardinality(GroupRequests) : n <= n
      BY RequestsCounted
    <3>2. group[h].members[v] \in 0..Cardinality(GroupRequests)
      BY <1>2 DEF GroupDocs
    <3> QED BY <1>4, <1>5, <3>1, <3>2 DEF Without
  <2>2. Adding(h, v)' \subseteq Adding(h, v)
    BY <1>1 DEF Adding
  <2>3. Cardinality(Adding(h, v)') <= Cardinality(Adding(h, v))
    BY <2>2, RequestsCounted, FS_Subset
  <2>4. group[h].members[v] + Cardinality(Adding(h, v)) <= Cardinality(GroupRequests)
    BY DEF GroupsInv, ListedAsFound
  <2>5. group[h].members[v] \in Nat /\ group'[h].members[v] \in Nat
    BY <1>2, <1>5, RequestsCounted DEF GroupDocs
  <2> QED BY <2>1, <2>3, <2>4, <2>5, RequestsCounted
<1> QED BY <1>7, <1>10, <1>11, <1>12, <1>13, <1>14 DEF GroupsInv

(* Whoever has left and is put in a group all the same is known as late.   *)
LEMMA PutInKeeps ==
  ASSUME GroupsInv, NEW us \in SUBSET People, PutIn(us)
  PROVE  /\ standing' \in [People -> Standings]
         /\ \A u \in People : standing'[u] \in {"leaving", "tidied"} =>
              standing[u] = standing'[u] /\ u \notin us
         /\ \A u \in People : standing'[u] = "staff" => standing[u] = "staff"
BY DEF PutIn, Staff, GroupsInv, GroupsTyped, GroupsTypeOK, Standings

(* People come into a group.                                               *)
LEMMA JoinInv ==
  ASSUME GroupsInv, NEW g \in Chats, NEW us \in SUBSET People, NEW d \in GroupDocs,
         group' = [group EXCEPT ![g] = d], PutIn(us), UNCHANGED crossed,
         d.life = "live", MemberIds(d) \subseteq MemberIds(group[g]) \cup us,
         g \in crossed \/ (d.admins # {} /\ d.admins \subseteq MemberIds(d)),
         NEW r \in GroupRequests, GroupStep(r, Resting),
         \A v \in People :
           d.members[v] + Cardinality(Adding(g, v)') <= Cardinality(GroupRequests)
  PROVE  GroupsInv'
<1>1. /\ greq' \in [GroupRequests -> GroupRequestDocs] /\ greq'[r] = Resting
      /\ \A x \in GroupRequests : x # r => greq'[x] = greq[x]
  BY DEF GroupStep, GroupsInv, GroupsTyped, GroupRequestDocs
<1>2. /\ group \in [Chats -> GroupDocs] /\ crossed \subseteq Chats
      /\ group' \in [Chats -> GroupDocs] /\ group'[g] = d
      /\ \A h \in Chats : h # g => group'[h] = group[h]
  BY DEF GroupsInv, GroupsTyped, GroupsTypeOK
<1>3. /\ standing' \in [People -> Standings]
      /\ \A u \in People : standing'[u] \in {"leaving", "tidied"} =>
           standing[u] = standing'[u] /\ u \notin us
      /\ \A u \in People : standing'[u] = "staff" => standing[u] = "staff"
  BY PutInKeeps
<1>4. GroupsTyped'
  BY <1>1, <1>2, <1>3 DEF GroupsInv, GroupsTyped, GroupsTypeOK, Standings
<1>5. \A h \in Chats : MemberIds(group[h])' \subseteq MemberIds(group[h]) \cup us
  <2>1. ASSUME NEW h \in Chats PROVE MemberIds(group[h])' \subseteq MemberIds(group[h]) \cup us
    <3>1. CASE h = g
      BY <1>2, <3>1 DEF MemberIds
    <3>2. CASE h # g
      BY <1>2, <3>2 DEF MemberIds
    <3> QED BY <3>1, <3>2
  <2> QED BY <2>1
<1>6. AdminKept'
  BY <1>2 DEF GroupsInv, AdminKept, MemberIds
<1>7. OutOfGroups'
  BY <1>3, <1>5 DEF GroupsInv, OutOfGroups
<1>8. LivesWithMembers'
  <2>1. ASSUME NEW h \in Chats, group'[h].life # "live" PROVE MemberIds(group'[h]) = {}
    BY <1>2, <2>1 DEF GroupsInv, LivesWithMembers, MemberIds
  <2>2. ASSUME NEW x \in GroupRequests, greq'[x].st \in {"find", "add"}
        PROVE  group'[greq'[x].chat].life # "none"
    <3>1. x # r /\ greq'[x] = greq[x] /\ greq[x].chat \in Chats
      BY <1>1, <2>2, GroupRequestShapes DEF GroupsInv, GroupsTyped, Resting
    <3>2. group[greq[x].chat].life # "none"
      BY <2>2, <3>1 DEF GroupsInv, LivesWithMembers
    <3> QED BY <1>2, <3>1, <3>2
  <2> QED BY <2>1, <2>2 DEF LivesWithMembers
<1>9. TidiesTheRest'
  <2> SUFFICES ASSUME NEW x \in GroupRequests, greq'[x].st \in {"left", "tidy"}
      PROVE  /\ standing'[greq'[x].whom] # "staff"
             /\ greq'[x].st = "tidy" /\ standing'[greq'[x].whom] = "leaving" =>
                  \A h \in Chats : greq'[x].whom \in MemberIds(group[h])' =>
                    h \in DOMAIN greq'[x].seen
    BY DEF TidiesTheRest
  <2>1. x # r /\ greq'[x] = greq[x] /\ greq[x].whom \in People
    BY <1>1, GroupRequestShapes DEF GroupsInv, GroupsTyped, Resting
  <2>2. /\ standing[greq[x].whom] # "staff"
        /\ greq[x].st = "tidy" /\ standing[greq[x].whom] = "leaving" =>
             \A h \in Chats : greq[x].whom \in MemberIds(group[h]) => h \in DOMAIN greq[x].seen
    BY <2>1 DEF GroupsInv, TidiesTheRest
  <2> QED BY <1>3, <1>5, <2>1, <2>2
<1>10. ListedAsFound'
  <2> SUFFICES ASSUME NEW h \in Chats, NEW v \in People
      PROVE  group'[h].members[v] + Cardinality(Adding(h, v)') <= Cardinality(GroupRequests)
    BY DEF ListedAsFound
  <2>1. CASE h = g
    BY <1>2, <2>1
  <2>2. CASE h # g
    <3>1. Adding(h, v)' \subseteq Adding(h, v)
      BY <1>1 DEF Adding, Resting
    <3>2. Cardinality(Adding(h, v)') <= Cardinality(Adding(h, v))
      BY <3>1, RequestsCounted, FS_Subset
    <3>3. group[h].members[v] + Cardinality(Adding(h, v)) <= Cardinality(GroupRequests)
      BY DEF GroupsInv, ListedAsFound
    <3>4. group[h].members[v] \in Nat
      BY <1>2, RequestsCounted DEF GroupDocs
    <3> QED BY <1>2, <2>2, <3>2, <3>3, <3>4, RequestsCounted
  <2> QED BY <2>1, <2>2
<1> QED BY <1>4, <1>6, <1>7, <1>8, <1>9, <1>10 DEF GroupsInv

LEMMA CreateConversationInv ==
  ASSUME GroupsInv, NEW r \in GroupRequests, CreateConversation(r) PROVE GroupsInv'
<1>1. PICK q \in GroupRequestDocs : q = greq[r] /\ q.st = "create"
  BY DEF CreateConversation, Doing, GroupsInv, GroupsTyped
<1>2. q.who \in People /\ q.chat \in Chats /\ q.whom \subseteq People
  BY <1>1, GroupRequestShapes DEF Resting
<1>3. PICK us \in SUBSET People : us = q.whom \cup {q.who}
  BY <1>2
<1>4. PICK m : m = [u \in People |-> IF u \in us THEN 1 ELSE 0]
  OBVIOUS
<1>5. 1 <= Cardinality(GroupRequests)
  <2>1. Cardinality(GroupRequests) # 0
    BY RequestsCounted, FS_EmptySet
  <2> QED BY <2>1, RequestsCounted
<1>6. m \in [People -> 0..Cardinality(GroupRequests)]
  BY <1>4, <1>5, RequestsCounted
<1>7. PICK d : d = [life |-> "live", members |-> m, admins |-> {q.who}]
  OBVIOUS
<1>8. d \in GroupDocs /\ d.life = "live" /\ MemberIds(d) = us /\ d.admins = {q.who}
  BY <1>2, <1>3, <1>4, <1>6, <1>7 DEF GroupDocs, MemberIds
<1>9. /\ group' = [group EXCEPT ![q.chat] = d] /\ PutIn(us) /\ GroupStep(r, Resting)
      /\ UNCHANGED crossed /\ group[q.chat].life = "none"
  BY <1>1, <1>3, <1>4, <1>7 DEF CreateConversation
<1>10. ASSUME NEW v \in People
       PROVE  d.members[v] + Cardinality(Adding(q.chat, v)') <= Cardinality(GroupRequests)
  <2>1. \A x \in GroupRequests : greq[x].st \in {"find", "add"} => greq[x].chat # q.chat
    BY <1>9 DEF GroupsInv, LivesWithMembers
  <2>2. \A x \in GroupRequests : greq'[x] = IF x = r THEN Resting ELSE greq[x]
    BY <1>9 DEF GroupStep, GroupsInv, GroupsTyped
  <2>3. Adding(q.chat, v)' = {}
    BY <2>1, <2>2 DEF Adding, Resting
  <2>4. Cardinality(Adding(q.chat, v)') = 0
    BY <2>3, FS_EmptySet
  <2>5. d.members[v] \in {0, 1}
    BY <1>4, <1>7
  <2> QED BY <1>5, <2>4, <2>5, RequestsCounted
<1>11. MemberIds(d) \subseteq MemberIds(group[q.chat]) \cup us
       /\ d.admins # {} /\ d.admins \subseteq MemberIds(d)
  BY <1>3, <1>8
<1> QED BY <1>2, <1>8, <1>9, <1>10, <1>11, JoinInv

LEMMA AddConversationMembersInv ==
  ASSUME GroupsInv, NEW r \in GroupRequests, AddConversationMembers(r) PROVE GroupsInv'
<1>1. PICK q \in GroupRequestDocs : q = greq[r] /\ q.st = "add"
  BY DEF AddConversationMembers, Doing, GroupsInv, GroupsTyped
<1>2. q.chat \in Chats /\ q.whom \in SUBSET People
  BY <1>1, GroupRequestShapes DEF Resting
<1>3. PICK e \in GroupDocs : e = group[q.chat]
  BY <1>2 DEF GroupsInv, GroupsTyped, GroupsTypeOK
<1>4. PICK m : m = [u \in People |-> e.members[u] + IF u \in q.whom THEN 1 ELSE 0]
  OBVIOUS
<1>5. PICK d : d = [e EXCEPT !.members = m]
  OBVIOUS
<1>6. /\ group' = [group EXCEPT ![q.chat] = d] /\ PutIn(q.whom) /\ GroupStep(r, Resting)
      /\ UNCHANGED crossed /\ e.life = "live"
  <2>1. group' = [group EXCEPT ![q.chat].members =
                    [u \in People |-> group[q.chat].members[u] + IF u \in q.whom THEN 1 ELSE 0]]
    BY <1>1 DEF AddConversationMembers
  <2>2. group' = [group EXCEPT ![q.chat].members = m]
    BY <1>3, <1>4, <2>1
  <2>3. group' = [group EXCEPT ![q.chat] = [e EXCEPT !.members = m]]
    BY <1>3, <2>2
  <2> QED BY <1>1, <1>3, <1>5, <2>3 DEF AddConversationMembers
<1>7. ASSUME NEW v \in People
      PROVE  /\ m[v] + Cardinality(Adding(q.chat, v)') <= Cardinality(GroupRequests)
             /\ m[v] \in 0..Cardinality(GroupRequests)
             /\ e.members[v] > 0 => m[v] > 0
             /\ m[v] > 0 => e.members[v] > 0 \/ v \in q.whom
  <2>1. e.members[v] + Cardinality(Adding(q.chat, v)) <= Cardinality(GroupRequests)
    BY <1>2, <1>3 DEF GroupsInv, ListedAsFound
  <2>2. e.members[v] \in Nat
    BY RequestsCounted DEF GroupDocs
  <2>3. \A x \in GroupRequests : greq'[x] = IF x = r THEN Resting ELSE greq[x]
    BY <1>6 DEF GroupStep, GroupsInv, GroupsTyped
  <2>4. Adding(q.chat, v)' = Adding(q.chat, v) \ {r}
    BY <2>3 DEF Adding, Resting
  <2>5. CASE v \in q.whom
    <3>1. r \in Adding(q.chat, v)
      BY <1>1, <2>5 DEF Adding
    <3>2. Cardinality(Adding(q.chat, v)') = Cardinality(Adding(q.chat, v)) - 1
      <4>1. IsFiniteSet(Adding(q.chat, v))
        BY <1>2, RequestsCounted
      <4>2. Cardinality(Adding(q.chat, v) \ {r}) = Cardinality(Adding(q.chat, v)) - 1
        BY <3>1, <4>1, FS_RemoveElement
      <4> QED BY <2>4, <4>2
    <3>3. m[v] = e.members[v] + 1
      BY <1>4, <2>5
    <3> QED BY <1>2, <2>1, <2>2, <2>5, <3>2, <3>3, RequestsCounted
  <2>6. CASE v \notin q.whom
    <3>1. Adding(q.chat, v)' = Adding(q.chat, v)
      BY <1>1, <2>4, <2>6 DEF Adding
    <3>2. m[v] = e.members[v]
      BY <1>4, <2>2, <2>6
    <3> QED BY <1>2, <2>1, <2>2, <2>6, <3>1, <3>2, RequestsCounted
  <2> QED BY <2>5, <2>6
<1>8. m \in [People -> 0..Cardinality(GroupRequests)]
  BY <1>4, <1>7
<1>9. d \in GroupDocs /\ d.life = "live" /\ d.members = m /\ d.admins = e.admins
  BY <1>5, <1>6, <1>8 DEF GroupDocs
<1>10. MemberIds(d) \subseteq MemberIds(group[q.chat]) \cup q.whom
  BY <1>3, <1>7, <1>9 DEF MemberIds
<1>11. q.chat \in crossed \/ (d.admins # {} /\ d.admins \subseteq MemberIds(d))
  <2>1. SUFFICES ASSUME q.chat \notin crossed
        PROVE d.admins # {} /\ d.admins \subseteq MemberIds(d)
    OBVIOUS
  <2>2. e.admins # {} /\ e.admins \subseteq {u \in People : e.members[u] > 0}
    BY <1>2, <1>3, <1>6, <2>1 DEF GroupsInv, AdminKept, MemberIds
  <2> QED BY <1>7, <1>9, <2>2 DEF MemberIds
<1>12. \A v \in People :
         d.members[v] + Cardinality(Adding(q.chat, v)') <= Cardinality(GroupRequests)
  BY <1>7, <1>9
<1> QED BY <1>2, <1>6, <1>9, <1>10, <1>11, <1>12, JoinInv

(* A person leaves, has been tidied up after, or comes back.               *)
LEMMA StandingInv ==
  ASSUME GroupsInv, NEW u \in People, NEW s \in Standings,
         standing' = [standing EXCEPT ![u] = s], UNCHANGED <<group, crossed>>,
         NEW r \in GroupRequests, NEW q \in {Resting} \cup [st : {"left"}, whom : {u}],
         greq' = greq \/ GroupStep(r, q),
         s = "tidied" => \A g \in Chats : u \notin MemberIds(group[g]),
         q.st = "left" \/ s = "leaving" => s = "leaving" /\ standing[u] = "staff",
         s = "staff" => \A x \in GroupRequests : greq[x].st \in {"left", "tidy"} =>
                                                   greq[x].whom # u /\ greq' = greq
  PROVE  GroupsInv'
<1>1. q \in GroupRequestDocs /\ q.st \in {"idle", "left"} /\ (q.st = "left" => q.whom = u)
  BY DEF GroupRequestDocs, Resting
<1>2. /\ greq' \in [GroupRequests -> GroupRequestDocs]
      /\ \A x \in GroupRequests : greq'[x] = greq[x] \/ greq'[x] = q
  BY <1>1 DEF GroupStep, GroupsInv, GroupsTyped
<1>3. /\ standing' \in [People -> Standings] /\ standing'[u] = s
      /\ \A v \in People : v # u => standing'[v] = standing[v]
  BY DEF GroupsInv, GroupsTyped, GroupsTypeOK, Standings
<1>4. GroupsTyped'
  BY <1>2, <1>3 DEF GroupsInv, GroupsTyped, GroupsTypeOK, Standings
<1>5. AdminKept' /\ OutOfGroups'
  BY <1>3 DEF GroupsInv, AdminKept, OutOfGroups, MemberIds
<1>6. LivesWithMembers'
  <2>1. \A x \in GroupRequests : greq'[x].st \in {"find", "add"} => greq'[x] = greq[x]
    BY <1>1, <1>2
  <2> QED BY <2>1 DEF GroupsInv, LivesWithMembers, MemberIds
<1>7. TidiesTheRest'
  <2> SUFFICES ASSUME NEW x \in GroupRequests, greq'[x].st \in {"left", "tidy"}
      PROVE  /\ standing'[greq'[x].whom] # "staff"
             /\ greq'[x].st = "tidy" /\ standing'[greq'[x].whom] = "leaving" =>
                  \A h \in Chats : greq'[x].whom \in MemberIds(group[h]) =>
                    h \in DOMAIN greq'[x].seen
    BY DEF TidiesTheRest, MemberIds
  <2>1. CASE greq'[x] = greq[x]
    <3>1. /\ standing[greq[x].whom] # "staff" /\ greq[x].whom \in People
          /\ greq[x].st = "tidy" /\ standing[greq[x].whom] = "leaving" =>
               \A h \in Chats : greq[x].whom \in MemberIds(group[h]) => h \in DOMAIN greq[x].seen
      BY <2>1, GroupRequestShapes DEF GroupsInv, GroupsTyped, TidiesTheRest, Resting
    <3> QED BY <1>3, <2>1, <3>1
  <2>2. CASE greq'[x] # greq[x]
    <3>1. greq'[x] = q /\ q.st = "left" /\ q.whom = u /\ s = "leaving"
      BY <1>1, <1>2, <2>2
    <3> QED BY <1>3, <3>1
  <2> QED BY <2>1, <2>2
<1>8. ListedAsFound'
  <2> SUFFICES ASSUME NEW h \in Chats, NEW v \in People
      PROVE  group[h].members[v] + Cardinality(Adding(h, v)') <= Cardinality(GroupRequests)
    BY DEF ListedAsFound
  <2>1. Adding(h, v)' \subseteq Adding(h, v)
    BY <1>1, <1>2 DEF Adding
  <2>2. Cardinality(Adding(h, v)') <= Cardinality(Adding(h, v))
    BY <2>1, RequestsCounted, FS_Subset
  <2>3. group[h].members[v] + Cardinality(Adding(h, v)) <= Cardinality(GroupRequests)
    BY DEF GroupsInv, ListedAsFound
  <2>4. group[h].members[v] \in Nat
    BY RequestsCounted DEF GroupsInv, GroupsTyped, GroupsTypeOK, GroupDocs
  <2> QED BY <2>2, <2>3, <2>4, RequestsCounted
<1> QED BY <1>4, <1>5, <1>6, <1>7, <1>8 DEF GroupsInv

LEMMA GroupsTidiedInv ==
  ASSUME GroupsInv, NEW r \in GroupRequests, GroupsTidied(r) PROVE GroupsInv'
<1>1. PICK q \in GroupRequestDocs : q = greq[r] /\ q.st = "tidy"
  BY DEF GroupsTidied, Doing, GroupsInv, GroupsTyped
<1>2. q.whom \in People /\ standing[q.whom] \in Standings /\ standing[q.whom] # "staff"
  BY <1>1, GroupRequestShapes
     DEF GroupsInv, GroupsTyped, GroupsTypeOK, Standings, TidiesTheRest, Resting
<1>3. PICK s : s = IF standing[q.whom] = "leaving" THEN "tidied" ELSE standing[q.whom]
  OBVIOUS
<1>4. /\ standing' = [standing EXCEPT ![q.whom] = s] /\ UNCHANGED <<group, crossed>>
      /\ GroupStep(r, Resting) /\ DOMAIN q.seen = {}
  BY <1>1, <1>3 DEF GroupsTidied
<1>5. s \in Standings /\ s \notin {"staff", "leaving"}
  BY <1>2, <1>3 DEF Standings
<1>6. s = "tidied" => \A g \in Chats : q.whom \notin MemberIds(group[g])
  <2>1. CASE standing[q.whom] = "leaving"
    BY <1>1, <1>4, <2>1 DEF GroupsInv, TidiesTheRest
  <2>2. CASE standing[q.whom] = "tidied"
    BY <1>2, <2>2 DEF GroupsInv, OutOfGroups
  <2> QED BY <1>2, <1>3, <2>1, <2>2 DEF Standings
<1>7. Resting.st # "left"
  BY DEF Resting
<1> QED BY <1>2, <1>4, <1>5, <1>6, <1>7, StandingInv

LEMMA GroupBookkeeping ==
  ASSUME GroupsInv, NEW r \in GroupRequests,
         \/ \E u \in People, g \in Chats :
              \/ \E others \in SUBSET People : CheckNewGroup(r, u, g, others)
              \/ \E v \in People : FindToAdd(r, u, g, v) \/ FindToRemove(r, u, g, v)
         \/ RequireOrgMembers(r) \/ FindGroups(r) \/ GroupRequestEnds(r)
  PROVE  GroupsInv'
<1>0. /\ greq[r] \in GroupRequestDocs /\ group \in [Chats -> GroupDocs]
      /\ \A q : Asks(r, q) => GroupStep(r, q) /\ UNCHANGED <<standing, group, crossed>>
  BY DEF GroupsInv, GroupsTyped, GroupsTypeOK, Asks
<1>1. ASSUME NEW u \in People, NEW g \in Chats, NEW others \in SUBSET People,
             CheckNewGroup(r, u, g, others)
      PROVE  GroupsInv'
  <2>1. PICK q \in GroupRequestDocs :
          q = [st |-> "create", who |-> u, chat |-> g, whom |-> others]
    BY DEF GroupRequestDocs
  <2>2. GroupStep(r, q) /\ UNCHANGED <<standing, group, crossed>>
    BY <1>1, <2>1 DEF CheckNewGroup, Asks
  <2> QED BY <2>1, <2>2, BookkeepingInv
<1>2. ASSUME NEW u \in People, NEW g \in Chats, NEW v \in People, FindToAdd(r, u, g, v)
      PROVE  GroupsInv'
  <2>1. PICK q \in GroupRequestDocs :
          q = [st |-> "find", who |-> u, chat |-> g, whom |-> {v}]
    BY DEF GroupRequestDocs
  <2>2. GroupStep(r, q) /\ UNCHANGED <<standing, group, crossed>>
    BY <1>2, <2>1 DEF FindToAdd, Asks
  <2>3. group[g].life # "none" /\ group[g].members[v] = 0
    <3>1. group[g].members[v] \in Nat
      BY <1>0, RequestsCounted DEF GroupDocs
    <3> QED BY <1>2, <3>1 DEF FindToAdd, FindMine, MemberIds
  <2> QED BY <2>1, <2>2, <2>3, BookkeepingInv
<1>3. ASSUME NEW u \in People, NEW g \in Chats, NEW v \in People, FindToRemove(r, u, g, v)
      PROVE  GroupsInv'
  <2>1. PICK q \in GroupRequestDocs :
          q = [st |-> "remove", chat |-> g, whom |-> v, seen |-> group[g]]
    BY <1>0 DEF GroupRequestDocs
  <2>2. GroupStep(r, q) /\ UNCHANGED <<standing, group, crossed>>
    BY <1>3, <2>1 DEF FindToRemove, Asks
  <2> QED BY <2>1, <2>2, BookkeepingInv
<1>4. CASE RequireOrgMembers(r)
  <2>1. greq[r].st = "find" /\ greq[r].chat \in Chats
    BY <1>0, <1>4, GroupRequestShapes DEF RequireOrgMembers, Doing, Resting
  <2>a. greq[r] \in [st : {"create", "find", "add"}, who : People, chat : Chats,
                     whom : SUBSET People]
    BY <1>0, <2>1 DEF GroupRequestDocs, Resting
  <2>b. [greq[r] EXCEPT !.st = "add"]
          \in [st : {"create", "find", "add"}, who : People, chat : Chats,
              whom : SUBSET People]
    BY <2>a
  <2>2. PICK q \in GroupRequestDocs : q = [greq[r] EXCEPT !.st = "add"]
    BY <2>b DEF GroupRequestDocs
  <2>3. q.st = "add" /\ q.chat = greq[r].chat /\ q.whom = greq[r].whom
    BY <2>a, <2>2
  <2>4. GroupStep(r, q) /\ UNCHANGED <<standing, group, crossed>>
    BY <1>4, <2>2 DEF RequireOrgMembers
  <2>5. group[q.chat].life # "none"
    BY <2>1, <2>3 DEF GroupsInv, LivesWithMembers
  <2> QED BY <2>1, <2>3, <2>4, <2>5, BookkeepingInv
<1>5. CASE FindGroups(r)
  <2>1. greq[r].st = "left" /\ greq[r].whom \in People
    BY <1>0, <1>5, GroupRequestShapes DEF FindGroups, Doing, Resting
  <2>2. PICK mine \in SUBSET Chats :
          mine = {g \in Chats : group[g].life = "live" /\ greq[r].whom \in MemberIds(group[g])}
    OBVIOUS
  <2>3. [g \in mine |-> group[g]] \in [mine -> GroupDocs]
    BY <1>0, <2>2
  <2>4. PICK q \in GroupRequestDocs :
          q = [st |-> "tidy", whom |-> greq[r].whom, seen |-> [g \in mine |-> group[g]]]
    BY <2>1, <2>2, <2>3 DEF GroupRequestDocs
  <2>5. GroupStep(r, q) /\ UNCHANGED <<standing, group, crossed>>
    BY <1>5, <2>2, <2>4 DEF FindGroups
  <2>6. standing[q.whom] # "staff"
    BY <2>1, <2>4 DEF GroupsInv, TidiesTheRest
  <2>7. \A g \in Chats : q.whom \in MemberIds(group[g]) => g \in DOMAIN q.seen
    BY <2>2, <2>4 DEF GroupsInv, LivesWithMembers
  <2> QED BY <2>4, <2>5, <2>6, <2>7, BookkeepingInv
<1>6. CASE GroupRequestEnds(r)
  <2>1. Resting \in GroupRequestDocs /\ Resting.st = "idle"
    BY DEF GroupRequestDocs, Resting
  <2> QED BY <1>6, <2>1, BookkeepingInv DEF GroupRequestEnds
<1> QED BY <1>1, <1>2, <1>3, <1>4, <1>5, <1>6

LEMMA RemovalInv ==
  ASSUME GroupsInv, NEW r \in GroupRequests,
         RemoveConversationMember(r) \/ \E g \in Chats : TidyGroup(r, g)
  PROVE  GroupsInv'
<1>0. greq[r] \in GroupRequestDocs /\ group \in [Chats -> GroupDocs]
  BY DEF GroupsInv, GroupsTyped, GroupsTypeOK
<1>1. CASE RemoveConversationMember(r)
  <2>1. /\ greq[r].chat \in Chats /\ greq[r].whom \in People /\ greq[r].seen \in GroupDocs
        /\ greq[r].st = "remove"
    BY <1>0, <1>1, GroupRequestShapes DEF RemoveConversationMember, Doing, Resting
  <2>2. Resting \in GroupRequestDocs /\ Resting.st = "idle"
    BY DEF GroupRequestDocs, Resting
  <2> QED BY <1>1, <2>1, <2>2, LeaveInv DEF RemoveConversationMember
<1>2. ASSUME NEW g \in Chats, TidyGroup(r, g) PROVE GroupsInv'
  <2>1. /\ greq[r].st = "tidy" /\ greq[r].whom \in People /\ g \in DOMAIN greq[r].seen
        /\ DOMAIN greq[r].seen \subseteq Chats
        /\ greq[r].seen \in [DOMAIN greq[r].seen -> GroupDocs]
    BY <1>0, <1>2, GroupRequestShapes DEF TidyGroup, Doing, Resting
  <2>2. PICK rest \in SUBSET Chats : rest = DOMAIN greq[r].seen \ {g}
    BY <2>1
  <2>3. PICK f \in [rest -> GroupDocs] : f = [h \in rest |-> greq[r].seen[h]]
    BY <2>1, <2>2
  <2>4. PICK q \in GroupRequestDocs : q = [st |-> "tidy", whom |-> greq[r].whom, seen |-> f]
    BY <2>1, <2>3 DEF GroupRequestDocs
  <2>5. greq[r] = [st |-> "tidy", whom |-> greq[r].whom, seen |-> greq[r].seen]
    BY <1>0, <2>1 DEF GroupRequestDocs, Resting
  <2>6. [greq[r] EXCEPT !.seen = [h \in DOMAIN greq[r].seen \ {g} |-> greq[r].seen[h]]] = q
    BY <2>2, <2>3, <2>4, <2>5
  <2>7. GroupStep(r, q) /\ UNCHANGED standing
    BY <1>2, <2>6 DEF TidyGroup
  <2>8. q.st = "tidy" /\ q.whom = greq[r].whom /\ DOMAIN q.seen = DOMAIN greq[r].seen \ {g}
    BY <2>2, <2>3, <2>4
  <2>9. CASE group[g].life = "live"
    <3>1. Leave(g, greq[r].seen[g], greq[r].whom) /\ greq[r].seen[g] \in GroupDocs
      BY <1>2, <2>1, <2>9 DEF TidyGroup
    <3> QED BY <2>1, <2>7, <2>8, <3>1, LeaveInv
  <2>10. CASE group[g].life # "live"
    <3>1. UNCHANGED <<group, crossed>>
      BY <1>2, <2>10 DEF TidyGroup
    <3>2. /\ standing[q.whom] # "staff"
          /\ standing[q.whom] = "leaving" =>
               \A h \in Chats : q.whom \in MemberIds(group[h]) => h \in DOMAIN q.seen
      <4>1. /\ standing[greq[r].whom] # "staff"
            /\ standing[greq[r].whom] = "leaving" =>
                 \A h \in Chats : greq[r].whom \in MemberIds(group[h]) => h \in DOMAIN greq[r].seen
        BY <2>1 DEF GroupsInv, TidiesTheRest
      <4>2. MemberIds(group[g]) = {}
        BY <2>10 DEF GroupsInv, LivesWithMembers
      <4> QED BY <2>8, <4>1, <4>2
    <3> QED BY <2>7, <2>8, <3>1, <3>2, BookkeepingInv
  <2> QED BY <2>9, <2>10
<1> QED BY <1>1, <1>2

LEMMA GroupsStep == GroupsInv /\ [GroupsNext]_groupVars => GroupsInv'
<1> SUFFICES ASSUME GroupsInv, [GroupsNext]_groupVars PROVE GroupsInv'
  OBVIOUS
<1>1. ASSUME NEW r \in GroupRequests,
             \/ \E u \in People, g \in Chats :
                  \/ \E others \in SUBSET People : CheckNewGroup(r, u, g, others)
                  \/ \E v \in People : FindToAdd(r, u, g, v)
                  \/ \E v \in People : FindToRemove(r, u, g, v)
             \/ CreateConversation(r) \/ RequireOrgMembers(r)
             \/ AddConversationMembers(r) \/ RemoveConversationMember(r)
             \/ FindGroups(r) \/ GroupsTidied(r) \/ GroupRequestEnds(r)
             \/ \E g \in Chats : TidyGroup(r, g)
      PROVE  GroupsInv'
  BY <1>1, GroupBookkeeping, CreateConversationInv, AddConversationMembersInv, RemovalInv,
     GroupsTidiedInv
<1>2. ASSUME NEW r \in GroupRequests, NEW u \in People, LeaveOrganization(r, u)
      PROVE  GroupsInv'
  <2>1. PICK q \in [st : {"left"}, whom : {u}] : q = [st |-> "left", whom |-> u]
    OBVIOUS
  <2>2. /\ standing' = [standing EXCEPT ![u] = "leaving"] /\ UNCHANGED <<group, crossed>>
        /\ GroupStep(r, q) /\ standing[u] = "staff"
    BY <1>2, <2>1 DEF LeaveOrganization, Staff
  <2>3. "leaving" \in Standings
    BY DEF Standings
  <2> QED BY <2>2, <2>3, StandingInv
<1>3. ASSUME NEW u \in People, ComeBack(u) PROVE GroupsInv'
  <2>1. /\ standing' = [standing EXCEPT ![u] = "staff"] /\ UNCHANGED <<group, greq, crossed>>
        /\ \A x \in GroupRequests : greq[x].st \in {"left", "tidy"} => greq[x].whom # u
    BY <1>3 DEF ComeBack
  <2>2. CASE GroupRequests # {}
    <3>1. PICK r \in GroupRequests : TRUE
      BY <2>2
    <3>2. "staff" \in Standings /\ Resting.st # "left"
      BY DEF Standings, Resting
    <3> QED BY <2>1, <3>1, <3>2, StandingInv
  <2>3. CASE GroupRequests = {}
    <3>1. standing' \in [People -> Standings]
          /\ \A v \in People : standing'[v] = "tidied" => standing[v] = "tidied"
      BY <2>1 DEF GroupsInv, GroupsTyped, GroupsTypeOK, Standings
    <3>2. \A g \in Chats, v \in People : Adding(g, v)' = Adding(g, v)
      BY <2>1 DEF Adding
    <3> QED BY <2>1, <2>3, <3>1, <3>2
            DEF GroupsInv, GroupsTyped, GroupsTypeOK, Standings, ListedAsFound,
                LivesWithMembers, TidiesTheRest, AdminKept, OutOfGroups, MemberIds
  <2> QED BY <2>2, <2>3
<1>4. CASE UNCHANGED groupVars
  <2>1. \A g \in Chats, v \in People : Adding(g, v)' = Adding(g, v)
    BY <1>4 DEF Adding, groupVars
  <2> QED BY <1>4, <2>1
          DEF groupVars, GroupsInv, GroupsTyped, GroupsTypeOK, ListedAsFound,
              LivesWithMembers, TidiesTheRest, AdminKept, OutOfGroups, MemberIds
<1> QED BY <1>1, <1>2, <1>3, <1>4 DEF GroupsNext

LEMMA GroupsInvariant == GroupsSpec => []GroupsInv
BY GroupsBegin, GroupsStep, PTL DEF GroupsSpec

(* However many people and requests: documents keep their types, and a     *)
(* person is listed in a group at most once for each request.              *)
THEOREM GroupsTypeCorrect == GroupsSpec => []GroupsTypeOK
<1>1. GroupsInv => GroupsTypeOK
  BY DEF GroupsInv, GroupsTyped
<1> QED BY <1>1, GroupsInvariant, PTL

(* "A group is never left without an admin", and whoever left is out of    *)
(* all groups once the clean-up is through, for any number of people,      *)
(* groups and requests, with the exceptions the invariant names            *)
(* (removeConversationMember, cleanupAfterDeparture).                      *)
THEOREM GroupsKeptInOrder == GroupsSpec => []GroupsInOrder
<1>1. GroupsInv => GroupsInOrder
  BY DEF GroupsInv, GroupsInOrder
<1> QED BY <1>1, GroupsInvariant, PTL

-----------------------------------------------------------------------------
(* The meeting: types of what requests know.                               *)
Departing == {"uninvite", "organized", "handover", "cancel", "tidied"}

ReadDocs == [attendees : [Invitees -> Responses \cup {"no"}], slot : Slots \cup {NoTime}]

MeetingRequestDocs ==
  {Available}
    \cup [st : {"create"}, who : Invitees, whom : SUBSET Invitees]
    \cup [st : {"update"}, who : Invitees, slot : Slots, from : Invitees,
          added : SUBSET Invitees, removed : SUBSET Invitees, seen : ReadDocs]
    \cup [st : {"respond"}, who : Invitees, answer : Answers, slot : Slots]
    \cup [st : {"pull", "push"}, who : Invitees, slot : Slots]
    \cup [st : {"settle", "tidied"}, whom : Invitees]
    \cup [st : {"depart", "uninvite", "organized"}, whom : Invitees, heir : Invitees]
    \cup [st : {"handover", "cancel"}, whom : Invitees, heir : Invitees, seen : ReadDocs]

MeetingsTyped ==
  /\ MeetingsTypeOK
  /\ mtreq \in [MeetingRequests -> MeetingRequestDocs]
  /\ passed \in BOOLEAN

(* Nobody is on the list of a meeting that is not there; one that is has a *)
(* time, and most requests have found one.                                 *)
FoundThere ==
  /\ meeting.st = "none" => Attendees(meeting) = {}
  /\ meeting.st # "none" => meeting.slot \in Slots
  /\ \A r \in MeetingRequests :
       mtreq[r].st \in {"update", "respond", "pull", "push", "settle", "handover", "cancel"}
         => meeting.st # "none"

(* An edit keeps the organizer and adds those who were not on the list, a  *)
(* hand-over is to somebody else.                                          *)
SenseOfRequests ==
  \A r \in MeetingRequests :
    /\ Is(r, "update") =>
         mtreq[r].who \notin mtreq[r].removed /\ mtreq[r].added \cap Attendees(mtreq[r].seen) = {}
    /\ Is(r, "handover") => mtreq[r].heir # mtreq[r].whom

(* Whoever is cleaned up after has left, and only one request does it.     *)
LeavesOnce ==
  \A r \in MeetingRequests : mtreq[r].st \in Departing =>
    /\ working[mtreq[r].whom] = "leaving"
    /\ \A o \in MeetingRequests \ {r} :
         mtreq[o].st \in Departing => mtreq[o].whom # mtreq[r].whom

(* How far the clean-up after a departure has come.                        *)
CleanedSoFar ==
  ~passed /\ Open => \A r \in MeetingRequests :
    /\ Is(r, "organized") /\ meeting.organizer # mtreq[r].whom =>
         mtreq[r].whom \notin Attendees(meeting)
    /\ Is(r, "handover") => meeting.organizer = mtreq[r].whom
    /\ Is(r, "tidied") =>
         meeting.organizer # mtreq[r].whom /\ mtreq[r].whom \notin Attendees(meeting)

(* Between the pull and the push of a suggestion there is none.            *)
PulledFirst ==
  ~passed => \A r \in MeetingRequests :
    Is(r, "push") => meeting.proposals[mtreq[r].who] = <<>>

MeetingsInv ==
  /\ MeetingsTyped /\ FoundThere /\ SenseOfRequests /\ LeavesOnce /\ CleanedSoFar
  /\ PulledFirst /\ MeetingsInOrder

LEMMA MeetingRequestShapes ==
  ASSUME NEW q \in MeetingRequestDocs
  PROVE  \/ q = Available
         \/ q.st = "create" /\ q.who \in Invitees /\ q.whom \subseteq Invitees
         \/ /\ q.st = "update" /\ q.who \in Invitees /\ q.slot \in Slots /\ q.from \in Invitees
            /\ q.added \subseteq Invitees /\ q.removed \subseteq Invitees
            /\ q.seen.attendees \in [Invitees -> Responses \cup {"no"}]
         \/ q.st = "respond" /\ q.who \in Invitees /\ q.answer \in Answers /\ q.slot \in Slots
         \/ q.st \in {"pull", "push"} /\ q.who \in Invitees /\ q.slot \in Slots
         \/ q.st \in {"settle", "tidied"} /\ q.whom \in Invitees
         \/ q.st \in {"depart", "uninvite", "organized"} /\ q.whom \in Invitees /\ q.heir \in Invitees
         \/ /\ q.st \in {"handover", "cancel"} /\ q.whom \in Invitees /\ q.heir \in Invitees
            /\ q.seen.attendees \in [Invitees -> Responses \cup {"no"}]
BY DEF MeetingRequestDocs, ReadDocs

LEMMA MeetingsBegin == MeetingsInit => MeetingsInv
<1> SUFFICES ASSUME MeetingsInit PROVE MeetingsInv
  OBVIOUS
<1>1. Available \in MeetingRequestDocs /\ Available.st = "idle"
  BY DEF MeetingRequestDocs, Available
<1>2. \A r \in MeetingRequests : mtreq[r].st = "idle"
  BY <1>1 DEF MeetingsInit
<1>3. meeting \in MeetingDocs
  <2>1. NoProposals \in [Invitees -> Seq(Slots)]
    BY DEF NoProposals
  <2>2. [v \in Invitees |-> "no"] \in [Invitees -> Responses \cup {"no"}]
    OBVIOUS
  <2> QED BY <2>1, <2>2 DEF MeetingsInit, MeetingDocs
<1>4. MeetingsTyped
  BY <1>1, <1>3 DEF MeetingsInit, MeetingsTyped, MeetingsTypeOK
<1>5. FoundThere /\ SenseOfRequests /\ LeavesOnce
  BY <1>2 DEF MeetingsInit, FoundThere, SenseOfRequests, LeavesOnce, Departing, Attendees, Is
<1>6. CleanedSoFar /\ PulledFirst
  BY <1>2 DEF CleanedSoFar, PulledFirst, Is
<1>7. OrganizerAttends /\ AnswersForThisTime /\ NothingWithoutOwner
  BY DEF MeetingsInit, OrganizerAttends, AnswersForThisTime, NothingWithoutOwner, Open
<1>8. OneProposalEach
  <2>1. \A u \in Invitees : meeting.proposals[u] = <<>>
    BY DEF MeetingsInit, NoProposals
  <2> QED BY <2>1 DEF OneProposalEach
<1> QED BY <1>4, <1>5, <1>6, <1>7, <1>8 DEF MeetingsInv, MeetingsInOrder

-----------------------------------------------------------------------------
(* Only what a request knows changes.                                      *)
Learns(r, q) ==
  /\ q.st \in {"update", "respond", "pull", "push", "settle", "handover", "cancel"} =>
       meeting.st # "none"
  /\ q.st = "update" => q.who \notin q.removed /\ q.added \cap Attendees(q.seen) = {}
  /\ q.st = "handover" => q.heir # q.whom /\ meeting.organizer = q.whom
  /\ q.st \in Departing => mtreq[r].st \in Departing /\ q.whom = mtreq[r].whom
  /\ q.st # "push"
  /\ q.st = "organized" /\ ~passed /\ Open =>
       (meeting.organizer # q.whom => q.whom \notin Attendees(meeting))
  /\ q.st = "tidied" /\ ~passed /\ Open =>
       meeting.organizer # q.whom /\ q.whom \notin Attendees(meeting)

LEMMA LearnsInv ==
  ASSUME MeetingsInv, NEW r \in MeetingRequests, NEW q \in MeetingRequestDocs,
         Turn(r, q), OnlyReads, Learns(r, q)
  PROVE  MeetingsInv'
<1>1. /\ mtreq' \in [MeetingRequests -> MeetingRequestDocs] /\ mtreq'[r] = q
      /\ \A x \in MeetingRequests : x # r => mtreq'[x] = mtreq[x]
  BY DEF Turn, MeetingsInv, MeetingsTyped
<1>2. UNCHANGED <<working, meeting, answered, passed>>
  BY DEF OnlyReads
<1>3. MeetingsTyped' /\ MeetingsInOrder'
  BY <1>1, <1>2 DEF MeetingsInv, MeetingsTyped, MeetingsTypeOK, MeetingsInOrder, OrganizerAttends,
     AnswersForThisTime, NothingWithoutOwner, OneProposalEach, Open, Attendees
<1>4. FoundThere'
  BY <1>1, <1>2 DEF MeetingsInv, FoundThere, Attendees, Learns
<1>5. SenseOfRequests'
  BY <1>1, <1>2 DEF MeetingsInv, SenseOfRequests, Learns, Is, Attendees
<1>6. LeavesOnce'
  BY <1>1, <1>2 DEF MeetingsInv, LeavesOnce, Learns
<1>7. CleanedSoFar'
  BY <1>1, <1>2 DEF MeetingsInv, CleanedSoFar, Learns, Is, Open, Attendees
<1>8. PulledFirst'
  BY <1>1, <1>2 DEF MeetingsInv, PulledFirst, Learns, Is
<1> QED BY <1>3, <1>4, <1>5, <1>6, <1>7, <1>8 DEF MeetingsInv

(* What a request makes of the document unless it passes over another.     *)
Fair(r, q, d) ==
  /\ d.organizer \in Attendees(d)
  /\ \A u \in Invitees : Len(d.proposals[u]) <= 1
  /\ \A o \in MeetingRequests \ {r} : Is(o, "push") => d.proposals[mtreq[o].who] = <<>>
  /\ q.st = "push" => d.proposals[q.who] = <<>>
  /\ d.st = "live" =>
       /\ meeting.st # "cancelled"
       /\ \A u \in Invitees : working[u] # "here" =>
            /\ u \in Attendees(d) => Open /\ u \in Attendees(meeting)
            /\ d.organizer = u => Open /\ meeting.organizer = u
       /\ Open /\ d.organizer # meeting.organizer =>
            r \in MeetingRequests /\ Is(r, "handover") /\ mtreq[r].whom = meeting.organizer
       /\ q.st = "organized" /\ d.organizer # q.whom => q.whom \notin Attendees(d)
       /\ q.st = "tidied" => d.organizer # q.whom /\ q.whom \notin Attendees(d)

LEMMA StoresInv ==
  ASSUME MeetingsInv, ~passed, NEW r, NEW q \in MeetingRequestDocs,
         NEW d \in MeetingDocs, Turn(r, q), meeting' = d, UNCHANGED working,
         answered' \in [Invitees -> Slots \cup {NoTime}], passed' \in BOOLEAN,
         d.st # "none", d.slot \in Slots,
         q.st \in {"idle", "settle", "push", "organized", "tidied"},
         q.st \in Departing => mtreq[r].st \in Departing /\ q.whom = mtreq[r].whom,
         AnswersForThisTime',
         ~passed' => Fair(r, q, d)
  PROVE  MeetingsInv'
<1>1. /\ mtreq' \in [MeetingRequests -> MeetingRequestDocs] /\ (r \in MeetingRequests => mtreq'[r] = q)
      /\ \A x \in MeetingRequests : x # r => mtreq'[x] = mtreq[x]
  BY DEF Turn, MeetingsInv, MeetingsTyped
<1>2. MeetingsTyped'
  BY <1>1 DEF MeetingsInv, MeetingsTyped, MeetingsTypeOK
<1>3. FoundThere'
  BY DEF FoundThere, Attendees
<1>4. SenseOfRequests'
  BY <1>1 DEF MeetingsInv, SenseOfRequests, Is, Attendees
<1>5. LeavesOnce'
  BY <1>1 DEF MeetingsInv, LeavesOnce
<1>6. CleanedSoFar'
  <2> SUFFICES ASSUME ~passed', d.st = "live", NEW x \in MeetingRequests
      PROVE  /\ Is(x, "organized")' /\ d.organizer # mtreq'[x].whom =>
                  mtreq'[x].whom \notin Attendees(d)
             /\ Is(x, "handover")' => d.organizer = mtreq'[x].whom
             /\ Is(x, "tidied")' =>
                  d.organizer # mtreq'[x].whom /\ mtreq'[x].whom \notin Attendees(d)
    BY DEF CleanedSoFar, Open, Attendees
  <2>1. CASE x = r
    BY <1>1, <2>1 DEF Fair, Is
  <2>2. CASE x # r
    <3>1. mtreq'[x] = mtreq[x]
      BY <1>1, <2>2
    <3> SUFFICES ASSUME mtreq[x].st \in {"organized", "handover", "tidied"}
        PROVE  /\ Is(x, "organized") /\ d.organizer # mtreq[x].whom =>
                    mtreq[x].whom \notin Attendees(d)
               /\ Is(x, "handover") => d.organizer = mtreq[x].whom
               /\ Is(x, "tidied") =>
                    d.organizer # mtreq[x].whom /\ mtreq[x].whom \notin Attendees(d)
      BY <3>1 DEF Is
    <3>2. PICK u \in Invitees : u = mtreq[x].whom
      BY MeetingRequestShapes DEF MeetingsInv, MeetingsTyped, Available
    <3>3. /\ working[u] # "here"
          /\ r \in MeetingRequests /\ mtreq[r].st \in Departing => mtreq[r].whom # u
      <4>1. mtreq[x].st \in Departing
        BY DEF Departing
      <4> QED BY <2>2, <3>2, <4>1 DEF MeetingsInv, LeavesOnce
    <3>4. /\ u \in Attendees(d) => Open /\ u \in Attendees(meeting)
          /\ d.organizer = u => Open /\ meeting.organizer = u
          /\ Open /\ meeting.organizer = u => d.organizer = u
      BY <3>2, <3>3 DEF Fair, Is, Departing
    <3>5. Is(x, "handover") => Open
      <4>1. meeting.st \in {"none", "live", "cancelled"}
        BY DEF MeetingsInv, MeetingsTyped, MeetingsTypeOK, MeetingDocs
      <4> QED BY <4>1 DEF MeetingsInv, FoundThere, Fair, Is, Open
    <3>6. Open => /\ Is(x, "organized") /\ meeting.organizer # u => u \notin Attendees(meeting)
                  /\ Is(x, "handover") => meeting.organizer = u
                  /\ Is(x, "tidied") => meeting.organizer # u /\ u \notin Attendees(meeting)
      BY <3>2 DEF MeetingsInv, CleanedSoFar
    <3> QED BY <3>2, <3>4, <3>5, <3>6
  <2> QED BY <2>1, <2>2
<1>7. PulledFirst'
  BY <1>1 DEF PulledFirst, Fair, Is
<1>8. OrganizerAttends' /\ OneProposalEach'
  BY DEF OrganizerAttends, OneProposalEach, Attendees, Fair
<1>9. NothingWithoutOwner'
  <2> SUFFICES ASSUME ~passed', d.st = "live", NEW u \in Invitees, working[u] = "away"
      PROVE  d.organizer # u /\ u \notin Attendees(d)
    BY DEF NothingWithoutOwner, Open, Attendees
  <2>1. Open => meeting.organizer # u /\ u \notin Attendees(meeting)
    BY DEF MeetingsInv, MeetingsInOrder, NothingWithoutOwner
  <2> QED BY <2>1 DEF Fair
<1> QED BY <1>2, <1>3, <1>4, <1>5, <1>6, <1>7, <1>8, <1>9 DEF MeetingsInv, MeetingsInOrder

(* Answers that are not renewed belong to the time that stays.             *)
LEMMA StoresAnswers ==
  ASSUME MeetingsInv, ~passed, NEW d \in MeetingDocs, NEW renewed \in SUBSET Invitees,
         Stores(d, renewed), d.slot \in Slots,
         ~passed' /\ d.st = "live" =>
           \A u \in Invitees \ renewed : d.attendees[u] \in Answers =>
             Open /\ meeting.attendees[u] \in Answers /\ d.slot = meeting.slot
  PROVE  /\ meeting' = d /\ UNCHANGED working
         /\ answered' \in [Invitees -> Slots \cup {NoTime}]
         /\ AnswersForThisTime'
<1>1. answered \in [Invitees -> Slots \cup {NoTime}]
  BY DEF MeetingsInv, MeetingsTyped, MeetingsTypeOK
<1>2. answered' \in [Invitees -> Slots \cup {NoTime}]
  BY <1>1 DEF Stores
<1>3. AnswersForThisTime'
  <2> SUFFICES ASSUME ~passed', d.st = "live", NEW u \in Invitees, d.attendees[u] \in Answers
      PROVE  answered'[u] = d.slot
    BY DEF AnswersForThisTime, Open, Stores
  <2>1. answered'[u] = IF u \in renewed THEN d.slot ELSE answered[u]
    BY DEF Stores
  <2>2. CASE u \notin renewed
    BY <2>1, <2>2 DEF MeetingsInv, MeetingsInOrder, AnswersForThisTime
  <2> QED BY <2>1, <2>2
<1> QED BY <1>2, <1>3 DEF Stores

-----------------------------------------------------------------------------
(* The requests, one after the other.                                      *)
LEMMA MeetingTyped ==
  ASSUME MeetingsInv
  PROVE  /\ meeting \in MeetingDocs /\ Available \in MeetingRequestDocs /\ Available.st = "idle"
         /\ meeting.st \in {"none", "live", "cancelled"}
         /\ meeting.attendees \in [Invitees -> Responses \cup {"no"}]
         /\ meeting.proposals \in [Invitees -> Seq(Slots)]
         /\ ReadOf(meeting) \in ReadDocs
         /\ \A r \in MeetingRequests : mtreq[r] \in MeetingRequestDocs
BY DEF MeetingsInv, MeetingsTyped, MeetingsTypeOK, MeetingDocs, MeetingRequestDocs, Available,
   ReadOf, ReadDocs

LEMMA FindToUpdateInv ==
  ASSUME MeetingsInv, NEW r \in MeetingRequests, NEW u \in Invitees, NEW slot \in Slots,
         NEW wanted \in SUBSET Invitees, NEW from \in Invitees,
         FindToUpdate(r, u, slot, wanted, from)
  PROVE  MeetingsInv'
<1>1. PICK added \in SUBSET Invitees, removed \in SUBSET Invitees :
        /\ added = (wanted \cup {u}) \ Attendees(meeting)
        /\ removed = Attendees(meeting) \ (wanted \cup {u})
  BY DEF Attendees
<1>2. PICK q \in MeetingRequestDocs :
        q = [st |-> "update", who |-> u, slot |-> slot, from |-> from,
             added |-> added, removed |-> removed, seen |-> ReadOf(meeting)]
  BY MeetingTyped DEF MeetingRequestDocs
<1>3. Turn(r, q) /\ OnlyReads /\ meeting.st = "live"
  BY <1>1, <1>2 DEF FindToUpdate, Takes, Open
<1>4. Learns(r, q)
  <2>1. Attendees(q.seen) = Attendees(meeting)
    BY <1>2 DEF Attendees, ReadOf
  <2> QED BY <1>1, <1>2, <1>3, <2>1 DEF Learns, Departing
<1> QED BY <1>3, <1>4, LearnsInv

LEMMA AttendingInv ==
  ASSUME MeetingsInv, NEW r \in MeetingRequests, NEW u \in Invitees, Attending(r, u)
  PROVE  MeetingsInv'
<1>1. ASSUME NEW others \in SUBSET Invitees, CheckNewMeeting(r, u, others) PROVE MeetingsInv'
  <2>1. PICK q \in MeetingRequestDocs : q = [st |-> "create", who |-> u, whom |-> others]
    BY DEF MeetingRequestDocs
  <2>2. Turn(r, q) /\ OnlyReads
    BY <1>1, <2>1 DEF CheckNewMeeting, Takes
  <2>3. Learns(r, q)
    BY <2>1 DEF Learns, Departing
  <2> QED BY <2>2, <2>3, LearnsInv
<1>2. ASSUME NEW answer \in Answers, FindToRespond(r, u, answer) PROVE MeetingsInv'
  <2>0. meeting.st = "live" /\ meeting.slot \in Slots
    BY <1>2 DEF FindToRespond, Open, MeetingsInv, FoundThere
  <2>1. PICK q \in MeetingRequestDocs :
          q = [st |-> "respond", who |-> u, answer |-> answer, slot |-> meeting.slot]
    BY <2>0 DEF MeetingRequestDocs
  <2>2. Turn(r, q) /\ OnlyReads
    BY <1>2, <2>1 DEF FindToRespond, Takes
  <2>3. Learns(r, q)
    BY <2>0, <2>1 DEF Learns, Departing
  <2> QED BY <2>2, <2>3, LearnsInv
<1>3. ASSUME NEW slot \in Slots, FindToPropose(r, u, slot) PROVE MeetingsInv'
  <2>1. PICK q \in MeetingRequestDocs : q = [st |-> "pull", who |-> u, slot |-> slot]
    BY DEF MeetingRequestDocs
  <2>2. Turn(r, q) /\ OnlyReads /\ meeting.st = "live"
    BY <1>3, <2>1 DEF FindToPropose, Takes, Open
  <2>3. Learns(r, q)
    BY <2>1, <2>2 DEF Learns, Departing
  <2> QED BY <2>2, <2>3, LearnsInv
<1>4. ASSUME NEW slot \in Slots, NEW wanted \in SUBSET Invitees,
             FindToUpdate(r, u, slot, wanted, u)
      PROVE  MeetingsInv'
  BY <1>4, FindToUpdateInv
<1>5. ASSUME NEW v \in Invitees, AcceptProposal(r, u, v) PROVE MeetingsInv'
  <2>1. PICK slot \in Slots : slot = Head(meeting.proposals[v])
    <3>1. meeting.proposals[v] \in Seq(Slots) /\ meeting.proposals[v] # <<>>
      BY <1>5, MeetingTyped DEF AcceptProposal
    <3> QED BY <3>1
  <2>2. Attendees(meeting) \in SUBSET Invitees
    BY DEF Attendees
  <2> QED BY <1>5, <2>1, <2>2, FindToUpdateInv DEF AcceptProposal
<1>6. ASSUME NEW heir \in Invitees, ChooseHeir(r, u, heir) PROVE MeetingsInv'
  <2>1. PICK q \in MeetingRequestDocs : q = [st |-> "depart", whom |-> u, heir |-> heir]
    BY DEF MeetingRequestDocs
  <2>2. Turn(r, q) /\ OnlyReads
    BY <1>6, <2>1 DEF ChooseHeir, Takes
  <2>3. Learns(r, q)
    BY <2>1 DEF Learns, Departing
  <2> QED BY <2>2, <2>3, LearnsInv
<1> QED BY <1>1, <1>2, <1>3, <1>4, <1>5, <1>6 DEF Attending

LEMMA FindOrganizedInv ==
  ASSUME MeetingsInv, NEW r \in MeetingRequests, FindOrganized(r)
  PROVE  MeetingsInv'
<1>1. /\ mtreq[r].st = "organized" /\ mtreq[r].whom \in Invitees /\ mtreq[r].heir \in Invitees
  BY MeetingTyped, MeetingRequestShapes DEF FindOrganized, Is, Available
<1>2. CASE Open /\ IsOrganizer(mtreq[r].whom)
  <2>1. PICK st \in {"handover", "cancel"} :
          st = IF mtreq[r].heir = mtreq[r].whom THEN "cancel" ELSE "handover"
    OBVIOUS
  <2>2. PICK q \in MeetingRequestDocs :
          q = [st |-> st, whom |-> mtreq[r].whom, heir |-> mtreq[r].heir, seen |-> ReadOf(meeting)]
    BY <1>1, MeetingTyped DEF MeetingRequestDocs
  <2>3. Turn(r, q) /\ OnlyReads
    BY <1>2, <2>1, <2>2 DEF FindOrganized
  <2>4. Learns(r, q)
    BY <1>1, <1>2, <2>1, <2>2 DEF Learns, Departing, Open, IsOrganizer
  <2> QED BY <2>3, <2>4, LearnsInv
<1>3. CASE ~(Open /\ IsOrganizer(mtreq[r].whom))
  <2>1. PICK q \in MeetingRequestDocs : q = [st |-> "tidied", whom |-> mtreq[r].whom]
    BY <1>1 DEF MeetingRequestDocs
  <2>2. Turn(r, q) /\ OnlyReads
    BY <1>3, <2>1 DEF FindOrganized
  <2>3. ~passed /\ Open => /\ meeting.organizer # mtreq[r].whom
                           /\ mtreq[r].whom \notin Attendees(meeting)
    BY <1>1, <1>3 DEF MeetingsInv, CleanedSoFar, Is, IsOrganizer
  <2>4. Learns(r, q)
    BY <1>1, <2>1, <2>3 DEF Learns, Departing
  <2> QED BY <2>2, <2>4, LearnsInv
<1> QED BY <1>2, <1>3

LEMMA MeetingRequestEndsInv ==
  ASSUME MeetingsInv, NEW r \in MeetingRequests, MeetingRequestEnds(r)
  PROVE  MeetingsInv'
<1>1. Learns(r, Available)
  BY MeetingTyped DEF Learns, Departing
<1> QED BY <1>1, MeetingTyped, LearnsInv DEF MeetingRequestEnds

(* Departures change who is here.                                          *)
LEMMA DepartInv ==
  ASSUME MeetingsInv, NEW r \in MeetingRequests, Depart(r)
  PROVE  MeetingsInv'
<1>1. /\ mtreq[r].st = "depart" /\ mtreq[r].whom \in Invitees
      /\ mtreq[r] \in [st : {"depart", "uninvite", "organized"}, whom : Invitees, heir : Invitees]
  BY MeetingTyped DEF Depart, Is, MeetingRequestDocs, Available
<1>2. PICK q \in MeetingRequestDocs : q = [mtreq[r] EXCEPT !.st = "uninvite"]
  <2>1. [mtreq[r] EXCEPT !.st = "uninvite"]
          \in [st : {"depart", "uninvite", "organized"}, whom : Invitees, heir : Invitees]
    BY <1>1
  <2> QED BY <2>1 DEF MeetingRequestDocs
<1>a. q.st = "uninvite" /\ q.whom = mtreq[r].whom
  BY <1>1, <1>2
<1>3. /\ mtreq' \in [MeetingRequests -> MeetingRequestDocs] /\ mtreq'[r] = q
      /\ \A x \in MeetingRequests : x # r => mtreq'[x] = mtreq[x]
  BY <1>2 DEF Depart, Turn, MeetingsInv, MeetingsTyped
<1>4. /\ UNCHANGED <<meeting, answered, passed>> /\ working[q.whom] = "here"
      /\ working' \in [Invitees -> {"here", "leaving", "away"}]
      /\ working'[q.whom] = "leaving"
      /\ \A u \in Invitees : u # q.whom => working'[u] = working[u]
  BY <1>1, <1>a DEF Depart, Here, MeetingsInv, MeetingsTyped, MeetingsTypeOK
<1>5. MeetingsTyped'
  BY <1>3, <1>4 DEF MeetingsInv, MeetingsTyped, MeetingsTypeOK
<1>6. FoundThere' /\ SenseOfRequests' /\ CleanedSoFar' /\ PulledFirst'
  <2>1. FoundThere'
    BY <1>a, <1>3, <1>4 DEF MeetingsInv, FoundThere, Attendees
  <2>2. SenseOfRequests'
    BY <1>a, <1>3, <1>4 DEF MeetingsInv, SenseOfRequests, Is
  <2>3. CleanedSoFar'
    BY <1>a, <1>3, <1>4 DEF MeetingsInv, CleanedSoFar, Is, Open, Attendees
  <2>4. PulledFirst'
    BY <1>a, <1>3, <1>4 DEF MeetingsInv, PulledFirst, Is
  <2> QED BY <2>1, <2>2, <2>3, <2>4
<1>7. LeavesOnce'
  <2>1. \A x \in MeetingRequests \ {r} : mtreq[x].st \in Departing =>
          mtreq[x].whom \in Invitees /\ mtreq[x].whom # q.whom
    <3>1. \A x \in MeetingRequests : mtreq[x].st \in Departing => mtreq[x].whom \in Invitees
      BY MeetingTyped, MeetingRequestShapes DEF Departing, Available
    <3> QED BY <1>4, <3>1 DEF MeetingsInv, LeavesOnce
  <2> QED BY <1>1, <1>a, <1>3, <1>4, <2>1 DEF MeetingsInv, LeavesOnce, Departing
<1>8. MeetingsInOrder'
  BY <1>4 DEF MeetingsInv, MeetingsInOrder, OrganizerAttends,
     AnswersForThisTime, NothingWithoutOwner, OneProposalEach, Open, Attendees
<1> QED BY <1>5, <1>6, <1>7, <1>8 DEF MeetingsInv

LEMMA MeetingsTidiedInv ==
  ASSUME MeetingsInv, NEW r \in MeetingRequests, MeetingsTidied(r)
  PROVE  MeetingsInv'
<1>1. mtreq[r].st = "tidied" /\ mtreq[r].whom \in Invitees
  BY MeetingTyped, MeetingRequestShapes DEF MeetingsTidied, Is, Available
<1>2. PICK u \in Invitees : u = mtreq[r].whom
  BY <1>1
<1>3. /\ mtreq' \in [MeetingRequests -> MeetingRequestDocs] /\ mtreq'[r] = Available
      /\ \A x \in MeetingRequests : x # r => mtreq'[x] = mtreq[x]
  BY MeetingTyped DEF MeetingsTidied, Turn, MeetingsInv, MeetingsTyped
<1>4. /\ UNCHANGED <<meeting, answered, passed>>
      /\ working' \in [Invitees -> {"here", "leaving", "away"}]
      /\ \A v \in Invitees : v # u => working'[v] = working[v]
  BY <1>2 DEF MeetingsTidied, MeetingsInv, MeetingsTyped, MeetingsTypeOK
<1>5. MeetingsTyped'
  BY <1>3, <1>4 DEF MeetingsInv, MeetingsTyped, MeetingsTypeOK
<1>6. FoundThere' /\ SenseOfRequests' /\ CleanedSoFar' /\ PulledFirst'
  <2>1. FoundThere'
    BY <1>3, <1>4, MeetingTyped DEF MeetingsInv, FoundThere, Attendees
  <2>2. SenseOfRequests'
    BY <1>3, <1>4, MeetingTyped DEF MeetingsInv, SenseOfRequests, Is
  <2>3. CleanedSoFar'
    BY <1>3, <1>4, MeetingTyped, ZenonT(60) DEF MeetingsInv, CleanedSoFar, Is, Open, Attendees
  <2>4. PulledFirst'
    BY <1>3, <1>4, MeetingTyped DEF MeetingsInv, PulledFirst, Is
  <2> QED BY <2>1, <2>2, <2>3, <2>4
<1>7. LeavesOnce'
  <2>1. \A x \in MeetingRequests \ {r} : mtreq[x].st \in Departing =>
          mtreq[x].whom \in Invitees /\ mtreq[x].whom # u
    <3>0. mtreq[r].st \in Departing
      BY <1>1 DEF Departing
    <3>1. \A x \in MeetingRequests : mtreq[x].st \in Departing => mtreq[x].whom \in Invitees
      BY MeetingTyped, MeetingRequestShapes DEF Departing, Available
    <3> QED BY <1>2, <3>0, <3>1 DEF MeetingsInv, LeavesOnce
  <2>2. Available.st \notin Departing
    BY MeetingTyped DEF Departing
  <2> QED BY <1>3, <1>4, <2>1, <2>2 DEF MeetingsInv, LeavesOnce
<1>8. NothingWithoutOwner'
  <2>1. ~passed /\ Open => meeting.organizer # u /\ u \notin Attendees(meeting)
    BY <1>1, <1>2 DEF MeetingsInv, CleanedSoFar, Is
  <2> QED BY <1>4, <2>1 DEF MeetingsInv, MeetingsInOrder, NothingWithoutOwner, Open, Attendees
<1>9. OrganizerAttends' /\ AnswersForThisTime' /\ OneProposalEach'
  BY <1>4 DEF MeetingsInv, MeetingsInOrder, OrganizerAttends, AnswersForThisTime,
     OneProposalEach, Open, Attendees
<1> QED BY <1>5, <1>6, <1>7, <1>8, <1>9 DEF MeetingsInv, MeetingsInOrder

-----------------------------------------------------------------------------
(* Whoever writes the document.                                            *)
LEMMA CreateMeetingInv ==
  ASSUME MeetingsInv, ~passed, NEW r \in MeetingRequests, NEW slot \in Slots,
         CreateMeeting(r, slot)
  PROVE  MeetingsInv'
<1>1. mtreq[r].st = "create" /\ mtreq[r].who \in Invitees /\ mtreq[r].whom \subseteq Invitees
  BY MeetingTyped, MeetingRequestShapes DEF CreateMeeting, Is, Available
<1>2. PICK u \in Invitees : u = mtreq[r].who
  BY <1>1
<1>3. PICK list \in [Invitees -> Responses \cup {"no"}] :
        list = [v \in Invitees |-> IF v = mtreq[r].who THEN "accepted"
                                   ELSE IF v \in mtreq[r].whom THEN "pending" ELSE "no"]
  BY DEF Responses, Answers
<1>4. NoProposals \in [Invitees -> Seq(Slots)] /\ \A v \in Invitees : NoProposals[v] = <<>>
  BY DEF NoProposals
<1>a. PICK d \in MeetingDocs :
        d = [st |-> "live", organizer |-> u, slot |-> slot, attendees |-> list,
             proposals |-> NoProposals]
  <2>1. [st |-> "live", organizer |-> u, slot |-> slot, attendees |-> list,
         proposals |-> NoProposals] \in MeetingDocs
    BY <1>4 DEF MeetingDocs
  <2> QED BY <2>1
<1>5. /\ d.st = "live" /\ d.organizer = u /\ d.slot = slot /\ d.attendees = list
      /\ d.proposals = NoProposals
  BY <1>a
<1>6. /\ Stores(d, {u}) /\ Turn(r, Available) /\ meeting.st = "none"
      /\ passed' = (passed \/ ~({u} \cup mtreq[r].whom \subseteq Here))
  BY <1>2, <1>3, <1>a DEF CreateMeeting, Crossed
<1>7. /\ meeting' = d /\ UNCHANGED working
      /\ answered' \in [Invitees -> Slots \cup {NoTime}] /\ AnswersForThisTime'
  <2>1. ~passed' /\ d.st = "live" =>
          \A v \in Invitees \ {u} : d.attendees[v] \in Answers =>
            Open /\ meeting.attendees[v] \in Answers /\ d.slot = meeting.slot
    BY <1>2, <1>3, <1>5 DEF Answers
  <2> QED BY <1>5, <1>6, <2>1, StoresAnswers
<1>8. ~passed' => Fair(r, Available, d)
  <2> SUFFICES ASSUME ~passed' PROVE Fair(r, Available, d)
    OBVIOUS
  <2>1. \A v \in Attendees(d) : v \in Invitees /\ working[v] = "here"
    BY <1>2, <1>3, <1>5, <1>6, ZenonT(60) DEF Attendees, Here
  <2>2. u \in Attendees(d)
    BY <1>2, <1>3, <1>5 DEF Attendees
  <2>3. Available.st = "idle"
    BY MeetingTyped
  <2>4. \A v \in Invitees : d.proposals[v] = <<>>
    BY <1>4, <1>5
  <2>5. \A x \in MeetingRequests : ~Is(x, "push")
    BY <1>6 DEF MeetingsInv, FoundThere, Is
  <2> QED BY <1>5, <1>6, <2>1, <2>2, <2>3, <2>4, <2>5 DEF Fair, Open
<1>9. passed' \in BOOLEAN /\ Available.st \notin Departing
  BY <1>6, MeetingTyped DEF MeetingsInv, MeetingsTyped, Departing
<1> QED BY <1>5, <1>6, <1>7, <1>8, <1>9, MeetingTyped, StoresInv

(* The suggestions alone.                                                  *)
LEMMA ProposalsInv ==
  ASSUME MeetingsInv, ~passed, NEW r, NEW q \in MeetingRequestDocs, Turn(r, q),
         NEW ps \in [Invitees -> Seq(Slots)], Stores([meeting EXCEPT !.proposals = ps], {}),
         meeting.st # "none", passed' \in BOOLEAN, q.st \in {"idle", "settle", "push"},
         ~passed' =>
           /\ \A u \in Invitees : Len(ps[u]) <= 1
           /\ \A o \in MeetingRequests \ {r} : Is(o, "push") => ps[mtreq[o].who] = <<>>
           /\ q.st = "push" => ps[q.who] = <<>>
  PROVE  MeetingsInv'
<1>1. PICK d \in MeetingDocs : d = [meeting EXCEPT !.proposals = ps]
  <2>1. [meeting EXCEPT !.proposals = ps] \in MeetingDocs
    BY MeetingTyped DEF MeetingDocs
  <2> QED BY <2>1
<1>2. /\ d.st = meeting.st /\ d.organizer = meeting.organizer /\ d.slot = meeting.slot
      /\ d.attendees = meeting.attendees /\ d.proposals = ps
  BY <1>1, MeetingTyped DEF MeetingDocs
<1>3. d.slot \in Slots /\ d.st # "none"
  BY <1>2 DEF MeetingsInv, FoundThere
<1>4. /\ meeting' = d /\ UNCHANGED working
      /\ answered' \in [Invitees -> Slots \cup {NoTime}] /\ AnswersForThisTime'
  <2>1. Stores(d, {}) /\ {} \in SUBSET Invitees
    BY <1>1
  <2> QED BY <1>2, <1>3, <2>1, StoresAnswers DEF Open
<1>5. ~passed' => Fair(r, q, d)
  <2>1. Attendees(d) = Attendees(meeting)
    BY <1>2 DEF Attendees
  <2>2. meeting.organizer \in Attendees(meeting)
    BY <1>2, <1>3 DEF MeetingsInv, MeetingsInOrder, OrganizerAttends
  <2> QED BY <1>2, <2>1, <2>2 DEF Fair, Open
<1>6. q.st \notin Departing
  BY DEF Departing
<1> QED BY <1>3, <1>4, <1>5, <1>6, StoresInv

LEMMA WithdrawInv ==
  ASSUME MeetingsInv, ~passed, NEW r, NEW q \in MeetingRequestDocs, Turn(r, q),
         NEW u \in Invitees, Stores(WithoutProposals(meeting, u), {}),
         meeting.st # "none", UNCHANGED passed,
         \/ q.st \in {"idle", "settle"}
         \/ q.st = "push" /\ q.who = u
  PROVE  MeetingsInv'
<1>1. PICK ps \in [Invitees -> Seq(Slots)] : ps = [meeting.proposals EXCEPT ![u] = <<>>]
  <2>1. [meeting.proposals EXCEPT ![u] = <<>>] \in [Invitees -> Seq(Slots)]
    BY MeetingTyped
  <2> QED BY <2>1
<1>2. Stores([meeting EXCEPT !.proposals = ps], {})
  BY <1>1 DEF WithoutProposals
<1>3. ps[u] = <<>> /\ \A v \in Invitees : v # u => ps[v] = meeting.proposals[v]
  BY <1>1, MeetingTyped
<1>4. /\ \A v \in Invitees : Len(ps[v]) <= 1
      /\ q.st = "push" => ps[q.who] = <<>>
  BY <1>3 DEF MeetingsInv, MeetingsInOrder, OneProposalEach
<1>5. \A o \in MeetingRequests : Is(o, "push") => ps[mtreq[o].who] = <<>>
  <2> SUFFICES ASSUME NEW o \in MeetingRequests, Is(o, "push") PROVE ps[mtreq[o].who] = <<>>
    OBVIOUS
  <2>1. mtreq[o].who \in Invitees
    BY MeetingTyped, MeetingRequestShapes DEF Is, Available
  <2>2. meeting.proposals[mtreq[o].who] = <<>>
    BY DEF MeetingsInv, PulledFirst
  <2> QED BY <1>3, <2>1, <2>2
<1>6. passed' \in BOOLEAN
  BY DEF MeetingsInv, MeetingsTyped
<1> QED BY <1>2, <1>4, <1>5, <1>6, ProposalsInv

LEMMA PullProposalInv ==
  ASSUME MeetingsInv, ~passed, NEW r \in MeetingRequests, PullProposal(r)
  PROVE  MeetingsInv'
<1>1. mtreq[r].st = "pull" /\ mtreq[r] \in [st : {"pull", "push"}, who : Invitees, slot : Slots]
  BY MeetingTyped DEF PullProposal, Is, MeetingRequestDocs, Available
<1>2. PICK q \in MeetingRequestDocs : q = [mtreq[r] EXCEPT !.st = "push"]
  <2>1. [mtreq[r] EXCEPT !.st = "push"] \in [st : {"pull", "push"}, who : Invitees, slot : Slots]
    BY <1>1
  <2> QED BY <2>1 DEF MeetingRequestDocs
<1>3. q.st = "push" /\ q.who = mtreq[r].who /\ mtreq[r].who \in Invitees
  BY <1>1, <1>2
<1>4. /\ Stores(WithoutProposals(meeting, mtreq[r].who), {}) /\ Turn(r, q)
      /\ UNCHANGED passed
  BY <1>2 DEF PullProposal
<1>5. meeting.st # "none"
  BY <1>1 DEF MeetingsInv, FoundThere
<1> QED BY <1>3, <1>4, <1>5, WithdrawInv

LEMMA SettleProposalInv ==
  ASSUME MeetingsInv, ~passed, NEW r \in MeetingRequests, SettleProposal(r)
  PROVE  MeetingsInv'
<1>1. mtreq[r].st = "settle" /\ mtreq[r].whom \in Invitees
  BY MeetingTyped, MeetingRequestShapes DEF SettleProposal, Is, Available
<1>2. meeting.st # "none"
  BY <1>1 DEF MeetingsInv, FoundThere
<1> QED BY <1>1, <1>2, MeetingTyped, WithdrawInv DEF SettleProposal

LEMMA PushProposalInv ==
  ASSUME MeetingsInv, ~passed, NEW r \in MeetingRequests, PushProposal(r)
  PROVE  MeetingsInv'
<1>1. mtreq[r].st = "push" /\ mtreq[r].who \in Invitees /\ mtreq[r].slot \in Slots
  BY MeetingTyped, MeetingRequestShapes DEF PushProposal, Is, Available
<1>2. PICK u \in Invitees : u = mtreq[r].who
  BY <1>1
<1>3. meeting.proposals[u] = <<>> /\ meeting.st # "none"
  BY <1>1, <1>2 DEF MeetingsInv, PulledFirst, FoundThere, Is
<1>4. PICK new \in Seq(Slots) : new = Append(meeting.proposals[u], mtreq[r].slot)
  <2>1. Append(meeting.proposals[u], mtreq[r].slot) \in Seq(Slots)
    BY <1>1, MeetingTyped
  <2> QED BY <2>1
<1>5. Len(new) <= 1
  BY <1>1, <1>3, <1>4
<1>6. PICK ps \in [Invitees -> Seq(Slots)] : ps = [meeting.proposals EXCEPT ![u] = new]
  <2>1. [meeting.proposals EXCEPT ![u] = new] \in [Invitees -> Seq(Slots)]
    BY MeetingTyped
  <2> QED BY <2>1
<1>7. Stores([meeting EXCEPT !.proposals = ps], {})
  <2>1. Stores([meeting EXCEPT !.proposals[u] = Append(@, mtreq[r].slot)], {})
    BY <1>2 DEF PushProposal
  <2>2. [meeting EXCEPT !.proposals[u] = Append(@, mtreq[r].slot)]
          = [meeting EXCEPT !.proposals[u] = new]
    BY <1>4
  <2> QED BY <1>6, <2>1, <2>2
<1>8. ps[u] = new /\ \A v \in Invitees : v # u => ps[v] = meeting.proposals[v]
  BY <1>6, MeetingTyped
<1>9. \A v \in Invitees : Len(ps[v]) <= 1
  BY <1>5, <1>8 DEF MeetingsInv, MeetingsInOrder, OneProposalEach
<1>10. ~passed' => \A o \in MeetingRequests \ {r} : Is(o, "push") => ps[mtreq[o].who] = <<>>
  <2> SUFFICES ASSUME ~passed', NEW o \in MeetingRequests \ {r}, Is(o, "push")
      PROVE  ps[mtreq[o].who] = <<>>
    OBVIOUS
  <2>1. mtreq[o].who \in Invitees
    BY MeetingTyped, MeetingRequestShapes DEF Is, Available
  <2>2. meeting.proposals[mtreq[o].who] = <<>>
    BY DEF MeetingsInv, PulledFirst
  <2>3. mtreq[o].who # u
    BY <1>2 DEF PushProposal, Crossed
  <2> QED BY <1>8, <2>1, <2>2, <2>3
<1>11. passed' \in BOOLEAN /\ Turn(r, Available)
  BY DEF PushProposal, Crossed, MeetingsInv, MeetingsTyped
<1>12. Available \in MeetingRequestDocs /\ Available.st = "idle"
  BY MeetingTyped
<1> QED BY <1>3, <1>7, <1>9, <1>10, <1>11, <1>12, ProposalsInv

LEMMA DismissProposalInv ==
  ASSUME MeetingsInv, ~passed, NEW u \in Invitees, NEW v \in Invitees, DismissProposal(u, v)
  PROVE  MeetingsInv'
<1>1. PICK r : r \notin MeetingRequests
  BY NoSetContainsEverything
<1>2. Turn(r, Available)
  BY <1>1 DEF DismissProposal, Turn, MeetingsInv, MeetingsTyped
<1>3. meeting.st # "none"
  BY DEF DismissProposal, RequireVisible
<1> QED BY <1>2, <1>3, MeetingTyped, WithdrawInv DEF DismissProposal

LEMMA CancelledInv ==
  ASSUME MeetingsInv, ~passed, NEW r, NEW q \in MeetingRequestDocs, Turn(r, q),
         Stores([meeting EXCEPT !.st = "cancelled"], {}), UNCHANGED passed,
         meeting.st # "none", q.st \in {"idle", "tidied"},
         q.st \in Departing => mtreq[r].st \in Departing /\ q.whom = mtreq[r].whom
  PROVE  MeetingsInv'
<1>1. PICK d \in MeetingDocs : d = [meeting EXCEPT !.st = "cancelled"]
  <2>1. [meeting EXCEPT !.st = "cancelled"] \in MeetingDocs
    BY MeetingTyped DEF MeetingDocs
  <2> QED BY <2>1
<1>2. /\ d.st = "cancelled" /\ d.organizer = meeting.organizer /\ d.slot = meeting.slot
      /\ d.attendees = meeting.attendees /\ d.proposals = meeting.proposals
  BY <1>1, MeetingTyped DEF MeetingDocs
<1>3. d.slot \in Slots
  BY <1>2 DEF MeetingsInv, FoundThere
<1>4. /\ meeting' = d /\ UNCHANGED working
      /\ answered' \in [Invitees -> Slots \cup {NoTime}] /\ AnswersForThisTime'
  <2>1. Stores(d, {}) /\ {} \in SUBSET Invitees
    BY <1>1
  <2> QED BY <1>2, <1>3, <2>1, StoresAnswers
<1>5. Fair(r, q, d)
  <2>1. meeting.organizer \in Attendees(meeting)
    BY DEF MeetingsInv, MeetingsInOrder, OrganizerAttends
  <2>2. /\ \A u \in Invitees : Len(meeting.proposals[u]) <= 1
        /\ \A o \in MeetingRequests \ {r} :
             Is(o, "push") => meeting.proposals[mtreq[o].who] = <<>>
    BY DEF MeetingsInv, MeetingsInOrder, OneProposalEach, PulledFirst
  <2> QED BY <1>2, <2>1, <2>2 DEF Fair, Attendees
<1>6. passed' \in BOOLEAN
  BY DEF MeetingsInv, MeetingsTyped
<1> QED BY <1>2, <1>3, <1>4, <1>5, <1>6, StoresInv

LEMMA CancelMeetingInv ==
  ASSUME MeetingsInv, ~passed, NEW u \in Invitees, CancelMeeting(u)
  PROVE  MeetingsInv'
<1>1. PICK r : r \notin MeetingRequests
  BY NoSetContainsEverything
<1>2. Turn(r, Available)
  BY <1>1 DEF CancelMeeting, Turn, MeetingsInv, MeetingsTyped
<1>3. meeting.st # "none" /\ UNCHANGED passed /\ Stores([meeting EXCEPT !.st = "cancelled"], {})
  BY DEF CancelMeeting, RequireVisible
<1>4. Available \in MeetingRequestDocs /\ Available.st = "idle" /\ Available.st \notin Departing
  BY MeetingTyped DEF Departing
<1> QED BY <1>2, <1>3, <1>4, CancelledInv

LEMMA CancelOrganizedInv ==
  ASSUME MeetingsInv, ~passed, NEW r \in MeetingRequests, CancelOrganized(r)
  PROVE  MeetingsInv'
<1>1. mtreq[r].st = "cancel" /\ mtreq[r].whom \in Invitees
  BY MeetingTyped, MeetingRequestShapes DEF CancelOrganized, Is, Available
<1>2. PICK q \in MeetingRequestDocs : q = [st |-> "tidied", whom |-> mtreq[r].whom]
  BY <1>1 DEF MeetingRequestDocs
<1>3. meeting.st # "none"
  BY <1>1 DEF MeetingsInv, FoundThere
<1>4. q.st = "tidied" /\ q.whom = mtreq[r].whom /\ mtreq[r].st \in Departing
  BY <1>1, <1>2 DEF Departing
<1>5. Turn(r, q) /\ UNCHANGED passed /\ Stores([meeting EXCEPT !.st = "cancelled"], {})
  BY <1>2 DEF CancelOrganized
<1> QED BY <1>3, <1>4, <1>5, CancelledInv

LEMMA UninviteInv ==
  ASSUME MeetingsInv, ~passed, NEW r \in MeetingRequests, Uninvite(r)
  PROVE  MeetingsInv'
<1>1. /\ mtreq[r].st = "uninvite" /\ mtreq[r].whom \in Invitees
      /\ mtreq[r] \in [st : {"depart", "uninvite", "organized"}, whom : Invitees, heir : Invitees]
  BY MeetingTyped DEF Uninvite, Is, MeetingRequestDocs, Available
<1>2. PICK q \in MeetingRequestDocs : q = [mtreq[r] EXCEPT !.st = "organized"]
  <2>1. [mtreq[r] EXCEPT !.st = "organized"]
          \in [st : {"depart", "uninvite", "organized"}, whom : Invitees, heir : Invitees]
    BY <1>1
  <2> QED BY <2>1 DEF MeetingRequestDocs
<1>3. PICK u \in Invitees : u = mtreq[r].whom
  BY <1>1
<1>4. q.st = "organized" /\ q.whom = u
  BY <1>1, <1>2, <1>3
<1>5. Turn(r, q) /\ UNCHANGED passed /\ mtreq[r].st \in Departing
  BY <1>1, <1>2 DEF Uninvite, Departing
<1>6. CASE ~(Open /\ ~IsOrganizer(u))
  <2>1. OnlyReads
    BY <1>3, <1>6 DEF Uninvite, OnlyReads
  <2>2. Learns(r, q)
    BY <1>3, <1>4, <1>5, <1>6 DEF Learns, IsOrganizer
  <2> QED BY <1>5, <2>1, <2>2, LearnsInv
<1>7. CASE Open /\ ~IsOrganizer(u)
  <2>1. PICK ps \in [Invitees -> Seq(Slots)], list \in [Invitees -> Responses \cup {"no"}] :
          /\ ps = [meeting.proposals EXCEPT ![u] = <<>>]
          /\ list = [meeting.attendees EXCEPT ![u] = "no"]
    <3>1. [meeting.proposals EXCEPT ![u] = <<>>] \in [Invitees -> Seq(Slots)]
      BY MeetingTyped
    <3>2. [meeting.attendees EXCEPT ![u] = "no"] \in [Invitees -> Responses \cup {"no"}]
      BY MeetingTyped
    <3> QED BY <3>1, <3>2
  <2>2. PICK d \in MeetingDocs : d = [meeting EXCEPT !.proposals = ps, !.attendees = list]
    <3>1. [meeting EXCEPT !.proposals = ps, !.attendees = list] \in MeetingDocs
      BY MeetingTyped DEF MeetingDocs
    <3> QED BY <3>1
  <2>3. /\ d.st = meeting.st /\ d.organizer = meeting.organizer /\ d.slot = meeting.slot
        /\ d.attendees = list /\ d.proposals = ps
    BY <2>2, MeetingTyped DEF MeetingDocs
  <2>4. Stores(d, {}) /\ {} \in SUBSET Invitees
    <3>1. [WithoutProposals(meeting, u) EXCEPT !.attendees[u] = "no"] = d
      BY <2>1, <2>2, MeetingTyped DEF WithoutProposals, MeetingDocs
    <3>2. Stores([WithoutProposals(meeting, u) EXCEPT !.attendees[u] = "no"], {})
      BY <1>3, <1>7 DEF Uninvite
    <3> QED BY <3>1, <3>2
  <2>5. /\ list[u] = "no" /\ ps[u] = <<>>
        /\ \A v \in Invitees : v # u => list[v] = meeting.attendees[v] /\ ps[v] = meeting.proposals[v]
    BY <2>1, MeetingTyped
  <2>6. d.st = "live" /\ d.st # "none" /\ d.slot \in Slots
    BY <1>7, <2>3 DEF MeetingsInv, FoundThere, Open
  <2>7. /\ meeting' = d /\ UNCHANGED working
        /\ answered' \in [Invitees -> Slots \cup {NoTime}] /\ AnswersForThisTime'
    <3>1. "no" \notin Answers
      BY DEF Answers
    <3> QED BY <1>7, <2>3, <2>4, <2>5, <2>6, <3>1, StoresAnswers
  <2>8. Fair(r, q, d)
    <3>1. d.organizer \in Attendees(d)
      BY <1>7, <2>3, <2>5, <2>6 DEF MeetingsInv, MeetingsInOrder, OrganizerAttends, Attendees, IsOrganizer
    <3>2. \A v \in Invitees : Len(ps[v]) <= 1
      <4>1. \A v \in Invitees : Len(meeting.proposals[v]) <= 1
        BY DEF MeetingsInv, MeetingsInOrder, OneProposalEach
      <4>2. Len(ps[u]) <= 1
        BY <2>5
      <4> QED BY <2>5, <4>1, <4>2
    <3>3. \A o \in MeetingRequests : Is(o, "push") => ps[mtreq[o].who] = <<>>
      <4> SUFFICES ASSUME NEW o \in MeetingRequests, Is(o, "push") PROVE ps[mtreq[o].who] = <<>>
        OBVIOUS
      <4>1. mtreq[o].who \in Invitees
        BY MeetingTyped, MeetingRequestShapes DEF Is, Available
      <4>2. meeting.proposals[mtreq[o].who] = <<>>
        BY DEF MeetingsInv, PulledFirst
      <4> QED BY <2>5, <4>1, <4>2
    <3>4. u \notin Attendees(d) /\ Attendees(d) \subseteq Attendees(meeting)
      BY <2>3, <2>5 DEF Attendees
    <3> QED BY <1>4, <1>7, <2>3, <3>1, <3>2, <3>3, <3>4 DEF Fair, Open
  <2>9. passed' \in BOOLEAN
    BY <1>5 DEF MeetingsInv, MeetingsTyped
  <2> QED BY <1>3, <1>4, <1>5, <2>6, <2>7, <2>8, <2>9, StoresInv
<1> QED BY <1>6, <1>7

LEMMA HandOverInv ==
  ASSUME MeetingsInv, ~passed, NEW r \in MeetingRequests, HandOver(r)
  PROVE  MeetingsInv'
<1>1. /\ mtreq[r].st = "handover" /\ mtreq[r].whom \in Invitees /\ mtreq[r].heir \in Invitees
      /\ mtreq[r].seen.attendees \in [Invitees -> Responses \cup {"no"}]
  BY MeetingTyped, MeetingRequestShapes DEF HandOver, Is, Available
<1>2. PICK u \in Invitees, heir \in Invitees, seen \in [Invitees -> Responses \cup {"no"}] :
        u = mtreq[r].whom /\ heir = mtreq[r].heir /\ seen = mtreq[r].seen.attendees
  BY <1>1
<1>3. u # heir
  BY <1>1, <1>2 DEF MeetingsInv, SenseOfRequests, Is
<1>4. PICK list \in [Invitees -> Responses \cup {"no"}] :
        list = IF heir \notin Attendees(mtreq[r].seen)
               THEN [[seen EXCEPT ![u] = "no"] EXCEPT ![heir] = "accepted"]
               ELSE [seen EXCEPT ![u] = "no"]
  <2>1. [seen EXCEPT ![u] = "no"] \in [Invitees -> Responses \cup {"no"}]
    OBVIOUS
  <2>2. [[seen EXCEPT ![u] = "no"] EXCEPT ![heir] = "accepted"]
          \in [Invitees -> Responses \cup {"no"}]
    BY <2>1 DEF Responses, Answers
  <2> QED BY <2>1, <2>2
<1>5. /\ list[u] = "no" /\ list[heir] # "no"
      /\ seen[heir] # "no" => list[heir] = seen[heir]
      /\ \A v \in Invitees : v # u /\ v # heir => list[v] = seen[v]
  <2>1. heir \notin Attendees(mtreq[r].seen) <=> seen[heir] = "no"
    BY <1>2 DEF Attendees
  <2>2. /\ [seen EXCEPT ![u] = "no"] \in [Invitees -> Responses \cup {"no"}]
        /\ \A v \in Invitees : [seen EXCEPT ![u] = "no"][v] = IF v = u THEN "no" ELSE seen[v]
    OBVIOUS
  <2>3. CASE seen[heir] = "no"
    BY <1>3, <1>4, <2>1, <2>2, <2>3
  <2>4. CASE seen[heir] # "no"
    BY <1>3, <1>4, <2>1, <2>2, <2>4
  <2> QED BY <2>3, <2>4
<1>6. NoProposals \in [Invitees -> Seq(Slots)] /\ \A v \in Invitees : NoProposals[v] = <<>>
  BY DEF NoProposals
<1>7. PICK d \in MeetingDocs :
        d = [meeting EXCEPT !.organizer = heir, !.attendees = list, !.proposals = NoProposals]
  <2>1. [meeting EXCEPT !.organizer = heir, !.attendees = list, !.proposals = NoProposals]
          \in MeetingDocs
    BY <1>6, MeetingTyped DEF MeetingDocs
  <2> QED BY <2>1
<1>8. /\ d.st = meeting.st /\ d.organizer = heir /\ d.slot = meeting.slot
      /\ d.attendees = list /\ d.proposals = NoProposals
  BY <1>7, MeetingTyped DEF MeetingDocs
<1>9. PICK q \in MeetingRequestDocs : q = [st |-> "tidied", whom |-> u]
  BY DEF MeetingRequestDocs
<1>10. PICK renewed \in SUBSET Invitees :
         renewed = IF heir \notin Attendees(mtreq[r].seen) THEN {heir} ELSE {}
  OBVIOUS
<1>11. /\ Stores(d, renewed) /\ Turn(r, q)
       /\ passed' = (passed \/ meeting.attendees # seen \/ heir \notin Here)
  <2>1. /\ Stores([meeting EXCEPT !.organizer = heir, !.attendees = list,
                                  !.proposals = NoProposals], renewed)
        /\ Turn(r, [st |-> "tidied", whom |-> u])
        /\ Crossed(meeting.attendees # seen \/ heir \notin Here)
    BY <1>2, <1>4, <1>10 DEF HandOver
  <2> QED BY <1>7, <1>9, <2>1 DEF Crossed
<1>12. d.st # "none" /\ d.slot \in Slots
  BY <1>1, <1>8 DEF MeetingsInv, FoundThere
<1>13. /\ meeting' = d /\ UNCHANGED working
       /\ answered' \in [Invitees -> Slots \cup {NoTime}] /\ AnswersForThisTime'
  <2>1. ~passed' /\ d.st = "live" =>
          \A v \in Invitees \ renewed : d.attendees[v] \in Answers =>
            Open /\ meeting.attendees[v] \in Answers /\ d.slot = meeting.slot
    <3> SUFFICES ASSUME ~passed', d.st = "live", NEW v \in Invitees \ renewed, list[v] \in Answers
        PROVE  meeting.attendees[v] \in Answers
      BY <1>8 DEF Open
    <3>1. meeting.attendees = seen
      BY <1>11
    <3>2. v = heir => seen[heir] # "no"
      BY <1>2, <1>10 DEF Attendees
    <3>3. v # u
      BY <1>5 DEF Answers
    <3> QED BY <1>5, <3>1, <3>2, <3>3
  <2> QED BY <1>11, <1>12, <2>1, StoresAnswers
<1>14. q.st = "tidied" /\ q.whom = u /\ mtreq[r].st \in Departing
  BY <1>1, <1>9 DEF Departing
<1>15. ~passed' => Fair(r, q, d)
  <2> SUFFICES ASSUME ~passed' PROVE Fair(r, q, d)
    OBVIOUS
  <2>1. meeting.attendees = seen /\ working[heir] = "here"
    BY <1>11 DEF Here
  <2>2. heir \in Attendees(d) /\ u \notin Attendees(d)
    BY <1>5, <1>8 DEF Attendees
  <2>3. \A v \in Attendees(d) : v \in Attendees(meeting) \/ v = heir
    BY <1>5, <1>8, <2>1 DEF Attendees
  <2>4. \A v \in Invitees : Len(d.proposals[v]) <= 1
    BY <1>6, <1>8
  <2>5. \A o \in MeetingRequests : Is(o, "push") => d.proposals[mtreq[o].who] = <<>>
    BY <1>6, <1>8, MeetingTyped, MeetingRequestShapes DEF Is, Available
  <2>6. d.st = "live" => Open /\ meeting.organizer = u
    BY <1>1, <1>2, <1>8 DEF MeetingsInv, CleanedSoFar, Open, Is
  <2> QED BY <1>1, <1>2, <1>3, <1>8, <1>14, <2>1, <2>2, <2>3, <2>4, <2>5, <2>6 DEF Fair, Is, Open
<1>16. passed' \in BOOLEAN
  BY <1>11 DEF MeetingsInv, MeetingsTyped
<1> QED BY <1>2, <1>11, <1>12, <1>13, <1>14, <1>15, <1>16, StoresInv

LEMMA UpdateMeetingInv ==
  ASSUME MeetingsInv, ~passed, NEW r \in MeetingRequests, UpdateMeeting(r)
  PROVE  MeetingsInv'
<1>1. /\ mtreq[r].st = "update" /\ mtreq[r].who \in Invitees /\ mtreq[r].slot \in Slots
      /\ mtreq[r].from \in Invitees
      /\ mtreq[r].added \subseteq Invitees /\ mtreq[r].removed \subseteq Invitees
      /\ mtreq[r].seen.attendees \in [Invitees -> Responses \cup {"no"}]
  BY MeetingTyped, MeetingRequestShapes DEF UpdateMeeting, Is, Available
<1>2. PICK u \in Invitees, seen \in [Invitees -> Responses \cup {"no"}] :
        u = mtreq[r].who /\ seen = mtreq[r].seen.attendees
  BY <1>1
<1>3. u \notin mtreq[r].removed /\ meeting.st # "none"
  BY <1>1, <1>2 DEF MeetingsInv, SenseOfRequests, FoundThere, Is
<1>4. PICK moves \in BOOLEAN : moves = (mtreq[r].slot # mtreq[r].seen.slot)
  OBVIOUS
<1>5. PICK list \in [Invitees -> Responses \cup {"no"}] : list = Edited(mtreq[r])
  <2>1. Edited(mtreq[r]) \in [Invitees -> Responses \cup {"no"}]
    BY <1>1 DEF Edited, Responses
  <2> QED BY <2>1
<1>6. \A v \in Invitees :
        list[v] = IF v \in mtreq[r].removed THEN "no"
                  ELSE IF v \in mtreq[r].added THEN "pending"
                  ELSE IF seen[v] = "no" \/ v = u \/ ~moves THEN seen[v] ELSE "pending"
  BY <1>2, <1>4, <1>5 DEF Edited
<1>7. PICK slot \in Slots : slot = IF moves THEN mtreq[r].slot ELSE meeting.slot
  BY <1>1, <1>3 DEF MeetingsInv, FoundThere
<1>8. PICK ps \in [Invitees -> Seq(Slots)] : ps = IF moves THEN NoProposals ELSE meeting.proposals
  <2>1. NoProposals \in [Invitees -> Seq(Slots)]
    BY DEF NoProposals
  <2> QED BY <2>1, MeetingTyped
<1>9. PICK d \in MeetingDocs :
        d = [meeting EXCEPT !.attendees = list, !.slot = slot, !.proposals = ps]
  <2>1. [meeting EXCEPT !.attendees = list, !.slot = slot, !.proposals = ps] \in MeetingDocs
    BY MeetingTyped DEF MeetingDocs
  <2> QED BY <2>1
<1>10. /\ d.st = meeting.st /\ d.organizer = meeting.organizer /\ d.slot = slot
       /\ d.attendees = list /\ d.proposals = ps
  BY <1>9, MeetingTyped DEF MeetingDocs
<1>11. PICK renewed \in SUBSET Invitees : renewed = IF moves THEN {u} ELSE {}
  OBVIOUS
<1>12. PICK q \in MeetingRequestDocs :
         q = IF mtreq[r].from = u THEN Available ELSE [st |-> "settle", whom |-> mtreq[r].from]
  <2>1. [st |-> "settle", whom |-> mtreq[r].from] \in MeetingRequestDocs
    BY <1>1 DEF MeetingRequestDocs
  <2> QED BY <2>1, MeetingTyped
<1>13. q.st \in {"idle", "settle"} /\ q.st \notin Departing
  <2>1. q.st \in {"idle", "settle"}
    BY <1>12, MeetingTyped
  <2> QED BY <2>1 DEF Departing
<1>14. /\ Stores(d, renewed) /\ Turn(r, q)
       /\ passed' = (passed \/ \/ meeting.attendees # seen
                               \/ meeting.slot # mtreq[r].seen.slot
                               \/ meeting.organizer # u
                               \/ ~(mtreq[r].added \subseteq Here))
  <2>1. /\ Stores([meeting EXCEPT !.attendees = list,
                                  !.slot = IF moves THEN mtreq[r].slot ELSE @,
                                  !.proposals = IF moves THEN NoProposals ELSE @], renewed)
        /\ Turn(r, q)
        /\ Crossed(\/ meeting.attendees # seen
                   \/ meeting.slot # mtreq[r].seen.slot
                   \/ meeting.organizer # u
                   \/ ~(mtreq[r].added \subseteq Here))
    BY <1>2, <1>4, <1>5, <1>11, <1>12 DEF UpdateMeeting
  <2>2. d = [meeting EXCEPT !.attendees = list,
                            !.slot = IF moves THEN mtreq[r].slot ELSE @,
                            !.proposals = IF moves THEN NoProposals ELSE @]
    BY <1>7, <1>8, <1>9
  <2> QED BY <2>1, <2>2 DEF Crossed
<1>15. /\ meeting' = d /\ UNCHANGED working
       /\ answered' \in [Invitees -> Slots \cup {NoTime}] /\ AnswersForThisTime'
  <2>1. ~passed' /\ d.st = "live" =>
          \A v \in Invitees \ renewed : d.attendees[v] \in Answers =>
            Open /\ meeting.attendees[v] \in Answers /\ d.slot = meeting.slot
    <3> SUFFICES ASSUME ~passed', d.st = "live", NEW v \in Invitees \ renewed, list[v] \in Answers
        PROVE  meeting.attendees[v] \in Answers /\ slot = meeting.slot
      BY <1>10 DEF Open
    <3>1. meeting.attendees = seen
      BY <1>14
    <3>2. "no" \notin Answers /\ "pending" \notin Answers
      BY DEF Answers
    <3>3. v \in Invitees /\ (moves => v # u)
      BY <1>11
    <3>4. list[v] = seen[v] /\ ~moves
      BY <1>6, <3>2, <3>3
    <3> QED BY <1>7, <3>1, <3>4
  <2> QED BY <1>10, <1>14, <2>1, StoresAnswers
<1>16. ~passed' => Fair(r, q, d)
  <2> SUFFICES ASSUME ~passed' PROVE Fair(r, q, d)
    OBVIOUS
  <2>1. /\ meeting.attendees = seen /\ meeting.organizer = u
        /\ \A v \in mtreq[r].added : working[v] = "here"
    BY <1>14 DEF Here
  <2>2. u \in Attendees(d)
    <3>1. seen[u] # "no"
      BY <1>3, <2>1 DEF MeetingsInv, MeetingsInOrder, OrganizerAttends, Attendees
    <3>2. list[u] # "no"
      BY <1>3, <1>6, <3>1
    <3> QED BY <1>10, <3>2 DEF Attendees
  <2>3. \A v \in Attendees(d) : v \in Attendees(meeting) \/ working[v] = "here"
    BY <1>6, <1>10, <2>1 DEF Attendees
  <2>4. \A v \in Invitees : Len(ps[v]) <= 1
    <3>1. \A v \in Invitees : Len(meeting.proposals[v]) <= 1
      BY DEF MeetingsInv, MeetingsInOrder, OneProposalEach
    <3>2. \A v \in Invitees : Len(NoProposals[v]) <= 1
      BY DEF NoProposals
    <3> QED BY <1>8, <3>1, <3>2
  <2>5. \A o \in MeetingRequests : Is(o, "push") => ps[mtreq[o].who] = <<>>
    <3> SUFFICES ASSUME NEW o \in MeetingRequests, Is(o, "push") PROVE ps[mtreq[o].who] = <<>>
      OBVIOUS
    <3>1. mtreq[o].who \in Invitees
      BY MeetingTyped, MeetingRequestShapes DEF Is, Available
    <3>2. meeting.proposals[mtreq[o].who] = <<>> /\ NoProposals[mtreq[o].who] = <<>>
      BY <3>1 DEF MeetingsInv, PulledFirst, NoProposals
    <3> QED BY <1>8, <3>2
  <2>6. d.st = "live" => Open
    BY <1>10 DEF Open
  <2> QED BY <1>10, <1>13, <2>1, <2>2, <2>3, <2>4, <2>5, <2>6 DEF Fair, Open
<1>17. passed' \in BOOLEAN
  BY <1>14 DEF MeetingsInv, MeetingsTyped
<1> QED BY <1>3, <1>10, <1>13, <1>14, <1>15, <1>16, <1>17, StoresInv

LEMMA RespondInv ==
  ASSUME MeetingsInv, ~passed, NEW r \in MeetingRequests, RespondToMeeting(r)
  PROVE  MeetingsInv'
<1>1. /\ mtreq[r].st = "respond" /\ mtreq[r].who \in Invitees /\ mtreq[r].answer \in Answers
      /\ mtreq[r].slot \in Slots
  BY MeetingTyped, MeetingRequestShapes DEF RespondToMeeting, Is, Available
<1>2. PICK u \in Invitees : u = mtreq[r].who
  BY <1>1
<1>3. meeting.st # "none" /\ meeting.slot \in Slots
  BY <1>1 DEF MeetingsInv, FoundThere
<1>4. PICK list \in [Invitees -> Responses \cup {"no"}] :
        list = IF u \in Attendees(meeting)
               THEN [meeting.attendees EXCEPT ![u] = mtreq[r].answer] ELSE meeting.attendees
  <2>1. [meeting.attendees EXCEPT ![u] = mtreq[r].answer] \in [Invitees -> Responses \cup {"no"}]
    BY <1>1, MeetingTyped DEF Responses
  <2> QED BY <2>1, MeetingTyped
<1>5. PICK d \in MeetingDocs : d = [meeting EXCEPT !.attendees = list]
  <2>1. [meeting EXCEPT !.attendees = list] \in MeetingDocs
    BY MeetingTyped DEF MeetingDocs
  <2> QED BY <2>1
<1>6. /\ d.st = meeting.st /\ d.organizer = meeting.organizer /\ d.slot = meeting.slot
      /\ d.attendees = list /\ d.proposals = meeting.proposals
  BY <1>5, MeetingTyped DEF MeetingDocs
<1>7. /\ meeting' = d /\ UNCHANGED working /\ Turn(r, Available)
      /\ passed' = (passed \/ meeting.slot # mtreq[r].slot)
      /\ answered' = IF u \in Attendees(meeting) THEN [answered EXCEPT ![u] = mtreq[r].slot]
                     ELSE answered
  <2>1. [meeting EXCEPT !.attendees = meeting.attendees] = meeting
    BY MeetingTyped DEF MeetingDocs
  <2>2. CASE u \in Attendees(meeting)
    BY <1>2, <1>4, <1>5, <2>2 DEF RespondToMeeting, Crossed
  <2>3. CASE u \notin Attendees(meeting)
    BY <1>2, <1>4, <1>5, <2>1, <2>3 DEF RespondToMeeting, Crossed
  <2> QED BY <2>2, <2>3
<1>8. answered \in [Invitees -> Slots \cup {NoTime}]
  BY DEF MeetingsInv, MeetingsTyped, MeetingsTypeOK
<1>9. answered' \in [Invitees -> Slots \cup {NoTime}]
  BY <1>1, <1>7, <1>8
<1>10. AnswersForThisTime'
  <2> SUFFICES ASSUME ~passed', d.st = "live", NEW v \in Invitees, list[v] \in Answers
      PROVE  answered'[v] = meeting.slot
    BY <1>6, <1>7 DEF AnswersForThisTime, Open
  <2>1. meeting.attendees[v] \in Answers => answered[v] = meeting.slot
    BY <1>6 DEF MeetingsInv, MeetingsInOrder, AnswersForThisTime, Open
  <2>2. CASE v = u /\ u \in Attendees(meeting)
    BY <1>7, <1>8, <2>2
  <2>3. CASE ~(v = u /\ u \in Attendees(meeting))
    BY <1>4, <1>7, <1>8, <2>1, <2>3, MeetingTyped
  <2> QED BY <2>2, <2>3
<1>11. Attendees(d) = Attendees(meeting)
  <2>1. "no" \notin Answers
    BY DEF Answers
  <2>2. \A v \in Invitees : list[v] # "no" <=> meeting.attendees[v] # "no"
    <3>1. CASE u \in Attendees(meeting)
      BY <1>1, <1>4, <2>1, <3>1, MeetingTyped DEF Attendees
    <3>2. CASE u \notin Attendees(meeting)
      BY <1>4, <3>2
    <3> QED BY <3>1, <3>2
  <2> QED BY <1>6, <2>2 DEF Attendees
<1>12. Fair(r, Available, d)
  <2>1. meeting.organizer \in Attendees(meeting)
    BY <1>3 DEF MeetingsInv, MeetingsInOrder, OrganizerAttends
  <2>2. /\ \A v \in Invitees : Len(meeting.proposals[v]) <= 1
        /\ \A o \in MeetingRequests \ {r} :
             Is(o, "push") => meeting.proposals[mtreq[o].who] = <<>>
    BY DEF MeetingsInv, MeetingsInOrder, OneProposalEach, PulledFirst
  <2>3. Available.st = "idle"
    BY MeetingTyped
  <2> QED BY <1>6, <1>11, <2>1, <2>2, <2>3 DEF Fair, Open
<1>13. passed' \in BOOLEAN /\ Available \in MeetingRequestDocs /\ Available.st = "idle"
  BY <1>7, MeetingTyped DEF MeetingsInv, MeetingsTyped
<1>14. Available.st \notin Departing
  BY <1>13 DEF Departing
<1> QED BY <1>3, <1>6, <1>7, <1>9, <1>10, <1>12, <1>13, <1>14, StoresInv

LEMMA MeetingsInductive == MeetingsInv /\ [MeetingsNext]_meetingVars => MeetingsInv'
<1> SUFFICES ASSUME MeetingsInv, [MeetingsNext]_meetingVars PROVE MeetingsInv'
  OBVIOUS
<1>1. CASE UNCHANGED meetingVars
  BY <1>1 DEF meetingVars, MeetingsInv, MeetingsTyped, MeetingsTypeOK, FoundThere, SenseOfRequests,
     LeavesOnce, CleanedSoFar, PulledFirst, MeetingsInOrder, OrganizerAttends,
     AnswersForThisTime, NothingWithoutOwner, OneProposalEach, Open, Attendees, Is
<1>2. CASE MeetingsNext
  <2>1. ~passed /\ MeetingStep
    BY <1>2 DEF MeetingsNext
  <2>2. ASSUME NEW r \in MeetingRequests, NEW u \in Invitees, Attending(r, u) PROVE MeetingsInv'
    BY <2>2, AttendingInv
  <2>3. ASSUME NEW r \in MeetingRequests, NEW slot \in Slots, CreateMeeting(r, slot)
        PROVE  MeetingsInv'
    BY <2>1, <2>3, CreateMeetingInv
  <2>4. ASSUME NEW r \in MeetingRequests,
               UpdateMeeting(r) \/ RespondToMeeting(r) \/ PullProposal(r) \/ PushProposal(r)
                 \/ SettleProposal(r)
        PROVE  MeetingsInv'
    BY <2>1, <2>4, UpdateMeetingInv, RespondInv, PullProposalInv, PushProposalInv, SettleProposalInv
  <2>5. ASSUME NEW r \in MeetingRequests,
               Depart(r) \/ Uninvite(r) \/ FindOrganized(r) \/ HandOver(r) \/ CancelOrganized(r)
                 \/ MeetingsTidied(r) \/ MeetingRequestEnds(r)
        PROVE  MeetingsInv'
    BY <2>1, <2>5, DepartInv, UninviteInv, FindOrganizedInv, HandOverInv, CancelOrganizedInv,
       MeetingsTidiedInv, MeetingRequestEndsInv
  <2>6. ASSUME NEW u \in Invitees,
               CancelMeeting(u) \/ \E v \in Invitees : DismissProposal(u, v)
        PROVE  MeetingsInv'
    BY <2>1, <2>6, CancelMeetingInv, DismissProposalInv
  <2> QED BY <2>1, <2>2, <2>3, <2>4, <2>5, <2>6 DEF MeetingStep
<1> QED BY <1>1, <1>2

(* The meeting document, its answers and whoever takes part have the types *)
(* of the schema.                                                          *)
THEOREM MeetingsTypeCorrect == MeetingsSpec => []MeetingsTypeOK
<1>1. MeetingsInv => MeetingsTypeOK
  BY DEF MeetingsInv, MeetingsTyped
<1> QED BY <1>1, MeetingsBegin, MeetingsInductive, PTL DEF MeetingsSpec

(* A meeting has an organizer who attends it, every answer on record was   *)
(* given for the time it has, a person has one suggestion, and nothing is  *)
(* left with whoever has gone: edits, answers, suggestions and departures  *)
(* of any number of people, until a write passes over another.             *)
THEOREM MeetingsKeptInOrder == MeetingsSpec => []MeetingsInOrder
<1>1. MeetingsInv => MeetingsInOrder
  BY DEF MeetingsInv
<1> QED BY <1>1, MeetingsBegin, MeetingsInductive, PTL DEF MeetingsSpec

-----------------------------------------------------------------------------
(* Whose answer changes, and by what.                                      *)
AsBefore == meeting'.attendees = meeting.attendees

LEMMA AnswerKeptByRequests ==
  ASSUME MeetingsInv, ~passed, NEW r \in MeetingRequests,
         \/ UpdateMeeting(r) \/ RespondToMeeting(r) \/ Uninvite(r) \/ HandOver(r)
  PROVE  AnswerKept
<1> SUFFICES ASSUME ~passed', NEW u \in Invitees, meeting.attendees[u] \in Answers,
                    meeting'.attendees[u] # meeting.attendees[u]
    PROVE  \/ Is(r, "respond") /\ mtreq[r].who = u
           \/ mtreq[r].st \in {"uninvite", "handover"} /\ mtreq[r].whom = u
           \/ Is(r, "update") /\ (u \in mtreq[r].removed \/ meeting'.slot # meeting.slot)
  BY DEF AnswerKept
<1>0. /\ meeting \in MeetingDocs /\ meeting.attendees \in [Invitees -> Responses \cup {"no"}]
      /\ meeting.attendees[u] # "no"
  BY MeetingTyped DEF Answers
<1>1. CASE UpdateMeeting(r)
  <2>1. mtreq[r].st = "update"
    BY <1>1 DEF UpdateMeeting, Is
  <2>2. /\ meeting.attendees = mtreq[r].seen.attendees /\ meeting.slot = mtreq[r].seen.slot
        /\ meeting'.attendees = Edited(mtreq[r])
        /\ mtreq[r].slot # mtreq[r].seen.slot => meeting'.slot = mtreq[r].slot
    <3>1. PICK slot, ps :
            /\ meeting' = [meeting EXCEPT !.attendees = Edited(mtreq[r]), !.slot = slot,
                                          !.proposals = ps]
            /\ mtreq[r].slot # mtreq[r].seen.slot => slot = mtreq[r].slot
      BY <1>1 DEF UpdateMeeting, Stores
    <3>2. meeting.attendees = mtreq[r].seen.attendees /\ meeting.slot = mtreq[r].seen.slot
      BY <1>1 DEF UpdateMeeting, Crossed
    <3> QED BY <1>0, <3>1, <3>2 DEF MeetingDocs
  <2>3. u \notin mtreq[r].added
    <3>1. mtreq[r].added \cap Attendees(mtreq[r].seen) = {}
      BY <2>1 DEF MeetingsInv, SenseOfRequests, Is
    <3> QED BY <1>0, <2>2, <3>1 DEF Attendees
  <2>4. u \in mtreq[r].removed \/ mtreq[r].slot # mtreq[r].seen.slot
    BY <2>2, <2>3 DEF Edited
  <2> QED BY <2>1, <2>2, <2>4 DEF Is
<1>2. CASE RespondToMeeting(r)
  <2>1. mtreq[r].st = "respond"
    BY <1>2 DEF RespondToMeeting, Is
  <2>2. meeting' = meeting \/ meeting' = [meeting EXCEPT !.attendees[mtreq[r].who] = mtreq[r].answer]
    BY <1>2 DEF RespondToMeeting
  <2>3. mtreq[r].who = u
    BY <1>0, <2>2 DEF MeetingDocs
  <2> QED BY <2>1, <2>3 DEF Is
<1>3. CASE Uninvite(r)
  <2>1. mtreq[r].st = "uninvite"
    BY <1>3 DEF Uninvite, Is
  <2>2. \/ meeting' = meeting
        \/ meeting' = [WithoutProposals(meeting, mtreq[r].whom)
                         EXCEPT !.attendees[mtreq[r].whom] = "no"]
    BY <1>3 DEF Uninvite, Stores
  <2>3. WithoutProposals(meeting, mtreq[r].whom) \in
          [st : {"none", "live", "cancelled"}, organizer : Invitees \cup {NoOne},
           slot : Slots \cup {NoTime}, attendees : [Invitees -> Responses \cup {"no"}],
           proposals : {[meeting.proposals EXCEPT ![mtreq[r].whom] = <<>>]}]
    BY <1>0 DEF MeetingDocs, WithoutProposals
  <2>4. WithoutProposals(meeting, mtreq[r].whom).attendees = meeting.attendees
    BY <1>0 DEF MeetingDocs, WithoutProposals
  <2>5. mtreq[r].whom = u
    BY <1>0, <2>2, <2>3, <2>4
  <2> QED BY <2>1, <2>5
<1>4. CASE HandOver(r)
  <2>1. mtreq[r].st = "handover"
    BY <1>4 DEF HandOver, Is
  <2>2. PICK list :
          /\ list = IF mtreq[r].heir \notin Attendees(mtreq[r].seen)
                    THEN [[mtreq[r].seen.attendees EXCEPT ![mtreq[r].whom] = "no"]
                            EXCEPT ![mtreq[r].heir] = "accepted"]
                    ELSE [mtreq[r].seen.attendees EXCEPT ![mtreq[r].whom] = "no"]
          /\ meeting' = [meeting EXCEPT !.organizer = mtreq[r].heir, !.attendees = list,
                                        !.proposals = NoProposals]
    BY <1>4 DEF HandOver, Stores
  <2>3. meeting.attendees = mtreq[r].seen.attendees
    BY <1>4 DEF HandOver, Crossed
  <2>4. meeting'.attendees = list
    BY <1>0, <2>2 DEF MeetingDocs
  <2>5. u \in Attendees(mtreq[r].seen)
    BY <1>0, <2>3 DEF Attendees
  <2>6. mtreq[r].whom = u
    BY <1>0, <2>2, <2>3, <2>4, <2>5
  <2> QED BY <2>1, <2>6
<1> QED BY <1>1, <1>2, <1>3, <1>4

LEMMA AnswerKeptByOthers ==
  ASSUME MeetingsInv, MeetingStep, ~passed,
         \A r \in MeetingRequests :
           ~(UpdateMeeting(r) \/ RespondToMeeting(r) \/ Uninvite(r) \/ HandOver(r))
  PROVE  AnswerKept
<1>0. meeting \in MeetingDocs
  BY MeetingTyped
<1>1. ASSUME NEW r \in MeetingRequests, NEW slot \in Slots, CreateMeeting(r, slot)
      PROVE  AnswerKept
  <2>1. \A u \in Invitees : meeting.attendees[u] = "no"
    BY <1>1 DEF CreateMeeting, MeetingsInv, FoundThere, Attendees
  <2> QED BY <2>1 DEF AnswerKept, Answers
<1>2. ASSUME UNCHANGED meeting PROVE AnswerKept
  BY <1>2 DEF AnswerKept
<1>3. ASSUME AsBefore PROVE AnswerKept
  BY <1>3 DEF AnswerKept, AsBefore
<1>4. ASSUME NEW r \in MeetingRequests, NEW u \in Invitees, Attending(r, u)
      PROVE  UNCHANGED meeting
  BY <1>4 DEF Attending, CheckNewMeeting, FindToRespond, FindToPropose, FindToUpdate,
     AcceptProposal, ChooseHeir, OnlyReads
<1>5. ASSUME NEW r \in MeetingRequests,
             Depart(r) \/ FindOrganized(r) \/ MeetingsTidied(r) \/ MeetingRequestEnds(r)
      PROVE  UNCHANGED meeting
  BY <1>5 DEF Depart, FindOrganized, MeetingsTidied, MeetingRequestEnds, OnlyReads
<1>6. ASSUME NEW r \in MeetingRequests,
             PullProposal(r) \/ PushProposal(r) \/ SettleProposal(r) \/ CancelOrganized(r)
      PROVE  AsBefore
  BY <1>0, <1>6 DEF PullProposal, PushProposal, SettleProposal, CancelOrganized, Stores,
     WithoutProposals, MeetingDocs, AsBefore
<1>7. ASSUME NEW u \in Invitees,
             CancelMeeting(u) \/ \E v \in Invitees : DismissProposal(u, v)
      PROVE  AsBefore
  BY <1>0, <1>7 DEF CancelMeeting, DismissProposal, Stores, WithoutProposals, MeetingDocs, AsBefore
<1> QED BY <1>1, <1>2, <1>3, <1>4, <1>5, <1>6, <1>7 DEF MeetingStep

(* An answer stays until that person answers again or leaves, or the       *)
(* organizer moves the meeting or takes the person off the list.           *)
THEOREM AnswersStay == MeetingsSpec => AnswerStays
<1>1. MeetingsInv /\ [MeetingsNext]_meetingVars => [AnswerKept]_meetingVars
  <2> SUFFICES ASSUME MeetingsInv, MeetingsNext PROVE AnswerKept
    OBVIOUS
  <2>1. ~passed /\ MeetingStep
    BY DEF MeetingsNext
  <2>2. CASE \E r \in MeetingRequests :
               UpdateMeeting(r) \/ RespondToMeeting(r) \/ Uninvite(r) \/ HandOver(r)
    BY <2>1, <2>2, AnswerKeptByRequests
  <2> QED BY <2>1, <2>2, AnswerKeptByOthers
<1> QED BY <1>1, MeetingsBegin, MeetingsInductive, PTL DEF MeetingsSpec, AnswerStays

-----------------------------------------------------------------------------
(* Groups and meetings beside each other.                                  *)
LEMMA PeopleBegin ==
  ASSUME PeopleInit
  PROVE  GroupsInv /\ MeetingsInv
BY GroupsBegin, MeetingsBegin DEF PeopleInit

LEMMA PeopleStep ==
  ASSUME GroupsInv /\ MeetingsInv, [PeopleNext]_<<groupVars, meetingVars>>
  PROVE  (GroupsInv /\ MeetingsInv)'
<1>1. [GroupsNext]_groupVars /\ [MeetingsNext]_meetingVars
  BY DEF PeopleNext
<1> QED BY <1>1, GroupsStep, MeetingsInductive

(* The documents of groups and meetings have their types, whatever is done *)
(* to the others meanwhile.                                                *)
THEOREM PeopleTypeCorrect == PeopleSpec => []PeopleTypeOK
<1>1. GroupsInv /\ MeetingsInv => PeopleTypeOK
  BY DEF GroupsInv, GroupsTyped, MeetingsInv, MeetingsTyped, PeopleTypeOK
<1> QED BY <1>1, PeopleBegin, PeopleStep, PTL DEF PeopleSpec
=============================================================================
