---------------------------- MODULE SeatsProofs ----------------------------
(***************************************************************************)
(* The seats of workspaces, proved for any number of organizations,        *)
(* accounts, invites and requests.                                         *)
(*                                                                         *)
(* A request that runs has read a snapshot and will write some documents.  *)
(* The invariant says of each that its writes would leave the documents in *)
(* order were they committed now, and that an organization it does not     *)
(* write gains a member only for a pending invite. Two requests that write *)
(* no document in common commute, so a commit leaves the writes of the     *)
(* others sound; those that share one with it run again.                   *)
(***************************************************************************)
EXTENDS Seats, FiniteSetTheorems, TLAPS

-----------------------------------------------------------------------------
(* Documents in order.                                                     *)

Typed(d) ==
  /\ d = [x \in Docs |-> d[x]]
  /\ \A x \in Docs : DocOK(x, d[x])

OrgInOrder(d, o) ==
  /\ d[o].life = "live" =>
       /\ d[o].seatsUsed = SeatsTaken(d, o)
       /\ d[o].adminCount = Cardinality(Admins(d, o))
       /\ Admins(d, o) # {}
  /\ d[o].life # "live" => Members(d, o) = {} /\ Pending(d, o) = {}

(* An account that is still to be made is a member nowhere.                *)
NotYetIn(d, u) == d[u].life = "none" => \A o \in Orgs : d[<<o, u>>] = "none"

InOrder(d) ==
  /\ Typed(d)
  /\ \A o \in Orgs : OrgInOrder(d, o)
  /\ \A u \in Users : NotYetIn(d, u)

(* From d to e: who joins o, and which invites to o stop being pending.    *)
Joining(d, e, o) == Members(e, o) \ Members(d, o)
Closing(d, e, o) == Pending(d, o) \ Pending(e, o)

(* One member for one invite, or nothing: what may happen to o without its *)
(* counters.                                                               *)
Uncounted(d, e, o) ==
  /\ Members(d, o) \subseteq Members(e, o)
  /\ Admins(d, o) = Admins(e, o)
  /\ Pending(e, o) \subseteq Pending(d, o)
  /\ \/ Joining(d, e, o) = {} /\ Closing(d, e, o) = {}
     \/ \E u \in Users, i \in Invites : Joining(d, e, o) = {u} /\ Closing(d, e, o) = {i}

(* What no step may do to an organization that lives.                      *)
Counted(d, e, o) ==
  d[o].life = "live" =>
    /\ e[o].seatsUsed > d[o].seatsUsed => e[o].seatsUsed <= e[o].seatLimit
    /\ Joining(d, e, o) # {} =>
         /\ Pending(e, o) \subseteq Pending(d, o)
         /\ \E i \in Invites : Closing(d, e, o) = {i}

InviteKept(d, e, i) ==
  d[i].status \notin {"none", "pending"} => e[i].status \in {d[i].status, "gone"}

Changed(d, e) == {x \in Docs : e[x] # d[x]}

(* A step from d to e that writes the documents T.                         *)
Step(d, e, T) ==
  /\ InOrder(e)
  /\ \A o \in Orgs : o \notin T => Uncounted(d, e, o)
  /\ \A o \in Orgs : Counted(d, e, o)
  /\ \A i \in Invites : InviteKept(d, e, i)
  /\ \A u \in Users : u \in T => e[u].life # "none"

Sound(d, w) ==
  /\ DOMAIN w \subseteq Docs
  /\ Step(d, Apply(d, w), DOMAIN w)

(* What a request knows.                                                   *)
Known(d, chk) ==
  /\ chk.st = "checked"
  /\ chk.op = "signup" => chk.email \in Emails /\ chk.doc \in RegistrationDocs
  /\ chk.op \in {"answerInvite", "changeEmail", "createOrg", "deleteAccount"} =>
       chk.who \in Users /\ d[chk.who].life # "none"
  /\ chk.op = "answerInvite" => chk.doc \in Invites
  /\ chk.op = "changeEmail" => chk.doc \in Emails
  /\ chk.op = "createOrg" => chk.doc \in Orgs

RequestOK(d, q) ==
  \/ q = Idle
  \/ Known(d, q)
  \/ /\ q.st = "running"
     /\ q.chk = Idle \/ Known(d, q.chk)
     /\ Sound(d, q.writes)

Pendings(d) == {i \in Invites : d[i].status = "pending"}

SeatsInv ==
  /\ InOrder(db)
  /\ overdue \subseteq Pendings(db)
  /\ req = [r \in Requests |-> req[r]]
  /\ \A r \in Requests : RequestOK(db, req[r])

-----------------------------------------------------------------------------
(* The sets of ids have nothing in common.                                 *)
LEMMA Apart ==
  /\ \A o \in Orgs : o \in Docs /\ o \notin Users /\ o \notin Emails
                     /\ o \notin Invites /\ o \notin Orgs \X Users
  /\ \A u \in Users : u \in Docs /\ u \notin Orgs /\ u \notin Emails
                      /\ u \notin Invites /\ u \notin Orgs \X Users
  /\ \A e \in Emails : e \in Docs /\ e \notin Orgs /\ e \notin Users
                       /\ e \notin Invites /\ e \notin Orgs \X Users
  /\ \A i \in Invites : i \in Docs /\ i \notin Orgs /\ i \notin Users
                        /\ i \notin Emails /\ i \notin Orgs \X Users
  /\ \A o \in Orgs, u \in Users :
       /\ <<o, u>> \in Docs /\ <<o, u>> \notin Orgs /\ <<o, u>> \notin Users
       /\ <<o, u>> \notin Emails /\ <<o, u>> \notin Invites
       /\ <<o, u>> \in Orgs \X Users
  BY SeatsAssumption DEF SeatsAssumption, Docs

LEMMA Pairs ==
  \A o, p \in Orgs, u, v \in Users : <<o, u>> = <<p, v>> => o = p /\ u = v
  OBVIOUS

(* What the documents are.                                                 *)
LEMMA Types ==
  ASSUME NEW d, Typed(d)
  PROVE  /\ \A o \in Orgs : d[o] \in OrgDocs
         /\ \A i \in Invites : d[i] \in InviteDocs
         /\ \A u \in Users : d[u] \in UserDocs
         /\ \A e \in Emails : d[e] \in RegistrationDocs
         /\ \A o \in Orgs, u \in Users : d[<<o, u>>] \in MemberDocs
  BY Apart DEF Typed, DocOK

(* One document is replaced by another of its type.                        *)
Put(d, e, x, doc) == e[x] = doc /\ \A y \in Docs : y # x => e[y] = d[y]

LEMMA PutIs ==
  ASSUME NEW d, Typed(d), NEW x \in Docs, NEW doc, DocOK(x, doc)
  PROVE  Typed([d EXCEPT ![x] = doc]) /\ Put(d, [d EXCEPT ![x] = doc], x, doc)
  BY DEF Typed, Put

(* $inc moves the counters of one organization.                            *)
Moved(d, e, o, s, a) ==
  /\ \A x \in Docs : x # o => e[x] = d[x]
  /\ e[o].life = d[o].life
  /\ e[o].seatLimit = d[o].seatLimit
  /\ e[o].seatsUsed = d[o].seatsUsed + s
  /\ e[o].adminCount = d[o].adminCount + a

LEMMA CountIs ==
  ASSUME NEW d, Typed(d), NEW o \in Orgs, NEW s \in Int, NEW a \in Int
  PROVE  Typed(Count(d, o, s, a)) /\ Moved(d, Count(d, o, s, a), o, s, a)
<1> DEFINE e == Count(d, o, s, a)
<1>1. o \in Docs /\ d[o] \in OrgDocs /\ d = [x \in Docs |-> d[x]]
  BY Apart, Types DEF Typed
<1>2. e = [x \in Docs |-> e[x]] /\ \A x \in Docs : x # o => e[x] = d[x]
  BY <1>1 DEF Count
<1>3. PICK D \in OrgDocs : D = d[o]
  BY <1>1
<1>4. PICK F : F = [life |-> D.life, seatLimit |-> D.seatLimit,
                     seatsUsed |-> D.seatsUsed + s, adminCount |-> D.adminCount + a]
  OBVIOUS
<1>5. e[o] = F
  BY <1>1, <1>3, <1>4 DEF Count, OrgDocs
<1>6. /\ F \in OrgDocs
      /\ F.life = D.life /\ F.seatLimit = D.seatLimit
      /\ F.seatsUsed = D.seatsUsed + s /\ F.adminCount = D.adminCount + a
  BY <1>3, <1>4 DEF OrgDocs
<1>7. \A x \in Docs : DocOK(x, e[x])
  BY <1>2, <1>5, <1>6, Apart DEF DocOK, Typed
<1> HIDE DEF e
<1>8. Typed(e) /\ Moved(d, e, o, s, a)
  BY <1>1, <1>2, <1>3, <1>5, <1>6, <1>7 DEF Typed, Moved
<1> QED BY <1>8 DEF e

(* updateMany of invites gives them a status and leaves the rest.          *)
InviteStatuses ==
  {"none", "pending", "accepted", "declined", "revoked", "expired", "gone"}

GaveStatus(d, e, S, status) ==
  /\ \A x \in Docs : x \notin S => e[x] = d[x]
  /\ \A i \in S : e[i].status = status /\ e[i].role = d[i].role

LEMMA SetStatusIs ==
  ASSUME NEW d, Typed(d), NEW S \in SUBSET Invites, NEW status \in InviteStatuses
  PROVE  /\ Typed(SetStatus(d, S, status))
         /\ GaveStatus(d, SetStatus(d, S, status), S, status)
<1> DEFINE e == SetStatus(d, S, status)
<1>1. \A i \in S : i \in Docs /\ d[i] \in InviteDocs /\ e[i] = [d[i] EXCEPT !.status = status]
  BY Apart, Types DEF SetStatus
<1>2. \A i \in S : e[i].status = status /\ e[i].role = d[i].role /\ e[i] \in InviteDocs
  BY <1>1 DEF InviteDocs, InviteStatuses
<1>3. e = [x \in Docs |-> e[x]] /\ \A x \in Docs : x \notin S => e[x] = d[x]
  BY DEF SetStatus
<1>4. \A x \in Docs : DocOK(x, e[x])
  BY <1>2, <1>3, Apart DEF Typed, DocOK
<1> QED BY <1>2, <1>3, <1>4 DEF Typed, GaveStatus

(* Who is in an organization, and who is invited, depends on the documents *)
(* of its members and invites.                                             *)
LEMMA SameMembers ==
  ASSUME NEW d, NEW e, NEW o \in Orgs,
         \A u \in Users : e[<<o, u>>] = d[<<o, u>>]
  PROVE  Members(e, o) = Members(d, o) /\ Admins(e, o) = Admins(d, o)
  BY DEF Members, Admins

LEMMA SamePending ==
  ASSUME NEW d, NEW e, NEW o \in Orgs,
         \A i \in Invites : OrgOf[i] = o => e[i].status = d[i].status
  PROVE  Pending(e, o) = Pending(d, o)
  BY DEF Pending

(* The number of elements of small differences.                            *)
LEMMA Finite ==
  ASSUME NEW d, NEW o
  PROVE  /\ IsFiniteSet(Members(d, o)) /\ IsFiniteSet(Admins(d, o)) /\ IsFiniteSet(Pending(d, o))
         /\ Cardinality(Members(d, o)) \in Nat
         /\ Cardinality(Admins(d, o)) \in Nat
         /\ Cardinality(Pending(d, o)) \in Nat
<1>1. Members(d, o) \subseteq Users /\ Admins(d, o) \subseteq Users
      /\ Pending(d, o) \subseteq Invites
  BY DEF Members, Admins, Pending
<1>2. IsFiniteSet(Users) /\ IsFiniteSet(Invites)
  BY SeatsAssumption DEF SeatsAssumption
<1> QED BY <1>1, <1>2, FS_Subset, FS_CardinalityType

LEMMA Plus ==
  ASSUME NEW S, IsFiniteSet(S), NEW x, x \notin S
  PROVE  Cardinality(S \cup {x}) = Cardinality(S) + 1
  BY FS_AddElement

LEMMA Minus ==
  ASSUME NEW S, IsFiniteSet(S), NEW x \in S
  PROVE  Cardinality(S \ {x}) = Cardinality(S) - 1
  BY FS_RemoveElement

LEMMA Less ==
  ASSUME NEW S, IsFiniteSet(S), NEW T, T \subseteq S
  PROVE  Cardinality(S \ T) = Cardinality(S) - Cardinality(T)
<1>1. IsFiniteSet(T) /\ S \cap T = T
  BY FS_Subset
<1> QED BY <1>1, FS_Difference

-----------------------------------------------------------------------------
(* Steps.                                                                  *)

LEMMA WritesIs ==
  ASSUME Typed(db), NEW e, Typed(e), NEW docs, docs \subseteq Docs,
         NEW w, w = Writes(e, docs)
  PROVE  /\ DOMAIN w = docs \cup Changed(db, e)
         /\ DOMAIN w \subseteq Docs
         /\ Apply(db, w) = e
<1>1. DOMAIN w = docs \cup Changed(db, e) /\ \A x \in DOMAIN w : w[x] = e[x]
  BY DEF Writes, Changed
<1>2. \A x \in Docs : (IF x \in DOMAIN w THEN w[x] ELSE db[x]) = e[x]
  BY <1>1 DEF Changed
<1>3. e = [x \in Docs |-> e[x]]
  BY DEF Typed
<1>4. Apply(db, w) = e
  BY <1>2, <1>3 DEF Apply
<1> QED BY <1>1, <1>4 DEF Changed

LEMMA ApplyIs ==
  ASSUME NEW d, NEW w
  PROVE  /\ Apply(d, w) = [x \in Docs |-> Apply(d, w)[x]]
         /\ \A x \in Docs : x \in DOMAIN w => Apply(d, w)[x] = w[x]
         /\ \A x \in Docs : x \notin DOMAIN w => Apply(d, w)[x] = d[x]
  BY DEF Apply

(* What the writes of a request that ran are.                              *)
LEMMA BeginSound ==
  ASSUME Typed(db), NEW docs, docs \subseteq Docs, NEW e,
         Step(db, e, docs \cup Changed(db, e))
  PROVE  Sound(db, Writes(e, docs))
<1>1. Typed(e)
  BY DEF Step, InOrder
<1> DEFINE w == Writes(e, docs)
<1>2. /\ DOMAIN w = docs \cup Changed(db, e)
      /\ DOMAIN w \subseteq Docs
      /\ Apply(db, w) = e
  BY <1>1, WritesIs
<1> QED BY <1>2 DEF Sound

(* An organization in order stays so when one member comes for one invite. *)
LEMMA UncountedInOrder ==
  ASSUME NEW d, NEW e, NEW o \in Orgs, OrgInOrder(d, o), Uncounted(d, e, o),
         e[o] = d[o]
  PROVE  OrgInOrder(e, o)
<1> DEFINE M == Members(d, o)
           N == Members(e, o)
           P == Pending(d, o)
           Q == Pending(e, o)
<1>1. Admins(e, o) = Admins(d, o) /\ M \subseteq N /\ Q \subseteq P
  BY DEF Uncounted
<1>2. CASE Joining(d, e, o) = {} /\ Closing(d, e, o) = {}
  <2>1. N = M /\ Q = P
    BY <1>1, <1>2 DEF Joining, Closing
  <2> QED BY <1>1, <2>1 DEF OrgInOrder, SeatsTaken
<1>3. CASE \E u \in Users, i \in Invites : Joining(d, e, o) = {u} /\ Closing(d, e, o) = {i}
  <2>1. PICK u \in Users, i \in Invites : N \ M = {u} /\ P \ Q = {i}
    BY <1>3 DEF Joining, Closing
  <2>2. u \notin M /\ N = M \cup {u} /\ i \notin Q /\ P = Q \cup {i}
    BY <1>1, <2>1
  <2>3. Cardinality(N) = Cardinality(M) + 1 /\ Cardinality(P) = Cardinality(Q) + 1
    BY <2>2, Finite, Plus
  <2>4. SeatsTaken(e, o) = SeatsTaken(d, o)
    BY <2>3, Finite DEF SeatsTaken
  <2>5. d[o].life = "live"
    BY <2>2 DEF OrgInOrder
  <2> QED BY <1>1, <2>4, <2>5 DEF OrgInOrder
<1> QED BY <1>2, <1>3 DEF Uncounted

(* What a step says of o is about the documents it writes.                 *)
LEMMA Agree ==
  ASSUME NEW d, NEW e, NEW w, DOMAIN w \subseteq Docs,
         \A x \in DOMAIN w : e[x] = d[x],
         NEW o \in Orgs
  PROVE  /\ Members(Apply(e, w), o) \ Members(e, o) = Members(Apply(d, w), o) \ Members(d, o)
         /\ Members(e, o) \ Members(Apply(e, w), o) = Members(d, o) \ Members(Apply(d, w), o)
         /\ Admins(Apply(e, w), o) \ Admins(e, o) = Admins(Apply(d, w), o) \ Admins(d, o)
         /\ Admins(e, o) \ Admins(Apply(e, w), o) = Admins(d, o) \ Admins(Apply(d, w), o)
         /\ Pending(Apply(e, w), o) \ Pending(e, o) = Pending(Apply(d, w), o) \ Pending(d, o)
         /\ Pending(e, o) \ Pending(Apply(e, w), o) = Pending(d, o) \ Pending(Apply(d, w), o)
<1>1. \A x \in Docs : \/ x \in DOMAIN w /\ Apply(e, w)[x] = Apply(d, w)[x] /\ e[x] = d[x]
                      \/ Apply(e, w)[x] = e[x] /\ Apply(d, w)[x] = d[x]
  BY ApplyIs
<1>2. /\ \A u \in Users : <<o, u>> \in Docs
      /\ \A i \in Invites : i \in Docs
  BY Apart
<1> QED BY <1>1, <1>2 DEF Members, Admins, Pending

LEMMA UncountedAgrees ==
  ASSUME NEW d, NEW e, NEW w, DOMAIN w \subseteq Docs,
         \A x \in DOMAIN w : e[x] = d[x],
         NEW o \in Orgs, Uncounted(d, Apply(d, w), o)
  PROVE  Uncounted(e, Apply(e, w), o)
<1> DEFINE d2 == Apply(d, w)
           e2 == Apply(e, w)
<1>1. /\ Members(d, o) \ Members(d2, o) = {}
      /\ Admins(d, o) \ Admins(d2, o) = {} /\ Admins(d2, o) \ Admins(d, o) = {}
      /\ Pending(d2, o) \ Pending(d, o) = {}
  BY DEF Uncounted
<1>2. /\ Members(e, o) \ Members(e2, o) = {}
      /\ Admins(e, o) \ Admins(e2, o) = {} /\ Admins(e2, o) \ Admins(e, o) = {}
      /\ Pending(e2, o) \ Pending(e, o) = {}
      /\ Joining(e, e2, o) = Joining(d, d2, o) /\ Closing(e, e2, o) = Closing(d, d2, o)
  BY <1>1, Agree DEF Joining, Closing
<1> HIDE DEF d2, e2
<1> QED BY <1>2 DEF Uncounted, d2, e2

LEMMA UncountedIsCounted ==
  ASSUME NEW d, NEW e, NEW o \in Orgs, Typed(d), Uncounted(d, e, o), e[o] = d[o]
  PROVE  Counted(d, e, o)
<1>1. d[o].seatsUsed \in Int
  BY Types DEF OrgDocs
<1>2. ~(e[o].seatsUsed > d[o].seatsUsed)
  BY <1>1
<1> QED BY <1>2 DEF Uncounted, Counted

(* Two steps that write no document in common commute: the one stays sound *)
(* when the other is committed.                                            *)
LEMMA Commutes ==
  ASSUME NEW d, InOrder(d), NEW v, Sound(d, v), NEW w, Sound(d, w),
         DOMAIN v \cap DOMAIN w = {}
  PROVE  Sound(Apply(d, v), w)
<1> DEFINE b == Apply(d, v)
           c == Apply(d, w)
           e == Apply(b, w)
<1> USE DEF Sound
<1>1. /\ \A x \in DOMAIN w : b[x] = d[x] /\ e[x] = c[x] /\ x \in Docs
      /\ \A x \in DOMAIN v : c[x] = d[x] /\ e[x] = b[x] /\ x \in Docs
      /\ \A x \in Docs : x \notin DOMAIN w => e[x] = b[x] /\ c[x] = d[x]
      /\ \A x \in Docs : x \notin DOMAIN v => e[x] = c[x] /\ b[x] = d[x]
  BY DEF Apply
<1>2. e = [x \in Docs |-> e[x]] /\ e = Apply(c, v)
  BY DEF Apply
<1> HIDE DEF b, c, e
<1>3. InOrder(b) /\ InOrder(c)
  BY DEF Step, b, c
<1>4. \A o \in Orgs : o \notin DOMAIN w => Uncounted(b, e, o)
  <2> SUFFICES ASSUME NEW o \in Orgs, o \notin DOMAIN w PROVE Uncounted(b, e, o)
    OBVIOUS
  <2>1. Uncounted(d, Apply(d, w), o)
    BY DEF Step
  <2> QED BY <1>1, <2>1, UncountedAgrees DEF e
<1>5. \A o \in Orgs : o \notin DOMAIN v => Uncounted(c, e, o)
  <2> SUFFICES ASSUME NEW o \in Orgs, o \notin DOMAIN v PROVE Uncounted(c, e, o)
    OBVIOUS
  <2>1. Uncounted(d, Apply(d, v), o)
    BY DEF Step
  <2> QED BY <1>1, <1>2, <2>1, UncountedAgrees
<1>6. Typed(e)
  BY <1>1, <1>2, <1>3 DEF InOrder, Typed
<1>7. ASSUME NEW o \in Orgs PROVE OrgInOrder(e, o)
  <2>1. o \in Docs
    BY Apart
  <2>2. CASE o \notin DOMAIN w
    BY <1>1, <1>3, <1>4, <2>1, <2>2, UncountedInOrder DEF InOrder
  <2>3. CASE o \notin DOMAIN v
    BY <1>1, <1>3, <1>5, <2>1, <2>3, UncountedInOrder DEF InOrder
  <2> QED BY <2>2, <2>3
<1>8. ASSUME NEW u \in Users PROVE NotYetIn(e, u)
  <2>1. u \in Docs /\ \A o \in Orgs : <<o, u>> \in Docs
    BY Apart
  <2>2. u \in DOMAIN w => c[u].life # "none"
    BY DEF Step, c
  <2>3. u \in DOMAIN v => b[u].life # "none"
    BY DEF Step, b
  <2>4. NotYetIn(b, u) /\ NotYetIn(c, u)
    BY <1>3 DEF InOrder
  <2> QED BY <1>1, <2>1, <2>2, <2>3, <2>4 DEF NotYetIn
<1>9. ASSUME NEW o \in Orgs PROVE Counted(b, e, o)
  <2>1. CASE o \in DOMAIN w
    <3>1. Counted(d, c, o)
      BY DEF Step, c
    <3>2. b[o] = d[o] /\ e[o] = c[o]
      BY <1>1, <2>1
    <3>3. /\ Joining(b, e, o) = Joining(d, c, o)
          /\ Closing(b, e, o) = Closing(d, c, o)
          /\ Pending(e, o) \ Pending(b, o) = Pending(c, o) \ Pending(d, o)
      BY <1>1, Agree DEF c, e, Joining, Closing
    <3> QED BY <3>1, <3>2, <3>3 DEF Counted
  <2>2. CASE o \notin DOMAIN w
    BY <1>1, <1>3, <1>4, <2>2, UncountedIsCounted, Apart DEF InOrder
  <2> QED BY <2>1, <2>2
<1>10. ASSUME NEW i \in Invites PROVE InviteKept(b, e, i)
  <2>1. InviteKept(d, c, i) /\ i \in Docs
    BY Apart DEF Step, c
  <2> QED BY <1>1, <2>1 DEF InviteKept
<1>11. \A u \in Users : u \in DOMAIN w => e[u].life # "none"
  BY <1>1 DEF Step, c
<1>12. Step(b, e, DOMAIN w)
  BY <1>4, <1>6, <1>7, <1>8, <1>9, <1>10, <1>11 DEF Step, InOrder
<1> QED BY <1>12 DEF b, e

-----------------------------------------------------------------------------
(* Requests.                                                               *)

LEMMA KnownStays ==
  ASSUME NEW d, NEW w, Sound(d, w), NEW chk, Known(d, chk)
  PROVE  Known(Apply(d, w), chk)
<1>1. ASSUME NEW u \in Users, d[u].life # "none" PROVE Apply(d, w)[u].life # "none"
  <2>1. u \in DOMAIN w => Apply(d, w)[u].life # "none"
    BY DEF Sound, Step
  <2> QED BY <1>1, <2>1, ApplyIs, Apart
<1> QED BY <1>1 DEF Known

(* A commit leaves what the other requests know and would write in order.  *)
LEMMA CommitKeeps ==
  ASSUME NEW d, InOrder(d), NEW w, Sound(d, w), NEW q, RequestOK(d, q)
  PROVE  RequestOK(Apply(d, w), AfterCommit(q, w))
<1>1. CASE q = Idle
  <2>1. AfterCommit(q, w) = Idle
    BY <1>1 DEF AfterCommit, Idle
  <2> QED BY <2>1 DEF RequestOK
<1>2. CASE Known(d, q)
  <2>1. AfterCommit(q, w) = q
    BY <1>2 DEF AfterCommit, Known
  <2> QED BY <1>2, <2>1, KnownStays DEF RequestOK
<1>3. CASE q.st = "running" /\ (q.chk = Idle \/ Known(d, q.chk)) /\ Sound(d, q.writes)
  <2>1. CASE DOMAIN q.writes \cap DOMAIN w # {}
    <3>1. AfterCommit(q, w) = q.chk
      BY <1>3, <2>1 DEF AfterCommit
    <3> QED BY <1>3, <3>1, KnownStays DEF RequestOK
  <2>2. CASE DOMAIN q.writes \cap DOMAIN w = {}
    <3>1. AfterCommit(q, w) = q
      BY <2>2 DEF AfterCommit
    <3>2. Sound(Apply(d, w), q.writes)
      BY <1>3, <2>2, Commutes
    <3> QED BY <1>3, <3>1, <3>2, KnownStays DEF RequestOK
  <2> QED BY <2>1, <2>2
<1> QED BY <1>1, <1>2, <1>3 DEF RequestOK

(* The two kinds of step: of the requests alone, and one that writes.      *)
Reads ==
  /\ UNCHANGED db
  /\ overdue' \subseteq Pendings(db)
  /\ req' = [q \in Requests |-> req'[q]]
  /\ \A q \in Requests : RequestOK(db, req'[q])

Changes(w) ==
  /\ Sound(db, w)
  /\ Write(w)
  /\ req' = [q \in Requests |-> req'[q]]
  /\ \A q \in Requests : req'[q] = Idle \/ req'[q] = AfterCommit(req[q], w)

LEMMA ReadsKeep == SeatsInv /\ Reads => SeatsInv'
  BY DEF SeatsInv, Reads

LEMMA ChangesKeep ==
  ASSUME SeatsInv, NEW w, Changes(w)
  PROVE  SeatsInv'
<1>1. db' = Apply(db, w) /\ InOrder(db')
  BY DEF Changes, Write, Sound, Step
<1>2. overdue' \subseteq Pendings(db')
  BY <1>1 DEF Changes, Write, SeatsInv, Pendings
<1>3. ASSUME NEW q \in Requests PROVE RequestOK(db', req'[q])
  <2>1. RequestOK(db, req[q]) /\ InOrder(db) /\ Sound(db, w)
    BY DEF SeatsInv, Changes
  <2>2. RequestOK(db', AfterCommit(req[q], w))
    BY <1>1, <2>1, CommitKeeps
  <2>3. RequestOK(db', Idle)
    BY DEF RequestOK
  <2>4. req'[q] = Idle \/ req'[q] = AfterCommit(req[q], w)
    BY DEF Changes
  <2> QED BY <2>2, <2>3, <2>4
<1>4. req' = [q \in Requests |-> req'[q]]
  BY DEF Changes
<1> QED BY <1>1, <1>2, <1>3, <1>4 DEF SeatsInv

(* A callback ran, a request was let in, a request is given up.            *)
LEMMA BeginReads ==
  ASSUME SeatsInv, NEW r \in Requests, NEW chk, chk = Idle \/ Known(db, chk),
         NEW e, NEW docs, docs \subseteq Docs,
         Step(db, e, docs \cup Changed(db, e)),
         Begin(r, chk, Writes(e, docs))
  PROVE  Reads
<1> DEFINE w == Writes(e, docs)
<1>1. Sound(db, w)
  BY BeginSound DEF SeatsInv, InOrder
<1>2. req' = [req EXCEPT ![r] = Running(chk, w)] /\ db' = db /\ overdue' = overdue
  BY DEF Begin
<1> HIDE DEF w
<1>3. RequestOK(db, Running(chk, w))
  BY <1>1 DEF RequestOK, Running
<1>4. DOMAIN req = Requests
  BY DEF SeatsInv
<1> QED BY <1>2, <1>3, <1>4 DEF Reads, SeatsInv

LEMMA CheckReads ==
  ASSUME SeatsInv, NEW r \in Requests, NEW op, NEW who, NEW email, NEW doc,
         Known(db, Checked(op, who, email, doc)), Check(r, op, who, email, doc)
  PROVE  Reads
<1>1. req' = [req EXCEPT ![r] = Checked(op, who, email, doc)] /\ db' = db /\ overdue' = overdue
  BY DEF Check
<1>2. DOMAIN req = Requests
  BY DEF SeatsInv
<1> QED BY <1>1, <1>2 DEF Reads, SeatsInv, RequestOK

LEMMA AbortReads == SeatsInv /\ (\E r \in Requests : Abort(r)) => Reads
  BY DEF SeatsInv, Abort, Reads, RequestOK

LEMMA CommitChanges ==
  ASSUME SeatsInv, NEW r \in Requests, Commit(r)
  PROVE  \E w : Changes(w)
<1>1. req[r].st = "running" /\ RequestOK(db, req[r])
  BY DEF Commit, SeatsInv
<1>2. Sound(db, req[r].writes)
  BY <1>1 DEF RequestOK, Known, Idle
<1>3. Changes(req[r].writes)
  BY <1>2 DEF Changes, Commit, Install
<1> QED BY <1>3

-----------------------------------------------------------------------------
(* What the callbacks would write.                                         *)

SameOrg(d, e, o) ==
  /\ e[o] = d[o]
  /\ \A u \in Users : e[<<o, u>>] = d[<<o, u>>]
  /\ \A i \in Invites : OrgOf[i] = o => e[i].status = d[i].status

LEMMA SameOrgIs ==
  ASSUME NEW d, NEW e, NEW o \in Orgs, Typed(d), OrgInOrder(d, o), SameOrg(d, e, o)
  PROVE  OrgInOrder(e, o) /\ Uncounted(d, e, o) /\ Counted(d, e, o)
<1>1. e[o] = d[o] /\ Members(e, o) = Members(d, o) /\ Admins(e, o) = Admins(d, o)
      /\ Pending(e, o) = Pending(d, o)
  BY SameMembers, SamePending DEF SameOrg
<1>2. Uncounted(d, e, o)
  BY <1>1 DEF Uncounted, Joining, Closing
<1> QED BY <1>1, <1>2, UncountedIsCounted DEF OrgInOrder, SeatsTaken

(* A step that is about one organization.                                  *)
LEMMA OneOrgStep ==
  ASSUME NEW d, InOrder(d), NEW e, Typed(e), NEW o \in Orgs, NEW T,
         \A p \in Orgs : p # o => SameOrg(d, e, p),
         OrgInOrder(e, o), Counted(d, e, o), o \in T \/ Uncounted(d, e, o),
         \A i \in Invites : InviteKept(d, e, i),
         \A u \in Users : NotYetIn(e, u),
         \A u \in Users : u \in T => e[u].life # "none"
  PROVE  Step(d, e, T)
<1>1. \A p \in Orgs : p # o => OrgInOrder(e, p) /\ Uncounted(d, e, p) /\ Counted(d, e, p)
  BY SameOrgIs DEF InOrder
<1> QED BY <1>1 DEF Step, InOrder

(* A step that is about no organization.                                   *)
LEMMA NoOrgStep ==
  ASSUME NEW d, InOrder(d), NEW e, Typed(e), NEW T,
         \A p \in Orgs : SameOrg(d, e, p),
         \A i \in Invites : e[i] = d[i],
         \A u \in Users : e[u].life # "none" \/ (e[u] = d[u] /\ u \notin T)
  PROVE  Step(d, e, T)
<1>1. \A p \in Orgs : OrgInOrder(e, p) /\ Uncounted(d, e, p) /\ Counted(d, e, p)
  BY SameOrgIs DEF InOrder
<1>2. \A u \in Users : NotYetIn(e, u)
  BY DEF InOrder, NotYetIn, SameOrg
<1> QED BY <1>1, <1>2 DEF Step, InOrder, InviteKept

(* A pending invite gives its seat back.                                   *)
LEMMA ReleasedStep ==
  ASSUME InOrder(db), NEW i \in Invites, db[i].status = "pending",
         NEW status \in InviteStatuses, status # "pending", status # "none"
  PROVE  Step(db, Released(i, status), {} \cup Changed(db, Released(i, status)))
<1> DEFINE o == OrgOf[i]
           s == SetStatus(db, {i}, status)
           e == Released(i, status)
           T == {} \cup Changed(db, e)
<1>1. o \in Orgs /\ o \in Docs /\ i \in Docs /\ o # i
  BY Apart, SeatsAssumption DEF SeatsAssumption
<1>2. Typed(db) /\ OrgInOrder(db, o)
  BY <1>1 DEF InOrder
<1>3. /\ Typed(s) /\ s[i].status = status
      /\ \A x \in Docs : x # i => s[x] = db[x]
  <2>1. {i} \in SUBSET Invites
    OBVIOUS
  <2>2. Typed(s) /\ GaveStatus(db, s, {i}, status)
    BY <1>2, <2>1, SetStatusIs
  <2> QED BY <2>2 DEF GaveStatus
<1> HIDE DEF s, o
<1>4. e = Count(s, o, -1, 0)
  BY DEF Released, s, o
<1>5. /\ Typed(e)
      /\ \A x \in Docs : x # o => e[x] = s[x]
      /\ e[o].life = s[o].life
      /\ e[o].seatLimit = s[o].seatLimit
      /\ e[o].seatsUsed = s[o].seatsUsed + -1
      /\ e[o].adminCount = s[o].adminCount + 0
  <2>1. Typed(e) /\ Moved(s, e, o, -1, 0)
    BY <1>1, <1>3, <1>4, CountIs
  <2> QED BY <2>1 DEF Moved
<1> HIDE DEF e
<1>6. /\ \A x \in Docs : x # o /\ x # i => e[x] = db[x]
      /\ e[i].status = status
      /\ db[o] \in OrgDocs /\ e[o].life = db[o].life
      /\ e[o].seatsUsed = db[o].seatsUsed - 1
      /\ e[o].adminCount = db[o].adminCount
  BY <1>1, <1>2, <1>3, <1>5, Types DEF OrgDocs
<1>7. /\ Members(e, o) = Members(db, o) /\ Admins(e, o) = Admins(db, o)
      /\ i \in Pending(db, o) /\ Pending(e, o) = Pending(db, o) \ {i}
  <2>1. \A u \in Users : e[<<o, u>>] = db[<<o, u>>]
    BY <1>1, <1>6, Apart
  <2>2. i \in Pending(db, o)
    BY DEF Pending, o
  <2>3. Pending(e, o) = Pending(db, o) \ {i}
    BY <1>1, <1>6, Apart DEF Pending
  <2> QED BY <1>1, <2>1, <2>2, <2>3, SameMembers
<1>8. OrgInOrder(e, o) /\ Counted(db, e, o) /\ o \in T
  <2>1. SeatsTaken(e, o) = SeatsTaken(db, o) - 1
    BY <1>7, Minus, Finite DEF SeatsTaken
  <2>2. e[o] # db[o]
    BY <1>6 DEF OrgDocs
  <2>3. db[o].life = "live" /\ db[o].seatsUsed \in Int
    BY <1>2, <1>6, <1>7 DEF OrgInOrder, OrgDocs
  <2>4. Counted(db, e, o)
    BY <1>6, <1>7, <2>3 DEF Counted, Joining
  <2> QED BY <1>1, <1>2, <1>6, <1>7, <2>1, <2>2, <2>3, <2>4 DEF OrgInOrder, Changed
<1>9. \A p \in Orgs : p # o => SameOrg(db, e, p)
  <2> SUFFICES ASSUME NEW p \in Orgs, p # o PROVE SameOrg(db, e, p)
    OBVIOUS
  <2>1. e[p] = db[p] /\ \A u \in Users : e[<<p, u>>] = db[<<p, u>>]
    BY <1>1, <1>6, Apart
  <2>2. \A j \in Invites : j # i => e[j] = db[j]
    BY <1>1, <1>6, Apart
  <2> QED BY <2>1, <2>2 DEF SameOrg, o
<1>10. \A j \in Invites : InviteKept(db, e, j)
  BY <1>1, <1>6, Apart DEF InviteKept
<1>11. \A u \in Users : e[u] = db[u] /\ u \notin T /\ NotYetIn(e, u)
  BY <1>1, <1>6, Apart DEF InOrder, NotYetIn, Changed
<1>12. Step(db, e, T)
  BY <1>1, <1>5, <1>8, <1>9, <1>10, <1>11, OneOrgStep
<1> QED BY <1>12 DEF e

(* The recount closes the invites whose date has passed.                   *)
LEMMA ReconciledIs ==
  ASSUME InOrder(db), NEW o \in Orgs
  PROVE  LET e == Reconciled(o) IN
         /\ Typed(e)
         /\ \A x \in Docs : x # o /\ x \notin Stale(o) => e[x] = db[x]
         /\ \A i \in Stale(o) : e[i].status = "expired"
         /\ e[o].life = db[o].life /\ e[o].seatLimit = db[o].seatLimit
         /\ e[o].seatsUsed = SeatsTaken(e, o)
         /\ e[o].adminCount = Cardinality(Admins(e, o))
         /\ Members(e, o) = Members(db, o) /\ Admins(e, o) = Admins(db, o)
         /\ Pending(e, o) = Pending(db, o) \ Stale(o)
<1> DEFINE S == Stale(o)
           d == SetStatus(db, S, "expired")
           e == Reconciled(o)
<1>1. S \in SUBSET Invites /\ S \subseteq Pending(db, o) /\ o \in Docs /\ o \notin S /\ Typed(db)
  BY Apart DEF Stale, Pending, InOrder
<1>2. Typed(d) /\ GaveStatus(db, d, S, "expired")
  <2>1. "expired" \in InviteStatuses
    BY DEF InviteStatuses
  <2> QED BY <1>1, <2>1, SetStatusIs
<1>3. /\ \A x \in Docs : x \notin S => d[x] = db[x]
      /\ \A i \in S : d[i].status = "expired"
  BY <1>2 DEF GaveStatus
<1> DEFINE seats == SeatsTaken(d, o)
           admins == Cardinality(Admins(d, o))
<1>4. seats \in Int /\ admins \in Int
  BY Finite DEF SeatsTaken
<1>5. e = [d EXCEPT ![o].seatsUsed = seats, ![o].adminCount = admins]
  BY DEF Reconciled
<1> HIDE DEF S, d, e, seats, admins
<1>6. PICK D \in OrgDocs : D = d[o]
  BY <1>2, Types
<1>7. PICK F : F = [life |-> D.life, seatLimit |-> D.seatLimit,
                    seatsUsed |-> seats, adminCount |-> admins]
  OBVIOUS
<1>8. e[o] = F /\ e = [x \in Docs |-> e[x]] /\ \A x \in Docs : x # o => e[x] = d[x]
  BY <1>1, <1>2, <1>5, <1>6, <1>7 DEF Typed, OrgDocs
<1>9. F \in OrgDocs
  BY <1>4, <1>6, <1>7 DEF OrgDocs
<1>10. Typed(e)
  BY <1>2, <1>8, <1>9, Apart DEF DocOK, Typed
<1>11. \A x \in Docs : x # o /\ x \notin S => e[x] = db[x]
  BY <1>3, <1>8
<1>12. \A i \in S : e[i].status = "expired" /\ i # o
  BY <1>1, <1>3, <1>8, Apart
<1>13. \A u \in Users : e[<<o, u>>] = db[<<o, u>>] /\ d[<<o, u>>] = db[<<o, u>>]
  BY <1>1, <1>3, <1>8, Apart
<1>14. \A i \in Invites : e[i] = d[i] /\ i \in Docs
  BY <1>8, Apart
<1>15. /\ Members(e, o) = Members(db, o) /\ Admins(e, o) = Admins(db, o)
       /\ Members(d, o) = Members(db, o) /\ Admins(d, o) = Admins(db, o)
  BY <1>13, SameMembers
<1>16. Pending(e, o) = Pending(d, o)
  BY <1>14, SamePending
<1>17. Pending(d, o) = Pending(db, o) \ S
  BY <1>3, <1>14 DEF Pending
<1>18. e[o].life = db[o].life /\ e[o].seatLimit = db[o].seatLimit
  BY <1>1, <1>3, <1>6, <1>7, <1>8
<1>19. e[o].seatsUsed = SeatsTaken(e, o) /\ e[o].adminCount = Cardinality(Admins(e, o))
  BY <1>7, <1>8, <1>15, <1>16 DEF seats, admins, SeatsTaken
<1> QED BY <1>10, <1>11, <1>12, <1>15, <1>16, <1>17, <1>18, <1>19 DEF S, e

(* The invites S to o, which were pending, become closed: what the recount *)
(* and the list of invites do.                                             *)
LEMMA ClosedStep ==
  ASSUME InOrder(db), NEW o \in Orgs, db[o].life = "live",
         NEW S, S \subseteq Pending(db, o),
         NEW e, Typed(e),
         \A x \in Docs : x # o /\ x \notin S => e[x] = db[x],
         Members(e, o) = Members(db, o), Admins(e, o) = Admins(db, o),
         Pending(e, o) = Pending(db, o) \ S,
         e[o].life = "live", e[o].seatLimit = db[o].seatLimit,
         e[o].seatsUsed = SeatsTaken(e, o),
         e[o].adminCount = db[o].adminCount
  PROVE  Step(db, e, {} \cup Changed(db, e))
<1> DEFINE T == {} \cup Changed(db, e)
<1>1. OrgInOrder(db, o) /\ Typed(db) /\ o \in Docs
  BY Apart DEF InOrder
<1>2. OrgInOrder(e, o)
  BY <1>1 DEF OrgInOrder
<1>3. e[o].seatsUsed = db[o].seatsUsed - Cardinality(S) /\ Cardinality(S) \in Nat
  <2>1. Cardinality(Pending(e, o)) = Cardinality(Pending(db, o)) - Cardinality(S)
    BY Less, Finite
  <2>2. IsFiniteSet(S)
    BY Finite, FS_Subset
  <2> QED BY <1>1, <2>1, <2>2, Finite, FS_CardinalityType DEF OrgInOrder, SeatsTaken
<1>4. db[o].seatsUsed \in Int
  BY <1>1, Types DEF OrgDocs
<1>5. Counted(db, e, o)
  BY <1>3, <1>4 DEF Counted, Joining
<1>6. o \in T \/ Uncounted(db, e, o)
  <2>1. CASE S = {}
    BY <2>1 DEF Uncounted, Joining, Closing
  <2>2. CASE S # {}
    <3>1. Cardinality(S) # 0
      BY <2>2, Finite, FS_Subset, FS_EmptySet
    <3>2. e[o] # db[o]
      BY <1>3, <1>4, <3>1
    <3> QED BY <1>1, <3>2 DEF Changed
  <2> QED BY <2>1, <2>2
<1>7. S \subseteq Invites
  BY DEF Pending
<1>8. \A p \in Orgs : p # o => SameOrg(db, e, p)
  <2> SUFFICES ASSUME NEW p \in Orgs, p # o PROVE SameOrg(db, e, p)
    OBVIOUS
  <2>1. e[p] = db[p] /\ \A u \in Users : e[<<p, u>>] = db[<<p, u>>]
    BY <1>7, Apart
  <2>2. \A j \in Invites : OrgOf[j] = p => e[j] = db[j]
    BY Apart DEF Pending
  <2> QED BY <2>1, <2>2 DEF SameOrg
<1>9. \A j \in Invites : InviteKept(db, e, j)
  BY Apart DEF InviteKept, Pending
<1>10. \A u \in Users : e[u] = db[u] /\ u \notin T /\ NotYetIn(e, u)
  <2> SUFFICES ASSUME NEW u \in Users PROVE e[u] = db[u] /\ u \notin T /\ NotYetIn(e, u)
    OBVIOUS
  <2>1. e[u] = db[u] /\ \A p \in Orgs : e[<<p, u>>] = db[<<p, u>>]
    BY <1>7, Apart
  <2> QED BY <2>1 DEF InOrder, NotYetIn, Changed
<1> QED BY <1>2, <1>5, <1>6, <1>8, <1>9, <1>10, OneOrgStep

LEMMA ReconciledStep ==
  ASSUME InOrder(db), NEW o \in Orgs, db[o].life = "live"
  PROVE  Step(db, Reconciled(o), {} \cup Changed(db, Reconciled(o)))
<1> DEFINE e == Reconciled(o)
           S == Stale(o)
<1>1. S \subseteq Pending(db, o)
  BY DEF Stale
<1>2. /\ Typed(e)
      /\ \A x \in Docs : x # o /\ x \notin S => e[x] = db[x]
      /\ e[o].life = db[o].life /\ e[o].seatLimit = db[o].seatLimit
      /\ e[o].seatsUsed = SeatsTaken(e, o)
      /\ e[o].adminCount = Cardinality(Admins(e, o))
      /\ Members(e, o) = Members(db, o) /\ Admins(e, o) = Admins(db, o)
      /\ Pending(e, o) = Pending(db, o) \ S
  BY ReconciledIs
<1> HIDE DEF e, S
<1>3. e[o].adminCount = db[o].adminCount
  BY <1>2 DEF InOrder, OrgInOrder
<1>4. Step(db, e, {} \cup Changed(db, e))
  BY <1>1, <1>2, <1>3, ClosedStep
<1> QED BY <1>4 DEF e

(* The list of the pending invites closes the stale ones.                  *)
Listed(o) ==
  Count(SetStatus(db, Stale(o), "expired"), o, -Cardinality(Stale(o)), 0)

LEMMA ListedStep ==
  ASSUME InOrder(db), NEW o \in Orgs, db[o].life = "live"
  PROVE  Step(db, Listed(o), {} \cup Changed(db, Listed(o)))
<1> DEFINE S == Stale(o)
           n == -Cardinality(S)
           d == SetStatus(db, S, "expired")
           e == Listed(o)
<1>1. S \in SUBSET Invites /\ S \subseteq Pending(db, o) /\ o \in Docs /\ o \notin S
      /\ Typed(db) /\ OrgInOrder(db, o)
  BY Apart DEF Stale, Pending, InOrder
<1>2. Typed(d) /\ GaveStatus(db, d, S, "expired")
  <2>1. "expired" \in InviteStatuses
    BY DEF InviteStatuses
  <2> QED BY <1>1, <2>1, SetStatusIs
<1>3. n \in Int /\ IsFiniteSet(S)
  BY <1>1, Finite, FS_Subset, FS_CardinalityType
<1>4. e = Count(d, o, n, 0)
  BY DEF Listed
<1> HIDE DEF S, d, e, n
<1>5. /\ Typed(e)
      /\ \A x \in Docs : x # o => e[x] = d[x]
      /\ e[o].life = d[o].life
      /\ e[o].seatLimit = d[o].seatLimit
      /\ e[o].seatsUsed = d[o].seatsUsed + n
      /\ e[o].adminCount = d[o].adminCount + 0
  <2>1. Typed(e) /\ Moved(d, e, o, n, 0)
    BY <1>2, <1>3, <1>4, CountIs
  <2> QED BY <2>1 DEF Moved
<1>6. /\ \A x \in Docs : x \notin S => d[x] = db[x]
      /\ \A i \in S : d[i].status = "expired"
  BY <1>2 DEF GaveStatus
<1>7. db[o] \in OrgDocs /\ d[o] = db[o]
  BY <1>1, <1>6, Types
<1>8. /\ e[o].life = "live" /\ e[o].seatLimit = db[o].seatLimit
      /\ e[o].adminCount = db[o].adminCount
      /\ e[o].seatsUsed = db[o].seatsUsed + n
  BY <1>5, <1>7 DEF OrgDocs
<1>9. \A x \in Docs : x # o /\ x \notin S => e[x] = db[x]
  BY <1>5, <1>6
<1>10. Members(e, o) = Members(db, o) /\ Admins(e, o) = Admins(db, o)
  BY <1>1, <1>9, SameMembers, Apart
<1>11. Pending(e, o) = Pending(db, o) \ S
  BY <1>1, <1>5, <1>6, Apart DEF Pending
<1>12. e[o].seatsUsed = SeatsTaken(e, o)
  <2>1. Cardinality(Pending(e, o)) = Cardinality(Pending(db, o)) - Cardinality(S)
    BY <1>1, <1>11, Less, Finite
  <2>2. Cardinality(S) \in Nat
    BY <1>3, FS_CardinalityType
  <2> QED BY <1>1, <1>8, <1>10, <2>1, <2>2, Finite DEF OrgInOrder, SeatsTaken, n
<1>13. Step(db, e, {} \cup Changed(db, e))
  BY <1>1, <1>5, <1>8, <1>9, <1>10, <1>11, <1>12, ClosedStep
<1> QED BY <1>13 DEF e

(* A new invite takes a seat that is free once the stale invites and those *)
(* to the same address have given up theirs.                               *)
Freed(i) ==
  LET o   == OrgOf[i]
      d   == Reconciled(o)
      old == {j \in Pending(d, o) : SentTo[j] = SentTo[i]}
  IN  Count(SetStatus(d, old, "revoked"), o, -Cardinality(old), 0)

Invited(i, role) ==
  Count([Freed(i) EXCEPT ![i] = [status |-> "pending", role |-> role]], OrgOf[i], 1, 0)

LEMMA InvitedStep ==
  ASSUME InOrder(db), NEW i \in Invites, NEW role \in Roles,
         db[OrgOf[i]].life = "live", db[i].status = "none",
         HasSeat(Freed(i), OrgOf[i])
  PROVE  Step(db, Invited(i, role), {OrgOf[i]} \cup Changed(db, Invited(i, role)))
<1>1. PICK o \in Orgs : o = OrgOf[i]
  BY SeatsAssumption DEF SeatsAssumption
<1> DEFINE d == Reconciled(o)
           S == Stale(o)
           old == {j \in Pending(d, o) : SentTo[j] = SentTo[i]}
           n == -Cardinality(old)
           s == SetStatus(d, old, "revoked")
           f == Freed(i)
           inv == [status |-> "pending", role |-> role]
           new == [f EXCEPT ![i] = inv]
           e == Invited(i, role)
           T == {o} \cup Changed(db, e)
<1>2. /\ Typed(d)
      /\ \A x \in Docs : x # o /\ x \notin S => d[x] = db[x]
      /\ \A j \in S : d[j].status = "expired"
      /\ d[o].life = db[o].life /\ d[o].seatLimit = db[o].seatLimit
      /\ d[o].seatsUsed = SeatsTaken(d, o)
      /\ d[o].adminCount = Cardinality(Admins(d, o))
      /\ Members(d, o) = Members(db, o) /\ Admins(d, o) = Admins(db, o)
      /\ Pending(d, o) = Pending(db, o) \ S
  BY ReconciledIs
<1>3. f = Count(s, o, n, 0) /\ e = Count(new, o, 1, 0)
  BY <1>1 DEF Freed, Invited
<1>4. /\ S \subseteq Pending(db, o) /\ old \in SUBSET Invites /\ old \subseteq Pending(d, o)
      /\ i \notin S /\ i \notin old /\ i \notin Pending(d, o) /\ i # o
      /\ o \notin old /\ o \notin S /\ i \in Docs /\ o \in Docs
  BY <1>2, Apart DEF Stale, Pending
<1> HIDE DEF d, S
<1>5. n \in Int /\ IsFiniteSet(old) /\ Cardinality(old) \in Nat /\ n = -Cardinality(old)
  BY <1>4, Finite, FS_Subset, FS_CardinalityType
<1>6. Typed(s) /\ GaveStatus(d, s, old, "revoked")
  <2>1. "revoked" \in InviteStatuses
    BY DEF InviteStatuses
  <2> QED BY <1>2, <1>4, <2>1, SetStatusIs
<1> HIDE DEF s, old, n, f
<1>7. /\ \A x \in Docs : x \notin old => s[x] = d[x]
      /\ \A j \in old : s[j].status = "revoked"
  BY <1>6 DEF GaveStatus
<1>8. /\ Typed(f)
      /\ \A x \in Docs : x # o => f[x] = s[x]
      /\ f[o].life = s[o].life
      /\ f[o].seatLimit = s[o].seatLimit
      /\ f[o].seatsUsed = s[o].seatsUsed + n
      /\ f[o].adminCount = s[o].adminCount + 0
  <2>1. Typed(f) /\ Moved(s, f, o, n, 0)
    BY <1>3, <1>5, <1>6, CountIs
  <2> QED BY <2>1 DEF Moved
<1>9. /\ Typed(new) /\ new[i] = inv /\ inv.status = "pending"
      /\ \A x \in Docs : x # i => new[x] = f[x]
  <2>1. DocOK(i, inv)
    BY Apart DEF DocOK, InviteDocs
  <2>2. new = [f EXCEPT ![i] = inv]
    OBVIOUS
  <2> HIDE DEF inv, new
  <2>3. Typed(new) /\ Put(f, new, i, inv)
    BY <1>4, <1>8, <2>1, <2>2, PutIs
  <2>4. inv.status = "pending"
    BY DEF inv
  <2> QED BY <2>3, <2>4 DEF Put
<1> HIDE DEF new, inv, e
<1>10. /\ Typed(e)
       /\ \A x \in Docs : x # o => e[x] = new[x]
       /\ e[o].life = new[o].life
       /\ e[o].seatLimit = new[o].seatLimit
       /\ e[o].seatsUsed = new[o].seatsUsed + 1
       /\ e[o].adminCount = new[o].adminCount + 0
  <2>1. Typed(e) /\ Moved(new, e, o, 1, 0)
    BY <1>3, <1>9, CountIs
  <2> QED BY <2>1 DEF Moved
<1>11. /\ \A x \in Docs : x \notin {o, i} \cup S \cup old => e[x] = db[x]
       /\ e[i].status = "pending"
       /\ \A j \in old : e[j].status = "revoked"
       /\ \A j \in S \ old : e[j].status = "expired"
       /\ \A j \in Invites \ ({i} \cup old) : e[j] = d[j]
  <2>1. \A x \in Docs : x \notin {o, i} \cup S \cup old => e[x] = db[x]
    BY <1>2, <1>7, <1>8, <1>9, <1>10
  <2>2. \A j \in Invites : j \in Docs /\ j # o
    BY Apart
  <2>3. e[i].status = "pending"
    BY <1>4, <1>9, <1>10
  <2>4. \A j \in old : e[j].status = "revoked"
    BY <1>4, <1>7, <1>8, <1>9, <1>10, <2>2
  <2>5. \A j \in Invites \ ({i} \cup old) : e[j] = d[j]
    BY <1>4, <1>7, <1>8, <1>9, <1>10, <2>2
  <2>6. \A j \in S \ old : e[j].status = "expired"
    BY <1>2, <1>4, <2>5 DEF Pending
  <2> QED BY <2>1, <2>3, <2>4, <2>5, <2>6
<1>12. S \cup old \subseteq Invites
  BY <1>4 DEF Pending
<1>13. /\ \A u \in Users : e[u] = db[u] /\ u \notin T
       /\ \A p \in Orgs, u \in Users : e[<<p, u>>] = db[<<p, u>>]
       /\ \A p \in Orgs : p # o => e[p] = db[p]
  BY <1>11, <1>12, Apart DEF Changed
<1>14. Members(e, o) = Members(db, o) /\ Admins(e, o) = Admins(db, o)
  BY <1>13, SameMembers
<1>15. Pending(e, o) = (Pending(d, o) \ old) \cup {i}
  BY <1>1, <1>4, <1>11 DEF Pending
<1>16. /\ db[o] \in OrgDocs /\ d[o] \in OrgDocs /\ f[o] \in OrgDocs /\ OrgInOrder(db, o)
  BY <1>2, <1>8, Types DEF InOrder
<1>17. SeatsTaken(e, o) = SeatsTaken(d, o) - Cardinality(old) + 1
  <2>1. Cardinality(Pending(d, o) \ old) = Cardinality(Pending(d, o)) - Cardinality(old)
    BY <1>4, Less, Finite
  <2>2. Cardinality(Pending(e, o)) = Cardinality(Pending(d, o)) - Cardinality(old) + 1
    <3>1. PICK A : A = Pending(d, o) \ old
      OBVIOUS
    <3>2. IsFiniteSet(A) /\ i \notin A /\ Pending(e, o) = A \cup {i}
      BY <1>4, <1>15, <3>1, Finite, FS_Subset
    <3>3. Cardinality(Pending(e, o)) = Cardinality(A) + 1
      BY <3>2, Plus
    <3> QED BY <2>1, <3>1, <3>3, Finite
  <2>3. Members(e, o) = Members(d, o)
    BY <1>2, <1>14
  <2>4. Cardinality(Members(d, o)) \in Nat /\ Cardinality(Pending(d, o)) \in Nat
    BY Finite
  <2> QED BY <1>5, <2>2, <2>3, <2>4 DEF SeatsTaken
<1>18. /\ e[o].life = "live" /\ e[o].seatLimit = f[o].seatLimit
       /\ e[o].seatsUsed = f[o].seatsUsed + 1
       /\ f[o].seatsUsed = d[o].seatsUsed - Cardinality(old)
       /\ e[o].adminCount = d[o].adminCount
  BY <1>1, <1>2, <1>4, <1>5, <1>7, <1>8, <1>9, <1>10, <1>16 DEF OrgDocs
<1>19. OrgInOrder(e, o)
  BY <1>2, <1>5, <1>14, <1>16, <1>17, <1>18, <1>1, Finite DEF OrgInOrder, OrgDocs
<1>20. Counted(db, e, o)
  <2>1. f[o].seatsUsed < f[o].seatLimit
    BY <1>1 DEF HasSeat, f
  <2>2. f[o].seatLimit \in Int
    BY <1>16, SeatsAssumption DEF OrgDocs, SeatLimits, SeatsAssumption
  <2>3. e[o].seatsUsed <= e[o].seatLimit
    BY <1>16, <1>18, <2>1, <2>2 DEF OrgDocs
  <2> QED BY <1>14, <2>3 DEF Counted, Joining
<1>21. \A p \in Orgs : p # o => SameOrg(db, e, p)
  <2> SUFFICES ASSUME NEW p \in Orgs, p # o PROVE SameOrg(db, e, p)
    OBVIOUS
  <2>1. \A j \in Invites : OrgOf[j] = p => e[j] = db[j]
    BY <1>1, <1>4, <1>11, Apart DEF Pending
  <2> QED BY <1>13, <2>1 DEF SameOrg
<1>22. \A j \in Invites : InviteKept(db, e, j)
  BY <1>2, <1>4, <1>11, Apart DEF InviteKept, Pending
<1>23. \A u \in Users : NotYetIn(e, u)
  BY <1>13 DEF InOrder, NotYetIn
<1>24. Step(db, e, T)
  BY <1>10, <1>13, <1>19, <1>20, <1>21, <1>22, <1>23, OneOrgStep
<1> QED BY <1>1, <1>24 DEF e

(* One membership changes.                                                 *)
IsMember(role) == IF role = "none" THEN 0 ELSE 1

LEMMA OneMember ==
  ASSUME NEW d, NEW e, NEW o \in Orgs, NEW u \in Users,
         \A v \in Users : v # u => e[<<o, v>>] = d[<<o, v>>]
  PROVE  /\ Members(e, o) \ {u} = Members(d, o) \ {u}
         /\ Admins(e, o) \ {u} = Admins(d, o) \ {u}
         /\ u \in Members(e, o) <=> e[<<o, u>>] # "none"
         /\ u \in Members(d, o) <=> d[<<o, u>>] # "none"
         /\ u \in Admins(e, o) <=> e[<<o, u>>] = "admin"
         /\ u \in Admins(d, o) <=> d[<<o, u>>] = "admin"
  BY DEF Members, Admins

LEMMA WithOrWithout ==
  ASSUME NEW A, NEW B, IsFiniteSet(A), IsFiniteSet(B), NEW u, A \ {u} = B \ {u}
  PROVE  Cardinality(A) - (IF u \in A THEN 1 ELSE 0) = Cardinality(B) - (IF u \in B THEN 1 ELSE 0)
<1>1. ASSUME NEW S, IsFiniteSet(S)
      PROVE  Cardinality(S \ {u}) = Cardinality(S) - (IF u \in S THEN 1 ELSE 0)
  <2>1. CASE u \in S
    BY <1>1, <2>1, Minus
  <2>2. CASE u \notin S
    <3>1. S \ {u} = S /\ Cardinality(S) \in Nat
      BY <1>1, <2>2, FS_CardinalityType
    <3> QED BY <2>2, <3>1
  <2> QED BY <2>1, <2>2
<1>2. /\ Cardinality(A \ {u}) = Cardinality(A) - (IF u \in A THEN 1 ELSE 0)
      /\ Cardinality(B \ {u}) = Cardinality(B) - (IF u \in B THEN 1 ELSE 0)
  BY <1>1
<1> QED BY <1>2

LEMMA Recount ==
  ASSUME NEW d, NEW e, NEW o \in Orgs, NEW u \in Users,
         \A v \in Users : v # u => e[<<o, v>>] = d[<<o, v>>]
  PROVE  /\ Cardinality(Admins(e, o))
            = Cardinality(Admins(d, o)) + IsAdmin(e[<<o, u>>]) - IsAdmin(d[<<o, u>>])
         /\ Cardinality(Members(e, o))
            = Cardinality(Members(d, o)) + IsMember(e[<<o, u>>]) - IsMember(d[<<o, u>>])
<1> DEFINE A == Admins(d, o)
           B == Admins(e, o)
           M == Members(d, o)
           N == Members(e, o)
<1>1. /\ N \ {u} = M \ {u} /\ B \ {u} = A \ {u}
      /\ (u \in N <=> e[<<o, u>>] # "none") /\ (u \in M <=> d[<<o, u>>] # "none")
      /\ (u \in B <=> e[<<o, u>>] = "admin") /\ (u \in A <=> d[<<o, u>>] = "admin")
  BY OneMember
<1>2. /\ IsFiniteSet(A) /\ IsFiniteSet(B) /\ IsFiniteSet(M) /\ IsFiniteSet(N)
      /\ Cardinality(A) \in Nat /\ Cardinality(B) \in Nat
      /\ Cardinality(M) \in Nat /\ Cardinality(N) \in Nat
  BY Finite
<1> HIDE DEF A, B, M, N
<1>3. Cardinality(B) - (IF u \in B THEN 1 ELSE 0) = Cardinality(A) - (IF u \in A THEN 1 ELSE 0)
  BY <1>1, <1>2, WithOrWithout
<1>4. Cardinality(N) - (IF u \in N THEN 1 ELSE 0) = Cardinality(M) - (IF u \in M THEN 1 ELSE 0)
  BY <1>1, <1>2, WithOrWithout
<1>5. Cardinality(B) = Cardinality(A) + IsAdmin(e[<<o, u>>]) - IsAdmin(d[<<o, u>>])
  BY <1>1, <1>2, <1>3 DEF IsAdmin
<1>6. Cardinality(N) = Cardinality(M) + IsMember(e[<<o, u>>]) - IsMember(d[<<o, u>>])
  BY <1>1, <1>2, <1>4 DEF IsMember
<1> QED BY <1>5, <1>6 DEF A, B, M, N

(* An account comes in for its invite.                                     *)
LEMMA JoinedStep ==
  ASSUME NEW d, InOrder(d), NEW i \in Invites, d[i].status = "pending",
         NEW u \in Users, d[u].life # "none", u \notin Members(d, OrgOf[i])
  PROVE  Step(d, Joined(d, u, i), Changed(d, Joined(d, u, i)))
<1>1. PICK o \in Orgs : o = OrgOf[i]
  BY SeatsAssumption DEF SeatsAssumption
<1>2. PICK role : role = d[i].role
  OBVIOUS
<1> DEFINE s == SetStatus(d, {i}, "accepted")
           m == [s EXCEPT ![<<o, u>>] = role]
           a == IsAdmin(role)
           e == Joined(d, u, i)
           T == Changed(d, e)
<1>3. /\ Typed(d) /\ OrgInOrder(d, o) /\ d[o] \in OrgDocs
      /\ role \in Roles /\ role # "none" /\ a \in Int
      /\ i \in Docs /\ o \in Docs /\ u \in Docs /\ <<o, u>> \in Docs
      /\ i # o /\ i # <<o, u>> /\ o # <<o, u>> /\ u # o /\ u # i /\ u # <<o, u>>
  <2>1. Typed(d) /\ OrgInOrder(d, o)
    BY DEF InOrder
  <2>2. d[i] \in InviteDocs /\ d[o] \in OrgDocs
    BY <2>1, Types
  <2>3. role \in Roles /\ role # "none"
    BY <1>2, <2>2, SeatsAssumption DEF InviteDocs, SeatsAssumption
  <2> QED BY <2>1, <2>2, <2>3, Apart DEF IsAdmin
<1>4. e = Count(m, o, 0, a)
  BY <1>1, <1>2 DEF Joined
<1>5. /\ Typed(s) /\ s[i].status = "accepted"
      /\ \A x \in Docs : x # i => s[x] = d[x]
  <2>1. {i} \in SUBSET Invites /\ "accepted" \in InviteStatuses
    BY DEF InviteStatuses
  <2>2. Typed(s) /\ GaveStatus(d, s, {i}, "accepted")
    BY <1>3, <2>1, SetStatusIs
  <2> QED BY <2>2 DEF GaveStatus
<1>6. m = [s EXCEPT ![<<o, u>>] = role]
  OBVIOUS
<1> HIDE DEF s, m, e, a
<1>7. /\ Typed(m) /\ m[<<o, u>>] = role
      /\ \A x \in Docs : x # <<o, u>> => m[x] = s[x]
  <2>1. DocOK(<<o, u>>, role)
    BY <1>3, Apart DEF DocOK, MemberDocs
  <2>2. Typed(m) /\ Put(s, m, <<o, u>>, role)
    BY <1>3, <1>5, <1>6, <2>1, PutIs
  <2> QED BY <2>2 DEF Put
<1>8. /\ Typed(e)
      /\ \A x \in Docs : x # o => e[x] = m[x]
      /\ e[o].life = m[o].life
      /\ e[o].seatLimit = m[o].seatLimit
      /\ e[o].seatsUsed = m[o].seatsUsed + 0
      /\ e[o].adminCount = m[o].adminCount + a
  <2>1. Typed(m) /\ a \in Int
    BY <1>3, <1>7
  <2>2. Typed(e) /\ Moved(m, e, o, 0, a)
    BY <1>4, <2>1, CountIs
  <2> QED BY <2>2 DEF Moved
<1>9. /\ \A x \in Docs : x \notin {o, i, <<o, u>>} => e[x] = d[x]
      /\ e[i].status = "accepted" /\ e[<<o, u>>] = role
      /\ e[o].life = d[o].life /\ e[o].seatLimit = d[o].seatLimit
      /\ e[o].seatsUsed = d[o].seatsUsed
      /\ e[o].adminCount = d[o].adminCount + a
  BY <1>3, <1>5, <1>7, <1>8 DEF OrgDocs
<1>10. /\ \A v \in Users : e[v] = d[v]
       /\ \A p \in Orgs, v \in Users : p # o \/ v # u => e[<<p, v>>] = d[<<p, v>>]
       /\ \A p \in Orgs : p # o => e[p] = d[p]
       /\ \A j \in Invites : j # i => e[j] = d[j]
  BY <1>9, Apart
<1>11. /\ u \notin Members(d, o) /\ d[<<o, u>>] = "none"
       /\ Members(e, o) = Members(d, o) \cup {u}
  BY <1>1, <1>3, <1>9, <1>10 DEF Members
<1>12. i \in Pending(d, o) /\ Pending(e, o) = Pending(d, o) \ {i}
  BY <1>1, <1>9, <1>10 DEF Pending
<1>13. /\ Cardinality(Admins(e, o)) = Cardinality(Admins(d, o)) + a
       /\ SeatsTaken(e, o) = SeatsTaken(d, o)
  <2>1. /\ Cardinality(Admins(e, o))
           = Cardinality(Admins(d, o)) + IsAdmin(e[<<o, u>>]) - IsAdmin(d[<<o, u>>])
        /\ Cardinality(Members(e, o))
           = Cardinality(Members(d, o)) + IsMember(e[<<o, u>>]) - IsMember(d[<<o, u>>])
    BY <1>10, Recount
  <2>2. IsAdmin(e[<<o, u>>]) = a /\ IsAdmin(d[<<o, u>>]) = 0
        /\ IsMember(e[<<o, u>>]) = 1 /\ IsMember(d[<<o, u>>]) = 0
    BY <1>3, <1>9, <1>11 DEF IsAdmin, IsMember, a
  <2>3. Cardinality(Pending(e, o)) = Cardinality(Pending(d, o)) - 1
    BY <1>12, Minus, Finite
  <2>4. /\ Cardinality(Admins(d, o)) \in Nat /\ Cardinality(Members(d, o)) \in Nat
        /\ Cardinality(Pending(d, o)) \in Nat
    BY Finite
  <2> QED BY <1>3, <2>1, <2>2, <2>3, <2>4 DEF SeatsTaken
<1>14. Admins(d, o) \subseteq Admins(e, o) /\ (a = 0 => Admins(e, o) = Admins(d, o))
  <2>1. role = "admin" => a = 1
    BY DEF a, IsAdmin
  <2> QED BY <1>3, <1>9, <1>10, <1>11, <2>1 DEF Admins
<1>15. d[o].life = "live"
  BY <1>3, <1>12 DEF OrgInOrder
<1>16. OrgInOrder(e, o)
  BY <1>3, <1>9, <1>13, <1>14, <1>15 DEF OrgInOrder
<1>17. /\ Members(d, o) \subseteq Members(e, o) /\ Pending(e, o) \subseteq Pending(d, o)
       /\ Joining(d, e, o) = {u} /\ Closing(d, e, o) = {i}
  BY <1>11, <1>12 DEF Joining, Closing
<1>18. Counted(d, e, o)
  BY <1>3, <1>9, <1>17 DEF Counted, OrgDocs
<1>19. o \in T \/ Uncounted(d, e, o)
  <2>1. CASE a = 0
    BY <1>14, <1>17, <2>1 DEF Uncounted
  <2>2. CASE a # 0
    BY <1>3, <1>9, <2>2 DEF Changed, OrgDocs
  <2> QED BY <2>1, <2>2
<1>20. \A p \in Orgs : p # o => SameOrg(d, e, p)
  BY <1>1, <1>10 DEF SameOrg
<1>21. \A j \in Invites : InviteKept(d, e, j)
  BY <1>10 DEF InviteKept
<1>22. ASSUME NEW v \in Users PROVE NotYetIn(e, v) /\ (v \in T => e[v].life # "none")
  <2>1. NotYetIn(d, v) /\ e[v] = d[v] /\ v \notin T
    BY <1>10 DEF InOrder, Changed
  <2> QED BY <1>10, <2>1 DEF NotYetIn
<1>23. Step(d, e, T)
  BY <1>8, <1>16, <1>18, <1>19, <1>20, <1>21, <1>22, OneOrgStep
<1> QED BY <1>23 DEF e

(* The role of a member changes, "none" being that of somebody who left.   *)
Recast(o, u, role) ==
  Count([db EXCEPT ![<<o, u>>] = role], o, IsMember(role) - 1,
        IsAdmin(role) - IsAdmin(db[<<o, u>>]))

LEMMA RecastStep ==
  ASSUME InOrder(db), NEW o \in Orgs, NEW u \in Members(db, o),
         NEW role \in MemberDocs,
         IsAdmin(role) - IsAdmin(db[<<o, u>>]) = -1 => GuardLastAdmin(o)
  PROVE  Step(db, Recast(o, u, role), {} \cup Changed(db, Recast(o, u, role)))
<1> DEFINE was == db[<<o, u>>]
           n == IsMember(role) - 1
           a == IsAdmin(role) - IsAdmin(was)
           m == [db EXCEPT ![<<o, u>>] = role]
           e == Recast(o, u, role)
           T == {} \cup Changed(db, e)
<1>1. /\ Typed(db) /\ OrgInOrder(db, o) /\ db[o] \in OrgDocs /\ u \in Users
      /\ n \in {-1, 0} /\ a \in {-1, 0, 1} /\ was # "none"
      /\ o \in Docs /\ u \in Docs /\ <<o, u>> \in Docs
      /\ o # <<o, u>> /\ u # o /\ u # <<o, u>>
  <2>1. Typed(db) /\ OrgInOrder(db, o) /\ u \in Users /\ was # "none"
    BY DEF InOrder, Members
  <2> QED BY <2>1, Types, Apart DEF IsAdmin, IsMember
<1>2. m = [db EXCEPT ![<<o, u>>] = role] /\ e = Count(m, o, n, a)
  BY DEF Recast
<1> HIDE DEF m, e
<1>3. /\ Typed(m) /\ m[<<o, u>>] = role
      /\ \A x \in Docs : x # <<o, u>> => m[x] = db[x]
  <2>1. DocOK(<<o, u>>, role)
    BY <1>1, Apart DEF DocOK
  <2>2. Typed(m) /\ Put(db, m, <<o, u>>, role)
    BY <1>1, <1>2, <2>1, PutIs
  <2> QED BY <2>2 DEF Put
<1>4. /\ Typed(e)
      /\ \A x \in Docs : x # o => e[x] = m[x]
      /\ e[o].life = m[o].life
      /\ e[o].seatLimit = m[o].seatLimit
      /\ e[o].seatsUsed = m[o].seatsUsed + n
      /\ e[o].adminCount = m[o].adminCount + a
  <2>1. Typed(m) /\ n \in Int /\ a \in Int
    BY <1>1, <1>3
  <2> HIDE DEF n, a
  <2>2. Typed(e) /\ Moved(m, e, o, n, a)
    BY <1>2, <2>1, CountIs
  <2> QED BY <2>2 DEF Moved
<1>5. /\ \A x \in Docs : x \notin {o, <<o, u>>} => e[x] = db[x]
      /\ e[<<o, u>>] = role
      /\ e[o].life = db[o].life /\ e[o].seatLimit = db[o].seatLimit
      /\ e[o].seatsUsed = db[o].seatsUsed + n
      /\ e[o].adminCount = db[o].adminCount + a
  BY <1>1, <1>3, <1>4 DEF OrgDocs
<1>6. /\ \A v \in Users : e[v] = db[v]
      /\ \A p \in Orgs, v \in Users : p # o \/ v # u => e[<<p, v>>] = db[<<p, v>>]
      /\ \A p \in Orgs : p # o => e[p] = db[p]
      /\ \A j \in Invites : e[j] = db[j]
  BY <1>1, <1>5, Apart
<1>7. Pending(e, o) = Pending(db, o)
  BY <1>6, SamePending
<1>8. /\ Cardinality(Admins(e, o)) = Cardinality(Admins(db, o)) + a
      /\ SeatsTaken(e, o) = SeatsTaken(db, o) + n
      /\ Cardinality(Admins(db, o)) \in Nat /\ Cardinality(Admins(e, o)) \in Nat
  <2>1. /\ Cardinality(Admins(e, o))
           = Cardinality(Admins(db, o)) + IsAdmin(e[<<o, u>>]) - IsAdmin(db[<<o, u>>])
        /\ Cardinality(Members(e, o))
           = Cardinality(Members(db, o)) + IsMember(e[<<o, u>>]) - IsMember(db[<<o, u>>])
    BY <1>1, <1>6, Recount
  <2>2. /\ Cardinality(Admins(db, o)) \in Nat /\ Cardinality(Members(db, o)) \in Nat
        /\ Cardinality(Pending(db, o)) \in Nat /\ Cardinality(Admins(e, o)) \in Nat
    BY Finite
  <2>3. IsMember(db[<<o, u>>]) = 1 /\ e[<<o, u>>] = role
        /\ IsMember(role) \in Int /\ IsAdmin(role) \in Int /\ IsAdmin(was) \in Int
    BY <1>1, <1>5 DEF IsMember, IsAdmin
  <2> QED BY <1>7, <2>1, <2>2, <2>3 DEF SeatsTaken
<1>9. u \in Members(db, o) /\ db[o].life = "live"
  BY <1>1 DEF OrgInOrder
<1>10. /\ db[o].adminCount = Cardinality(Admins(db, o)) /\ Admins(db, o) # {}
       /\ db[o].seatsUsed = SeatsTaken(db, o)
  BY <1>1, <1>9 DEF OrgInOrder
<1>11. Admins(e, o) # {}
  <2>1. a = -1 => db[o].adminCount > 1
    BY DEF GuardLastAdmin
  <2>2. Cardinality(Admins(db, o)) # 0
    BY <1>10, Finite, FS_EmptySet
  <2>3. Cardinality(Admins(e, o)) # 0
    BY <1>1, <1>8, <1>10, <2>1, <2>2
  <2> QED BY <2>3, FS_EmptySet
<1>12. OrgInOrder(e, o)
  BY <1>5, <1>8, <1>9, <1>10, <1>11 DEF OrgInOrder
<1>13. Members(e, o) \subseteq Members(db, o)
  BY <1>6, <1>9 DEF Members
<1>14. Counted(db, e, o)
  BY <1>1, <1>5, <1>13 DEF Counted, OrgDocs, Joining
<1>15. o \in T \/ Uncounted(db, e, o)
  <2>1. CASE n = 0 /\ a = 0
    <3>1. role # "none"
      BY <2>1 DEF IsMember
    <3>2. role = "admin" <=> was = "admin"
      BY <2>1 DEF IsAdmin
    <3>3. Members(e, o) = Members(db, o) /\ Admins(e, o) = Admins(db, o)
      BY <1>5, <1>6, <1>9, <1>13, <3>1, <3>2 DEF Members, Admins
    <3> QED BY <1>7, <3>3 DEF Uncounted, Joining, Closing
  <2>2. CASE n # 0 \/ a # 0
    <3>1. e[o] # db[o]
      BY <1>1, <1>5, <2>2 DEF OrgDocs
    <3> QED BY <1>1, <3>1 DEF Changed
  <2> QED BY <2>1, <2>2
<1>16. \A p \in Orgs : p # o => SameOrg(db, e, p)
  BY <1>6 DEF SameOrg
<1>17. \A j \in Invites : InviteKept(db, e, j)
  BY <1>6 DEF InviteKept
<1>18. ASSUME NEW v \in Users PROVE NotYetIn(e, v) /\ (v \in T => e[v].life # "none")
  <2>1. NotYetIn(db, v) /\ e[v] = db[v] /\ v \notin T
    BY <1>6 DEF InOrder, Changed
  <2>2. ASSUME NEW p \in Orgs, db[<<p, v>>] = "none" PROVE e[<<p, v>>] = "none"
    BY <1>1, <1>6, <2>2
  <2> QED BY <2>1, <2>2 DEF NotYetIn
<1>19. Step(db, e, T)
  BY <1>4, <1>12, <1>14, <1>15, <1>16, <1>17, <1>18, OneOrgStep
<1> QED BY <1>19 DEF e

(* An organization is founded by an account.                               *)
LEMMA FoundedStep ==
  ASSUME NEW d, InOrder(d), NEW o \in Orgs, d[o].life = "none",
         NEW u \in Users, d[u].life # "none"
  PROVE  Step(d, Founded(d, o, u), Changed(d, Founded(d, o, u)))
<1> DEFINE new == [life |-> "live", seatLimit |-> FreeSeats, seatsUsed |-> 1, adminCount |-> 1]
           m == [d EXCEPT ![o] = new]
           e == Founded(d, o, u)
           T == Changed(d, e)
<1>1. /\ Typed(d) /\ OrgInOrder(d, o) /\ d[o] \in OrgDocs
      /\ o \in Docs /\ u \in Docs /\ <<o, u>> \in Docs
      /\ o # <<o, u>> /\ u # o /\ u # <<o, u>>
  <2>1. Typed(d) /\ OrgInOrder(d, o)
    BY DEF InOrder
  <2> QED BY <2>1, Types, Apart
<1>2. new \in OrgDocs /\ new.life = "live" /\ new.seatsUsed = 1 /\ new.adminCount = 1
  BY DEF OrgDocs, SeatLimits
<1>3. m = [d EXCEPT ![o] = new] /\ e = [m EXCEPT ![<<o, u>>] = "admin"]
  BY DEF Founded
<1> HIDE DEF new, m, e
<1>4. Typed(m) /\ m[o] = new /\ \A x \in Docs : x # o => m[x] = d[x]
  <2>1. DocOK(o, new)
    BY <1>2, Apart DEF DocOK
  <2>2. Typed(m) /\ Put(d, m, o, new)
    BY <1>1, <1>3, <2>1, PutIs
  <2> QED BY <2>2 DEF Put
<1>5. Typed(e) /\ e[<<o, u>>] = "admin" /\ \A x \in Docs : x # <<o, u>> => e[x] = m[x]
  <2>1. DocOK(<<o, u>>, "admin")
    BY Apart, SeatsAssumption DEF DocOK, MemberDocs, SeatsAssumption
  <2>2. Typed(e) /\ Put(m, e, <<o, u>>, "admin")
    BY <1>1, <1>3, <1>4, <2>1, PutIs
  <2> QED BY <2>2 DEF Put
<1>6. /\ \A x \in Docs : x \notin {o, <<o, u>>} => e[x] = d[x]
      /\ e[o] = new
  BY <1>1, <1>4, <1>5
<1>7. /\ \A v \in Users : e[v] = d[v]
      /\ \A p \in Orgs, v \in Users : p # o \/ v # u => e[<<p, v>>] = d[<<p, v>>]
      /\ \A p \in Orgs : p # o => e[p] = d[p]
      /\ \A j \in Invites : e[j] = d[j]
  BY <1>1, <1>6, Apart
<1>8. Members(d, o) = {} /\ Pending(d, o) = {}
  BY <1>1 DEF OrgInOrder
<1>9. Members(e, o) = {u} /\ Admins(e, o) = {u} /\ Pending(e, o) = {}
  <2>1. \A v \in Users : d[<<o, v>>] = "none"
    BY <1>8 DEF Members
  <2>2. \A v \in Users : v # u => e[<<o, v>>] = "none"
    BY <1>7, <2>1
  <2>3. Members(e, o) = {u} /\ Admins(e, o) = {u}
    BY <1>5, <2>2 DEF Members, Admins
  <2>4. Pending(e, o) = Pending(d, o)
    BY <1>7, SamePending
  <2> QED BY <1>8, <2>3, <2>4
<1>10. OrgInOrder(e, o)
  <2>1. Cardinality({u}) = 1 /\ Cardinality({}) = 0
    BY FS_Singleton, FS_EmptySet
  <2> QED BY <1>2, <1>6, <1>9, <2>1 DEF OrgInOrder, SeatsTaken
<1>11. Counted(d, e, o) /\ o \in T
  BY <1>1, <1>2, <1>6 DEF Counted, Changed
<1>12. \A p \in Orgs : p # o => SameOrg(d, e, p)
  BY <1>7 DEF SameOrg
<1>13. \A j \in Invites : InviteKept(d, e, j)
  BY <1>7 DEF InviteKept
<1>14. ASSUME NEW v \in Users PROVE NotYetIn(e, v) /\ (v \in T => e[v].life # "none")
  <2>1. NotYetIn(d, v) /\ e[v] = d[v] /\ v \notin T
    BY <1>7 DEF InOrder, Changed
  <2>2. CASE v = u
    BY <2>1, <2>2 DEF NotYetIn
  <2>3. CASE v # u
    BY <1>7, <2>1, <2>3 DEF NotYetIn
  <2> QED BY <2>1, <2>2, <2>3
<1>15. Step(d, e, T)
  BY <1>5, <1>10, <1>11, <1>12, <1>13, <1>14, OneOrgStep
<1> QED BY <1>15 DEF e

(* The plan of an organization changes.                                    *)
LEMMA PlanStep ==
  ASSUME InOrder(db), NEW o \in Orgs, db[o].life = "live", NEW limit \in SeatLimits,
         NEW e, e = [db EXCEPT ![o].seatLimit = limit]
  PROVE  Step(db, e, {o} \cup Changed(db, e))
<1> DEFINE T == {o} \cup Changed(db, e)
<1>1. Typed(db) /\ OrgInOrder(db, o) /\ db[o] \in OrgDocs /\ o \in Docs
  <2>1. Typed(db) /\ OrgInOrder(db, o)
    BY DEF InOrder
  <2> QED BY <2>1, Types, Apart
<1>2. PICK F : F = [db[o] EXCEPT !.seatLimit = limit]
  OBVIOUS
<1>3. /\ F \in OrgDocs /\ F.life = db[o].life
      /\ F.seatsUsed = db[o].seatsUsed /\ F.adminCount = db[o].adminCount
  BY <1>1, <1>2 DEF OrgDocs
<1>4. e = [db EXCEPT ![o] = F]
  BY <1>1, <1>2 DEF Typed
<1>5. Typed(e) /\ e[o] = F /\ \A x \in Docs : x # o => e[x] = db[x]
  <2>1. DocOK(o, F)
    BY <1>3, Apart DEF DocOK
  <2>2. Typed(e) /\ Put(db, e, o, F)
    BY <1>1, <1>4, <2>1 DEF Typed, Put
  <2> QED BY <2>2 DEF Put
<1>6. /\ \A v \in Users : e[v] = db[v]
      /\ \A p \in Orgs, v \in Users : e[<<p, v>>] = db[<<p, v>>]
      /\ \A p \in Orgs : p # o => e[p] = db[p]
      /\ \A j \in Invites : e[j] = db[j]
  BY <1>1, <1>5, Apart
<1>7. /\ Members(e, o) = Members(db, o) /\ Admins(e, o) = Admins(db, o)
      /\ Pending(e, o) = Pending(db, o)
  BY <1>6, SameMembers, SamePending
<1>8. OrgInOrder(e, o)
  BY <1>1, <1>3, <1>5, <1>7 DEF OrgInOrder, SeatsTaken
<1>9. Counted(db, e, o)
  BY <1>1, <1>3, <1>5, <1>7 DEF Counted, OrgDocs, Joining
<1>10. \A p \in Orgs : p # o => SameOrg(db, e, p)
  BY <1>6 DEF SameOrg
<1>11. \A j \in Invites : InviteKept(db, e, j)
  BY <1>6 DEF InviteKept
<1>12. ASSUME NEW v \in Users PROVE NotYetIn(e, v) /\ (v \in T => e[v].life # "none")
  <2>1. NotYetIn(db, v) /\ e[v] = db[v] /\ v \notin T
    BY <1>6, Apart DEF InOrder, Changed
  <2> QED BY <1>6, <2>1 DEF NotYetIn
<1> QED BY <1>5, <1>8, <1>9, <1>10, <1>11, <1>12, OneOrgStep

(* Accounts and the registrations that wait under an address.              *)
LEMMA RegistrationStep ==
  ASSUME InOrder(db), NEW a \in Emails, NEW doc \in RegistrationDocs,
         NEW e, e = [db EXCEPT ![a] = doc]
  PROVE  Step(db, e, {a} \cup Changed(db, e))
<1>1. Typed(db) /\ a \in Docs /\ DocOK(a, doc)
  BY Apart DEF InOrder, DocOK
<1>2. Typed(e) /\ Put(db, e, a, doc)
  BY <1>1 DEF Typed, Put
<1>3. \A x \in Docs : x # a => e[x] = db[x]
  BY <1>2 DEF Put
<1>4. \A p \in Orgs : SameOrg(db, e, p)
  BY <1>3, Apart DEF SameOrg
<1>5. \A i \in Invites : e[i] = db[i]
  BY <1>3, Apart
<1>6. \A u \in Users : e[u] = db[u] /\ u \notin {a} \cup Changed(db, e)
  BY <1>3, Apart DEF Changed
<1> QED BY <1>2, <1>4, <1>5, <1>6, NoOrgStep

LEMMA ChangeEmailStep ==
  ASSUME InOrder(db), NEW u \in Users, db[u].life # "none", NEW a \in Emails,
         NEW e, e = [db EXCEPT ![u].email = a]
  PROVE  Step(db, e, {u} \cup Changed(db, e))
<1>1. Typed(db) /\ u \in Docs /\ db[u] \in UserDocs
  <2>1. Typed(db)
    BY DEF InOrder
  <2> QED BY <2>1, Types, Apart
<1>2. PICK F : F = [db[u] EXCEPT !.email = a]
  OBVIOUS
<1>3. F \in UserDocs /\ F.life = db[u].life
  BY <1>1, <1>2 DEF UserDocs
<1>4. e = [db EXCEPT ![u] = F] /\ DocOK(u, F)
  BY <1>1, <1>2, <1>3, Apart DEF Typed, DocOK
<1>5. Typed(e) /\ Put(db, e, u, F)
  BY <1>1, <1>4 DEF Typed, Put
<1>6. e[u] = F /\ \A x \in Docs : x # u => e[x] = db[x]
  BY <1>5 DEF Put
<1>7. \A p \in Orgs : SameOrg(db, e, p)
  BY <1>6, Apart DEF SameOrg
<1>8. \A i \in Invites : e[i] = db[i]
  BY <1>6, Apart
<1>9. \A v \in Users :
        e[v].life # "none" \/ (e[v] = db[v] /\ v \notin {u} \cup Changed(db, e))
  BY <1>3, <1>6, Apart DEF Changed
<1> QED BY <1>5, <1>7, <1>8, <1>9, NoOrgStep

(* A confirmed registration becomes an account, which joins or founds an   *)
(* organization in the same transaction.                                   *)
Verified(a, u) ==
  [db EXCEPT ![u] = [life |-> "active", email |-> a], ![a] = "none"]

LEMMA VerifiedIs ==
  ASSUME InOrder(db), NEW a \in Emails, NEW u \in Users
  PROVE  /\ Typed(Verified(a, u))
         /\ Verified(a, u)[u].life = "active"
         /\ \A x \in Docs : x \notin {a, u} => Verified(a, u)[x] = db[x]
<1> DEFINE F == [life |-> "active", email |-> a]
           m == [db EXCEPT ![u] = F]
           e == Verified(a, u)
<1>1. Typed(db) /\ a \in Docs /\ u \in Docs /\ a # u
  BY Apart DEF InOrder
<1>2. DocOK(u, F) /\ F.life = "active" /\ DocOK(a, "none")
  BY Apart DEF DocOK, UserDocs, RegistrationDocs
<1>3. m = [db EXCEPT ![u] = F] /\ e = [m EXCEPT ![a] = "none"]
  BY DEF Verified
<1> HIDE DEF F, m, e
<1>4. Typed(m) /\ Put(db, m, u, F)
  BY <1>1, <1>2, <1>3, PutIs
<1>5. Typed(e) /\ Put(m, e, a, "none")
  BY <1>1, <1>2, <1>3, <1>4, PutIs
<1>6. e[u].life = "active" /\ \A x \in Docs : x \notin {a, u} => e[x] = db[x]
  BY <1>1, <1>2, <1>4, <1>5 DEF Put
<1> QED BY <1>5, <1>6 DEF e

LEMMA VerifiedStep ==
  ASSUME InOrder(db), NEW a \in Emails, NEW u \in Users
  PROVE  LET n == Verified(a, u) IN
         /\ Step(db, n, {} \cup Changed(db, n))
         /\ \A o \in Orgs : SameOrg(db, n, o)
         /\ \A i \in Invites : n[i] = db[i]
         /\ \A v \in Users : n[v] # db[v] => n[v].life # "none"
         /\ n[u].life = "active"
<1> DEFINE n == Verified(a, u)
<1>1. Typed(n) /\ n[u].life = "active" /\ \A x \in Docs : x \notin {a, u} => n[x] = db[x]
  BY VerifiedIs
<1> HIDE DEF n
<1>2. \A o \in Orgs : SameOrg(db, n, o)
  BY <1>1, Apart DEF SameOrg
<1>3. \A i \in Invites : n[i] = db[i]
  BY <1>1, Apart
<1>4. \A v \in Users : n[v].life # "none" \/ (n[v] = db[v] /\ v \notin {} \cup Changed(db, n))
  BY <1>1, Apart DEF Changed
<1>5. Step(db, n, {} \cup Changed(db, n))
  BY <1>1, <1>2, <1>3, <1>4, NoOrgStep
<1> QED BY <1>1, <1>2, <1>3, <1>4, <1>5 DEF n

(* A step of organizations after one that changed none of them.            *)
LEMMA AfterStep ==
  ASSUME NEW d, NEW n, NEW e,
         \A o \in Orgs : SameOrg(d, n, o),
         \A i \in Invites : n[i] = d[i],
         \A v \in Users : n[v] # d[v] => n[v].life # "none",
         Step(n, e, Changed(n, e))
  PROVE  Step(d, e, {} \cup Changed(d, e))
<1>1. ASSUME NEW o \in Orgs
      PROVE  n[o] = d[o] /\ Members(n, o) = Members(d, o) /\ Admins(n, o) = Admins(d, o)
             /\ Pending(n, o) = Pending(d, o)
  BY SameMembers, SamePending DEF SameOrg
<1>2. ASSUME NEW o \in Orgs
      PROVE  /\ Uncounted(n, e, o) => Uncounted(d, e, o)
             /\ Counted(n, e, o) => Counted(d, e, o)
  BY <1>1 DEF Uncounted, Counted, Joining, Closing
<1>3. \A o \in Orgs : o \notin Changed(d, e) => o \notin Changed(n, e)
  BY <1>1 DEF Changed
<1>4. \A u \in Users : u \in Changed(d, e) => e[u].life # "none"
  BY DEF Step, Changed
<1>5. \A i \in Invites : InviteKept(d, e, i)
  BY DEF Step, InviteKept
<1> QED BY <1>2, <1>3, <1>4, <1>5 DEF Step

(* An account is deleted: it leaves the organizations with others, and     *)
(* those it is alone in go with it.                                        *)
Mine(u) == {o \in Orgs : u \in Members(db, o)}
Alone(u) == {o \in Mine(u) : Members(db, o) = {u}}
Deleted(u) == Wiped(Left(u, Mine(u) \ Alone(u)), Alone(u))

(* The documents it leaves behind, one kind at a time.                     *)
LEMMA DeletedIs ==
  ASSUME InOrder(db), NEW u \in Users
  PROVE  LET e == Deleted(u) IN
         /\ Typed(e)
         /\ e[u].life = "deleted"
         /\ \A v \in Users : v # u => e[v] = db[v]
         /\ \A o \in Alone(u) :
              /\ e[o].life = "gone" /\ e[o].seatsUsed = db[o].seatsUsed
              /\ \A v \in Users : e[<<o, v>>] = "none"
              /\ \A i \in Invites : OrgOf[i] = o => e[i].status # "pending"
         /\ \A o \in Orgs \ Alone(u) :
              /\ \A v \in Users : v # u => e[<<o, v>>] = db[<<o, v>>]
              /\ e[<<o, u>>] = "none"
              /\ \A i \in Invites : OrgOf[i] = o => e[i] = db[i]
         /\ \A o \in Mine(u) \ Alone(u) :
              /\ e[o].life = db[o].life
              /\ e[o].seatsUsed = db[o].seatsUsed - 1
              /\ e[o].adminCount = db[o].adminCount - IsAdmin(db[<<o, u>>])
         /\ \A o \in Orgs \ Mine(u) : e[o] = db[o]
         /\ \A i \in Invites : e[i].status \in {db[i].status, "gone"}
<1> DEFINE M == Mine(u) \ Alone(u)
           A == Alone(u)
           l == Left(u, M)
           e == Deleted(u)
<1>1. /\ Typed(db) /\ M \subseteq Orgs /\ A \subseteq Orgs /\ A \cap M = {}
      /\ A \subseteq Mine(u) /\ Mine(u) \subseteq Orgs
  BY DEF InOrder, Mine, Alone
<1>2. /\ \A o \in Orgs : db[o] \in OrgDocs
      /\ \A i \in Invites : db[i] \in InviteDocs
      /\ \A v \in Users : db[v] \in UserDocs
      /\ \A a \in Emails : db[a] \in RegistrationDocs
      /\ \A o \in Orgs, v \in Users : db[<<o, v>>] \in MemberDocs
  BY <1>1, Types
<1>3. e = Wiped(l, A)
  BY DEF Deleted
<1> HIDE DEF M, A, e
<1>4. /\ l[u] = [life |-> "deleted", email |-> NoEmail]
      /\ \A v \in Users : v # u => l[v] = db[v]
      /\ \A o \in M : l[o] = [db[o] EXCEPT !.seatsUsed = @ - 1,
                                           !.adminCount = @ - IsAdmin(db[<<o, u>>])]
      /\ \A o \in Orgs \ M : l[o] = db[o]
      /\ \A i \in Invites : l[i] = db[i]
      /\ \A a \in Emails : l[a] = db[a]
      /\ \A o \in M : l[<<o, u>>] = "none"
      /\ \A o \in Orgs, v \in Users : o \notin M \/ v # u => l[<<o, v>>] = db[<<o, v>>]
  <2>1. \A x \in Docs :
          l[x] = IF x = u THEN [life |-> "deleted", email |-> NoEmail]
                 ELSE IF x \in M
                      THEN [db[x] EXCEPT !.seatsUsed = @ - 1,
                                         !.adminCount = @ - IsAdmin(db[<<x, u>>])]
                 ELSE IF x \in M \X {u} THEN "none" ELSE db[x]
    BY Zenon DEF Left
  <2> HIDE DEF l
  <2>2. l[u] = [life |-> "deleted", email |-> NoEmail]
    BY <2>1, Apart
  <2>3. \A v \in Users : v # u => l[v] = db[v]
    BY <1>1, <2>1, Apart, ZenonT(60)
  <2>4. \A o \in M : l[o] = [db[o] EXCEPT !.seatsUsed = @ - 1,
                                          !.adminCount = @ - IsAdmin(db[<<o, u>>])]
    BY <1>1, <2>1, Apart, ZenonT(60)
  <2>5. \A o \in Orgs \ M : l[o] = db[o]
    BY <1>1, <2>1, Apart, ZenonT(60)
  <2>6. \A i \in Invites : l[i] = db[i]
    <3>1. \A i \in Invites : i \in Docs /\ i # u /\ i \notin M /\ i \notin M \X {u}
      BY <1>1, Apart
    <3> QED BY <2>1, <3>1
  <2>7. \A a \in Emails : l[a] = db[a]
    <3>1. \A a \in Emails : a \in Docs /\ a # u /\ a \notin M /\ a \notin M \X {u}
      BY <1>1, Apart
    <3> QED BY <2>1, <3>1
  <2>8. \A o \in M : l[<<o, u>>] = "none"
    BY <1>1, <2>1, Apart, ZenonT(60)
  <2>9. \A o \in Orgs, v \in Users : o \notin M \/ v # u => l[<<o, v>>] = db[<<o, v>>]
    BY <1>1, <2>1, Apart
  <2> QED BY <2>2, <2>3, <2>4, <2>5, <2>6, <2>7, <2>8, <2>9
<1> HIDE DEF l
<1>5. /\ e = [x \in Docs |-> e[x]]
      /\ \A v \in Users : e[v] = l[v]
      /\ \A o \in A : e[o] = [l[o] EXCEPT !.life = "gone"]
      /\ \A o \in Orgs \ A : e[o] = l[o]
      /\ \A i \in Invites : OrgOf[i] \in A /\ l[i].status # "none" =>
           e[i] = [l[i] EXCEPT !.status = "gone"]
      /\ \A i \in Invites : OrgOf[i] \notin A \/ l[i].status = "none" => e[i] = l[i]
      /\ \A a \in Emails : e[a] = l[a]
      /\ \A o \in A, v \in Users : e[<<o, v>>] = "none"
      /\ \A o \in Orgs \ A, v \in Users : e[<<o, v>>] = l[<<o, v>>]
  <2>1. \A x \in Docs :
          e[x] = IF x \in A THEN [l[x] EXCEPT !.life = "gone"]
                 ELSE IF x \in Invites /\ l[x].status # "none" /\ OrgOf[x] \in A
                      THEN [l[x] EXCEPT !.status = "gone"]
                 ELSE IF x \in A \X Users THEN "none" ELSE l[x]
    BY <1>3, Zenon DEF Wiped
  <2>2. e = [x \in Docs |-> e[x]]
    BY <1>3 DEF Wiped
  <2>3. \A v \in Users : e[v] = l[v]
    BY <1>1, <2>1, Apart
  <2>4. \A o \in A : e[o] = [l[o] EXCEPT !.life = "gone"]
    BY <1>1, <2>1, Apart
  <2>5. \A o \in Orgs \ A : e[o] = l[o]
    BY <1>1, <2>1, Apart
  <2>6. \A i \in Invites : OrgOf[i] \in A /\ l[i].status # "none" =>
          e[i] = [l[i] EXCEPT !.status = "gone"]
    BY <1>1, <2>1, Apart
  <2>7. \A i \in Invites : OrgOf[i] \notin A \/ l[i].status = "none" => e[i] = l[i]
    BY <1>1, <2>1, Apart
  <2>8. \A a \in Emails : e[a] = l[a]
    BY <1>1, <2>1, Apart
  <2>9. \A o \in A, v \in Users : e[<<o, v>>] = "none"
    BY <1>1, <2>1, Apart
  <2>10. \A o \in Orgs \ A, v \in Users : e[<<o, v>>] = l[<<o, v>>]
    BY <1>1, <2>1, Apart
  <2> QED BY <2>2, <2>3, <2>4, <2>5, <2>6, <2>7, <2>8, <2>9, <2>10
<1>6. ASSUME NEW o \in A
      PROVE  /\ e[o] \in OrgDocs /\ e[o].life = "gone"
             /\ e[o].seatsUsed = db[o].seatsUsed
  <2>1. o \in Orgs /\ l[o] = db[o] /\ db[o] \in OrgDocs /\ e[o] = [l[o] EXCEPT !.life = "gone"]
    BY <1>1, <1>2, <1>4, <1>5
  <2> QED BY <2>1 DEF OrgDocs
<1>7. ASSUME NEW o \in M
      PROVE  /\ e[o] \in OrgDocs /\ e[o].life = db[o].life
             /\ e[o].seatsUsed = db[o].seatsUsed - 1
             /\ e[o].adminCount = db[o].adminCount - IsAdmin(db[<<o, u>>])
  <2>1. PICK D \in OrgDocs : D = db[o]
    BY <1>1, <1>2
  <2>2. PICK a \in Int : a = IsAdmin(db[<<o, u>>])
    BY DEF IsAdmin
  <2>3. PICK F : F = [life |-> D.life, seatLimit |-> D.seatLimit,
                      seatsUsed |-> D.seatsUsed - 1, adminCount |-> D.adminCount - a]
    OBVIOUS
  <2>4. e[o] = [D EXCEPT !.seatsUsed = @ - 1, !.adminCount = @ - a]
    <3>1. e[o] = l[o]
      BY <1>1, <1>5
    <3>2. l[o] = [db[o] EXCEPT !.seatsUsed = @ - 1,
                               !.adminCount = @ - IsAdmin(db[<<o, u>>])]
      BY <1>4
    <3> QED BY <2>1, <2>2, <3>1, <3>2
  <2>5. e[o] = F
    BY <2>1, <2>3, <2>4 DEF OrgDocs
  <2>6. F \in OrgDocs
    BY <2>1, <2>2, <2>3 DEF OrgDocs
  <2> QED BY <2>1, <2>2, <2>3, <2>5, <2>6
<1>8. ASSUME NEW o \in Orgs, o \notin A, o \notin M
      PROVE  e[o] = db[o]
  BY <1>4, <1>5, <1>8
<1>9. ASSUME NEW i \in Invites
      PROVE  /\ e[i] \in InviteDocs /\ e[i].status \in {db[i].status, "gone"}
             /\ OrgOf[i] \in A => e[i].status # "pending"
             /\ OrgOf[i] \notin A => e[i] = db[i]
  <2>1. l[i] = db[i] /\ db[i] \in InviteDocs
    BY <1>2, <1>4
  <2>2. CASE OrgOf[i] \in A /\ l[i].status # "none"
    <3>1. e[i] = [l[i] EXCEPT !.status = "gone"]
      BY <1>5, <2>2
    <3> QED BY <2>1, <2>2, <3>1 DEF InviteDocs
  <2>3. CASE OrgOf[i] \notin A \/ l[i].status = "none"
    <3>1. e[i] = l[i]
      BY <1>5, <2>3
    <3> QED BY <2>1, <2>3, <3>1
  <2> QED BY <2>2, <2>3
<1>10. /\ e[u] \in UserDocs /\ e[u].life = "deleted"
       /\ \A v \in Users : v # u => e[v] = db[v]
  <2>1. e[u] = [life |-> "deleted", email |-> NoEmail]
    BY <1>4, <1>5
  <2>2. \A v \in Users : v # u => e[v] = db[v]
    BY <1>4, <1>5
  <2> QED BY <2>1, <2>2 DEF UserDocs
<1>11. ASSUME NEW o \in Orgs, NEW v \in Users
       PROVE  /\ e[<<o, v>>] \in MemberDocs
              /\ o \in A => e[<<o, v>>] = "none"
              /\ o \notin A /\ v # u => e[<<o, v>>] = db[<<o, v>>]
              /\ o \notin A /\ v = u => e[<<o, v>>] = "none"
  <2>1. CASE o \in A
    BY <1>5, <2>1 DEF MemberDocs
  <2>2. CASE o \notin A /\ (o \notin M \/ v # u)
    <3>1. e[<<o, v>>] = db[<<o, v>>]
      BY <1>4, <1>5, <2>2, ZenonT(60)
    <3>2. v = u => db[<<o, v>>] = "none"
      BY <2>2 DEF M, A, Mine, Members
    <3> QED BY <1>2, <2>2, <3>1, <3>2
  <2>3. CASE o \notin A /\ o \in M /\ v = u
    BY <1>4, <1>5, <2>3, ZenonT(60) DEF MemberDocs
  <2> QED BY <2>1, <2>2, <2>3
<1>12. Typed(e)
  <2>1. ASSUME NEW o \in Orgs PROVE e[o] \in OrgDocs
    BY <1>2, <1>6, <1>7, <1>8
  <2>2. \A v \in Users : e[v] \in UserDocs
    BY <1>2, <1>10
  <2>3. \A a \in Emails : e[a] \in RegistrationDocs
    BY <1>2, <1>4, <1>5
  <2>4. \A x \in Orgs \X Users : e[x] \in MemberDocs
    BY <1>11
  <2> QED BY <1>5, <1>9, <2>1, <2>2, <2>3, <2>4 DEF Typed, DocOK
<1>13. \A o \in Orgs : o \notin Mine(u) => e[o] = db[o]
  BY <1>1, <1>8 DEF M
<1>14. \A o \in A :
         /\ e[o].life = "gone" /\ e[o].seatsUsed = db[o].seatsUsed
         /\ \A v \in Users : e[<<o, v>>] = "none"
         /\ \A i \in Invites : OrgOf[i] = o => e[i].status # "pending"
  BY <1>1, <1>6, <1>9, <1>11
<1>15. \A o \in Orgs \ A :
         /\ \A v \in Users : v # u => e[<<o, v>>] = db[<<o, v>>]
         /\ e[<<o, u>>] = "none"
         /\ \A i \in Invites : OrgOf[i] = o => e[i] = db[i]
  BY <1>9, <1>11
<1>16. \A o \in M :
         /\ e[o].life = db[o].life
         /\ e[o].seatsUsed = db[o].seatsUsed - 1
         /\ e[o].adminCount = db[o].adminCount - IsAdmin(db[<<o, u>>])
  BY <1>7
<1>17. \A o \in Orgs \ Mine(u) : e[o] = db[o]
  BY <1>13
<1>18. \A i \in Invites : e[i].status \in {db[i].status, "gone"}
  BY <1>9
<1>19. e[u].life = "deleted" /\ \A v \in Users : v # u => e[v] = db[v]
  BY <1>10
<1> QED BY <1>12, <1>14, <1>15, <1>16, <1>17, <1>18, <1>19, Zenon DEF A, M, e

LEMMA DeletedStep ==
  ASSUME InOrder(db), NEW u \in Users,
         \A o \in Mine(u) \ Alone(u) : db[<<o, u>>] = "admin" => GuardLastAdmin(o)
  PROVE  Step(db, Deleted(u), {u} \cup Changed(db, Deleted(u)))
<1> DEFINE M == Mine(u) \ Alone(u)
           A == Alone(u)
           e == Deleted(u)
           T == {u} \cup Changed(db, e)
<1>1. /\ Typed(e)
      /\ e[u].life = "deleted"
      /\ \A v \in Users : v # u => e[v] = db[v]
      /\ \A o \in A :
           /\ e[o].life = "gone" /\ e[o].seatsUsed = db[o].seatsUsed
           /\ \A v \in Users : e[<<o, v>>] = "none"
           /\ \A i \in Invites : OrgOf[i] = o => e[i].status # "pending"
      /\ \A o \in Orgs \ A :
           /\ \A v \in Users : v # u => e[<<o, v>>] = db[<<o, v>>]
           /\ e[<<o, u>>] = "none"
           /\ \A i \in Invites : OrgOf[i] = o => e[i] = db[i]
      /\ \A o \in M :
           /\ e[o].life = db[o].life
           /\ e[o].seatsUsed = db[o].seatsUsed - 1
           /\ e[o].adminCount = db[o].adminCount - IsAdmin(db[<<o, u>>])
      /\ \A o \in Orgs \ Mine(u) : e[o] = db[o]
      /\ \A i \in Invites : e[i].status \in {db[i].status, "gone"}
  BY DeletedIs
<1>2. /\ Typed(db) /\ M \subseteq Orgs /\ A \subseteq Mine(u) /\ Mine(u) \subseteq Orgs
      /\ \A o \in Orgs : OrgInOrder(db, o) /\ db[o] \in OrgDocs /\ o \in Docs
      /\ \A o \in M : db[<<o, u>>] = "admin" => GuardLastAdmin(o)
  <2>1. Typed(db) /\ \A o \in Orgs : OrgInOrder(db, o)
    BY DEF InOrder
  <2> QED BY <2>1, Types, Apart DEF Mine, Alone
<1> HIDE DEF e
<1>3. ASSUME NEW o \in A
      PROVE  OrgInOrder(e, o) /\ Counted(db, e, o) /\ o \in T
  <2>1. Members(e, o) = {} /\ Pending(e, o) = {}
    BY <1>1 DEF Members, Pending
  <2>2. u \in Members(db, o) /\ o \in Orgs
    BY <1>2 DEF Mine
  <2>3. db[o].life = "live" /\ db[o].seatsUsed \in Int
    BY <1>2, <2>2 DEF OrgInOrder, OrgDocs
  <2>4. e[o].life = "gone" /\ e[o].seatsUsed = db[o].seatsUsed
    BY <1>1
  <2>5. Counted(db, e, o)
    BY <2>1, <2>3, <2>4 DEF Counted, Joining
  <2>6. o \in T
    BY <1>2, <2>2, <2>3, <2>4 DEF Changed
  <2> QED BY <2>1, <2>4, <2>5, <2>6 DEF OrgInOrder
<1>4. ASSUME NEW o \in M
      PROVE  OrgInOrder(e, o) /\ Counted(db, e, o) /\ o \in T
  <2>1. o \in Orgs /\ o \notin A /\ u \in Members(db, o) /\ OrgInOrder(db, o) /\ db[o] \in OrgDocs
        /\ o \in Docs
    BY <1>2 DEF Mine
  <2>2. db[o].life = "live"
    BY <2>1 DEF OrgInOrder
  <2>3. /\ \A v \in Users : v # u => e[<<o, v>>] = db[<<o, v>>]
        /\ e[<<o, u>>] = "none"
        /\ \A i \in Invites : OrgOf[i] = o => e[i] = db[i]
        /\ e[o].life = db[o].life
        /\ e[o].seatsUsed = db[o].seatsUsed - 1
        /\ e[o].adminCount = db[o].adminCount - IsAdmin(db[<<o, u>>])
    BY <1>1, <2>1
  <2>4. /\ Cardinality(Admins(e, o))
           = Cardinality(Admins(db, o)) + IsAdmin(e[<<o, u>>]) - IsAdmin(db[<<o, u>>])
        /\ Cardinality(Members(e, o))
           = Cardinality(Members(db, o)) + IsMember(e[<<o, u>>]) - IsMember(db[<<o, u>>])
    BY <2>1, <2>3, Recount
  <2>5. Pending(e, o) = Pending(db, o)
    BY <2>1, <2>3, SamePending
  <2>6. /\ Cardinality(Admins(db, o)) \in Nat /\ Cardinality(Members(db, o)) \in Nat
        /\ Cardinality(Pending(db, o)) \in Nat /\ Cardinality(Admins(e, o)) \in Nat
    BY Finite
  <2>7. IsAdmin(e[<<o, u>>]) = 0 /\ IsMember(e[<<o, u>>]) = 0 /\ IsMember(db[<<o, u>>]) = 1
        /\ IsAdmin(db[<<o, u>>]) \in {0, 1}
    BY <2>1, <2>3 DEF IsAdmin, IsMember, Members
  <2>8. /\ Cardinality(Admins(e, o)) = Cardinality(Admins(db, o)) - IsAdmin(db[<<o, u>>])
        /\ SeatsTaken(e, o) = SeatsTaken(db, o) - 1
    BY <2>4, <2>5, <2>6, <2>7 DEF SeatsTaken
  <2>9. /\ db[o].adminCount = Cardinality(Admins(db, o)) /\ Admins(db, o) # {}
        /\ db[o].seatsUsed = SeatsTaken(db, o)
    BY <2>1, <2>2 DEF OrgInOrder
  <2>10. Admins(e, o) # {}
    <3>1. IsAdmin(db[<<o, u>>]) = 1 => db[o].adminCount > 1
      BY <1>2 DEF IsAdmin, GuardLastAdmin
    <3>2. Cardinality(Admins(db, o)) # 0
      BY <2>9, Finite, FS_EmptySet
    <3>3. Cardinality(Admins(e, o)) # 0
      BY <2>6, <2>7, <2>8, <2>9, <3>1, <3>2
    <3> QED BY <3>3, FS_EmptySet
  <2>11. OrgInOrder(e, o)
    BY <2>2, <2>3, <2>8, <2>9, <2>10 DEF OrgInOrder
  <2>12. Members(e, o) \subseteq Members(db, o)
    BY <2>1, <2>3 DEF Members
  <2>13. Counted(db, e, o)
    BY <2>1, <2>3, <2>12 DEF Counted, OrgDocs, Joining
  <2>14. o \in T
    BY <2>1, <2>3 DEF Changed, OrgDocs
  <2> QED BY <2>11, <2>13, <2>14
<1>5. ASSUME NEW o \in Orgs, o \notin Mine(u)
      PROVE  OrgInOrder(e, o) /\ Counted(db, e, o) /\ Uncounted(db, e, o)
  <2>1. db[<<o, u>>] = "none" /\ o \notin A
    BY <1>2, <1>5 DEF Mine, Members
  <2>2. SameOrg(db, e, o)
    BY <1>1, <1>5, <2>1 DEF SameOrg
  <2> QED BY <1>2, <2>2, SameOrgIs
<1>6. \A o \in Orgs : o \in A \/ o \in M \/ o \notin Mine(u)
  OBVIOUS
<1>7. \A o \in Orgs :
        OrgInOrder(e, o) /\ Counted(db, e, o) /\ (o \in T \/ Uncounted(db, e, o))
  BY <1>3, <1>4, <1>5, <1>6
<1>8. ASSUME NEW v \in Users PROVE NotYetIn(e, v) /\ (v \in T => e[v].life # "none")
  <2>1. CASE v = u
    BY <1>1, <2>1 DEF NotYetIn
  <2>2. CASE v # u
    <3>1. e[v] = db[v] /\ v \notin T /\ NotYetIn(db, v)
      BY <1>1, <2>2 DEF Changed, InOrder
    <3>2. \A o \in Orgs : e[<<o, v>>] \in {"none", db[<<o, v>>]}
      BY <1>1, <2>2
    <3> QED BY <3>1, <3>2 DEF NotYetIn
  <2> QED BY <2>1, <2>2
<1>9. \A i \in Invites : InviteKept(db, e, i)
  BY <1>1 DEF InviteKept
<1>10. Step(db, e, T)
  BY <1>1, <1>7, <1>8, <1>9 DEF Step, InOrder
<1> QED BY <1>10 DEF e

-----------------------------------------------------------------------------
(* Every action reads or changes.                                          *)

LEMMA AtBeginKnown ==
  ASSUME SeatsInv, NEW r \in Requests, NEW op, AtBegin(r, op)
  PROVE  Known(db, req[r]) /\ req[r].op = op
  BY DEF SeatsInv, RequestOK, AtBegin, Idle

(* A callback of a request without a check, and of one with it.            *)
LEMMA BeginNewReads ==
  ASSUME SeatsInv, NEW r \in Requests, NEW op, NEW e, NEW docs, docs \subseteq Docs,
         Step(db, e, docs \cup Changed(db, e)), BeginNew(r, op, Writes(e, docs))
  PROVE  Reads
  BY BeginReads DEF BeginNew

LEMMA ResumeReads ==
  ASSUME SeatsInv, NEW r \in Requests, NEW e, NEW docs, docs \subseteq Docs,
         Known(db, req[r]),
         Step(db, e, docs \cup Changed(db, e)), Resume(r, Writes(e, docs))
  PROVE  Reads
<1>1. PICK chk : chk = req[r]
  OBVIOUS
<1>2. Begin(r, chk, Writes(e, docs)) /\ Known(db, chk)
  BY <1>1 DEF Resume
<1> QED BY <1>2, BeginReads

LEMMA UserRequestReads ==
  ASSUME SeatsInv, NEW r \in Requests, NEW u \in Users, UserRequest(r, u)
  PROVE  Reads
<1>1. ASSUME NEW op, NEW doc, Arrive(r, op, u, doc),
             \/ op = "answerInvite" /\ doc \in Invites
             \/ op = "changeEmail" /\ doc \in Emails
             \/ op = "createOrg" /\ doc \in Orgs
             \/ op = "deleteAccount"
      PROVE  Reads
  <2>1. PICK email : email = db[u].email
    OBVIOUS
  <2>2. Check(r, op, u, email, doc) /\ db[u].life # "none"
    BY <1>1, <2>1 DEF Arrive
  <2>3. Known(db, Checked(op, u, email, doc))
    BY <1>1, <2>2 DEF Known, Checked
  <2> QED BY <2>2, <2>3, CheckReads
<1>2. Movers \subseteq Emails
  BY SeatsAssumption DEF SeatsAssumption
<1> QED BY <1>1, <1>2 DEF UserRequest

LEMMA OrgRequestReads ==
  ASSUME SeatsInv, NEW r \in Requests, NEW o \in Orgs, OrgRequest(r, o)
  PROVE  Reads
<1>1. InOrder(db) /\ {} \subseteq Docs /\ {o} \subseteq Docs /\ o \in Docs
  BY Apart DEF SeatsInv
<1>2. CASE ReconcileSeats(r, o)
  <2>1. db[o].life = "live" /\ BeginNew(r, "reconcile", Writes(Reconciled(o), {}))
    BY <1>2 DEF ReconcileSeats
  <2>2. Step(db, Reconciled(o), {} \cup Changed(db, Reconciled(o)))
    BY <1>1, <2>1, ReconciledStep
  <2> QED BY <1>1, <2>1, <2>2, BeginNewReads
<1>3. CASE ListPendingInvites(r, o)
  <2>1. db[o].life = "live" /\ BeginNew(r, "listInvites", Writes(Listed(o), {}))
    BY <1>3 DEF ListPendingInvites, Listed
  <2>2. Step(db, Listed(o), {} \cup Changed(db, Listed(o)))
    BY <1>1, <2>1, ListedStep
  <2> QED BY <1>1, <2>1, <2>2, BeginNewReads
<1>4. ASSUME NEW u \in Users, RemoveMember(r, o, u)
      PROVE  Reads
  <2>1. /\ u \in Members(db, o)
        /\ db[<<o, u>>] = "admin" => GuardLastAdmin(o)
        /\ BeginNew(r, "removeMember",
             Writes(Count([db EXCEPT ![<<o, u>>] = "none"], o, -1,
                          -IsAdmin(db[<<o, u>>])), {}))
    BY <1>4 DEF RemoveMember
  <2>2. /\ IsMember("none") - 1 = -1
        /\ IsAdmin("none") - IsAdmin(db[<<o, u>>]) = -IsAdmin(db[<<o, u>>])
        /\ -IsAdmin(db[<<o, u>>]) = -1 => db[<<o, u>>] = "admin"
    BY DEF IsMember, IsAdmin
  <2>3. Recast(o, u, "none")
          = Count([db EXCEPT ![<<o, u>>] = "none"], o, -1, -IsAdmin(db[<<o, u>>]))
    BY <2>2 DEF Recast
  <2>4. "none" \in MemberDocs
    BY DEF MemberDocs
  <2>5. Step(db, Recast(o, u, "none"), {} \cup Changed(db, Recast(o, u, "none")))
    BY <1>1, <2>1, <2>2, <2>4, RecastStep
  <2> QED BY <1>1, <2>1, <2>3, <2>5, BeginNewReads
<1>5. ASSUME NEW u \in Users, NEW role \in Roles, ChangeMemberRole(r, o, u, role)
      PROVE  Reads
  <2>1. /\ u \in Members(db, o)
        /\ IsAdmin(role) - IsAdmin(db[<<o, u>>]) = -1 => GuardLastAdmin(o)
        /\ BeginNew(r, "changeRole",
             Writes(Count([db EXCEPT ![<<o, u>>] = role], o, 0,
                          IsAdmin(role) - IsAdmin(db[<<o, u>>])), {}))
    BY <1>5 DEF ChangeMemberRole
  <2>2. IsMember(role) - 1 = 0 /\ role \in MemberDocs
    BY SeatsAssumption DEF IsMember, MemberDocs, SeatsAssumption
  <2>3. Recast(o, u, role)
          = Count([db EXCEPT ![<<o, u>>] = role], o, 0,
                  IsAdmin(role) - IsAdmin(db[<<o, u>>]))
    BY <2>2 DEF Recast
  <2>4. Step(db, Recast(o, u, role), {} \cup Changed(db, Recast(o, u, role)))
    BY <1>1, <2>1, <2>2, RecastStep
  <2> QED BY <1>1, <2>1, <2>3, <2>4, BeginNewReads
<1>6. ASSUME NEW limit \in SeatLimits, ChangePlan(r, o, limit)
      PROVE  Reads
  <2>1. PICK e : e = [db EXCEPT ![o].seatLimit = limit]
    OBVIOUS
  <2>2. db[o].life = "live" /\ BeginNew(r, "changePlan", Writes(e, {o}))
    BY <1>6, <2>1 DEF ChangePlan
  <2>3. Step(db, e, {o} \cup Changed(db, e))
    BY <1>1, <2>1, <2>2, PlanStep
  <2> QED BY <1>1, <2>2, <2>3, BeginNewReads
<1> QED BY <1>2, <1>3, <1>4, <1>5, <1>6 DEF OrgRequest

LEMMA InviteRequestReads ==
  ASSUME SeatsInv, NEW r \in Requests, NEW i \in Invites, InviteRequest(r, i)
  PROVE  Reads
<1>1. InOrder(db) /\ OrgOf[i] \in Orgs /\ {OrgOf[i]} \subseteq Docs /\ {} \subseteq Docs
  BY Apart, SeatsAssumption DEF SeatsInv, SeatsAssumption
<1>2. ASSUME NEW role \in Roles, CreateInvite(r, i, role)
      PROVE  Reads
  <2>1. /\ db[OrgOf[i]].life = "live" /\ db[i].status = "none"
        /\ HasSeat(Freed(i), OrgOf[i])
        /\ BeginNew(r, "invite", Writes(Invited(i, role), {OrgOf[i]}))
    BY <1>2 DEF CreateInvite, Freed, Invited
  <2>2. Step(db, Invited(i, role), {OrgOf[i]} \cup Changed(db, Invited(i, role)))
    BY <1>1, <2>1, InvitedStep
  <2> QED BY <1>1, <2>1, <2>2, BeginNewReads
<1>3. CASE RevokeInvite(r, i)
  <2>1. db[i].status = "pending" /\ BeginNew(r, "revokeInvite", Writes(Released(i, "revoked"), {}))
    BY <1>3 DEF RevokeInvite
  <2>2. Step(db, Released(i, "revoked"), {} \cup Changed(db, Released(i, "revoked")))
    BY <1>1, <2>1, ReleasedStep DEF InviteStatuses
  <2> QED BY <1>1, <2>1, <2>2, BeginNewReads
<1> QED BY <1>2, <1>3 DEF InviteRequest

LEMMA SignupRequestReads ==
  ASSUME SeatsInv, NEW r \in Requests, NEW a \in Emails, SignupRequest(r, a)
  PROVE  Reads
<1>1. InOrder(db) /\ Typed(db) /\ {} \subseteq Docs /\ a \in Docs
  BY Apart DEF SeatsInv, InOrder
<1>2. ASSUME NEW kind \in RegistrationDocs \ {"none"}, CheckSignup(r, a, kind)
      PROVE  Reads
  <2>1. Check(r, "signup", a, a, kind)
    BY <1>2 DEF CheckSignup
  <2>2. Known(db, Checked("signup", a, a, kind))
    BY DEF Known, Checked
  <2> QED BY <2>1, <2>2, CheckReads
<1>3. ASSUME NEW u \in Users, NEW o \in Orgs, VerifyRegistration(r, a, u, o)
      PROVE  Reads
  <2>1. PICK n : n = Verified(a, u)
    OBVIOUS
  <2>2. PICK kind : kind = db[a]
    OBVIOUS
  <2> DEFINE e == IF kind \in Invites THEN Joined(n, u, kind)
                  ELSE IF kind = "organization" THEN Founded(n, o, u)
                  ELSE n
  <2>3. /\ db[u].life = "none"
        /\ kind \in Invites => db[kind].status = "pending"
        /\ kind = "organization" => db[o].life = "none"
        /\ BeginNew(r, "verify", Writes(e, {}))
    BY <1>3, <2>1, <2>2 DEF VerifyRegistration, Verified, Valid
  <2> HIDE DEF e
  <2>4. /\ Step(db, n, {} \cup Changed(db, n))
        /\ \A p \in Orgs : SameOrg(db, n, p)
        /\ \A i \in Invites : n[i] = db[i]
        /\ \A v \in Users : n[v] # db[v] => n[v].life # "none"
        /\ n[u].life = "active"
    BY <1>1, <2>1, VerifiedStep
  <2>5. InOrder(n)
    BY <2>4 DEF Step
  <2>6. Step(db, e, {} \cup Changed(db, e))
    <3>1. CASE kind \in Invites
      <4>1. OrgOf[kind] \in Orgs
        BY <3>1, SeatsAssumption DEF SeatsAssumption
      <4>2. db[<<OrgOf[kind], u>>] = "none"
        BY <1>1, <2>3, <4>1 DEF InOrder, NotYetIn
      <4>3. u \notin Members(n, OrgOf[kind])
        BY <2>4, <4>1, <4>2 DEF SameOrg, Members
      <4>4. n[kind].status = "pending" /\ n[u].life # "none"
        BY <2>3, <2>4, <3>1
      <4>5. Step(n, Joined(n, u, kind), Changed(n, Joined(n, u, kind)))
        BY <2>5, <3>1, <4>3, <4>4, JoinedStep
      <4>6. e = Joined(n, u, kind)
        BY <3>1 DEF e
      <4> QED BY <2>4, <4>5, <4>6, AfterStep
    <3>2. CASE kind \notin Invites /\ kind = "organization"
      <4>1. n[o].life = "none" /\ n[u].life # "none"
        BY <2>3, <2>4, <3>2 DEF SameOrg
      <4>2. Step(n, Founded(n, o, u), Changed(n, Founded(n, o, u)))
        BY <2>5, <4>1, FoundedStep
      <4>3. e = Founded(n, o, u)
        BY <3>2 DEF e
      <4> QED BY <2>4, <4>2, <4>3, AfterStep
    <3>3. CASE kind \notin Invites /\ kind # "organization"
      <4>1. e = n
        BY <3>3 DEF e
      <4> QED BY <2>4, <4>1
    <3> QED BY <3>1, <3>2, <3>3
  <2> QED BY <1>1, <2>3, <2>6, BeginNewReads
<1> QED BY <1>2, <1>3 DEF SignupRequest

(* What a step writes at once, and what a commit does.                     *)
LEMMA WriteChanges ==
  ASSUME SeatsInv, NEW e, NEW docs, docs \subseteq Docs,
         Step(db, e, docs \cup Changed(db, e)), Write(Writes(e, docs)),
         req' = [q \in Requests |-> AfterCommit(req[q], Writes(e, docs))]
  PROVE  \E w : Changes(w)
<1>1. PICK w : w = Writes(e, docs)
  OBVIOUS
<1>2. Sound(db, w)
  BY <1>1, BeginSound DEF SeatsInv, InOrder
<1>3. Changes(w)
  BY <1>1, <1>2 DEF Changes
<1> QED BY <1>3

LEMMA InstallChanges ==
  ASSUME SeatsInv, NEW r \in Requests, NEW e, NEW docs, docs \subseteq Docs,
         Step(db, e, docs \cup Changed(db, e)), Install(r, Writes(e, docs))
  PROVE  \E w : Changes(w)
<1>1. PICK w : w = Writes(e, docs)
  OBVIOUS
<1>2. Sound(db, w)
  BY <1>1, BeginSound DEF SeatsInv, InOrder
<1>3. Changes(w)
  BY <1>1, <1>2 DEF Changes, Install
<1> QED BY <1>3

LEMMA CallbackReadsOrChanges ==
  ASSUME SeatsInv, NEW r \in Requests, Callback(r)
  PROVE  Reads \/ \E w : Changes(w)
<1>1. InOrder(db) /\ {} \subseteq Docs
  BY DEF SeatsInv
<1>2. PICK u : u = req[r].who
  OBVIOUS
<1>3. PICK x : x = req[r].doc
  OBVIOUS
<1>4. CASE AcceptInvite(r)
  <2>1. AtBegin(r, "answerInvite") /\ db[x].status = "pending"
    BY <1>3, <1>4 DEF AcceptInvite, Valid
  <2>2. Known(db, req[r]) /\ u \in Users /\ db[u].life # "none" /\ x \in Invites
    BY <1>2, <1>3, <2>1, AtBeginKnown DEF Known
  <2>3. CASE u \in Members(db, OrgOf[x])
    <3>1. Resume(r, Writes(Released(x, "accepted"), {}))
      BY <1>2, <1>3, <1>4, <2>3 DEF AcceptInvite
    <3>2. Step(db, Released(x, "accepted"), {} \cup Changed(db, Released(x, "accepted")))
      BY <1>1, <2>1, <2>2, ReleasedStep DEF InviteStatuses
    <3> QED BY <1>1, <2>2, <3>1, <3>2, ResumeReads
  <2>4. CASE u \notin Members(db, OrgOf[x])
    <3>1. Resume(r, Writes(Joined(db, u, x), {}))
      BY <1>2, <1>3, <1>4, <2>4 DEF AcceptInvite
    <3>2. Step(db, Joined(db, u, x), Changed(db, Joined(db, u, x)))
      BY <1>1, <2>1, <2>2, <2>4, JoinedStep
    <3>3. Step(db, Joined(db, u, x), {} \cup Changed(db, Joined(db, u, x)))
      <4>1. {} \cup Changed(db, Joined(db, u, x)) = Changed(db, Joined(db, u, x))
        OBVIOUS
      <4> QED BY <3>2, <4>1
    <3> QED BY <1>1, <2>2, <3>1, <3>3, ResumeReads
  <2> QED BY <2>3, <2>4
<1>5. CASE DeclineInvite(r)
  <2>1. /\ AtBegin(r, "answerInvite") /\ db[x].status = "pending"
        /\ Resume(r, Writes(Released(x, "declined"), {}))
    BY <1>3, <1>5 DEF DeclineInvite
  <2>2. Known(db, req[r]) /\ x \in Invites
    BY <1>3, <2>1, AtBeginKnown DEF Known
  <2>3. Step(db, Released(x, "declined"), {} \cup Changed(db, Released(x, "declined")))
    BY <1>1, <2>1, <2>2, ReleasedStep DEF InviteStatuses
  <2> QED BY <1>1, <2>1, <2>2, <2>3, ResumeReads
<1>6. CASE CreateOrg(r)
  <2>1. /\ AtBegin(r, "createOrg") /\ db[x].life = "none"
        /\ Resume(r, Writes(Founded(db, x, u), {}))
    BY <1>2, <1>3, <1>6 DEF CreateOrg
  <2>2. Known(db, req[r]) /\ u \in Users /\ db[u].life # "none" /\ x \in Orgs
    BY <1>2, <1>3, <2>1, AtBeginKnown DEF Known
  <2>3. Step(db, Founded(db, x, u), Changed(db, Founded(db, x, u)))
    BY <1>1, <2>1, <2>2, FoundedStep
  <2>4. Step(db, Founded(db, x, u), {} \cup Changed(db, Founded(db, x, u)))
    <3>1. {} \cup Changed(db, Founded(db, x, u)) = Changed(db, Founded(db, x, u))
      OBVIOUS
    <3> QED BY <2>3, <3>1
  <2> QED BY <1>1, <2>1, <2>2, <2>4, ResumeReads
<1>7. CASE SaveRegistration(r)
  <2>1. PICK a : a = req[r].email
    OBVIOUS
  <2>2. PICK e : e = [db EXCEPT ![a] = x]
    OBVIOUS
  <2>3. AtBegin(r, "signup") /\ Install(r, Writes(e, {a}))
    BY <1>3, <1>7, <2>1, <2>2 DEF SaveRegistration
  <2>4. a \in Emails /\ x \in RegistrationDocs /\ {a} \subseteq Docs
    BY <1>3, <2>1, <2>3, AtBeginKnown, Apart DEF Known
  <2>5. Step(db, e, {a} \cup Changed(db, e))
    BY <1>1, <2>2, <2>4, RegistrationStep
  <2> QED BY <2>3, <2>4, <2>5, InstallChanges
<1>8. CASE ChangeEmail(r)
  <2>1. PICK e : e = [db EXCEPT ![u].email = x]
    OBVIOUS
  <2>2. AtBegin(r, "changeEmail") /\ Install(r, Writes(e, {u}))
    BY <1>2, <1>3, <1>8, <2>1 DEF ChangeEmail
  <2>3. u \in Users /\ db[u].life # "none" /\ x \in Emails /\ {u} \subseteq Docs
    BY <1>2, <1>3, <2>2, AtBeginKnown, Apart DEF Known
  <2>4. Step(db, e, {u} \cup Changed(db, e))
    BY <1>1, <2>1, <2>3, ChangeEmailStep
  <2> QED BY <2>2, <2>3, <2>4, InstallChanges
<1>9. CASE DeleteAccount(r)
  <2>1. /\ AtBegin(r, "deleteAccount")
        /\ \A o \in Mine(u) \ Alone(u) : db[<<o, u>>] = "admin" => GuardLastAdmin(o)
        /\ Resume(r, Writes(Deleted(u), {u}))
    BY <1>2, <1>9 DEF DeleteAccount, Mine, Alone, Deleted
  <2>2. Known(db, req[r]) /\ u \in Users /\ {u} \subseteq Docs
    BY <1>2, <2>1, AtBeginKnown, Apart DEF Known
  <2>3. Step(db, Deleted(u), {u} \cup Changed(db, Deleted(u)))
    BY <1>1, <2>1, <2>2, DeletedStep
  <2> QED BY <2>1, <2>2, <2>3, ResumeReads
<1> QED BY <1>4, <1>5, <1>6, <1>7, <1>8, <1>9 DEF Callback

(* The end of a plan, and of a registration.                               *)
LEMMA ExpirePlanChanges ==
  ASSUME SeatsInv, NEW o \in Orgs, ExpirePlan(o)
  PROVE  \E w : Changes(w)
<1>1. PICK e : e = [db EXCEPT ![o].seatLimit = FreeSeats]
  OBVIOUS
<1>2. /\ db[o].life = "live" /\ Write(Writes(e, {o}))
      /\ req' = [q \in Requests |-> AfterCommit(req[q], Writes(e, {o}))]
  BY <1>1 DEF ExpirePlan
<1>3. InOrder(db) /\ {o} \subseteq Docs /\ FreeSeats \in SeatLimits
  BY Apart DEF SeatsInv, SeatLimits
<1>4. Step(db, e, {o} \cup Changed(db, e))
  BY <1>1, <1>2, <1>3, PlanStep
<1> QED BY <1>2, <1>3, <1>4, WriteChanges

LEMMA DropRegistrationChanges ==
  ASSUME SeatsInv, NEW a \in Emails, DropRegistration(a)
  PROVE  \E w : Changes(w)
<1>1. PICK e : e = [db EXCEPT ![a] = "none"]
  OBVIOUS
<1>2. /\ Write(Writes(e, {a}))
      /\ req' = [q \in Requests |-> AfterCommit(req[q], Writes(e, {a}))]
  BY <1>1 DEF DropRegistration
<1>3. InOrder(db) /\ {a} \subseteq Docs /\ "none" \in RegistrationDocs
  BY Apart DEF SeatsInv, RegistrationDocs
<1>4. Step(db, e, {a} \cup Changed(db, e))
  BY <1>1, <1>3, RegistrationStep
<1> QED BY <1>2, <1>3, <1>4, WriteChanges

LEMMA AgeReads ==
  ASSUME SeatsInv, NEW i \in Invites, Age(i)
  PROVE  Reads
  BY DEF SeatsInv, Age, Reads, Pendings

LEMMA NextReadsOrChanges ==
  ASSUME SeatsInv, [Next]_vars
  PROVE  Reads \/ \E w : Changes(w)
<1>1. CASE UNCHANGED vars
  BY <1>1 DEF vars, SeatsInv, Reads
<1>2. CASE \E r \in Requests : Commit(r) \/ Abort(r)
  BY <1>2, CommitChanges, AbortReads
<1>3. CASE \E r \in Requests : Callback(r)
  BY <1>3, CallbackReadsOrChanges
<1>4. CASE \E r \in Requests : \/ \E u \in Users : UserRequest(r, u)
                               \/ \E o \in Orgs : OrgRequest(r, o)
                               \/ \E i \in Invites : InviteRequest(r, i)
                               \/ \E e \in Emails : SignupRequest(r, e)
  BY <1>4, UserRequestReads, OrgRequestReads, InviteRequestReads, SignupRequestReads
<1>5. CASE \/ \E o \in Orgs : ExpirePlan(o)
           \/ \E e \in Emails : DropRegistration(e)
           \/ \E i \in Invites : Age(i)
  BY <1>5, ExpirePlanChanges, DropRegistrationChanges, AgeReads
<1> QED BY <1>1, <1>2, <1>3, <1>4, <1>5 DEF Next

-----------------------------------------------------------------------------
(* Theorems.                                                               *)

LEMMA SeatsInit == Init => SeatsInv
<1> SUFFICES ASSUME Init PROVE SeatsInv
  OBVIOUS
<1>1. /\ db = [x \in Docs |-> db[x]]
      /\ \A o \in Orgs : db[o] = [life |-> "none", seatLimit |-> FreeSeats,
                                  seatsUsed |-> 0, adminCount |-> 0]
      /\ \A i \in Invites : db[i] = [status |-> "none", role |-> "admin"]
      /\ \A u \in Users : db[u] = [life |-> "none", email |-> NoEmail]
      /\ \A e \in Emails : db[e] = "none"
      /\ \A o \in Orgs, u \in Users : db[<<o, u>>] = "none"
  BY Apart DEF Init
<1>2. \A x \in Docs : DocOK(x, db[x])
  <2>1. \A o \in Orgs : db[o] \in OrgDocs
    BY <1>1 DEF OrgDocs, SeatLimits
  <2>2. \A i \in Invites : db[i] \in InviteDocs
    BY <1>1, SeatsAssumption DEF InviteDocs, SeatsAssumption
  <2>3. \A u \in Users : db[u] \in UserDocs
    BY <1>1 DEF UserDocs
  <2>4. \A e \in Emails : db[e] \in RegistrationDocs
    BY <1>1 DEF RegistrationDocs
  <2>5. \A x \in Orgs \X Users : db[x] \in MemberDocs
    BY <1>1 DEF MemberDocs
  <2> QED BY <2>1, <2>2, <2>3, <2>4, <2>5 DEF DocOK
<1>3. \A o \in Orgs : OrgInOrder(db, o)
  BY <1>1 DEF OrgInOrder, Members, Pending
<1>4. \A u \in Users : NotYetIn(db, u)
  BY <1>1 DEF NotYetIn
<1>5. overdue = {} /\ req = [r \in Requests |-> Idle]
  BY DEF Init
<1> QED BY <1>1, <1>2, <1>3, <1>4, <1>5 DEF SeatsInv, InOrder, Typed, RequestOK

LEMMA SeatsNext == SeatsInv /\ [Next]_vars => SeatsInv'
  BY NextReadsOrChanges, ReadsKeep, ChangesKeep

LEMMA SeatsAlways == Spec => []SeatsInv
  BY SeatsInit, SeatsNext, PTL DEF Spec

(* Documents, and what running callbacks write, have their types.          *)
THEOREM TypeCorrect == Spec => []TypeOK
<1>1. SeatsInv => TypeOK
  <2> SUFFICES ASSUME SeatsInv PROVE TypeOK
    OBVIOUS
  <2>1. \A x \in Docs : DocOK(x, db[x])
    BY DEF SeatsInv, InOrder, Typed
  <2>2. overdue \subseteq {i \in Invites : db[i].status = "pending"}
    BY DEF SeatsInv, Pendings
  <2>3. ASSUME NEW r \in Requests, req[r].st = "running", NEW x \in DOMAIN req[r].writes
        PROVE  x \in Docs /\ DocOK(x, req[r].writes[x])
    <3>1. PICK w : w = req[r].writes
      OBVIOUS
    <3>2. Sound(db, w)
      BY <2>3, <3>1 DEF SeatsInv, RequestOK, Known, Idle
    <3>3. x \in Docs /\ Apply(db, w)[x] = w[x] /\ Typed(Apply(db, w))
      BY <2>3, <3>1, <3>2, ApplyIs DEF Sound, Step, InOrder
    <3> QED BY <3>1, <3>3 DEF Typed
  <2> QED BY <2>1, <2>2, <2>3 DEF TypeOK
<1> QED BY <1>1, SeatsAlways, PTL

(* The seat count and the administrator count of a live organization are   *)
(* what they count, however the requests that change them interleave.      *)
THEOREM CountersCorrect == Spec => []CountersExact
<1>1. SeatsInv => CountersExact
  BY DEF SeatsInv, InOrder, OrgInOrder, CountersExact
<1> QED BY <1>1, SeatsAlways, PTL

(* A live organization has an administrator, and one that was removed has  *)
(* neither members nor pending invites.                                    *)
THEOREM OrgsCorrect == Spec => []OrgsInOrder
<1>1. SeatsInv => OrgsInOrder
  BY DEF SeatsInv, InOrder, OrgInOrder, OrgsInOrder, SomeAdmin, NothingLeftBehind
<1> QED BY <1>1, SeatsAlways, PTL

(* No step takes a seat the plan does not have; who joins uses up a        *)
(* pending invite, and an invite that was answered is not used again.      *)
THEOREM SeatsHandedOnCorrect == Spec => SeatsHandedOn
<1> DEFINE WithinPlan ==
             \A o \in Orgs :
               db[o].life = "live" /\ db'[o].seatsUsed > db[o].seatsUsed =>
                 db'[o].seatsUsed <= db'[o].seatLimit
           UsedOnce ==
             /\ \A o \in Orgs, u \in Users :
                  db[o].life = "live" /\ u \in Members(db', o) \ Members(db, o) =>
                    Cardinality(Pending(db, o)) = Cardinality(Pending(db', o)) + 1
             /\ \A i \in Invites :
                  db[i].status \notin {"none", "pending"} =>
                    db'[i].status \in {db[i].status, "gone"}
<1>1. ASSUME SeatsInv, [Next]_vars PROVE WithinPlan /\ UsedOnce
  <2>1. CASE UNCHANGED db
    <3>1. \A o \in Orgs : db[o].seatsUsed \in Int
      BY <1>1, Types DEF SeatsInv, InOrder, OrgDocs
    <3> QED BY <2>1, <3>1
  <2>2. ASSUME NEW w, Changes(w) PROVE WithinPlan /\ UsedOnce
    <3>1. Step(db, db', DOMAIN w)
      BY <2>2 DEF Changes, Sound, Write
    <3>2. WithinPlan
      BY <3>1 DEF Step, Counted
    <3>3. ASSUME NEW o \in Orgs, NEW u \in Users, db[o].life = "live",
                 u \in Members(db', o) \ Members(db, o)
          PROVE  Cardinality(Pending(db, o)) = Cardinality(Pending(db', o)) + 1
      <4>1. PICK P, Q : P = Pending(db, o) /\ Q = Pending(db', o)
        OBVIOUS
      <4>2. PICK i : Q \subseteq P /\ P \ Q = {i}
        BY <3>1, <3>3, <4>1 DEF Step, Counted, Joining, Closing
      <4>3. i \notin Q /\ P = Q \cup {i} /\ IsFiniteSet(P)
        BY <4>1, <4>2, Finite
      <4>4. IsFiniteSet(Q)
        BY <4>2, <4>3, FS_Subset
      <4> QED BY <4>1, <4>3, <4>4, Plus
    <3>4. \A i \in Invites : db[i].status \notin {"none", "pending"} =>
            db'[i].status \in {db[i].status, "gone"}
      BY <3>1 DEF Step, InviteKept
    <3> QED BY <3>2, <3>3, <3>4
  <2> QED BY <1>1, <2>1, <2>2, NextReadsOrChanges DEF Reads
<1>2. SeatsInv /\ [Next]_vars => [WithinPlan]_vars /\ [UsedOnce]_vars
  BY <1>1
<1>3. Spec => [][WithinPlan]_vars /\ [][UsedOnce]_vars
  <2> HIDE DEF WithinPlan, UsedOnce
  <2> QED BY <1>2, SeatsAlways, PTL DEF Spec
<1> QED BY <1>3 DEF SeatsHandedOn, NoSeatOverPlan, OneSeatPerInvite
=============================================================================
