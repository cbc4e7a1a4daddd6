------------------------------- MODULE Seats -------------------------------
(***************************************************************************)
(* The seats of workspaces: invites and memberships against the counters   *)
(* seatsUsed and adminCount (invites.service.ts, members.service.ts), with *)
(* the three ways a person comes and goes: an account made from a          *)
(* confirmed sign-up, a workspace created, an account deleted              *)
(* (auth.service.ts, orgs.service.ts).                                     *)
(*                                                                         *)
(* Requests are MongoDB transactions as in PlanUsage: a callback reads a   *)
(* snapshot, which fixes what it writes; a commit sends every other        *)
(* running callback that writes one of the same documents back to its      *)
(* start; what was read before the transaction stays as it was read.       *)
(***************************************************************************)
EXTENDS Integers, FiniteSets

CONSTANTS
  Requests,   \* requests in flight at once
  Orgs,       \* ids of organizations
  Users,      \* ids of accounts
  Emails,     \* addresses
  Newcomers,  \* the addresses that sign up
  Movers,     \* the addresses that accounts change to
  Invites,    \* ids of invites
  OrgOf,      \* the organization an invite is for
  SentTo,     \* the address it was sent to
  Roles,      \* "admin" and at least one other
  FreeSeats,  \* seatLimit of the Free plan
  PaidSeats,  \* the seat limits of the other plans
  NoEmail,    \* the placeholder address of a deleted account
  Ops         \* the kinds of request there are

ASSUME SeatsAssumption ==
  /\ IsFiniteSet(Users) /\ IsFiniteSet(Invites)
  /\ Orgs \cap (Users \cup Emails \cup Invites) = {}
  /\ Users \cap (Emails \cup Invites) = {}
  /\ Emails \cap Invites = {}
  /\ (Orgs \X Users) \cap (Orgs \cup Users \cup Emails \cup Invites) = {}
  /\ Invites \cap {"none", "user", "organization"} = {}
  /\ OrgOf \in [Invites -> Orgs]
  /\ SentTo \in [Invites -> Emails]
  /\ NoEmail \notin Emails
  /\ Newcomers \cup Movers \subseteq Emails
  /\ "admin" \in Roles
  /\ "none" \notin Roles
  /\ FreeSeats \in Nat
  /\ PaidSeats \subseteq Nat

VARIABLES
  db,       \* the committed documents
  overdue,  \* pending invites whose expiresAt has passed
  req       \* what each request is doing

vars == <<db, overdue, req>>

(* The pending registration of an address is kept under the address.       *)
Docs == Orgs \cup Users \cup Emails \cup Invites \cup (Orgs \X Users)

SeatLimits == {FreeSeats} \cup PaidSeats

OrgDocs == [life : {"none", "live", "gone"}, seatLimit : SeatLimits,
            seatsUsed : Int, adminCount : Int]
(* "gone": removed together with its organization.                         *)
InviteDocs == [status : {"none", "pending", "accepted", "declined", "revoked",
                         "expired", "gone"},
               role : Roles]
UserDocs == [life : {"none", "active", "deleted"}, email : Emails \cup {NoEmail}]
MemberDocs == Roles \cup {"none"}
(* What a sign-up that waits for its confirmation will create.             *)
RegistrationDocs == {"none", "user", "organization"} \cup Invites

-----------------------------------------------------------------------------
(* What the services ask of documents d.                                   *)

Members(d, o) == {u \in Users : d[<<o, u>>] # "none"}
Admins(d, o) == {u \in Users : d[<<o, u>>] = "admin"}
Pending(d, o) == {i \in Invites : OrgOf[i] = o /\ d[i].status = "pending"}
SeatsTaken(d, o) == Cardinality(Members(d, o)) + Cardinality(Pending(d, o))
Holds(d, e) == {u \in Users : d[u].life # "none" /\ d[u].email = e}

(* The unique indexes a commit is refused by: one account per address, one *)
(* pending invite per organization and address.                            *)
UniqueIndexes(d) ==
  /\ \A e \in Emails : Cardinality(Holds(d, e)) <= 1
  /\ \A i, j \in Invites :
       /\ i # j
       /\ OrgOf[i] = OrgOf[j]
       /\ SentTo[i] = SentTo[j]
       => ~(d[i].status = "pending" /\ d[j].status = "pending")

-----------------------------------------------------------------------------
(* Transactions.                                                           *)

Idle == [st |-> "idle"]

(* What a request knows before its transaction: the account it acts for    *)
(* with the address it had, or the address it is about, and a document.    *)
Checked(op, who, email, doc) ==
  [st |-> "checked", op |-> op, who |-> who, email |-> email, doc |-> doc]

Running(chk, writes) == [st |-> "running", chk |-> chk, writes |-> writes]

(* The documents an image changes, and those it writes all the same.       *)
Writes(image, docs) ==
  [x \in docs \cup {y \in Docs : image[y] # db[y]} |-> image[x]]

Apply(d, w) == [x \in Docs |-> IF x \in DOMAIN w THEN w[x] ELSE d[x]]

(* $inc of the counters of an organization.                                *)
Count(d, o, seats, admins) ==
  [d EXCEPT ![o].seatsUsed = @ + seats, ![o].adminCount = @ + admins]

IsAdmin(role) == IF role = "admin" THEN 1 ELSE 0

AfterCommit(q, w) ==
  IF q.st = "running" /\ DOMAIN q.writes \cap DOMAIN w # {} THEN q.chk ELSE q

(* One run of a callback.                                                  *)
Begin(r, chk, writes) ==
  /\ req' = [req EXCEPT ![r] = Running(chk, writes)]
  /\ UNCHANGED <<db, overdue>>

BeginNew(r, op, writes) ==
  /\ op \in Ops
  /\ req[r] = Idle
  /\ Begin(r, Idle, writes)

Resume(r, writes) == Begin(r, req[r], writes)

Check(r, op, who, email, doc) ==
  /\ op \in Ops
  /\ req[r] = Idle
  /\ req' = [req EXCEPT ![r] = Checked(op, who, email, doc)]
  /\ UNCHANGED <<db, overdue>>

AtBegin(r, op) == req[r].st = "checked" /\ req[r].op = op

(* The documents become what w says; the date of an invite matters while   *)
(* it is pending.                                                          *)
Write(w) ==
  /\ db' = Apply(db, w)
  /\ overdue' = {i \in overdue : Apply(db, w)[i].status = "pending"}

Install(r, w) ==
  /\ UniqueIndexes(Apply(db, w))
  /\ Write(w)
  /\ req' = [q \in Requests |-> IF q = r THEN Idle ELSE AfterCommit(req[q], w)]

Commit(r) ==
  /\ req[r].st = "running"
  /\ Install(r, req[r].writes)

Abort(r) ==
  /\ req[r] # Idle
  /\ req' = [req EXCEPT ![r] = Idle]
  /\ UNCHANGED <<db, overdue>>

(* authenticate lets an account in that is active, and the handler reads   *)
(* its address (currentUserEmail). An invite that could not be answered    *)
(* with it, or an id that is taken, is not worth a request.                *)
Arrive(r, op, u, doc) ==
  /\ db[u].life = "active"
  /\ Check(r, op, u, db[u].email, doc)

-----------------------------------------------------------------------------
(* Invites.                                                                *)

(* Pending invites of o past their date.                                   *)
Stale(o) == Pending(db, o) \cap overdue

SetStatus(d, S, status) ==
  [x \in Docs |-> IF x \in S THEN [d[x] EXCEPT !.status = status] ELSE d[x]]

(* Mutant of Reconciled: the stale invites are not marked first.           *)
Reconciled_KeepStale(o) ==
  [db EXCEPT ![o].seatsUsed = Cardinality(Members(db, o))
                              + Cardinality(Pending(db, o) \ overdue),
             ![o].adminCount = Cardinality(Admins(db, o))]

(* reconcileSeats: stale invites give up their seat, and both counters are *)
(* recounted from the snapshot.                                            *)
Reconciled(o) ==
  LET d == SetStatus(db, Stale(o), "expired")
  IN  [d EXCEPT ![o].seatsUsed = SeatsTaken(d, o),
                ![o].adminCount = Cardinality(Admins(d, o))]

(* The recount on its own: opening the organization or the dashboard.      *)
ReconcileSeats(r, o) ==
  /\ db[o].life = "live"
  /\ BeginNew(r, "reconcile", Writes(Reconciled(o), {}))

(* Mutant of HasSeat: the boundary is let through.                         *)
HasSeat_AtLimit(d, o) == d[o].seatsUsed <= d[o].seatLimit

(* The condition of reserveSeat.                                           *)
HasSeat(d, o) == d[o].seatsUsed < d[o].seatLimit

(* createInvite: recount, refuse a member, replace a pending invite to the *)
(* same address if asked to, take a seat.                                  *)
CreateInvite(r, i, role) ==
  LET o    == OrgOf[i]
      d    == Reconciled(o)
      old  == {j \in Pending(d, o) : SentTo[j] = SentTo[i]}
      freed == Count(SetStatus(d, old, "revoked"), o, -Cardinality(old), 0)
      new  == [freed EXCEPT ![i] = [status |-> "pending", role |-> role]]
  IN  /\ db[o].life = "live"
      /\ db[i].status = "none"
      /\ \A u \in Members(db, o) : db[u].email # SentTo[i]
      /\ HasSeat(freed, o)
      /\ BeginNew(r, "invite", Writes(Count(new, o, 1, 0), {o}))

(* expireStaleInvites, when the pending invites are listed.                *)
ListPendingInvites(r, o) ==
  /\ db[o].life = "live"
  /\ Stale(o) # {}
  /\ BeginNew(r, "listInvites",
       Writes(Count(SetStatus(db, Stale(o), "expired"), o, -Cardinality(Stale(o)), 0), {}))

(* A pending invite gives its seat back.                                   *)
Released(i, status) == Count(SetStatus(db, {i}, status), OrgOf[i], -1, 0)

RevokeInvite(r, i) ==
  /\ db[i].status = "pending"
  /\ BeginNew(r, "revokeInvite", Writes(Released(i, "revoked"), {}))

(* Mutant of Joined: the administrator counter is forgotten.               *)
Joined_NotCounted(d, u, i) ==
  [SetStatus(d, {i}, "accepted") EXCEPT ![<<OrgOf[i], u>>] = d[i].role]

(* The invite's seat becomes the membership's.                             *)
Joined(d, u, i) ==
  Count([SetStatus(d, {i}, "accepted") EXCEPT ![<<OrgOf[i], u>>] = d[i].role],
        OrgOf[i], 0, IsAdmin(d[i].role))

Valid(i) == db[i].status = "pending" /\ i \notin overdue

(* Mutant of AcceptInvite: the seat of a second invite is kept.            *)
AcceptInvite_KeepSeat(r) ==
  LET i == req[r].doc
      u == req[r].who
  IN  /\ AtBegin(r, "answerInvite")
      /\ Valid(i)
      /\ SentTo[i] = req[r].email
      /\ Resume(r, Writes(IF u \in Members(db, OrgOf[i]) THEN SetStatus(db, {i}, "accepted")
                          ELSE Joined(db, u, i), {}))

(* Mutant of AcceptInvite: an answered invite is taken once more.          *)
AcceptInvite_Again(r) ==
  LET i == req[r].doc
      u == req[r].who
  IN  /\ AtBegin(r, "answerInvite")
      /\ db[i].status \in {"pending", "accepted"}
      /\ SentTo[i] = req[r].email
      /\ Resume(r, Writes(IF u \in Members(db, OrgOf[i]) THEN Released(i, "accepted")
                          ELSE Joined(db, u, i), {}))

(* acceptPendingInvite: neither the account nor its address is read again, *)
(* and someone who is a member already only frees the seat.                *)
AcceptInvite(r) ==
  LET i == req[r].doc
      u == req[r].who
  IN  /\ AtBegin(r, "answerInvite")
      /\ Valid(i)
      /\ SentTo[i] = req[r].email
      /\ Resume(r, Writes(IF u \in Members(db, OrgOf[i]) THEN Released(i, "accepted")
                          ELSE Joined(db, u, i), {}))

(* Its date does not matter here.                                          *)
DeclineInvite(r) ==
  LET i == req[r].doc
  IN  /\ AtBegin(r, "answerInvite")
      /\ db[i].status = "pending"
      /\ SentTo[i] = req[r].email
      /\ Resume(r, Writes(Released(i, "declined"), {}))

-----------------------------------------------------------------------------
(* Members.                                                                *)

(* Mutant of GuardLastAdmin: the condition lets the last one go.           *)
GuardLastAdmin_Off(o) == db[o].adminCount > 0

GuardLastAdmin(o) == db[o].adminCount > 1

ChangeMemberRole(r, o, u, role) ==
  LET was  == db[<<o, u>>]
      step == IsAdmin(role) - IsAdmin(was)
  IN  /\ u \in Members(db, o)
      /\ role # was
      /\ step = -1 => GuardLastAdmin(o)
      /\ BeginNew(r, "changeRole",
           Writes(Count([db EXCEPT ![<<o, u>>] = role], o, 0, step), {}))

(* removeMember: a member removed by another, or leaving.                  *)
RemoveMember(r, o, u) ==
  LET was == db[<<o, u>>]
  IN  /\ u \in Members(db, o)
      /\ was = "admin" => GuardLastAdmin(o)
      /\ BeginNew(r, "removeMember",
           Writes(Count([db EXCEPT ![<<o, u>>] = "none"], o, -1, -IsAdmin(was)), {}))

-----------------------------------------------------------------------------
(* Organizations.                                                          *)

(* A new organization with its first administrator.                        *)
Founded(d, o, u) ==
  [d EXCEPT ![o] = [life |-> "live", seatLimit |-> FreeSeats,
                    seatsUsed |-> 1, adminCount |-> 1],
            ![<<o, u>>] = "admin"]

CreateOrg(r) ==
  /\ AtBegin(r, "createOrg")
  /\ db[req[r].doc].life = "none"
  /\ Resume(r, Writes(Founded(db, req[r].doc, req[r].who), {}))

(* Mutant of ChangePlan: one seat too many.                                *)
ChangePlan_SeatMore(r, o, limit) ==
  /\ db[o].life = "live"
  /\ db[o].seatsUsed <= limit
  /\ BeginNew(r, "changePlan", Writes([db EXCEPT ![o].seatLimit = limit + 1], {o}))

(* changePlan, after a recount of its own: usage must fit the new plan.    *)
ChangePlan(r, o, limit) ==
  /\ db[o].life = "live"
  /\ db[o].seatsUsed <= limit
  /\ BeginNew(r, "changePlan", Writes([db EXCEPT ![o].seatLimit = limit], {o}))

(* expirePlanIfDue: one conditional update, whatever the usage is.         *)
ExpirePlan(o) ==
  LET w == Writes([db EXCEPT ![o].seatLimit = FreeSeats], {o})
  IN  /\ "expirePlan" \in Ops
      /\ db[o].life = "live"
      /\ Write(w)
      /\ req' = [q \in Requests |-> AfterCommit(req[q], w)]

-----------------------------------------------------------------------------
(* Accounts.                                                               *)

(* register and signupViaInvite look whether the address has an account    *)
(* and the invite is valid, hash the password, and then save.              *)
CheckSignup(r, e, kind) ==
  /\ e \in Newcomers
  /\ Holds(db, e) = {}
  /\ kind \in Invites => Valid(kind) /\ SentTo[kind] = e
  /\ Check(r, "signup", e, e, kind)

(* Replaces whatever registration waited under the address.                *)
SaveRegistration(r) ==
  /\ AtBegin(r, "signup")
  /\ Install(r, Writes([db EXCEPT ![req[r].email] = req[r].doc], {req[r].email}))

(* The registration's hour is over, or its email could not be sent.        *)
DropRegistration(e) ==
  LET w == Writes([db EXCEPT ![e] = "none"], {e})
  IN  /\ "signup" \in Ops
      /\ db[e] # "none"
      /\ Write(w)
      /\ req' = [q \in Requests |-> AfterCommit(req[q], w)]

(* verifyRegistration: the account, and the membership or organization it  *)
(* was wanted for, in one transaction.                                     *)
VerifyRegistration(r, e, u, o) ==
  LET kind == db[e]
      new  == [db EXCEPT ![u] = [life |-> "active", email |-> e], ![e] = "none"]
  IN  /\ kind # "none"
      /\ db[u].life = "none"
      /\ kind \in Invites => Valid(kind) /\ SentTo[kind] = e
      /\ kind = "organization" => db[o].life = "none"
      /\ BeginNew(r, "verify",
           Writes(IF kind \in Invites THEN Joined(new, u, kind)
                  ELSE IF kind = "organization" THEN Founded(new, o, u)
                  ELSE new, {}))

(* verifyEmailChange: one save of the account that was found by its link.  *)
ChangeEmail(r) ==
  /\ AtBegin(r, "changeEmail")
  /\ Install(r, Writes([db EXCEPT ![req[r].who].email = req[r].doc], {req[r].who}))

(* Mutant of Wiped: the invites stay.                                      *)
Wiped_KeepInvites(d, S) ==
  [x \in Docs |-> IF x \in S THEN [d[x] EXCEPT !.life = "gone"]
                  ELSE IF x \in S \X Users THEN "none" ELSE d[x]]

(* deleteOrganizationData, for the organizations S.                        *)
Wiped(d, S) ==
  [x \in Docs |->
     IF x \in S THEN [d[x] EXCEPT !.life = "gone"]
     ELSE IF x \in Invites /\ d[x].status # "none" /\ OrgOf[x] \in S
          THEN [d[x] EXCEPT !.status = "gone"]
     ELSE IF x \in S \X Users THEN "none" ELSE d[x]]

(* Account u is deleted and has left the organizations S.                  *)
Left(u, S) ==
  [x \in Docs |->
     IF x = u THEN [life |-> "deleted", email |-> NoEmail]
     ELSE IF x \in S
          THEN [db[x] EXCEPT !.seatsUsed = @ - 1,
                             !.adminCount = @ - IsAdmin(db[<<x, u>>])]
     ELSE IF x \in S \X {u} THEN "none" ELSE db[x]]

(* An account leaves all its organizations; one nobody else is in goes     *)
(* with it, and of one with others it must not be the only administrator.  *)
DeleteAccount(r) ==
  LET u     == req[r].who
      mine  == {o \in Orgs : u \in Members(db, o)}
      alone == {o \in mine : Members(db, o) = {u}}
  IN  /\ AtBegin(r, "deleteAccount")
      /\ \A o \in mine \ alone : db[<<o, u>>] = "admin" => GuardLastAdmin(o)
      /\ Resume(r, Writes(Wiped(Left(u, mine \ alone), alone), {u}))

(* The date of an invite passes.                                           *)
Age(i) ==
  /\ "age" \in Ops
  /\ db[i].status = "pending"
  /\ overdue' = overdue \cup {i}
  /\ UNCHANGED <<db, req>>

-----------------------------------------------------------------------------
Init ==
  /\ db = [x \in Docs |->
             IF x \in Orgs THEN [life |-> "none", seatLimit |-> FreeSeats,
                                 seatsUsed |-> 0, adminCount |-> 0]
             ELSE IF x \in Invites THEN [status |-> "none", role |-> "admin"]
             ELSE IF x \in Users THEN [life |-> "none", email |-> NoEmail]
             ELSE "none"]
  /\ overdue = {}
  /\ req = [r \in Requests |-> Idle]

UserRequest(r, u) ==
  \/ \E i \in Invites :
       /\ db[i].status = "pending"
       /\ SentTo[i] = db[u].email
       /\ Arrive(r, "answerInvite", u, i)
  \/ \E e \in Movers \ {db[u].email} : Arrive(r, "changeEmail", u, e)
  \/ \E o \in Orgs : db[o].life = "none" /\ Arrive(r, "createOrg", u, o)
  \/ Arrive(r, "deleteAccount", u, "none")

OrgRequest(r, o) ==
  \/ ReconcileSeats(r, o)
  \/ ListPendingInvites(r, o)
  \/ \E u \in Users : RemoveMember(r, o, u)
  \/ \E u \in Users, role \in Roles : ChangeMemberRole(r, o, u, role)
  \/ \E limit \in SeatLimits : ChangePlan(r, o, limit)

InviteRequest(r, i) ==
  \/ \E role \in Roles : CreateInvite(r, i, role)
  \/ RevokeInvite(r, i)

SignupRequest(r, e) ==
  \/ \E kind \in RegistrationDocs \ {"none"} : CheckSignup(r, e, kind)
  \/ \E u \in Users, o \in Orgs : VerifyRegistration(r, e, u, o)

Callback(r) ==
  \/ AcceptInvite(r)
  \/ DeclineInvite(r)
  \/ CreateOrg(r)
  \/ SaveRegistration(r)
  \/ ChangeEmail(r)
  \/ DeleteAccount(r)

Next ==
  \/ \E r \in Requests :
       \/ \E u \in Users : UserRequest(r, u)
       \/ \E o \in Orgs : OrgRequest(r, o)
       \/ \E i \in Invites : InviteRequest(r, i)
       \/ \E e \in Emails : SignupRequest(r, e)
       \/ Callback(r)
       \/ Commit(r)
       \/ Abort(r)
  \/ \E o \in Orgs : ExpirePlan(o)
  \/ \E e \in Emails : DropRegistration(e)
  \/ \E i \in Invites : Age(i)

Spec == Init /\ [][Next]_vars

-----------------------------------------------------------------------------
DocOK(x, doc) ==
  /\ x \in Orgs => doc \in OrgDocs
  /\ x \in Invites => doc \in InviteDocs
  /\ x \in Users => doc \in UserDocs
  /\ x \in Emails => doc \in RegistrationDocs
  /\ x \in Orgs \X Users => doc \in MemberDocs

(* Documents, and what running callbacks write, have their types.          *)
TypeOK ==
  /\ \A x \in Docs : DocOK(x, db[x])
  /\ overdue \subseteq {i \in Invites : db[i].status = "pending"}
  /\ \A r \in Requests : req[r].st = "running" =>
       \A x \in DOMAIN req[r].writes : x \in Docs /\ DocOK(x, req[r].writes[x])

(* The counters of a live organization are what they count, however the    *)
(* requests that keep them in step interleave: a seat is held by an invite *)
(* and then by a membership, and given back exactly once ("The stored seat *)
(* count is a running total that every invite and membership change keeps  *)
(* in step").                                                              *)
CountersExact ==
  \A o \in Orgs : db[o].life = "live" =>
    /\ db[o].seatsUsed = SeatsTaken(db, o)
    /\ db[o].adminCount = Cardinality(Admins(db, o))

(* A live organization has an administrator: two who step down, leave or   *)
(* delete their accounts at once cannot both do it (guardLastAdmin).       *)
SomeAdmin == \A o \in Orgs : db[o].life = "live" => Admins(db, o) # {}

(* No step takes a seat the plan does not have, even when the plan changes *)
(* while the invite is made (reserveSeat).                                 *)
NoSeatOverPlan ==
  [][\A o \in Orgs :
       db[o].life = "live" /\ db'[o].seatsUsed > db[o].seatsUsed =>
         db'[o].seatsUsed <= db'[o].seatLimit]_vars

(* Of an organization that was removed nothing stays that holds a seat or  *)
(* lets anyone in, whatever was answered at the same time                  *)
(* (deleteOrganizationData).                                               *)
NothingLeftBehind ==
  \A o \in Orgs : db[o].life # "live" => Members(db, o) = {} /\ Pending(db, o) = {}

(* Whoever joins an organization that exists uses up one invite to it that *)
(* was pending, and an invite is used once: one that was answered, revoked *)
(* or has expired stays so.                                                *)
OneSeatPerInvite ==
  [][/\ \A o \in Orgs, u \in Users :
          db[o].life = "live" /\ u \in Members(db', o) \ Members(db, o) =>
            Cardinality(Pending(db, o)) = Cardinality(Pending(db', o)) + 1
     /\ \A i \in Invites :
          db[i].status \notin {"none", "pending"} =>
            db'[i].status \in {db[i].status, "gone"}]_vars

(* Seats are taken within the plan and handed on from invites to members.  *)
SeatsHandedOn == NoSeatOverPlan /\ OneSeatPerInvite

(* Every member is an account that can still sign in.                      *)
NoGhosts ==
  \A o \in Orgs : \A u \in Members(db, o) : db[u].life = "active"

(* A deleted account holds no address ("the email is released so the       *)
(* person can sign up again").                                             *)
AddressReleased ==
  \A u \in Users : db[u].life = "deleted" => db[u].email = NoEmail

(* An organization has an administrator while it lives, and when it is     *)
(* removed nobody and no invite of it is left.                             *)
OrgsInOrder == SomeAdmin /\ NothingLeftBehind

=============================================================================
