------------------------------- MODULE Links -------------------------------
(***************************************************************************)
(* The links one person is sent (auth.service.ts): to set a new password,  *)
(* to confirm a new address, and to finish a sign-up.                      *)
(*                                                                         *)
(* A link is issued by storing its hash in a document, and then sent; if   *)
(* sending fails what was stored is taken back. A document that was read   *)
(* is saved later with the fields that were changed in memory, whatever    *)
(* has become of it meanwhile.                                             *)
(***************************************************************************)
EXTENDS Integers, FiniteSets

CONSTANTS
  Addresses,     \* the addresses the account may change to
  LinkRequests,  \* requests in flight at once
  MaxLinks,      \* bound: links ever issued
  LinkMixes      \* the sets of operations looked at together

(* The three kinds of links have documents or fields of their own, and are *)
(* looked at one after the other.                                          *)
ASSUME LinksAssumption ==
  /\ MaxLinks \in Nat
  /\ "none" \notin LinkRequests /\ {"own", "none"} \cap Addresses = {}
  /\ \A m \in LinkMixes : \E op \in {"reset", "change", "signup"} : m \subseteq {op}

VARIABLES
  flow,     \* the operations of this behaviour
  link,     \* the links in the order they were issued
  user,     \* of the account: the hash for a new password; email,
            \* pendingEmail and the hash to confirm that
  signup,   \* the PendingRegistration of an address that has no account yet
  joined,   \* the account that was made of it, and the SignupClaim
  lreq,     \* what each request is doing
  mingled   \* a document was saved that had changed since it was read or whose
            \* link was being sent, or a link was stored and not sent (history)

linkVars == <<flow, link, user, signup, joined, lreq, mingled>>

LinkIds == 1..MaxLinks
Own == "own"
Nowhere == "none"

(* sentTo: where the link was delivered; uses: how often it did its work;  *)
(* "young" within its first minute (RESEND_COOLDOWN_MS), "old" when it has *)
(* expired.                                                                *)
LinkDocs == [sentTo : Addresses \cup {Own, Nowhere}, uses : 0..2,
             age : {"none", "young", "grown", "old"}]
Unissued == [sentTo |-> Nowhere, uses |-> 0, age |-> "none"]
NextLink == 1 + Cardinality({n \in LinkIds : link[n].age # "none"})

UserDocs == [reset : 0..MaxLinks, email : Addresses \cup {Own},
             pending : Addresses \cup {Nowhere}, hash : 0..MaxLinks]

(* by: the browser that signed up, which knows the password it chose and   *)
(* the secret it was given; sent: the link lastSentAt is of.               *)
SignupDocs == [st : {"none", "waiting"}, by : LinkRequests \cup {Nowhere},
               hash : 0..MaxLinks, sent : 0..MaxLinks]
NoSignup == [st |-> "none", by |-> Nowhere, hash |-> 0, sent |-> 0]

Waiting == [st |-> "idle"]
At(r, st) == lreq[r].st = st
Then(r, q) == lreq' = [lreq EXCEPT ![r] = q] /\ UNCHANGED flow
Opens(r, op, q) == op \in flow /\ lreq[r] = Waiting /\ Then(r, q)

Valid(n) == n \in {m \in LinkIds : link[m].sentTo # Nowhere /\ link[m].age # "old"}
Cooled(n) == n \notin {m \in LinkIds : link[m].age = "young"}

Sending(r) ==
  \E o \in LinkRequests \ {r} : lreq[o].st \in {"sendChange", "sendSignup", "sendAgain"}

Issues(n) == n <= MaxLinks /\ link' = [link EXCEPT ![n] = [Unissued EXCEPT !.age = "young"]]
Delivers(n, a) == link' = [link EXCEPT ![n].sentTo = a]
Uses(n) == link' = [link EXCEPT ![n].uses = @ + 1]

-----------------------------------------------------------------------------
(* requestPasswordReset, unless a link was sent a moment ago.              *)
FindForReset(r) ==
  /\ Cooled(user.reset)
  /\ Opens(r, "reset", [st |-> "saveReset"])
  /\ UNCHANGED <<link, user, signup, joined, mingled>>

SaveReset(r) ==
  LET n == NextLink
  IN  /\ At(r, "saveReset")
      /\ Issues(n)
      /\ user' = [user EXCEPT !.reset = n]
      /\ Then(r, [st |-> "sendReset", link |-> n])
      /\ UNCHANGED <<signup, joined, mingled>>

SendReset(r) ==
  /\ At(r, "sendReset")
  /\ Delivers(lreq[r].link, Own)
  /\ Then(r, Waiting)
  /\ UNCHANGED <<user, signup, joined, mingled>>

(* Mutant of TakeBackReset: whatever link is stored by now.                *)
TakeBackReset_Any(r) ==
  /\ At(r, "sendReset")
  /\ user' = [user EXCEPT !.reset = 0]
  /\ Then(r, Waiting)
  /\ UNCHANGED <<link, signup, joined, mingled>>

(* Sending failed: only this link is taken back.                           *)
TakeBackReset(r) ==
  /\ At(r, "sendReset")
  /\ user' = [user EXCEPT !.reset = IF @ = lreq[r].link THEN 0 ELSE @]
  /\ Then(r, Waiting)
  /\ UNCHANGED <<link, signup, joined, mingled>>

(* resetPassword: find, hash the new password, update if still there.      *)
OpenReset(r) ==
  /\ Valid(user.reset)
  /\ Opens(r, "reset", [st |-> "setPassword", link |-> user.reset])
  /\ UNCHANGED <<link, user, signup, joined, mingled>>

(* Mutant of SetPassword: what was found is good enough.                   *)
SetPassword_Found(r) ==
  /\ At(r, "setPassword")
  /\ user' = [user EXCEPT !.reset = 0]
  /\ Uses(lreq[r].link)
  /\ Then(r, Waiting)
  /\ UNCHANGED <<signup, joined, mingled>>

SetPassword(r) ==
  LET n == lreq[r].link
  IN  /\ At(r, "setPassword")
      /\ user.reset = n
      /\ link[n].age # "old"
      /\ user' = [user EXCEPT !.reset = 0]
      /\ Uses(n)
      /\ Then(r, Waiting)
      /\ UNCHANGED <<signup, joined, mingled>>

-----------------------------------------------------------------------------
(* requestEmailChange, resendEmailChange, cancelEmailChange and            *)
(* verifyEmailChange read the account,                                     *)
ReadOfUser == [pending |-> user.pending, hash |-> user.hash]

(* Saving writes the fields in which want differs from what is in memory.  *)
Saved(seen, want) ==
  [user EXCEPT !.pending = IF want.pending # seen.pending THEN want.pending ELSE @,
               !.hash = IF want.hash # seen.hash THEN want.hash ELSE @]

Mingles(r, seen) == mingled' = (mingled \/ ReadOfUser # seen \/ Sending(r))

RequestEmailChange(r, a) ==
  /\ a # user.email
  /\ Opens(r, "change", [st |-> "saveChange", to |-> a, seen |-> ReadOfUser])
  /\ UNCHANGED <<link, user, signup, joined, mingled>>

ResendEmailChange(r) ==
  /\ user.pending # Nowhere
  /\ Cooled(user.hash)
  /\ Opens(r, "change", [st |-> "saveChange", to |-> user.pending, seen |-> ReadOfUser])
  /\ UNCHANGED <<link, user, signup, joined, mingled>>

SaveChange(r) ==
  LET q == lreq[r]
      n == NextLink
  IN  /\ At(r, "saveChange")
      /\ Issues(n)
      /\ user' = Saved(q.seen, [pending |-> q.to, hash |-> n])
      /\ Then(r, [st |-> "sendChange", to |-> q.to, link |-> n, seen |-> q.seen])
      /\ Mingles(r, q.seen)
      /\ UNCHANGED <<signup, joined>>

SendChange(r) ==
  LET q == lreq[r]
  IN  /\ At(r, "sendChange")
      /\ Delivers(q.link, q.to)
      /\ Then(r, Waiting)
      /\ UNCHANGED <<user, signup, joined, mingled>>

(* Mutant of RestoreChange: the address is left.                           *)
RestoreChange_KeepAddress(r) ==
  LET q   == lreq[r]
      now == [pending |-> q.to, hash |-> q.link]
  IN  /\ At(r, "sendChange")
      /\ user' = Saved(now, [q.seen EXCEPT !.pending = q.to])
      /\ Then(r, Waiting)
      /\ Mingles(r, now)
      /\ UNCHANGED <<link, signup, joined>>

(* Sending failed: what was there before is put back.                      *)
RestoreChange(r) ==
  LET q   == lreq[r]
      now == [pending |-> q.to, hash |-> q.link]
  IN  /\ At(r, "sendChange")
      /\ user' = Saved(now, q.seen)
      /\ Then(r, Waiting)
      /\ Mingles(r, now)
      /\ UNCHANGED <<link, signup, joined>>

CancelEmailChange(r) ==
  /\ Opens(r, "change", [st |-> "saveCancel", seen |-> ReadOfUser])
  /\ UNCHANGED <<link, user, signup, joined, mingled>>

SaveCancel(r) ==
  /\ At(r, "saveCancel")
  /\ user' = Saved(lreq[r].seen, [pending |-> Nowhere, hash |-> 0])
  /\ Then(r, Waiting)
  /\ Mingles(r, lreq[r].seen)
  /\ UNCHANGED <<link, signup, joined>>

OpenChange(r) ==
  /\ Valid(user.hash)
  /\ user.pending # Nowhere
  /\ Opens(r, "change", [st |-> "saveAddress", seen |-> ReadOfUser])
  /\ UNCHANGED <<link, user, signup, joined, mingled>>

VerifyEmailChange(r) ==
  LET q == lreq[r]
  IN  /\ At(r, "saveAddress")
      /\ user' = [Saved(q.seen, [pending |-> Nowhere, hash |-> 0])
                    EXCEPT !.email = q.seen.pending]
      /\ Uses(q.seen.hash)
      /\ Then(r, Waiting)
      /\ Mingles(r, q.seen)
      /\ UNCHANGED <<signup, joined>>

-----------------------------------------------------------------------------
(* register: one new link a minute; then the password is hashed, and what  *)
(* waited under the address is replaced. r stands for the browser.         *)
Register(r) ==
  /\ joined.account = Nowhere
  /\ Cooled(signup.sent)
  /\ Opens(r, "signup", [st |-> "saveSignup"])
  /\ UNCHANGED <<link, user, signup, joined, mingled>>

SaveSignup(r) ==
  LET n == NextLink
  IN  /\ At(r, "saveSignup")
      /\ Issues(n)
      /\ signup' = [st |-> "waiting", by |-> r, hash |-> n, sent |-> n]
      /\ Then(r, [st |-> "sendSignup", link |-> n])
      /\ UNCHANGED <<user, joined, mingled>>

SendSignup(r) ==
  /\ lreq[r].st \in {"sendSignup", "sendAgain"}
  /\ Delivers(lreq[r].link, Own)
  /\ Then(r, Waiting)
  /\ UNCHANGED <<user, signup, joined, mingled>>

DropSignup(r) ==
  /\ At(r, "sendSignup")
  /\ signup' = IF signup.hash = lreq[r].link THEN NoSignup ELSE signup
  /\ Then(r, Waiting)
  /\ UNCHANGED <<link, user, joined, mingled>>

(* resendRegistrationVerification                                          *)
ResendRegistration(r) ==
  /\ signup.st = "waiting"
  /\ Cooled(signup.sent)
  /\ Opens(r, "signup", [st |-> "saveAgain", seen |-> signup])
  /\ UNCHANGED <<link, user, signup, joined, mingled>>

SaveAgain(r) ==
  LET n == NextLink
  IN  /\ At(r, "saveAgain")
      /\ signup.st = "waiting"
      /\ Issues(n)
      /\ signup' = [signup EXCEPT !.hash = n, !.sent = n]
      /\ mingled' = (mingled \/ signup # lreq[r].seen \/ Sending(r))
      /\ Then(r, [st |-> "sendAgain", link |-> n, before |-> lreq[r].seen.hash])
      /\ UNCHANGED <<user, joined>>

(* Mutant of PutBackSignup: no link is left.                               *)
PutBackSignup_None(r) ==
  /\ At(r, "sendAgain")
  /\ signup' = IF signup.st = "waiting" THEN [signup EXCEPT !.hash = 0, !.sent = 0] ELSE signup
  /\ mingled' = (mingled \/ signup.hash # lreq[r].link)
  /\ Then(r, Waiting)
  /\ UNCHANGED <<link, user, joined>>

(* Mutant of PutBackSignup: even if the sign-up is gone.                   *)
PutBackSignup_Anyway(r) ==
  LET q == lreq[r]
  IN  /\ At(r, "sendAgain")
      /\ signup' = [signup EXCEPT !.hash = q.before, !.sent = 0]
      /\ mingled' = (mingled \/ signup.hash # q.link)
      /\ Then(r, Waiting)
      /\ UNCHANGED <<link, user, joined>>

(* "Put the old link back so the person isn't left with none."             *)
PutBackSignup(r) ==
  LET q == lreq[r]
  IN  /\ At(r, "sendAgain")
      /\ signup' = IF signup.st = "waiting" THEN [signup EXCEPT !.hash = q.before, !.sent = 0]
                   ELSE signup
      /\ mingled' = (mingled \/ signup.hash # q.link)
      /\ Then(r, Waiting)
      /\ UNCHANGED <<link, user, joined>>

(* verifyRegistration, with the password chosen by the browser that had    *)
(* signed up when the link was found; compared, and then a transaction.    *)
OpenSignup(r) ==
  /\ signup.st = "waiting"
  /\ Valid(signup.hash)
  /\ Opens(r, "signup", [st |-> "makeAccount", link |-> signup.hash, by |-> signup.by])
  /\ UNCHANGED <<link, user, signup, joined, mingled>>

(* Mutant of VerifyRegistration: the sign-up is not read again.            *)
VerifyRegistration_Found(r) ==
  LET q == lreq[r]
  IN  /\ At(r, "makeAccount")
      /\ joined.account = Nowhere
      /\ signup.st = "waiting"
      /\ joined' = [account |-> q.by, claim |-> signup.by, sessions |-> 0]
      /\ signup' = NoSignup
      /\ Uses(q.link)
      /\ Then(r, Waiting)
      /\ UNCHANGED <<user, mingled>>

(* The account, and a note for the browser that is still waiting.          *)
VerifyRegistration(r) ==
  LET q == lreq[r]
  IN  /\ At(r, "makeAccount")
      /\ joined.account = Nowhere
      /\ signup.st = "waiting"
      /\ signup.hash = q.link
      /\ joined' = [account |-> signup.by, claim |-> signup.by, sessions |-> 0]
      /\ signup' = NoSignup
      /\ Uses(q.link)
      /\ Then(r, Waiting)
      /\ UNCHANGED <<user, mingled>>

(* Mutant of CheckRegistrationStatus: the note is left.                    *)
CheckRegistrationStatus_Keep(s) ==
  /\ "signup" \in flow
  /\ joined.claim = s
  /\ joined.sessions < 2
  /\ joined' = [joined EXCEPT !.sessions = @ + 1]
  /\ UNCHANGED <<flow, link, user, signup, lreq, mingled>>

(* checkRegistrationStatus: the secret of browser s for a session, once.   *)
CheckRegistrationStatus(s) ==
  /\ "signup" \in flow
  /\ joined.claim = s
  /\ joined' = [joined EXCEPT !.claim = Nowhere, !.sessions = @ + 1]
  /\ UNCHANGED <<flow, link, user, signup, lreq, mingled>>

-----------------------------------------------------------------------------
(* A minute has passed, and an hour.                                       *)
Mature(n) ==
  /\ link[n].age = "young"
  /\ link' = [link EXCEPT ![n].age = "grown"]
  /\ UNCHANGED <<flow, user, signup, joined, lreq, mingled>>

ExpireLink(n) ==
  /\ link[n].age = "grown"
  /\ link' = [link EXCEPT ![n].age = "old"]
  /\ signup' = IF signup.hash = n THEN NoSignup ELSE signup
  /\ UNCHANGED <<flow, user, joined, lreq, mingled>>

(* A refusal, a failed call or the end of the server.                      *)
LinkRequestEnds(r) ==
  /\ lreq[r] # Waiting
  /\ Then(r, Waiting)
  /\ mingled' = (mingled \/ lreq[r].st \in {"sendChange", "sendSignup", "sendAgain"})
  /\ UNCHANGED <<link, user, signup, joined>>

LinksInit ==
  /\ flow \in LinkMixes
  /\ link = [n \in LinkIds |-> Unissued]
  /\ user = [reset |-> 0, email |-> Own, pending |-> Nowhere, hash |-> 0]
  /\ signup = NoSignup
  /\ joined = [account |-> Nowhere, claim |-> Nowhere, sessions |-> 0]
  /\ lreq = [r \in LinkRequests |-> Waiting]
  /\ mingled = FALSE

LinkStep ==
  \/ \E r \in LinkRequests :
       \/ FindForReset(r) \/ SaveReset(r) \/ SendReset(r) \/ TakeBackReset(r)
       \/ OpenReset(r) \/ SetPassword(r)
       \/ \E a \in Addresses : RequestEmailChange(r, a)
       \/ ResendEmailChange(r) \/ SaveChange(r) \/ SendChange(r) \/ RestoreChange(r)
       \/ CancelEmailChange(r) \/ SaveCancel(r)
       \/ OpenChange(r) \/ VerifyEmailChange(r)
       \/ Register(r) \/ SaveSignup(r) \/ SendSignup(r) \/ DropSignup(r)
       \/ ResendRegistration(r) \/ SaveAgain(r) \/ PutBackSignup(r)
       \/ OpenSignup(r) \/ VerifyRegistration(r)
       \/ CheckRegistrationStatus(r)
       \/ LinkRequestEnds(r)
  \/ \E n \in LinkIds : Mature(n) \/ ExpireLink(n)

(* Once requests for a change of address have overlapped nothing more is   *)
(* claimed of it, and nothing more is looked at.                           *)
LinksNext == ~(mingled /\ "change" \in flow) /\ LinkStep

LinksSpec == LinksInit /\ [][LinksNext]_linkVars

-----------------------------------------------------------------------------
(* Documents have their types; of a sign-up that is gone nothing is left.  *)
LinksTypeOK ==
  /\ link \in [LinkIds -> LinkDocs]
  /\ user \in UserDocs
  /\ signup \in SignupDocs
  /\ signup.st = "none" => signup = NoSignup
  /\ joined.account \in LinkRequests \cup {Nowhere}

(* A link for a new password or a sign-up does its work once, however      *)
(* often and however slowly it is opened (resetPassword,                   *)
(* verifyRegistration).                                                    *)
LinkOnce == "change" \notin flow => \A n \in LinkIds : link[n].uses <= 1

(* The password link that was stored last and reached the person works     *)
(* until it is used or expires: an earlier request whose email fails only  *)
(* takes its own link back (requestPasswordReset).                         *)
NewestResetWorks ==
  "reset" \in flow =>
    \A n \in LinkIds :
      link[n].sentTo # Nowhere /\ link[n].uses = 0 /\ link[n].age # "old" /\ NextLink = n + 1
        => user.reset = n

(* The address becomes one the person has confirmed: the link that was     *)
(* opened had been sent there. Unless requests of the account overlapped.  *)
AddressConfirmed ==
  [][user'.email # user.email /\ ~mingled' =>
       \E n \in LinkIds : /\ link'[n].uses > link[n].uses
                          /\ link[n].sentTo = user'.email]_linkVars

(* "Put the old link back so the person isn't left with none": a change of *)
(* address or a sign-up that waits has a link that reached the person, for *)
(* what is waiting, whichever emails fail. Unless requests overlapped or   *)
(* one was cut off.                                                        *)
LinkAtHand ==
  ~mingled /\ (\A r \in LinkRequests : lreq[r] = Waiting) =>
    /\ signup.st = "waiting" => signup.hash # 0 /\ link[signup.hash].sentTo = Own
    /\ user.pending # Nowhere => user.hash # 0 /\ link[user.hash].sentTo = user.pending

(* The browser that waits for its sign-up to be confirmed is signed in     *)
(* once, and to the account with the password that was chosen there        *)
(* (checkRegistrationStatus).                                              *)
SignedInOnce ==
  /\ joined.sessions <= 1
  /\ joined.claim # Nowhere => joined.account = joined.claim

(* A link does its work once, the newest one that reached the person works, *)
(* nobody who waits is left without one, and the browser that waits signs  *)
(* in once.                                                                *)
LinksInOrder == LinkOnce /\ NewestResetWorks /\ LinkAtHand /\ SignedInOnce

=============================================================================
