------------------------------ MODULE Sessions ------------------------------
(***************************************************************************)
(* The sessions of one account (auth.service.ts): refresh tokens that are  *)
(* replaced with every use, in families of one per sign-in, the cookie of  *)
(* each browser, and everything that ends sessions.                        *)
(*                                                                         *)
(* A browser has several tabs, each of which may send a refresh with the   *)
(* cookie as it is then; answers may arrive in any order or not at all     *)
(* (web/src/api/client.ts). A refresh is a transaction; updateMany is not: *)
(* it finds the sessions and then revokes them. Sessions are looked at for *)
(* less than the seven days they last.                                     *)
(***************************************************************************)
EXTENDS Integers, FiniteSets

CONSTANTS
  Browsers,
  MaxTokens,        \* bound: tokens ever issued
  SessionRequests,  \* requests in flight at once
  MaxEndings,       \* bound: changes that end sessions
  SessionMixes      \* the sets of operations looked at together

ASSUME SessionsAssumption == MaxTokens \in Nat /\ MaxEndings \in Nat

VARIABLES
  aims,     \* the operations of this behaviour
  token,    \* the Session documents, in the order they are made
  cookie,   \* of each browser: its refresh token, 0 for none
  screen,   \* of each browser: whether its tabs show the account
  account,  \* status, and how often it changed so that sessions end
  known,    \* what isAccountActive remembers
  sreq,     \* what each request is doing
  graced,   \* families that got a token for one that was replaced (history)
  cut,      \* families that were ended, lost a token to an ending, or had a
            \* token carried for more than the ten seconds after it was
            \* replaced (history)
  doomed,   \* families that were to end (history)
  raced,    \* of them, those a refresh committed into meanwhile (history)
  halted    \* and those whose ending stopped half way (history)

sessionVars == <<aims, token, cookie, screen, account, known, sreq, graced, cut, doomed, raced, halted>>

Tokens == 1..MaxTokens
NoToken == [st |-> "none", family |-> 0, replaced |-> "no"]
TokenDocs == [st : {"none", "live", "revoked"}, family : 0..MaxTokens,
              \* replacedBy, and whether that is less than REFRESH_GRACE_MS ago
              replaced : {"no", "recently", "before"}]

Issued == {t \in Tokens : token[t].st # "none"}
LiveTokens == {t \in Tokens : token[t].st = "live"}
LiveIn(f) == {t \in LiveTokens : token[t].family = f}
Families == {token[t].family : t \in Issued}
LiveFamilies == {token[t].family : t \in LiveTokens}
FamilyOf(t) == token[t].family
NextToken == Cardinality(Issued) + 1

Quiet == [st |-> "idle"]
Now(r, st) == sreq[r].st = st
Goes(r, q) == sreq' = [sreq EXCEPT ![r] = q] /\ UNCHANGED aims
Sends(r, op, q) == op \in aims /\ sreq[r] = Quiet /\ Goes(r, q)

(* A transaction that means to replace one of these tokens starts over.    *)
Conflicting(q, S) == IF q.st = "claim" /\ q.token \in S THEN [q EXCEPT !.st = "refresh"] ELSE q

Revoke(r, S, q) ==
  LET now == S \cap LiveTokens
  IN  /\ token' = [t \in Tokens |->
                     IF t \in now THEN [token[t] EXCEPT !.st = "revoked"] ELSE token[t]]
      /\ sreq' = [o \in SessionRequests |-> IF o = r THEN q ELSE Conflicting(sreq[o], now)]
      /\ UNCHANGED aims

(* Mutant of Issue: the family is not carried over.                        *)
Issue_NoFamily(f) == [st |-> "live", family |-> 0, replaced |-> "no"]

Issue(f) == [st |-> "live", family |-> f, replaced |-> "no"]

-----------------------------------------------------------------------------
(* login compares the password, which takes a while, and createSession     *)
(* starts a family; the same when a sign-up is confirmed.                  *)
Login(r, b) ==
  /\ account.status = "active"
  /\ NextToken <= MaxTokens
  /\ screen[b] = "out"
  /\ Sends(r, "login", [st |-> "create", browser |-> b])
  /\ UNCHANGED <<token, cookie, screen, account, known, graced, cut, doomed, raced, halted>>

CreateSession(r) ==
  /\ Now(r, "create")
  /\ NextToken <= MaxTokens
  /\ token' = [token EXCEPT ![NextToken] = Issue(NextToken)]
  /\ Goes(r, [st |-> "reply", browser |-> sreq[r].browser, token |-> NextToken])
  /\ UNCHANGED <<cookie, screen, account, known, graced, cut, doomed, raced, halted>>

(* The answer sets the cookie; a login shows the account, a refresh leaves *)
(* what the tabs show.                                                     *)
Reply(r) ==
  LET q == sreq[r]
  IN  /\ Now(r, "reply")
      /\ cookie' = [cookie EXCEPT ![q.browser] = q.token]
      /\ screen' = [screen EXCEPT ![q.browser] = IF FamilyOf(q.token) = q.token THEN "in" ELSE @]
      /\ Goes(r, Quiet)
      /\ UNCHANGED <<token, account, known, graced, cut, doomed, raced, halted>>

-----------------------------------------------------------------------------
(* refresh                                                                 *)
Refresh(r, b) ==
  /\ cookie[b] # 0
  /\ Sends(r, "refresh", [st |-> "refresh", browser |-> b, token |-> cookie[b]])
  /\ UNCHANGED <<token, cookie, screen, account, known, graced, cut, doomed, raced, halted>>

(* Mutant of Claimable: whatever became of the token.                      *)
Claimable_Always(t) == TRUE

Claimable(t) == token[t].st = "live"

(* Mutant of InGrace: a token that was replaced is a stolen one.           *)
InGrace_Never(t) == FALSE

(* Mutant of InGrace: although the session has ended.                      *)
InGrace_EndedToo(t) == token[t].replaced = "recently"

(* "A token replaced this recently is still accepted, so two tabs          *)
(* refreshing at once don't look like a stolen token".                     *)
InGrace(t) == token[t].replaced = "recently" /\ LiveIn(FamilyOf(t)) # {}

(* The transaction, as its snapshot shows things.                          *)
BeginRefresh(r) ==
  LET t == sreq[r].token
  IN  /\ Now(r, "refresh")
      /\ Goes(r, IF Claimable(t) THEN [sreq[r] EXCEPT !.st = "claim"]
                 ELSE IF InGrace(t) THEN [sreq[r] EXCEPT !.st = "grace"]
                 ELSE [st |-> "end", browser |-> sreq[r].browser,
                       family |-> FamilyOf(t), keep |-> 0, which |-> "stolen"])
      /\ UNCHANGED <<token, cookie, screen, account, known, graced, cut, doomed, raced, halted>>

(* Families whose sessions a request has found and not yet revoked.        *)
BeingEnded ==
  UNION {IF sreq[r].st = "revoke" THEN sreq[r].ending ELSE {} : r \in SessionRequests}

CommitRefresh(r) ==
  LET q == sreq[r]
      f == FamilyOf(q.token)
      n == NextToken
  IN  /\ q.st \in {"claim", "grace"}
      /\ n <= MaxTokens
      /\ token' = IF q.st = "claim"
                  THEN [token EXCEPT ![n] = Issue(f),
                                     ![q.token] = [@ EXCEPT !.st = "revoked",
                                                            !.replaced = "recently"]]
                  ELSE [token EXCEPT ![n] = Issue(f)]
      /\ graced' = IF q.st = "grace" THEN graced \cup {f} ELSE graced
      /\ raced' = IF f \in BeingEnded \/ LiveIn(f) = {} THEN raced \cup {f} ELSE raced
      /\ sreq' = [o \in SessionRequests |->
                    IF o = r THEN [st |-> "reply", browser |-> q.browser, token |-> n]
                    ELSE IF q.st = "claim" THEN Conflicting(sreq[o], {q.token}) ELSE sreq[o]]
      /\ UNCHANGED <<aims, cookie, screen, account, known, cut, doomed, halted>>

-----------------------------------------------------------------------------
(* Endings. Each finds the sessions it is about, and revokes them.         *)
(* revokeSession and revokeOtherSessions, for the family of the cookie.    *)
RevokeSessions(r, b, which, f) ==
  /\ account.endings < MaxEndings
  /\ cookie[b] # 0
  /\ which = "others" => f = FamilyOf(cookie[b])
  /\ account' = [account EXCEPT !.endings = @ + 1]
  /\ Sends(r, "revoke", [st |-> "end", browser |-> b, family |-> f, keep |-> 0, which |-> which])
  /\ UNCHANGED <<token, cookie, screen, known, graced, cut, doomed, raced, halted>>

(* resetPassword and verifyEmailChange: every session. The change itself is *)
(* saved before.                                                           *)
ResetPassword(r, b) ==
  /\ account.status = "active"
  /\ account.endings < MaxEndings
  /\ account' = [account EXCEPT !.endings = @ + 1]
  /\ Sends(r, "reset", [st |-> "end", browser |-> b, family |-> 0, keep |-> 0, which |-> "all"])
  /\ UNCHANGED <<token, cookie, screen, known, graced, cut, doomed, raced, halted>>

(* updatePersonalInformation with a new password: all but the session of   *)
(* the cookie that came with the request, if that is still live by then.   *)
ChangePassword(r, b) ==
  /\ account.status = "active"
  /\ account.endings < MaxEndings
  /\ screen[b] = "in"
  /\ account' = [account EXCEPT !.endings = @ + 1]
  /\ Sends(r, "password", [st |-> "saved", browser |-> b, token |-> cookie[b]])
  /\ UNCHANGED <<token, cookie, screen, known, graced, cut, doomed, raced, halted>>

FindCurrentSession(r) ==
  LET t == sreq[r].token
  IN  /\ Now(r, "saved")
      /\ Goes(r, [st |-> "end", browser |-> sreq[r].browser, family |-> 0,
                  keep |-> IF t \in LiveTokens THEN t ELSE 0, which |-> "all"])
      /\ UNCHANGED <<token, cookie, screen, account, known, graced, cut, doomed, raced, halted>>

(* Mutant of Ending: the other sessions are those of the same sign-in.     *)
Ending_Family(q) == LiveIn(q.family) \ {q.keep}

Ending(q) ==
  {t \in LiveTokens \ {q.keep} :
     \/ q.which = "all"
     \/ q.which \in {"family", "stolen"} /\ FamilyOf(t) = q.family
     \/ q.which = "others" /\ FamilyOf(t) # q.family}

(* The families that shall be over when q is through: one may go on with   *)
(* the session that is kept.                                               *)
ToEnd(q) ==
  {f \in LiveFamilies : /\ q.which \in {"family", "stolen"} => f = q.family
                        /\ q.which = "others" => f # q.family
                        /\ q.keep # 0 => f # FamilyOf(q.keep)}

FindSessions(r) ==
  LET q == sreq[r]
  IN  /\ Now(r, "end")
      /\ doomed' = doomed \cup ToEnd(q)
      /\ Goes(r, [st |-> "revoke", browser |-> q.browser, which |-> q.which,
                  found |-> Ending(q), ending |-> ToEnd(q)])
      /\ UNCHANGED <<token, cookie, screen, account, known, graced, cut, raced, halted>>

RevokeFound(r) ==
  /\ Now(r, "revoke")
  /\ Revoke(r, sreq[r].found,
            IF sreq[r].which = "stolen" THEN [st |-> "rejected", browser |-> sreq[r].browser]
            ELSE Quiet)
  /\ cut' = IF sreq[r].which = "stolen" THEN cut
            ELSE cut \cup {FamilyOf(t) : t \in sreq[r].found}
  /\ UNCHANGED <<cookie, screen, account, known, graced, doomed, raced, halted>>

(* "Only a rejected session means signed out" (onAuthFailure): the refresh  *)
(* was taken for a stolen token. The cookie stays.                         *)
Rejected(r) ==
  /\ Now(r, "rejected")
  /\ screen' = [screen EXCEPT ![sreq[r].browser] = "out"]
  /\ Goes(r, Quiet)
  /\ UNCHANGED <<token, cookie, account, known, graced, cut, doomed, raced, halted>>

(* logout revokes the token of the cookie; every tab shows the sign-in page *)
(* at once, and the answer clears the cookie.                              *)
Logout(r, b) ==
  /\ screen[b] = "in"
  /\ cookie[b] # 0
  /\ screen' = [screen EXCEPT ![b] = "out"]
  /\ Sends(r, "logout", [st |-> "logout", browser |-> b, token |-> cookie[b]])
  /\ UNCHANGED <<token, cookie, account, known, graced, cut, doomed, raced, halted>>

RevokeToken(r) ==
  LET q == sreq[r]
      f == FamilyOf(q.token)
  IN  /\ Now(r, "logout")
      /\ Revoke(r, {q.token}, [st |-> "clear", browser |-> q.browser])
      /\ doomed' = IF LiveIn(f) = {q.token} THEN doomed \cup {f} ELSE doomed
      /\ cut' = cut \cup {f}
      /\ UNCHANGED <<cookie, screen, account, known, graced, raced, halted>>

ClearCookie(r) ==
  /\ Now(r, "clear")
  /\ cookie' = [cookie EXCEPT ![sreq[r].browser] = 0]
  /\ Goes(r, Quiet)
  /\ UNCHANGED <<token, screen, account, known, graced, cut, doomed, raced, halted>>

-----------------------------------------------------------------------------
(* deleteAccount, a transaction: all sessions and the account; then the    *)
(* server forgets what it remembered of it.                                *)
DeleteAccount(r, b) ==
  /\ "delete" \in aims
  /\ sreq[r] = Quiet
  /\ account.status = "active"
  /\ screen[b] = "in"
  /\ account' = [account EXCEPT !.status = "deleted"]
  /\ doomed' = doomed \cup LiveFamilies
  /\ cut' = cut \cup LiveFamilies
  /\ Revoke(r, LiveTokens, [st |-> "forget", browser |-> b])
  /\ UNCHANGED <<cookie, screen, known, graced, raced, halted>>

ForgetAccountStatus(r) ==
  /\ Now(r, "forget")
  /\ known' = "unknown"
  /\ Goes(r, [st |-> "clear", browser |-> sreq[r].browser])
  /\ UNCHANGED <<token, cookie, screen, account, graced, cut, doomed, raced, halted>>

(* authenticate, when nothing is remembered: read, then remember.          *)
LookUpAccount(r) ==
  /\ known = "unknown"
  /\ \E b \in Browsers : screen[b] = "in"
  /\ Sends(r, "delete", [st |-> "lookup", seen |-> account.status])
  /\ UNCHANGED <<token, cookie, screen, account, known, graced, cut, doomed, raced, halted>>

RememberAccount(r) ==
  /\ Now(r, "lookup")
  /\ known' = sreq[r].seen
  /\ Goes(r, Quiet)
  /\ UNCHANGED <<token, cookie, screen, account, graced, cut, doomed, raced, halted>>

(* The half minute is over.                                                *)
ForgetAfterTtl ==
  /\ known' = "unknown"
  /\ UNCHANGED <<aims, token, cookie, screen, account, sreq, graced, cut, doomed, raced, halted>>

-----------------------------------------------------------------------------
Carried ==
  {cookie[b] : b \in Browsers}
    \cup {IF sreq[r].st \in {"refresh", "claim", "grace"} THEN sreq[r].token ELSE 0 :
            r \in SessionRequests}

(* Ten seconds since it was replaced.                                      *)
Age(t) ==
  /\ token[t].replaced = "recently"
  /\ token' = [token EXCEPT ![t].replaced = "before"]
  /\ cut' = IF t \in Carried THEN cut \cup {FamilyOf(t)} ELSE cut
  /\ UNCHANGED <<aims, cookie, screen, account, known, sreq, graced, doomed, raced, halted>>

(* A refusal, a timeout, an answer that is lost or the end of the server,  *)
(* which is the only thing that can come between a deletion and forgetting. *)
SessionRequestEnds(r) ==
  LET q == sreq[r]
  IN  /\ q # Quiet
      /\ Goes(r, Quiet)
      /\ halted' = IF q.st = "revoke" THEN halted \cup q.ending ELSE halted
      /\ known' = IF q.st = "forget" THEN "unknown" ELSE known
      /\ UNCHANGED <<token, cookie, screen, account, graced, cut, doomed, raced>>

SessionsInit ==
  /\ aims \in SessionMixes
  /\ token = [t \in Tokens |-> NoToken]
  /\ cookie = [b \in Browsers |-> 0]
  /\ screen = [b \in Browsers |-> "out"]
  /\ account = [status |-> "active", endings |-> 0]
  /\ known = "unknown"
  /\ sreq = [r \in SessionRequests |-> Quiet]
  /\ graced = {}
  /\ cut = {}
  /\ doomed = {}
  /\ raced = {}
  /\ halted = {}

FromBrowser(r, b) ==
  \/ Login(r, b)
  \/ Refresh(r, b)
  \/ \E f \in Families : RevokeSessions(r, b, "family", f)
  \/ \E f \in Families : RevokeSessions(r, b, "others", f)
  \/ ResetPassword(r, b)
  \/ ChangePassword(r, b)
  \/ Logout(r, b)
  \/ DeleteAccount(r, b)

SessionsNext ==
  \/ \E r \in SessionRequests :
       \/ \E b \in Browsers : FromBrowser(r, b)
       \/ CreateSession(r)
       \/ Reply(r)
       \/ BeginRefresh(r)
       \/ CommitRefresh(r)
       \/ FindCurrentSession(r)
       \/ FindSessions(r)
       \/ RevokeFound(r)
       \/ Rejected(r)
       \/ RevokeToken(r)
       \/ ClearCookie(r)
       \/ ForgetAccountStatus(r)
       \/ LookUpAccount(r)
       \/ RememberAccount(r)
       \/ SessionRequestEnds(r)
  \/ \E t \in Tokens : Age(t)
  \/ ForgetAfterTtl

SessionsSpec == SessionsInit /\ [][SessionsNext]_sessionVars

-----------------------------------------------------------------------------
(* Documents have their types; tokens are issued one after the other, and  *)
(* the first of a family names it.                                         *)
SessionsTypeOK ==
  /\ token \in [Tokens -> TokenDocs]
  /\ Issued = 1..Cardinality(Issued)
  /\ \A t \in Issued : FamilyOf(t) \in Issued /\ FamilyOf(FamilyOf(t)) = FamilyOf(t)
  /\ cookie \in [Browsers -> Issued \cup {0}]
  /\ graced \cup cut \cup doomed \cup raced \cup halted \subseteq Families

(* A sign-in has one token that works, however many tabs refresh at once,  *)
(* unless a tab was let through for having been replaced a moment ago.     *)
OneLiveToken == \A f \in Families \ graced : Cardinality(LiveIn(f)) <= 1

(* Refreshing never signs a person out ("so two tabs refreshing at once    *)
(* don't look like a stolen token"): a browser whose session nobody ended  *)
(* has a cookie that is accepted, with answers in any order or lost,       *)
(* unless a token was carried for more than the ten seconds.               *)
CookieUsable ==
  \A b \in Browsers : cookie[b] # 0 =>
    \/ FamilyOf(cookie[b]) \in cut
    \/ Claimable(cookie[b])
    \/ InGrace(cookie[b])

RefreshedNow(f) ==
  \E r \in SessionRequests :
    sreq[r].st \in {"claim", "grace"} /\ FamilyOf(sreq[r].token) = f

(* A session that has ended does not come back: once it has, and no refresh *)
(* that had begun before is left, none is let through and no token of the  *)
(* family is issued.                                                       *)
EndedStaysEnded ==
  [][\A f \in Families :
       LiveIn(f) = {} /\ ~RefreshedNow(f) => (LiveIn(f) = {} /\ ~RefreshedNow(f))']_sessionVars

(* What was to end has ended: signed out, revoked, taken for stolen, or    *)
(* all of them after a new password or address; except a family into which *)
(* a refresh committed meanwhile, or whose ending was cut off.             *)
EndingsEnd ==
  \A f \in doomed \ (raced \cup halted) : LiveIn(f) = {} \/ f \in BeingEnded

(* "A new address ends every session": the same without the exception. It  *)
(* does not hold.                                                          *)
EverySessionEnds ==
  (\A r \in SessionRequests : sreq[r] = Quiet) => \A f \in doomed \ halted : LiveIn(f) = {}

(* Every tab signed out means that the cookie is of no use. Does not hold. *)
SignOutSticks ==
  (\A r \in SessionRequests : sreq[r] = Quiet) =>
    \A b \in Browsers : screen[b] = "out" /\ cookie[b] # 0 =>
      ~Claimable(cookie[b]) /\ ~InGrace(cookie[b])

(* An account that is deleted stops working at once on this server. Does   *)
(* not hold.                                                               *)
DeletedStops ==
  account.status = "deleted" /\ (\A r \in SessionRequests : sreq[r] = Quiet) => known # "active"

(* A sign-in works through one token, works until somebody ends it, and    *)
(* then has ended.                                                         *)
FamiliesInOrder == OneLiveToken /\ CookieUsable /\ EndingsEnd

=============================================================================
