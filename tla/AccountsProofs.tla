--------------------------- MODULE AccountsProofs ---------------------------
(***************************************************************************)
(* The sessions and the links of one account, proved for any number of     *)
(* browsers, requests, tokens, links and addresses: first the sessions,    *)
(* then the links, then both beside each other.                            *)
(***************************************************************************)
EXTENDS MCAccounts, FiniteSetTheorems, TLAPS

-----------------------------------------------------------------------------
(* Sessions: types of what requests know.                                  *)
Endings == {"family", "others", "all", "stolen"}

SessionRequestDocs ==
  {Quiet}
    \cup [st : {"create", "rejected", "clear", "forget"}, browser : Browsers]
    \cup [st : {"reply", "refresh", "claim", "grace", "logout"}, browser : Browsers, token : Tokens]
    \cup [st : {"saved"}, browser : Browsers, token : 0..MaxTokens]
    \cup [st : {"end"}, browser : Browsers, family : 0..MaxTokens, keep : 0..MaxTokens,
          which : Endings]
    \cup [st : {"revoke"}, browser : Browsers, which : Endings, found : SUBSET Tokens,
          ending : SUBSET Tokens]
    \cup [st : {"lookup"}, seen : {"active", "deleted"}]

Accounts == [status : {"active", "deleted"}, endings : 0..MaxEndings]

SessionsTyped ==
  /\ SessionsTypeOK
  /\ sreq \in [SessionRequests -> SessionRequestDocs]
  /\ account \in Accounts

(* The requests with a token that was or will be in the cookie.            *)
Holding == {"reply", "refresh", "claim", "grace"}

(* Requests know of tokens that were issued.                               *)
KnownTokens ==
  \A r \in SessionRequests :
    /\ sreq[r].st \in Holding \cup {"logout"} => sreq[r].token \in Issued
    /\ sreq[r].st = "revoke" => sreq[r].found \subseteq Issued /\ sreq[r].ending \subseteq Families

(* A transaction that is to replace a token is the first to do so.         *)
ClaimsLive == \A r \in SessionRequests : sreq[r].st = "claim" => sreq[r].token \in LiveTokens

(* OneLiveToken without counting.                                          *)
OneLive ==
  \A s, t \in LiveTokens : FamilyOf(s) = FamilyOf(t) /\ FamilyOf(s) \notin graced => s = t

(* Nobody has a token before the answer that brings it.                    *)
RepliesNew ==
  \A r \in SessionRequests : sreq[r].st = "reply" =>
    /\ token[sreq[r].token].replaced = "no"
    /\ \A b \in Browsers : cookie[b] # sreq[r].token
    /\ \A o \in SessionRequests \ {r} : sreq[o].st \in Holding => sreq[o].token # sreq[r].token

(* The tokens on their way are as good as those in the cookies.            *)
Usable(t) == FamilyOf(t) \in cut \/ Claimable(t) \/ InGrace(t)

HeldUsable ==
  \A r \in SessionRequests, t \in Tokens :
    sreq[r].st \in Holding /\ sreq[r].token = t => Usable(t)

(* A token is taken for a stolen one only in a family that was ended.      *)
StolenIsCut ==
  \A r \in SessionRequests :
    /\ sreq[r].st = "end" /\ sreq[r].which = "stolen" => sreq[r].family \in cut
    /\ sreq[r].st = "revoke" /\ sreq[r].which = "stolen" =>
         \A t \in sreq[r].found : FamilyOf(t) \in cut

(* An ending found every token of a family into which nothing committed.   *)
FoundAll ==
  \A r \in SessionRequests : sreq[r].st = "revoke" =>
    \A f \in sreq[r].ending \ raced : LiveIn(f) \subseteq sreq[r].found

SessionsInv ==
  /\ SessionsTyped /\ KnownTokens /\ ClaimsLive /\ OneLive /\ RepliesNew
  /\ CookieUsable /\ HeldUsable /\ StolenIsCut /\ FoundAll /\ EndingsEnd

LEMMA SessionRequestShapes ==
  ASSUME NEW q \in SessionRequestDocs
  PROVE  \/ q = Quiet
         \/ q.st \in {"create", "rejected", "clear", "forget"} /\ q.browser \in Browsers
         \/ /\ q.st \in {"reply", "refresh", "claim", "grace", "logout"} /\ q.browser \in Browsers
            /\ q.token \in Tokens
         \/ q.st = "saved" /\ q.browser \in Browsers /\ q.token \in 0..MaxTokens
         \/ /\ q.st = "end" /\ q.browser \in Browsers /\ q.family \in 0..MaxTokens
            /\ q.keep \in 0..MaxTokens /\ q.which \in Endings
         \/ /\ q.st = "revoke" /\ q.browser \in Browsers /\ q.which \in Endings
            /\ q.found \subseteq Tokens /\ q.ending \subseteq Tokens
         \/ q.st = "lookup" /\ q.seen \in {"active", "deleted"}
BY DEF SessionRequestDocs

LEMMA QuietTyped == Quiet \in SessionRequestDocs /\ Quiet.st = "idle"
BY DEF SessionRequestDocs, Quiet

LEMMA TokenFacts ==
  ASSUME SessionsInv
  PROVE  /\ token \in [Tokens -> TokenDocs]
         /\ Issued \subseteq Tokens /\ LiveTokens \subseteq Issued /\ 0 \notin Issued
         /\ Families \subseteq Issued
         /\ \A t \in Issued : FamilyOf(t) \in Issued /\ FamilyOf(t) \in Families
         /\ \A r \in SessionRequests : sreq[r] \in SessionRequestDocs
         /\ cookie \in [Browsers -> Issued \cup {0}]
<1>1. token \in [Tokens -> TokenDocs] /\ cookie \in [Browsers -> Issued \cup {0}]
  BY DEF SessionsInv, SessionsTyped, SessionsTypeOK
<1>2. Issued \subseteq Tokens /\ LiveTokens \subseteq Issued /\ 0 \notin Issued
  BY SessionsAssumption DEF Issued, LiveTokens, Tokens, SessionsAssumption
<1>3. \A t \in Issued : FamilyOf(t) \in Issued
  BY DEF SessionsInv, SessionsTyped, SessionsTypeOK
<1>4. Families \subseteq Issued /\ \A t \in Issued : FamilyOf(t) \in Families
  BY <1>3 DEF Families, FamilyOf
<1> QED BY <1>1, <1>2, <1>3, <1>4 DEF SessionsInv, SessionsTyped

(* The next token is new, and tokens are counted as they are issued.       *)
LEMMA NextIsNew ==
  ASSUME SessionsInv, NextToken <= MaxTokens
  PROVE  /\ NextToken \in Tokens /\ NextToken \notin Issued
         /\ token[NextToken].st = "none"
         /\ Issued' = Issued \cup {NextToken} => Issued' = 1..Cardinality(Issued')
<1>1. IsFiniteSet(Issued) /\ Cardinality(Issued) \in Nat
  <2>1. IsFiniteSet(Tokens)
    BY FS_Interval, SessionsAssumption DEF Tokens, SessionsAssumption
  <2> QED BY <2>1, TokenFacts, FS_Subset, FS_CardinalityType
<1>2. PICK k \in Nat : k = Cardinality(Issued)
  BY <1>1
<1>3. Issued = 1..k
  BY <1>2 DEF SessionsInv, SessionsTyped, SessionsTypeOK
<1>4. NextToken = k + 1
  BY <1>2 DEF NextToken
<1>5. NextToken \in Tokens /\ NextToken \notin Issued
  BY <1>3, <1>4, SessionsAssumption DEF Tokens, SessionsAssumption
<1>6. token[NextToken].st = "none"
  BY <1>5 DEF Issued
<1>7. ASSUME Issued' = Issued \cup {NextToken} PROVE Issued' = 1..Cardinality(Issued')
  <2>1. Cardinality(Issued') = k + 1
    BY <1>1, <1>2, <1>5, <1>7, FS_AddElement
  <2>2. Issued' = 1..(k + 1)
    BY <1>3, <1>4, <1>7
  <2> QED BY <2>1, <2>2
<1> QED BY <1>5, <1>6, <1>7

LEMMA SessionsBegin == SessionsInit => SessionsInv
<1> SUFFICES ASSUME SessionsInit PROVE SessionsInv
  OBVIOUS
<1>1. \A t \in Tokens : token[t] = NoToken /\ token[t].st = "none"
  BY DEF SessionsInit, NoToken
<1>2. Issued = {} /\ LiveTokens = {} /\ Families = {}
  BY <1>1 DEF Issued, LiveTokens, Families
<1>3. Issued = 1..Cardinality(Issued)
  BY <1>2, FS_EmptySet
<1>4. \A r \in SessionRequests : sreq[r] = Quiet /\ sreq[r].st = "idle"
  BY QuietTyped DEF SessionsInit
<1>5. SessionsTyped
  <2>1. NoToken \in TokenDocs
    <3>1. 0 \in 0..MaxTokens
      BY SessionsAssumption DEF SessionsAssumption
    <3> QED BY <3>1 DEF NoToken, TokenDocs
  <2>2. [status |-> "active", endings |-> 0] \in Accounts
    <3>1. 0 \in 0..MaxEndings
      BY SessionsAssumption DEF SessionsAssumption
    <3> QED BY <3>1 DEF Accounts
  <2> QED BY <1>2, <1>3, <2>1, <2>2, QuietTyped DEF SessionsInit, SessionsTyped, SessionsTypeOK
<1>6. KnownTokens /\ ClaimsLive /\ OneLive /\ RepliesNew /\ HeldUsable /\ StolenIsCut /\ FoundAll
  BY <1>2, <1>4 DEF KnownTokens, ClaimsLive, OneLive, RepliesNew, HeldUsable, StolenIsCut, FoundAll,
     Holding
<1>7. CookieUsable /\ EndingsEnd
  BY DEF SessionsInit, CookieUsable, EndingsEnd
<1> QED BY <1>5, <1>6, <1>7 DEF SessionsInv

-----------------------------------------------------------------------------
(* Steps that leave the tokens alone.                                      *)
LEMMA SameTokens ==
  ASSUME UNCHANGED token
  PROVE  /\ Issued' = Issued /\ LiveTokens' = LiveTokens /\ Families' = Families
         /\ \A t : FamilyOf(t)' = FamilyOf(t) /\ Claimable(t)' = Claimable(t)
         /\ \A f : LiveIn(f)' = LiveIn(f)
         /\ \A t : InGrace(t)' = InGrace(t)
BY DEF Issued, LiveTokens, Families, FamilyOf, Claimable, LiveIn, InGrace

(* What a request may come to know.                                        *)
Means(r, q) ==
  /\ q.st \in Holding \cup {"logout"} => q.token \in Issued
  /\ q.st \in Holding => Usable(q.token)
  /\ q.st = "claim" => q.token \in LiveTokens
  /\ q.st # "reply"
  /\ q.st \in Holding =>
       \A o \in SessionRequests \ {r} : sreq[o].st = "reply" => sreq[o].token # q.token
  /\ q.st = "end" /\ q.which = "stolen" => q.family \in cut
  /\ q.st = "revoke" =>
       /\ q.found \subseteq Issued /\ q.ending \subseteq Families
       /\ q.which = "stolen" => \A t \in q.found : FamilyOf(t) \in cut
       /\ \A f \in q.ending \ raced : LiveIn(f) \subseteq q.found

LEMMA TokensStayInv ==
  ASSUME SessionsInv, NEW r \in SessionRequests, NEW q \in SessionRequestDocs, Goes(r, q),
         Means(r, q), UNCHANGED <<token, graced, cut, raced>>,
         account' \in Accounts,
         cookie' \in [Browsers -> Issued \cup {0}],
         \A b \in Browsers : \/ cookie'[b] \in {cookie[b], 0}
                             \/ sreq[r].st = "reply" /\ cookie'[b] = sreq[r].token,
         doomed' \cup halted' \subseteq Families, halted \subseteq halted',
         sreq[r].st = "revoke" => sreq[r].ending \subseteq halted',
         \A f \in doomed' : f \in doomed \/ (q.st = "revoke" /\ f \in q.ending)
  PROVE  SessionsInv'
<1>1. /\ sreq' \in [SessionRequests -> SessionRequestDocs] /\ sreq'[r] = q
      /\ \A x \in SessionRequests : x # r => sreq'[x] = sreq[x]
  BY DEF Goes, SessionsInv, SessionsTyped
<1>2. SessionsTyped'
  BY <1>1, SameTokens DEF SessionsInv, SessionsTyped, SessionsTypeOK
<1>3. KnownTokens'
  BY <1>1, SameTokens DEF SessionsInv, KnownTokens, Means
<1>4. ClaimsLive'
  BY <1>1, SameTokens DEF SessionsInv, ClaimsLive, Means
<1>5. OneLive'
  BY SameTokens DEF SessionsInv, OneLive
<1>6. RepliesNew'
  <2> SUFFICES ASSUME NEW x \in SessionRequests, sreq'[x].st = "reply"
      PROVE  /\ token[sreq'[x].token].replaced = "no"
             /\ \A b \in Browsers : cookie'[b] # sreq'[x].token
             /\ \A o \in SessionRequests \ {x} :
                  sreq'[o].st \in Holding => sreq'[o].token # sreq'[x].token
    BY DEF RepliesNew
  <2>1. x # r /\ sreq'[x] = sreq[x]
    BY <1>1 DEF Means
  <2>2. /\ token[sreq[x].token].replaced = "no"
        /\ \A b \in Browsers : cookie[b] # sreq[x].token
        /\ \A o \in SessionRequests \ {x} : sreq[o].st \in Holding => sreq[o].token # sreq[x].token
    BY <2>1 DEF SessionsInv, RepliesNew
  <2>3. sreq[x].token # 0
    BY <2>1, TokenFacts DEF SessionsInv, KnownTokens, Holding
  <2>4. sreq[r].st = "reply" => sreq[r].token # sreq[x].token
    BY <2>1, <2>2 DEF Holding
  <2> QED BY <1>1, <2>1, <2>2, <2>3, <2>4 DEF Means
<1>7. CookieUsable'
  <2> SUFFICES ASSUME NEW b \in Browsers, cookie'[b] # 0 PROVE Usable(cookie'[b])
    BY SameTokens DEF CookieUsable, Usable
  <2>1. CASE cookie'[b] = cookie[b]
    BY <2>1 DEF SessionsInv, CookieUsable, Usable
  <2>2. CASE sreq[r].st = "reply" /\ cookie'[b] = sreq[r].token
    <3>1. sreq[r].token \in Tokens
      BY <2>2, TokenFacts DEF SessionsInv, KnownTokens, Holding
    <3> QED BY <2>2, <3>1 DEF SessionsInv, HeldUsable, Holding
  <2> QED BY <2>1, <2>2
<1>8. HeldUsable'
  <2>1. \A t : Usable(t)' <=> Usable(t)
    BY SameTokens DEF Usable
  <2> QED BY <1>1, <2>1 DEF SessionsInv, HeldUsable, Means
<1>9. StolenIsCut'
  BY <1>1, SameTokens DEF SessionsInv, StolenIsCut, Means
<1>10. FoundAll'
  BY <1>1, SameTokens DEF SessionsInv, FoundAll, Means
<1>11. EndingsEnd'
  <2> SUFFICES ASSUME NEW f \in doomed' \ (raced \cup halted'), LiveIn(f) # {}
      PROVE  \E x \in SessionRequests : sreq'[x].st = "revoke" /\ f \in sreq'[x].ending
    BY SameTokens DEF EndingsEnd, BeingEnded
  <2>1. CASE q.st = "revoke" /\ f \in q.ending
    BY <1>1, <2>1
  <2>2. CASE f \in doomed
    <3>1. PICK x \in SessionRequests : sreq[x].st = "revoke" /\ f \in sreq[x].ending
      BY <2>2 DEF SessionsInv, EndingsEnd, BeingEnded
    <3>2. x # r
      BY <3>1
    <3> QED BY <1>1, <3>1, <3>2
  <2> QED BY <2>1, <2>2
<1> QED BY <1>2, <1>3, <1>4, <1>5, <1>6, <1>7, <1>8, <1>9, <1>10, <1>11 DEF SessionsInv

-----------------------------------------------------------------------------
(* Sessions are revoked.                                                   *)
LEMMA RevokedTokens ==
  ASSUME SessionsInv, NEW r, NEW S, NEW q, Revoke(r, S, q)
  PROVE  /\ token' \in [Tokens -> TokenDocs]
         /\ \A t \in Tokens : /\ token'[t].family = token[t].family
                              /\ token'[t].replaced = token[t].replaced
                              /\ (token'[t].st = "none") <=> (token[t].st = "none")
                              /\ (token'[t].st = "live") <=> (token[t].st = "live" /\ t \notin S)
         /\ Issued' = Issued /\ Families' = Families /\ LiveTokens' = LiveTokens \ S
         /\ \A t \in Tokens : FamilyOf(t)' = FamilyOf(t)
         /\ \A f : LiveIn(f)' = LiveIn(f) \ S
<1>1. token \in [Tokens -> TokenDocs] /\ LiveTokens \subseteq Tokens
  BY TokenFacts
<1>2. token' = [t \in Tokens |-> IF t \in S \cap LiveTokens
                                 THEN [token[t] EXCEPT !.st = "revoked"] ELSE token[t]]
  BY DEF Revoke
<1>3. \A t \in Tokens :
        /\ token'[t] \in TokenDocs /\ token'[t].family = token[t].family
        /\ token'[t].replaced = token[t].replaced
        /\ (token'[t].st = "none") <=> (token[t].st = "none")
        /\ (token'[t].st = "live") <=> (token[t].st = "live" /\ t \notin S)
  <2> SUFFICES ASSUME NEW t \in Tokens
      PROVE  /\ token'[t] \in TokenDocs /\ token'[t].family = token[t].family
             /\ token'[t].replaced = token[t].replaced
             /\ (token'[t].st = "none") <=> (token[t].st = "none")
             /\ (token'[t].st = "live") <=> (token[t].st = "live" /\ t \notin S)
    OBVIOUS
  <2>1. token[t] \in TokenDocs /\ (t \in LiveTokens <=> token[t].st = "live")
    BY <1>1 DEF LiveTokens
  <2>2. CASE t \in S \cap LiveTokens
    BY <1>2, <2>1, <2>2 DEF TokenDocs
  <2>3. CASE t \notin S \cap LiveTokens
    BY <1>2, <2>1, <2>3
  <2> QED BY <2>2, <2>3
<1>4. token' \in [Tokens -> TokenDocs]
  BY <1>2, <1>3
<1>5. Issued' = Issued /\ LiveTokens' = LiveTokens \ S
  BY <1>3 DEF Issued, LiveTokens
<1>6. \A t \in Tokens : FamilyOf(t)' = FamilyOf(t)
  BY <1>3 DEF FamilyOf
<1>7. Families' = Families
  BY <1>3, <1>5, TokenFacts DEF Families
<1>8. \A f : LiveIn(f)' = LiveIn(f) \ S
  BY <1>1, <1>3, <1>5 DEF LiveIn
<1> QED BY <1>3, <1>4, <1>5, <1>6, <1>7, <1>8

(* A transaction that starts over still holds its token.                   *)
LEMMA StartsOver ==
  ASSUME NEW q \in SessionRequestDocs, NEW S
  PROVE  /\ Conflicting(q, S) \in SessionRequestDocs
         /\ \/ Conflicting(q, S) = q /\ (q.st = "claim" => q.token \notin S)
            \/ q.st = "claim" /\ Conflicting(q, S).st = "refresh" /\ Conflicting(q, S).token = q.token
<1>1. CASE q.st = "claim" /\ q.token \in S
  <2>1. q \in [st : {"reply", "refresh", "claim", "grace", "logout"}, browser : Browsers,
               token : Tokens]
    BY <1>1 DEF SessionRequestDocs, Quiet
  <2>2. [q EXCEPT !.st = "refresh"] \in
          [st : {"reply", "refresh", "claim", "grace", "logout"}, browser : Browsers, token : Tokens]
    BY <2>1
  <2>3. [q EXCEPT !.st = "refresh"].st = "refresh" /\ [q EXCEPT !.st = "refresh"].token = q.token
    BY <2>1
  <2>4. Conflicting(q, S) = [q EXCEPT !.st = "refresh"]
    BY <1>1 DEF Conflicting
  <2> QED BY <1>1, <2>2, <2>3, <2>4 DEF SessionRequestDocs
<1>2. CASE ~(q.st = "claim" /\ q.token \in S)
  BY <1>2 DEF Conflicting
<1> QED BY <1>1, <1>2

LEMMA RevokeInv ==
  ASSUME SessionsInv, NEW r \in SessionRequests, NEW q \in SessionRequestDocs, NEW S,
         Revoke(r, S, q), q.st \in {"idle", "rejected", "clear", "forget"},
         UNCHANGED <<cookie, graced, raced, halted>>,
         account' \in Accounts,
         cut \subseteq cut', cut' \subseteq Families,
         \A t \in S \cap LiveTokens : FamilyOf(t) \in cut',
         doomed' \subseteq Families,
         \A f \in doomed' \ doomed : LiveIn(f) \subseteq S,
         sreq[r].st = "revoke" => sreq[r].found = S
  PROVE  SessionsInv'
<1>1. /\ token' \in [Tokens -> TokenDocs]
      /\ \A t \in Tokens : token'[t].replaced = token[t].replaced
      /\ Issued' = Issued /\ Families' = Families /\ LiveTokens' = LiveTokens \ S
      /\ \A t \in Tokens : FamilyOf(t)' = FamilyOf(t)
      /\ \A f : LiveIn(f)' = LiveIn(f) \ S
      /\ Issued \subseteq Tokens /\ LiveTokens \subseteq Issued
  BY RevokedTokens, TokenFacts
<1>2. /\ sreq' \in [SessionRequests -> SessionRequestDocs] /\ sreq'[r] = q
      /\ \A x \in SessionRequests : x # r =>
           \/ sreq'[x] = sreq[x] /\ (sreq[x].st = "claim" => sreq[x].token \notin S \cap LiveTokens)
           \/ sreq[x].st = "claim" /\ sreq'[x].st = "refresh" /\ sreq'[x].token = sreq[x].token
  <2>1. sreq' = [o \in SessionRequests |->
                   IF o = r THEN q ELSE Conflicting(sreq[o], S \cap LiveTokens)]
    BY DEF Revoke
  <2>2. \A o \in SessionRequests : sreq[o] \in SessionRequestDocs
    BY TokenFacts
  <2> QED BY <2>1, <2>2, StartsOver
<1>3. \A x \in SessionRequests : /\ sreq'[x].st \in Holding =>
                                      sreq[x].st \in Holding /\ sreq'[x].token = sreq[x].token
                                 /\ sreq'[x].st \in Holding \cup {"logout"} =>
                                      sreq[x].st \in Holding \cup {"logout"} /\ sreq'[x].token = sreq[x].token
                                 /\ sreq'[x].st \in {"reply", "end", "revoke"} => sreq'[x] = sreq[x] /\ x # r
  BY <1>2 DEF Holding
<1>4. SessionsTyped'
  <2>1. /\ Issued = 1..Cardinality(Issued)
        /\ \A t \in Issued : FamilyOf(t) \in Issued /\ FamilyOf(FamilyOf(t)) = FamilyOf(t)
        /\ graced \cup cut \cup doomed \cup raced \cup halted \subseteq Families
    BY DEF SessionsInv, SessionsTyped, SessionsTypeOK
  <2>2. \A t \in Issued : FamilyOf(t)' = FamilyOf(t) /\ FamilyOf(FamilyOf(t))' = FamilyOf(FamilyOf(t))
    <3>1. \A t \in Issued : FamilyOf(t)' = FamilyOf(t) /\ FamilyOf(t) \in Tokens
      BY <1>1, <2>1
    <3>2. \A t \in Issued : FamilyOf(FamilyOf(t))' = token'[FamilyOf(t)'].family
      BY DEF FamilyOf
    <3>3. \A t \in Issued : token'[FamilyOf(t)].family = FamilyOf(FamilyOf(t))
      BY <1>1, <3>1 DEF FamilyOf
    <3> QED BY <3>1, <3>2, <3>3
  <2> QED BY <1>1, <1>2, <2>1, <2>2, TokenFacts DEF SessionsTyped, SessionsTypeOK
<1>5. KnownTokens'
  BY <1>1, <1>3 DEF SessionsInv, KnownTokens
<1>6. ClaimsLive'
  <2> SUFFICES ASSUME NEW x \in SessionRequests, sreq'[x].st = "claim"
      PROVE  sreq'[x].token \in LiveTokens \ S
    BY <1>1 DEF ClaimsLive
  <2>1. x # r /\ sreq'[x] = sreq[x] /\ sreq[x].token \notin S \cap LiveTokens
    BY <1>2
  <2> QED BY <2>1 DEF SessionsInv, ClaimsLive
<1>7. OneLive'
  BY <1>1 DEF SessionsInv, OneLive
<1>8. RepliesNew'
  <2> SUFFICES ASSUME NEW x \in SessionRequests, sreq'[x].st = "reply"
      PROVE  /\ token'[sreq'[x].token].replaced = "no"
             /\ \A b \in Browsers : cookie[b] # sreq'[x].token
             /\ \A o \in SessionRequests \ {x} :
                  sreq'[o].st \in Holding => sreq'[o].token # sreq'[x].token
    BY DEF RepliesNew
  <2>1. sreq'[x] = sreq[x]
    BY <1>3
  <2>2. sreq[x].token \in Tokens
    BY <1>1, <2>1 DEF SessionsInv, KnownTokens, Holding
  <2> QED BY <1>1, <1>3, <2>1, <2>2 DEF SessionsInv, RepliesNew
<1>9. ASSUME NEW t \in Issued, Usable(t) PROVE Usable(t)'
  <2>1. FamilyOf(t)' = FamilyOf(t) /\ token'[t].replaced = token[t].replaced /\ t \in Tokens
    BY <1>1
  <2>2. CASE FamilyOf(t) \in cut'
    BY <2>1, <2>2 DEF Usable
  <2>3. CASE FamilyOf(t) \notin cut'
    <3>1. LiveIn(FamilyOf(t)) \cap S = {}
      BY <2>3 DEF LiveIn, FamilyOf
    <3>2. LiveIn(FamilyOf(t))' = LiveIn(FamilyOf(t))
      <4>1. LiveIn(FamilyOf(t))' = {s \in LiveTokens' : token'[s].family = FamilyOf(t)'}
        BY DEF LiveIn
      <4>2. LiveIn(FamilyOf(t)) = {s \in LiveTokens : token[s].family = FamilyOf(t)}
        BY DEF LiveIn
      <4>3. \A s \in Tokens : token'[s].family = token[s].family
        BY <1>1 DEF FamilyOf
      <4> QED BY <1>1, <2>1, <3>1, <4>1, <4>2, <4>3
    <3>3. Claimable(t) => Claimable(t)'
      <4> SUFFICES ASSUME Claimable(t) PROVE Claimable(t)'
        OBVIOUS
      <4>1. t \in LiveTokens
        BY <2>1 DEF Claimable, LiveTokens
      <4>2. t \in LiveTokens'
        BY <1>1, <2>3, <4>1
      <4> QED BY <4>2 DEF Claimable, LiveTokens
    <3>4. InGrace(t) => InGrace(t)'
      BY <2>1, <3>2 DEF InGrace
    <3> QED BY <1>9, <2>3, <3>3, <3>4 DEF Usable
  <2> QED BY <2>2, <2>3
<1>10. CookieUsable'
  <2> SUFFICES ASSUME NEW b \in Browsers, cookie[b] # 0 PROVE Usable(cookie[b])'
    BY DEF CookieUsable, Usable
  <2>1. Usable(cookie[b])
    BY DEF SessionsInv, CookieUsable, Usable
  <2> QED BY <1>9, <2>1, TokenFacts
<1>11. HeldUsable'
  <2> SUFFICES ASSUME NEW x \in SessionRequests, NEW t \in Tokens, sreq'[x].st \in Holding,
                      sreq'[x].token = t
      PROVE  Usable(t)'
    BY DEF HeldUsable
  <2>1. sreq[x].st \in Holding /\ sreq[x].token = t
    BY <1>3
  <2>2. t \in Issued /\ Usable(t)
    BY <2>1 DEF SessionsInv, KnownTokens, HeldUsable
  <2> QED BY <1>9, <2>2
<1>12. StolenIsCut'
  BY <1>1, <1>3 DEF SessionsInv, StolenIsCut, KnownTokens
<1>13. FoundAll'
  BY <1>1, <1>3 DEF SessionsInv, FoundAll
<1>14. EndingsEnd'
  <2> SUFFICES ASSUME NEW f \in doomed' \ (raced \cup halted), LiveIn(f) \ S # {}
      PROVE  \E x \in SessionRequests : sreq'[x].st = "revoke" /\ f \in sreq'[x].ending
    BY <1>1 DEF EndingsEnd, BeingEnded
  <2>1. f \in doomed
    OBVIOUS
  <2>2. PICK x \in SessionRequests : sreq[x].st = "revoke" /\ f \in sreq[x].ending
    BY <2>1 DEF SessionsInv, EndingsEnd, BeingEnded
  <2>3. x # r
    BY <2>2 DEF SessionsInv, FoundAll
  <2> QED BY <1>2, <2>2, <2>3
<1> QED BY <1>4, <1>5, <1>6, <1>7, <1>8, <1>10, <1>11, <1>12, <1>13, <1>14 DEF SessionsInv

-----------------------------------------------------------------------------
(* A token is issued, perhaps for one that it replaces.                    *)
Issuing(n, f, S) ==
  /\ token' \in [Tokens -> TokenDocs] /\ token'[n] = Issue(f)
  /\ \A t \in Tokens \ {n} :
       IF t \in S THEN /\ token'[t].st = "revoked" /\ token'[t].replaced = "recently"
                       /\ token'[t].family = token[t].family
       ELSE token'[t] = token[t]

LEMMA NewToken ==
  ASSUME SessionsInv, NEW n, n = NextToken, n <= MaxTokens, NEW f \in Families \cup {n},
         NEW S \in SUBSET LiveTokens,
         Issuing(n, f, S)
  PROVE  /\ n \in Tokens /\ n \notin Issued
         /\ Issued' = Issued \cup {n} /\ LiveTokens' = (LiveTokens \ S) \cup {n}
         /\ \A t \in Issued : FamilyOf(t)' = FamilyOf(t)
         /\ FamilyOf(n)' = f /\ Families' = Families \cup {f}
         /\ \A g : LiveIn(g)' = (LiveIn(g) \ S) \cup (IF g = f THEN {n} ELSE {})
         /\ Issued' = 1..Cardinality(Issued')
         /\ \A t \in Issued' : FamilyOf(t)' \in Issued' /\ FamilyOf(FamilyOf(t))' = FamilyOf(t)'
<1>0. /\ token' \in [Tokens -> TokenDocs] /\ token'[n] = Issue(f)
      /\ \A t \in Tokens \ {n} :
           IF t \in S THEN /\ token'[t].st = "revoked" /\ token'[t].replaced = "recently"
                           /\ token'[t].family = token[t].family
           ELSE token'[t] = token[t]
  BY DEF Issuing
<1>1. n \in Tokens /\ n \notin Issued /\ token[n].st = "none"
  BY NextIsNew
<1>2. Issued \subseteq Tokens /\ LiveTokens \subseteq Issued /\ n \notin LiveTokens
  BY <1>1, TokenFacts
<1>3. token'[n].st = "live" /\ token'[n].family = f
  BY <1>0 DEF Issue
<1>4. Issued' = Issued \cup {n}
  <2>1. \A t \in Tokens \ {n} : token'[t].st # "none" <=> token[t].st # "none"
    BY <1>0 DEF LiveTokens
  <2> QED BY <1>1, <1>3, <2>1 DEF Issued
<1>5. LiveTokens' = (LiveTokens \ S) \cup {n}
  BY <1>0, <1>1, <1>3 DEF LiveTokens
<1>6. (\A t \in Tokens : t # n => token'[t].family = token[t].family)
  BY <1>0
<1>7. (\A t \in Issued : FamilyOf(t)' = FamilyOf(t)) /\ FamilyOf(n)' = f
  BY <1>1, <1>2, <1>3, <1>6 DEF FamilyOf
<1>8. Families' = Families \cup {f}
  BY <1>1, <1>2, <1>3, <1>4, <1>6 DEF Families
<1>9. \A g : LiveIn(g)' = (LiveIn(g) \ S) \cup (IF g = f THEN {n} ELSE {})
  BY <1>1, <1>2, <1>3, <1>5, <1>6 DEF LiveIn
<1>10. Issued' = 1..Cardinality(Issued')
  BY <1>4, NextIsNew
<1>11. \A t \in Issued' : FamilyOf(t)' \in Issued' /\ FamilyOf(FamilyOf(t))' = FamilyOf(t)'
  <2>0. /\ \A t \in Issued : FamilyOf(t) \in Issued /\ FamilyOf(FamilyOf(t)) = FamilyOf(t)
        /\ \A g \in Families : g \in Issued /\ FamilyOf(g) = g
    BY TokenFacts DEF SessionsInv, SessionsTyped, SessionsTypeOK, Families, FamilyOf
  <2>1. \A t \in Issued : token'[t].family = token[t].family
    BY <1>1, <1>2, <1>6
  <2>2. \A t \in Issued : token'[t].family \in Issued /\ token'[token'[t].family].family = token'[t].family
    BY <2>0, <2>1 DEF FamilyOf
  <2>3. f \in Issued' /\ token'[f].family = f
    BY <1>3, <1>4, <2>0, <2>1 DEF FamilyOf
  <2>4. \A t \in Issued' : token'[t].family \in Issued' /\ token'[token'[t].family].family = token'[t].family
    BY <1>3, <1>4, <2>2, <2>3
  <2> QED BY <2>4 DEF FamilyOf
<1> QED BY <1>1, <1>4, <1>5, <1>7, <1>8, <1>9, <1>10, <1>11

(* What was usable stays so: a token that was replaced is let through.     *)
LEMMA NewKeepsUsable ==
  ASSUME SessionsInv, NEW n, n = NextToken, n <= MaxTokens, NEW f \in Families \cup {n},
         NEW S \in SUBSET LiveIn(f), UNCHANGED cut,
         Issuing(n, f, S),
         NEW t \in Issued, Usable(t)
  PROVE  Usable(t)'
<1>1. S \subseteq LiveTokens
  BY DEF LiveIn
<1>2. /\ n \in Tokens /\ n \notin Issued /\ FamilyOf(t)' = FamilyOf(t)
      /\ \A g : LiveIn(g)' = (LiveIn(g) \ S) \cup (IF g = f THEN {n} ELSE {})
  BY <1>1, NewToken
<1>3. t \in Tokens \ {n}
  BY <1>2, TokenFacts
<1>4. CASE t \in S
  <2>1. FamilyOf(t) = f
    BY <1>4 DEF LiveIn, FamilyOf
  <2>2. n \in LiveIn(f)'
    BY <1>2
  <2>3. LiveIn(FamilyOf(t))' # {}
    <3>1. LiveIn(FamilyOf(t))' = {s \in LiveTokens' : token'[s].family = FamilyOf(t)'}
      BY DEF LiveIn
    <3>2. LiveIn(f)' = {s \in LiveTokens' : token'[s].family = f}
      BY DEF LiveIn
    <3> QED BY <1>2, <2>1, <2>2, <3>1, <3>2
  <2>4. token'[t].replaced = "recently"
    BY <1>3, <1>4 DEF Issuing
  <2> QED BY <2>3, <2>4 DEF Usable, InGrace
<1>5. CASE t \notin S
  <2>1. token'[t] = token[t]
    BY <1>3, <1>5 DEF Issuing
  <2>2. LiveIn(FamilyOf(t)) # {} => LiveIn(FamilyOf(t))' # {}
    <3>1. LiveIn(FamilyOf(t))' = {s \in LiveTokens' : token'[s].family = FamilyOf(t)'}
      BY DEF LiveIn
    <3>2. PICK g : g = FamilyOf(t)
      OBVIOUS
    <3>3. LiveIn(g)' = {s \in LiveTokens' : token'[s].family = g}
      BY DEF LiveIn
    <3>4. LiveIn(FamilyOf(t))' = LiveIn(g)'
      BY <1>2, <3>1, <3>2, <3>3
    <3>5. LiveIn(g) # {} => LiveIn(g)' # {}
      <4>1. CASE g = f
        BY <1>2, <4>1
      <4>2. CASE g # f
        <5>1. LiveIn(g) \cap S = {}
          BY <4>2 DEF LiveIn
        <5> QED BY <1>2, <4>2, <5>1
      <4> QED BY <4>1, <4>2
    <3> QED BY <3>2, <3>4, <3>5
  <2> QED BY <1>2, <2>1, <2>2 DEF Usable, Claimable, InGrace
<1> QED BY <1>4, <1>5

LEMMA IssuedInv ==
  ASSUME SessionsInv, NEW r \in SessionRequests, NEW n, n = NextToken, n <= MaxTokens,
         NEW f \in Families \cup {n}, NEW S \in SUBSET LiveIn(f), Issuing(n, f, S),
         NEW q \in SessionRequestDocs, q.st = "reply", q.token = n,
         sreq' \in [SessionRequests -> SessionRequestDocs], sreq'[r] = q,
         \A x \in SessionRequests \ {r} :
           \/ sreq'[x] = sreq[x] /\ (sreq[x].st = "claim" => sreq[x].token \notin S)
           \/ sreq[x].st = "claim" /\ sreq'[x].st = "refresh" /\ sreq'[x].token = sreq[x].token,
         \A x \in SessionRequests \ {r} : sreq[x].st = "reply" => sreq[x].token \notin S,
         sreq[r].st # "revoke",
         \/ f = n
         \/ LiveIn(f) \ S = {}
         \/ f \in graced',
         f \in Families /\ (f \in BeingEnded \/ LiveIn(f) = {}) => f \in raced',
         graced \subseteq graced', graced' \subseteq Families', raced \subseteq raced',
         raced' \subseteq Families',
         UNCHANGED <<cookie, cut, doomed, halted>>, account' \in Accounts
  PROVE  SessionsInv'
<1>1. S \in SUBSET LiveTokens
  BY DEF LiveIn
<1>2. /\ n \in Tokens /\ n \notin Issued
      /\ Issued' = Issued \cup {n} /\ LiveTokens' = (LiveTokens \ S) \cup {n}
      /\ \A t \in Issued : FamilyOf(t)' = FamilyOf(t)
      /\ FamilyOf(n)' = f /\ Families' = Families \cup {f}
      /\ \A g : LiveIn(g)' = (LiveIn(g) \ S) \cup (IF g = f THEN {n} ELSE {})
      /\ Issued' = 1..Cardinality(Issued')
      /\ \A t \in Issued' : FamilyOf(t)' \in Issued' /\ FamilyOf(FamilyOf(t))' = FamilyOf(t)'
  BY <1>1, NewToken
<1>3. /\ token' \in [Tokens -> TokenDocs] /\ token'[n] = Issue(f) /\ token'[n].replaced = "no"
      /\ \A t \in Tokens \ {n} : t \notin S => token'[t] = token[t]
  BY DEF Issuing, Issue
<1>4. Issued \subseteq Tokens /\ LiveTokens \subseteq Issued /\ Families \subseteq Issued
  BY TokenFacts
<1>5. \A x \in SessionRequests \ {r} :
        /\ sreq'[x].st \in Holding <=> sreq[x].st \in Holding
        /\ sreq[x].st \in Holding => sreq'[x].token = sreq[x].token
        /\ sreq'[x].st \in {"reply", "logout", "end", "revoke"} => sreq'[x] = sreq[x]
        /\ sreq[x].st \in {"reply", "logout", "end", "revoke"} => sreq'[x] = sreq[x]
  BY DEF Holding
<1>6. SessionsTyped'
  BY <1>2, <1>3 DEF SessionsInv, SessionsTyped, SessionsTypeOK
<1>7. KnownTokens'
  <2> SUFFICES ASSUME NEW x \in SessionRequests
      PROVE  /\ sreq'[x].st \in Holding \cup {"logout"} => sreq'[x].token \in Issued'
             /\ sreq'[x].st = "revoke" =>
                  sreq'[x].found \subseteq Issued' /\ sreq'[x].ending \subseteq Families'
    BY DEF KnownTokens
  <2>1. CASE x = r
    BY <1>2, <2>1 DEF Holding
  <2>2. CASE x # r
    <3>1. /\ sreq[x].st \in Holding \cup {"logout"} => sreq[x].token \in Issued
          /\ sreq[x].st = "revoke" => sreq[x].found \subseteq Issued /\ sreq[x].ending \subseteq Families
      BY DEF SessionsInv, KnownTokens
    <3> QED BY <1>2, <1>5, <2>2, <3>1
  <2> QED BY <2>1, <2>2
<1>8. ClaimsLive'
  <2> SUFFICES ASSUME NEW x \in SessionRequests, sreq'[x].st = "claim"
      PROVE  sreq'[x].token \in LiveTokens'
    BY DEF ClaimsLive
  <2>1. x # r /\ sreq'[x] = sreq[x] /\ sreq[x].token \notin S
    OBVIOUS
  <2> QED BY <1>2, <2>1 DEF SessionsInv, ClaimsLive
<1>9. OneLive'
  <2> SUFFICES ASSUME NEW s \in LiveTokens', NEW t \in LiveTokens',
                      FamilyOf(s)' = FamilyOf(t)', FamilyOf(s)' \notin graced'
      PROVE  s = t
    BY DEF OneLive
  <2>1. \A o \in LiveTokens \ S : o \in Issued /\ FamilyOf(o)' = FamilyOf(o)
    BY <1>2, <1>4
  <2>2. ASSUME NEW o \in LiveTokens \ S, FamilyOf(o) = f PROVE f \in graced'
    <3>1. o \in LiveIn(f)
      BY <2>2 DEF LiveIn, FamilyOf
    <3>2. f \in Issued
      BY <2>1, <2>2, TokenFacts
    <3> QED BY <1>2, <3>1, <3>2
  <2>3. CASE s = n \/ t = n
    BY <1>2, <2>1, <2>2, <2>3
  <2>4. CASE s # n /\ t # n
    BY <1>2, <2>1, <2>4 DEF SessionsInv, OneLive
  <2> QED BY <2>3, <2>4
<1>10. RepliesNew'
  <2> SUFFICES ASSUME NEW x \in SessionRequests, sreq'[x].st = "reply"
      PROVE  /\ token'[sreq'[x].token].replaced = "no"
             /\ \A b \in Browsers : cookie[b] # sreq'[x].token
             /\ \A o \in SessionRequests \ {x} :
                  sreq'[o].st \in Holding => sreq'[o].token # sreq'[x].token
    BY DEF RepliesNew
  <2>1. \A o \in SessionRequests \ {r} : sreq'[o].st \in Holding =>
          sreq[o].st \in Holding /\ sreq'[o].token = sreq[o].token /\ sreq[o].token \in Issued
    BY <1>5 DEF SessionsInv, KnownTokens
  <2>2. CASE x = r
    <3>1. \A b \in Browsers : cookie[b] # n
      <4>1. n # 0
        BY <1>2, SessionsAssumption DEF Tokens, SessionsAssumption
      <4> QED BY <1>2, <4>1, TokenFacts
    <3> QED BY <1>2, <1>3, <2>1, <2>2, <3>1
  <2>3. CASE x # r
    <3>1. sreq'[x] = sreq[x] /\ sreq[x].token \in Issued
      BY <1>5, <2>1, <2>3 DEF Holding
    <3>2. token'[sreq[x].token] = token[sreq[x].token]
      BY <1>2, <1>3, <1>4, <2>3, <3>1
    <3>3. /\ token[sreq[x].token].replaced = "no"
          /\ \A b \in Browsers : cookie[b] # sreq[x].token
          /\ \A o \in SessionRequests \ {x} : sreq[o].st \in Holding => sreq[o].token # sreq[x].token
      BY <3>1 DEF SessionsInv, RepliesNew
    <3>4. ASSUME NEW o \in SessionRequests \ {x}, sreq'[o].st \in Holding
          PROVE  sreq'[o].token # sreq[x].token
      <4>1. CASE o = r
        BY <1>2, <3>1, <4>1
      <4>2. CASE o # r
        BY <2>1, <3>3, <3>4, <4>2
      <4> QED BY <4>1, <4>2
    <3> QED BY <3>1, <3>2, <3>3, <3>4
  <2> QED BY <2>2, <2>3
<1>11. \A t \in Issued : Usable(t) => Usable(t)'
  BY NewKeepsUsable
<1>12. Usable(n)'
  BY <1>3 DEF Usable, Claimable, Issue
<1>13. CookieUsable'
  <2> SUFFICES ASSUME NEW b \in Browsers, cookie[b] # 0 PROVE Usable(cookie[b])'
    BY DEF CookieUsable, Usable
  <2>1. Usable(cookie[b])
    BY DEF SessionsInv, CookieUsable, Usable
  <2> QED BY <1>11, <2>1, TokenFacts
<1>14. HeldUsable'
  <2> SUFFICES ASSUME NEW x \in SessionRequests, NEW t \in Tokens, sreq'[x].st \in Holding,
                      sreq'[x].token = t
      PROVE  Usable(t)'
    BY DEF HeldUsable
  <2>1. CASE x = r
    BY <1>12, <2>1
  <2>2. CASE x # r
    <3>1. sreq[x].st \in Holding /\ sreq[x].token = t
      BY <1>5, <2>2
    <3>2. t \in Issued /\ Usable(t)
      BY <3>1 DEF SessionsInv, KnownTokens, HeldUsable
    <3> QED BY <1>11, <3>2
  <2> QED BY <2>1, <2>2
<1>15. StolenIsCut'
  <2> SUFFICES ASSUME NEW x \in SessionRequests
      PROVE  /\ sreq'[x].st = "end" /\ sreq'[x].which = "stolen" => sreq'[x].family \in cut
             /\ sreq'[x].st = "revoke" /\ sreq'[x].which = "stolen" =>
                  \A t \in sreq'[x].found : FamilyOf(t)' \in cut
    BY DEF StolenIsCut
  <2>1. CASE x = r
    BY <2>1
  <2>2. CASE x # r
    <3>1. /\ sreq[x].st = "end" /\ sreq[x].which = "stolen" => sreq[x].family \in cut
          /\ sreq[x].st = "revoke" /\ sreq[x].which = "stolen" =>
               \A t \in sreq[x].found : FamilyOf(t) \in cut
          /\ sreq[x].st = "revoke" => sreq[x].found \subseteq Issued
      BY DEF SessionsInv, StolenIsCut, KnownTokens
    <3> QED BY <1>2, <1>5, <2>2, <3>1
  <2> QED BY <2>1, <2>2
<1>16. FoundAll'
  <2> SUFFICES ASSUME NEW x \in SessionRequests, sreq'[x].st = "revoke",
                      NEW g \in sreq'[x].ending \ raced'
      PROVE  LiveIn(g)' \subseteq sreq'[x].found
    BY DEF FoundAll
  <2>1. x # r /\ sreq'[x] = sreq[x]
    BY <1>5
  <2>2. LiveIn(g) \subseteq sreq[x].found /\ g \in Families
    BY <2>1 DEF SessionsInv, FoundAll, KnownTokens
  <2>3. g # f
    <3>1. g \in BeingEnded
      BY <2>1 DEF BeingEnded
    <3> QED BY <2>2, <3>1
  <2> QED BY <1>2, <2>1, <2>2, <2>3
<1>17. EndingsEnd'
  <2> SUFFICES ASSUME NEW g \in doomed \ (raced' \cup halted), LiveIn(g)' # {}
      PROVE  \E x \in SessionRequests : sreq'[x].st = "revoke" /\ g \in sreq'[x].ending
    BY DEF EndingsEnd, BeingEnded
  <2>1. LiveIn(g) = {} \/ g \in BeingEnded
    BY DEF SessionsInv, EndingsEnd
  <2>2. g \in Families
    BY DEF SessionsInv, SessionsTyped, SessionsTypeOK
  <2>3. g # f
    BY <2>1, <2>2
  <2>4. LiveIn(g) # {}
    BY <1>2, <2>3
  <2>5. PICK x \in SessionRequests : sreq[x].st = "revoke" /\ g \in sreq[x].ending
    BY <2>1, <2>4 DEF BeingEnded
  <2> QED BY <1>5, <2>5
<1> QED BY <1>6, <1>7, <1>8, <1>9, <1>10, <1>13, <1>14, <1>15, <1>16, <1>17 DEF SessionsInv

-----------------------------------------------------------------------------
(* A request goes on, and everything else stays.                           *)
LEMMA GoesOnInv ==
  ASSUME SessionsInv, NEW r \in SessionRequests, NEW q \in SessionRequestDocs, Goes(r, q),
         Means(r, q), sreq[r].st # "revoke", account' \in Accounts,
         UNCHANGED <<token, cookie, graced, cut, doomed, raced, halted>>
  PROVE  SessionsInv'
<1>1. cookie \in [Browsers -> Issued \cup {0}]
  BY TokenFacts
<1>2. doomed \cup halted \subseteq Families
  BY DEF SessionsInv, SessionsTyped, SessionsTypeOK
<1>3. \A b \in Browsers : cookie'[b] \in {cookie[b], 0}
  OBVIOUS
<1> QED BY <1>1, <1>2, <1>3, TokensStayInv

LEMMA StartsInv ==
  ASSUME SessionsInv, NEW r \in SessionRequests, NEW op, NEW q \in SessionRequestDocs,
         Sends(r, op, q), Means(r, q), account' \in Accounts,
         UNCHANGED <<token, cookie, graced, cut, doomed, raced, halted>>
  PROVE  SessionsInv'
<1>1. Goes(r, q) /\ sreq[r].st # "revoke"
  BY QuietTyped DEF Sends
<1> QED BY <1>1, GoesOnInv

LEMMA AccountFacts ==
  ASSUME SessionsInv
  PROVE  /\ account \in Accounts
         /\ account.endings < MaxEndings => [account EXCEPT !.endings = @ + 1] \in Accounts
         /\ [account EXCEPT !.status = "deleted"] \in Accounts
<1>1. account \in Accounts /\ MaxEndings \in Nat
  BY SessionsAssumption DEF SessionsInv, SessionsTyped, SessionsAssumption
<1>2. account.endings \in 0..MaxEndings
  BY <1>1 DEF Accounts
<1>3. account.endings < MaxEndings => account.endings + 1 \in 0..MaxEndings
  BY <1>1, <1>2
<1> QED BY <1>1, <1>3 DEF Accounts

LEMMA LoginInv ==
  ASSUME SessionsInv, NEW r \in SessionRequests, NEW b \in Browsers, Login(r, b)
  PROVE  SessionsInv'
<1> DEFINE q == [st |-> "create", browser |-> b]
<1>1. q \in SessionRequestDocs
  BY DEF SessionRequestDocs
<1>2. Means(r, q)
  BY DEF Means, Holding
<1>3. Sends(r, "login", q) /\ UNCHANGED <<token, cookie, account, graced, cut, doomed, raced, halted>>
  BY DEF Login
<1> HIDE DEF q
<1> QED BY <1>1, <1>2, <1>3, StartsInv, AccountFacts

LEMMA RefreshInv ==
  ASSUME SessionsInv, NEW r \in SessionRequests, NEW b \in Browsers, Refresh(r, b)
  PROVE  SessionsInv'
<1> DEFINE q == [st |-> "refresh", browser |-> b, token |-> cookie[b]]
<1>0. cookie[b] # 0 /\ cookie[b] \in Issued /\ cookie[b] \in Tokens
  BY TokenFacts DEF Refresh
<1>1. q \in SessionRequestDocs
  BY <1>0 DEF SessionRequestDocs
<1>2. Means(r, q)
  <2>1. Usable(cookie[b])
    BY <1>0 DEF SessionsInv, CookieUsable, Usable
  <2>2. \A o \in SessionRequests \ {r} : sreq[o].st = "reply" => sreq[o].token # cookie[b]
    BY DEF SessionsInv, RepliesNew
  <2> QED BY <1>0, <2>1, <2>2 DEF Means, Holding
<1>3. Sends(r, "refresh", q) /\ UNCHANGED <<token, cookie, account, graced, cut, doomed, raced, halted>>
  BY DEF Refresh
<1> HIDE DEF q
<1> QED BY <1>1, <1>2, <1>3, StartsInv, AccountFacts

LEMMA RevokeSessionsInv ==
  ASSUME SessionsInv, NEW r \in SessionRequests, NEW b \in Browsers,
         NEW which \in {"family", "others"}, NEW f \in Families, RevokeSessions(r, b, which, f)
  PROVE  SessionsInv'
<1> DEFINE q == [st |-> "end", browser |-> b, family |-> f, keep |-> 0, which |-> which]
<1>1. q \in SessionRequestDocs
  <2>1. f \in 0..MaxTokens /\ 0 \in 0..MaxTokens
    BY TokenFacts, SessionsAssumption DEF Tokens, SessionsAssumption
  <2> QED BY <2>1 DEF SessionRequestDocs, Endings
<1>2. Means(r, q)
  BY DEF Means, Holding
<1>3. /\ Sends(r, "revoke", q) /\ account' \in Accounts
      /\ UNCHANGED <<token, cookie, graced, cut, doomed, raced, halted>>
  BY AccountFacts DEF RevokeSessions
<1> HIDE DEF q
<1> QED BY <1>1, <1>2, <1>3, StartsInv

LEMMA ResetPasswordInv ==
  ASSUME SessionsInv, NEW r \in SessionRequests, NEW b \in Browsers, ResetPassword(r, b)
  PROVE  SessionsInv'
<1> DEFINE q == [st |-> "end", browser |-> b, family |-> 0, keep |-> 0, which |-> "all"]
<1>1. q \in SessionRequestDocs
  <2>1. 0 \in 0..MaxTokens
    BY SessionsAssumption DEF SessionsAssumption
  <2> QED BY <2>1 DEF SessionRequestDocs, Endings
<1>2. Means(r, q)
  BY DEF Means, Holding
<1>3. /\ Sends(r, "reset", q) /\ account' \in Accounts
      /\ UNCHANGED <<token, cookie, graced, cut, doomed, raced, halted>>
  BY AccountFacts DEF ResetPassword
<1> HIDE DEF q
<1> QED BY <1>1, <1>2, <1>3, StartsInv

LEMMA ChangePasswordInv ==
  ASSUME SessionsInv, NEW r \in SessionRequests, NEW b \in Browsers, ChangePassword(r, b)
  PROVE  SessionsInv'
<1> DEFINE q == [st |-> "saved", browser |-> b, token |-> cookie[b]]
<1>1. q \in SessionRequestDocs
  <2>1. cookie[b] \in 0..MaxTokens
    BY TokenFacts, SessionsAssumption DEF Tokens, SessionsAssumption
  <2> QED BY <2>1 DEF SessionRequestDocs
<1>2. Means(r, q)
  BY DEF Means, Holding
<1>3. /\ Sends(r, "password", q) /\ account' \in Accounts
      /\ UNCHANGED <<token, cookie, graced, cut, doomed, raced, halted>>
  BY AccountFacts DEF ChangePassword
<1> HIDE DEF q
<1> QED BY <1>1, <1>2, <1>3, StartsInv

LEMMA LogoutInv ==
  ASSUME SessionsInv, NEW r \in SessionRequests, NEW b \in Browsers, Logout(r, b)
  PROVE  SessionsInv'
<1> DEFINE q == [st |-> "logout", browser |-> b, token |-> cookie[b]]
<1>0. cookie[b] \in Issued /\ cookie[b] \in Tokens
  BY TokenFacts DEF Logout
<1>1. q \in SessionRequestDocs
  BY <1>0 DEF SessionRequestDocs
<1>2. Means(r, q)
  BY <1>0 DEF Means, Holding
<1>3. Sends(r, "logout", q) /\ UNCHANGED <<token, cookie, account, graced, cut, doomed, raced, halted>>
  BY DEF Logout
<1> HIDE DEF q
<1> QED BY <1>1, <1>2, <1>3, StartsInv, AccountFacts

LEMMA LookUpAccountInv ==
  ASSUME SessionsInv, NEW r \in SessionRequests, LookUpAccount(r)
  PROVE  SessionsInv'
<1> DEFINE q == [st |-> "lookup", seen |-> account.status]
<1>1. q \in SessionRequestDocs
  BY AccountFacts DEF SessionRequestDocs, Accounts
<1>2. Means(r, q)
  BY DEF Means, Holding
<1>3. Sends(r, "delete", q) /\ UNCHANGED <<token, cookie, account, graced, cut, doomed, raced, halted>>
  BY DEF LookUpAccount
<1> HIDE DEF q
<1> QED BY <1>1, <1>2, <1>3, StartsInv, AccountFacts

(* The snapshot of a refresh shows a token that may be replaced, one that  *)
(* was a moment ago, or one of a family that was ended.                    *)
LEMMA BeginRefreshInv ==
  ASSUME SessionsInv, NEW r \in SessionRequests, BeginRefresh(r)
  PROVE  SessionsInv'
<1>1. PICK t \in Tokens : t = sreq[r].token /\ t \in Issued /\ Usable(t)
  <2>1. sreq[r].token \in Issued /\ sreq[r].token \in Tokens
    BY TokenFacts DEF BeginRefresh, Now, SessionsInv, KnownTokens, Holding
  <2> QED BY <2>1 DEF BeginRefresh, Now, SessionsInv, HeldUsable, Holding
<1>2. PICK b \in Browsers : b = sreq[r].browser
  <2>1. sreq[r] \in SessionRequestDocs /\ sreq[r].st = "refresh"
    BY TokenFacts DEF BeginRefresh, Now
  <2> QED BY <2>1, SessionRequestShapes DEF Quiet
<1>3. \A o \in SessionRequests \ {r} : sreq[o].st = "reply" => sreq[o].token # t
  BY <1>1 DEF BeginRefresh, Now, SessionsInv, RepliesNew, Holding
<1>4. /\ sreq[r].st = "refresh" /\ account' \in Accounts
      /\ UNCHANGED <<token, cookie, account, graced, cut, doomed, raced, halted>>
  BY AccountFacts DEF BeginRefresh, Now
<1>5. ASSUME NEW s \in {"claim", "grace"}
      PROVE  /\ [sreq[r] EXCEPT !.st = s] \in SessionRequestDocs
             /\ [sreq[r] EXCEPT !.st = s].st = s /\ [sreq[r] EXCEPT !.st = s].token = t
  <2>1. sreq[r] \in [st : {"reply", "refresh", "claim", "grace", "logout"}, browser : Browsers,
                     token : Tokens]
    <3>1. sreq[r] \in SessionRequestDocs
      BY TokenFacts
    <3> QED BY <1>4, <3>1 DEF SessionRequestDocs, Quiet
  <2>2. [sreq[r] EXCEPT !.st = s] \in
          [st : {"reply", "refresh", "claim", "grace", "logout"}, browser : Browsers, token : Tokens]
    BY <2>1
  <2> QED BY <1>1, <2>1, <2>2 DEF SessionRequestDocs
<1>6. CASE Claimable(t)
  <2>1. Goes(r, [sreq[r] EXCEPT !.st = "claim"])
    BY <1>1, <1>6 DEF BeginRefresh
  <2>2. Means(r, [sreq[r] EXCEPT !.st = "claim"])
    <3>1. t \in LiveTokens
      BY <1>6 DEF Claimable, LiveTokens
    <3> QED BY <1>1, <1>3, <1>5, <3>1 DEF Means, Holding
  <2> QED BY <1>4, <1>5, <2>1, <2>2, GoesOnInv
<1>7. CASE ~Claimable(t) /\ InGrace(t)
  <2>1. Goes(r, [sreq[r] EXCEPT !.st = "grace"])
    BY <1>1, <1>7 DEF BeginRefresh
  <2>2. Means(r, [sreq[r] EXCEPT !.st = "grace"])
    BY <1>1, <1>3, <1>5 DEF Means, Holding
  <2> QED BY <1>4, <1>5, <2>1, <2>2, GoesOnInv
<1>8. CASE ~Claimable(t) /\ ~InGrace(t)
  <2> DEFINE q == [st |-> "end", browser |-> b, family |-> FamilyOf(t), keep |-> 0,
                   which |-> "stolen"]
  <2>1. Goes(r, q)
    BY <1>1, <1>2, <1>8 DEF BeginRefresh
  <2>2. q \in SessionRequestDocs
    <3>0. FamilyOf(t) \in Tokens
      BY <1>1, TokenFacts
    <3>1. FamilyOf(t) \in 0..MaxTokens /\ 0 \in 0..MaxTokens
      BY <3>0, SessionsAssumption DEF Tokens, SessionsAssumption
    <3> QED BY <3>1 DEF SessionRequestDocs, Endings
  <2>3. Means(r, q)
    BY <1>1, <1>8 DEF Means, Holding, Usable
  <2> HIDE DEF q
  <2> QED BY <1>4, <2>1, <2>2, <2>3, GoesOnInv
<1> QED BY <1>6, <1>7, <1>8

LEMMA FindCurrentSessionInv ==
  ASSUME SessionsInv, NEW r \in SessionRequests, FindCurrentSession(r)
  PROVE  SessionsInv'
<1>1. sreq[r].st = "saved" /\ sreq[r].browser \in Browsers /\ sreq[r].token \in 0..MaxTokens
  <2>1. sreq[r] \in SessionRequestDocs /\ sreq[r].st = "saved"
    BY TokenFacts DEF FindCurrentSession, Now
  <2> QED BY <2>1, SessionRequestShapes DEF Quiet
<1>2. PICK k \in 0..MaxTokens : k = IF sreq[r].token \in LiveTokens THEN sreq[r].token ELSE 0
  <2>1. 0 \in 0..MaxTokens
    BY SessionsAssumption DEF SessionsAssumption
  <2> QED BY <1>1, <2>1
<1> DEFINE q == [st |-> "end", browser |-> sreq[r].browser, family |-> 0, keep |-> k, which |-> "all"]
<1>3. q \in SessionRequestDocs
  <2>1. 0 \in 0..MaxTokens
    BY SessionsAssumption DEF SessionsAssumption
  <2> QED BY <1>1, <1>2, <2>1 DEF SessionRequestDocs, Endings
<1>4. Means(r, q)
  BY DEF Means, Holding
<1>5. Goes(r, q) /\ UNCHANGED <<token, cookie, account, graced, cut, doomed, raced, halted>>
  BY <1>2 DEF FindCurrentSession
<1> HIDE DEF q
<1> QED BY <1>1, <1>3, <1>4, <1>5, GoesOnInv, AccountFacts

(* The answer brings the cookie.                                           *)
LEMMA ReplyInv ==
  ASSUME SessionsInv, NEW r \in SessionRequests, Reply(r)
  PROVE  SessionsInv'
<1>1. sreq[r].st = "reply" /\ sreq[r].token \in Issued /\ sreq[r].browser \in Browsers
  <2>1. sreq[r] \in SessionRequestDocs /\ sreq[r].st = "reply"
    BY TokenFacts DEF Reply, Now
  <2>2. sreq[r].token \in Issued
    BY <2>1 DEF SessionsInv, KnownTokens, Holding
  <2> QED BY <2>1, <2>2, SessionRequestShapes DEF Quiet
<1>2. Means(r, Quiet)
  BY QuietTyped DEF Means, Holding
<1>3. /\ cookie' = [cookie EXCEPT ![sreq[r].browser] = sreq[r].token] /\ Goes(r, Quiet)
      /\ UNCHANGED <<token, account, graced, cut, doomed, raced, halted>>
  BY DEF Reply
<1>4. cookie \in [Browsers -> Issued \cup {0}] /\ account' \in Accounts
  BY <1>3, TokenFacts, AccountFacts
<1>5. /\ cookie' \in [Browsers -> Issued \cup {0}]
      /\ \A b \in Browsers : cookie'[b] \in {cookie[b], 0} \/ cookie'[b] = sreq[r].token
  BY <1>1, <1>3, <1>4
<1>6. doomed \cup halted \subseteq Families
  BY DEF SessionsInv, SessionsTyped, SessionsTypeOK
<1> QED BY <1>1, <1>2, <1>3, <1>4, <1>5, <1>6, QuietTyped, TokensStayInv

LEMMA ClearCookieInv ==
  ASSUME SessionsInv, NEW r \in SessionRequests, ClearCookie(r)
  PROVE  SessionsInv'
<1>2. Means(r, Quiet)
  BY QuietTyped DEF Means, Holding
<1>3. /\ cookie' = [cookie EXCEPT ![sreq[r].browser] = 0] /\ Goes(r, Quiet)
      /\ UNCHANGED <<token, account, graced, cut, doomed, raced, halted>> /\ sreq[r].st = "clear"
  BY DEF ClearCookie, Now
<1>4. cookie \in [Browsers -> Issued \cup {0}] /\ account' \in Accounts
  BY <1>3, TokenFacts, AccountFacts
<1>5. /\ cookie' \in [Browsers -> Issued \cup {0}]
      /\ \A b \in Browsers : cookie'[b] \in {cookie[b], 0}
  BY <1>3, <1>4
<1>6. doomed \cup halted \subseteq Families
  BY DEF SessionsInv, SessionsTyped, SessionsTypeOK
<1> QED BY <1>2, <1>3, <1>4, <1>5, <1>6, QuietTyped, TokensStayInv

LEMMA RejectedInv ==
  ASSUME SessionsInv, NEW r \in SessionRequests, Rejected(r) \/ RememberAccount(r)
  PROVE  SessionsInv'
<1>1. Means(r, Quiet)
  BY QuietTyped DEF Means, Holding
<1>2. /\ Goes(r, Quiet) /\ UNCHANGED <<token, cookie, account, graced, cut, doomed, raced, halted>>
      /\ sreq[r].st # "revoke"
  BY DEF Rejected, RememberAccount, Now
<1> QED BY <1>1, <1>2, QuietTyped, GoesOnInv, AccountFacts

LEMMA ForgetAccountStatusInv ==
  ASSUME SessionsInv, NEW r \in SessionRequests, ForgetAccountStatus(r)
  PROVE  SessionsInv'
<1> DEFINE q == [st |-> "clear", browser |-> sreq[r].browser]
<1>0. sreq[r].st = "forget" /\ sreq[r].browser \in Browsers
  <2>1. sreq[r] \in SessionRequestDocs /\ sreq[r].st = "forget"
    BY TokenFacts DEF ForgetAccountStatus, Now
  <2> QED BY <2>1, SessionRequestShapes DEF Quiet
<1>1. q \in SessionRequestDocs
  BY <1>0 DEF SessionRequestDocs
<1>2. Means(r, q)
  BY DEF Means, Holding
<1>3. Goes(r, q) /\ UNCHANGED <<token, cookie, account, graced, cut, doomed, raced, halted>>
  BY DEF ForgetAccountStatus
<1> HIDE DEF q
<1> QED BY <1>0, <1>1, <1>2, <1>3, GoesOnInv, AccountFacts

LEMMA SessionRequestEndsInv ==
  ASSUME SessionsInv, NEW r \in SessionRequests, SessionRequestEnds(r)
  PROVE  SessionsInv'
<1>1. Means(r, Quiet)
  BY QuietTyped DEF Means, Holding
<1>2. /\ Goes(r, Quiet) /\ UNCHANGED <<token, cookie, account, graced, cut, doomed, raced>>
      /\ halted' = IF sreq[r].st = "revoke" THEN halted \cup sreq[r].ending ELSE halted
  BY DEF SessionRequestEnds
<1>3. sreq[r].st = "revoke" => sreq[r].ending \subseteq Families
  BY DEF SessionsInv, KnownTokens
<1>4. doomed \cup halted \subseteq Families
  BY DEF SessionsInv, SessionsTyped, SessionsTypeOK
<1>5. cookie' \in [Browsers -> Issued \cup {0}] /\ \A b \in Browsers : cookie'[b] \in {cookie[b], 0}
  BY <1>2, TokenFacts
<1> QED BY <1>1, <1>2, <1>3, <1>4, <1>5, QuietTyped, TokensStayInv, AccountFacts

LEMMA ForgetAfterTtlInv ==
  ASSUME SessionsInv,
         UNCHANGED <<aims, token, cookie, screen, account, sreq, graced, cut, doomed, raced, halted>>
  PROVE  SessionsInv'
<1>1. SessionsTyped' /\ KnownTokens' /\ ClaimsLive' /\ OneLive' /\ RepliesNew'
  BY SameTokens DEF SessionsInv, SessionsTyped, SessionsTypeOK, KnownTokens, ClaimsLive, OneLive,
     RepliesNew
<1>2. \A t : Usable(t)' <=> Usable(t)
  BY SameTokens DEF Usable
<1>3. CookieUsable' /\ HeldUsable' /\ StolenIsCut' /\ FoundAll'
  BY <1>2, SameTokens DEF SessionsInv, CookieUsable, HeldUsable, StolenIsCut, FoundAll
<1>4. EndingsEnd'
  BY SameTokens DEF SessionsInv, EndingsEnd, BeingEnded
<1> QED BY <1>1, <1>3, <1>4 DEF SessionsInv

(* What shall be over has all its sessions found.                          *)
LEMMA FindSessionsInv ==
  ASSUME SessionsInv, NEW r \in SessionRequests, FindSessions(r)
  PROVE  SessionsInv'
<1>1. PICK p \in SessionRequestDocs : p = sreq[r]
  BY TokenFacts
<1>2. p.st = "end" /\ p.browser \in Browsers /\ p.which \in Endings
  BY <1>1, SessionRequestShapes DEF FindSessions, Now, Quiet
<1>3. Ending(p) \subseteq LiveTokens /\ ToEnd(p) \subseteq LiveFamilies
  BY DEF Ending, ToEnd
<1>4. LiveFamilies \subseteq Families /\ Families \subseteq Tokens /\ LiveTokens \subseteq Tokens
  BY TokenFacts DEF LiveFamilies, Families
<1>5. \A f \in ToEnd(p) : LiveIn(f) \subseteq Ending(p)
  <2> SUFFICES ASSUME NEW f \in ToEnd(p), NEW t \in LiveIn(f) PROVE t \in Ending(p)
    OBVIOUS
  <2>1. t \in LiveTokens /\ FamilyOf(t) = f
    BY DEF LiveIn, FamilyOf
  <2>2. t # p.keep
    <3>1. t # 0
      BY <2>1, TokenFacts
    <3>2. p.keep # 0 => f # FamilyOf(p.keep)
      BY DEF ToEnd
    <3> QED BY <2>1, <3>1, <3>2
  <2>3. p.which \in {"family", "stolen"} => f = p.family
    BY DEF ToEnd
  <2>4. p.which = "others" => f # p.family
    BY DEF ToEnd
  <2> QED BY <1>2, <2>1, <2>2, <2>3, <2>4 DEF Ending, Endings
<1> DEFINE q == [st |-> "revoke", browser |-> p.browser, which |-> p.which,
                 found |-> Ending(p), ending |-> ToEnd(p)]
<1>6. q \in SessionRequestDocs
  <2>1. Ending(p) \in SUBSET Tokens /\ ToEnd(p) \in SUBSET Tokens
    BY <1>3, <1>4
  <2> QED BY <1>2, <2>1 DEF SessionRequestDocs
<1>7. Means(r, q)
  <2>1. Ending(p) \subseteq Issued /\ ToEnd(p) \subseteq Families
    BY <1>3, <1>4, TokenFacts
  <2>2. p.which = "stolen" => \A t \in Ending(p) : FamilyOf(t) \in cut
    <3>1. p.which = "stolen" => p.family \in cut
      BY <1>1, <1>2 DEF SessionsInv, StolenIsCut
    <3>2. p.which = "stolen" => \A t \in Ending(p) : FamilyOf(t) = p.family
      BY DEF Ending
    <3> QED BY <3>1, <3>2
  <2> QED BY <1>5, <2>1, <2>2 DEF Means, Holding
<1>8. /\ Goes(r, q) /\ doomed' = doomed \cup ToEnd(p)
      /\ UNCHANGED <<token, cookie, account, graced, cut, raced, halted>>
  BY <1>1 DEF FindSessions
<1>9. q.st = "revoke" /\ q.ending = ToEnd(p)
  OBVIOUS
<1>10. doomed' \cup halted' \subseteq Families
  BY <1>3, <1>4, <1>8 DEF SessionsInv, SessionsTyped, SessionsTypeOK
<1>11. cookie' \in [Browsers -> Issued \cup {0}] /\ \A b \in Browsers : cookie'[b] \in {cookie[b], 0}
  BY <1>8, TokenFacts
<1>12. sreq[r].st # "revoke"
  BY <1>1, <1>2
<1>13. /\ \A f \in doomed' : f \in doomed \/ (q.st = "revoke" /\ f \in q.ending)
       /\ halted \subseteq halted'
  BY <1>8, <1>9
<1> HIDE DEF q
<1> QED BY <1>6, <1>7, <1>8, <1>10, <1>11, <1>12, <1>13, TokensStayInv, AccountFacts

LEMMA RevokeFoundInv ==
  ASSUME SessionsInv, NEW r \in SessionRequests, RevokeFound(r)
  PROVE  SessionsInv'
<1>1. PICK p \in SessionRequestDocs : p = sreq[r]
  BY TokenFacts
<1>2. p.st = "revoke" /\ p.browser \in Browsers /\ p.found \subseteq Issued
  <2>1. p.found \subseteq Issued
    BY <1>1 DEF RevokeFound, Now, SessionsInv, KnownTokens
  <2> QED BY <1>1, <2>1, SessionRequestShapes DEF RevokeFound, Now, Quiet
<1>3. PICK q \in SessionRequestDocs :
        /\ q.st \in {"idle", "rejected"}
        /\ q = IF p.which = "stolen" THEN [st |-> "rejected", browser |-> p.browser] ELSE Quiet
  <2>1. [st |-> "rejected", browser |-> p.browser] \in SessionRequestDocs
    BY <1>2 DEF SessionRequestDocs
  <2> QED BY <2>1, QuietTyped
<1>4. Revoke(r, p.found, q) /\ UNCHANGED <<cookie, account, graced, doomed, raced, halted>>
  BY <1>1, <1>3 DEF RevokeFound
<1>5. /\ cut \subseteq cut' /\ cut' \subseteq Families
      /\ \A t \in p.found \cap LiveTokens : FamilyOf(t) \in cut'
  <2>1. cut' = IF p.which = "stolen" THEN cut ELSE cut \cup {FamilyOf(t) : t \in p.found}
    BY <1>1 DEF RevokeFound
  <2>2. p.which = "stolen" => \A t \in p.found : FamilyOf(t) \in cut
    BY <1>1, <1>2 DEF SessionsInv, StolenIsCut
  <2>3. cut \subseteq Families /\ \A t \in p.found : FamilyOf(t) \in Families
    BY <1>2, TokenFacts DEF SessionsInv, SessionsTyped, SessionsTypeOK
  <2> QED BY <2>1, <2>2, <2>3
<1>6. doomed' \subseteq Families /\ \A f \in doomed' \ doomed : LiveIn(f) \subseteq p.found
  BY <1>4 DEF SessionsInv, SessionsTyped, SessionsTypeOK
<1>7. account' \in Accounts
  BY <1>4, AccountFacts
<1> QED BY <1>1, <1>3, <1>4, <1>5, <1>6, <1>7, RevokeInv

LEMMA RevokeTokenInv ==
  ASSUME SessionsInv, NEW r \in SessionRequests, RevokeToken(r)
  PROVE  SessionsInv'
<1>1. PICK p \in SessionRequestDocs : p = sreq[r]
  BY TokenFacts
<1>2. p.st = "logout" /\ p.browser \in Browsers /\ p.token \in Issued
  <2>1. p.token \in Issued
    BY <1>1 DEF RevokeToken, Now, SessionsInv, KnownTokens
  <2> QED BY <1>1, <2>1, SessionRequestShapes DEF RevokeToken, Now, Quiet
<1>3. PICK t \in Issued : t = p.token
  BY <1>2
<1>4. PICK q \in SessionRequestDocs :
        q.st = "clear" /\ q = [st |-> "clear", browser |-> p.browser]
  BY <1>2 DEF SessionRequestDocs
<1>5. PICK f \in Families : f = FamilyOf(t)
  BY TokenFacts
<1>6. /\ Revoke(r, {t}, q) /\ UNCHANGED <<cookie, account, graced, raced, halted>>
      /\ doomed' = (IF LiveIn(f) = {t} THEN doomed \cup {f} ELSE doomed)
      /\ cut' = cut \cup {f}
  BY <1>1, <1>3, <1>4, <1>5 DEF RevokeToken
<1>7. cut \subseteq Families /\ doomed \subseteq Families
  BY DEF SessionsInv, SessionsTyped, SessionsTypeOK
<1>8. /\ cut \subseteq cut' /\ cut' \subseteq Families
      /\ \A s \in {t} \cap LiveTokens : FamilyOf(s) \in cut'
  BY <1>5, <1>6, <1>7
<1>9. doomed' \subseteq Families /\ \A g \in doomed' \ doomed : LiveIn(g) \subseteq {t}
  BY <1>6, <1>7
<1>10. account' \in Accounts /\ sreq[r].st # "revoke"
  BY <1>1, <1>2, <1>6, AccountFacts
<1> QED BY <1>4, <1>6, <1>8, <1>9, <1>10, RevokeInv

LEMMA DeleteAccountInv ==
  ASSUME SessionsInv, NEW r \in SessionRequests, NEW b \in Browsers, DeleteAccount(r, b)
  PROVE  SessionsInv'
<1>1. PICK q \in SessionRequestDocs :
        q.st = "forget" /\ q = [st |-> "forget", browser |-> b]
  BY DEF SessionRequestDocs
<1>2. /\ Revoke(r, LiveTokens, q) /\ UNCHANGED <<cookie, graced, raced, halted>>
      /\ doomed' = doomed \cup LiveFamilies /\ cut' = cut \cup LiveFamilies
      /\ account' = [account EXCEPT !.status = "deleted"]
  BY <1>1 DEF DeleteAccount
<1>3. cut \subseteq Families /\ doomed \subseteq Families /\ LiveFamilies \subseteq Families
  BY TokenFacts DEF SessionsInv, SessionsTyped, SessionsTypeOK, LiveFamilies, Families
<1>4. \A t \in LiveTokens \cap LiveTokens : FamilyOf(t) \in cut'
  BY <1>2 DEF LiveFamilies, FamilyOf
<1>5. /\ cut \subseteq cut' /\ cut' \subseteq Families /\ doomed' \subseteq Families
      /\ \A f \in doomed' \ doomed : LiveIn(f) \subseteq LiveTokens
  BY <1>2, <1>3 DEF LiveIn
<1>6. account' \in Accounts /\ sreq[r].st # "revoke"
  BY <1>2, AccountFacts, QuietTyped DEF DeleteAccount
<1> QED BY <1>1, <1>2, <1>4, <1>5, <1>6, RevokeInv

(* A sign-in begins a family.                                              *)
LEMMA CreateSessionInv ==
  ASSUME SessionsInv, NEW r \in SessionRequests, CreateSession(r)
  PROVE  SessionsInv'
<1>1. PICK n : n = NextToken /\ n <= MaxTokens
  BY DEF CreateSession
<1>2. n \in Tokens /\ n \notin Issued
  BY <1>1, NextIsNew
<1>3. sreq[r].st = "create" /\ sreq[r].browser \in Browsers
  <2>1. sreq[r] \in SessionRequestDocs /\ sreq[r].st = "create"
    BY TokenFacts DEF CreateSession, Now
  <2> QED BY <2>1, SessionRequestShapes DEF Quiet
<1>4. PICK q \in SessionRequestDocs :
        q.st = "reply" /\ q.token = n /\ q = [st |-> "reply", browser |-> sreq[r].browser, token |-> n]
  BY <1>2, <1>3 DEF SessionRequestDocs
<1>5. /\ token' = [token EXCEPT ![n] = Issue(n)] /\ Goes(r, q)
      /\ UNCHANGED <<cookie, account, graced, cut, doomed, raced, halted>>
  BY <1>1, <1>4 DEF CreateSession
<1>6. Issuing(n, n, {})
  <2>1. Issue(n) \in TokenDocs
    BY <1>2, SessionsAssumption DEF Issue, TokenDocs, Tokens, SessionsAssumption
  <2> QED BY <1>2, <1>5, <2>1, TokenFacts DEF Issuing
<1>7. /\ sreq' \in [SessionRequests -> SessionRequestDocs] /\ sreq'[r] = q
      /\ \A x \in SessionRequests \ {r} : sreq'[x] = sreq[x]
  BY <1>5 DEF Goes, SessionsInv, SessionsTyped
<1>8. Families' = Families \cup {n}
  BY <1>1, <1>6, NewToken
<1>9. graced \subseteq Families' /\ raced \subseteq Families'
  BY <1>8 DEF SessionsInv, SessionsTyped, SessionsTypeOK
<1>10. n \notin Families
  BY <1>2, TokenFacts
<1>11. {} \in SUBSET LiveIn(n) /\ n \in Families \cup {n}
  OBVIOUS
<1>12. account' \in Accounts
  BY <1>5, AccountFacts
<1> QED BY <1>1, <1>3, <1>4, <1>5, <1>6, <1>7, <1>9, <1>10, <1>11, <1>12, IssuedInv

(* What a refresh writes: its token, and what became of the one it carries. *)
LEMMA CommitIssues ==
  ASSUME SessionsInv, NEW r \in SessionRequests, CommitRefresh(r), NEW n, n = NextToken,
         NEW t \in Issued, t = sreq[r].token, NEW f \in Families, f = FamilyOf(t)
  PROVE  \E S \in SUBSET LiveTokens :
           /\ S = (IF sreq[r].st = "claim" THEN {t} ELSE {})
           /\ S \subseteq LiveIn(f) /\ Issuing(n, f, S)
<1>1. n \in Tokens /\ n \notin Issued
  BY NextIsNew DEF CommitRefresh
<1>2. token' = (IF sreq[r].st = "claim"
                THEN [token EXCEPT ![n] = Issue(f),
                                   ![t] = [@ EXCEPT !.st = "revoked", !.replaced = "recently"]]
                ELSE [token EXCEPT ![n] = Issue(f)])
  BY DEF CommitRefresh
<1>3. sreq[r].st = "claim" => t \in LiveTokens /\ t \in LiveIn(f)
  BY DEF SessionsInv, ClaimsLive, LiveIn, FamilyOf
<1>4. Issue(f) \in TokenDocs
  <2>1. f \in 0..MaxTokens
    BY TokenFacts, SessionsAssumption DEF Tokens, SessionsAssumption
  <2> QED BY <2>1 DEF Issue, TokenDocs
<1>5. t # n /\ t \in Tokens /\ token \in [Tokens -> TokenDocs]
  BY <1>1, TokenFacts
<1>6. CASE sreq[r].st = "claim"
  <2>1. PICK d \in TokenDocs : d = [token[t] EXCEPT !.st = "revoked", !.replaced = "recently"]
    BY <1>5 DEF TokenDocs
  <2>2. d.st = "revoked" /\ d.replaced = "recently" /\ d.family = token[t].family
    BY <1>5, <2>1 DEF TokenDocs
  <2>3. token' = [token EXCEPT ![n] = Issue(f), ![t] = d]
    BY <1>2, <1>5, <1>6, <2>1
  <2>4. Issuing(n, f, {t})
    BY <1>1, <1>4, <1>5, <2>2, <2>3 DEF Issuing
  <2> QED BY <1>3, <1>6, <2>4
<1>7. CASE sreq[r].st # "claim"
  <2>1. Issuing(n, f, {})
    BY <1>1, <1>2, <1>4, <1>5, <1>7 DEF Issuing
  <2> QED BY <1>7, <2>1
<1> QED BY <1>6, <1>7

(* A refresh replaces its token, or one is added to those of the family.   *)
LEMMA CommitRefreshInv ==
  ASSUME SessionsInv, NEW r \in SessionRequests, CommitRefresh(r)
  PROVE  SessionsInv'
<1>1. PICK n : n = NextToken /\ n <= MaxTokens
  BY DEF CommitRefresh
<1>2. n \in Tokens /\ n \notin Issued
  BY <1>1, NextIsNew
<1>3. PICK p \in SessionRequestDocs : p = sreq[r]
  BY TokenFacts
<1>4. p.st \in {"claim", "grace"} /\ p.browser \in Browsers /\ p.token \in Issued
  <2>1. p.token \in Issued
    BY <1>3 DEF CommitRefresh, SessionsInv, KnownTokens, Holding
  <2> QED BY <1>3, <2>1, SessionRequestShapes DEF CommitRefresh, Quiet
<1>5. PICK t \in Issued : t = p.token
  BY <1>4
<1>6. PICK f \in Families : f = FamilyOf(t)
  BY TokenFacts
<1>7. PICK q \in SessionRequestDocs :
        q.st = "reply" /\ q.token = n /\ q = [st |-> "reply", browser |-> p.browser, token |-> n]
  BY <1>2, <1>4 DEF SessionRequestDocs
<1>8. PICK S : S = IF p.st = "claim" THEN {t} ELSE {}
  OBVIOUS
<1>9. /\ token' = (IF p.st = "claim"
                   THEN [token EXCEPT ![n] = Issue(f),
                                      ![t] = [@ EXCEPT !.st = "revoked", !.replaced = "recently"]]
                   ELSE [token EXCEPT ![n] = Issue(f)])
      /\ graced' = (IF p.st = "grace" THEN graced \cup {f} ELSE graced)
      /\ raced' = (IF f \in BeingEnded \/ LiveIn(f) = {} THEN raced \cup {f} ELSE raced)
      /\ sreq' = [o \in SessionRequests |->
                    IF o = r THEN q
                    ELSE IF p.st = "claim" THEN Conflicting(sreq[o], {t}) ELSE sreq[o]]
      /\ UNCHANGED <<cookie, account, cut, doomed, halted>>
  BY <1>1, <1>3, <1>5, <1>6, <1>7 DEF CommitRefresh
<1>10. S \subseteq LiveIn(f) /\ Issuing(n, f, S)
  <2>1. n = NextToken /\ t = sreq[r].token /\ f = FamilyOf(t)
    BY <1>1, <1>3, <1>5, <1>6
  <2>2. PICK X \in SUBSET LiveTokens :
          /\ X = (IF sreq[r].st = "claim" THEN {t} ELSE {})
          /\ X \subseteq LiveIn(f) /\ Issuing(n, f, X)
    BY <2>1, CommitIssues
  <2>3. X = S
    BY <1>3, <1>8, <2>2
  <2> QED BY <2>2, <2>3
<1>12. \A x \in SessionRequests : sreq[x] \in SessionRequestDocs
  BY TokenFacts
<1>13. /\ sreq' \in [SessionRequests -> SessionRequestDocs] /\ sreq'[r] = q
       /\ \A x \in SessionRequests \ {r} :
            \/ sreq'[x] = sreq[x] /\ (sreq[x].st = "claim" => sreq[x].token \notin S)
            \/ sreq[x].st = "claim" /\ sreq'[x].st = "refresh" /\ sreq'[x].token = sreq[x].token
  <2>1. CASE p.st = "claim"
    BY <1>8, <1>9, <1>12, <2>1, StartsOver
  <2>2. CASE p.st # "claim"
    BY <1>8, <1>9, <1>12, <2>2
  <2> QED BY <2>1, <2>2
<1>14. \A x \in SessionRequests \ {r} : sreq[x].st = "reply" => sreq[x].token \notin S
  BY <1>3, <1>4, <1>5, <1>8 DEF SessionsInv, RepliesNew, Holding
<1>15. LiveIn(f) \ S = {} \/ f \in graced'
  <2>1. CASE p.st = "grace"
    BY <1>9, <2>1
  <2>2. CASE p.st = "claim" /\ f \notin graced
    <3>1. \A s \in LiveIn(f) : s = t
      <4>1. t \in LiveTokens
        BY <1>3, <1>5, <2>2 DEF SessionsInv, ClaimsLive
      <4>2. \A s \in LiveIn(f) : s \in LiveTokens /\ FamilyOf(s) = f
        BY DEF LiveIn, FamilyOf
      <4> QED BY <1>6, <2>2, <4>1, <4>2 DEF SessionsInv, OneLive
    <3> QED BY <1>8, <2>2, <3>1
  <2>3. CASE p.st = "claim" /\ f \in graced
    BY <1>9, <2>3
  <2> QED BY <1>4, <2>1, <2>2, <2>3
<1>16. /\ f \in Families /\ (f \in BeingEnded \/ LiveIn(f) = {}) => f \in raced'
       /\ graced \subseteq graced' /\ raced \subseteq raced'
  BY <1>9
<1>17. Families' = Families
  <2>1. S \in SUBSET LiveTokens
    BY <1>10 DEF LiveIn
  <2>2. Families' = Families \cup {f}
    BY <1>1, <1>10, <2>1, NewToken
  <2> QED BY <2>2
<1>18. graced' \subseteq Families' /\ raced' \subseteq Families'
  <2>1. graced \subseteq Families /\ raced \subseteq Families
    BY DEF SessionsInv, SessionsTyped, SessionsTypeOK
  <2> QED BY <1>9, <1>17, <2>1
<1>19. account' \in Accounts /\ sreq[r].st # "revoke"
  BY <1>3, <1>4, <1>9, AccountFacts
<1>20. S \in SUBSET LiveIn(f) /\ f \in Families \cup {n}
  BY <1>10
<1>21. UNCHANGED <<cookie, cut, doomed, halted>> /\ q.st = "reply" /\ q.token = n
  BY <1>7, <1>9
<1> QED BY <1>1, <1>10, <1>13, <1>14, <1>15, <1>16, <1>18, <1>19, <1>20, <1>21, IssuedInv

(* Ten seconds on, a token that was replaced is accepted no longer: only   *)
(* families a token of which is carried still are cut.                     *)
LEMMA AgeInv ==
  ASSUME SessionsInv, NEW t \in Tokens, Age(t)
  PROVE  SessionsInv'
<1>1. PICK d \in TokenDocs : d = [token[t] EXCEPT !.replaced = "before"]
  <2>1. token[t] \in TokenDocs
    BY TokenFacts
  <2> QED BY <2>1 DEF TokenDocs
<1>2. d.st = token[t].st /\ d.family = token[t].family /\ d.replaced = "before"
  <2>1. token[t] \in TokenDocs
    BY TokenFacts
  <2> QED BY <1>1, <2>1 DEF TokenDocs
<1>3. /\ token' = [token EXCEPT ![t] = d] /\ token[t].replaced = "recently"
      /\ cut' = (IF t \in Carried THEN cut \cup {FamilyOf(t)} ELSE cut)
      /\ UNCHANGED <<cookie, account, sreq, graced, doomed, raced, halted>>
  <2>1. token' = [token EXCEPT ![t].replaced = "before"]
    BY DEF Age
  <2> QED BY <1>1, <2>1 DEF Age
<1>4. /\ token' \in [Tokens -> TokenDocs] /\ token'[t] = d
      /\ \A s \in Tokens : s # t => token'[s] = token[s]
  BY <1>1, <1>3, TokenFacts
<1>5. \A s \in Tokens : token'[s].st = token[s].st /\ token'[s].family = token[s].family
  BY <1>2, <1>4
<1>6. Issued' = Issued /\ LiveTokens' = LiveTokens
  BY <1>5 DEF Issued, LiveTokens
<1>7. Issued \subseteq Tokens /\ LiveTokens \subseteq Tokens /\ cookie \in [Browsers -> Issued \cup {0}]
  BY TokenFacts
<1>8. \A s \in Tokens : FamilyOf(s)' = FamilyOf(s)
  BY <1>5 DEF FamilyOf
<1>9. Families' = Families
  BY <1>5, <1>6, <1>7 DEF Families
<1>10. \A f : LiveIn(f)' = LiveIn(f)
  BY <1>5, <1>6, <1>7 DEF LiveIn
<1>11. cut \subseteq cut' /\ cut' \subseteq Families
  <2>1. t \in Carried => t \in Issued
    <3>1. \A r \in SessionRequests : sreq[r].st \in {"refresh", "claim", "grace"} =>
            sreq[r].token \in Issued
      BY DEF SessionsInv, KnownTokens, Holding
    <3>2. t # 0
      BY SessionsAssumption DEF Tokens, SessionsAssumption
    <3> QED BY <1>7, <3>1, <3>2 DEF Carried
  <2>2. cut \subseteq Families /\ \A s \in Issued : FamilyOf(s) \in Families
    BY TokenFacts DEF SessionsInv, SessionsTyped, SessionsTypeOK
  <2> QED BY <1>3, <2>1, <2>2
<1>12. SessionsTyped'
  <2>1. /\ Issued = 1..Cardinality(Issued)
        /\ \A s \in Issued : FamilyOf(s) \in Issued /\ FamilyOf(FamilyOf(s)) = FamilyOf(s)
        /\ graced \cup cut \cup doomed \cup raced \cup halted \subseteq Families
    BY DEF SessionsInv, SessionsTyped, SessionsTypeOK
  <2>2. \A s \in Issued : token[s].family \in Issued /\ token[token[s].family].family = token[s].family
    BY <2>1 DEF FamilyOf
  <2>3. \A s \in Issued : token'[s].family \in Issued /\ token'[token'[s].family].family = token'[s].family
    BY <1>5, <1>7, <2>2
  <2>4. \A s \in Issued : FamilyOf(s)' \in Issued /\ FamilyOf(FamilyOf(s))' = FamilyOf(s)'
    BY <2>3 DEF FamilyOf
  <2>5. sreq' \in [SessionRequests -> SessionRequestDocs] /\ account' \in Accounts
    BY <1>3 DEF SessionsInv, SessionsTyped
  <2> QED BY <1>3, <1>4, <1>6, <1>7, <1>9, <1>11, <2>1, <2>4, <2>5 DEF SessionsTyped, SessionsTypeOK
<1>13. KnownTokens' /\ ClaimsLive'
  BY <1>3, <1>6, <1>9 DEF SessionsInv, KnownTokens, ClaimsLive
<1>14. OneLive'
  BY <1>3, <1>6, <1>7, <1>8 DEF SessionsInv, OneLive
<1>15. RepliesNew'
  <2> SUFFICES ASSUME NEW x \in SessionRequests, sreq[x].st = "reply"
      PROVE  /\ token'[sreq[x].token].replaced = "no"
             /\ \A b \in Browsers : cookie[b] # sreq[x].token
             /\ \A o \in SessionRequests \ {x} :
                  sreq[o].st \in Holding => sreq[o].token # sreq[x].token
    BY <1>3 DEF RepliesNew
  <2>1. token[sreq[x].token].replaced = "no" /\ sreq[x].token \in Issued
    BY DEF SessionsInv, RepliesNew, KnownTokens, Holding
  <2>2. token'[sreq[x].token] = token[sreq[x].token]
    BY <1>3, <1>4, <1>7, <2>1
  <2> QED BY <2>1, <2>2 DEF SessionsInv, RepliesNew
<1>16. \A s \in Tokens \ {t} : Usable(s) => Usable(s)'
  <2> SUFFICES ASSUME NEW s \in Tokens \ {t}, Usable(s) PROVE Usable(s)'
    OBVIOUS
  <2>1. token'[s] = token[s] /\ FamilyOf(s)' = FamilyOf(s)
    BY <1>4, <1>8
  <2>2. LiveIn(FamilyOf(s))' = LiveIn(FamilyOf(s))
    <3>1. LiveIn(FamilyOf(s))' = {o \in LiveTokens' : token'[o].family = FamilyOf(s)'}
      BY DEF LiveIn
    <3> QED BY <1>5, <1>6, <1>7, <2>1, <3>1 DEF LiveIn
  <2> QED BY <1>11, <2>1, <2>2 DEF Usable, Claimable, InGrace
<1>17. t \in Carried => Usable(t)'
  BY <1>3, <1>8 DEF Usable
<1>18. CookieUsable'
  <2> SUFFICES ASSUME NEW b \in Browsers, cookie[b] # 0 PROVE Usable(cookie[b])'
    BY <1>3 DEF CookieUsable, Usable
  <2>1. Usable(cookie[b]) /\ cookie[b] \in Tokens
    BY <1>7 DEF SessionsInv, CookieUsable, Usable
  <2>2. CASE cookie[b] = t
    <3>1. t \in Carried
      BY <2>2 DEF Carried
    <3> QED BY <1>3, <1>17, <2>2, <3>1
  <2>3. CASE cookie[b] # t
    BY <1>3, <1>16, <2>1, <2>3
  <2> QED BY <2>2, <2>3
<1>19. HeldUsable'
  <2> SUFFICES ASSUME NEW x \in SessionRequests, NEW s \in Tokens, sreq[x].st \in Holding,
                      sreq[x].token = s
      PROVE  Usable(s)'
    BY <1>3 DEF HeldUsable
  <2>1. Usable(s)
    BY DEF SessionsInv, HeldUsable
  <2>2. CASE s = t /\ sreq[x].st = "reply"
    BY <1>3, <2>2 DEF SessionsInv, RepliesNew
  <2>3. CASE s = t /\ sreq[x].st # "reply"
    <3>1. t \in Carried
      BY <2>3 DEF Carried, Holding
    <3> QED BY <1>17, <2>3, <3>1
  <2>4. CASE s # t
    BY <1>16, <2>1, <2>4
  <2> QED BY <2>2, <2>3, <2>4
<1>20. StolenIsCut'
  <2> SUFFICES ASSUME NEW x \in SessionRequests
      PROVE  /\ sreq[x].st = "end" /\ sreq[x].which = "stolen" => sreq[x].family \in cut'
             /\ sreq[x].st = "revoke" /\ sreq[x].which = "stolen" =>
                  \A s \in sreq[x].found : FamilyOf(s)' \in cut'
    BY <1>3 DEF StolenIsCut
  <2>1. sreq[x].st = "revoke" => sreq[x].found \subseteq Tokens
    BY <1>7 DEF SessionsInv, KnownTokens
  <2> QED BY <1>8, <1>11, <2>1 DEF SessionsInv, StolenIsCut
<1>21. FoundAll' /\ EndingsEnd'
  BY <1>3, <1>10 DEF SessionsInv, FoundAll, EndingsEnd, BeingEnded
<1> QED BY <1>12, <1>13, <1>14, <1>15, <1>18, <1>19, <1>20, <1>21 DEF SessionsInv

-----------------------------------------------------------------------------
LEMMA SessionsInductive ==
  ASSUME SessionsInv, [SessionsNext]_sessionVars
  PROVE  SessionsInv'
<1>1. ASSUME NEW r \in SessionRequests, NEW b \in Browsers, FromBrowser(r, b) PROVE SessionsInv'
  BY <1>1, LoginInv, RefreshInv, RevokeSessionsInv, ResetPasswordInv, ChangePasswordInv, LogoutInv,
     DeleteAccountInv DEF FromBrowser
<1>2. ASSUME NEW r \in SessionRequests,
             \/ CreateSession(r) \/ Reply(r) \/ BeginRefresh(r) \/ CommitRefresh(r)
             \/ FindCurrentSession(r) \/ FindSessions(r) \/ RevokeFound(r) \/ Rejected(r)
             \/ RevokeToken(r) \/ ClearCookie(r) \/ ForgetAccountStatus(r) \/ LookUpAccount(r)
             \/ RememberAccount(r) \/ SessionRequestEnds(r)
      PROVE  SessionsInv'
  BY <1>2, CreateSessionInv, ReplyInv, BeginRefreshInv, CommitRefreshInv, FindCurrentSessionInv,
     FindSessionsInv, RevokeFoundInv, RejectedInv, RevokeTokenInv, ClearCookieInv,
     ForgetAccountStatusInv, LookUpAccountInv, SessionRequestEndsInv
<1>3. ASSUME NEW t \in Tokens, Age(t) PROVE SessionsInv'
  BY <1>3, AgeInv
<1>4. CASE ForgetAfterTtl
  BY <1>4, ForgetAfterTtlInv DEF ForgetAfterTtl
<1>5. CASE UNCHANGED sessionVars
  BY <1>5, ForgetAfterTtlInv DEF sessionVars
<1> QED BY <1>1, <1>2, <1>3, <1>4, <1>5 DEF SessionsNext

(* What a family has, counted.                                             *)
LEMMA OneLiveCounted == SessionsInv => OneLiveToken
<1> SUFFICES ASSUME SessionsInv, NEW f \in Families \ graced PROVE Cardinality(LiveIn(f)) <= 1
  BY DEF OneLiveToken
<1>1. CASE LiveIn(f) = {}
  <2>1. Cardinality(LiveIn(f)) = 0
    BY <1>1, FS_EmptySet
  <2> QED BY <2>1
<1>2. CASE LiveIn(f) # {}
  <2>1. PICK t : t \in LiveIn(f)
    BY <1>2
  <2>2. \A s \in LiveIn(f) : s \in LiveTokens /\ FamilyOf(s) = f
    BY DEF LiveIn, FamilyOf
  <2>3. LiveIn(f) = {t}
    BY <2>1, <2>2 DEF SessionsInv, OneLive
  <2>4. Cardinality(LiveIn(f)) = 1
    BY <2>3, FS_Singleton
  <2> QED BY <2>4
<1> QED BY <1>1, <1>2

(* Tokens are numbered as they are issued, the first of a family names it, *)
(* and cookies, requests and the history speak of tokens that were issued. *)
THEOREM SessionsTypeCorrect == SessionsSpec => []SessionsTypeOK
<1>1. SessionsInv => SessionsTypeOK
  BY DEF SessionsInv, SessionsTyped
<1> QED BY <1>1, SessionsBegin, SessionsInductive, PTL DEF SessionsSpec

(* A sign-in has one token that works unless a tab was let through in the  *)
(* ten seconds after a replacement; it is accepted from every browser that *)
(* carries it until somebody ends it; and what was to end has ended, unless *)
(* a refresh committed into it meanwhile: for any number of browsers,      *)
(* requests and tokens.                                                    *)
THEOREM FamiliesKeptInOrder == SessionsSpec => []FamiliesInOrder
<1>1. SessionsInv => FamiliesInOrder
  BY OneLiveCounted DEF SessionsInv, FamiliesInOrder
<1> QED BY <1>1, SessionsBegin, SessionsInductive, PTL DEF SessionsSpec

-----------------------------------------------------------------------------
(* What has ended stays so.                                                *)
Over(f) == LiveIn(f) = {} /\ ~RefreshedNow(f)

LEMMA OverSame ==
  ASSUME SessionsInv, NEW f, Over(f), UNCHANGED token, NEW r \in SessionRequests, NEW q, Goes(r, q),
         q.st \in {"claim", "grace"} => FamilyOf(q.token) # f
  PROVE  Over(f)'
<1>1. /\ sreq'[r] = q /\ \A x \in SessionRequests : x # r => sreq'[x] = sreq[x]
      /\ \A t : FamilyOf(t)' = FamilyOf(t)
  BY SameTokens DEF Goes, SessionsInv, SessionsTyped
<1>2. LiveIn(f)' = {}
  BY SameTokens DEF Over
<1>3. ~\E x \in SessionRequests : sreq'[x].st \in {"claim", "grace"} /\ token'[sreq'[x].token].family = f
  BY <1>1 DEF Over, RefreshedNow, FamilyOf
<1> QED BY <1>2, <1>3 DEF Over, RefreshedNow, FamilyOf

LEMMA OverRevoked ==
  ASSUME SessionsInv, NEW f, Over(f), NEW r \in SessionRequests, NEW q, NEW S, Revoke(r, S, q),
         q.st \notin {"claim", "grace"}
  PROVE  Over(f)'
<1>1. \A x \in SessionRequests : sreq'[x].st \in {"claim", "grace"} => sreq'[x] = sreq[x]
  <2>1. sreq' = [o \in SessionRequests |->
                   IF o = r THEN q ELSE Conflicting(sreq[o], S \cap LiveTokens)]
    BY DEF Revoke
  <2>2. \A o \in SessionRequests : sreq[o] \in SessionRequestDocs
    BY TokenFacts
  <2> QED BY <2>1, <2>2, StartsOver
<1>2. \A t \in Tokens : token'[t].family = token[t].family
  BY RevokedTokens
<1>3. LiveIn(f)' = {}
  BY RevokedTokens DEF Over
<1>4. \A x \in SessionRequests : sreq[x].st \in {"claim", "grace"} => sreq[x].token \in Tokens
  BY TokenFacts DEF SessionsInv, KnownTokens, Holding
<1>5. ~\E x \in SessionRequests : sreq'[x].st \in {"claim", "grace"} /\ token'[sreq'[x].token].family = f
  BY <1>1, <1>2, <1>4 DEF Over, RefreshedNow, FamilyOf
<1> QED BY <1>3, <1>5 DEF Over, RefreshedNow, FamilyOf

(* A token is issued into another family.                                  *)
LEMMA OverIssued ==
  ASSUME SessionsInv, NEW f \in Families, Over(f), NEW r \in SessionRequests,
         NEW n, n = NextToken, n <= MaxTokens, NEW g \in Families \cup {n}, g # f,
         NEW S \in SUBSET LiveTokens, Issuing(n, g, S),
         \A x \in SessionRequests : sreq'[x].st \in {"claim", "grace"} => sreq'[x] = sreq[x]
  PROVE  Over(f)'
<1>0. /\ n \in Tokens /\ n \notin Issued
      /\ Issued' = Issued \cup {n} /\ LiveTokens' = (LiveTokens \ S) \cup {n}
      /\ \A t \in Issued : FamilyOf(t)' = FamilyOf(t)
      /\ FamilyOf(n)' = g /\ Families' = Families \cup {g}
      /\ \A h : LiveIn(h)' = (LiveIn(h) \ S) \cup (IF h = g THEN {n} ELSE {})
  BY NewToken
<1>1. \A t \in Issued : FamilyOf(t)' = FamilyOf(t)
  BY <1>0
<1>2. LiveIn(f)' = {}
  BY <1>0 DEF Over
<1>3. \A x \in SessionRequests : sreq[x].st \in {"claim", "grace"} => sreq[x].token \in Issued
  BY DEF SessionsInv, KnownTokens, Holding
<1>4. \A t \in Issued : token'[t].family = token[t].family
  BY <1>1 DEF FamilyOf
<1>5. ~\E x \in SessionRequests : sreq'[x].st \in {"claim", "grace"} /\ token'[sreq'[x].token].family = f
  BY <1>3, <1>4 DEF Over, RefreshedNow, FamilyOf
<1> QED BY <1>2, <1>5 DEF Over, RefreshedNow, FamilyOf

LEMMA OverStays ==
  ASSUME SessionsInv, [SessionsNext]_sessionVars, NEW f \in Families, Over(f)
  PROVE  Over(f)'
<1>1. CASE UNCHANGED <<token, sreq>>
  <2>1. LiveIn(f)' = {}
    BY <1>1, SameTokens DEF Over
  <2>2. ~RefreshedNow(f)'
    BY <1>1 DEF Over, RefreshedNow, FamilyOf
  <2> QED BY <2>1, <2>2 DEF Over
<1>2. ASSUME NEW r \in SessionRequests, NEW b \in Browsers, FromBrowser(r, b) PROVE Over(f)'
  <2>1. CASE DeleteAccount(r, b)
    BY <2>1, OverRevoked DEF DeleteAccount
  <2>2. CASE ~DeleteAccount(r, b)
    <3>1. CASE Login(r, b)
      BY <3>1, OverSame DEF Login, Sends
    <3>2. CASE Refresh(r, b)
      BY <3>2, OverSame DEF Refresh, Sends
    <3>3. ASSUME NEW which, NEW g, RevokeSessions(r, b, which, g) PROVE Over(f)'
      BY <3>3, OverSame DEF RevokeSessions, Sends
    <3>4. CASE ResetPassword(r, b)
      BY <3>4, OverSame DEF ResetPassword, Sends
    <3>5. CASE ChangePassword(r, b)
      BY <3>5, OverSame DEF ChangePassword, Sends
    <3>6. CASE Logout(r, b)
      BY <3>6, OverSame DEF Logout, Sends
    <3> QED BY <1>2, <2>2, <3>1, <3>2, <3>3, <3>4, <3>5, <3>6 DEF FromBrowser
  <2> QED BY <2>1, <2>2
<1>3. ASSUME NEW r \in SessionRequests,
             \/ Reply(r) \/ FindCurrentSession(r) \/ FindSessions(r) \/ Rejected(r)
             \/ ClearCookie(r) \/ ForgetAccountStatus(r) \/ LookUpAccount(r) \/ RememberAccount(r)
             \/ SessionRequestEnds(r)
      PROVE  Over(f)'
  <2>1. \E q : UNCHANGED token /\ Goes(r, q) /\ q.st \notin {"claim", "grace"}
    BY <1>3, QuietTyped DEF Reply, FindCurrentSession, FindSessions, Rejected, ClearCookie,
       ForgetAccountStatus, LookUpAccount, RememberAccount, SessionRequestEnds, Sends
  <2> QED BY <2>1, OverSame
<1>4. ASSUME NEW r \in SessionRequests, RevokeFound(r) PROVE Over(f)'
  <2>1. \E q, S : Revoke(r, S, q) /\ q.st \notin {"claim", "grace"}
    BY <1>4, QuietTyped DEF RevokeFound
  <2> QED BY <2>1, OverRevoked
<1>5. ASSUME NEW r \in SessionRequests, RevokeToken(r) PROVE Over(f)'
  BY <1>5, OverRevoked DEF RevokeToken
<1>6. ASSUME NEW r \in SessionRequests, BeginRefresh(r) PROVE Over(f)'
  <2>1. PICK t \in Tokens : t = sreq[r].token
    BY <1>6, TokenFacts DEF BeginRefresh, Now, SessionsInv, KnownTokens, Holding
  <2>2. PICK q : q = IF Claimable(t) THEN [sreq[r] EXCEPT !.st = "claim"]
                     ELSE IF InGrace(t) THEN [sreq[r] EXCEPT !.st = "grace"]
                     ELSE [st |-> "end", browser |-> sreq[r].browser,
                           family |-> FamilyOf(t), keep |-> 0, which |-> "stolen"]
    OBVIOUS
  <2>3. Goes(r, q) /\ UNCHANGED token
    BY <1>6, <2>1, <2>2 DEF BeginRefresh
  <2>4. Claimable(t) \/ InGrace(t) => q.token = t
    <3>1. sreq[r] \in SessionRequestDocs /\ sreq[r].st = "refresh"
      BY <1>6, TokenFacts DEF BeginRefresh, Now
    <3>2. sreq[r] \in [st : {"reply", "refresh", "claim", "grace", "logout"}, browser : Browsers,
                       token : Tokens]
      BY <3>1 DEF SessionRequestDocs, Quiet
    <3> QED BY <2>1, <2>2, <3>2
  <2>5. Claimable(t) \/ InGrace(t) => FamilyOf(t) # f
    BY DEF Claimable, InGrace, Over, LiveIn, LiveTokens, FamilyOf
  <2>6. q.st \in {"claim", "grace"} => Claimable(t) \/ InGrace(t)
    BY <2>2
  <2> QED BY <2>3, <2>4, <2>5, <2>6, OverSame
<1>7. ASSUME NEW r \in SessionRequests, CreateSession(r) PROVE Over(f)'
  <2>1. PICK n : n = NextToken /\ n <= MaxTokens
    BY <1>7 DEF CreateSession
  <2>2. n \in Tokens /\ n \notin Issued
    BY <2>1, NextIsNew
  <2>3. Issuing(n, n, {})
    <3>1. Issue(n) \in TokenDocs
      BY <2>2, SessionsAssumption DEF Issue, TokenDocs, Tokens, SessionsAssumption
    <3> QED BY <1>7, <2>1, <2>2, <3>1, TokenFacts DEF Issuing, CreateSession
  <2>4. n # f
    BY <2>2, TokenFacts
  <2>5. \A x \in SessionRequests : sreq'[x].st \in {"claim", "grace"} => sreq'[x] = sreq[x]
    BY <1>7 DEF CreateSession, Goes, SessionsInv, SessionsTyped
  <2>6. {} \in SUBSET LiveTokens /\ n \in Families \cup {n}
    OBVIOUS
  <2> QED BY <2>1, <2>3, <2>4, <2>5, <2>6, OverIssued
<1>8. ASSUME NEW r \in SessionRequests, CommitRefresh(r) PROVE Over(f)'
  <2> USE <1>8
  <2>1. PICK n : n = NextToken /\ n <= MaxTokens
    BY DEF CommitRefresh
  <2>2. PICK t \in Issued : t = sreq[r].token
    BY DEF CommitRefresh, SessionsInv, KnownTokens, Holding
  <2>3. PICK g \in Families : g = FamilyOf(t)
    BY TokenFacts
  <2>4. g # f
    BY <2>2, <2>3 DEF CommitRefresh, Over, RefreshedNow
  <2>5. PICK S \in SUBSET LiveTokens : Issuing(n, g, S)
    BY <2>1, <2>2, <2>3, CommitIssues
  <2>6. \A x \in SessionRequests : sreq'[x].st \in {"claim", "grace"} => sreq'[x] = sreq[x]
    <3>1. \A x \in SessionRequests : sreq[x] \in SessionRequestDocs
      BY TokenFacts
    <3>2. \A x \in SessionRequests : sreq'[x].st = "reply" \/ sreq'[x] = sreq[x] \/ sreq'[x].st = "refresh"
      <4>1. sreq' = [o \in SessionRequests |->
                      IF o = r THEN [st |-> "reply", browser |-> sreq[r].browser, token |-> n]
                      ELSE IF sreq[r].st = "claim" THEN Conflicting(sreq[o], {t}) ELSE sreq[o]]
        BY <2>1, <2>2 DEF CommitRefresh
      <4> QED BY <3>1, <4>1, StartsOver
    <3> QED BY <3>2
  <2> QED BY <2>1, <2>4, <2>5, <2>6, OverIssued
<1>9. ASSUME NEW t \in Tokens, Age(t) PROVE Over(f)'
  <2>1. token' = [token EXCEPT ![t].replaced = "before"] /\ UNCHANGED sreq
    BY <1>9 DEF Age
  <2>2. \A s \in Tokens : token'[s].st = token[s].st /\ token'[s].family = token[s].family
    <3>1. \A s \in Tokens : token[s] \in TokenDocs
      BY TokenFacts
    <3> QED BY <2>1, <3>1, TokenFacts DEF TokenDocs
  <2>3. LiveIn(f)' = {}
    BY <2>2 DEF Over, LiveIn, LiveTokens
  <2>4. \A x \in SessionRequests : sreq[x].st \in {"claim", "grace"} => sreq[x].token \in Tokens
    BY TokenFacts DEF SessionsInv, KnownTokens, Holding
  <2>5. ~\E x \in SessionRequests : sreq'[x].st \in {"claim", "grace"} /\ token'[sreq'[x].token].family = f
    BY <2>1, <2>2, <2>4 DEF Over, RefreshedNow, FamilyOf
  <2> QED BY <2>3, <2>5 DEF Over, RefreshedNow, FamilyOf
<1>10. CASE ForgetAfterTtl \/ UNCHANGED sessionVars
  BY <1>1, <1>10 DEF ForgetAfterTtl, sessionVars
<1> QED BY <1>2, <1>3, <1>4, <1>5, <1>6, <1>7, <1>8, <1>9, <1>10 DEF SessionsNext

(* A sign-in that has ended does not come back: in every step, whatever    *)
(* refreshes, endings and answers are under way.                           *)
THEOREM EndedStays == SessionsSpec => EndedStaysEnded
<1>1. SessionsInv /\ [SessionsNext]_sessionVars =>
        [\A f \in Families :
           LiveIn(f) = {} /\ ~RefreshedNow(f) => (LiveIn(f) = {} /\ ~RefreshedNow(f))']_sessionVars
  BY OverStays DEF Over
<1>2. SessionsSpec => []SessionsInv
  BY SessionsBegin, SessionsInductive, PTL DEF SessionsSpec
<1> QED BY <1>1, <1>2, PTL DEF SessionsSpec, EndedStaysEnded

-----------------------------------------------------------------------------
(* Links: types of what requests know.                                     *)
UserReads == [pending : Addresses \cup {Nowhere}, hash : 0..MaxLinks]

ResetRequests == [st : {"saveReset"}] \cup [st : {"sendReset", "setPassword"}, link : LinkIds]

ChangeRequests ==
  [st : {"saveChange"}, to : Addresses, seen : UserReads]
    \cup [st : {"sendChange"}, to : Addresses, link : LinkIds, seen : UserReads]
    \cup [st : {"saveCancel"}, seen : UserReads]
    \cup [st : {"saveAddress"}, seen : [pending : Addresses, hash : LinkIds]]

SignupRequests ==
  [st : {"saveSignup"}]
    \cup [st : {"sendSignup"}, link : LinkIds]
    \cup [st : {"saveAgain"}, seen : SignupDocs]
    \cup [st : {"sendAgain"}, link : LinkIds, before : 0..MaxLinks]
    \cup [st : {"makeAccount"}, link : LinkIds, by : LinkRequests \cup {Nowhere}]

LinkRequestDocs == {Waiting} \cup ResetRequests \cup ChangeRequests \cup SignupRequests

AccountDocs ==
  [account : LinkRequests \cup {Nowhere}, claim : LinkRequests \cup {Nowhere}, sessions : Nat]

IssuedLinks == {n \in LinkIds : link[n].age # "none"}

(* Links are issued one after the other.                                   *)
LinksIssued ==
  /\ link \in [LinkIds -> LinkDocs]
  /\ IssuedLinks = 1..Cardinality(IssuedLinks)
  /\ \A n \in LinkIds \ IssuedLinks : link[n] = Unissued

(* What a request does belongs to what this behaviour is about.            *)
Belongs(q) ==
  /\ q \in LinkRequestDocs
  /\ q \in ResetRequests => "reset" \in flow
  /\ q \in ChangeRequests => "change" \in flow
  /\ q \in SignupRequests => "signup" \in flow

(* What this behaviour is not about does not change.                       *)
LinksTyped ==
  /\ LinksTypeOK /\ LinksIssued
  /\ joined \in AccountDocs /\ mingled \in BOOLEAN /\ flow \in LinkMixes
  /\ lreq \in [LinkRequests -> LinkRequestDocs] /\ \A r \in LinkRequests : Belongs(lreq[r])
  /\ "change" \notin flow => user.pending = Nowhere /\ \A n \in LinkIds : link[n].uses <= 1
  /\ "signup" \notin flow =>
       signup = NoSignup /\ joined = [account |-> Nowhere, claim |-> Nowhere, sessions |-> 0]

(* Links for a new password: only a link that reached the person can have  *)
(* been used; the newest is stored until it has reached the person.        *)
Newest(n) == NextLink = n + 1

ResetStored == user.reset # 0 => user.reset \in IssuedLinks /\ link[user.reset].uses = 0

ResetSending ==
  \A r \in LinkRequests : lreq[r].st = "sendReset" =>
    /\ lreq[r].link \in IssuedLinks
    /\ link[lreq[r].link].sentTo = Nowhere
    /\ Newest(lreq[r].link) => user.reset = lreq[r].link
    /\ \A o \in LinkRequests \ {r} : lreq[o].st = "sendReset" => lreq[o].link # lreq[r].link

ResetOpened ==
  \A r \in LinkRequests : lreq[r].st = "setPassword" =>
    lreq[r].link \in IssuedLinks /\ link[lreq[r].link].sentTo # Nowhere

ResetInv == "reset" \in flow => ResetStored /\ ResetSending /\ ResetOpened /\ NewestResetWorks

(* A change of address, as long as requests have not overlapped: while an  *)
(* email is being sent its link is stored, and what was there before works. *)
Works(pending, hash) == hash # 0 /\ link[hash].sentTo = pending /\ link[hash].uses = 0

ChangeSending ==
  \A r \in LinkRequests : lreq[r].st = "sendChange" =>
    /\ lreq[r].link \in IssuedLinks
    /\ user.pending = lreq[r].to /\ user.hash = lreq[r].link /\ link[lreq[r].link].uses = 0
    /\ lreq[r].seen.pending # Nowhere => Works(lreq[r].seen.pending, lreq[r].seen.hash)
    /\ \A o \in LinkRequests : lreq[o].st = "sendChange" => o = r

ChangeOpened ==
  \A r \in LinkRequests : lreq[r].st = "saveAddress" => lreq[r].seen.hash \in IssuedLinks

ChangeStored ==
  (\A r \in LinkRequests : lreq[r].st # "sendChange") /\ user.pending # Nowhere =>
    Works(user.pending, user.hash)

ChangeInv ==
  "change" \in flow /\ ~mingled =>
    ChangeSending /\ ChangeOpened /\ ChangeStored /\ \A n \in LinkIds : link[n].uses <= 1

(* A sign-up: it is confirmed once.                                        *)
SignupOnce ==
  /\ \A n \in LinkIds : link[n].uses = 1 => joined.account # Nowhere
  /\ signup.st = "waiting" => signup.by # Nowhere
  /\ joined.account = Nowhere => joined.claim = Nowhere /\ joined.sessions = 0
  /\ joined.claim # Nowhere => joined.account = joined.claim /\ joined.sessions = 0
  /\ joined.sessions <= 1

SignupStored ==
  ~mingled =>
    /\ signup.st = "waiting" =>
         /\ signup.hash # 0
         /\ \/ link[signup.hash].sentTo = Own
            \/ \E r \in LinkRequests : /\ lreq[r].st \in {"sendSignup", "sendAgain"}
                                       /\ lreq[r].link = signup.hash
    /\ \A r \in LinkRequests : lreq[r].st = "sendAgain" =>
         lreq[r].before # 0 /\ link[lreq[r].before].sentTo = Own

SignupKnown ==
  \A r \in LinkRequests :
    lreq[r].st \in {"sendSignup", "sendAgain", "makeAccount"} => lreq[r].link \in IssuedLinks

SignupInv == "signup" \in flow => SignupKnown /\ SignupOnce /\ SignupStored

LinksInv == LinksTyped /\ ResetInv /\ ChangeInv /\ SignupInv

-----------------------------------------------------------------------------
(* Links are of one kind.                                                  *)
LEMMA OneKind ==
  ASSUME LinksTyped
  PROVE  /\ "reset" \in flow => "change" \notin flow /\ "signup" \notin flow
         /\ "change" \in flow => "reset" \notin flow /\ "signup" \notin flow
         /\ "signup" \in flow => "reset" \notin flow /\ "change" \notin flow
<1>1. PICK op \in {"reset", "change", "signup"} : flow \subseteq {op}
  BY LinksAssumption DEF LinksTyped, LinksAssumption
<1> QED BY <1>1

LEMMA NamesApart ==
  /\ Nowhere \notin LinkRequests /\ Nowhere \notin Addresses /\ Own \notin Addresses
  /\ Own # Nowhere /\ MaxLinks \in Nat
BY LinksAssumption DEF LinksAssumption, Nowhere, Own

LEMMA WaitingTyped ==
  /\ Waiting.st = "idle" /\ Waiting \in LinkRequestDocs /\ Belongs(Waiting)
  /\ Waiting \notin ResetRequests \cup ChangeRequests \cup SignupRequests
<1>1. Waiting.st = "idle"
  BY DEF Waiting
<1>2. Waiting \notin ResetRequests
  BY <1>1 DEF ResetRequests
<1>3. Waiting \notin ChangeRequests
  BY <1>1 DEF ChangeRequests
<1>4. Waiting \notin SignupRequests
  BY <1>1 DEF SignupRequests
<1> QED BY <1>1, <1>2, <1>3, <1>4 DEF LinkRequestDocs, Belongs

(* What a request knows follows from where it is.                          *)
LEMMA ResetShapes ==
  ASSUME NEW q \in ResetRequests
  PROVE  \/ q.st = "saveReset"
         \/ q.st \in {"sendReset", "setPassword"} /\ q.link \in LinkIds
BY DEF ResetRequests

LEMMA ChangeShapes ==
  ASSUME NEW q \in ChangeRequests
  PROVE  \/ q.st = "saveChange" /\ q.to \in Addresses /\ q.seen \in UserReads
         \/ q.st = "sendChange" /\ q.to \in Addresses /\ q.link \in LinkIds /\ q.seen \in UserReads
         \/ q.st = "saveCancel" /\ q.seen \in UserReads
         \/ /\ q.st = "saveAddress" /\ q.seen.pending \in Addresses /\ q.seen.hash \in LinkIds
            /\ q.seen \in UserReads
<1>1. [pending : Addresses, hash : LinkIds] \subseteq UserReads
  BY NamesApart DEF UserReads, LinkIds
<1> QED BY <1>1 DEF ChangeRequests

LEMMA SignupShapes ==
  ASSUME NEW q \in SignupRequests
  PROVE  \/ q.st = "saveSignup"
         \/ q.st = "sendSignup" /\ q.link \in LinkIds
         \/ q.st = "saveAgain" /\ q.seen \in SignupDocs
         \/ q.st = "sendAgain" /\ q.link \in LinkIds /\ q.before \in 0..MaxLinks
         \/ q.st = "makeAccount" /\ q.link \in LinkIds /\ q.by \in LinkRequests \cup {Nowhere}
BY DEF SignupRequests

LEMMA WhereRequestsAre ==
  ASSUME LinksTyped, NEW r \in LinkRequests
  PROVE  /\ lreq[r] = Waiting \/ lreq[r] \in ResetRequests \/ lreq[r] \in ChangeRequests
              \/ lreq[r] \in SignupRequests
         /\ lreq[r] \in ResetRequests => "reset" \in flow
         /\ lreq[r] \in ChangeRequests => "change" \in flow
         /\ lreq[r] \in SignupRequests => "signup" \in flow
BY DEF LinksTyped, Belongs, LinkRequestDocs

(* Where a request is says which kind of link it is about.                 *)
LEMMA KindOfRequest ==
  ASSUME LinksTyped, NEW r \in LinkRequests
  PROVE  /\ lreq[r].st \in {"saveReset", "sendReset", "setPassword"} =>
              "reset" \in flow /\ lreq[r] \in ResetRequests
         /\ lreq[r].st \in {"saveChange", "sendChange", "saveCancel", "saveAddress"} =>
              "change" \in flow /\ lreq[r] \in ChangeRequests
         /\ lreq[r].st \in {"saveSignup", "sendSignup", "saveAgain", "sendAgain", "makeAccount"} =>
              "signup" \in flow /\ lreq[r] \in SignupRequests
         /\ lreq[r] \in ResetRequests => lreq[r].st \in {"saveReset", "sendReset", "setPassword"}
         /\ lreq[r] \in ChangeRequests =>
              lreq[r].st \in {"saveChange", "sendChange", "saveCancel", "saveAddress"}
<1>1. CASE lreq[r] = Waiting
  BY <1>1, WaitingTyped
<1>5. PICK q : q = lreq[r]
  OBVIOUS
<1>6. /\ q \in ResetRequests => q.st \in {"saveReset", "sendReset", "setPassword"}
      /\ q \in ChangeRequests => q.st \in {"saveChange", "sendChange", "saveCancel", "saveAddress"}
      /\ q \in SignupRequests =>
           q.st \in {"saveSignup", "sendSignup", "saveAgain", "sendAgain", "makeAccount"}
  <2>1. q \in ResetRequests => q.st \in {"saveReset", "sendReset", "setPassword"}
    BY ResetShapes
  <2>2. q \in ChangeRequests => q.st \in {"saveChange", "sendChange", "saveCancel", "saveAddress"}
    BY ChangeShapes
  <2>3. q \in SignupRequests =>
           q.st \in {"saveSignup", "sendSignup", "saveAgain", "sendAgain", "makeAccount"}
    BY SignupShapes
  <2> QED BY <2>1, <2>2, <2>3
<1>7. /\ q \in ResetRequests => "reset" \in flow
      /\ q \in ChangeRequests => "change" \in flow
      /\ q \in SignupRequests => "signup" \in flow
  BY <1>5, WhereRequestsAre
<1>2. CASE q \in ResetRequests
  BY <1>2, <1>5, <1>6, <1>7
<1>3. CASE q \in ChangeRequests
  BY <1>3, <1>5, <1>6, <1>7
<1>4. CASE q \in SignupRequests
  BY <1>4, <1>5, <1>6, <1>7
<1> QED BY <1>1, <1>2, <1>3, <1>4, <1>5, WhereRequestsAre

-----------------------------------------------------------------------------
(* Links are issued, delivered, used and grow old.                         *)
LEMMA CountedLinks ==
  ASSUME LinksIssued
  PROVE  /\ IsFiniteSet(IssuedLinks)
         /\ \E k \in Nat : k = Cardinality(IssuedLinks) /\ NextLink = k + 1 /\ IssuedLinks = 1..k
<1>1. IsFiniteSet(IssuedLinks)
  <2>1. IsFiniteSet(LinkIds)
    BY FS_Interval, NamesApart DEF LinkIds
  <2> QED BY <2>1, FS_Subset DEF IssuedLinks
<1>2. PICK k \in Nat : k = Cardinality(IssuedLinks)
  BY <1>1, FS_CardinalityType
<1>3. NextLink = 1 + Cardinality(IssuedLinks)
  BY DEF NextLink, IssuedLinks
<1>4. IssuedLinks = 1..k /\ NextLink = k + 1
  BY <1>2, <1>3 DEF LinksIssued
<1> QED BY <1>1, <1>2, <1>4

LEMMA LinkIssued ==
  ASSUME LinksIssued, NEW n, n = NextLink, Issues(n)
  PROVE  /\ LinksIssued'
         /\ n \in LinkIds /\ n \notin IssuedLinks /\ link[n] = Unissued
         /\ link'[n].sentTo = Nowhere /\ link'[n].uses = 0 /\ link'[n].age = "young"
         /\ \A m \in LinkIds : m # n => link'[m] = link[m]
         /\ IssuedLinks' = IssuedLinks \cup {n}
         /\ \A m \in LinkIds : NextLink' = m + 1 <=> m = n
<1>1. PICK k \in Nat : k = Cardinality(IssuedLinks) /\ NextLink = k + 1 /\ IssuedLinks = 1..k
  BY CountedLinks
<1>0. n = k + 1 /\ n \in Nat /\ n <= MaxLinks /\ MaxLinks \in Nat
  <2>1. n = k + 1
    BY <1>1
  <2> QED BY <2>1, NamesApart DEF Issues
<1>2. n \in LinkIds /\ n \notin IssuedLinks /\ link[n] = Unissued
  <2>1. n \in LinkIds
    BY <1>0 DEF LinkIds
  <2>2. n \notin IssuedLinks
    <3>1. IssuedLinks = 1..k
      BY <1>1
    <3>2. n \notin 1..k
      BY <1>0
    <3> QED BY <3>1, <3>2
  <2> QED BY <2>1, <2>2 DEF LinksIssued
<1>3. PICK d \in LinkDocs : /\ d = [Unissued EXCEPT !.age = "young"]
                            /\ d.sentTo = Nowhere /\ d.uses = 0 /\ d.age = "young"
  <2>1. [sentTo |-> Nowhere, uses |-> 0, age |-> "young"] \in LinkDocs
    BY DEF LinkDocs
  <2>2. [Unissued EXCEPT !.age = "young"] = [sentTo |-> Nowhere, uses |-> 0, age |-> "young"]
    BY DEF Unissued
  <2> QED BY <2>1, <2>2
<1>4. link' = [link EXCEPT ![n] = d] /\ link \in [LinkIds -> LinkDocs]
  BY <1>3 DEF Issues, LinksIssued
<1>5. link' \in [LinkIds -> LinkDocs] /\ link'[n] = d /\ \A m \in LinkIds : m # n => link'[m] = link[m]
  BY <1>2, <1>4
<1>6. IssuedLinks' = IssuedLinks \cup {n}
  BY <1>2, <1>3, <1>5 DEF IssuedLinks
<1>7. Cardinality(IssuedLinks') = k + 1
  BY <1>1, <1>2, <1>6, CountedLinks, FS_AddElement
<1>8. IssuedLinks' = 1..(k + 1)
  <2>1. IssuedLinks = 1..k
    BY <1>1
  <2>2. (1..k) \cup {n} = 1..(k + 1)
    BY <1>0
  <2> QED BY <1>6, <2>1, <2>2
<1>9. NextLink' = k + 2
  <2>1. NextLink' = 1 + Cardinality(IssuedLinks')
    BY DEF NextLink, IssuedLinks
  <2> QED BY <1>7, <2>1
<1>10. \A m \in LinkIds : NextLink' = m + 1 <=> m = n
  BY <1>0, <1>9 DEF LinkIds
<1>11. LinksIssued'
  <2>1. \A m \in LinkIds \ IssuedLinks' : link'[m] = Unissued
    BY <1>5, <1>6 DEF LinksIssued
  <2> QED BY <1>5, <1>7, <1>8, <2>1 DEF LinksIssued
<1> QED BY <1>2, <1>3, <1>5, <1>6, <1>10, <1>11

(* A link that was issued changes.                                         *)
LEMMA LinkChanged ==
  ASSUME LinksIssued, NEW n \in IssuedLinks, NEW d \in LinkDocs, d.age # "none",
         link' = [link EXCEPT ![n] = d]
  PROVE  /\ LinksIssued' /\ link'[n] = d /\ IssuedLinks' = IssuedLinks /\ NextLink' = NextLink
         /\ \A m \in LinkIds : m # n => link'[m] = link[m]
<1>1. n \in LinkIds /\ link \in [LinkIds -> LinkDocs]
  BY DEF IssuedLinks, LinksIssued
<1>2. link' \in [LinkIds -> LinkDocs] /\ link'[n] = d /\ \A m \in LinkIds : m # n => link'[m] = link[m]
  BY <1>1
<1>3. IssuedLinks' = IssuedLinks
  BY <1>1, <1>2 DEF IssuedLinks
<1>4. NextLink' = NextLink
  <2>1. NextLink' = 1 + Cardinality(IssuedLinks') /\ NextLink = 1 + Cardinality(IssuedLinks)
    BY DEF NextLink, IssuedLinks
  <2> QED BY <1>3, <2>1
<1>5. LinksIssued'
  BY <1>2, <1>3 DEF LinksIssued
<1> QED BY <1>2, <1>3, <1>4, <1>5

LEMMA LinkDelivered ==
  ASSUME LinksIssued, NEW n \in IssuedLinks, NEW a \in Addresses \cup {Own}, Delivers(n, a)
  PROVE  /\ LinksIssued' /\ IssuedLinks' = IssuedLinks /\ NextLink' = NextLink
         /\ link'[n].sentTo = a /\ link'[n].uses = link[n].uses /\ link'[n].age = link[n].age
         /\ \A m \in LinkIds : m # n => link'[m] = link[m]
<1>1. link[n] \in LinkDocs /\ link[n].age # "none"
  BY DEF IssuedLinks, LinksIssued
<1> DEFINE d == [link[n] EXCEPT !.sentTo = a]
<1>2. d \in LinkDocs /\ d.sentTo = a /\ d.uses = link[n].uses /\ d.age = link[n].age
  BY <1>1 DEF LinkDocs
<1>3. link' = [link EXCEPT ![n] = d]
  BY DEF Delivers
<1> HIDE DEF d
<1> QED BY <1>1, <1>2, <1>3, LinkChanged

LEMMA LinkUsed ==
  ASSUME LinksIssued, NEW n \in IssuedLinks, link[n].uses <= 1, Uses(n)
  PROVE  /\ LinksIssued' /\ IssuedLinks' = IssuedLinks /\ NextLink' = NextLink
         /\ link'[n].sentTo = link[n].sentTo /\ link'[n].uses = link[n].uses + 1
         /\ link'[n].age = link[n].age
         /\ \A m \in LinkIds : m # n => link'[m] = link[m]
<1>1. link[n] \in LinkDocs /\ link[n].age # "none"
  BY DEF IssuedLinks, LinksIssued
<1>2. link[n].uses + 1 \in 0..2
  BY <1>1 DEF LinkDocs
<1> DEFINE d == [link[n] EXCEPT !.uses = @ + 1]
<1>3. /\ d \in LinkDocs /\ d.sentTo = link[n].sentTo /\ d.uses = link[n].uses + 1
      /\ d.age = link[n].age
  BY <1>1, <1>2 DEF LinkDocs
<1>4. link' = [link EXCEPT ![n] = d]
  BY DEF Uses
<1> HIDE DEF d
<1> QED BY <1>1, <1>3, <1>4, LinkChanged

LEMMA LinkAged ==
  ASSUME LinksIssued, NEW n \in IssuedLinks, NEW age \in {"grown", "old"},
         link' = [link EXCEPT ![n].age = age]
  PROVE  /\ LinksIssued' /\ IssuedLinks' = IssuedLinks /\ NextLink' = NextLink
         /\ \A m \in LinkIds : /\ link'[m].sentTo = link[m].sentTo /\ link'[m].uses = link[m].uses
                               /\ link'[m].age # "old" => m # n \/ age # "old"
                               /\ m # n => link'[m] = link[m]
<1>1. link[n] \in LinkDocs
  BY DEF IssuedLinks, LinksIssued
<1> DEFINE d == [link[n] EXCEPT !.age = age]
<1>2. d \in LinkDocs /\ d.sentTo = link[n].sentTo /\ d.uses = link[n].uses /\ d.age = age
  BY <1>1 DEF LinkDocs
<1>3. link' = [link EXCEPT ![n] = d]
  OBVIOUS
<1> HIDE DEF d
<1>4. /\ LinksIssued' /\ IssuedLinks' = IssuedLinks /\ NextLink' = NextLink /\ link'[n] = d
      /\ \A m \in LinkIds : m # n => link'[m] = link[m]
  BY <1>2, <1>3, LinkChanged, ZenonT(60)
<1> QED BY <1>2, <1>4

LEMMA SentIsIssued ==
  ASSUME LinksIssued, NEW n \in LinkIds, link[n].sentTo # Nowhere
  PROVE  n \in IssuedLinks
BY DEF LinksIssued, Unissued

LEMMA LinksSame ==
  ASSUME UNCHANGED link
  PROVE  LinksIssued' = LinksIssued /\ IssuedLinks' = IssuedLinks /\ NextLink' = NextLink
BY DEF LinksIssued, IssuedLinks, NextLink

-----------------------------------------------------------------------------
(* Types are kept by what follows from the kind of the step.               *)
LEMMA TypedStep ==
  ASSUME LinksInv, NEW r \in LinkRequests, NEW q, Then(r, q), Belongs(q), LinksIssued',
         user' \in UserDocs, signup' \in SignupDocs, signup'.st = "none" => signup' = NoSignup,
         joined' \in AccountDocs, mingled' \in BOOLEAN,
         "change" \notin flow =>
           user'.pending = Nowhere /\ \A n \in LinkIds : link'[n].uses <= 1,
         "signup" \notin flow => UNCHANGED <<signup, joined>>
  PROVE  /\ LinksTyped' /\ flow' = flow
         /\ lreq'[r] = q /\ \A o \in LinkRequests : o # r => lreq'[o] = lreq[o]
<1>1. /\ lreq' = [lreq EXCEPT ![r] = q] /\ flow' = flow /\ q \in LinkRequestDocs
      /\ lreq \in [LinkRequests -> LinkRequestDocs]
  BY DEF Then, Belongs, LinksInv, LinksTyped
<1>2. /\ lreq' \in [LinkRequests -> LinkRequestDocs] /\ lreq'[r] = q
      /\ \A o \in LinkRequests : o # r => lreq'[o] = lreq[o]
  BY <1>1
<1>3. \A o \in LinkRequests : Belongs(lreq[o])
  BY DEF LinksInv, LinksTyped
<1>4. ASSUME NEW o \in LinkRequests PROVE Belongs(lreq'[o])
  BY <1>2, <1>3
<1>5. (\A o \in LinkRequests : Belongs(lreq[o]))'
  BY <1>1, <1>4 DEF Belongs, LinkRequestDocs
<1>6. LinksTypeOK'
  BY DEF LinksIssued, LinksTypeOK, AccountDocs
<1>7. "signup" \notin flow =>
        signup' = NoSignup /\ joined' = [account |-> Nowhere, claim |-> Nowhere, sessions |-> 0]
  BY DEF LinksInv, LinksTyped
<1> QED BY <1>1, <1>2, <1>5, <1>6, <1>7 DEF LinksInv, LinksTyped

LEMMA LinkFacts ==
  ASSUME LinksInv
  PROVE  /\ link \in [LinkIds -> LinkDocs] /\ IssuedLinks \subseteq LinkIds
         /\ user \in UserDocs /\ signup \in SignupDocs /\ joined \in AccountDocs
         /\ mingled \in BOOLEAN /\ LinksIssued /\ LinksTyped
         /\ "change" \notin flow => user.pending = Nowhere /\ \A n \in LinkIds : link[n].uses <= 1
         /\ signup.st = "none" => signup = NoSignup
         /\ 0 \notin LinkIds /\ \A n \in 0..MaxLinks : n # 0 => n \in LinkIds
<1>1. 0 \notin LinkIds /\ \A n \in 0..MaxLinks : n # 0 => n \in LinkIds
  BY NamesApart DEF LinkIds
<1> QED BY <1>1 DEF LinksInv, LinksTyped, LinksTypeOK, IssuedLinks

LEMMA ResetOf ==
  ASSUME LinksInv, "reset" \in flow
  PROVE  /\ ResetStored /\ ResetSending /\ ResetOpened /\ NewestResetWorks
         /\ "change" \notin flow /\ "signup" \notin flow
BY OneKind DEF LinksInv, ResetInv

(* Sound steps about links for a new password.                             *)
LEMMA ResetStep ==
  ASSUME LinksInv, NEW r \in LinkRequests, NEW q, Then(r, q), Belongs(q), "reset" \in flow,
         LinksIssued', NEW n \in 0..MaxLinks, user' = [user EXCEPT !.reset = n],
         \A m \in LinkIds : link'[m].uses <= 1,
         UNCHANGED <<signup, joined, mingled>>,
         ResetStored', ResetSending', ResetOpened', NewestResetWorks'
  PROVE  LinksInv'
<1>1. user' \in UserDocs /\ user'.pending = user.pending
  BY LinkFacts DEF UserDocs
<1>2. "change" \notin flow /\ "signup" \notin flow
  BY ResetOf
<1>3. LinksTyped' /\ flow' = flow
  BY <1>1, <1>2, LinkFacts, TypedStep
<1> QED BY <1>2, <1>3 DEF LinksInv, ResetInv, ChangeInv, SignupInv

LEMMA ResetRead ==
  ASSUME LinksInv, NEW r \in LinkRequests, NEW q, Then(r, q), Belongs(q), "reset" \in flow,
         UNCHANGED <<link, user, signup, joined, mingled>>, q.st # "sendReset",
         q.st = "setPassword" => q.link \in IssuedLinks /\ link[q.link].sentTo # Nowhere
  PROVE  LinksInv'
<1>1. /\ lreq'[r] = q /\ \A o \in LinkRequests : o # r => lreq'[o] = lreq[o]
      /\ flow' = flow
  BY DEF Then, LinksInv, LinksTyped
<1>2. ResetStored' /\ ResetSending' /\ ResetOpened' /\ NewestResetWorks'
  BY <1>1, ResetOf, LinksSame DEF ResetStored, ResetSending, ResetOpened, NewestResetWorks, Newest
<1>3. user.reset \in 0..MaxLinks /\ user = [user EXCEPT !.reset = user.reset]
  BY LinkFacts DEF UserDocs
<1>4. LinksIssued' /\ \A m \in LinkIds : link'[m].uses <= 1
  BY LinkFacts, LinksSame, ResetOf
<1> QED BY <1>2, <1>3, <1>4, ResetStep

LEMMA FindForResetInv ==
  ASSUME LinksInv, NEW r \in LinkRequests, FindForReset(r)
  PROVE  LinksInv'
<1>1. /\ Then(r, [st |-> "saveReset"]) /\ "reset" \in flow
      /\ UNCHANGED <<link, user, signup, joined, mingled>>
  BY DEF FindForReset, Opens
<1>2. Belongs([st |-> "saveReset"])
  <2>1. [st |-> "saveReset"] \in ResetRequests
    BY DEF ResetRequests
  <2> QED BY <1>1, <2>1, ResetOf DEF Belongs, LinkRequestDocs, ChangeRequests, SignupRequests
<1> QED BY <1>1, <1>2, ResetRead

LEMMA OpenResetInv ==
  ASSUME LinksInv, NEW r \in LinkRequests, OpenReset(r)
  PROVE  LinksInv'
<1>1. PICK n : n = user.reset
  OBVIOUS
<1>2. /\ Then(r, [st |-> "setPassword", link |-> n]) /\ "reset" \in flow
      /\ UNCHANGED <<link, user, signup, joined, mingled>>
  BY <1>1 DEF OpenReset, Opens
<1>3. n \in LinkIds /\ link[n].sentTo # Nowhere
  BY <1>1 DEF OpenReset, Valid
<1>4. Belongs([st |-> "setPassword", link |-> n])
  <2>1. [st |-> "setPassword", link |-> n] \in ResetRequests
    BY <1>3 DEF ResetRequests
  <2> QED BY <1>2, <2>1, ResetOf DEF Belongs, LinkRequestDocs, ChangeRequests, SignupRequests
<1>5. n \in IssuedLinks
  BY <1>1, <1>2, <1>3, LinkFacts, ResetOf DEF ResetStored
<1> QED BY <1>2, <1>3, <1>4, <1>5, ResetRead

LEMMA SaveResetInv ==
  ASSUME LinksInv, NEW r \in LinkRequests, SaveReset(r)
  PROVE  LinksInv'
<1>1. PICK n : n = NextLink
  OBVIOUS
<1>2. /\ lreq[r].st = "saveReset" /\ Issues(n) /\ user' = [user EXCEPT !.reset = n]
      /\ Then(r, [st |-> "sendReset", link |-> n]) /\ UNCHANGED <<signup, joined, mingled>>
  BY <1>1 DEF SaveReset, At
<1>3. "reset" \in flow
  BY <1>2, LinkFacts, KindOfRequest
<1>4. /\ LinksIssued' /\ n \in LinkIds /\ n \notin IssuedLinks
      /\ link'[n].sentTo = Nowhere /\ link'[n].uses = 0
      /\ \A m \in LinkIds : m # n => link'[m] = link[m]
      /\ IssuedLinks' = IssuedLinks \cup {n}
      /\ \A m \in LinkIds : NextLink' = m + 1 <=> m = n
  BY <1>1, <1>2, LinkFacts, LinkIssued
<1>5. Belongs([st |-> "sendReset", link |-> n])
  <2>1. [st |-> "sendReset", link |-> n] \in ResetRequests
    BY <1>4 DEF ResetRequests
  <2> QED BY <1>3, <2>1, ResetOf DEF Belongs, LinkRequestDocs, ChangeRequests, SignupRequests
<1>6. n \in 0..MaxLinks /\ user'.reset = n
  BY <1>2, <1>4, LinkFacts DEF LinkIds, UserDocs
<1>7. /\ lreq'[r] = [st |-> "sendReset", link |-> n]
      /\ \A o \in LinkRequests : o # r => lreq'[o] = lreq[o]
      /\ flow' = flow
  BY <1>2 DEF Then, LinksInv, LinksTyped
<1>8. ResetStored'
  BY <1>4, <1>6 DEF ResetStored
<1>9. ResetSending'
  <2> SUFFICES ASSUME NEW x \in LinkRequests, lreq'[x].st = "sendReset"
      PROVE  /\ lreq'[x].link \in IssuedLinks' /\ link'[lreq'[x].link].sentTo = Nowhere
             /\ NextLink' = lreq'[x].link + 1 => user'.reset = lreq'[x].link
             /\ \A o \in LinkRequests \ {x} : lreq'[o].st = "sendReset" => lreq'[o].link # lreq'[x].link
    BY DEF ResetSending, Newest
  <2>1. \A o \in LinkRequests : o # r /\ lreq'[o].st = "sendReset" =>
          lreq[o].link \in IssuedLinks /\ lreq'[o].link = lreq[o].link
    BY <1>3, <1>7, ResetOf DEF ResetSending
  <2>2. CASE x = r
    BY <1>4, <1>6, <1>7, <2>1, <2>2
  <2>3. CASE x # r
    <3>1. PICK m \in IssuedLinks : m = lreq[x].link /\ lreq'[x].link = m
      BY <2>1, <2>3
    <3>2. m # n /\ m \in LinkIds
      BY <1>4, LinkFacts
    <3>3. /\ link[m].sentTo = Nowhere
          /\ \A o \in LinkRequests \ {x} : lreq[o].st = "sendReset" => lreq[o].link # m
      BY <1>3, <1>7, <2>3, <3>1, ResetOf DEF ResetSending
    <3> QED BY <1>4, <1>7, <2>1, <2>3, <3>1, <3>2, <3>3
  <2> QED BY <2>2, <2>3
<1>10. ResetOpened'
  <2> SUFFICES ASSUME NEW x \in LinkRequests, lreq'[x].st = "setPassword"
      PROVE  lreq'[x].link \in IssuedLinks' /\ link'[lreq'[x].link].sentTo # Nowhere
    BY DEF ResetOpened
  <2>1. x # r /\ lreq'[x] = lreq[x]
    BY <1>7
  <2>2. lreq[x].link \in IssuedLinks /\ link[lreq[x].link].sentTo # Nowhere
    BY <1>3, <2>1, ResetOf DEF ResetOpened
  <2> QED BY <1>4, <2>1, <2>2, LinkFacts
<1>11. NewestResetWorks'
  BY <1>4, <1>6 DEF NewestResetWorks
<1>12. \A m \in LinkIds : link'[m].uses <= 1
  BY <1>3, <1>4, LinkFacts, ResetOf
<1> QED BY <1>2, <1>3, <1>4, <1>5, <1>6, <1>8, <1>9, <1>10, <1>11, <1>12, ResetStep

LEMMA SendResetInv ==
  ASSUME LinksInv, NEW r \in LinkRequests, SendReset(r)
  PROVE  LinksInv'
<1>1. PICK n : n = lreq[r].link
  OBVIOUS
<1>2. /\ lreq[r].st = "sendReset" /\ Delivers(n, Own) /\ Then(r, Waiting)
      /\ UNCHANGED <<user, signup, joined, mingled>>
  BY <1>1 DEF SendReset, At
<1>3. "reset" \in flow
  BY <1>2, LinkFacts, KindOfRequest
<1>4. /\ n \in IssuedLinks /\ NextLink = n + 1 => user.reset = n
      /\ \A o \in LinkRequests \ {r} : lreq[o].st = "sendReset" => lreq[o].link # n
  BY <1>1, <1>2, <1>3, ResetOf DEF ResetSending, Newest
<1>5. n \in IssuedLinks
  BY <1>1, <1>2, <1>3, ResetOf DEF ResetSending
<1>6. /\ LinksIssued' /\ IssuedLinks' = IssuedLinks /\ NextLink' = NextLink
      /\ link'[n].sentTo = Own /\ link'[n].uses = link[n].uses /\ link'[n].age = link[n].age
      /\ \A m \in LinkIds : m # n => link'[m] = link[m]
  BY <1>2, <1>5, LinkFacts, LinkDelivered
<1>7. /\ lreq'[r] = Waiting /\ \A o \in LinkRequests : o # r => lreq'[o] = lreq[o]
      /\ flow' = flow
  BY <1>2 DEF Then, LinksInv, LinksTyped
<1>8. ResetStored'
  BY <1>2, <1>3, <1>6, LinkFacts, ResetOf DEF ResetStored
<1>9. ResetSending'
  <2> SUFFICES ASSUME NEW x \in LinkRequests, lreq'[x].st = "sendReset"
      PROVE  /\ lreq'[x].link \in IssuedLinks' /\ link'[lreq'[x].link].sentTo = Nowhere
             /\ NextLink' = lreq'[x].link + 1 => user'.reset = lreq'[x].link
             /\ \A o \in LinkRequests \ {x} : lreq'[o].st = "sendReset" => lreq'[o].link # lreq'[x].link
    BY DEF ResetSending, Newest
  <2>1. x # r /\ lreq'[x] = lreq[x]
    BY <1>7, WaitingTyped
  <2>2. PICK m \in IssuedLinks : m = lreq[x].link
    BY <1>3, <2>1, ResetOf DEF ResetSending
  <2>3. /\ link[m].sentTo = Nowhere /\ NextLink = m + 1 => user.reset = m
        /\ \A o \in LinkRequests \ {x} : lreq[o].st = "sendReset" => lreq[o].link # m
    BY <1>3, <2>1, <2>2, ResetOf DEF ResetSending, Newest
  <2>4. m # n /\ m \in LinkIds
    BY <1>4, <2>1, <2>2, LinkFacts
  <2>5. link[m].sentTo = Nowhere
    BY <1>3, <2>1, <2>2, ResetOf DEF ResetSending
  <2> QED BY <1>2, <1>6, <1>7, <2>1, <2>2, <2>3, <2>4, <2>5, WaitingTyped
<1>10. ResetOpened'
  <2> SUFFICES ASSUME NEW x \in LinkRequests, lreq'[x].st = "setPassword"
      PROVE  lreq'[x].link \in IssuedLinks' /\ link'[lreq'[x].link].sentTo # Nowhere
    BY DEF ResetOpened
  <2>1. x # r /\ lreq'[x] = lreq[x]
    BY <1>7, WaitingTyped
  <2>2. lreq[x].link \in IssuedLinks /\ link[lreq[x].link].sentTo # Nowhere
    BY <1>3, <2>1, ResetOf DEF ResetOpened
  <2> QED BY <1>6, <2>1, <2>2, LinkFacts, NamesApart
<1>11. NewestResetWorks'
  <2> SUFFICES ASSUME NEW m \in LinkIds, link'[m].sentTo # Nowhere, link'[m].uses = 0,
                      link'[m].age # "old", NextLink' = m + 1
      PROVE  user'.reset = m
    BY DEF NewestResetWorks
  <2>1. CASE m = n
    BY <1>2, <1>3, <1>6, <2>1, <1>1, ResetOf DEF ResetSending, Newest
  <2>2. CASE m # n
    BY <1>2, <1>3, <1>6, <2>2, ResetOf DEF NewestResetWorks
  <2> QED BY <2>1, <2>2
<1>12. \A m \in LinkIds : link'[m].uses <= 1
  BY <1>3, <1>6, LinkFacts, ResetOf
<1>13. user.reset \in 0..MaxLinks /\ user' = [user EXCEPT !.reset = user.reset]
  BY <1>2, LinkFacts DEF UserDocs
<1> QED BY <1>2, <1>3, <1>6, <1>8, <1>9, <1>10, <1>11, <1>12, <1>13, ResetStep, WaitingTyped

(* Only a link that did not reach anybody is taken back.                   *)
LEMMA TakeBackResetInv ==
  ASSUME LinksInv, NEW r \in LinkRequests, TakeBackReset(r)
  PROVE  LinksInv'
<1>1. PICK n : n = lreq[r].link
  OBVIOUS
<1>2. PICK z : z = IF user.reset = n THEN 0 ELSE user.reset
  OBVIOUS
<1>3. /\ lreq[r].st = "sendReset" /\ user' = [user EXCEPT !.reset = z] /\ Then(r, Waiting)
      /\ UNCHANGED <<link, signup, joined, mingled>>
  BY <1>1, <1>2 DEF TakeBackReset, At
<1>4. "reset" \in flow
  BY <1>3, LinkFacts, KindOfRequest
<1>5. /\ n \in IssuedLinks /\ link[n].sentTo = Nowhere
      /\ \A o \in LinkRequests \ {r} : lreq[o].st = "sendReset" => lreq[o].link # n
  BY <1>1, <1>3, <1>4, ResetOf DEF ResetSending
<1>6. /\ lreq'[r] = Waiting /\ \A o \in LinkRequests : o # r => lreq'[o] = lreq[o]
      /\ flow' = flow
  BY <1>3 DEF Then, LinksInv, LinksTyped
<1>7. z \in 0..MaxLinks /\ user'.reset = z
  BY <1>2, <1>3, LinkFacts, NamesApart DEF UserDocs
<1>8. ResetStored'
  BY <1>2, <1>3, <1>4, <1>7, LinksSame, ResetOf DEF ResetStored
<1>9. ResetSending'
  <2> SUFFICES ASSUME NEW x \in LinkRequests, lreq'[x].st = "sendReset"
      PROVE  /\ lreq'[x].link \in IssuedLinks' /\ link'[lreq'[x].link].sentTo = Nowhere
             /\ NextLink' = lreq'[x].link + 1 => user'.reset = lreq'[x].link
             /\ \A o \in LinkRequests \ {x} : lreq'[o].st = "sendReset" => lreq'[o].link # lreq'[x].link
    BY DEF ResetSending, Newest
  <2>1. x # r /\ lreq'[x] = lreq[x]
    BY <1>6, WaitingTyped
  <2>2. /\ lreq[x].link \in IssuedLinks /\ link[lreq[x].link].sentTo = Nowhere
        /\ \A o \in LinkRequests \ {x} : lreq[o].st = "sendReset" => lreq[o].link # lreq[x].link
    BY <1>4, <2>1, ResetOf DEF ResetSending
  <2>3. NextLink = lreq[x].link + 1 => user.reset = lreq[x].link
    BY <1>4, <2>1, ResetOf DEF ResetSending, Newest
  <2>4. lreq[x].link # n
    BY <1>5, <2>1
  <2> QED BY <1>2, <1>3, <1>6, <1>7, <2>1, <2>2, <2>3, <2>4, LinksSame, WaitingTyped
<1>10. ResetOpened'
  <2>1. \A x \in LinkRequests : lreq'[x].st = "setPassword" => lreq'[x] = lreq[x]
    BY <1>6, WaitingTyped
  <2> QED BY <1>3, <1>4, <2>1, LinksSame, ResetOf DEF ResetOpened
<1>11. NewestResetWorks'
  <2> SUFFICES ASSUME NEW m \in LinkIds, link[m].sentTo # Nowhere, link[m].uses = 0,
                      link[m].age # "old", NextLink = m + 1
      PROVE  user'.reset = m
    BY <1>3, LinksSame DEF NewestResetWorks
  <2>1. user.reset = m
    BY <1>4, ResetOf DEF NewestResetWorks
  <2> QED BY <1>2, <1>5, <1>7, <2>1
<1>12. \A m \in LinkIds : link'[m].uses <= 1
  BY <1>3, <1>4, LinkFacts, ResetOf
<1> QED BY <1>3, <1>4, <1>7, <1>8, <1>9, <1>10, <1>11, <1>12, ResetStep, WaitingTyped, LinksSame,
           LinkFacts

(* The link that is stored does its work.                                  *)
LEMMA SetPasswordInv ==
  ASSUME LinksInv, NEW r \in LinkRequests, SetPassword(r)
  PROVE  LinksInv'
<1>1. PICK n : n = lreq[r].link
  OBVIOUS
<1>2. /\ lreq[r].st = "setPassword" /\ user.reset = n /\ user' = [user EXCEPT !.reset = 0]
      /\ Uses(n) /\ Then(r, Waiting) /\ UNCHANGED <<signup, joined, mingled>>
  BY <1>1 DEF SetPassword, At
<1>3. "reset" \in flow
  BY <1>2, LinkFacts, KindOfRequest
<1>4. n \in IssuedLinks /\ link[n].sentTo # Nowhere
  BY <1>1, <1>2, <1>3, ResetOf DEF ResetOpened
<1>5. link[n].uses = 0
  <2>1. n # 0
    BY <1>4, LinkFacts
  <2> QED BY <1>2, <1>3, <2>1, ResetOf DEF ResetStored
<1>6. /\ LinksIssued' /\ IssuedLinks' = IssuedLinks /\ NextLink' = NextLink
      /\ link'[n].sentTo = link[n].sentTo /\ link'[n].uses = 1
      /\ \A m \in LinkIds : m # n => link'[m] = link[m]
  <2>1. (0 <= 1) = TRUE /\ 0 + 1 = 1
    OBVIOUS
  <2> QED BY <1>2, <1>4, <1>5, <2>1, LinkFacts, LinkUsed
<1>7. /\ lreq'[r] = Waiting /\ \A o \in LinkRequests : o # r => lreq'[o] = lreq[o]
      /\ flow' = flow
  BY <1>2 DEF Then, LinksInv, LinksTyped
<1>8. 0 \in 0..MaxLinks /\ user'.reset = 0
  BY <1>2, LinkFacts, NamesApart DEF UserDocs
<1>9. ResetStored'
  BY <1>8 DEF ResetStored
<1>10. ResetSending'
  <2> SUFFICES ASSUME NEW x \in LinkRequests, lreq'[x].st = "sendReset"
      PROVE  /\ lreq'[x].link \in IssuedLinks' /\ link'[lreq'[x].link].sentTo = Nowhere
             /\ NextLink' = lreq'[x].link + 1 => user'.reset = lreq'[x].link
             /\ \A o \in LinkRequests \ {x} : lreq'[o].st = "sendReset" => lreq'[o].link # lreq'[x].link
    BY DEF ResetSending, Newest
  <2>1. x # r /\ lreq'[x] = lreq[x]
    BY <1>7, WaitingTyped
  <2>2. PICK m \in IssuedLinks : m = lreq[x].link /\ m \in LinkIds
    BY <1>3, <2>1, LinkFacts, ResetOf DEF ResetSending
  <2>3. /\ link[m].sentTo = Nowhere
        /\ \A o \in LinkRequests \ {x} : lreq[o].st = "sendReset" => lreq[o].link # m
    BY <1>3, <2>1, <2>2, ResetOf DEF ResetSending
  <2>4. NextLink = m + 1 => user.reset = m
    BY <1>3, <2>1, <2>2, ResetOf DEF ResetSending, Newest
  <2>5. m # n
    BY <1>4, <2>3
  <2> QED BY <1>2, <1>6, <1>7, <2>1, <2>2, <2>3, <2>4, <2>5, WaitingTyped
<1>11. ResetOpened'
  <2> SUFFICES ASSUME NEW x \in LinkRequests, lreq'[x].st = "setPassword"
      PROVE  lreq'[x].link \in IssuedLinks' /\ link'[lreq'[x].link].sentTo # Nowhere
    BY DEF ResetOpened
  <2>1. x # r /\ lreq'[x] = lreq[x]
    BY <1>7, WaitingTyped
  <2>2. lreq[x].link \in IssuedLinks /\ link[lreq[x].link].sentTo # Nowhere
    BY <1>3, <2>1, ResetOf DEF ResetOpened
  <2> QED BY <1>6, <2>1, <2>2, LinkFacts
<1>12. NewestResetWorks'
  <2> SUFFICES ASSUME NEW m \in LinkIds, link'[m].sentTo # Nowhere, link'[m].uses = 0,
                      link'[m].age # "old", NextLink = m + 1
      PROVE  FALSE
    BY <1>6 DEF NewestResetWorks
  <2>1. m # n
    BY <1>6
  <2>2. user.reset = m
    BY <1>3, <1>6, <2>1, ResetOf DEF NewestResetWorks
  <2> QED BY <1>2, <2>1, <2>2
<1>13. \A m \in LinkIds : link'[m].uses <= 1
  BY <1>3, <1>6, LinkFacts, ResetOf
<1> QED BY <1>2, <1>3, <1>6, <1>8, <1>9, <1>10, <1>11, <1>12, <1>13, ResetStep, WaitingTyped

-----------------------------------------------------------------------------
(* Links for a change of address. What is in memory is what is stored, as  *)
(* long as requests have not overlapped.                                   *)
LEMMA ChangeOf ==
  ASSUME LinksInv, "change" \in flow
  PROVE  /\ ~mingled =>
              ChangeSending /\ ChangeOpened /\ ChangeStored /\ \A n \in LinkIds : link[n].uses <= 1
         /\ "reset" \notin flow /\ "signup" \notin flow
BY OneKind DEF LinksInv, ChangeInv

LEMMA ChangeStep ==
  ASSUME LinksInv, NEW r \in LinkRequests, NEW q, Then(r, q), Belongs(q), "change" \in flow,
         LinksIssued', user' \in UserDocs, mingled' \in BOOLEAN, UNCHANGED <<signup, joined>>,
         ~mingled' =>
           ChangeSending' /\ ChangeOpened' /\ ChangeStored' /\ \A n \in LinkIds : link'[n].uses <= 1
  PROVE  LinksInv'
<1>1. "reset" \notin flow /\ "signup" \notin flow
  BY ChangeOf
<1>2. LinksTyped' /\ flow' = flow
  BY <1>1, LinkFacts, TypedStep
<1> QED BY <1>1, <1>2 DEF LinksInv, ResetInv, ChangeInv, SignupInv

LEMMA ChangeRead ==
  ASSUME LinksInv, NEW r \in LinkRequests, lreq[r] = Waiting, NEW q, Then(r, q), Belongs(q),
         "change" \in flow, UNCHANGED <<link, user, signup, joined, mingled>>, q.st # "sendChange",
         q.st = "saveAddress" => q.seen.hash \in IssuedLinks
  PROVE  LinksInv'
<1>1. /\ lreq'[r] = q /\ \A o \in LinkRequests : o # r => lreq'[o] = lreq[o]
      /\ flow' = flow
  BY DEF Then, LinksInv, LinksTyped
<1>2. ~mingled =>
        ChangeSending' /\ ChangeOpened' /\ ChangeStored' /\ \A n \in LinkIds : link'[n].uses <= 1
  BY <1>1, ChangeOf, WaitingTyped, LinksSame DEF ChangeSending, ChangeOpened, ChangeStored, Works
<1>3. LinksIssued' /\ user' \in UserDocs /\ mingled' \in BOOLEAN
  BY LinkFacts, LinksSame
<1> QED BY <1>2, <1>3, ChangeStep

LEMMA ReadsTyped ==
  ASSUME LinksInv
  PROVE  ReadOfUser \in UserReads
BY LinkFacts DEF UserDocs, UserReads, ReadOfUser

LEMMA SavedTyped ==
  ASSUME LinksInv, NEW seen \in UserReads, NEW want \in UserReads
  PROVE  /\ Saved(seen, want) \in UserDocs
         /\ ReadOfUser = seen =>
              Saved(seen, want).pending = want.pending /\ Saved(seen, want).hash = want.hash
<1>1. user \in UserDocs
  BY LinkFacts
<1>2. PICK p \in Addresses \cup {Nowhere}, h \in 0..MaxLinks :
        /\ p = (IF want.pending # seen.pending THEN want.pending ELSE user.pending)
        /\ h = (IF want.hash # seen.hash THEN want.hash ELSE user.hash)
  BY <1>1 DEF UserReads, UserDocs
<1>3. Saved(seen, want) = [user EXCEPT !.pending = p, !.hash = h]
  BY <1>2 DEF Saved
<1>4. [user EXCEPT !.pending = p, !.hash = h] \in UserDocs
  BY <1>1, <1>2 DEF UserDocs
<1>5. [user EXCEPT !.pending = p, !.hash = h].pending = p /\ [user EXCEPT !.pending = p, !.hash = h].hash = h
  BY <1>1 DEF UserDocs
<1>6. ReadOfUser = seen => user.pending = seen.pending /\ user.hash = seen.hash
  BY DEF ReadOfUser
<1> QED BY <1>2, <1>3, <1>4, <1>5, <1>6

LEMMA ChangeBelongs ==
  ASSUME LinksInv, "change" \in flow, NEW q \in ChangeRequests
  PROVE  Belongs(q)
<1>1. q \notin ResetRequests
  BY ResetShapes, ChangeShapes
<1>2. q \notin SignupRequests
  BY SignupShapes, ChangeShapes
<1> QED BY <1>1, <1>2 DEF Belongs, LinkRequestDocs

LEMMA ChangeAsked ==
  ASSUME LinksInv, NEW r \in LinkRequests,
         \/ \E a \in Addresses : RequestEmailChange(r, a)
         \/ ResendEmailChange(r) \/ CancelEmailChange(r) \/ OpenChange(r)
  PROVE  LinksInv'
<1>1. ReadOfUser \in UserReads /\ user.pending \in Addresses \cup {Nowhere} /\ user.hash \in 0..MaxLinks
  BY ReadsTyped, LinkFacts DEF UserDocs
<1>2. ASSUME NEW q \in ChangeRequests, q.st # "sendChange",
             q.st = "saveAddress" => q.seen.hash \in IssuedLinks, Opens(r, "change", q),
             UNCHANGED <<link, user, signup, joined, mingled>>
      PROVE  LinksInv'
  <2>1. Then(r, q) /\ "change" \in flow /\ lreq[r] = Waiting
    BY <1>2 DEF Opens
  <2> QED BY <1>2, <2>1, ChangeBelongs, ChangeRead
<1>3. ASSUME NEW a \in Addresses, RequestEmailChange(r, a) PROVE LinksInv'
  <2> DEFINE q == [st |-> "saveChange", to |-> a, seen |-> ReadOfUser]
  <2>1. q \in ChangeRequests /\ q.st # "sendChange" /\ q.st # "saveAddress"
    BY <1>1 DEF ChangeRequests
  <2>2. Opens(r, "change", q) /\ UNCHANGED <<link, user, signup, joined, mingled>>
    BY <1>3 DEF RequestEmailChange
  <2> HIDE DEF q
  <2> QED BY <1>2, <2>1, <2>2
<1>4. CASE ResendEmailChange(r)
  <2> DEFINE q == [st |-> "saveChange", to |-> user.pending, seen |-> ReadOfUser]
  <2>1. q \in ChangeRequests /\ q.st # "sendChange" /\ q.st # "saveAddress"
    BY <1>1, <1>4 DEF ChangeRequests, ResendEmailChange
  <2>2. Opens(r, "change", q) /\ UNCHANGED <<link, user, signup, joined, mingled>>
    BY <1>4 DEF ResendEmailChange
  <2> HIDE DEF q
  <2> QED BY <1>2, <2>1, <2>2
<1>5. CASE CancelEmailChange(r)
  <2> DEFINE q == [st |-> "saveCancel", seen |-> ReadOfUser]
  <2>1. q \in ChangeRequests /\ q.st # "sendChange" /\ q.st # "saveAddress"
    BY <1>1 DEF ChangeRequests
  <2>2. Opens(r, "change", q) /\ UNCHANGED <<link, user, signup, joined, mingled>>
    BY <1>5 DEF CancelEmailChange
  <2> HIDE DEF q
  <2> QED BY <1>2, <2>1, <2>2
<1>6. CASE OpenChange(r)
  <2> DEFINE q == [st |-> "saveAddress", seen |-> ReadOfUser]
  <2>1. user.hash \in LinkIds /\ user.pending \in Addresses
    BY <1>1, <1>6 DEF OpenChange, Valid
  <2>2. ReadOfUser \in [pending : Addresses, hash : LinkIds]
    BY <2>1 DEF ReadOfUser
  <2>3. q \in ChangeRequests /\ q.st # "sendChange" /\ q.seen.hash \in IssuedLinks
    <3>1. user.hash \in IssuedLinks
      BY <1>6, <2>1, SentIsIssued, LinkFacts DEF OpenChange, Valid
    <3> QED BY <2>2, <3>1 DEF ChangeRequests, ReadOfUser
  <2>4. Opens(r, "change", q) /\ UNCHANGED <<link, user, signup, joined, mingled>>
    BY <1>6 DEF OpenChange
  <2> HIDE DEF q
  <2> QED BY <1>2, <2>3, <2>4
<1> QED BY <1>3, <1>4, <1>5, <1>6

(* A request that has not mingled saw the account as it is, and nobody     *)
(* else is sending.                                                        *)
LEMMA NotMingled ==
  ASSUME LinksInv, "change" \in flow, NEW r \in LinkRequests, NEW seen, Mingles(r, seen), ~mingled'
  PROVE  /\ ~mingled /\ ReadOfUser = seen /\ user.pending = seen.pending /\ user.hash = seen.hash
         /\ \A o \in LinkRequests : o # r => lreq[o].st # "sendChange"
         /\ lreq[r].st # "sendChange" /\ user.pending # Nowhere => Works(user.pending, user.hash)
         /\ \A n \in LinkIds : link[n].uses <= 1
<1>1. ~mingled /\ ReadOfUser = seen /\ ~Sending(r)
  BY DEF Mingles
<1>2. user.pending = seen.pending /\ user.hash = seen.hash
  BY <1>1 DEF ReadOfUser
<1>3. \A o \in LinkRequests : o # r => lreq[o].st # "sendChange"
  BY <1>1 DEF Sending
<1> QED BY <1>1, <1>2, <1>3, ChangeOf DEF ChangeStored

LEMMA SaveChangeInv ==
  ASSUME LinksInv, NEW r \in LinkRequests, SaveChange(r)
  PROVE  LinksInv'
<1>1. PICK n : n = NextLink
  OBVIOUS
<1>2. PICK p : p = lreq[r]
  OBVIOUS
<1>3. /\ p.st = "saveChange" /\ Issues(n) /\ user' = Saved(p.seen, [pending |-> p.to, hash |-> n])
      /\ Then(r, [st |-> "sendChange", to |-> p.to, link |-> n, seen |-> p.seen])
      /\ Mingles(r, p.seen) /\ UNCHANGED <<signup, joined>>
  BY <1>1, <1>2 DEF SaveChange, At
<1>4. p \in ChangeRequests /\ "change" \in flow
  BY <1>2, <1>3, LinkFacts, KindOfRequest
<1>5. p.to \in Addresses /\ p.seen \in UserReads
  BY <1>3, <1>4, ChangeShapes
<1>6. /\ LinksIssued' /\ n \in LinkIds /\ link[n] = Unissued /\ IssuedLinks' = IssuedLinks \cup {n}
      /\ link'[n].sentTo = Nowhere /\ link'[n].uses = 0
      /\ \A m \in LinkIds : m # n => link'[m] = link[m]
  BY <1>1, <1>3, LinkFacts, LinkIssued
<1>7. [pending |-> p.to, hash |-> n] \in UserReads
  BY <1>5, <1>6, NamesApart DEF UserReads, LinkIds
<1> DEFINE q == [st |-> "sendChange", to |-> p.to, link |-> n, seen |-> p.seen]
<1>8. q \in ChangeRequests
  BY <1>5, <1>6 DEF ChangeRequests
<1>9. q.st = "sendChange" /\ q.to = p.to /\ q.link = n /\ q.seen = p.seen
  OBVIOUS
<1>10. Then(r, q)
  BY <1>3
<1> HIDE DEF q
<1>11. /\ lreq'[r] = q /\ \A o \in LinkRequests : o # r => lreq'[o] = lreq[o]
  BY <1>10 DEF Then, LinksInv, LinksTyped
<1>12. user' \in UserDocs /\ mingled' \in BOOLEAN
  BY <1>3, <1>5, <1>7, SavedTyped, LinkFacts DEF Mingles
<1>13. ASSUME ~mingled'
       PROVE  ChangeSending' /\ ChangeOpened' /\ ChangeStored' /\ \A m \in LinkIds : link'[m].uses <= 1
  <2>1. /\ ReadOfUser = p.seen /\ user.pending = p.seen.pending /\ user.hash = p.seen.hash
        /\ \A o \in LinkRequests : o # r => lreq[o].st # "sendChange"
        /\ user.pending # Nowhere => Works(user.pending, user.hash)
        /\ \A m \in LinkIds : link[m].uses <= 1
    BY <1>2, <1>3, <1>4, <1>13, NotMingled
  <2>2. user'.pending = p.to /\ user'.hash = n
    <3>1. /\ Saved(p.seen, [pending |-> p.to, hash |-> n]).pending = [pending |-> p.to, hash |-> n].pending
          /\ Saved(p.seen, [pending |-> p.to, hash |-> n]).hash = [pending |-> p.to, hash |-> n].hash
      BY <1>5, <1>7, <2>1, SavedTyped
    <3> QED BY <1>3, <3>1
  <2>3. p.seen.pending # Nowhere =>
          /\ p.seen.hash # 0 /\ link'[p.seen.hash].sentTo = p.seen.pending
          /\ link'[p.seen.hash].uses = 0
    <3> SUFFICES ASSUME p.seen.pending # Nowhere
        PROVE  /\ p.seen.hash # 0 /\ link'[p.seen.hash].sentTo = p.seen.pending
               /\ link'[p.seen.hash].uses = 0
      OBVIOUS
    <3>1. p.seen.hash # 0 /\ link[p.seen.hash].sentTo = p.seen.pending /\ link[p.seen.hash].uses = 0
      BY <2>1 DEF Works
    <3>2. p.seen.hash \in LinkIds
      BY <1>5, <3>1, LinkFacts DEF UserReads
    <3>3. p.seen.hash # n
      BY <1>6, <3>1 DEF Unissued
    <3> QED BY <1>6, <3>1, <3>2, <3>3
  <2>4. \A x \in LinkRequests : lreq'[x].st = "sendChange" => x = r
    BY <1>11, <2>1
  <2>5. ChangeSending'
    BY <1>6, <1>9, <1>11, <2>2, <2>3, <2>4 DEF ChangeSending, Works
  <2>6. ChangeStored'
    BY <1>9, <1>11 DEF ChangeStored
  <2>7. \A m \in LinkIds : link'[m].uses <= 1
    <3>1. (0 <= 1) = TRUE
      OBVIOUS
    <3> QED BY <1>6, <2>1, <3>1
  <2>8. ChangeOpened'
    <3>1. \A x \in LinkRequests : lreq'[x].st = "saveAddress" => lreq'[x] = lreq[x]
      BY <1>9, <1>11
    <3>2. ChangeOpened
      BY <1>3, <1>4, <1>13, ChangeOf DEF Mingles
    <3> QED BY <1>6, <3>1, <3>2 DEF ChangeOpened
  <2> QED BY <2>5, <2>6, <2>7, <2>8
<1> QED BY <1>3, <1>4, <1>6, <1>8, <1>10, <1>12, <1>13, ChangeBelongs, ChangeStep

LEMMA SendChangeInv ==
  ASSUME LinksInv, NEW r \in LinkRequests, SendChange(r), ~mingled
  PROVE  LinksInv'
<1>1. PICK p : p = lreq[r]
  OBVIOUS
<1>2. /\ p.st = "sendChange" /\ Delivers(p.link, p.to) /\ Then(r, Waiting)
      /\ UNCHANGED <<user, signup, joined, mingled>>
  BY <1>1 DEF SendChange, At
<1>3. p \in ChangeRequests /\ "change" \in flow
  BY <1>1, <1>2, LinkFacts, KindOfRequest
<1>4. p.to \in Addresses /\ p.link \in LinkIds
  BY <1>2, <1>3, ChangeShapes
<1>5. /\ user.pending = p.to /\ user.hash = p.link /\ link[p.link].uses = 0
      /\ \A o \in LinkRequests : lreq[o].st = "sendChange" => o = r
      /\ \A n \in LinkIds : link[n].uses <= 1
  BY <1>1, <1>2, <1>3, ChangeOf DEF ChangeSending
<1>6. p.link \in IssuedLinks
  BY <1>1, <1>2, <1>3, ChangeOf DEF ChangeSending
<1>7. /\ LinksIssued' /\ IssuedLinks' = IssuedLinks
      /\ link'[p.link].sentTo = p.to
      /\ link'[p.link].uses = link[p.link].uses
      /\ \A m \in LinkIds : m # p.link => link'[m] = link[m]
  BY <1>2, <1>4, <1>6, LinkFacts, LinkDelivered
<1>8. /\ lreq'[r] = Waiting /\ \A o \in LinkRequests : o # r => lreq'[o] = lreq[o]
  BY <1>2 DEF Then, LinksInv, LinksTyped
<1>9. \A o \in LinkRequests : lreq'[o].st # "sendChange"
  BY <1>5, <1>8, WaitingTyped
<1>10. ChangeSending' /\ ChangeStored'
  BY <1>2, <1>4, <1>5, <1>7, <1>9, LinkFacts DEF ChangeSending, ChangeStored, Works
<1>12. ChangeOpened'
  <2>1. \A x \in LinkRequests : lreq'[x].st = "saveAddress" => lreq'[x] = lreq[x]
    BY <1>8, WaitingTyped
  <2> QED BY <1>3, <1>7, <2>1, ChangeOf DEF ChangeOpened
<1>11. \A n \in LinkIds : link'[n].uses <= 1
  BY <1>5, <1>7
<1> QED BY <1>2, <1>3, <1>7, <1>10, <1>11, <1>12, ChangeStep, WaitingTyped, LinkFacts

(* Nobody is sending after these: what is stored is what was there before, *)
(* or nothing.                                                             *)
LEMMA ChangeSettles ==
  ASSUME LinksInv, NEW r \in LinkRequests, "change" \in flow, Then(r, Waiting), LinksIssued',
         UNCHANGED <<signup, joined>>, IssuedLinks' = IssuedLinks,
         NEW seen \in UserReads, Mingles(r, seen), user' \in UserDocs,
         ~mingled' => (user'.pending # Nowhere => Works(user.pending, user.hash)'),
         ~mingled' => \A n \in LinkIds : link'[n].uses <= 1
  PROVE  LinksInv'
<1>1. /\ lreq'[r] = Waiting /\ \A o \in LinkRequests : o # r => lreq'[o] = lreq[o]
  BY DEF Then, LinksInv, LinksTyped
<1>2. ASSUME ~mingled'
      PROVE  ChangeSending' /\ ChangeOpened' /\ ChangeStored' /\ \A n \in LinkIds : link'[n].uses <= 1
  <2>1. \A o \in LinkRequests : o # r => lreq[o].st # "sendChange"
    BY <1>2, NotMingled
  <2>2. \A o \in LinkRequests : lreq'[o].st # "sendChange"
    BY <1>1, <2>1, WaitingTyped
  <2>3. ChangeSending' /\ ChangeStored'
    BY <1>2, <2>2 DEF ChangeSending, ChangeStored, Works
  <2>4. ChangeOpened'
    <3>1. \A x \in LinkRequests : lreq'[x].st = "saveAddress" => lreq'[x] = lreq[x]
      BY <1>1, WaitingTyped
    <3>2. ChangeOpened
      BY <1>2, ChangeOf DEF Mingles
    <3> QED BY <3>1, <3>2 DEF ChangeOpened
  <2> QED BY <1>2, <2>3, <2>4
<1>3. mingled' \in BOOLEAN
  BY LinkFacts DEF Mingles
<1> QED BY <1>2, <1>3, ChangeStep, WaitingTyped

LEMMA RestoreChangeInv ==
  ASSUME LinksInv, NEW r \in LinkRequests, RestoreChange(r)
  PROVE  LinksInv'
<1>1. PICK p : p = lreq[r]
  OBVIOUS
<1> DEFINE now == [pending |-> p.to, hash |-> p.link]
<1>2. /\ p.st = "sendChange" /\ user' = Saved(now, p.seen) /\ Then(r, Waiting) /\ Mingles(r, now)
      /\ UNCHANGED <<link, signup, joined>>
  BY <1>1 DEF RestoreChange, At
<1>3. p \in ChangeRequests /\ "change" \in flow
  BY <1>1, <1>2, LinkFacts, KindOfRequest
<1>4. p.to \in Addresses /\ p.link \in LinkIds /\ p.seen \in UserReads
  BY <1>2, <1>3, ChangeShapes
<1>5. now \in UserReads
  BY <1>4 DEF UserReads, LinkIds
<1> HIDE DEF now
<1>6. /\ user' \in UserDocs
      /\ ReadOfUser = now => user'.pending = p.seen.pending /\ user'.hash = p.seen.hash
  BY <1>2, <1>4, <1>5, SavedTyped
<1>7. ASSUME ~mingled', user'.pending # Nowhere PROVE Works(user.pending, user.hash)'
  <2>1. ReadOfUser = now /\ ~mingled
    BY <1>2, <1>7 DEF Mingles
  <2>2. user'.pending = p.seen.pending /\ user'.hash = p.seen.hash
    BY <1>6, <2>1
  <2>3. p.seen.hash # 0 /\ link[p.seen.hash].sentTo = p.seen.pending /\ link[p.seen.hash].uses = 0
    BY <1>1, <1>2, <1>3, <1>7, <2>1, <2>2, ChangeOf DEF ChangeSending, Works
  <2> QED BY <1>2, <2>2, <2>3 DEF Works
<1>8. ~mingled' => \A n \in LinkIds : link'[n].uses <= 1
  BY <1>2, <1>3, <1>5, NotMingled
<1>9. LinksIssued' /\ IssuedLinks' = IssuedLinks
  BY <1>2, LinkFacts, LinksSame
<1> QED BY <1>2, <1>3, <1>5, <1>6, <1>7, <1>8, <1>9, ChangeSettles

LEMMA NothingPending ==
  [pending |-> Nowhere, hash |-> 0] \in UserReads
<1>1. 0 \in 0..MaxLinks
  BY NamesApart
<1> QED BY <1>1 DEF UserReads

LEMMA SaveCancelInv ==
  ASSUME LinksInv, NEW r \in LinkRequests, SaveCancel(r)
  PROVE  LinksInv'
<1>1. PICK p : p = lreq[r]
  OBVIOUS
<1>2. /\ p.st = "saveCancel" /\ user' = Saved(p.seen, [pending |-> Nowhere, hash |-> 0])
      /\ Then(r, Waiting) /\ Mingles(r, p.seen) /\ UNCHANGED <<link, signup, joined>>
  BY <1>1 DEF SaveCancel, At
<1>3. p \in ChangeRequests /\ "change" \in flow
  BY <1>1, <1>2, LinkFacts, KindOfRequest
<1>4. p.seen \in UserReads
  BY <1>2, <1>3, ChangeShapes
<1>5. user' \in UserDocs /\ (ReadOfUser = p.seen => user'.pending = Nowhere)
  <2>1. [pending |-> Nowhere, hash |-> 0].pending = Nowhere
    OBVIOUS
  <2> QED BY <1>2, <1>4, <2>1, SavedTyped, NothingPending
<1>6. ~mingled' => user'.pending = Nowhere /\ \A n \in LinkIds : link'[n].uses <= 1
  BY <1>2, <1>3, <1>4, <1>5, NotMingled
<1>7. LinksIssued' /\ IssuedLinks' = IssuedLinks
  BY <1>2, LinkFacts, LinksSame
<1> QED BY <1>2, <1>3, <1>4, <1>5, <1>6, <1>7, ChangeSettles

(* The address that is confirmed is the one the link was sent to.          *)
LEMMA VerifyEmailChangeInv ==
  ASSUME LinksInv, NEW r \in LinkRequests, VerifyEmailChange(r), ~mingled
  PROVE  /\ LinksInv'
         /\ ~mingled' => \E n \in LinkIds : link'[n].uses > link[n].uses /\ link[n].sentTo = user'.email
<1>1. PICK p : p = lreq[r]
  OBVIOUS
<1> DEFINE want == [pending |-> Nowhere, hash |-> 0]
<1>2. /\ p.st = "saveAddress" /\ user' = [Saved(p.seen, want) EXCEPT !.email = p.seen.pending]
      /\ Uses(p.seen.hash) /\ Then(r, Waiting) /\ Mingles(r, p.seen) /\ UNCHANGED <<signup, joined>>
  BY <1>1 DEF VerifyEmailChange, At
<1>3. p \in ChangeRequests /\ "change" \in flow
  BY <1>1, <1>2, LinkFacts, KindOfRequest
<1>4. p.seen \in UserReads /\ p.seen.pending \in Addresses /\ p.seen.hash \in LinkIds
  BY <1>2, <1>3, ChangeShapes
<1>5. PICK n \in LinkIds : n = p.seen.hash
  BY <1>4
<1>6. n \in IssuedLinks /\ \A m \in LinkIds : link[m].uses <= 1
  BY <1>1, <1>2, <1>3, <1>5, ChangeOf DEF ChangeOpened
<1>7. /\ LinksIssued' /\ IssuedLinks' = IssuedLinks /\ link'[n].uses = link[n].uses + 1
      /\ \A m \in LinkIds : m # n => link'[m] = link[m]
  BY <1>2, <1>5, <1>6, LinkFacts, LinkUsed
<1>8. PICK s \in UserDocs : /\ s = Saved(p.seen, want)
                            /\ ReadOfUser = p.seen => s.pending = Nowhere
  <2>1. want.pending = Nowhere
    OBVIOUS
  <2>2. want \in UserReads
    BY NothingPending
  <2> HIDE DEF want
  <2> QED BY <1>4, <2>1, <2>2, SavedTyped
<1> HIDE DEF want
<1>9. user' = [s EXCEPT !.email = p.seen.pending]
  BY <1>2, <1>8
<1>10. user' \in UserDocs /\ user'.email = p.seen.pending /\ user'.pending = s.pending
  BY <1>4, <1>9 DEF UserDocs
<1>11. ASSUME ~mingled'
       PROVE  /\ user'.pending = Nowhere /\ link[n].sentTo = user'.email
              /\ link[n].uses = 0 /\ link'[n].uses > link[n].uses
              /\ \A m \in LinkIds : link'[m].uses <= 1
  <2>1. /\ ReadOfUser = p.seen /\ user.pending = p.seen.pending /\ user.hash = n
        /\ user.pending # Nowhere => Works(user.pending, user.hash)
    BY <1>1, <1>2, <1>3, <1>5, <1>11, NotMingled
  <2>2. link[n].sentTo = p.seen.pending /\ link[n].uses = 0
    BY <1>4, <2>1, NamesApart DEF Works
  <2>3. link'[n].uses = 1 /\ (1 > 0) = TRUE /\ (1 <= 1) = TRUE
    BY <1>7, <2>2
  <2> QED BY <1>6, <1>7, <1>8, <1>10, <2>1, <2>2, <2>3
<1>12. ~mingled' => \A m \in LinkIds : link'[m].uses <= 1
  BY <1>11
<1>13. ~mingled' => (user'.pending # Nowhere => Works(user.pending, user.hash)')
  BY <1>11
<1>14. LinksInv'
  BY <1>2, <1>3, <1>4, <1>7, <1>10, <1>12, <1>13, ChangeSettles
<1> QED BY <1>11, <1>14

-----------------------------------------------------------------------------
(* Links to finish a sign-up.                                              *)
LEMMA SignupOf ==
  ASSUME LinksInv, "signup" \in flow
  PROVE  /\ SignupKnown /\ SignupOnce /\ SignupStored
         /\ "reset" \notin flow /\ "change" \notin flow
BY OneKind DEF LinksInv, SignupInv

LEMMA SignupBelongs ==
  ASSUME LinksInv, "signup" \in flow, NEW q \in SignupRequests
  PROVE  Belongs(q)
<1>1. q \notin ResetRequests
  BY ResetShapes, SignupShapes
<1>2. q \notin ChangeRequests
  BY ChangeShapes, SignupShapes
<1> QED BY <1>1, <1>2 DEF Belongs, LinkRequestDocs

LEMMA NoSignupTyped ==
  NoSignup \in SignupDocs /\ NoSignup.st = "none" /\ NoSignup.hash = 0
<1>1. 0 \in 0..MaxLinks
  BY NamesApart
<1> QED BY <1>1 DEF NoSignup, SignupDocs

Sends2 == {"sendSignup", "sendAgain", "makeAccount"}

LEMMA SignupStep ==
  ASSUME LinksInv, NEW r \in LinkRequests, NEW q, Then(r, q), Belongs(q), "signup" \in flow,
         LinksIssued', IssuedLinks \subseteq IssuedLinks', \A n \in LinkIds : link'[n].uses <= 1,
         UNCHANGED user, signup' \in SignupDocs, signup'.st = "none" => signup' = NoSignup,
         joined' \in AccountDocs, mingled' \in BOOLEAN,
         q.st \in Sends2 => q.link \in IssuedLinks', SignupOnce', SignupStored'
  PROVE  LinksInv'
<1>1. "reset" \notin flow /\ "change" \notin flow
  BY SignupOf
<1>2. /\ LinksTyped' /\ flow' = flow
      /\ lreq'[r] = q /\ \A o \in LinkRequests : o # r => lreq'[o] = lreq[o]
  BY <1>1, LinkFacts, TypedStep
<1>3. SignupKnown'
  BY <1>2, SignupOf DEF SignupKnown, Sends2
<1> QED BY <1>1, <1>2, <1>3 DEF LinksInv, ResetInv, ChangeInv, SignupInv

(* Steps that only read.                                                   *)
LEMMA SignupRead ==
  ASSUME LinksInv, NEW r \in LinkRequests, lreq[r] = Waiting, NEW q \in SignupRequests, Then(r, q),
         "signup" \in flow, UNCHANGED <<link, user, signup, joined, mingled>>,
         q.st \notin {"sendSignup", "sendAgain"}, q.st = "makeAccount" => q.link \in IssuedLinks
  PROVE  LinksInv'
<1>1. /\ lreq'[r] = q /\ \A o \in LinkRequests : o # r => lreq'[o] = lreq[o]
  BY DEF Then, LinksInv, LinksTyped
<1>2. /\ LinksIssued' /\ IssuedLinks' = IssuedLinks /\ \A n \in LinkIds : link'[n].uses <= 1
      /\ signup' \in SignupDocs /\ (signup'.st = "none" => signup' = NoSignup)
      /\ joined' \in AccountDocs /\ mingled' \in BOOLEAN
  BY LinksSame, LinkFacts, SignupOf
<1>3. SignupOnce'
  BY SignupOf DEF SignupOnce
<1>4. SignupStored'
  BY <1>1, SignupOf, WaitingTyped DEF SignupStored
<1> QED BY <1>2, <1>3, <1>4, SignupBelongs, SignupStep DEF Sends2

LEMMA SignupAsked ==
  ASSUME LinksInv, NEW r \in LinkRequests, Register(r) \/ ResendRegistration(r) \/ OpenSignup(r)
  PROVE  LinksInv'
<1>1. CASE Register(r)
  <2>1. [st |-> "saveSignup"] \in SignupRequests
    BY DEF SignupRequests
  <2>2. /\ Then(r, [st |-> "saveSignup"]) /\ "signup" \in flow /\ lreq[r] = Waiting
        /\ UNCHANGED <<link, user, signup, joined, mingled>>
    BY <1>1 DEF Register, Opens
  <2> QED BY <2>1, <2>2, SignupRead
<1>2. CASE ResendRegistration(r)
  <2> DEFINE q == [st |-> "saveAgain", seen |-> signup]
  <2>1. q \in SignupRequests /\ q.st = "saveAgain"
    BY LinkFacts DEF SignupRequests
  <2>2. /\ Then(r, q) /\ "signup" \in flow /\ lreq[r] = Waiting
        /\ UNCHANGED <<link, user, signup, joined, mingled>>
    BY <1>2 DEF ResendRegistration, Opens
  <2> HIDE DEF q
  <2> QED BY <2>1, <2>2, SignupRead
<1>3. CASE OpenSignup(r)
  <2> DEFINE q == [st |-> "makeAccount", link |-> signup.hash, by |-> signup.by]
  <2>1. signup.hash \in LinkIds /\ link[signup.hash].sentTo # Nowhere
    BY <1>3 DEF OpenSignup, Valid
  <2>2. signup.hash \in IssuedLinks
    BY <2>1, LinkFacts, SentIsIssued
  <2>3. signup.by \in LinkRequests \cup {Nowhere}
    BY LinkFacts DEF SignupDocs
  <2>4. q \in SignupRequests /\ q.st = "makeAccount" /\ q.link \in IssuedLinks
    BY <2>1, <2>2, <2>3 DEF SignupRequests
  <2>5. /\ Then(r, q) /\ "signup" \in flow /\ lreq[r] = Waiting
        /\ UNCHANGED <<link, user, signup, joined, mingled>>
    BY <1>3 DEF OpenSignup, Opens
  <2> HIDE DEF q
  <2> QED BY <2>4, <2>5, SignupRead
<1> QED BY <1>1, <1>2, <1>3

LEMMA SaveSignupInv ==
  ASSUME LinksInv, NEW r \in LinkRequests, SaveSignup(r)
  PROVE  LinksInv'
<1>1. PICK n : n = NextLink
  OBVIOUS
<1>2. /\ lreq[r].st = "saveSignup" /\ Issues(n)
      /\ signup' = [st |-> "waiting", by |-> r, hash |-> n, sent |-> n]
      /\ Then(r, [st |-> "sendSignup", link |-> n]) /\ UNCHANGED <<user, joined, mingled>>
  BY <1>1 DEF SaveSignup, At
<1>3. "signup" \in flow
  BY <1>2, LinkFacts, KindOfRequest
<1>4. /\ LinksIssued' /\ n \in LinkIds /\ link[n] = Unissued
      /\ link'[n].sentTo = Nowhere /\ link'[n].uses = 0
      /\ \A m \in LinkIds : m # n => link'[m] = link[m]
      /\ IssuedLinks' = IssuedLinks \cup {n}
  BY <1>1, <1>2, LinkFacts, LinkIssued
<1>5. [st |-> "sendSignup", link |-> n] \in SignupRequests
  BY <1>4 DEF SignupRequests
<1>6. /\ lreq'[r] = [st |-> "sendSignup", link |-> n]
      /\ \A o \in LinkRequests : o # r => lreq'[o] = lreq[o]
  BY <1>2 DEF Then, LinksInv, LinksTyped
<1>7. /\ signup' \in SignupDocs /\ signup'.st = "waiting" /\ signup'.by # Nowhere
      /\ signup'.hash = n /\ n # 0
  BY <1>2, <1>4, NamesApart, LinkFacts DEF SignupDocs, LinkIds
<1>8. SignupOnce'
  <2>1. \A m \in LinkIds : link'[m].uses = 1 => link[m].uses = 1
    BY <1>4
  <2> QED BY <1>2, <1>3, <1>7, <2>1, SignupOf DEF SignupOnce
<1>9. SignupStored'
  <2> SUFFICES ASSUME ~mingled
      PROVE  /\ \E x \in LinkRequests : /\ lreq'[x].st \in {"sendSignup", "sendAgain"}
                                        /\ lreq'[x].link = n
             /\ \A x \in LinkRequests : lreq'[x].st = "sendAgain" =>
                  lreq'[x].before # 0 /\ link'[lreq'[x].before].sentTo = Own
    BY <1>2, <1>7 DEF SignupStored
  <2>1. /\ lreq'[r].st \in {"sendSignup", "sendAgain"} /\ lreq'[r].link = n
    BY <1>6
  <2>2. ASSUME NEW x \in LinkRequests, lreq'[x].st = "sendAgain"
        PROVE  lreq'[x].before # 0 /\ link'[lreq'[x].before].sentTo = Own
    <3>1. x # r /\ lreq'[x] = lreq[x]
      BY <1>6, <2>2
    <3>2. lreq[x].before # 0 /\ link[lreq[x].before].sentTo = Own
      BY <1>3, <2>2, <3>1, SignupOf DEF SignupStored
    <3>3. lreq[x].before \in LinkIds
      <4>1. lreq[x] \in SignupRequests /\ lreq[x].st = "sendAgain"
        BY <2>2, <3>1, LinkFacts, KindOfRequest
      <4>2. lreq[x].before \in 0..MaxLinks
        BY <4>1, SignupShapes
      <4> QED BY <3>2, <4>2, LinkFacts
    <3>4. lreq[x].before # n
      BY <1>4, <3>2, NamesApart DEF Unissued
    <3> QED BY <1>4, <3>1, <3>2, <3>3, <3>4
  <2> QED BY <2>1, <2>2
<1>10. \A m \in LinkIds : link'[m].uses <= 1
  <2>1. (0 <= 1) = TRUE
    OBVIOUS
  <2> QED BY <1>3, <1>4, <2>1, LinkFacts, SignupOf
<1>11. joined' \in AccountDocs /\ mingled' \in BOOLEAN /\ n \in IssuedLinks'
  BY <1>2, <1>4, LinkFacts
<1>12. Belongs([st |-> "sendSignup", link |-> n])
  BY <1>3, <1>5, SignupBelongs
<1> QED BY <1>2, <1>3, <1>4, <1>7, <1>8, <1>9, <1>10, <1>11, <1>12, SignupStep

LEMMA SendSignupInv ==
  ASSUME LinksInv, NEW r \in LinkRequests, SendSignup(r)
  PROVE  LinksInv'
<1>1. PICK n : n = lreq[r].link
  OBVIOUS
<1>2. /\ lreq[r].st \in {"sendSignup", "sendAgain"} /\ Delivers(n, Own) /\ Then(r, Waiting)
      /\ UNCHANGED <<user, signup, joined, mingled>>
  BY <1>1 DEF SendSignup
<1>3. "signup" \in flow
  BY <1>2, LinkFacts, KindOfRequest
<1>4. n \in IssuedLinks
  BY <1>1, <1>2, <1>3, SignupOf DEF SignupKnown
<1>5. /\ LinksIssued' /\ IssuedLinks' = IssuedLinks
      /\ link'[n].sentTo = Own /\ link'[n].uses = link[n].uses
      /\ \A m \in LinkIds : m # n => link'[m] = link[m]
  BY <1>2, <1>4, LinkFacts, LinkDelivered
<1>6. /\ lreq'[r] = Waiting /\ \A o \in LinkRequests : o # r => lreq'[o] = lreq[o]
  BY <1>2 DEF Then, LinksInv, LinksTyped
<1>7. \A m \in LinkIds : /\ link'[m].uses = link[m].uses
                         /\ link[m].sentTo = Own => link'[m].sentTo = Own
  BY <1>5
<1>8. SignupOnce'
  BY <1>2, <1>3, <1>7, SignupOf DEF SignupOnce
<1>9. SignupStored'
  <2> SUFFICES ASSUME ~mingled
      PROVE  /\ signup.st = "waiting" =>
                  /\ signup.hash # 0
                  /\ \/ link'[signup.hash].sentTo = Own
                     \/ \E x \in LinkRequests : /\ lreq'[x].st \in {"sendSignup", "sendAgain"}
                                                /\ lreq'[x].link = signup.hash
             /\ \A x \in LinkRequests : lreq'[x].st = "sendAgain" =>
                  lreq'[x].before # 0 /\ link'[lreq'[x].before].sentTo = Own
    BY <1>2 DEF SignupStored
  <2>1. ASSUME signup.st = "waiting"
        PROVE  /\ signup.hash # 0
               /\ \/ link'[signup.hash].sentTo = Own
                  \/ \E x \in LinkRequests : /\ lreq'[x].st \in {"sendSignup", "sendAgain"}
                                             /\ lreq'[x].link = signup.hash
    <3>1. /\ signup.hash # 0
          /\ \/ link[signup.hash].sentTo = Own
             \/ \E x \in LinkRequests : /\ lreq[x].st \in {"sendSignup", "sendAgain"}
                                        /\ lreq[x].link = signup.hash
      BY <1>3, <2>1, SignupOf DEF SignupStored
    <3>2. signup.hash \in LinkIds
      BY <3>1, LinkFacts DEF SignupDocs
    <3>3. CASE signup.hash = n
      BY <1>5, <3>1, <3>3
    <3>4. CASE signup.hash # n
      BY <1>1, <1>6, <1>7, <3>1, <3>2, <3>4
    <3> QED BY <3>3, <3>4
  <2>2. ASSUME NEW x \in LinkRequests, lreq'[x].st = "sendAgain"
        PROVE  lreq'[x].before # 0 /\ link'[lreq'[x].before].sentTo = Own
    <3>1. x # r /\ lreq'[x] = lreq[x]
      BY <1>6, <2>2, WaitingTyped
    <3>2. lreq[x].before # 0 /\ link[lreq[x].before].sentTo = Own
      BY <1>3, <2>2, <3>1, SignupOf DEF SignupStored
    <3>3. lreq[x].before \in LinkIds
      <4>1. lreq[x] \in SignupRequests /\ lreq[x].st = "sendAgain"
        BY <2>2, <3>1, LinkFacts, KindOfRequest
      <4>2. lreq[x].before \in 0..MaxLinks
        BY <4>1, SignupShapes
      <4> QED BY <3>2, <4>2, LinkFacts
    <3> QED BY <1>7, <3>1, <3>2, <3>3
  <2> QED BY <2>1, <2>2
<1>10. \A m \in LinkIds : link'[m].uses <= 1
  BY <1>3, <1>7, LinkFacts, SignupOf
<1>11. /\ joined' \in AccountDocs /\ mingled' \in BOOLEAN /\ signup' \in SignupDocs
       /\ (signup'.st = "none" => signup' = NoSignup)
  BY <1>2, LinkFacts
<1> QED BY <1>2, <1>3, <1>5, <1>8, <1>9, <1>10, <1>11, SignupStep, WaitingTyped DEF Sends2

(* While the email of a new link is sent the earlier one is remembered.    *)
LEMMA SignupBefore ==
  ASSUME LinksInv, "signup" \in flow, ~mingled, NEW x \in LinkRequests, lreq[x].st = "sendAgain"
  PROVE  lreq[x].before \in LinkIds /\ lreq[x].before # 0 /\ link[lreq[x].before].sentTo = Own
<1>1. lreq[x].before # 0 /\ link[lreq[x].before].sentTo = Own
  BY SignupOf DEF SignupStored
<1>2. lreq[x] \in SignupRequests /\ lreq[x].st = "sendAgain"
  BY LinkFacts, KindOfRequest
<1>3. lreq[x].before \in 0..MaxLinks
  BY <1>2, SignupShapes
<1> QED BY <1>1, <1>3, LinkFacts

SignupReached ==
  signup.st = "waiting" =>
    /\ signup.hash # 0
    /\ \/ link[signup.hash].sentTo = Own
       \/ \E r \in LinkRequests : /\ lreq[r].st \in {"sendSignup", "sendAgain"}
                                  /\ lreq[r].link = signup.hash

(* The same after a step that starts nothing.                              *)
LEMMA SignupHeld ==
  ASSUME LinksInv, "signup" \in flow, NEW r \in LinkRequests, NEW q, Then(r, q),
         q.st = "sendAgain" => (~mingled' =>
           q.before \in LinkIds /\ link[q.before].sentTo = Own),
         mingled => mingled', \A n \in LinkIds : link[n].sentTo = Own => link'[n].sentTo = Own,
         ~mingled' => SignupReached'
  PROVE  SignupStored'
<1> SUFFICES ASSUME ~mingled' PROVE SignupStored'
  BY DEF SignupStored
<1>1. lreq'[r] = q /\ \A o \in LinkRequests : o # r => lreq'[o] = lreq[o]
  BY DEF Then, LinksInv, LinksTyped
<1>2. ASSUME NEW x \in LinkRequests, lreq'[x].st = "sendAgain"
      PROVE  lreq'[x].before # 0 /\ link'[lreq'[x].before].sentTo = Own
  <2>1. CASE x = r
    BY <1>1, <1>2, <2>1, LinkFacts
  <2>2. CASE x # r
    BY <1>1, <1>2, <2>2, SignupBefore
  <2> QED BY <2>1, <2>2
<1> QED BY <1>2 DEF SignupStored, SignupReached

LEMMA SignupReachedNow ==
  ASSUME LinksInv, "signup" \in flow, ~mingled
  PROVE  SignupReached
BY SignupOf DEF SignupStored, SignupReached

LEMMA DropSignupInv ==
  ASSUME LinksInv, NEW r \in LinkRequests, DropSignup(r)
  PROVE  LinksInv'
<1>1. PICK n : n = lreq[r].link
  OBVIOUS
<1>2. /\ lreq[r].st = "sendSignup" /\ Then(r, Waiting)
      /\ signup' = IF signup.hash = n THEN NoSignup ELSE signup
      /\ UNCHANGED <<link, user, joined, mingled>>
  BY <1>1 DEF DropSignup, At
<1>3. "signup" \in flow
  BY <1>2, LinkFacts, KindOfRequest
<1>4. /\ signup' \in SignupDocs /\ (signup'.st = "none" => signup' = NoSignup)
  BY <1>2, LinkFacts, NoSignupTyped
<1>5. SignupOnce'
  BY <1>2, <1>3, SignupOf, NoSignupTyped DEF SignupOnce
<1>6. lreq'[r] = Waiting /\ \A o \in LinkRequests : o # r => lreq'[o] = lreq[o]
  BY <1>2 DEF Then, LinksInv, LinksTyped
<1>7. ~mingled' => SignupReached'
  <2> SUFFICES ASSUME ~mingled, signup'.st = "waiting"
      PROVE  SignupReached'
    BY <1>2 DEF SignupReached
  <2>1. signup.hash # n /\ signup' = signup
    BY <1>2, NoSignupTyped
  <2>2. /\ signup.hash # 0
        /\ \/ link[signup.hash].sentTo = Own
           \/ \E x \in LinkRequests : /\ lreq[x].st \in {"sendSignup", "sendAgain"}
                                      /\ lreq[x].link = signup.hash
    BY <1>3, <2>1, SignupReachedNow DEF SignupReached
  <2>3. CASE link[signup.hash].sentTo = Own
    BY <1>2, <2>1, <2>2, <2>3 DEF SignupReached
  <2>4. CASE \E x \in LinkRequests : /\ lreq[x].st \in {"sendSignup", "sendAgain"}
                                     /\ lreq[x].link = signup.hash
    <3>1. PICK x \in LinkRequests : /\ lreq[x].st \in {"sendSignup", "sendAgain"}
                                    /\ lreq[x].link = signup.hash
      BY <2>4
    <3>2. lreq'[x] = lreq[x]
      BY <1>1, <1>6, <2>1, <3>1
    <3> QED BY <1>2, <2>1, <2>2, <3>1, <3>2 DEF SignupReached
  <2> QED BY <2>2, <2>3, <2>4
<1>8. SignupStored'
  <2>1. Waiting.st # "sendAgain"
    BY WaitingTyped
  <2> QED BY <1>2, <1>3, <1>7, <2>1, SignupHeld
<1>9. /\ LinksIssued' /\ IssuedLinks' = IssuedLinks /\ \A m \in LinkIds : link'[m].uses <= 1
      /\ joined' \in AccountDocs /\ mingled' \in BOOLEAN
  BY <1>2, <1>3, LinksSame, LinkFacts, SignupOf
<1> QED BY <1>2, <1>3, <1>4, <1>5, <1>8, <1>9, SignupStep, WaitingTyped DEF Sends2

LEMMA SaveAgainInv ==
  ASSUME LinksInv, NEW r \in LinkRequests, SaveAgain(r)
  PROVE  LinksInv'
<1>1. PICK n : n = NextLink
  OBVIOUS
<1>2. PICK p : p = lreq[r]
  OBVIOUS
<1>3. /\ p.st = "saveAgain" /\ signup.st = "waiting" /\ Issues(n)
      /\ signup' = [signup EXCEPT !.hash = n, !.sent = n]
      /\ mingled' = (mingled \/ signup # p.seen \/ Sending(r))
      /\ Then(r, [st |-> "sendAgain", link |-> n, before |-> p.seen.hash])
      /\ UNCHANGED <<user, joined>>
  BY <1>1, <1>2 DEF SaveAgain, At
<1>4. "signup" \in flow /\ p \in SignupRequests
  BY <1>2, <1>3, LinkFacts, KindOfRequest
<1>5. p.seen \in SignupDocs
  BY <1>3, <1>4, SignupShapes
<1>6. PICK b \in 0..MaxLinks : b = p.seen.hash
  BY <1>5 DEF SignupDocs
<1>7. /\ LinksIssued' /\ n \in LinkIds /\ link[n] = Unissued
      /\ link'[n].sentTo = Nowhere /\ link'[n].uses = 0
      /\ \A m \in LinkIds : m # n => link'[m] = link[m]
      /\ IssuedLinks' = IssuedLinks \cup {n}
  BY <1>1, <1>3, LinkFacts, LinkIssued
<1> DEFINE q == [st |-> "sendAgain", link |-> n, before |-> b]
<1>8. Then(r, q) /\ q.st = "sendAgain" /\ q.link = n /\ q.before = b
  BY <1>3, <1>6
<1>9. q \in SignupRequests
  BY <1>7 DEF SignupRequests
<1> HIDE DEF q
<1>10. lreq'[r] = q /\ \A o \in LinkRequests : o # r => lreq'[o] = lreq[o]
  BY <1>8 DEF Then, LinksInv, LinksTyped
<1>11. n \in 0..MaxLinks /\ n # 0
  BY <1>7, LinkFacts DEF LinkIds
<1>12. /\ signup' \in SignupDocs /\ signup'.st = "waiting" /\ signup'.by = signup.by
       /\ signup'.hash = n
  BY <1>3, <1>11, LinkFacts DEF SignupDocs
<1>13. SignupOnce'
  <2>1. \A m \in LinkIds : link'[m].uses = 1 => link[m].uses = 1
    BY <1>7
  <2> QED BY <1>3, <1>4, <1>12, <2>1, SignupOf DEF SignupOnce
<1>14. ~mingled' => b \in LinkIds /\ link[b].sentTo = Own
  <2> SUFFICES ASSUME ~mingled, signup = p.seen, ~Sending(r)
      PROVE  b \in LinkIds /\ link[b].sentTo = Own
    BY <1>3
  <2>1. /\ b # 0
        /\ \/ link[b].sentTo = Own
           \/ \E x \in LinkRequests : /\ lreq[x].st \in {"sendSignup", "sendAgain"}
                                      /\ lreq[x].link = b
    BY <1>3, <1>4, <1>6, SignupReachedNow DEF SignupReached
  <2>2. ~\E x \in LinkRequests : lreq[x].st \in {"sendSignup", "sendAgain"}
    BY <1>2, <1>3 DEF Sending
  <2> QED BY <2>1, <2>2, LinkFacts
<1>15. \A m \in LinkIds : link[m].sentTo = Own => link'[m].sentTo = Own
  BY <1>7, NamesApart DEF Unissued
<1>16. SignupReached'
  <2>1. r \in LinkRequests /\ lreq'[r].st \in {"sendSignup", "sendAgain"} /\ lreq'[r].link = n
    BY <1>8, <1>10
  <2> QED BY <1>11, <1>12, <2>1 DEF SignupReached
<1>17. SignupStored'
  <2>1. mingled => mingled'
    BY <1>3
  <2> QED BY <1>4, <1>8, <1>14, <1>15, <1>16, <2>1, SignupHeld
<1>18. \A m \in LinkIds : link'[m].uses <= 1
  <2>1. (0 <= 1) = TRUE
    OBVIOUS
  <2> QED BY <1>4, <1>7, <2>1, LinkFacts, SignupOf
<1>19. joined' \in AccountDocs /\ mingled' \in BOOLEAN /\ n \in IssuedLinks'
  <2>1. mingled' \in BOOLEAN
    BY <1>3, LinkFacts
  <2> QED BY <1>3, <1>7, <2>1, LinkFacts
<1> QED BY <1>3, <1>4, <1>7, <1>8, <1>9, <1>12, <1>13, <1>17, <1>18, <1>19, SignupBelongs, SignupStep

LEMMA PutBackSignupInv ==
  ASSUME LinksInv, NEW r \in LinkRequests, PutBackSignup(r)
  PROVE  LinksInv'
<1>2. PICK p : p = lreq[r]
  OBVIOUS
<1>3. /\ p.st = "sendAgain" /\ mingled' = (mingled \/ signup.hash # p.link) /\ Then(r, Waiting)
      /\ signup' = IF signup.st = "waiting" THEN [signup EXCEPT !.hash = p.before, !.sent = 0]
                   ELSE signup
      /\ UNCHANGED <<link, user, joined>>
  BY <1>2 DEF PutBackSignup, At
<1>4. "signup" \in flow /\ p \in SignupRequests
  BY <1>2, <1>3, LinkFacts, KindOfRequest
<1>5. p.before \in 0..MaxLinks /\ 0 \in 0..MaxLinks
  BY <1>3, <1>4, SignupShapes, NamesApart
<1>6. /\ signup' \in SignupDocs /\ signup'.st = signup.st /\ signup'.by = signup.by
      /\ signup.st = "waiting" => signup'.hash = p.before
      /\ signup'.st = "none" => signup' = NoSignup
  <2>1. CASE signup.st = "waiting"
    BY <1>3, <1>5, <2>1, LinkFacts DEF SignupDocs
  <2>2. CASE signup.st # "waiting"
    BY <1>3, <2>2, LinkFacts
  <2> QED BY <2>1, <2>2
<1>7. SignupOnce'
  BY <1>3, <1>4, <1>6, SignupOf DEF SignupOnce
<1>8. ~mingled' => SignupReached'
  <2> SUFFICES ASSUME ~mingled, signup.st = "waiting"
      PROVE  SignupReached'
    BY <1>3, <1>6 DEF SignupReached
  <2>1. p.before \in LinkIds /\ p.before # 0 /\ link[p.before].sentTo = Own
    BY <1>2, <1>3, <1>4, SignupBefore
  <2> QED BY <1>3, <1>6, <2>1 DEF SignupReached
<1>9. SignupStored'
  <2>1. Waiting.st # "sendAgain" /\ (mingled => mingled')
    BY <1>3, WaitingTyped
  <2> QED BY <1>3, <1>4, <1>8, <2>1, SignupHeld
<1>10. /\ LinksIssued' /\ IssuedLinks' = IssuedLinks /\ \A m \in LinkIds : link'[m].uses <= 1
       /\ joined' \in AccountDocs
  BY <1>3, <1>4, LinksSame, LinkFacts, SignupOf
<1>11. mingled' \in BOOLEAN
  BY <1>3, LinkFacts
<1> QED BY <1>3, <1>4, <1>6, <1>7, <1>9, <1>10, <1>11, SignupStep, WaitingTyped DEF Sends2

(* The link that finishes a sign-up is used once, since an account ends it. *)
LEMMA VerifyRegistrationInv ==
  ASSUME LinksInv, NEW r \in LinkRequests, VerifyRegistration(r)
  PROVE  LinksInv'
<1>1. PICK n : n = lreq[r].link
  OBVIOUS
<1>2. /\ lreq[r].st = "makeAccount" /\ joined.account = Nowhere /\ signup.st = "waiting"
      /\ joined' = [account |-> signup.by, claim |-> signup.by, sessions |-> 0]
      /\ signup' = NoSignup /\ Uses(n) /\ Then(r, Waiting) /\ UNCHANGED <<user, mingled>>
  BY <1>1 DEF VerifyRegistration, At
<1>3. "signup" \in flow
  BY <1>2, LinkFacts, KindOfRequest
<1>4. n \in IssuedLinks /\ n \in LinkIds
  BY <1>1, <1>2, <1>3, LinkFacts, SignupOf DEF SignupKnown
<1>5. \A m \in LinkIds : link[m].uses = 0
  <2>1. \A m \in LinkIds : link[m].uses # 1 /\ link[m].uses <= 1
    BY <1>2, <1>3, LinkFacts, SignupOf DEF SignupOnce
  <2>2. \A m \in LinkIds : link[m].uses \in 0..2
    BY LinkFacts DEF LinkDocs
  <2> QED BY <2>1, <2>2
<1>6. link[n].uses <= 1
  BY <1>4, <1>5
<1>7. /\ LinksIssued' /\ IssuedLinks' = IssuedLinks /\ link'[n].sentTo = link[n].sentTo
      /\ link'[n].uses = 1 /\ \A m \in LinkIds : m # n => link'[m] = link[m]
  BY <1>2, <1>4, <1>5, <1>6, LinkFacts, LinkUsed
<1>8. \A m \in LinkIds : link'[m].uses <= 1
  BY <1>5, <1>7
<1>9. signup.by # Nowhere /\ signup.by \in LinkRequests \cup {Nowhere}
  BY <1>2, <1>3, LinkFacts, SignupOf DEF SignupOnce, SignupDocs
<1>10. /\ joined' \in AccountDocs /\ joined'.account = signup.by /\ joined'.claim = signup.by
       /\ joined'.sessions = 0
  BY <1>2, <1>9 DEF AccountDocs
<1>11. SignupOnce'
  <2>1. signup'.st # "waiting" /\ (0 <= 1) = TRUE
    BY <1>2, NoSignupTyped
  <2> QED BY <1>9, <1>10, <2>1 DEF SignupOnce
<1>12. SignupStored'
  <2>1. Waiting.st # "sendAgain" /\ SignupReached'
    BY <1>2, WaitingTyped, NoSignupTyped DEF SignupReached
  <2>2. \A m \in LinkIds : link[m].sentTo = Own => link'[m].sentTo = Own
    BY <1>7
  <2> QED BY <1>2, <1>3, <2>1, <2>2, SignupHeld
<1>13. /\ signup' \in SignupDocs /\ (signup'.st = "none" => signup' = NoSignup)
       /\ mingled' \in BOOLEAN
  BY <1>2, LinkFacts, NoSignupTyped
<1> QED BY <1>2, <1>3, <1>7, <1>8, <1>10, <1>11, <1>12, <1>13, SignupStep, WaitingTyped DEF Sends2

(* The browser that waits takes its note.                                  *)
LEMMA CheckRegistrationStatusInv ==
  ASSUME LinksInv, NEW s \in LinkRequests, CheckRegistrationStatus(s)
  PROVE  LinksInv'
<1>1. /\ "signup" \in flow /\ joined.claim = s
      /\ joined' = [joined EXCEPT !.claim = Nowhere, !.sessions = @ + 1]
      /\ UNCHANGED <<flow, link, user, signup, lreq, mingled>>
  BY DEF CheckRegistrationStatus
<1>2. s # Nowhere
  BY NamesApart
<1>3. joined.account = s /\ joined.sessions = 0
  BY <1>1, <1>2, SignupOf DEF SignupOnce
<1>4. /\ joined' \in AccountDocs /\ joined'.account = s /\ joined'.claim = Nowhere
      /\ joined'.sessions = 1
  <2>1. joined \in AccountDocs
    BY LinkFacts
  <2>2. joined = [account |-> s, claim |-> s, sessions |-> 0]
    BY <1>1, <1>3, <2>1 DEF AccountDocs
  <2>3. PICK d : d = [joined EXCEPT !.claim = Nowhere]
    OBVIOUS
  <2>4. d = [account |-> s, claim |-> Nowhere, sessions |-> 0]
    BY <2>2, <2>3
  <2>5. joined' = [d EXCEPT !.sessions = 0 + 1]
    BY <1>1, <1>3, <2>3
  <2>6. joined' = [account |-> s, claim |-> Nowhere, sessions |-> 1]
    BY <2>4, <2>5
  <2> QED BY <2>6 DEF AccountDocs
<1>5. SignupOnce'
  <2>1. (1 <= 1) = TRUE
    OBVIOUS
  <2> QED BY <1>1, <1>2, <1>4, <2>1, SignupOf DEF SignupOnce
<1>6. SignupStored' /\ SignupKnown' /\ LinksIssued'
  BY <1>1, SignupOf, LinksSame, LinkFacts DEF SignupStored, SignupKnown
<1>7. LinksTyped'
  <2>1. LinksTypeOK'
    BY <1>1, <1>4 DEF LinksInv, LinksTyped, LinksTypeOK, AccountDocs
  <2>2. (\A r \in LinkRequests : Belongs(lreq[r]))'
    BY <1>1 DEF LinksInv, LinksTyped, Belongs
  <2> QED BY <1>1, <1>4, <1>6, <2>1, <2>2 DEF LinksInv, LinksTyped
<1>8. "reset" \notin flow /\ "change" \notin flow
  BY <1>1, SignupOf
<1> QED BY <1>1, <1>5, <1>6, <1>7, <1>8 DEF LinksInv, ResetInv, ChangeInv, SignupInv

-----------------------------------------------------------------------------
(* A request may end anywhere.                                             *)
LEMMA LinkRequestEndsInv ==
  ASSUME LinksInv, NEW r \in LinkRequests, LinkRequestEnds(r)
  PROVE  LinksInv'
<1>1. /\ Then(r, Waiting) /\ UNCHANGED <<link, user, signup, joined>>
      /\ mingled' = (mingled \/ lreq[r].st \in {"sendChange", "sendSignup", "sendAgain"})
  BY DEF LinkRequestEnds
<1>2. /\ LinksTyped' /\ flow' = flow /\ IssuedLinks' = IssuedLinks /\ NextLink' = NextLink
      /\ lreq'[r] = Waiting /\ \A o \in LinkRequests : o # r => lreq'[o] = lreq[o]
  <2>1. mingled' \in BOOLEAN
    BY <1>1, LinkFacts
  <2>2. LinksIssued' /\ IssuedLinks' = IssuedLinks /\ NextLink' = NextLink
    BY <1>1, LinksSame, LinkFacts
  <2> QED BY <1>1, <2>1, <2>2, LinkFacts, TypedStep, WaitingTyped
<1>3. Waiting.st = "idle"
  BY WaitingTyped
<1>4. ResetInv'
  <2> SUFFICES ASSUME "reset" \in flow
      PROVE  ResetStored' /\ ResetSending' /\ ResetOpened' /\ NewestResetWorks'
    BY <1>2 DEF ResetInv
  <2> QED BY <1>1, <1>2, <1>3, ResetOf
       DEF ResetStored, ResetSending, ResetOpened, NewestResetWorks, Newest
<1>5. ChangeInv'
  <2> SUFFICES ASSUME "change" \in flow, ~mingled'
      PROVE  ChangeSending' /\ ChangeOpened' /\ ChangeStored' /\ \A n \in LinkIds : link'[n].uses <= 1
    BY <1>2 DEF ChangeInv
  <2>1. ~mingled /\ lreq[r].st # "sendChange"
    BY <1>1
  <2>2. ChangeSending'
    BY <1>1, <1>2, <1>3, <2>1, ChangeOf DEF ChangeSending, Works
  <2>3. ChangeOpened'
    BY <1>2, <1>3, <2>1, ChangeOf DEF ChangeOpened
  <2>4. ChangeStored'
    <3>1. (\A x \in LinkRequests : lreq'[x].st # "sendChange") =>
            \A x \in LinkRequests : lreq[x].st # "sendChange"
      BY <1>2, <2>1
    <3> QED BY <1>1, <2>1, <3>1, ChangeOf DEF ChangeStored, Works
  <2> QED BY <1>1, <2>1, <2>2, <2>3, <2>4, ChangeOf
<1>6. SignupInv'
  <2> SUFFICES ASSUME "signup" \in flow
      PROVE  SignupKnown' /\ SignupOnce' /\ SignupStored'
    BY <1>2 DEF SignupInv
  <2>1. SignupKnown' /\ SignupOnce'
    BY <1>1, <1>2, <1>3, SignupOf DEF SignupKnown, SignupOnce
  <2>2. ~mingled' => SignupReached'
    <3> SUFFICES ASSUME ~mingled, lreq[r].st \notin {"sendSignup", "sendAgain"}
        PROVE  SignupReached'
      BY <1>1
    <3>1. SignupReached
      BY SignupReachedNow
    <3>2. \A x \in LinkRequests : lreq[x].st \in {"sendSignup", "sendAgain"} => lreq'[x] = lreq[x]
      BY <1>2
    <3> QED BY <1>1, <3>1, <3>2 DEF SignupReached
  <2>3. SignupStored'
    <3>1. mingled => mingled'
      BY <1>1
    <3>2. \A n \in LinkIds : link[n].sentTo = Own => link'[n].sentTo = Own
      BY <1>1
    <3> QED BY <1>1, <1>3, <2>2, <3>1, <3>2, SignupHeld
  <2> QED BY <2>1, <2>3
<1> QED BY <1>2, <1>4, <1>5, <1>6 DEF LinksInv

(* Time passes.                                                            *)
LEMMA LinkAgesInv ==
  ASSUME LinksInv, NEW n \in IssuedLinks, link[n].age # "old", NEW age \in {"grown", "old"},
         link' = [link EXCEPT ![n].age = age], signup' \in {signup, NoSignup},
         UNCHANGED <<flow, user, joined, lreq, mingled>>
  PROVE  LinksInv'
<1>1. /\ LinksIssued' /\ IssuedLinks' = IssuedLinks /\ NextLink' = NextLink
      /\ \A m \in LinkIds : /\ link'[m].sentTo = link[m].sentTo /\ link'[m].uses = link[m].uses
                            /\ link'[m].age # "old" => m # n \/ age # "old"
                            /\ m # n => link'[m] = link[m]
  BY LinkFacts, LinkAged
<1>2. \A m \in LinkIds : link'[m].age # "old" => link[m].age # "old"
  BY <1>1
<1>3. \A m \in LinkIds : link'[m].sentTo = link[m].sentTo /\ link'[m].uses = link[m].uses
  BY <1>1
<1>4. LinksTyped'
  <2>1. LinksTypeOK'
    <3>1. /\ signup' \in SignupDocs /\ (signup'.st = "none" => signup' = NoSignup)
      BY LinkFacts, NoSignupTyped
    <3> QED BY <1>1, <3>1, LinkFacts DEF LinksTyped, LinksTypeOK, LinksIssued
  <2>2. (\A r \in LinkRequests : Belongs(lreq[r]))'
    BY LinkFacts DEF LinksTyped, Belongs
  <2>3. "change" \notin flow => user.pending = Nowhere /\ \A m \in LinkIds : link'[m].uses <= 1
    BY <1>3, LinkFacts
  <2> QED BY <1>1, <2>1, <2>2, <2>3, LinkFacts DEF LinksTyped
<1>5. ResetInv'
  <2> SUFFICES ASSUME "reset" \in flow
      PROVE  ResetStored' /\ ResetSending' /\ ResetOpened' /\ NewestResetWorks'
    BY DEF ResetInv
  <2>1. ResetStored'
    BY <1>1, <1>3, LinkFacts, ResetOf DEF ResetStored
  <2>2. ResetSending'
    BY <1>1, <1>3, LinkFacts, ResetOf DEF ResetSending, Newest
  <2>3. ResetOpened'
    BY <1>1, <1>3, LinkFacts, ResetOf DEF ResetOpened
  <2>4. NewestResetWorks'
    BY <1>1, <1>2, <1>3, ResetOf DEF NewestResetWorks
  <2> QED BY <2>1, <2>2, <2>3, <2>4
<1>6. ChangeInv'
  <2> SUFFICES ASSUME "change" \in flow, ~mingled
      PROVE  ChangeSending' /\ ChangeOpened' /\ ChangeStored' /\ \A m \in LinkIds : link'[m].uses <= 1
    BY DEF ChangeInv
  <2>1. ASSUME NEW pending, NEW hash \in 0..MaxLinks, Works(pending, hash)
        PROVE  hash # 0 /\ link'[hash].sentTo = pending /\ link'[hash].uses = 0
    BY <1>3, <2>1, LinkFacts DEF Works
  <2>2. ChangeSending'
    <3> SUFFICES ASSUME NEW x \in LinkRequests, lreq[x].st = "sendChange"
        PROVE  /\ lreq[x].link \in IssuedLinks'
               /\ user.pending = lreq[x].to /\ user.hash = lreq[x].link
               /\ link'[lreq[x].link].uses = 0
               /\ lreq[x].seen.pending # Nowhere =>
                    /\ lreq[x].seen.hash # 0 /\ link'[lreq[x].seen.hash].uses = 0
                    /\ link'[lreq[x].seen.hash].sentTo = lreq[x].seen.pending
               /\ \A o \in LinkRequests : lreq[o].st = "sendChange" => o = x
      BY DEF ChangeSending, Works
    <3>1. /\ lreq[x].link \in IssuedLinks
          /\ user.pending = lreq[x].to /\ user.hash = lreq[x].link
          /\ link[lreq[x].link].uses = 0
          /\ lreq[x].seen.pending # Nowhere => Works(lreq[x].seen.pending, lreq[x].seen.hash)
          /\ \A o \in LinkRequests : lreq[o].st = "sendChange" => o = x
      BY ChangeOf DEF ChangeSending
    <3>2. lreq[x].seen.hash \in 0..MaxLinks
      <4>1. lreq[x] \in ChangeRequests /\ lreq[x].st = "sendChange"
        BY LinkFacts, KindOfRequest
      <4>2. lreq[x].seen \in UserReads
        BY <4>1, ChangeShapes
      <4> QED BY <4>2 DEF UserReads
    <3> QED BY <1>1, <1>3, <2>1, <3>1, <3>2, LinkFacts
  <2>3. ChangeOpened'
    BY <1>1, ChangeOf DEF ChangeOpened
  <2>4. ChangeStored'
    <3>1. user.hash \in 0..MaxLinks
      BY LinkFacts DEF UserDocs
    <3>2. ChangeStored
      BY ChangeOf
    <3> SUFFICES ASSUME \A x \in LinkRequests : lreq[x].st # "sendChange", user.pending # Nowhere
        PROVE  user.hash # 0 /\ link'[user.hash].sentTo = user.pending /\ link'[user.hash].uses = 0
      BY DEF ChangeStored, Works
    <3>3. Works(user.pending, user.hash)
      BY <3>2 DEF ChangeStored
    <3> QED BY <2>1, <3>1, <3>3
  <2> QED BY <1>3, <2>2, <2>3, <2>4, ChangeOf
<1>7. SignupInv'
  <2> SUFFICES ASSUME "signup" \in flow
      PROVE  SignupKnown' /\ SignupOnce' /\ SignupStored'
    BY DEF SignupInv
  <2>1. SignupKnown'
    BY <1>1, SignupOf DEF SignupKnown
  <2>2. SignupOnce'
    BY <1>3, SignupOf, NoSignupTyped DEF SignupOnce
  <2>3. SignupStored'
    <3> SUFFICES ASSUME ~mingled
        PROVE  SignupReached' /\ \A x \in LinkRequests : lreq[x].st = "sendAgain" =>
                                   lreq[x].before # 0 /\ link'[lreq[x].before].sentTo = Own
      BY DEF SignupStored, SignupReached
    <3>1. \A x \in LinkRequests : lreq[x].st = "sendAgain" =>
            lreq[x].before # 0 /\ link'[lreq[x].before].sentTo = Own
      BY <1>3, SignupBefore
    <3>2. SignupReached'
      <4>1. CASE signup' = NoSignup
        BY <4>1, NoSignupTyped DEF SignupReached
      <4>2. CASE signup' = signup
        <5>1. SignupReached
          BY SignupReachedNow
        <5>2. signup.hash # 0 => signup.hash \in LinkIds
          BY LinkFacts DEF SignupDocs
        <5> QED BY <1>3, <4>2, <5>1, <5>2 DEF SignupReached
      <4> QED BY <4>1, <4>2
    <3> QED BY <3>1, <3>2
  <2> QED BY <2>1, <2>2, <2>3
<1> QED BY <1>4, <1>5, <1>6, <1>7 DEF LinksInv

LEMMA TimePasses ==
  ASSUME LinksInv, NEW n \in LinkIds, Mature(n) \/ ExpireLink(n)
  PROVE  LinksInv'
<1>1. CASE Mature(n)
  <2>1. n \in IssuedLinks /\ link[n].age # "old"
    BY <1>1 DEF Mature, IssuedLinks
  <2> QED BY <1>1, <2>1, LinkAgesInv DEF Mature
<1>2. CASE ExpireLink(n)
  <2>1. n \in IssuedLinks /\ link[n].age # "old" /\ signup' \in {signup, NoSignup}
    BY <1>2 DEF ExpireLink, IssuedLinks
  <2> QED BY <1>2, <2>1, LinkAgesInv DEF ExpireLink
<1> QED BY <1>1, <1>2

-----------------------------------------------------------------------------
LEMMA LinksBegin ==
  ASSUME LinksInit
  PROVE  LinksInv
<1>1. \A r \in LinkRequests : lreq[r] = Waiting
  BY DEF LinksInit
<1>2. lreq \in [LinkRequests -> LinkRequestDocs] /\ \A r \in LinkRequests : Belongs(lreq[r])
  BY WaitingTyped DEF LinksInit
<1>3. Unissued \in LinkDocs /\ Unissued.age = "none" /\ Unissued.sentTo = Nowhere /\ Unissued.uses = 0
  BY DEF Unissued, LinkDocs
<1>4. \A n \in LinkIds : link[n] = Unissued
  BY DEF LinksInit
<1>5. IssuedLinks = {} /\ link \in [LinkIds -> LinkDocs]
  BY <1>3 DEF LinksInit, IssuedLinks
<1>6. LinksIssued
  <2>1. Cardinality(IssuedLinks) = 0
    BY <1>5, FS_EmptySet
  <2>2. 1..0 = {}
    OBVIOUS
  <2> QED BY <1>4, <1>5, <2>1, <2>2 DEF LinksIssued
<1>7. user \in UserDocs /\ user.reset = 0 /\ user.pending = Nowhere
  <2>1. 0 \in 0..MaxLinks
    BY NamesApart
  <2> QED BY <2>1 DEF LinksInit, UserDocs
<1>8. /\ joined \in AccountDocs /\ joined.account = Nowhere /\ joined.claim = Nowhere
      /\ joined.sessions = 0
  BY DEF LinksInit, AccountDocs
<1>9. \A n \in LinkIds : link[n].uses = 0 /\ link[n].uses <= 1 /\ link[n].uses # 1
  BY <1>3, <1>4
<1>10. LinksTyped
  <2>1. LinksTypeOK
    BY <1>5, <1>7, <1>8, NoSignupTyped DEF LinksInit, LinksTypeOK
  <2> QED BY <1>2, <1>6, <1>7, <1>8, <1>9, <2>1 DEF LinksInit, LinksTyped
<1>11. ResetInv
  BY <1>1, <1>3, <1>4, <1>7, WaitingTyped
     DEF ResetInv, ResetStored, ResetSending, ResetOpened, NewestResetWorks
<1>12. ChangeInv
  BY <1>1, <1>7, <1>9, WaitingTyped DEF ChangeInv, ChangeSending, ChangeOpened, ChangeStored
<1>13. SignupInv
  <2>1. signup.st # "waiting"
    BY NoSignupTyped DEF LinksInit
  <2>2. SignupOnce
    BY <1>8, <1>9, <2>1 DEF SignupOnce
  <2> QED BY <1>1, <2>1, <2>2, WaitingTyped DEF SignupInv, SignupKnown, SignupStored
<1> QED BY <1>10, <1>11, <1>12, <1>13 DEF LinksInv

LEMMA LinksStutter ==
  ASSUME LinksInv, UNCHANGED linkVars
  PROVE  LinksInv'
<1>1. UNCHANGED <<flow, link, user, signup, joined, lreq, mingled>>
  BY DEF linkVars
<1>2. LinksIssued' = LinksIssued /\ IssuedLinks' = IssuedLinks /\ NextLink' = NextLink
  BY <1>1, LinksSame
<1>3. LinksTyped'
  BY <1>1, <1>2 DEF LinksInv, LinksTyped, LinksTypeOK, Belongs
<1>4. ResetInv'
  BY <1>1, <1>2 DEF LinksInv, ResetInv, ResetStored, ResetSending, ResetOpened, NewestResetWorks, Newest
<1>5. ChangeInv'
  BY <1>1, <1>2 DEF LinksInv, ChangeInv, ChangeSending, ChangeOpened, ChangeStored, Works
<1>6. SignupInv'
  BY <1>1, <1>2 DEF LinksInv, SignupInv, SignupKnown, SignupOnce, SignupStored
<1> QED BY <1>3, <1>4, <1>5, <1>6 DEF LinksInv

LEMMA LinksStep ==
  ASSUME LinksInv, LinksNext
  PROVE  LinksInv'
<1>1. ASSUME NEW r \in LinkRequests,
             \/ FindForReset(r) \/ SaveReset(r) \/ SendReset(r) \/ TakeBackReset(r)
             \/ OpenReset(r) \/ SetPassword(r)
      PROVE  LinksInv'
  BY <1>1, FindForResetInv, SaveResetInv, SendResetInv, TakeBackResetInv, OpenResetInv, SetPasswordInv
<1>2. ASSUME NEW r \in LinkRequests,
             lreq[r].st \in {"saveChange", "sendChange", "saveCancel", "saveAddress"}
      PROVE  ~mingled
  BY <1>2, LinkFacts, KindOfRequest DEF LinksNext
<1>3. ASSUME NEW r \in LinkRequests,
             \/ \E a \in Addresses : RequestEmailChange(r, a)
             \/ ResendEmailChange(r) \/ CancelEmailChange(r) \/ OpenChange(r)
      PROVE  LinksInv'
  BY <1>3, ChangeAsked
<1>4. ASSUME NEW r \in LinkRequests, SaveChange(r)
      PROVE  LinksInv'
  BY <1>2, <1>4, SaveChangeInv DEF SaveChange, At
<1>5. ASSUME NEW r \in LinkRequests, SendChange(r)
      PROVE  LinksInv'
  BY <1>2, <1>5, SendChangeInv DEF SendChange, At
<1>6. ASSUME NEW r \in LinkRequests, RestoreChange(r)
      PROVE  LinksInv'
  BY <1>2, <1>6, RestoreChangeInv DEF RestoreChange, At
<1>7. ASSUME NEW r \in LinkRequests, SaveCancel(r)
      PROVE  LinksInv'
  BY <1>2, <1>7, SaveCancelInv DEF SaveCancel, At
<1>8. ASSUME NEW r \in LinkRequests, VerifyEmailChange(r)
      PROVE  LinksInv'
  BY <1>2, <1>8, VerifyEmailChangeInv DEF VerifyEmailChange, At
<1>9. ASSUME NEW r \in LinkRequests,
             \/ Register(r) \/ SaveSignup(r) \/ SendSignup(r) \/ DropSignup(r)
             \/ ResendRegistration(r) \/ SaveAgain(r) \/ PutBackSignup(r)
             \/ OpenSignup(r) \/ VerifyRegistration(r) \/ CheckRegistrationStatus(r)
      PROVE  LinksInv'
  BY <1>9, SignupAsked, SaveSignupInv, SendSignupInv, DropSignupInv, SaveAgainInv, PutBackSignupInv,
     VerifyRegistrationInv, CheckRegistrationStatusInv
<1>10. CASE \E n \in LinkIds : Mature(n) \/ ExpireLink(n)
  BY <1>10, TimePasses
<1>11. CASE \E r \in LinkRequests :
       \/ FindForReset(r) \/ SaveReset(r) \/ SendReset(r) \/ TakeBackReset(r)
       \/ OpenReset(r) \/ SetPassword(r)
       \/ \E a \in Addresses : RequestEmailChange(r, a)
       \/ ResendEmailChange(r) \/ SaveChange(r) \/ SendChange(r) \/ RestoreChange(r)
       \/ CancelEmailChange(r) \/ SaveCancel(r)
       \/ OpenChange(r) \/ VerifyEmailChange(r)
       \/ Register(r) \/ SaveSignup(r) \/ SendSignup(r) \/ DropSignup(r)
       \/ ResendRegistration(r) \/ SaveAgain(r) \/ PutBackSignup(r)
       \/ OpenSignup(r) \/ VerifyRegistration(r)
       \/ CheckRegistrationStatus(r)
       \/ LinkRequestEnds(r)
  BY <1>1, <1>3, <1>4, <1>5, <1>6, <1>7, <1>8, <1>9, <1>11, LinkRequestEndsInv
<1> QED BY <1>10, <1>11 DEF LinksNext, LinkStep

LEMMA LinksInductive ==
  ASSUME LinksInv, [LinksNext]_linkVars
  PROVE  LinksInv'
BY LinksStep, LinksStutter

-----------------------------------------------------------------------------
(* What holds of the links.                                                *)
LEMMA LinksSafe ==
  ASSUME LinksInv
  PROVE  LinksInOrder
<1>1. LinkOnce
  BY LinkFacts DEF LinkOnce
<1>2. NewestResetWorks
  BY ResetOf DEF NewestResetWorks
<1>3. LinkAtHand
  <2> SUFFICES ASSUME ~mingled, \A r \in LinkRequests : lreq[r] = Waiting
      PROVE  /\ signup.st = "waiting" => signup.hash # 0 /\ link[signup.hash].sentTo = Own
             /\ user.pending # Nowhere => user.hash # 0 /\ link[user.hash].sentTo = user.pending
    BY DEF LinkAtHand
  <2>1. \A r \in LinkRequests : lreq[r].st = "idle"
    BY WaitingTyped
  <2>2. ASSUME signup.st = "waiting"
        PROVE  signup.hash # 0 /\ link[signup.hash].sentTo = Own
    <3>1. "signup" \in flow
      BY <2>2, LinkFacts, NoSignupTyped DEF LinksTyped
    <3> QED BY <2>1, <2>2, <3>1, SignupReachedNow DEF SignupReached
  <2>3. ASSUME user.pending # Nowhere
        PROVE  user.hash # 0 /\ link[user.hash].sentTo = user.pending
    <3>1. "change" \in flow
      BY <2>3, LinkFacts
    <3>2. Works(user.pending, user.hash)
      BY <2>1, <2>3, <3>1, ChangeOf DEF ChangeStored
    <3> QED BY <3>2 DEF Works
  <2> QED BY <2>2, <2>3
<1>4. SignedInOnce
  <2>1. CASE "signup" \in flow
    BY <2>1, SignupOf DEF SignupOnce, SignedInOnce
  <2>2. CASE "signup" \notin flow
    <3>1. joined = [account |-> Nowhere, claim |-> Nowhere, sessions |-> 0] /\ (0 <= 1) = TRUE
      BY <2>2, LinkFacts DEF LinksTyped
    <3> QED BY <3>1 DEF SignedInOnce
  <2> QED BY <2>1, <2>2
<1> QED BY <1>1, <1>2, <1>3, <1>4 DEF LinksInOrder

(* The address only changes when a link for it is opened.                  *)
LEMMA AddressKept ==
  ASSUME LinksInv, LinkStep, user'.email # user.email
  PROVE  \E r \in LinkRequests : VerifyEmailChange(r)
<1>1. user \in UserDocs
  BY LinkFacts
<1>2. ASSUME NEW seen, NEW want
      PROVE  Saved(seen, want).email = user.email
  BY <1>1 DEF Saved, UserDocs
<1>3. ASSUME NEW r \in LinkRequests,
             SaveReset(r) \/ TakeBackReset(r) \/ SetPassword(r)
      PROVE  FALSE
  BY <1>1, <1>3 DEF SaveReset, TakeBackReset, SetPassword, UserDocs
<1>4. ASSUME NEW r \in LinkRequests,
             SaveChange(r) \/ RestoreChange(r) \/ SaveCancel(r)
      PROVE  FALSE
  BY <1>2, <1>4 DEF SaveChange, RestoreChange, SaveCancel
<1>5. ASSUME NEW r \in LinkRequests,
             \/ FindForReset(r) \/ SendReset(r) \/ OpenReset(r)
             \/ \E a \in Addresses : RequestEmailChange(r, a)
             \/ ResendEmailChange(r) \/ SendChange(r) \/ CancelEmailChange(r) \/ OpenChange(r)
             \/ Register(r) \/ SaveSignup(r) \/ SendSignup(r) \/ DropSignup(r)
             \/ ResendRegistration(r) \/ SaveAgain(r) \/ PutBackSignup(r)
             \/ OpenSignup(r) \/ VerifyRegistration(r)
             \/ CheckRegistrationStatus(r) \/ LinkRequestEnds(r)
      PROVE  FALSE
  BY <1>5 DEF FindForReset, SendReset, OpenReset, RequestEmailChange, ResendEmailChange, SendChange,
     CancelEmailChange, OpenChange, Register, SaveSignup, SendSignup, DropSignup, ResendRegistration,
     SaveAgain, PutBackSignup, OpenSignup, VerifyRegistration, CheckRegistrationStatus, LinkRequestEnds
<1>6. ASSUME NEW n \in LinkIds, Mature(n) \/ ExpireLink(n)
      PROVE  FALSE
  BY <1>6 DEF Mature, ExpireLink
<1> QED BY <1>3, <1>4, <1>5, <1>6 DEF LinkStep

LEMMA AddressStep ==
  ASSUME LinksInv, [LinksNext]_linkVars
  PROVE  user'.email # user.email /\ ~mingled' =>
           \E n \in LinkIds : link'[n].uses > link[n].uses /\ link[n].sentTo = user'.email
<1> SUFFICES ASSUME user'.email # user.email, ~mingled'
    PROVE  \E n \in LinkIds : link'[n].uses > link[n].uses /\ link[n].sentTo = user'.email
  OBVIOUS
<1>1. LinksNext
  BY DEF linkVars
<1>2. PICK r \in LinkRequests : VerifyEmailChange(r)
  BY <1>1, AddressKept DEF LinksNext
<1>3. ~mingled
  BY <1>1, <1>2, LinkFacts, KindOfRequest DEF LinksNext, VerifyEmailChange, At
<1> QED BY <1>2, <1>3, VerifyEmailChangeInv

(* The documents of the links have their types.                            *)
THEOREM LinksTypeCorrect == LinksSpec => []LinksTypeOK
<1>1. LinksInv => LinksTypeOK
  BY DEF LinksInv, LinksTyped
<1> QED BY <1>1, LinksBegin, LinksInductive, PTL DEF LinksSpec

(* A link does its work once, the newest link for a new password that      *)
(* reached the person works, whoever waits has a link that works, and the  *)
(* browser that waits is signed in once (auth.service.ts).                 *)
THEOREM LinksKeptInOrder == LinksSpec => []LinksInOrder
BY LinksSafe, LinksBegin, LinksInductive, PTL DEF LinksSpec

(* Unless requests overlapped, the address of the account becomes one that *)
(* a link was sent to and opened (verifyEmailChange).                      *)
THEOREM AddressesConfirmed == LinksSpec => AddressConfirmed
<1>1. LinksInv /\ [LinksNext]_linkVars =>
        [user'.email # user.email /\ ~mingled' =>
           \E n \in LinkIds : /\ link'[n].uses > link[n].uses
                              /\ link[n].sentTo = user'.email]_linkVars
  BY AddressStep
<1> QED BY <1>1, LinksBegin, LinksInductive, PTL DEF LinksSpec, AddressConfirmed

-----------------------------------------------------------------------------
(* Sessions and links beside each other.                                   *)
LEMMA AccountsBegin ==
  ASSUME AccountsInit
  PROVE  SessionsInv /\ LinksInv
BY SessionsBegin, LinksBegin DEF AccountsInit

LEMMA AccountsStep ==
  ASSUME SessionsInv /\ LinksInv, [AccountsNext]_<<sessionVars, linkVars>>
  PROVE  (SessionsInv /\ LinksInv)'
<1>1. [SessionsNext]_sessionVars /\ [LinksNext]_linkVars
  BY DEF AccountsNext
<1> QED BY <1>1, SessionsInductive, LinksInductive

(* The documents of sessions and links have their types, whatever is done  *)
(* to the others meanwhile.                                                *)
THEOREM AccountsTypeCorrect == AccountsSpec => []AccountsTypeOK
<1>1. SessionsInv /\ LinksInv => AccountsTypeOK
  BY DEF SessionsInv, SessionsTyped, LinksInv, LinksTyped, AccountsTypeOK
<1> QED BY <1>1, AccountsBegin, AccountsStep, PTL DEF AccountsSpec
=============================================================================
