---------------------------- MODULE PlansProofs -----------------------------
(***************************************************************************)
(* The plan of a workspace: the notices before it ends and the reminders of*)
(* what is due, proved for any number of administrators, terms, runs and   *)
(* changes of one due date; and what plans cost, for any price list, number*)
(* of orders and calendar.                                                 *)
(***************************************************************************)
EXTENDS MCPlans, PaymentsProofs

-----------------------------------------------------------------------------
(* What a run of sendPlanRenewalReminders is at.                           *)
NotifierDocs ==
  {Still} \cup [st : {"next", "delete", "create"}, todo : SUBSET Admins,
                who : Admins \cup {"nobody"}, stage : Stages, n : 0..MaxTerm, deal : 0..MaxTerm]

(* Stage g of term n comes no later than stage h of term m; or before it.  *)
UpTo(n, g, m, h) == n < m \/ (n = m /\ g <= h)
Earlier(n, g, m, h) == n < m \/ (n = m /\ g < h)

(* The stages of terms that have been reached by now.                      *)
Reached(n, stage) == UpTo(n, stage, term.n, term.stage)

NoticesTyped ==
  /\ NoticesTypeOK
  /\ notifier \in [Notifiers -> NotifierDocs]
  /\ dropped \in [Admins -> SUBSET ((0..MaxTerm) \X Stages)]
  /\ \A s \in Notifiers : AtNotice(s) => notifier[s].who \in Admins

(* Nobody is told, and nobody has dismissed, what is still to come.        *)
NothingAhead ==
  /\ \A s \in Notifiers : notifier[s] # Still => Reached(notifier[s].n, notifier[s].stage)
  /\ \A a \in Admins : notice[a].st # "none" => Reached(notice[a].n, notice[a].stage)
  /\ \A a \in Admins : \A n \in 0..MaxTerm, stage \in Stages :
       <<n, stage>> \in dropped[a] => Reached(n, stage)

(* What is said to an administrator no run was still to write to when the  *)
(* plan was bought is of the plan as it was bought last.                   *)
DealKept(a) ==
  /\ notice[a].st # "none" => notice[a].deal = term.deal
  /\ \A s \in Notifiers : ToTell(s, a) \/ Tells(s, a) => notifier[s].deal = term.deal

(* The administrator has sent away what is said of that stage, and the     *)
(* notice still says so.                                                   *)
SentAway(a, n, stage) ==
  notice[a].st = "dismissed" /\ notice[a].stage = stage /\ notice[a].n = n

(* What is so of an administrator no two runs wrote to at once.            *)
NoticeKept(a) ==
  notice[a].st = "live" => <<notice[a].n, notice[a].stage>> \notin dropped[a]

OneTells(a) ==
  \A s, x \in Notifiers : Tells(s, a) /\ Tells(x, a) => s = x

(* A run that has still to look carries the last stage of all, and finds   *)
(* the notice of it that was sent away.                                    *)
LatestToTell(a) ==
  \A s \in Notifiers : ToTell(s, a) =>
    /\ \A n \in 0..MaxTerm, stage \in Stages : <<n, stage>> \in dropped[a] =>
         UpTo(n, stage, notifier[s].n, notifier[s].stage)
    /\ notice[a].st = "live" =>
         UpTo(notice[a].n, notice[a].stage, notifier[s].n, notifier[s].stage)
    /\ \A y \in Notifiers : Tells(y, a) =>
         UpTo(notifier[y].n, notifier[y].stage, notifier[s].n, notifier[s].stage)
    /\ <<notifier[s].n, notifier[s].stage>> \in dropped[a] =>
         SentAway(a, notifier[s].n, notifier[s].stage)

(* A run that is at the notice has something later to say.                 *)
LaterTold(a) ==
  \A y \in Notifiers : Tells(y, a) =>
    /\ \A n \in 0..MaxTerm, stage \in Stages : <<n, stage>> \in dropped[a] =>
         Earlier(n, stage, notifier[y].n, notifier[y].stage)
    /\ notice[a].st = "live" =>
         Earlier(notice[a].n, notice[a].stage, notifier[y].n, notifier[y].stage)

(* What was sent away at this stage of the term is there as sent away.     *)
NowSentAway(a) ==
  term.stage \in Stages /\ <<term.n, term.stage>> \in dropped[a] =>
    SentAway(a, term.n, term.stage)

Undisturbed(a) ==
  /\ NoticeKept(a) /\ OneTells(a)
  /\ LatestToTell(a) /\ LaterTold(a) /\ NowSentAway(a)

NoticesInv ==
  /\ NoticesTyped
  /\ NothingAhead
  /\ \A a \in Admins \ outdated : DealKept(a)
  /\ \A a \in Admins \ overlapped : Undisturbed(a)

-----------------------------------------------------------------------------
LEMMA NoticesBegin ==
  ASSUME NoticesInit
  PROVE  NoticesInv
<1> USE NoticesAssumption DEF NoticesInit
<1>1. NoticesTyped
  BY DEF NoticesTyped, NoticesTypeOK, NoticeDocs, NoNotice, NotifierDocs, Still, AtNotice
<1>2. NothingAhead
  BY DEF NothingAhead, NoNotice, Still
<1>3. ASSUME NEW a \in Admins
      PROVE  DealKept(a)
  BY DEF DealKept, ToTell, Tells, AtNotice, NoNotice, Still
<1>4. ASSUME NEW a \in Admins
      PROVE  Undisturbed(a)
  BY DEF Undisturbed, NoticeKept, OneTells, LatestToTell, LaterTold, NowSentAway,
         ToTell, Tells, AtNotice, NoNotice, Still
<1> QED BY <1>1, <1>2, <1>3, <1>4 DEF NoticesInv

-----------------------------------------------------------------------------
(* The order of the stages of the terms.                                   *)
LEMMA StageOrder ==
  ASSUME NEW n \in Nat, NEW g \in 0..5, NEW m \in Nat, NEW h \in 0..5
  PROVE  /\ UpTo(n, g, n, g)
         /\ ~(Earlier(n, g, m, h) /\ UpTo(m, h, n, g))
         /\ UpTo(n, g, m, h) /\ <<n, g>> # <<m, h>> => Earlier(n, g, m, h)
         /\ Earlier(n, g, m, h) => UpTo(n, g, m, h)
BY DEF UpTo, Earlier

(* Types, step by step.                                                    *)
LEMMA NotifierShapes ==
  ASSUME NEW q \in NotifierDocs
  PROVE  \/ q = Still
         \/ /\ q # Still /\ q.st \in {"next", "delete", "create"}
            /\ q.todo \subseteq Admins /\ q.who \in Admins \cup {"nobody"}
            /\ q.stage \in Stages /\ q.n \in 0..MaxTerm /\ q.deal \in 0..MaxTerm
            /\ q = [st |-> q.st, todo |-> q.todo, who |-> q.who, stage |-> q.stage,
                    n |-> q.n, deal |-> q.deal]
BY DEF NotifierDocs, Still

LEMMA NoticeShapes ==
  ASSUME NEW d \in NoticeDocs
  PROVE  \/ d = NoNotice /\ d.st = "none"
         \/ /\ d.st \in {"live", "dismissed"} /\ d.stage \in Stages /\ d.n \in 0..MaxTerm
            /\ d.deal \in 0..MaxTerm
            /\ d = [st |-> d.st, stage |-> d.stage, n |-> d.n, deal |-> d.deal]
BY DEF NoticeDocs, NoNotice

(* What a term, a notice and a run hold can be put in order.               *)
LEMMA InOrder ==
  ASSUME NoticesTyped
  PROVE  /\ term.n \in Nat /\ term.stage \in 0..5
         /\ \A s \in Notifiers : notifier[s] # Still =>
              notifier[s].n \in Nat /\ notifier[s].n \in 0..MaxTerm
              /\ notifier[s].stage \in 0..5 /\ notifier[s].stage \in Stages
         /\ \A a \in Admins : notice[a].st # "none" =>
              notice[a].n \in Nat /\ notice[a].n \in 0..MaxTerm
              /\ notice[a].stage \in 0..5 /\ notice[a].stage \in Stages
<1>1. term.n \in Nat /\ term.stage \in 0..5
  BY NoticesAssumption DEF NoticesTyped, NoticesTypeOK
<1>2. ASSUME NEW s \in Notifiers, notifier[s] # Still
      PROVE  notifier[s].n \in 0..MaxTerm /\ notifier[s].stage \in Stages
  BY <1>2, NotifierShapes DEF NoticesTyped
<1>3. ASSUME NEW a \in Admins, notice[a].st # "none"
      PROVE  notice[a].n \in 0..MaxTerm /\ notice[a].stage \in Stages
  BY <1>3, NoticeShapes DEF NoticesTyped, NoticesTypeOK
<1>4. (0..MaxTerm) \subseteq Nat /\ Stages \subseteq 0..5
  BY NoticesAssumption DEF Stages
<1> QED BY <1>1, <1>2, <1>3, <1>4

LEMMA TellsShapes ==
  ASSUME NoticesTyped, NEW s \in Notifiers, AtNotice(s)
  PROVE  /\ notifier[s] # Still /\ notifier[s] \in NotifierDocs
         /\ notifier[s].who \in Admins
BY DEF NoticesTyped, AtNotice, NotifierDocs, Still

(* A run that goes on with one field changed stays what it is, or is       *)
(* through.                                                                *)
LEMMA NotifierGoesOn ==
  ASSUME NoticesTyped, NEW s \in Notifiers, notifier[s] # Still,
         NEW st \in {"next", "delete", "create"}, NEW todo \in SUBSET Admins,
         NEW who \in Admins \cup {"nobody"},
         who \in Admins \/ st = "next",
         Notifies(s, [st |-> st, todo |-> todo, who |-> who, stage |-> notifier[s].stage,
                      n |-> notifier[s].n, deal |-> notifier[s].deal])
  PROVE  /\ notifier' \in [Notifiers -> NotifierDocs]
         /\ \A x \in Notifiers : AtNotice(x)' => notifier'[x].who \in Admins
         /\ \A x \in Notifiers : notifier'[x] # Still =>
              /\ notifier[x] # Still
              /\ notifier'[x].stage = notifier[x].stage /\ notifier'[x].n = notifier[x].n
              /\ notifier'[x].deal = notifier[x].deal
         /\ \A x \in Notifiers : x # s => notifier'[x] = notifier[x]
         /\ IF st = "next" /\ todo = {} THEN notifier'[s] = Still
            ELSE /\ notifier'[s] # Still
                 /\ notifier'[s].st = st /\ notifier'[s].todo = todo /\ notifier'[s].who = who
<1> DEFINE q == [st |-> st, todo |-> todo, who |-> who, stage |-> notifier[s].stage,
                 n |-> notifier[s].n, deal |-> notifier[s].deal]
           r == IF st = "next" /\ todo = {} THEN Still ELSE q
<1>1. /\ notifier[s].stage \in Stages /\ notifier[s].n \in 0..MaxTerm
      /\ notifier[s].deal \in 0..MaxTerm
  BY NotifierShapes DEF NoticesTyped
<1>2. /\ q \in NotifierDocs /\ q # Still
      /\ q.st = st /\ q.todo = todo /\ q.who = who
      /\ q.stage = notifier[s].stage /\ q.n = notifier[s].n /\ q.deal = notifier[s].deal
  BY <1>1 DEF NotifierDocs, Still
<1> HIDE DEF q
<1>3. notifier' = [notifier EXCEPT ![s] = r] /\ notifier \in [Notifiers -> NotifierDocs]
  BY <1>2 DEF Notifies, NoticesTyped, q
<1>4. r \in NotifierDocs /\ (r = Still \/ r = q)
  BY <1>2 DEF NotifierDocs
<1>5. r = IF st = "next" /\ todo = {} THEN Still ELSE q
  OBVIOUS
<1> HIDE DEF r
<1>6. notifier'[s] = r /\ \A x \in Notifiers : x # s => notifier'[x] = notifier[x]
  BY <1>3
<1>7. notifier' \in [Notifiers -> NotifierDocs]
  BY <1>3, <1>4
<1>8. ASSUME NEW x \in Notifiers, AtNotice(x)'
      PROVE  notifier'[x].who \in Admins
  <2>1. CASE x # s
    BY <1>6, <1>8, <2>1 DEF AtNotice, NoticesTyped
  <2>2. CASE x = s
    BY <1>2, <1>4, <1>6, <1>8, <2>2 DEF AtNotice, Still
  <2> QED BY <2>1, <2>2
<1>9. ASSUME NEW x \in Notifiers, notifier'[x] # Still
      PROVE  /\ notifier[x] # Still
             /\ notifier'[x].stage = notifier[x].stage /\ notifier'[x].n = notifier[x].n
             /\ notifier'[x].deal = notifier[x].deal
  BY <1>2, <1>4, <1>6, <1>9
<1> QED BY <1>2, <1>5, <1>6, <1>7, <1>8, <1>9

(* What has been reached stays reached.                                    *)
LEMMA ReachedOn ==
  ASSUME NoticesTypeOK,
         TermAges \/ ActivatePlan \/ RenewPlan \/ UpgradePlan \/ term' = term
  PROVE  /\ \A n \in 0..MaxTerm, stage \in 0..5 : Reached(n, stage) => Reached(n, stage)'
         /\ term' \in [n : 0..MaxTerm, stage : 0..5, deal : 0..MaxTerm]
<1> USE NoticesAssumption DEF NoticesTypeOK
<1>1. /\ term \in [n : 0..MaxTerm, stage : 0..5, deal : 0..MaxTerm]
      /\ term.n \in 0..MaxTerm /\ term.stage \in 0..5 /\ term.deal \in 0..MaxTerm
  OBVIOUS
<1>2. CASE TermAges
  <2>1. /\ term'.n = term.n /\ term'.stage = term.stage + 1
        /\ term' \in [n : 0..MaxTerm, stage : 0..5, deal : 0..MaxTerm]
    BY <1>1, <1>2 DEF TermAges
  <2> QED BY <1>1, <2>1 DEF Reached, UpTo
<1>3. CASE RenewPlan
  <2>1. term'.n = term.n + 1 /\ term' \in [n : 0..MaxTerm, stage : 0..5, deal : 0..MaxTerm]
    BY <1>1, <1>3 DEF RenewPlan
  <2> QED BY <1>1, <2>1 DEF Reached, UpTo
<1>4. CASE ActivatePlan
  <2>1. term'.n = term.n + 1 /\ term' \in [n : 0..MaxTerm, stage : 0..5, deal : 0..MaxTerm]
    BY <1>1, <1>4 DEF ActivatePlan
  <2> QED BY <1>1, <2>1 DEF Reached, UpTo
<1>5. CASE UpgradePlan
  <2>1. /\ term'.n = term.n /\ term'.stage = term.stage
        /\ term' \in [n : 0..MaxTerm, stage : 0..5, deal : 0..MaxTerm]
    BY <1>1, <1>5 DEF UpgradePlan
  <2> QED BY <1>1, <2>1 DEF Reached, UpTo
<1>6. CASE term' = term
  BY <1>1, <1>6 DEF Reached, UpTo
<1> QED BY <1>2, <1>3, <1>4, <1>5, <1>6

(* Nothing is told ahead of a plan that goes on.                           *)
LEMMA AheadOn ==
  ASSUME NoticesInv,
         TermAges \/ ActivatePlan \/ RenewPlan \/ UpgradePlan \/ term' = term,
         \A s \in Notifiers : notifier'[s] # Still =>
           \/ /\ notifier[s] # Still
              /\ notifier'[s].n = notifier[s].n /\ notifier'[s].stage = notifier[s].stage
           \/ notifier'[s].n = term.n /\ notifier'[s].stage = term.stage /\ term' = term,
         \A a \in Admins : notice'[a].st # "none" =>
           \/ /\ notice[a].st # "none"
              /\ notice'[a].n = notice[a].n /\ notice'[a].stage = notice[a].stage
           \/ \E s \in Notifiers : /\ notifier[s] # Still
                                   /\ notice'[a].n = notifier[s].n
                                   /\ notice'[a].stage = notifier[s].stage,
         \A a \in Admins : \A n \in 0..MaxTerm, stage \in Stages :
           <<n, stage>> \in dropped'[a] =>
             \/ <<n, stage>> \in dropped[a]
             \/ notice[a].st # "none" /\ n = notice[a].n /\ stage = notice[a].stage
  PROVE  NothingAhead'
<1>0. NoticesTyped /\ NothingAhead
  BY DEF NoticesInv
<1> DEFINE Now(n, stage) == UpTo(n, stage, term'.n, term'.stage)
<1>1. \A n \in 0..MaxTerm, stage \in 0..5 : UpTo(n, stage, term.n, term.stage) => Now(n, stage)
  BY <1>0, ReachedOn DEF NoticesTyped, Reached
<1>2. \A stage \in Stages : stage \in 0..5
  BY DEF Stages
<1>3. ASSUME NEW s \in Notifiers, notifier[s] # Still
      PROVE  Now(notifier[s].n, notifier[s].stage)
  <2>1. UpTo(notifier[s].n, notifier[s].stage, term.n, term.stage)
    BY <1>0, <1>3 DEF NothingAhead, Reached
  <2> HIDE DEF Now
  <2> QED BY <1>0, <1>1, <1>3, <2>1, InOrder
<1>4. ASSUME NEW a \in Admins, notice[a].st # "none"
      PROVE  Now(notice[a].n, notice[a].stage)
  <2>1. UpTo(notice[a].n, notice[a].stage, term.n, term.stage)
    BY <1>0, <1>4 DEF NothingAhead, Reached
  <2> HIDE DEF Now
  <2> QED BY <1>0, <1>1, <1>4, <2>1, InOrder
<1>5. term' = term => Now(term.n, term.stage)
  BY <1>0, InOrder, StageOrder
<1> HIDE DEF Now
<1>6. ASSUME NEW s \in Notifiers, notifier'[s] # Still
      PROVE  Now(notifier'[s].n, notifier'[s].stage)
  BY <1>3, <1>5, <1>6
<1>7. ASSUME NEW a \in Admins, notice'[a].st # "none"
      PROVE  Now(notice'[a].n, notice'[a].stage)
  BY <1>3, <1>4, <1>7
<1>8. ASSUME NEW a \in Admins, NEW n \in 0..MaxTerm, NEW stage \in Stages, <<n, stage>> \in dropped'[a]
      PROVE  Now(n, stage)
  <2>1. <<n, stage>> \in dropped[a] => UpTo(n, stage, term.n, term.stage)
    BY <1>0 DEF NothingAhead, Reached
  <2> QED BY <1>1, <1>2, <1>4, <1>8, <2>1
<1> QED BY <1>6, <1>7, <1>8 DEF NothingAhead, Reached, Now

-----------------------------------------------------------------------------
(* The steps.                                                              *)
LEMMA PlanGoesOnKeeps ==
  ASSUME NoticesInv, TermAges \/ ActivatePlan
  PROVE  NoticesInv'
<1>0. /\ NoticesTyped /\ NothingAhead
      /\ \A a \in Admins \ outdated : DealKept(a)
      /\ \A a \in Admins \ overlapped : Undisturbed(a)
  BY DEF NoticesInv
<1>1. /\ notice' = notice /\ notifier' = notifier /\ dropped' = dropped
      /\ overlapped' = overlapped /\ outdated' = outdated
  BY DEF TermAges, ActivatePlan
<1>2. /\ term.stage \in 0..5 /\ term.n \in Nat
      /\ term \in [n : 0..MaxTerm, stage : 0..5, deal : 0..MaxTerm]
  BY <1>0, InOrder DEF NoticesTyped, NoticesTypeOK
<1>3. term'.deal = term.deal
  BY <1>2 DEF TermAges, ActivatePlan
<1>4. NoticesTyped'
  BY <1>0, <1>1, ReachedOn DEF NoticesTyped, NoticesTypeOK, AtNotice
<1>5. NothingAhead'
  BY <1>0, <1>1, AheadOn
<1>6. ASSUME NEW a \in Admins \ outdated
      PROVE  DealKept(a)'
  BY <1>0, <1>1, <1>3 DEF DealKept, ToTell, Tells, AtNotice
<1>7. ASSUME NEW a \in Admins \ overlapped
      PROVE  Undisturbed(a)'
  <2>1. Undisturbed(a)
    BY <1>0
  <2>2. NowSentAway(a)'
    <3>1. SUFFICES ASSUME term'.stage \in Stages, <<term'.n, term'.stage>> \in dropped'[a]
                   PROVE  FALSE
      BY DEF NowSentAway
    <3>2. CASE TermAges
      <4>1. term'.n = term.n /\ term'.stage = term.stage + 1
        BY <1>2, <3>2 DEF TermAges
      <4>2. term.n \in 0..MaxTerm
        BY <1>2
      <4>3. Reached(term.n, term.stage + 1)
        BY <1>0, <1>1, <3>1, <4>1, <4>2 DEF NothingAhead
      <4> QED BY <1>2, <4>3 DEF Reached, UpTo
    <3>3. CASE ActivatePlan
      <4>1. term'.stage = 0
        BY <1>2, <3>3 DEF ActivatePlan
      <4> QED BY <3>1, <4>1 DEF Stages
    <3> QED BY <3>2, <3>3
  <2>3. NoticeKept(a)' /\ OneTells(a)'
    BY <1>1, <2>1 DEF Undisturbed, NoticeKept, OneTells, Tells, AtNotice
  <2>4. LatestToTell(a)'
    BY <1>1, <2>1 DEF Undisturbed, LatestToTell, ToTell, Tells, AtNotice, SentAway
  <2>5. LaterTold(a)'
    BY <1>1, <2>1 DEF Undisturbed, LaterTold, Tells, AtNotice
  <2> QED BY <2>2, <2>3, <2>4, <2>5 DEF Undisturbed
<1> QED BY <1>1, <1>4, <1>5, <1>6, <1>7 DEF NoticesInv

LEMMA BoughtKeeps ==
  ASSUME NoticesInv, RenewPlan \/ UpgradePlan
  PROVE  NoticesInv'
<1>0. /\ NoticesTyped /\ NothingAhead
      /\ \A a \in Admins \ outdated : DealKept(a)
      /\ \A a \in Admins \ overlapped : Undisturbed(a)
  BY DEF NoticesInv
<1>1. /\ notice' = [a \in Admins |-> NoNotice] /\ notifier' = notifier
      /\ dropped' = [a \in Admins |-> {}]
      /\ outdated' = outdated \cup BeingTold /\ overlapped' = overlapped \cap BeingTold
  BY DEF RenewPlan, UpgradePlan, Bought
<1>2. outdated' \subseteq Admins /\ overlapped' \subseteq Admins
  BY <1>0, <1>1 DEF NoticesTyped, NoticesTypeOK, BeingTold
<1>3. \A a \in Admins : notice'[a].st = "none" /\ dropped'[a] = {}
  BY <1>1 DEF NoNotice
<1>4. NoticesTyped'
  <2>1. NoticesTypeOK'
    BY <1>0, <1>1, <1>2, ReachedOn DEF NoticesTyped, NoticesTypeOK, NoticeDocs
  <2> QED BY <1>0, <1>1, <2>1 DEF NoticesTyped, AtNotice
<1>5. NothingAhead'
  BY <1>0, <1>1, <1>3, AheadOn
<1>6. \A s \in Notifiers, a \in Admins : (ToTell(s, a)' <=> ToTell(s, a)) /\ (Tells(s, a)' <=> Tells(s, a))
  BY <1>1 DEF ToTell, Tells, AtNotice
<1>7. ASSUME NEW a \in Admins, a \notin outdated'
      PROVE  DealKept(a)'
  <2>1. \A s \in Notifiers : ~ToTell(s, a) /\ ~Tells(s, a)
    BY <1>1, <1>7 DEF BeingTold
  <2> QED BY <1>3, <1>6, <2>1 DEF DealKept
<1>8. ASSUME NEW a \in Admins, a \notin overlapped'
      PROVE  Undisturbed(a)'
  <2>1. OneTells(a) /\ \A s, y \in Notifiers : ToTell(s, a) /\ Tells(y, a) =>
          UpTo(notifier[y].n, notifier[y].stage, notifier[s].n, notifier[s].stage)
    <3>1. CASE a \in overlapped
      <4>1. \A s \in Notifiers : ~ToTell(s, a) /\ ~Tells(s, a)
        BY <1>1, <1>8, <3>1 DEF BeingTold
      <4> QED BY <4>1 DEF OneTells
    <3>2. CASE a \notin overlapped
      BY <1>0, <3>2 DEF Undisturbed, LatestToTell
    <3> QED BY <3>1, <3>2
  <2>2. NoticeKept(a)' /\ NowSentAway(a)' /\ LaterTold(a)' /\ OneTells(a)'
    BY <1>3, <1>6, <2>1 DEF NoticeKept, NowSentAway, LaterTold, OneTells
  <2>3. LatestToTell(a)'
    BY <1>1, <1>3, <1>6, <2>1 DEF LatestToTell
  <2> QED BY <2>2, <2>3 DEF Undisturbed
<1> QED BY <1>2, <1>4, <1>5, <1>7, <1>8 DEF NoticesInv

LEMMA DismissNoticeKeeps ==
  ASSUME NoticesInv, NEW a \in Admins, DismissNotice(a)
  PROVE  NoticesInv'
<1> DEFINE gone == [st |-> "dismissed", stage |-> notice[a].stage, n |-> notice[a].n,
                    deal |-> notice[a].deal]
<1>0. /\ NoticesTyped /\ NothingAhead
      /\ \A b \in Admins \ outdated : DealKept(b)
      /\ \A b \in Admins \ overlapped : Undisturbed(b)
  BY DEF NoticesInv
<1>1. /\ notifier' = notifier /\ term' = term /\ overlapped' = overlapped /\ outdated' = outdated
      /\ notice[a].st = "live"
      /\ dropped' = IF a \in overlapped THEN dropped
                    ELSE [dropped EXCEPT ![a] = @ \cup {<<notice[a].n, notice[a].stage>>}]
  BY DEF DismissNotice
<1>2. /\ notice[a].stage \in Stages /\ notice[a].n \in 0..MaxTerm /\ notice[a].deal \in 0..MaxTerm
      /\ notice[a] = [st |-> "live", stage |-> notice[a].stage, n |-> notice[a].n,
                      deal |-> notice[a].deal]
  BY <1>0, <1>1, NoticeShapes DEF NoticesTyped, NoticesTypeOK, NoNotice
<1>3. notice' = [notice EXCEPT ![a] = gone]
  <2>1. [notice[a] EXCEPT !.st = "dismissed"] = gone
    BY <1>2
  <2> QED BY <2>1 DEF DismissNotice
<1>4. /\ gone \in NoticeDocs /\ gone.st = "dismissed" /\ gone.stage = notice[a].stage
      /\ gone.n = notice[a].n /\ gone.deal = notice[a].deal
  BY <1>2 DEF NoticeDocs
<1>5. notice'[a] = gone /\ \A b \in Admins : b # a => notice'[b] = notice[b]
  BY <1>0, <1>3 DEF NoticesTyped, NoticesTypeOK
<1>6. /\ a \notin overlapped => dropped'[a] = dropped[a] \cup {<<notice[a].n, notice[a].stage>>}
      /\ a \in overlapped => dropped' = dropped
      /\ \A b \in Admins : b # a => dropped'[b] = dropped[b]
  BY <1>0, <1>1 DEF NoticesTyped
<1> HIDE DEF gone
<1>7. NoticesTyped'
  <2>1. NoticesTypeOK'
    BY <1>0, <1>1, <1>3, <1>4 DEF NoticesTyped, NoticesTypeOK
  <2>2. dropped' \in [Admins -> SUBSET ((0..MaxTerm) \X Stages)]
    BY <1>0, <1>1, <1>2 DEF NoticesTyped
  <2> QED BY <1>0, <1>1, <2>1, <2>2 DEF NoticesTyped, AtNotice
<1>8. NothingAhead'
  <2>1. ASSUME NEW b \in Admins, NEW n \in 0..MaxTerm, NEW stage \in Stages,
               <<n, stage>> \in dropped'[b]
        PROVE  \/ <<n, stage>> \in dropped[b]
               \/ notice[b].st # "none" /\ n = notice[b].n /\ stage = notice[b].stage
    BY <1>1, <1>6, <2>1
  <2>2. ASSUME NEW b \in Admins, notice'[b].st # "none"
        PROVE  /\ notice[b].st # "none"
               /\ notice'[b].n = notice[b].n /\ notice'[b].stage = notice[b].stage
    BY <1>1, <1>4, <1>5, <2>2
  <2> QED BY <1>1, <2>1, <2>2, AheadOn
<1>9. ASSUME NEW b \in Admins \ outdated
      PROVE  DealKept(b)'
  <2>1. notice'[b].deal = notice[b].deal /\ (notice'[b].st # "none" => notice[b].st # "none")
    BY <1>1, <1>4, <1>5
  <2> QED BY <1>0, <1>1, <2>1 DEF DealKept, ToTell, Tells, AtNotice
<1>10. ASSUME NEW b \in Admins \ overlapped
       PROVE  Undisturbed(b)'
  <2>1. Undisturbed(b)
    BY <1>0
  <2>2. CASE b # a
    <3>1. notice'[b] = notice[b] /\ dropped'[b] = dropped[b]
      BY <1>5, <1>6, <2>2
    <3>2. NoticeKept(b)' /\ OneTells(b)'
      BY <1>1, <2>1, <3>1 DEF Undisturbed, NoticeKept, OneTells, Tells, AtNotice
    <3>3. LatestToTell(b)'
      BY <1>1, <2>1, <3>1 DEF Undisturbed, LatestToTell, ToTell, Tells, AtNotice, SentAway
    <3>4. LaterTold(b)' /\ NowSentAway(b)'
      BY <1>1, <2>1, <3>1 DEF Undisturbed, LaterTold, NowSentAway, SentAway, Tells, AtNotice
    <3> QED BY <3>2, <3>3, <3>4 DEF Undisturbed
  <2>3. CASE b = a
    <3>1. <<notice[a].n, notice[a].stage>> \notin dropped[a]
      BY <1>1, <2>1, <2>3 DEF Undisturbed, NoticeKept
    <3>2. \A n \in 0..MaxTerm, stage \in Stages : <<n, stage>> \in dropped'[a] =>
            (n = notice[a].n /\ stage = notice[a].stage) \/ <<n, stage>> \in dropped[a]
      BY <1>6, <2>3
    <3>3. NoticeKept(b)' /\ OneTells(b)'
      BY <1>1, <1>4, <1>5, <2>1, <2>3
         DEF Undisturbed, NoticeKept, OneTells, Tells, AtNotice
    <3>4. \A n \in 0..MaxTerm, stage \in Stages : ~SentAway(a, n, stage)
      BY <1>1 DEF SentAway
    <3>5. /\ notice'[a].st = "dismissed"
          /\ notice'[a].n = notice[a].n /\ notice'[a].stage = notice[a].stage
      BY <1>1, <1>4, <1>5
    <3>6. LatestToTell(b)'
      <4>1. SUFFICES ASSUME NEW s \in Notifiers, ToTell(s, a)
                     PROVE  /\ \A n \in 0..MaxTerm, stage \in Stages : <<n, stage>> \in dropped'[a] =>
                                 UpTo(n, stage, notifier[s].n, notifier[s].stage)
                            /\ \A y \in Notifiers : Tells(y, a) =>
                                 UpTo(notifier[y].n, notifier[y].stage, notifier[s].n, notifier[s].stage)
                            /\ <<notifier[s].n, notifier[s].stage>> \in dropped'[a] =>
                                 SentAway(a, notifier[s].n, notifier[s].stage)'
        BY <1>1, <1>4, <1>5, <2>3 DEF LatestToTell, ToTell, Tells, AtNotice, SentAway
      <4>2. /\ \A n \in 0..MaxTerm, stage \in Stages : <<n, stage>> \in dropped[a] =>
                 UpTo(n, stage, notifier[s].n, notifier[s].stage)
            /\ UpTo(notice[a].n, notice[a].stage, notifier[s].n, notifier[s].stage)
            /\ \A y \in Notifiers : Tells(y, a) =>
                 UpTo(notifier[y].n, notifier[y].stage, notifier[s].n, notifier[s].stage)
            /\ <<notifier[s].n, notifier[s].stage>> \in dropped[a] =>
                 SentAway(a, notifier[s].n, notifier[s].stage)
        BY <1>1, <2>1, <2>3, <4>1 DEF Undisturbed, LatestToTell
      <4>3. notifier[s].stage \in Stages /\ notifier[s].n \in 0..MaxTerm
        BY <1>0, <4>1, InOrder DEF ToTell
      <4>4. <<notifier[s].n, notifier[s].stage>> \in dropped'[a] =>
              notifier[s].n = notice[a].n /\ notifier[s].stage = notice[a].stage
        BY <3>2, <3>4, <4>2, <4>3
      <4>5. \A n \in 0..MaxTerm, stage \in Stages : <<n, stage>> \in dropped'[a] =>
              UpTo(n, stage, notifier[s].n, notifier[s].stage)
        BY <3>2, <4>2
      <4>6. notifier[s].n = notice[a].n /\ notifier[s].stage = notice[a].stage =>
              SentAway(a, notifier[s].n, notifier[s].stage)'
        BY <1>1, <3>5 DEF SentAway
      <4> QED BY <4>2, <4>4, <4>5, <4>6
    <3>7. LaterTold(b)'
      <4>1. SUFFICES ASSUME NEW y \in Notifiers, Tells(y, a)
                     PROVE  \A n \in 0..MaxTerm, stage \in Stages : <<n, stage>> \in dropped'[a] =>
                              Earlier(n, stage, notifier[y].n, notifier[y].stage)
        BY <1>1, <1>4, <1>5, <2>3 DEF LaterTold, Tells, AtNotice
      <4>2. /\ \A n \in 0..MaxTerm, stage \in Stages : <<n, stage>> \in dropped[a] =>
                 Earlier(n, stage, notifier[y].n, notifier[y].stage)
            /\ Earlier(notice[a].n, notice[a].stage, notifier[y].n, notifier[y].stage)
        BY <1>1, <2>1, <2>3, <4>1 DEF Undisturbed, LaterTold
      <4> QED BY <3>2, <4>2
    <3>8. NowSentAway(b)'
      <4>1. SUFFICES ASSUME term.stage \in Stages, <<term.n, term.stage>> \in dropped'[a]
                     PROVE  SentAway(a, term.n, term.stage)'
        BY <1>1, <2>3 DEF NowSentAway, SentAway
      <4>2. term.n \in 0..MaxTerm
        BY <1>0 DEF NoticesTyped, NoticesTypeOK
      <4>3. term.n = notice[a].n /\ term.stage = notice[a].stage
        BY <3>2, <3>4, <2>1, <2>3, <4>1, <4>2 DEF Undisturbed, NowSentAway
      <4>4. /\ notice'[a].st = "dismissed"
            /\ term'.n = notice'[a].n /\ term'.stage = notice'[a].stage
        BY <1>1, <3>5, <4>3
      <4> QED BY <1>1, <4>4 DEF SentAway
    <3> QED BY <3>3, <3>6, <3>7, <3>8 DEF Undisturbed
  <2> QED BY <2>2, <2>3
<1> QED BY <1>1, <1>7, <1>8, <1>9, <1>10 DEF NoticesInv

LEMMA FindTermsKeeps ==
  ASSUME NoticesInv, NEW s \in Notifiers, FindTerms(s)
  PROVE  NoticesInv'
<1> DEFINE q == [st |-> "next", todo |-> Admins, who |-> "nobody",
                 stage |-> term.stage, n |-> term.n, deal |-> term.deal]
           r == IF q.st = "next" /\ q.todo = {} THEN Still ELSE q
<1>0. /\ NoticesTyped /\ NothingAhead
      /\ \A b \in Admins \ outdated : DealKept(b)
      /\ \A b \in Admins \ overlapped : Undisturbed(b)
  BY DEF NoticesInv
<1>1. /\ notice' = notice /\ term' = term /\ overlapped' = overlapped /\ dropped' = dropped
      /\ outdated' = outdated /\ notifier[s] = Still /\ term.stage \in Stages
      /\ notifier' = [notifier EXCEPT ![s] = r]
  BY DEF FindTerms, Notifies
<1>2. term.n \in 0..MaxTerm /\ term.deal \in 0..MaxTerm
  BY <1>0 DEF NoticesTyped, NoticesTypeOK
<1>3. /\ q \in NotifierDocs /\ q # Still /\ q.st = "next" /\ q.todo = Admins
      /\ q.stage = term.stage /\ q.n = term.n /\ q.deal = term.deal
  BY <1>1, <1>2 DEF NotifierDocs, Still
<1>4. r \in NotifierDocs /\ (r = Still \/ r = q)
  BY <1>3 DEF NotifierDocs
<1> HIDE DEF q, r
<1>5. notifier'[s] = r /\ \A x \in Notifiers : x # s => notifier'[x] = notifier[x]
  BY <1>0, <1>1 DEF NoticesTyped
<1>6. NoticesTyped'
  <2>1. notifier' \in [Notifiers -> NotifierDocs]
    BY <1>0, <1>1, <1>4 DEF NoticesTyped
  <2>2. ASSUME NEW x \in Notifiers, AtNotice(x)'
        PROVE  notifier'[x].who \in Admins
    <3>1. x # s
      BY <1>3, <1>4, <1>5, <2>2 DEF AtNotice, Still
    <3> QED BY <1>0, <1>5, <2>2, <3>1 DEF NoticesTyped, AtNotice
  <2> QED BY <1>0, <1>1, <2>1, <2>2 DEF NoticesTyped, NoticesTypeOK
<1>7. NothingAhead'
  <2>1. \A x \in Notifiers : notifier'[x] # Still =>
           \/ /\ notifier[x] # Still
              /\ notifier'[x].n = notifier[x].n /\ notifier'[x].stage = notifier[x].stage
           \/ notifier'[x].n = term.n /\ notifier'[x].stage = term.stage /\ term' = term
    BY <1>1, <1>3, <1>4, <1>5
  <2> QED BY <1>1, <2>1, AheadOn
<1>8. \A x \in Notifiers, b \in Admins :
        /\ Tells(x, b)' <=> Tells(x, b)
        /\ Tells(x, b) => x # s
        /\ ToTell(x, b)' => IF x = s THEN notifier'[x] = q ELSE ToTell(x, b)
  <2>1. ASSUME NEW x \in Notifiers, NEW b \in Admins, x # s
        PROVE  (Tells(x, b)' <=> Tells(x, b)) /\ (ToTell(x, b)' => ToTell(x, b))
    BY <1>5, <2>1 DEF Tells, ToTell, AtNotice
  <2>2. ASSUME NEW b \in Admins
        PROVE  ~Tells(s, b)' /\ ~Tells(s, b) /\ (ToTell(s, b)' => notifier'[s] = q)
    BY <1>1, <1>3, <1>4, <1>5 DEF Tells, ToTell, AtNotice, Still
  <2> QED BY <2>1, <2>2
<1>9. ASSUME NEW b \in Admins \ outdated
      PROVE  DealKept(b)'
  BY <1>0, <1>1, <1>3, <1>5, <1>8 DEF DealKept
<1>10. ASSUME NEW b \in Admins \ overlapped
       PROVE  Undisturbed(b)'
  <2>1. Undisturbed(b)
    BY <1>0
  <2>2. NoticeKept(b)' /\ OneTells(b)' /\ NowSentAway(b)'
    BY <1>1, <1>8, <2>1 DEF Undisturbed, NoticeKept, OneTells, NowSentAway, SentAway
  <2>3. LaterTold(b)'
    BY <1>1, <1>5, <1>8, <2>1 DEF Undisturbed, LaterTold
  <2>4. LatestToTell(b)'
    <3>1. \A n \in 0..MaxTerm, stage \in Stages : <<n, stage>> \in dropped[b] =>
            UpTo(n, stage, term.n, term.stage)
      BY <1>0 DEF NothingAhead, Reached
    <3>2. notice[b].st = "live" => UpTo(notice[b].n, notice[b].stage, term.n, term.stage)
      BY <1>0 DEF NothingAhead, Reached
    <3>3. \A y \in Notifiers : Tells(y, b) =>
            UpTo(notifier[y].n, notifier[y].stage, term.n, term.stage)
      BY <1>0, TellsShapes DEF NothingAhead, Reached, Tells
    <3>4. <<term.n, term.stage>> \in dropped[b] => SentAway(b, term.n, term.stage)
      BY <1>1, <2>1 DEF Undisturbed, NowSentAway
    <3>5. SUFFICES ASSUME NEW x \in Notifiers, ToTell(x, b)'
                   PROVE  /\ \A n \in 0..MaxTerm, stage \in Stages : <<n, stage>> \in dropped[b] =>
                               UpTo(n, stage, notifier'[x].n, notifier'[x].stage)
                          /\ notice[b].st = "live" =>
                               UpTo(notice[b].n, notice[b].stage, notifier'[x].n, notifier'[x].stage)
                          /\ \A y \in Notifiers : Tells(y, b) =>
                               UpTo(notifier[y].n, notifier[y].stage, notifier'[x].n, notifier'[x].stage)
                          /\ <<notifier'[x].n, notifier'[x].stage>> \in dropped[b] =>
                               SentAway(b, notifier'[x].n, notifier'[x].stage)
      BY <1>1, <1>5, <1>8 DEF LatestToTell, SentAway
    <3>6. CASE x = s
      <4>1. notifier'[x].n = term.n /\ notifier'[x].stage = term.stage
        BY <1>3, <1>8, <3>5, <3>6
      <4> QED BY <3>1, <3>2, <3>3, <3>4, <4>1
    <3>7. CASE x # s
      <4>1. ToTell(x, b) /\ notifier'[x] = notifier[x]
        BY <1>5, <1>8, <3>5, <3>7
      <4> QED BY <2>1, <4>1 DEF Undisturbed, LatestToTell
    <3> QED BY <3>6, <3>7
  <2> QED BY <2>2, <2>3, <2>4 DEF Undisturbed
<1> QED BY <1>1, <1>6, <1>7, <1>9, <1>10 DEF NoticesInv

LEMMA NotifierEndsKeeps ==
  ASSUME NoticesInv, NEW s \in Notifiers, NotifierEnds(s)
  PROVE  NoticesInv'
<1>0. /\ NoticesTyped /\ NothingAhead
      /\ \A b \in Admins \ outdated : DealKept(b)
      /\ \A b \in Admins \ overlapped : Undisturbed(b)
  BY DEF NoticesInv
<1>1. /\ notice' = notice /\ term' = term /\ overlapped' = overlapped /\ dropped' = dropped
      /\ outdated' = outdated /\ notifier' = [notifier EXCEPT ![s] = Still]
  BY DEF NotifierEnds, Notifies, Still
<1>2. notifier'[s] = Still /\ \A x \in Notifiers : x # s => notifier'[x] = notifier[x]
  BY <1>0, <1>1 DEF NoticesTyped
<1>3. NoticesTyped'
  <2>1. notifier' \in [Notifiers -> NotifierDocs]
    BY <1>0, <1>1 DEF NoticesTyped, NotifierDocs
  <2>2. \A x \in Notifiers : AtNotice(x)' => notifier'[x].who \in Admins
    BY <1>0, <1>2 DEF NoticesTyped, AtNotice, Still
  <2> QED BY <1>0, <1>1, <2>1, <2>2 DEF NoticesTyped, NoticesTypeOK
<1>4. NothingAhead'
  <2>1. \A x \in Notifiers : notifier'[x] # Still => notifier'[x] = notifier[x]
    BY <1>2
  <2> QED BY <1>0, <1>1, <2>1, AheadOn
<1>5. \A x \in Notifiers, b \in Admins : Tells(x, b)' \/ ToTell(x, b)' => x # s
  BY <1>2 DEF Tells, ToTell, AtNotice, Still
<1>6. \A x \in Notifiers, b \in Admins : /\ Tells(x, b)' => Tells(x, b)
                                         /\ ToTell(x, b)' => ToTell(x, b)
  BY <1>2, <1>5 DEF Tells, ToTell, AtNotice
<1>7. ASSUME NEW b \in Admins \ outdated
      PROVE  DealKept(b)'
  BY <1>0, <1>1, <1>2, <1>5, <1>6 DEF DealKept
<1>8. ASSUME NEW b \in Admins \ overlapped
      PROVE  Undisturbed(b)'
  <2>1. Undisturbed(b)
    BY <1>0
  <2>2. NoticeKept(b)' /\ OneTells(b)' /\ NowSentAway(b)'
    BY <1>1, <1>6, <2>1 DEF Undisturbed, NoticeKept, OneTells, NowSentAway, SentAway
  <2>3. LaterTold(b)' /\ LatestToTell(b)'
    BY <1>1, <1>2, <1>5, <1>6, <2>1 DEF Undisturbed, LaterTold, LatestToTell, SentAway
  <2> QED BY <2>2, <2>3 DEF Undisturbed
<1> QED BY <1>1, <1>3, <1>4, <1>7, <1>8 DEF NoticesInv

(* Has, from both sides.                                                   *)
LEMMA HasSaid ==
  ASSUME NEW q, NEW a
  PROVE  /\ ~Has(q, a) => ~SentAway(a, q.n, q.stage)
         /\ ~Has(q, a) /\ notice[a].st = "live" =>
              <<notice[a].n, notice[a].stage>> # <<q.n, q.stage>>
BY DEF Has, SentAway

LEMMA FindNoticeKeeps ==
  ASSUME NoticesInv, NEW s \in Notifiers, NEW a \in Admins, FindNotice(s, a)
  PROVE  NoticesInv'
<1> DEFINE q == notifier[s]
           st == IF Has(q, a) THEN "next" ELSE "delete"
           clash == \E x \in Notifiers \ {s} : Collides(x, q, a)
<1>0. /\ NoticesTyped /\ NothingAhead
      /\ \A b \in Admins \ outdated : DealKept(b)
      /\ \A b \in Admins \ overlapped : Undisturbed(b)
  BY DEF NoticesInv
<1>1. /\ notice' = notice /\ term' = term /\ outdated' = outdated
      /\ q.st = "next" /\ a \in q.todo
      /\ overlapped' = IF clash THEN overlapped \cup {a} ELSE overlapped
      /\ dropped' = IF clash THEN [dropped EXCEPT ![a] = {}] ELSE dropped
      /\ Notifies(s, [q EXCEPT !.todo = @ \ {a}, !.who = a, !.st = st])
  BY DEF FindNotice
<1>2. /\ q # Still /\ q.todo \subseteq Admins /\ q.stage \in Stages /\ q.n \in 0..MaxTerm
      /\ q.deal \in 0..MaxTerm
      /\ q = [st |-> q.st, todo |-> q.todo, who |-> q.who, stage |-> q.stage, n |-> q.n,
              deal |-> q.deal]
  BY <1>0, <1>1, NotifierShapes DEF NoticesTyped, Still
<1>3. st \in {"next", "delete"} /\ (st # "next" => ~Has(q, a))
  OBVIOUS
<1>4. Notifies(s, [st |-> st, todo |-> q.todo \ {a}, who |-> a,
                   stage |-> q.stage, n |-> q.n, deal |-> q.deal])
  <2>1. [q EXCEPT !.todo = @ \ {a}, !.who = a, !.st = st]
          = [st |-> st, todo |-> q.todo \ {a}, who |-> a, stage |-> q.stage, n |-> q.n,
             deal |-> q.deal]
    <3>1. q = [st |-> q.st, todo |-> q.todo, who |-> q.who, stage |-> q.stage, n |-> q.n,
               deal |-> q.deal]
      BY <1>2
    <3> DEFINE rest == q.todo \ {a}
    <3> DEFINE e == [q EXCEPT !.todo = rest]
               f == [e EXCEPT !.who = a]
    <3> HIDE DEF st, rest, q
    <3>2. e = [st |-> q.st, todo |-> rest, who |-> q.who, stage |-> q.stage, n |-> q.n,
               deal |-> q.deal]
      BY <3>1
    <3>3. f = [st |-> q.st, todo |-> rest, who |-> a, stage |-> q.stage, n |-> q.n,
               deal |-> q.deal]
      <4> HIDE DEF e
      <4> QED BY <3>2
    <3>4. [f EXCEPT !.st = st]
            = [st |-> st, todo |-> rest, who |-> a, stage |-> q.stage, n |-> q.n,
               deal |-> q.deal]
      <4> HIDE DEF f
      <4> QED BY <3>3
    <3> QED BY <3>4 DEF rest
  <2> QED BY <1>1, <2>1
<1>5. /\ notifier' \in [Notifiers -> NotifierDocs]
      /\ \A x \in Notifiers : AtNotice(x)' => notifier'[x].who \in Admins
      /\ \A x \in Notifiers : notifier'[x] # Still =>
           /\ notifier[x] # Still
           /\ notifier'[x].stage = notifier[x].stage /\ notifier'[x].n = notifier[x].n
           /\ notifier'[x].deal = notifier[x].deal
      /\ \A x \in Notifiers : x # s => notifier'[x] = notifier[x]
      /\ \/ notifier'[s] = Still
         \/ /\ notifier'[s].st = st /\ notifier'[s].todo = q.todo \ {a}
            /\ notifier'[s].who = a
  <2>1. q.todo \ {a} \in SUBSET Admins
    BY <1>2
  <2> HIDE DEF st
  <2> QED BY <1>0, <1>2, <1>3, <1>4, <2>1, NotifierGoesOn
<1>6. /\ dropped' \in [Admins -> SUBSET ((0..MaxTerm) \X Stages)]
      /\ \A b \in Admins : b # a => dropped'[b] = dropped[b]
      /\ ~clash => dropped' = dropped
      /\ dropped'[a] \subseteq dropped[a]
  <2> HIDE DEF clash
  <2> QED BY <1>0, <1>1 DEF NoticesTyped
<1>7. NoticesTyped'
  <2> HIDE DEF clash
  <2> QED BY <1>0, <1>1, <1>5, <1>6 DEF NoticesTyped, NoticesTypeOK
<1>8. NothingAhead'
  <2>1. \A b \in Admins : dropped'[b] \subseteq dropped[b]
    BY <1>6
  <2> QED BY <1>0, <1>1, <1>5, <2>1, AheadOn
<1>9. \A x \in Notifiers, b \in Admins :
        /\ ToTell(x, b)' => ToTell(x, b) /\ (x = s => b # a)
        /\ Tells(x, b)' => IF x = s THEN b = a /\ ~Has(q, a) ELSE Tells(x, b)
        /\ Tells(x, b) => x # s
        /\ ToTell(x, b)' \/ Tells(x, b)' => notifier'[x] # Still
  <2>1. ASSUME NEW x \in Notifiers, NEW b \in Admins, x # s
        PROVE  (ToTell(x, b)' => ToTell(x, b)) /\ (Tells(x, b)' => Tells(x, b))
    BY <1>5, <2>1 DEF ToTell, Tells, AtNotice
  <2>2. ASSUME NEW b \in Admins
        PROVE  /\ ToTell(s, b)' => ToTell(s, b) /\ b # a
               /\ Tells(s, b)' => b = a /\ ~Has(q, a)
               /\ ~Tells(s, b)
    <3> HIDE DEF q, st
    <3>1. ToTell(s, b)' => ToTell(s, b) /\ b # a
      BY <1>2, <1>5 DEF ToTell, q
    <3>2. Tells(s, b)' => b = a /\ ~Has(q, a)
      BY <1>3, <1>5 DEF Tells, AtNotice, Still
    <3>3. ~Tells(s, b)
      BY <1>1 DEF Tells, AtNotice, q
    <3> QED BY <3>1, <3>2, <3>3
  <2>3. ASSUME NEW x \in Notifiers, NEW b \in Admins, ToTell(x, b)' \/ Tells(x, b)'
        PROVE  notifier'[x] # Still
    BY <2>3 DEF ToTell, Tells, AtNotice, Still
  <2> QED BY <2>1, <2>2, <2>3
<1>10. ToTell(s, a)
  BY <1>1, <1>2 DEF ToTell
<1>11. ASSUME NEW b \in Admins \ outdated
       PROVE  DealKept(b)'
  <2>1. \A x \in Notifiers : ToTell(x, b)' \/ Tells(x, b)' => notifier'[x].deal = term.deal
    BY <1>0, <1>5, <1>9, <1>10, <1>11 DEF DealKept
  <2> QED BY <1>0, <1>1, <1>11, <2>1 DEF DealKept
<1>12. ASSUME NEW b \in Admins, b \notin overlapped'
       PROVE  Undisturbed(b)'
  <2>0. b \notin overlapped /\ (b = a => ~clash) /\ dropped'[b] = dropped[b]
    BY <1>1, <1>6, <1>12
  <2>1. Undisturbed(b)
    BY <1>0, <2>0
  <2>2. NoticeKept(b)' /\ NowSentAway(b)'
    BY <1>1, <2>0, <2>1 DEF Undisturbed, NoticeKept, NowSentAway, SentAway
  <2>3. \A x \in Notifiers : Tells(x, b)' \/ ToTell(x, b)' =>
          notifier'[x].stage = notifier[x].stage /\ notifier'[x].n = notifier[x].n
    BY <1>5, <1>9
  <2>4. CASE b # a
    <3>1. \A x \in Notifiers : (Tells(x, b)' => Tells(x, b)) /\ (ToTell(x, b)' => ToTell(x, b))
      BY <1>9, <2>4
    <3>2. OneTells(b)'
      BY <2>1, <3>1 DEF Undisturbed, OneTells
    <3>3. LaterTold(b)' /\ LatestToTell(b)'
      BY <1>1, <2>0, <2>1, <2>3, <3>1 DEF Undisturbed, LaterTold, LatestToTell, SentAway
    <3> QED BY <2>2, <3>2, <3>3 DEF Undisturbed
  <2>5. CASE b = a
    <3>1. \A x \in Notifiers \ {s} :
            /\ ~Tells(x, a)
            /\ ToTell(x, a) => notifier[x].n = q.n /\ notifier[x].stage = q.stage
      BY <2>0, <2>5 DEF Collides
    <3>2. \A x \in Notifiers : Tells(x, a)' => x = s /\ ~Has(q, a)
      BY <1>9, <3>1
    <3>3. \A x \in Notifiers : ToTell(x, a)' => ToTell(x, a) /\ x # s
      BY <1>9
    <3>4. OneTells(a)'
      BY <3>2 DEF OneTells
    <3>5. /\ \A n \in 0..MaxTerm, stage \in Stages : <<n, stage>> \in dropped[a] =>
               UpTo(n, stage, q.n, q.stage)
          /\ notice[a].st = "live" => UpTo(notice[a].n, notice[a].stage, q.n, q.stage)
          /\ <<q.n, q.stage>> \in dropped[a] => SentAway(a, q.n, q.stage)
      BY <1>10, <2>1, <2>5 DEF Undisturbed, LatestToTell
    <3>6. q.n \in Nat /\ q.stage \in 0..5
      BY <1>0, <1>2, InOrder
    <3>7. LatestToTell(a)'
      <4>1. SUFFICES ASSUME NEW x \in Notifiers, ToTell(x, a)'
                     PROVE  /\ \A n \in 0..MaxTerm, stage \in Stages : <<n, stage>> \in dropped[a] =>
                                 UpTo(n, stage, notifier'[x].n, notifier'[x].stage)
                            /\ notice[a].st = "live" =>
                                 UpTo(notice[a].n, notice[a].stage, notifier'[x].n, notifier'[x].stage)
                            /\ \A y \in Notifiers : Tells(y, a)' =>
                                 UpTo(notifier'[y].n, notifier'[y].stage, notifier'[x].n, notifier'[x].stage)
                            /\ <<notifier'[x].n, notifier'[x].stage>> \in dropped[a] =>
                                 SentAway(a, notifier'[x].n, notifier'[x].stage)
        BY <1>1, <2>0, <2>5 DEF LatestToTell, SentAway
      <4>2. notifier'[x].n = q.n /\ notifier'[x].stage = q.stage
        BY <2>3, <2>5, <3>1, <3>3, <4>1
      <4>3. \A y \in Notifiers : Tells(y, a)' => notifier'[y].n = q.n /\ notifier'[y].stage = q.stage
        BY <2>3, <2>5, <3>2
      <4>4. UpTo(q.n, q.stage, q.n, q.stage)
        BY <3>6, StageOrder
      <4> QED BY <3>5, <4>2, <4>3, <4>4
    <3>8. LaterTold(a)'
      <4>1. SUFFICES ASSUME Tells(s, a)', ~Has(q, a)
                     PROVE  /\ \A n \in 0..MaxTerm, stage \in Stages : <<n, stage>> \in dropped[a] =>
                                 Earlier(n, stage, q.n, q.stage)
                            /\ notice[a].st = "live" =>
                                 Earlier(notice[a].n, notice[a].stage, q.n, q.stage)
        BY <1>1, <2>0, <2>3, <2>5, <3>2 DEF LaterTold
      <4>2. <<q.n, q.stage>> \notin dropped[a]
        BY <3>5, <4>1, HasSaid
      <4>3. notice[a].st = "live" => <<notice[a].n, notice[a].stage>> # <<q.n, q.stage>>
        BY <4>1, HasSaid
      <4>4. notice[a].st = "live" => notice[a].n \in Nat /\ notice[a].stage \in 0..5
        BY <1>0, InOrder
      <4>5. \A n \in 0..MaxTerm, stage \in Stages : n \in Nat /\ stage \in 0..5
        BY NoticesAssumption DEF Stages
      <4>6. \A n \in 0..MaxTerm, stage \in Stages : <<n, stage>> \in dropped[a] =>
              Earlier(n, stage, q.n, q.stage)
        BY <3>5, <3>6, <4>2, <4>5, StageOrder
      <4>7. notice[a].st = "live" => Earlier(notice[a].n, notice[a].stage, q.n, q.stage)
        BY <3>5, <3>6, <4>3, <4>4, StageOrder
      <4> QED BY <4>6, <4>7
    <3> QED BY <2>2, <2>5, <3>4, <3>7, <3>8 DEF Undisturbed
  <2> QED BY <2>4, <2>5
<1> QED BY <1>7, <1>8, <1>11, <1>12, <1>1 DEF NoticesInv

LEMMA DeleteNoticeKeeps ==
  ASSUME NoticesInv, NEW s \in Notifiers, DeleteNotice(s)
  PROVE  NoticesInv'
<1> DEFINE q == notifier[s]
           a == q.who
<1>0. /\ NoticesTyped /\ NothingAhead
      /\ \A b \in Admins \ outdated : DealKept(b)
      /\ \A b \in Admins \ overlapped : Undisturbed(b)
  BY DEF NoticesInv
<1>1. /\ q.st = "delete" /\ term' = term /\ overlapped' = overlapped /\ dropped' = dropped
      /\ outdated' = outdated
      /\ notice' = [notice EXCEPT ![a] = NoNotice]
      /\ Notifies(s, [q EXCEPT !.st = "create"])
  BY DEF DeleteNotice
<1>2. /\ a \in Admins /\ q # Still /\ q.todo \subseteq Admins /\ q.stage \in Stages /\ q.n \in 0..MaxTerm
      /\ q.deal \in 0..MaxTerm
      /\ q = [st |-> q.st, todo |-> q.todo, who |-> q.who, stage |-> q.stage, n |-> q.n,
              deal |-> q.deal]
  BY <1>0, <1>1, NotifierShapes DEF NoticesTyped, AtNotice, Still
<1>3. Notifies(s, [st |-> "create", todo |-> q.todo, who |-> a, stage |-> q.stage, n |-> q.n,
                   deal |-> q.deal])
  <2>1. [q EXCEPT !.st = "create"]
          = [st |-> "create", todo |-> q.todo, who |-> a, stage |-> q.stage, n |-> q.n,
             deal |-> q.deal]
    <3> HIDE DEF q
    <3> QED BY <1>2
  <2> QED BY <1>1, <2>1
<1>4. /\ notifier' \in [Notifiers -> NotifierDocs]
      /\ \A x \in Notifiers : AtNotice(x)' => notifier'[x].who \in Admins
      /\ \A x \in Notifiers : notifier'[x] # Still =>
           /\ notifier[x] # Still
           /\ notifier'[x].stage = notifier[x].stage /\ notifier'[x].n = notifier[x].n
           /\ notifier'[x].deal = notifier[x].deal
      /\ \A x \in Notifiers : x # s => notifier'[x] = notifier[x]
      /\ notifier'[s].st = "create" /\ notifier'[s].todo = q.todo /\ notifier'[s].who = a
      /\ notifier'[s] # Still
  BY <1>0, <1>2, <1>3, NotifierGoesOn
<1> HIDE DEF a
<1>5. notice'[a] = NoNotice /\ \A b \in Admins : b # a => notice'[b] = notice[b]
  BY <1>0, <1>1, <1>2 DEF NoticesTyped, NoticesTypeOK
<1>6. NoticesTyped'
  <2>1. NoticesTypeOK'
    BY <1>0, <1>1 DEF NoticesTyped, NoticesTypeOK, NoticeDocs
  <2> QED BY <1>0, <1>1, <1>4, <2>1 DEF NoticesTyped
<1>7. NothingAhead'
  <2>1. \A b \in Admins : notice'[b].st # "none" => b # a /\ notice'[b] = notice[b]
    BY <1>5 DEF NoNotice
  <2> QED BY <1>0, <1>1, <1>4, <2>1, AheadOn
<1>8. \A x \in Notifiers, b \in Admins : /\ ToTell(x, b)' <=> ToTell(x, b)
                                         /\ Tells(x, b)' <=> Tells(x, b)
  BY <1>1, <1>2, <1>4 DEF ToTell, Tells, AtNotice, a
<1>9. \A x \in Notifiers, b \in Admins : ToTell(x, b) \/ Tells(x, b) =>
        /\ notifier'[x].stage = notifier[x].stage /\ notifier'[x].n = notifier[x].n
        /\ notifier'[x].deal = notifier[x].deal
  BY <1>2, <1>4, <1>8 DEF ToTell, Tells, AtNotice, Still
<1>10. ASSUME NEW b \in Admins \ outdated
       PROVE  DealKept(b)'
  <2>1. notice'[b].st # "none" => notice'[b] = notice[b]
    BY <1>5 DEF NoNotice
  <2> QED BY <1>0, <1>1, <1>8, <1>9, <2>1 DEF DealKept
<1>11. ASSUME NEW b \in Admins \ overlapped
       PROVE  Undisturbed(b)'
  <2>1. Undisturbed(b)
    BY <1>0
  <2>2. OneTells(b)'
    BY <1>8, <2>1 DEF Undisturbed, OneTells
  <2>3. CASE b # a
    <3>1. notice'[b] = notice[b]
      BY <1>5, <2>3
    <3>2. NoticeKept(b)' /\ NowSentAway(b)'
      BY <1>1, <2>1, <3>1 DEF Undisturbed, NoticeKept, NowSentAway, SentAway
    <3>3. LaterTold(b)' /\ LatestToTell(b)'
      BY <1>1, <1>8, <1>9, <2>1, <3>1 DEF Undisturbed, LaterTold, LatestToTell, SentAway
    <3> QED BY <2>2, <3>2, <3>3 DEF Undisturbed
  <2>4. CASE b = a
    <3>1. Tells(s, a)
      BY <1>1 DEF Tells, AtNotice, a
    <3>2. \A n \in 0..MaxTerm, stage \in Stages : <<n, stage>> \in dropped[a] =>
            Earlier(n, stage, q.n, q.stage)
      BY <2>1, <2>4, <3>1 DEF Undisturbed, LaterTold
    <3>3. notice'[a].st # "live"
      BY <1>5 DEF NoNotice
    <3>4. NoticeKept(b)'
      BY <2>4, <3>3 DEF NoticeKept
    <3>5. LaterTold(b)'
      BY <1>1, <1>8, <1>9, <2>1, <2>4, <3>3 DEF Undisturbed, LaterTold
    <3>6. q.n \in Nat /\ q.stage \in 0..5 /\ term.n \in Nat /\ term.n \in 0..MaxTerm /\ term.stage \in 0..5
      BY <1>0, <1>2, InOrder DEF NoticesTyped, NoticesTypeOK
    <3>7. NowSentAway(b)'
      <4>1. UpTo(q.n, q.stage, term.n, term.stage)
        BY <1>0, <1>2 DEF NothingAhead, Reached
      <4>2. term.stage \in Stages => <<term.n, term.stage>> \notin dropped[a]
        BY <3>2, <3>6, <4>1, StageOrder
      <4> QED BY <1>1, <2>4, <4>2 DEF NowSentAway
    <3>8. LatestToTell(b)'
      <4>1. ASSUME NEW x \in Notifiers, ToTell(x, a)
            PROVE  <<notifier[x].n, notifier[x].stage>> \notin dropped[a]
        <5>1. UpTo(q.n, q.stage, notifier[x].n, notifier[x].stage)
          BY <2>1, <2>4, <3>1, <4>1 DEF Undisturbed, LatestToTell
        <5>2. /\ notifier[x].stage \in Stages /\ notifier[x].stage \in 0..5
              /\ notifier[x].n \in 0..MaxTerm /\ notifier[x].n \in Nat
          BY <1>0, <4>1, InOrder DEF ToTell
        <5> QED BY <3>2, <3>6, <5>1, <5>2, StageOrder
      <4> QED BY <1>1, <1>8, <1>9, <2>1, <2>4, <3>3, <4>1 DEF Undisturbed, LatestToTell
    <3> QED BY <2>2, <3>4, <3>5, <3>7, <3>8 DEF Undisturbed
  <2> QED BY <2>3, <2>4
<1> QED BY <1>1, <1>6, <1>7, <1>10, <1>11 DEF NoticesInv

LEMMA CreateNoticeKeeps ==
  ASSUME NoticesInv, NEW s \in Notifiers, CreateNotice(s)
  PROVE  NoticesInv'
<1> DEFINE q == notifier[s]
           a == q.who
           d == [st |-> "live", stage |-> q.stage, n |-> q.n, deal |-> q.deal]
<1>0. /\ NoticesTyped /\ NothingAhead
      /\ \A b \in Admins \ outdated : DealKept(b)
      /\ \A b \in Admins \ overlapped : Undisturbed(b)
  BY DEF NoticesInv
<1>1. /\ q.st = "create" /\ term' = term /\ overlapped' = overlapped /\ dropped' = dropped
      /\ outdated' = outdated
      /\ notice' = IF notice[a] = NoNotice THEN [notice EXCEPT ![a] = d] ELSE notice
      /\ Notifies(s, [q EXCEPT !.st = "next"])
  BY DEF CreateNotice
<1>2. /\ a \in Admins /\ q # Still /\ q.todo \subseteq Admins /\ q.stage \in Stages /\ q.n \in 0..MaxTerm
      /\ q.deal \in 0..MaxTerm
      /\ q = [st |-> q.st, todo |-> q.todo, who |-> q.who, stage |-> q.stage, n |-> q.n,
              deal |-> q.deal]
  BY <1>0, <1>1, NotifierShapes DEF NoticesTyped, AtNotice, Still
<1>3. Notifies(s, [st |-> "next", todo |-> q.todo, who |-> a, stage |-> q.stage, n |-> q.n,
                   deal |-> q.deal])
  <2>1. [q EXCEPT !.st = "next"]
          = [st |-> "next", todo |-> q.todo, who |-> a, stage |-> q.stage, n |-> q.n,
             deal |-> q.deal]
    <3> HIDE DEF q
    <3> QED BY <1>2
  <2> QED BY <1>1, <2>1
<1>4. /\ notifier' \in [Notifiers -> NotifierDocs]
      /\ \A x \in Notifiers : AtNotice(x)' => notifier'[x].who \in Admins
      /\ \A x \in Notifiers : notifier'[x] # Still =>
           /\ notifier[x] # Still
           /\ notifier'[x].stage = notifier[x].stage /\ notifier'[x].n = notifier[x].n
           /\ notifier'[x].deal = notifier[x].deal
      /\ \A x \in Notifiers : x # s => notifier'[x] = notifier[x]
      /\ IF q.todo = {} THEN notifier'[s] = Still
         ELSE notifier'[s].st = "next" /\ notifier'[s].todo = q.todo /\ notifier'[s] # Still
  <2> DEFINE nx == "next"
  <2>1. /\ nx \in {"next", "delete", "create"} /\ nx = "next"
        /\ Notifies(s, [st |-> nx, todo |-> q.todo, who |-> a, stage |-> q.stage, n |-> q.n,
                        deal |-> q.deal])
    BY <1>3
  <2> HIDE DEF nx
  <2> QED BY <1>0, <1>2, <2>1, NotifierGoesOn
<1>5. d \in NoticeDocs /\ d.st = "live" /\ d.stage = q.stage /\ d.n = q.n /\ d.deal = q.deal
  BY <1>2 DEF NoticeDocs
<1> HIDE DEF a, d
<1>6. /\ notice'[a] = IF notice[a] = NoNotice THEN d ELSE notice[a]
      /\ \A b \in Admins : b # a => notice'[b] = notice[b]
      /\ notice' \in [Admins -> NoticeDocs]
  BY <1>0, <1>1, <1>2, <1>5 DEF NoticesTyped, NoticesTypeOK
<1>7. NoticesTyped'
  BY <1>0, <1>1, <1>4, <1>6 DEF NoticesTyped, NoticesTypeOK
<1>8. \A b \in Admins : notice'[b] # notice[b] => b = a /\ notice'[b] = d
  BY <1>6
<1>9. NothingAhead'
  <2>1. \A b \in Admins : notice'[b].st # "none" =>
          \/ notice'[b] = notice[b]
          \/ /\ notifier[s] # Still
             /\ notice'[b].n = notifier[s].n /\ notice'[b].stage = notifier[s].stage
    BY <1>2, <1>5, <1>8
  <2> QED BY <1>0, <1>1, <1>4, <2>1, AheadOn
<1>10. \A x \in Notifiers, b \in Admins : /\ ToTell(x, b)' <=> ToTell(x, b)
                                          /\ Tells(x, b)' => Tells(x, b) /\ x # s
  <2>1. ASSUME NEW x \in Notifiers, NEW b \in Admins, x # s
        PROVE  (ToTell(x, b)' <=> ToTell(x, b)) /\ (Tells(x, b)' <=> Tells(x, b))
    BY <1>4, <2>1 DEF ToTell, Tells, AtNotice
  <2>2. ASSUME NEW b \in Admins
        PROVE  (ToTell(s, b)' <=> ToTell(s, b)) /\ ~Tells(s, b)'
    BY <1>2, <1>4 DEF ToTell, Tells, AtNotice, Still
  <2> QED BY <2>1, <2>2
<1>11. \A x \in Notifiers, b \in Admins : ToTell(x, b) \/ (x # s /\ Tells(x, b)) =>
        /\ notifier'[x].stage = notifier[x].stage /\ notifier'[x].n = notifier[x].n
        /\ notifier'[x].deal = notifier[x].deal
  <2>1. \A x \in Notifiers, b \in Admins : ToTell(x, b)' => notifier'[x] # Still
    BY DEF ToTell
  <2> QED BY <1>4, <1>10, <2>1
<1>12. Tells(s, a)
  BY <1>1 DEF Tells, AtNotice, a
<1>13. ASSUME NEW b \in Admins \ outdated
       PROVE  DealKept(b)'
  <2>1. \A x \in Notifiers : ToTell(x, b)' \/ Tells(x, b)' => notifier'[x].deal = term.deal
    BY <1>0, <1>10, <1>11, <1>13 DEF DealKept
  <2>2. notice'[b].st # "none" => notice'[b].deal = term.deal
    BY <1>0, <1>5, <1>8, <1>12, <1>13 DEF DealKept
  <2> QED BY <1>1, <2>1, <2>2 DEF DealKept
<1>14. ASSUME NEW b \in Admins \ overlapped
       PROVE  Undisturbed(b)'
  <2>1. Undisturbed(b)
    BY <1>0
  <2>2. OneTells(b)'
    BY <1>10, <2>1 DEF Undisturbed, OneTells
  <2>3. CASE notice'[b] = notice[b]
    <3>1. NoticeKept(b)' /\ NowSentAway(b)'
      BY <1>1, <2>1, <2>3 DEF Undisturbed, NoticeKept, NowSentAway, SentAway
    <3>2. LaterTold(b)'
      BY <1>1, <1>10, <1>11, <2>1, <2>3 DEF Undisturbed, LaterTold
    <3>3. LatestToTell(b)'
      BY <1>1, <1>10, <1>11, <2>1, <2>3 DEF Undisturbed, LatestToTell, SentAway
    <3> QED BY <2>2, <3>1, <3>2, <3>3 DEF Undisturbed
  <2>4. CASE notice'[b] # notice[b]
    <3>1. b = a /\ notice'[a] = d
      BY <1>8, <2>4
    <3>2. \A n \in 0..MaxTerm, stage \in Stages : <<n, stage>> \in dropped[a] =>
            Earlier(n, stage, q.n, q.stage)
      BY <1>12, <2>1, <3>1 DEF Undisturbed, LaterTold
    <3>3. q.n \in Nat /\ q.stage \in 0..5 /\ term.n \in Nat /\ term.n \in 0..MaxTerm /\ term.stage \in 0..5
      BY <1>0, <1>2, InOrder DEF NoticesTyped, NoticesTypeOK
    <3>4. NoticeKept(b)'
      <4>1. UpTo(q.n, q.stage, q.n, q.stage)
        BY <3>3, StageOrder
      <4>2. <<q.n, q.stage>> \notin dropped[a]
        BY <1>2, <3>2, <3>3, <4>1, StageOrder
      <4> QED BY <1>1, <1>5, <3>1, <4>2 DEF NoticeKept
    <3>5. \A x \in Notifiers : ~Tells(x, b)'
      BY <1>10, <1>12, <2>1, <3>1 DEF Undisturbed, OneTells
    <3>6. LaterTold(b)'
      BY <3>5 DEF LaterTold
    <3>7. NowSentAway(b)'
      <4>1. UpTo(q.n, q.stage, term.n, term.stage)
        BY <1>0, <1>2 DEF NothingAhead, Reached
      <4>2. term.stage \in Stages => <<term.n, term.stage>> \notin dropped[a]
        BY <3>2, <3>3, <4>1, StageOrder
      <4> QED BY <1>1, <3>1, <4>2 DEF NowSentAway
    <3>8. LatestToTell(b)'
      <4>1. ASSUME NEW x \in Notifiers, ToTell(x, a)
            PROVE  /\ <<notifier[x].n, notifier[x].stage>> \notin dropped[a]
                   /\ UpTo(q.n, q.stage, notifier[x].n, notifier[x].stage)
        <5>1. UpTo(q.n, q.stage, notifier[x].n, notifier[x].stage)
          BY <1>12, <2>1, <3>1, <4>1 DEF Undisturbed, LatestToTell
        <5>2. /\ notifier[x].stage \in Stages /\ notifier[x].stage \in 0..5
              /\ notifier[x].n \in 0..MaxTerm /\ notifier[x].n \in Nat
          BY <1>0, <4>1, InOrder DEF ToTell
        <5> QED BY <3>2, <3>3, <5>1, <5>2, StageOrder
      <4> QED BY <1>1, <1>5, <1>10, <1>11, <2>1, <3>1, <3>5, <4>1 DEF Undisturbed, LatestToTell
    <3> QED BY <2>2, <3>4, <3>6, <3>7, <3>8 DEF Undisturbed
  <2> QED BY <2>3, <2>4
<1> QED BY <1>1, <1>7, <1>9, <1>13, <1>14 DEF NoticesInv

LEMMA NoticesStep ==
  ASSUME NoticesInv, [NoticesNext]_noticeVars
  PROVE  NoticesInv'
<1>1. CASE NoticesNext
  BY <1>1, PlanGoesOnKeeps, BoughtKeeps, DismissNoticeKeeps, FindNoticeKeeps, FindTermsKeeps,
     DeleteNoticeKeeps, CreateNoticeKeeps, NotifierEndsKeeps DEF NoticesNext
<1>2. CASE UNCHANGED noticeVars
  <2> USE <1>2 DEF noticeVars
  <2>1. NoticesTyped' /\ NothingAhead'
    BY DEF NoticesInv, NoticesTyped, NoticesTypeOK, AtNotice, NothingAhead, Reached
  <2>2. ASSUME NEW b \in Admins \ overlapped
        PROVE  Undisturbed(b)'
    <3>1. Undisturbed(b)
      BY DEF NoticesInv
    <3>2. NoticeKept(b)' /\ OneTells(b)' /\ LaterTold(b)'
      BY <3>1 DEF Undisturbed, NoticeKept, OneTells, LaterTold, Tells, AtNotice
    <3>3. LatestToTell(b)' /\ NowSentAway(b)'
      BY <3>1 DEF Undisturbed, LatestToTell, NowSentAway, SentAway, ToTell, Tells, AtNotice
    <3> QED BY <3>2, <3>3 DEF Undisturbed
  <2>3. ASSUME NEW b \in Admins \ outdated
        PROVE  DealKept(b)'
    BY DEF NoticesInv, DealKept, ToTell, Tells, AtNotice
  <2> QED BY <2>1, <2>2, <2>3 DEF NoticesInv
<1> QED BY <1>1, <1>2

(* The notices of the end of a plan keep their types.                      *)
THEOREM NoticesTypeCorrect == NoticesSpec => []NoticesTypeOK
<1>1. NoticesInv => NoticesTypeOK
  BY DEF NoticesInv, NoticesTyped
<1> QED BY <1>1, NoticesBegin, NoticesStep, PTL DEF NoticesSpec

(* Nobody is told ahead of time; what shows is of the plan as it was       *)
(* bought last, unless a run was still to write when it was bought; and    *)
(* what was sent away stays away until then, unless runs overlapped: for   *)
(* any number of administrators, runs, end dates and purchases.            *)
THEOREM NoticesKeptInOrder == NoticesSpec => []NoticesInOrder
<1>1. NoticesInv => NoticesInOrder
  <2>1. SUFFICES ASSUME NoticesInv, NEW a \in Admins, notice[a].st = "live"
                 PROVE  /\ notice[a].n < term.n \/ (notice[a].n = term.n /\ notice[a].stage <= term.stage)
                        /\ a \notin outdated => notice[a].deal = term.deal
                        /\ a \notin overlapped => <<notice[a].n, notice[a].stage>> \notin dropped[a]
    BY DEF NoticesInOrder
  <2>2. a \notin overlapped => <<notice[a].n, notice[a].stage>> \notin dropped[a]
    BY <2>1 DEF NoticesInv, Undisturbed, NoticeKept
  <2>3. a \notin outdated => notice[a].deal = term.deal
    BY <2>1 DEF NoticesInv, DealKept
  <2>4. Reached(notice[a].n, notice[a].stage)
    BY <2>1 DEF NoticesInv, NothingAhead
  <2> QED BY <2>2, <2>3, <2>4 DEF Reached, UpTo
<1> QED BY <1>1, NoticesBegin, NoticesStep, PTL DEF NoticesSpec

-----------------------------------------------------------------------------
(* What a run of ensureMyDueNotifications holds.                           *)
RoundDocs ==
  {Rests} \cup [st : {"member"}, role : Roles, stale : BOOLEAN]
    \cup [st : {"today", "over", "write"}, role : Roles, assigned : BOOLEAN,
          phase : Phases, cycle : Cycles, stale : BOOLEAN]

RemindersTyped ==
  /\ RemindersTypeOK
  /\ round \in [Rounds -> RoundDocs]
  /\ away \subseteq [label : Labels, cycle : Cycles]
  /\ fresh \in BOOLEAN /\ crossed \in BOOLEAN

(* Whose task it is, and which reminders somebody may have: administrators *)
(* hear of what is late, managers of the day before too.                   *)
Mine == person.assigned \/ subject = "project"

Entitled(label) ==
  \/ Mine
  \/ person.role = "admin" /\ label = "over"
  \/ person.role = "manager" /\ label # "today"

Timely(label) ==
  /\ due.phase # "far"
  /\ label = "today" => due.phase \in {"today", "over"}
  /\ label = "over" => due.phase = "over"

(* What is shown has the key it would be given today, and belongs to the   *)
(* date, the phase and the person as they are.                             *)
NoteFits(k) ==
  /\ k = KeyOf(note[k].label, k.cycle, person.role)
  /\ due.open /\ k.cycle = due.cycle
  /\ Entitled(note[k].label) /\ Timely(note[k].label)

NotesFit == \A k \in Shown : NoteFits(k)

(* What was sent away is there as dismissed.                               *)
AwayKept ==
  \A l \in Labels, c \in Cycles :
    [label |-> l, cycle |-> c] \in away =>
      note[KeyOf(l, c, person.role)].st = "dismissed"

(* A run whose reading nothing has changed since knows what is so.         *)
UpToDate(r) == round[r] # Rests /\ ~round[r].stale

Knows(r) ==
  UpToDate(r) =>
    /\ round[r].role = person.role
    /\ round[r].st # "member" =>
         /\ round[r].assigned = person.assigned
         /\ round[r].phase = due.phase /\ round[r].cycle = due.cycle
         /\ due.open /\ ~due.archived /\ due.phase # "far"
         /\ Concerns(person.role)

(* What such a run has dismissed nobody shows again.                       *)
HasCleared(r) ==
  UpToDate(r) =>
    /\ round[r].st \in {"over", "write"} /\ due.phase = "today" /\ Mine =>
         \A k \in Shown : note[k].label # "soon"
    /\ round[r].st = "write" /\ due.phase = "over" =>
         \A k \in Shown : note[k].label = "over"

(* After a whole run what is shown is wanted.                              *)
FreshWanted ==
  fresh /\ ~due.archived =>
    \A k \in Shown : note[k].label \in Wanted(due.phase, person.role, person.assigned)

Told ==
  /\ NotesFit /\ AwayKept /\ FreshWanted
  /\ \A r \in Rounds : Knows(r) /\ HasCleared(r)

RemindersInv == RemindersTyped /\ (crossed \/ Told)

-----------------------------------------------------------------------------
(* Keys and records.                                                       *)
LEMMA KeyTyped ==
  ASSUME NEW l \in Labels, NEW c \in Cycles, NEW role \in Roles
  PROVE  /\ KeyOf(l, c, role) \in Keys /\ KeyOf(l, c, role).cycle = c
         /\ KeyOf(l, c, role).type = "over" <=> l = "over"
         /\ KeyOf(l, c, role).type \in {"soon", "over"}
<1>1. SuffixOf(l, role) \in {"", "48h", "24h"} /\ (l = "over" => SuffixOf(l, role) = "")
  BY DEF SuffixOf, Labels
<1>2. CASE l = "over"
  BY <1>1, <1>2 DEF KeyOf, Keys
<1>3. CASE l # "over"
  BY <1>1, <1>3 DEF KeyOf, Keys
<1> QED BY <1>2, <1>3

(* The key of what is late is everybody's.                                 *)
LEMMA KeyOfLate ==
  ASSUME NEW c, NEW role, NEW other
  PROVE  KeyOf("over", c, role) = KeyOf("over", c, other)
BY DEF KeyOf, SuffixOf

(* Of a manager the notice of the day itself has a suffix.                 *)
LEMMA KeyOfToday ==
  ASSUME NEW c, subject = "task"
  PROVE  KeyOf("today", c, "manager").type = "soon" /\ KeyOf("today", c, "manager").suffix = "24h"
BY DEF KeyOf, SuffixOf

LEMMA RoundShapes ==
  ASSUME NEW q \in RoundDocs
  PROVE  \/ q = Rests /\ q.st = "idle"
         \/ /\ q # Rests /\ q.st = "member" /\ q.role \in Roles /\ q.stale \in BOOLEAN
            /\ q = [st |-> q.st, role |-> q.role, stale |-> q.stale]
         \/ /\ q # Rests /\ q.st \in {"today", "over", "write"} /\ q.role \in Roles
            /\ q.assigned \in BOOLEAN /\ q.phase \in Phases /\ q.cycle \in Cycles
            /\ q.stale \in BOOLEAN
            /\ q = [st |-> q.st, role |-> q.role, assigned |-> q.assigned,
                    phase |-> q.phase, cycle |-> q.cycle, stale |-> q.stale]
BY DEF RoundDocs, Rests

LEMMA NotesTyped ==
  ASSUME RemindersTyped, NEW k \in Keys
  PROVE  /\ note[k] \in NoteDocs /\ note[k].st \in {"none", "live", "dismissed"}
         /\ note[k].label \in Labels /\ k.cycle \in Cycles /\ k.type \in {"soon", "over"}
BY DEF RemindersTyped, RemindersTypeOK, NoteDocs, Keys

LEMMA RemindersBegin ==
  ASSUME RemindersInit
  PROVE  RemindersInv
<1> USE DEF RemindersInit
<1>1. RemindersTypeOK
  <2>1. 0 \in Cycles
    BY RemindersAssumption DEF Cycles
  <2>2. due \in DueDocs /\ person \in PersonDocs
    BY <2>1 DEF DueDocs, PersonDocs, Phases, Roles
  <2>3. NoNote \in NoteDocs
    BY DEF NoNote, NoteDocs, Labels
  <2> QED BY <2>2, <2>3 DEF RemindersTypeOK
<1>2. RemindersTyped
  BY <1>1 DEF RemindersTyped, RoundDocs
<1>3. Shown = {}
  BY DEF Shown, NoNote
<1>4. NotesFit /\ AwayKept /\ FreshWanted
  BY <1>3 DEF NotesFit, AwayKept, FreshWanted
<1>5. ASSUME NEW r \in Rounds
      PROVE  Knows(r) /\ HasCleared(r)
  BY DEF Knows, HasCleared, UpToDate
<1> QED BY <1>2, <1>4, <1>5 DEF RemindersInv, Told

-----------------------------------------------------------------------------
(* Steps that only take away.                                              *)
Lessens ==
  /\ \A k \in Shown' : k \in Shown /\ note'[k].label = note[k].label
  /\ \A k \in Keys : note[k].st = "dismissed" => note'[k].st = "dismissed"

LEMMA DismissedLess ==
  ASSUME RemindersTyped, NEW ks, note' = Dismissed(ks)
  PROVE  /\ note' \in [Keys -> NoteDocs] /\ Lessens
         /\ \A k \in Shown' : k \notin ks
         /\ \A k \in Shown : k \in ks => note'[k].st = "dismissed"
<1>1. \A k \in Keys : note'[k] = IF k \in ks /\ k \in Shown THEN [note[k] EXCEPT !.st = "dismissed"]
                                 ELSE note[k]
  BY DEF Dismissed
<1>2. \A k \in Keys : /\ [note[k] EXCEPT !.st = "dismissed"] \in NoteDocs
                      /\ [note[k] EXCEPT !.st = "dismissed"].st = "dismissed"
                      /\ note[k] \in NoteDocs
  <2>1. ASSUME NEW d \in NoteDocs
        PROVE  [d EXCEPT !.st = "dismissed"] \in NoteDocs /\ [d EXCEPT !.st = "dismissed"].st = "dismissed"
    BY DEF NoteDocs
  <2> QED BY <2>1, NotesTyped
<1>3. note' \in [Keys -> NoteDocs]
  BY <1>2 DEF Dismissed
<1>4. \A k \in Keys : note'[k].st = "live" => k \in Shown /\ note'[k] = note[k] /\ k \notin ks
  BY <1>1, <1>2 DEF Shown
<1>5. \A k \in Keys : note[k].st = "dismissed" => note'[k].st = "dismissed"
  BY <1>1, <1>2
<1>6. \A k \in Shown' : k \in Keys /\ note'[k].st = "live"
  BY DEF Shown
<1>7. \A k \in Shown : k \in Keys
  BY DEF Shown
<1>8. Lessens
  BY <1>4, <1>5, <1>6 DEF Lessens
<1>9. \A k \in Shown' : k \notin ks
  BY <1>4, <1>6
<1>10. \A k \in Shown : k \in ks => note'[k].st = "dismissed"
  BY <1>1, <1>2, <1>7
<1> QED BY <1>3, <1>8, <1>9, <1>10

LEMMA DeletedLess ==
  ASSUME RemindersTyped, NEW ks, note' = Deleted(ks)
  PROVE  /\ note' \in [Keys -> NoteDocs] /\ Lessens
         /\ \A k \in Shown' : k \notin ks
<1>1. \A k \in Keys : note'[k] = IF k \in ks /\ k \in Shown THEN NoNote ELSE note[k]
  BY DEF Deleted
<1>2. NoNote \in NoteDocs /\ NoNote.st = "none" /\ \A k \in Keys : note[k] \in NoteDocs
  BY NotesTyped DEF NoNote, NoteDocs, Labels
<1>3. note' \in [Keys -> NoteDocs]
  BY <1>2 DEF Deleted
<1>4. \A k \in Keys : note'[k].st = "live" => k \in Shown /\ note'[k] = note[k] /\ k \notin ks
  BY <1>1, <1>2 DEF Shown
<1>5. \A k \in Keys : note[k].st = "dismissed" => note'[k].st = "dismissed"
  BY <1>1, <1>2 DEF Shown
<1>6. \A k \in Shown' : k \in Keys /\ note'[k].st = "live"
  BY DEF Shown
<1> QED BY <1>3, <1>4, <1>5, <1>6 DEF Lessens

LEMMA NoneLess ==
  ASSUME note' = note
  PROVE  Lessens /\ Shown' = Shown
BY DEF Lessens, Shown

(* What is taken away leaves what is shown and what was sent away right.   *)
LEMMA LessFits ==
  ASSUME Told, RemindersTyped, Lessens, UNCHANGED <<subject, due, person, away>>
  PROVE  /\ NotesFit' /\ AwayKept'
         /\ fresh' = fresh => FreshWanted'
         /\ \A r \in Rounds : round'[r] = round[r] => Knows(r)' /\ HasCleared(r)'
<1>1. \A k \in Shown' : k \in Shown /\ note'[k].label = note[k].label
  BY DEF Lessens
<1>2. NotesFit'
  <2>1. SUFFICES ASSUME NEW k \in Shown'
                 PROVE  NoteFits(k)'
    BY DEF NotesFit
  <2>2. k \in Shown /\ note'[k].label = note[k].label /\ NoteFits(k)
    BY <1>1 DEF Told, NotesFit
  <2>3. KeyOf(note[k].label, k.cycle, person.role)' = KeyOf(note[k].label, k.cycle, person.role)
    BY <2>2 DEF KeyOf, SuffixOf
  <2> QED BY <2>2, <2>3 DEF NoteFits, Entitled, Timely, Mine
<1>3. AwayKept'
  <2>1. \A l \in Labels, c \in Cycles : KeyOf(l, c, person.role)' = KeyOf(l, c, person.role)
    BY DEF KeyOf, SuffixOf
  <2>2. \A l \in Labels, c \in Cycles : KeyOf(l, c, person.role) \in Keys
    <3>1. person.role \in Roles
      BY DEF RemindersTyped, RemindersTypeOK, PersonDocs
    <3> QED BY <3>1, KeyTyped
  <2> QED BY <2>1, <2>2 DEF Told, AwayKept, Lessens
<1>4. ASSUME fresh' = fresh
      PROVE  FreshWanted'
  BY <1>1, <1>4 DEF Told, FreshWanted, Wanted
<1>5. ASSUME NEW r \in Rounds, round'[r] = round[r]
      PROVE  Knows(r)' /\ HasCleared(r)'
  <2>1. Knows(r) /\ HasCleared(r) /\ (UpToDate(r)' <=> UpToDate(r))
    BY <1>5 DEF Told, UpToDate
  <2>2. Knows(r)'
    BY <1>5, <2>1 DEF Knows, Concerns
  <2>3. HasCleared(r)'
    BY <1>1, <1>5, <2>1 DEF HasCleared, Mine
  <2> QED BY <2>2, <2>3
<1> QED BY <1>2, <1>3, <1>4, <1>5

-----------------------------------------------------------------------------
(* Runs.                                                                   *)

(* One run goes on, of the notes nothing but what is shown gets less.      *)
LEMMA RoundGoesOn ==
  ASSUME RemindersTyped, Told, Lessens, note' \in [Keys -> NoteDocs],
         NEW r \in Rounds, NEW q \in RoundDocs, Sets(r, q),
         UNCHANGED <<subject, due, person, away, crossed>>, fresh' \in BOOLEAN,
         fresh' # fresh => FreshWanted',
         Knows(r)' /\ HasCleared(r)'
  PROVE  RemindersTyped' /\ Told'
<1>1. /\ round' \in [Rounds -> RoundDocs]
      /\ \A x \in Rounds : x # r => round'[x] = round[x]
  BY DEF Sets, RemindersTyped
<1>2. RemindersTyped'
  BY <1>1 DEF RemindersTyped, RemindersTypeOK
<1>3. NotesFit' /\ AwayKept' /\ FreshWanted'
  BY LessFits
<1>4. \A x \in Rounds : Knows(x)' /\ HasCleared(x)'
  BY <1>1, LessFits
<1> QED BY <1>2, <1>3, <1>4 DEF Told

LEMMA ReadMembershipTold ==
  ASSUME RemindersTyped, Told, NEW r \in Rounds, ReadMembership(r)
  PROVE  RemindersTyped' /\ Told'
<1> DEFINE q == [st |-> "member", role |-> person.role, stale |-> FALSE]
<1>1. /\ UNCHANGED <<subject, due, person, note, fresh, crossed, away>>
      /\ round' = [round EXCEPT ![r] = q] /\ Sets(r, q)
  BY DEF ReadMembership, Sets
<1>2. q \in RoundDocs /\ q.st = "member" /\ q.role = person.role
  BY DEF RoundDocs, RemindersTyped, RemindersTypeOK, PersonDocs
<1> HIDE DEF q
<1>3. round'[r] = q
  BY <1>1 DEF RemindersTyped
<1>4. Knows(r)' /\ HasCleared(r)'
  BY <1>1, <1>2, <1>3 DEF Knows, HasCleared
<1>5. Lessens /\ note' \in [Keys -> NoteDocs] /\ fresh' \in BOOLEAN
  BY <1>1, NoneLess DEF RemindersTyped, RemindersTypeOK
<1> QED BY <1>1, <1>2, <1>4, <1>5, RoundGoesOn

LEMMA ReadDueTold ==
  ASSUME RemindersTyped, Told, NEW r \in Rounds, ReadDue(r)
  PROVE  RemindersTyped' /\ Told'
<1> DEFINE reads == due.open /\ ~due.archived /\ due.phase # "far" /\ Concerns(round[r].role)
           q == [st |-> "today", role |-> round[r].role, assigned |-> person.assigned,
                 phase |-> due.phase, cycle |-> due.cycle, stale |-> round[r].stale]
<1>1. /\ UNCHANGED <<subject, due, person, note, crossed, away>>
      /\ round[r].st = "member"
      /\ Sets(r, IF reads THEN q ELSE Rests)
      /\ fresh' = (fresh \/ (~round[r].stale /\ round'[r] = Rests))
  BY DEF ReadDue, InRound
<1>2. round[r].role \in Roles /\ round[r].stale \in BOOLEAN /\ round[r] # Rests
  BY <1>1, RoundShapes DEF RemindersTyped
<1>3. /\ q \in RoundDocs /\ q # Rests /\ q.st = "today" /\ q.role = round[r].role
      /\ q.assigned = person.assigned /\ q.phase = due.phase /\ q.cycle = due.cycle
      /\ q.stale = round[r].stale
  BY <1>2 DEF RoundDocs, Rests, RemindersTyped, RemindersTypeOK, PersonDocs, DueDocs
<1>4. Rests \in RoundDocs /\ round[r] \in RoundDocs
  BY DEF RoundDocs, RemindersTyped
<1> HIDE DEF q
<1>5. round'[r] = IF reads THEN q ELSE Rests
  BY <1>1 DEF RemindersTyped, Sets
<1>6. ~round[r].stale => round[r].role = person.role
  BY <1>2 DEF Told, Knows, UpToDate
<1>7. Knows(r)' /\ HasCleared(r)'
  <2>1. CASE reads
    <3>1. round'[r] = q
      BY <1>5, <2>1
    <3>2. HasCleared(r)'
      BY <1>3, <3>1 DEF HasCleared
    <3>3. Knows(r)'
      <4>1. ~q.stale => Concerns(person.role) /\ q.role = person.role
        BY <1>3, <1>6, <2>1
      <4> QED BY <1>1, <1>3, <2>1, <3>1, <4>1 DEF Knows, UpToDate, Concerns
    <3> QED BY <3>2, <3>3
  <2>2. CASE ~reads
    BY <1>5, <2>2 DEF Knows, HasCleared, UpToDate
  <2> QED BY <2>1, <2>2
<1>8. Lessens /\ note' \in [Keys -> NoteDocs] /\ fresh' \in BOOLEAN
  BY <1>1, NoneLess DEF RemindersTyped, RemindersTypeOK
<1>9. ASSUME fresh' # fresh
      PROVE  FreshWanted'
  <2>1. ~round[r].stale /\ ~reads
    BY <1>1, <1>3, <1>5, <1>9 DEF RemindersTyped
  <2>2. due.archived \/ ~due.open \/ due.phase = "far" \/ ~Concerns(person.role)
    BY <1>6, <2>1 DEF RemindersTyped, RemindersTypeOK, DueDocs
  <2>3. due.archived \/ Shown = {}
    <3>1. ASSUME NEW k \in Shown, ~due.archived
          PROVE  FALSE
      BY <2>2, <3>1 DEF Told, NotesFit, NoteFits, Entitled, Timely, Concerns, Mine,
         RemindersTyped, RemindersTypeOK, PersonDocs, Roles
    <3> QED BY <3>1 DEF RemindersTyped, RemindersTypeOK, DueDocs
  <2>4. Shown' = Shown /\ due' = due
    BY <1>1, NoneLess
  <2> QED BY <2>3, <2>4 DEF FreshWanted
<1>10. (IF reads THEN q ELSE Rests) \in RoundDocs
  BY <1>3, <1>4
<1> QED BY <1>1, <1>7, <1>8, <1>9, <1>10, RoundGoesOn

LEMMA DismissTodayTold ==
  ASSUME RemindersTyped, Told, NEW r \in Rounds, DismissToday(r)
  PROVE  RemindersTyped' /\ Told'
<1> DEFINE p == round[r]
           q == [p EXCEPT !.st = "over"]
<1>1. /\ UNCHANGED <<subject, due, person, fresh, crossed, away>>
      /\ p.st = "today" /\ note' = Dismissed(DismissEarlier(p))
      /\ Sets(r, q)
  BY DEF DismissToday, InRound
<1>2. /\ p \in RoundDocs /\ p # Rests /\ p.role \in Roles
      /\ p.assigned \in BOOLEAN /\ p.phase \in Phases /\ p.cycle \in Cycles
      /\ p.stale \in BOOLEAN
      /\ p = [st |-> p.st, role |-> p.role, assigned |-> p.assigned,
              phase |-> p.phase, cycle |-> p.cycle, stale |-> p.stale]
  BY <1>1, RoundShapes DEF RemindersTyped
<1>3. /\ q \in RoundDocs /\ q # Rests /\ q.st = "over" /\ q.role = p.role
      /\ q.assigned = p.assigned /\ q.phase = p.phase /\ q.cycle = p.cycle /\ q.stale = p.stale
  <2> HIDE DEF p
  <2> QED BY <1>2 DEF RoundDocs, Rests
<1> HIDE DEF q
<1>4. round'[r] = q
  BY <1>1 DEF RemindersTyped, Sets
<1>5. /\ note' \in [Keys -> NoteDocs] /\ Lessens
      /\ \A k \in Shown' : k \notin DismissEarlier(p)
  BY <1>1, DismissedLess
<1>6. ~p.stale => Knows(r) /\ UpToDate(r)
  BY <1>2 DEF Told, UpToDate
<1>7. Knows(r)'
  <2>1. UpToDate(r)' <=> UpToDate(r)
    BY <1>2, <1>3, <1>4 DEF UpToDate
  <2>2. Knows(r)
    BY DEF Told
  <2> QED BY <1>1, <1>3, <1>4, <2>1, <2>2 DEF Knows, Concerns
<1>8. HasCleared(r)'
  <2>1. SUFFICES ASSUME ~p.stale, due.phase = "today", Mine, NEW k \in Shown', note'[k].label = "soon"
                 PROVE  FALSE
    BY <1>1, <1>3, <1>4 DEF HasCleared, UpToDate, Mine
  <2>2. p.phase = due.phase /\ p.cycle = due.cycle /\ p.role = person.role /\ p.assigned = person.assigned
    BY <1>1, <1>6, <2>1 DEF Knows
  <2>3. k \in Shown /\ note[k].label = "soon"
    BY <1>5, <2>1 DEF Lessens
  <2>4. k = KeyOf("soon", due.cycle, person.role)
    BY <2>3 DEF Told, NotesFit, NoteFits
  <2>5. k \in DismissEarlier(p)
    BY <2>1, <2>2, <2>4 DEF DismissEarlier, Mine
  <2> QED BY <1>5, <2>5
<1>9. fresh' \in BOOLEAN /\ fresh' = fresh
  BY <1>1 DEF RemindersTyped
<1> QED BY <1>1, <1>3, <1>5, <1>7, <1>8, <1>9, RoundGoesOn

LEMMA DismissOverdueTold ==
  ASSUME RemindersTyped, Told, NEW r \in Rounds, DismissOverdue(r)
  PROVE  RemindersTyped' /\ Told'
<1> DEFINE p == round[r]
           q == [p EXCEPT !.st = "write"]
<1>1. /\ UNCHANGED <<subject, due, person, fresh, crossed, away>>
      /\ p.st = "over"
      /\ note' = IF p.phase = "over" THEN Dismissed(OfType("soon")) ELSE note
      /\ Sets(r, q)
  BY DEF DismissOverdue, InRound
<1>2. /\ p \in RoundDocs /\ p # Rests /\ p.role \in Roles
      /\ p.assigned \in BOOLEAN /\ p.phase \in Phases /\ p.cycle \in Cycles
      /\ p.stale \in BOOLEAN
      /\ p = [st |-> p.st, role |-> p.role, assigned |-> p.assigned,
              phase |-> p.phase, cycle |-> p.cycle, stale |-> p.stale]
  BY <1>1, RoundShapes DEF RemindersTyped
<1>3. /\ q \in RoundDocs /\ q # Rests /\ q.st = "write" /\ q.role = p.role
      /\ q.assigned = p.assigned /\ q.phase = p.phase /\ q.cycle = p.cycle /\ q.stale = p.stale
  <2> HIDE DEF p
  <2> QED BY <1>2 DEF RoundDocs, Rests
<1> HIDE DEF q
<1>4. round'[r] = q
  BY <1>1 DEF RemindersTyped, Sets
<1>5. /\ note' \in [Keys -> NoteDocs] /\ Lessens
      /\ p.phase = "over" => \A k \in Shown' : k \notin OfType("soon")
  <2>1. CASE p.phase = "over"
    BY <1>1, <2>1, DismissedLess
  <2>2. CASE p.phase # "over"
    BY <1>1, <2>2, NoneLess DEF RemindersTyped, RemindersTypeOK
  <2> QED BY <2>1, <2>2
<1>6. Knows(r) /\ HasCleared(r) /\ (UpToDate(r)' <=> UpToDate(r))
  BY <1>2, <1>3, <1>4 DEF Told, UpToDate
<1>7. Knows(r)'
  BY <1>1, <1>3, <1>4, <1>6 DEF Knows, Concerns
<1>8. HasCleared(r)'
  <2>1. SUFFICES ASSUME UpToDate(r), NEW k \in Shown'
                 PROVE  /\ due.phase = "today" /\ Mine => note'[k].label # "soon"
                        /\ due.phase = "over" => note'[k].label = "over"
    BY <1>1, <1>6 DEF HasCleared, Mine
  <2>2. k \in Shown /\ k \in Keys /\ note'[k].label = note[k].label /\ NoteFits(k)
    BY <1>5, <2>1 DEF Lessens, Told, NotesFit, Shown
  <2>3. due.phase = "today" /\ Mine => note'[k].label # "soon"
    BY <1>1, <1>6, <2>1, <2>2 DEF HasCleared
  <2>4. ASSUME due.phase = "over"
        PROVE  note'[k].label = "over"
    <3>1. p.phase = "over"
      BY <1>1, <1>6, <2>1, <2>4 DEF Knows
    <3>2. k.type # "soon"
      BY <1>5, <2>1, <2>2, <3>1 DEF OfType
    <3>3. note[k].label \in Labels /\ k.cycle \in Cycles /\ person.role \in Roles
      BY <2>2, NotesTyped DEF RemindersTyped, RemindersTypeOK, PersonDocs
    <3> QED BY <2>2, <3>2, <3>3, KeyTyped DEF NoteFits
  <2> QED BY <2>3, <2>4
<1>9. fresh' \in BOOLEAN /\ fresh' = fresh
  BY <1>1 DEF RemindersTyped
<1> QED BY <1>1, <1>3, <1>5, <1>7, <1>8, <1>9, RoundGoesOn

(* One label at most is wanted, and only what the person may have of the   *)
(* phase it is in.                                                         *)
LEMMA OneWanted ==
  ASSUME NEW phase, NEW role, NEW assigned
  PROVE  /\ Wanted(phase, role, assigned) \subseteq Labels
         /\ \A l, m \in Wanted(phase, role, assigned) : l = m
BY DEF Wanted, Labels

LEMMA WantedFits ==
  ASSUME RemindersTyped, NEW l \in Wanted(due.phase, person.role, person.assigned)
  PROVE  /\ Entitled(l) /\ Timely(l)
         /\ due.phase = "today" /\ Mine => l # "soon"
         /\ due.phase = "over" => l = "over"
<1>1. due.phase \in Phases /\ person.role \in Roles /\ person.assigned \in BOOLEAN
  BY DEF RemindersTyped, RemindersTypeOK, DueDocs, PersonDocs
<1>2. CASE due.phase = "far"
  BY <1>2 DEF Wanted
<1>3. CASE due.phase = "soon"
  BY <1>1, <1>3 DEF Wanted, Entitled, Timely, Mine, Roles
<1>4. CASE due.phase = "today"
  BY <1>1, <1>4 DEF Wanted, Entitled, Timely, Mine, Roles
<1>5. CASE due.phase = "over"
  BY <1>1, <1>5 DEF Wanted, Entitled, Timely, Mine, Roles
<1> QED BY <1>1, <1>2, <1>3, <1>4, <1>5 DEF Phases

LEMMA FitsWanted ==
  ASSUME RemindersTyped, NEW l \in Labels, Entitled(l), Timely(l),
         due.phase = "today" /\ Mine => l # "soon",
         due.phase = "over" => l = "over"
  PROVE  l \in Wanted(due.phase, person.role, person.assigned)
<1>1. due.phase \in Phases /\ person.role \in Roles /\ person.assigned \in BOOLEAN
  BY DEF RemindersTyped, RemindersTypeOK, DueDocs, PersonDocs
<1>2. CASE due.phase = "far"
  BY <1>2 DEF Timely
<1>3. CASE due.phase = "soon"
  BY <1>1, <1>3 DEF Wanted, Entitled, Timely, Mine, Roles, Labels
<1>4. CASE due.phase = "today"
  BY <1>1, <1>4 DEF Wanted, Entitled, Timely, Mine, Roles, Labels
<1>5. CASE due.phase = "over"
  BY <1>1, <1>5 DEF Wanted, Entitled, Timely, Mine, Roles, Labels
<1> QED BY <1>1, <1>2, <1>3, <1>4, <1>5 DEF Phases

(* What the upsert leaves under a key: what was there, or the one label    *)
(* that is wanted, shown unless the key was known.                         *)
LEMMA WriteShapes ==
  ASSUME RemindersTyped, NEW r \in Rounds, WriteReminders(r), NEW k \in Keys
  PROVE  \/ note'[k] = note[k]
         \/ /\ note'[k] \in NoteDocs
            /\ note'[k].label \in Wanted(round[r].phase, round[r].role, round[r].assigned)
            /\ k = KeyOf(note'[k].label, round[r].cycle, round[r].role)
            /\ note[k].st = "dismissed" => note'[k].st = "dismissed"
<1> DEFINE q == round[r]
           W == Wanted(q.phase, q.role, q.assigned)
           new == {[key |-> KeyOf(l, q.cycle, q.role), label |-> l] : l \in W}
           n0 == CHOOSE n \in new : n.key = k
<1>1. note'[k] = IF \E n \in new : n.key = k THEN Announced(q, k, n0.label) ELSE note[k]
  BY DEF WriteReminders
<1>2. CASE \E n \in new : n.key = k
  <2>1. n0 \in new /\ n0.key = k
    BY <1>2
  <2>2. PICK l \in W : n0 = [key |-> KeyOf(l, q.cycle, q.role), label |-> l]
    BY <2>1
  <2>3. n0.label = l /\ k = KeyOf(l, q.cycle, q.role)
    <3> HIDE DEF n0, q
    <3> QED BY <2>1, <2>2
  <2>4. note'[k] = Announced(q, k, l)
    <3> HIDE DEF n0, new
    <3> QED BY <1>1, <1>2, <2>3
  <2>5. l \in Labels
    BY OneWanted
  <2>6. /\ Announced(q, k, l) \in NoteDocs /\ Announced(q, k, l).label = l
        /\ note[k].st = "dismissed" => Announced(q, k, l).st = "dismissed"
    BY <2>5, NotesTyped DEF Announced, NoteDocs
  <2> QED BY <2>3, <2>4, <2>6
<1>3. CASE ~\E n \in new : n.key = k
  <2> HIDE DEF new
  <2> QED BY <1>1, <1>3
<1> QED BY <1>2, <1>3

LEMMA WriteRemindersTold ==
  ASSUME RemindersTyped, Told, NEW r \in Rounds, WriteReminders(r)
  PROVE  RemindersTyped' /\ (crossed' \/ Told')
<1> DEFINE q == round[r]
           W == Wanted(q.phase, q.role, q.assigned)
<1>1. /\ UNCHANGED <<subject, due, person, away>> /\ q.st = "write"
      /\ fresh' = (fresh \/ ~q.stale) /\ crossed' = (crossed \/ (q.stale /\ note' # note))
      /\ round' = [round EXCEPT ![r] = Rests]
  BY DEF WriteReminders, InRound, Sets
<1>2. q # Rests /\ q.role \in Roles /\ q.cycle \in Cycles /\ q.stale \in BOOLEAN
  BY <1>1, RoundShapes DEF RemindersTyped
<1>3. \A k \in Keys :
        \/ note'[k] = note[k]
        \/ /\ note'[k] \in NoteDocs /\ note'[k].label \in W
           /\ k = KeyOf(note'[k].label, q.cycle, q.role)
           /\ note[k].st = "dismissed" => note'[k].st = "dismissed"
  BY WriteShapes
<1>4. W \subseteq Labels
  BY OneWanted
<1> HIDE DEF W
<1>5. RemindersTyped'
  <2>1. \A k \in Keys : note'[k] \in NoteDocs
    BY <1>3, NotesTyped
  <2>2. note' = [k \in Keys |-> note'[k]]
    BY DEF WriteReminders
  <2>3. note' \in [Keys -> NoteDocs]
    BY <2>1, <2>2
  <2>4. round' \in [Rounds -> RoundDocs]
    BY <1>1 DEF RemindersTyped, RoundDocs
  <2>5. fresh' \in BOOLEAN /\ crossed' \in BOOLEAN
    BY <1>1
  <2> QED BY <1>1, <2>3, <2>4, <2>5 DEF RemindersTyped, RemindersTypeOK
<1>6. round'[r] = Rests /\ \A x \in Rounds : x # r => round'[x] = round[x]
  BY <1>1 DEF RemindersTyped
<1>7. Knows(r)' /\ HasCleared(r)'
  BY <1>6 DEF Knows, HasCleared, UpToDate
<1>8. CASE q.stale /\ note' # note
  BY <1>1, <1>5, <1>8
<1>9. CASE q.stale /\ note' = note
  <2>1. fresh' = fresh
    BY <1>1, <1>9 DEF RemindersTyped
  <2>2. NotesFit' /\ AwayKept' /\ FreshWanted' /\ \A x \in Rounds : x # r => Knows(x)' /\ HasCleared(x)'
    BY <1>1, <1>6, <1>9, <2>1, NoneLess, LessFits
  <2> QED BY <1>5, <1>7, <2>2 DEF Told
<1>10. CASE ~q.stale
  <2>1. UpToDate(r) /\ Knows(r) /\ HasCleared(r)
    BY <1>2, <1>10 DEF Told, UpToDate
  <2>2. /\ q.role = person.role /\ q.cycle = due.cycle /\ due.open /\ ~due.archived
        /\ W = Wanted(due.phase, person.role, person.assigned)
    BY <1>1, <2>1 DEF Knows, W
  <2>3. ASSUME NEW k \in Shown'
        PROVE  \/ k \in Shown /\ note'[k] = note[k]
               \/ note'[k].label \in W /\ k = KeyOf(note'[k].label, due.cycle, person.role)
    BY <1>3, <2>2 DEF Shown
  <2>4. ASSUME NEW k \in Keys, note[k].st = "dismissed"
        PROVE  note'[k].st = "dismissed"
    BY <1>3, <2>4
  <2>5. NotesFit'
    <3>1. SUFFICES ASSUME NEW k \in Shown'
                   PROVE  NoteFits(k)'
      BY DEF NotesFit
    <3>2. \A l \in Labels, c \in Cycles : KeyOf(l, c, person.role)' = KeyOf(l, c, person.role)
      BY <1>1 DEF KeyOf, SuffixOf
    <3>3. due.cycle \in Cycles /\ person.role \in Roles
      BY DEF RemindersTyped, RemindersTypeOK, DueDocs, PersonDocs
    <3>4. CASE k \in Shown /\ note'[k] = note[k]
      <4>1. NoteFits(k)
        BY <3>4 DEF Told, NotesFit
      <4>2. k.cycle \in Cycles /\ note[k].label \in Labels
        BY <3>4, NotesTyped DEF Shown
      <4>3. KeyOf(note[k].label, k.cycle, person.role)' = KeyOf(note[k].label, k.cycle, person.role)
        BY <1>1, <3>4 DEF KeyOf, SuffixOf
      <4> QED BY <1>1, <3>4, <4>1, <4>3 DEF NoteFits, Entitled, Timely, Mine
    <3>5. ASSUME NEW l \in W, l = note'[k].label, k = KeyOf(l, due.cycle, person.role)
          PROVE  NoteFits(k)'
      <4>1. Entitled(l) /\ Timely(l)
        BY <2>2, WantedFits
      <4>2. k.cycle = due.cycle
        BY <1>4, <3>3, <3>5, KeyTyped, SMTT(60)
      <4>3. KeyOf(note[k].label, k.cycle, person.role)' = KeyOf(l, due.cycle, person.role)
        BY <1>1, <3>5, <4>2 DEF KeyOf, SuffixOf
      <4>4. Entitled(note[k].label)' /\ Timely(note[k].label)'
        BY <1>1, <3>5, <4>1 DEF Entitled, Timely, Mine
      <4> QED BY <1>1, <2>2, <3>5, <4>2, <4>3, <4>4 DEF NoteFits
    <3> QED BY <2>3, <3>4, <3>5
  <2>6. AwayKept'
    <3>1. SUFFICES ASSUME NEW l \in Labels, NEW c \in Cycles, [label |-> l, cycle |-> c] \in away
                   PROVE  note'[KeyOf(l, c, person.role)'].st = "dismissed"
      BY <1>1 DEF AwayKept
    <3>2. KeyOf(l, c, person.role)' = KeyOf(l, c, person.role)
      BY <1>1 DEF KeyOf, SuffixOf
    <3>3. KeyOf(l, c, person.role) \in Keys
      BY KeyTyped DEF RemindersTyped, RemindersTypeOK, PersonDocs
    <3>4. note[KeyOf(l, c, person.role)].st = "dismissed"
      BY <3>1 DEF Told, AwayKept
    <3> QED BY <2>4, <3>2, <3>3, <3>4
  <2>7. FreshWanted'
    <3>1. SUFFICES ASSUME NEW k \in Shown'
                   PROVE  note'[k].label \in W
      BY <1>1, <2>2 DEF FreshWanted, Wanted
    <3>2. CASE k \in Shown /\ note'[k] = note[k]
      <4>1. NoteFits(k)
        BY <3>2 DEF Told, NotesFit
      <4>2. /\ due.phase = "today" /\ Mine => note[k].label # "soon"
            /\ due.phase = "over" => note[k].label = "over"
        BY <1>1, <2>1, <3>2 DEF HasCleared
      <4>3. note[k].label \in Labels
        BY <3>2, NotesTyped DEF Shown
      <4> QED BY <2>2, <3>2, <4>1, <4>2, <4>3, FitsWanted DEF NoteFits
    <3> QED BY <2>3, <3>1, <3>2
  <2>8. ASSUME NEW x \in Rounds, x # r
        PROVE  Knows(x)' /\ HasCleared(x)'
    <3>1. Knows(x) /\ HasCleared(x) /\ round'[x] = round[x] /\ (UpToDate(x)' <=> UpToDate(x))
      BY <1>6, <2>8 DEF Told, UpToDate
    <3>2. Knows(x)'
      BY <1>1, <3>1 DEF Knows, Concerns
    <3>3. \A l \in W : /\ due.phase = "today" /\ Mine => l # "soon"
                       /\ due.phase = "over" => l = "over"
      BY <2>2, WantedFits
    <3>4. HasCleared(x)'
      BY <1>1, <2>3, <3>1, <3>3 DEF HasCleared, Mine
    <3> QED BY <3>2, <3>4
  <2> QED BY <1>5, <1>7, <2>5, <2>6, <2>7, <2>8 DEF Told
<1> QED BY <1>2, <1>8, <1>9, <1>10

LEMMA DismissOneTold ==
  ASSUME RemindersTyped, Told, NEW k \in Keys, DismissOne(k)
  PROVE  RemindersTyped' /\ Told'
<1> DEFINE e == [label |-> note[k].label, cycle |-> k.cycle]
<1>1. /\ UNCHANGED <<subject, due, person, round, fresh, crossed>>
      /\ k \in Shown /\ note' = Dismissed({k}) /\ away' = away \cup {e}
  BY DEF DismissOne
<1>2. /\ note' \in [Keys -> NoteDocs] /\ Lessens /\ note'[k].st = "dismissed"
  BY <1>1, DismissedLess
<1>3. /\ note[k].label \in Labels /\ k.cycle \in Cycles
      /\ e \in [label : Labels, cycle : Cycles] /\ e.label = note[k].label /\ e.cycle = k.cycle
  BY NotesTyped
<1> HIDE DEF e
<1>4. RemindersTyped'
  BY <1>1, <1>2, <1>3 DEF RemindersTyped, RemindersTypeOK
<1>5. NotesFit'
  <2>1. SUFFICES ASSUME NEW h \in Shown'
                 PROVE  NoteFits(h)'
    BY DEF NotesFit
  <2>2. h \in Shown /\ note'[h].label = note[h].label
    BY <1>2 DEF Lessens
  <2>3. NoteFits(h)
    BY <2>2 DEF Told, NotesFit
  <2>4. KeyOf(note[h].label, h.cycle, person.role)' = KeyOf(note[h].label, h.cycle, person.role)
    BY <1>1, <2>2 DEF KeyOf, SuffixOf
  <2> QED BY <1>1, <2>2, <2>3, <2>4 DEF NoteFits, Entitled, Timely, Mine
<1>6. AwayKept'
  <2>1. SUFFICES ASSUME NEW l \in Labels, NEW c \in Cycles, [label |-> l, cycle |-> c] \in away'
                 PROVE  note'[KeyOf(l, c, person.role)'].st = "dismissed"
    BY DEF AwayKept
  <2>2. KeyOf(l, c, person.role)' = KeyOf(l, c, person.role)
    BY <1>1 DEF KeyOf, SuffixOf
  <2>3. KeyOf(l, c, person.role) \in Keys
    BY KeyTyped DEF RemindersTyped, RemindersTypeOK, PersonDocs
  <2>4. CASE [label |-> l, cycle |-> c] \in away
    <3>1. note[KeyOf(l, c, person.role)].st = "dismissed"
      BY <2>4 DEF Told, AwayKept
    <3> QED BY <1>2, <2>2, <2>3, <3>1 DEF Lessens
  <2>5. CASE [label |-> l, cycle |-> c] = e
    <3>1. l = note[k].label /\ c = k.cycle
      BY <1>3, <2>5
    <3>2. k = KeyOf(l, c, person.role)
      BY <1>1, <3>1 DEF Told, NotesFit, NoteFits
    <3> QED BY <1>2, <2>2, <3>2
  <2> QED BY <1>1, <2>1, <2>4, <2>5
<1>7. FreshWanted' /\ \A r \in Rounds : Knows(r)' /\ HasCleared(r)'
  <2>1. FreshWanted'
    BY <1>1, <1>2 DEF Told, FreshWanted, Lessens, Wanted
  <2>2. ASSUME NEW r \in Rounds
        PROVE  Knows(r)' /\ HasCleared(r)'
    <3>1. Knows(r) /\ HasCleared(r) /\ (UpToDate(r)' <=> UpToDate(r))
      BY <1>1 DEF Told, UpToDate
    <3> QED BY <1>1, <1>2, <3>1, ZenonT(60) DEF Knows, HasCleared, Lessens, Concerns, Mine
  <2> QED BY <2>1, <2>2
<1> QED BY <1>4, <1>5, <1>6, <1>7 DEF Told

-----------------------------------------------------------------------------
(* Changes of the task and of the person: after them no run is current.    *)
LEMMA ChangeTold ==
  ASSUME RemindersTyped, Told, Outdated, fresh' = FALSE, UNCHANGED crossed,
         due' \in DueDocs, person' \in PersonDocs, note' \in [Keys -> NoteDocs],
         away' \subseteq [label : Labels, cycle : Cycles],
         NotesFit', AwayKept'
  PROVE  RemindersTyped' /\ Told'
<1>1. \A r \in Rounds :
        round'[r] = IF round[r] = Rests THEN Rests ELSE [round[r] EXCEPT !.stale = TRUE]
  BY DEF Outdated
<1>2. \A r \in Rounds : round[r] # Rests =>
        [round[r] EXCEPT !.stale = TRUE] \in RoundDocs /\ [round[r] EXCEPT !.stale = TRUE].stale
  <2>1. ASSUME NEW q \in RoundDocs, q # Rests
        PROVE  [q EXCEPT !.stale = TRUE] \in RoundDocs /\ [q EXCEPT !.stale = TRUE].stale
    BY <2>1, RoundShapes DEF RoundDocs
  <2> QED BY <2>1 DEF RemindersTyped
<1>3. round' \in [Rounds -> RoundDocs]
  BY <1>2 DEF Outdated, RoundDocs
<1>4. \A r \in Rounds : ~UpToDate(r)'
  BY <1>1, <1>2 DEF UpToDate
<1>5. RemindersTyped'
  BY <1>3 DEF RemindersTyped, RemindersTypeOK
<1> QED BY <1>4, <1>5 DEF Told, FreshWanted, Knows, HasCleared

(* Where the person stays who it is, what was sent away stays away.        *)
LEMMA AwayStays ==
  ASSUME RemindersTyped, Told, Lessens, UNCHANGED <<subject, away>>, person'.role = person.role
  PROVE  AwayKept'
<1>1. \A l \in Labels, c \in Cycles : KeyOf(l, c, person.role)' = KeyOf(l, c, person.role)
  BY DEF KeyOf, SuffixOf
<1>2. \A l \in Labels, c \in Cycles : KeyOf(l, c, person.role) \in Keys
  <2>1. person.role \in Roles
    BY DEF RemindersTyped, RemindersTypeOK, PersonDocs
  <2> QED BY <2>1, KeyTyped
<1> QED BY <1>1, <1>2 DEF Told, AwayKept, Lessens

LEMMA DueComesNearerTold ==
  ASSUME RemindersTyped, Told, DueComesNearer
  PROVE  RemindersTyped' /\ Told'
<1>1. /\ UNCHANGED <<subject, person, note, crossed, away>> /\ Outdated /\ fresh' = FALSE
      /\ due.phase # "over" /\ due' = [due EXCEPT !.phase = PhaseAfter(due.phase)]
  BY DEF DueComesNearer
<1>2. /\ due' \in DueDocs /\ due'.phase = PhaseAfter(due.phase) /\ due'.cycle = due.cycle
      /\ due'.open = due.open /\ due.phase \in Phases
  BY <1>1 DEF RemindersTyped, RemindersTypeOK, DueDocs, PhaseAfter, Phases
<1>3. NotesFit'
  <2>1. SUFFICES ASSUME NEW k \in Shown
                 PROVE  NoteFits(k)'
    BY <1>1, NoneLess DEF NotesFit
  <2>2. NoteFits(k)
    BY DEF Told, NotesFit
  <2>3. KeyOf(note[k].label, k.cycle, person.role)' = KeyOf(note[k].label, k.cycle, person.role)
    BY <1>1 DEF KeyOf, SuffixOf
  <2>4. Timely(note[k].label)'
    BY <1>1, <1>2, <2>2 DEF NoteFits, Timely, PhaseAfter, Phases
  <2> QED BY <1>1, <1>2, <2>2, <2>3, <2>4 DEF NoteFits, Entitled, Mine
<1>4. AwayKept'
  BY <1>1, NoneLess, AwayStays
<1> QED BY <1>1, <1>2, <1>3, <1>4, ChangeTold DEF RemindersTyped, RemindersTypeOK

(* All notices are dismissed, or there was none.                           *)
LEMMA NothingShown ==
  ASSUME RemindersTyped, Told, UNCHANGED <<subject, person, away, crossed>>,
         Outdated, fresh' = FALSE, due' \in DueDocs,
         note' = Dismissed(Keys) \/ (note' = note /\ Shown = {})
  PROVE  RemindersTyped' /\ Told'
<1>1. Lessens /\ note' \in [Keys -> NoteDocs] /\ Shown' = {}
  <2>1. CASE note' = Dismissed(Keys)
    <3>1. Lessens /\ note' \in [Keys -> NoteDocs] /\ \A k \in Shown' : k \notin Keys
      BY <2>1, DismissedLess
    <3> QED BY <3>1 DEF Shown
  <2>2. CASE note' = note /\ Shown = {}
    BY <2>2, NoneLess DEF RemindersTyped, RemindersTypeOK
  <2> QED BY <2>1, <2>2
<1>2. NotesFit'
  BY <1>1 DEF NotesFit
<1>3. AwayKept'
  BY <1>1, AwayStays
<1> QED BY <1>1, <1>2, <1>3, ChangeTold DEF RemindersTyped, RemindersTypeOK

(* The archive mark is nothing what is shown depends on.                   *)
LEMMA MarkTold ==
  ASSUME RemindersTyped, Told, UNCHANGED <<subject, person, note, away, crossed>>,
         Outdated, fresh' = FALSE, NEW b \in BOOLEAN, due' = [due EXCEPT !.archived = b]
  PROVE  RemindersTyped' /\ Told'
<1>1. /\ due' \in DueDocs /\ due'.phase = due.phase /\ due'.cycle = due.cycle
      /\ due'.open = due.open
  BY DEF RemindersTyped, RemindersTypeOK, DueDocs
<1>2. NotesFit'
  <2>1. SUFFICES ASSUME NEW k \in Shown
                 PROVE  NoteFits(k)'
    BY NoneLess DEF NotesFit
  <2>2. NoteFits(k)
    BY DEF Told, NotesFit
  <2>3. KeyOf(note[k].label, k.cycle, person.role)' = KeyOf(note[k].label, k.cycle, person.role)
    BY DEF KeyOf, SuffixOf
  <2> QED BY <1>1, <2>2, <2>3 DEF NoteFits, Entitled, Timely, Mine
<1>3. AwayKept'
  BY NoneLess, AwayStays
<1> QED BY <1>1, <1>2, <1>3, ChangeTold DEF RemindersTyped, RemindersTypeOK

LEMMA RescheduleTold ==
  ASSUME RemindersTyped, Told, NEW p \in Phases, Reschedule(p)
  PROVE  RemindersTyped' /\ Told'
<1>1. due.cycle + 1 \in Cycles
  BY RemindersAssumption DEF Reschedule, Cycles, RemindersTyped, RemindersTypeOK, DueDocs
<1>2. due' \in DueDocs
  BY <1>1 DEF Reschedule, RemindersTyped, RemindersTypeOK, DueDocs
<1> QED BY <1>2, NothingShown DEF Reschedule

LEMMA CompleteTaskTold ==
  ASSUME RemindersTyped, Told, CompleteTask
  PROVE  RemindersTyped' /\ Told'
<1>1. due' \in DueDocs
  BY DEF CompleteTask, RemindersTyped, RemindersTypeOK, DueDocs
<1> QED BY <1>1, NothingShown DEF CompleteTask

LEMMA ReopenTaskTold ==
  ASSUME RemindersTyped, Told, ReopenTask
  PROVE  RemindersTyped' /\ Told'
<1>1. due.cycle + 1 \in Cycles
  BY RemindersAssumption DEF ReopenTask, Cycles, RemindersTyped, RemindersTypeOK, DueDocs
<1>2. due' \in DueDocs
  BY <1>1 DEF ReopenTask, RemindersTyped, RemindersTypeOK, DueDocs
<1>3. Shown = {}
  BY DEF ReopenTask, Told, NotesFit, NoteFits
<1> QED BY <1>2, <1>3, NothingShown DEF ReopenTask

LEMMA ArchiveDueTold ==
  ASSUME RemindersTyped, Told, ArchiveDue \/ UnarchiveDue
  PROVE  RemindersTyped' /\ Told'
<1>1. CASE ArchiveDue /\ subject = "task"
  <2>1. due' \in DueDocs
    BY <1>1 DEF ArchiveDue, RemindersTyped, RemindersTypeOK, DueDocs
  <2> QED BY <1>1, <2>1, NothingShown DEF ArchiveDue
<1>2. CASE ArchiveDue /\ subject # "task"
  BY <1>2, MarkTold DEF ArchiveDue
<1>3. CASE UnarchiveDue
  BY <1>3, MarkTold DEF UnarchiveDue
<1> QED BY <1>1, <1>2, <1>3

LEMMA ReassignTold ==
  ASSUME RemindersTyped, Told, Reassign
  PROVE  RemindersTyped' /\ Told'
<1> DEFINE p == [person EXCEPT !.assigned = ~person.assigned]
<1>1. /\ UNCHANGED <<subject, due, crossed, away>> /\ Outdated /\ fresh' = FALSE
      /\ subject = "task" /\ person' = p
      /\ note' = IF person.assigned THEN Deleted(NotForOthers(person.role)) ELSE note
  BY DEF Reassign
<1>2. /\ p \in PersonDocs /\ p.role = person.role /\ p.assigned = ~person.assigned
      /\ person.role \in Roles /\ person.assigned \in BOOLEAN
  BY DEF RemindersTyped, RemindersTypeOK, PersonDocs
<1> HIDE DEF p
<1>3. /\ Lessens /\ note' \in [Keys -> NoteDocs]
      /\ person.assigned => \A k \in Shown' : k \notin NotForOthers(person.role)
  <2>1. CASE person.assigned
    BY <1>1, <2>1, DeletedLess
  <2>2. CASE ~person.assigned
    BY <1>1, <2>2, NoneLess DEF RemindersTyped, RemindersTypeOK
  <2> QED BY <2>1, <2>2
<1>4. AwayKept'
  BY <1>1, <1>2, <1>3, AwayStays
<1>5. NotesFit'
  <2>1. SUFFICES ASSUME NEW k \in Shown'
                 PROVE  NoteFits(k)'
    BY DEF NotesFit
  <2>2. k \in Shown /\ note'[k].label = note[k].label /\ k \in Keys
    BY <1>3 DEF Lessens, Shown
  <2>3. NoteFits(k)
    BY <2>2 DEF Told, NotesFit
  <2>4. KeyOf(note[k].label, k.cycle, person.role)' = KeyOf(note[k].label, k.cycle, person.role)
    BY <1>1, <1>2, <2>2 DEF KeyOf, SuffixOf
  <2>5. Entitled(note[k].label)'
    <3>1. CASE ~person.assigned
      BY <1>1, <1>2, <3>1 DEF Entitled, Mine
    <3>2. CASE person.assigned
      <4>1. k \notin NotForOthers(person.role)
        BY <1>3, <2>1, <3>2
      <4>2. note[k].label \in Labels /\ k.cycle \in Cycles
        BY <2>2, NotesTyped
      <4>3. k.type = "over" <=> note[k].label = "over"
        BY <1>2, <2>3, <4>2, KeyTyped DEF NoteFits
      <4>4. CASE person.role = "member"
        BY <2>2, <4>1, <4>4 DEF NotForOthers
      <4>5. CASE person.role = "admin"
        <5>1. k.type = "over"
          BY <2>2, <4>1, <4>5, NotesTyped DEF NotForOthers, OfType
        <5> QED BY <1>1, <1>2, <2>2, <4>3, <4>5, <5>1 DEF Entitled
      <4>6. CASE person.role = "manager"
        <5>1. k.type = "soon" => k.suffix # "24h"
          BY <2>2, <4>1, <4>6 DEF NotForOthers, OfType
        <5>2. note[k].label # "today"
          BY <1>1, <2>3, <4>6, <5>1, KeyOfToday DEF NoteFits
        <5> QED BY <1>1, <1>2, <2>2, <4>6, <5>2 DEF Entitled
      <4> QED BY <1>2, <4>4, <4>5, <4>6 DEF Roles
    <3> QED BY <3>1, <3>2
  <2> QED BY <1>1, <2>2, <2>3, <2>4, <2>5 DEF NoteFits, Timely
<1> QED BY <1>1, <1>2, <1>3, <1>4, <1>5, ChangeTold DEF RemindersTyped, RemindersTypeOK

LEMMA ChangeRoleTold ==
  ASSUME RemindersTyped, Told, NEW role \in Roles, ChangeRole(role)
  PROVE  RemindersTyped' /\ Told'
<1> DEFINE p == [person EXCEPT !.role = role]
           ks == OfType("soon") \cup IF role = "member" /\ ~person.assigned THEN OfType("over") ELSE {}
<1>1. /\ UNCHANGED <<subject, due, crossed>> /\ Outdated /\ fresh' = FALSE /\ away' = {}
      /\ subject = "task" /\ person' = p /\ note' = Deleted(ks)
  BY DEF ChangeRole
<1>2. p \in PersonDocs /\ p.role = role /\ p.assigned = person.assigned /\ person.role \in Roles
  BY DEF RemindersTyped, RemindersTypeOK, PersonDocs
<1> HIDE DEF p
<1>3. Lessens /\ note' \in [Keys -> NoteDocs] /\ \A k \in Shown' : k \notin ks
  BY <1>1, DeletedLess
<1>4. AwayKept'
  BY <1>1 DEF AwayKept
<1>5. NotesFit'
  <2>1. SUFFICES ASSUME NEW k \in Shown'
                 PROVE  NoteFits(k)'
    BY DEF NotesFit
  <2>2. k \in Shown /\ note'[k].label = note[k].label /\ k \in Keys
    BY <1>3 DEF Lessens, Shown
  <2>3. NoteFits(k)
    BY <2>2 DEF Told, NotesFit
  <2>4. note[k].label \in Labels /\ k.cycle \in Cycles /\ k.type \in {"soon", "over"}
    BY <2>2, NotesTyped
  <2>5. k.type = "over" /\ ~(role = "member" /\ ~person.assigned)
    BY <1>3, <2>1, <2>2, <2>4 DEF OfType
  <2>6. note[k].label = "over"
    BY <1>2, <2>3, <2>4, <2>5, KeyTyped DEF NoteFits
  <2>7. KeyOf(note[k].label, k.cycle, person.role)' = KeyOf(note[k].label, k.cycle, person.role)
    <3>1. KeyOf(note[k].label, k.cycle, person.role)' = KeyOf("over", k.cycle, role)
      BY <1>1, <1>2, <2>2, <2>6 DEF KeyOf, SuffixOf
    <3> QED BY <2>6, <3>1, KeyOfLate
  <2>8. Entitled(note[k].label)'
    BY <1>1, <1>2, <2>2, <2>5, <2>6 DEF Entitled, Mine, Roles
  <2> QED BY <1>1, <2>2, <2>3, <2>7, <2>8 DEF NoteFits, Timely
<1> QED BY <1>1, <1>2, <1>3, <1>4, <1>5, ChangeTold DEF RemindersTyped, RemindersTypeOK

-----------------------------------------------------------------------------
LEMMA RemindersStep ==
  ASSUME RemindersInv, [RemindersNext]_reminderVars
  PROVE  RemindersInv'
<1>1. CASE RemindersNext
  <2>1. ~crossed /\ RemindersTyped /\ Told
    BY <1>1 DEF RemindersNext, RemindersInv
  <2>2. CASE Changing
    BY <2>1, <2>2, RescheduleTold, CompleteTaskTold, ReopenTaskTold, ArchiveDueTold,
       ReassignTold, ChangeRoleTold DEF Changing, RemindersInv
  <2>3. CASE DueComesNearer
    BY <2>1, <2>3, DueComesNearerTold DEF RemindersInv
  <2>4. CASE \E k \in Keys : DismissOne(k)
    BY <2>1, <2>4, DismissOneTold DEF RemindersInv
  <2>5. ASSUME NEW r \in Rounds,
               \/ ReadMembership(r) \/ ReadDue(r) \/ DismissToday(r)
               \/ DismissOverdue(r) \/ WriteReminders(r)
        PROVE  RemindersInv'
    BY <2>1, <2>5, ReadMembershipTold, ReadDueTold, DismissTodayTold, DismissOverdueTold,
       WriteRemindersTold DEF RemindersInv
  <2> QED BY <1>1, <2>2, <2>3, <2>4, <2>5 DEF RemindersNext
<1>2. CASE UNCHANGED reminderVars
  <2> USE <1>2 DEF reminderVars
  <2>1. RemindersTyped' <=> RemindersTyped
    BY DEF RemindersTyped, RemindersTypeOK
  <2>2. CASE crossed
    BY <2>1, <2>2 DEF RemindersInv
  <2>3. CASE Told /\ RemindersTyped
    <3>1. NotesFit' /\ AwayKept' /\ FreshWanted' /\ \A r \in Rounds : Knows(r)' /\ HasCleared(r)'
      BY <2>3, NoneLess, LessFits
    <3> QED BY <2>1, <2>3, <3>1 DEF RemindersInv, Told
  <2> QED BY <2>2, <2>3 DEF RemindersInv
<1> QED BY <1>1, <1>2

(* The task, the person and the notifications keep their types.            *)
THEOREM RemindersTypeCorrect == RemindersSpec => []RemindersTypeOK
<1>1. RemindersInv => RemindersTypeOK
  BY DEF RemindersInv, RemindersTyped
<1> QED BY <1>1, RemindersBegin, RemindersStep, PTL DEF RemindersSpec

(* What is shown is about the date the task has and, after a whole run,    *)
(* what the person should hear; what was sent away stays away: for any     *)
(* number of runs and of new dates and any mix of changes, until a run     *)
(* writes from what is no longer so.                                       *)
THEOREM RemindersKeptInOrder == RemindersSpec => []RemindersInOrder
<1>1. RemindersInv => RemindersInOrder
  <2>1. SUFFICES ASSUME RemindersTyped, Told, ~crossed
                 PROVE  SentAwayStaysAway /\ RemindersRight
    <3>1. RemindersInv => crossed \/ (RemindersTyped /\ Told)
      BY DEF RemindersInv
    <3>2. crossed => SentAwayStaysAway /\ RemindersRight
      BY DEF SentAwayStaysAway, RemindersRight
    <3> QED BY <2>1, <3>1, <3>2 DEF RemindersInOrder
  <2>2. ASSUME NEW k \in Shown
        PROVE  /\ [label |-> note[k].label, cycle |-> k.cycle] \notin away
               /\ due.open /\ k.cycle = due.cycle
    <3>1. note[k].label \in Labels /\ k.cycle \in Cycles /\ note[k].st = "live" /\ NoteFits(k)
      BY <2>1, NotesTyped DEF Shown, Told, NotesFit
    <3>2. ASSUME [label |-> note[k].label, cycle |-> k.cycle] \in away
          PROVE  FALSE
      <4>1. note[KeyOf(note[k].label, k.cycle, person.role)].st = "dismissed"
        BY <2>1, <3>1, <3>2 DEF Told, AwayKept
      <4> QED BY <3>1, <4>1 DEF NoteFits
    <3> QED BY <3>1, <3>2 DEF NoteFits
  <2>3. SentAwayStaysAway
    BY <2>2 DEF SentAwayStaysAway
  <2>4. RemindersRight
    BY <2>1, <2>2 DEF RemindersRight, Told, FreshWanted
  <2> QED BY <2>3, <2>4
<1> QED BY <1>1, RemindersBegin, RemindersStep, PTL DEF RemindersSpec

-----------------------------------------------------------------------------
(* Prices. What holds of every calendar and price list: there is a next    *)
(* month to every month.                                                   *)
EndlessCalendar == DOMAIN MonthStart = Nat

(* A set of numbers that is not empty has a least one.                     *)
LEMMA LeastNumber ==
  ASSUME NEW T \in SUBSET Nat, T # {}
  PROVE  \E x \in T : \A y \in T : x <= y
  <1>1. \A x, y \in Nat : <<x, y>> \in OpToRel(<, Nat) <=> x < y
    BY DEF OpToRel
  <1>2. \E R : IsWellFoundedOn(R, Nat) /\ \A x, y \in Nat : <<x, y>> \in R <=> x < y
    BY <1>1, NatLessThanWellFounded
  <1>3. PICK R : IsWellFoundedOn(R, Nat) /\ \A x, y \in Nat : <<x, y>> \in R <=> x < y
    BY <1>2
  <1>4. T \subseteq Nat /\ IsWellFoundedOn(R, Nat)
    BY <1>3
  <1>5. PICK x \in T : \A y \in T : ~(<<y, x>> \in R)
    BY <1>4, WFMin, Zenon
  <1>6. \A y \in T : ~(y < x)
    BY <1>3, <1>4, <1>5, Zenon
  <1>7. x \in Nat /\ \A y \in T : y \in Nat
    BY <1>4
  <1>8. \A y \in T : x <= y
    BY <1>6, <1>7
  <1> QED
    BY <1>8

(* A set of numbers with 0 and every successor has all of them.            *)
LEMMA AllNumbers ==
  ASSUME NEW T \in SUBSET Nat, 0 \in T, \A n \in T : n + 1 \in T
  PROVE  T = Nat
  <1> SUFFICES ASSUME Nat \ T # {} PROVE FALSE
    OBVIOUS
  <1>1. PICK n \in Nat \ T : \A y \in Nat \ T : n <= y
    BY LeastNumber
  <1>2. n - 1 \in T
    BY <1>1
  <1> QED
    BY <1>1, <1>2

LEMMA MonthsGoOn ==
  ASSUME EndlessCalendar, NEW m \in Nat
  PROVE  MonthStart[m] \in Nat /\ MonthDays(m) \in 28..31
         /\ MonthStart[m + 1] = MonthStart[m] + MonthDays(m)
  BY QuotesAssumption, SMTT(60) DEF EndlessCalendar, MonthDays

LEMMA MonthsReach ==
  ASSUME EndlessCalendar, NEW m \in Nat
  PROVE  m <= MonthStart[m]
  <1> DEFINE T == {n \in Nat : n <= MonthStart[n]}
  <1>1. 0 \in T
    BY QuotesAssumption
  <1>2. \A n \in T : n + 1 \in T
    BY MonthsGoOn
  <1>3. T = Nat
    <2> HIDE DEF T
    <2>1. T \in SUBSET Nat
      BY DEF T
    <2> QED
      BY <1>1, <1>2, <2>1, AllNumbers
  <1> QED
    BY <1>3

(* Every day is in a month.                                                *)
LEMMA MonthFound ==
  ASSUME EndlessCalendar, NEW d \in Nat
  PROVE  /\ MonthOf(d) \in Nat
         /\ MonthStart[MonthOf(d)] <= d /\ d < MonthStart[MonthOf(d) + 1]
  <1> DEFINE T == {n \in Nat : d < MonthStart[n]}
  <1>1. d + 1 \in T
    BY MonthsReach, MonthsGoOn
  <1>2. \E n \in T : \A y \in T : n <= y
    <2>1. T \in SUBSET Nat /\ T # {}
      BY <1>1
    <2> HIDE DEF T
    <2> QED
      BY <2>1, LeastNumber
  <1>3. PICK n \in T : \A y \in T : n <= y
    BY <1>2
  <1>4. n # 0
    BY QuotesAssumption
  <1>5. n - 1 \in Nat /\ ~(n - 1 \in T)
    BY <1>3, <1>4
  <1>6. MonthStart[n - 1] <= d
    BY <1>5, MonthsGoOn
  <1>7. \E m \in DOMAIN MonthStart :
          /\ m + 1 \in DOMAIN MonthStart
          /\ MonthStart[m] <= d /\ d < MonthStart[m + 1]
    <2>1. (n - 1) + 1 = n
      BY <1>3
    <2> QED
      BY <1>5, <1>6, <2>1 DEF EndlessCalendar
  <1> QED
    BY <1>7 DEF MonthOf, EndlessCalendar

LEMMA PeriodLength ==
  ASSUME EndlessCalendar, NEW d \in Nat, NEW c \in BillingCycles
  PROVE  /\ AddBillingPeriod(d, c) \in Nat
         /\ AddBillingPeriod(d, c) - d \in ShortestPeriod(c)..LongestPeriod(c)
  <1> DEFINE m == MonthOf(d)
             day == d - MonthStart[m]
             to == m + Months(c)
             end == MonthStart[to] + Smaller(day, MonthDays(to) - 1)
  <1>1. m \in Nat /\ MonthStart[m] <= d /\ d < MonthStart[m + 1]
    BY MonthFound
  <1>2. AddBillingPeriod(d, c) = end
    BY DEF AddBillingPeriod
  <1> HIDE DEF m
  <1>3. MonthStart[m] \in Nat /\ MonthDays(m) \in 28..31
        /\ MonthStart[m + 1] = MonthStart[m] + MonthDays(m)
    BY <1>1, MonthsGoOn
  <1>4. day \in 0..(MonthDays(m) - 1)
    BY <1>1, <1>3
  <1>5. CASE c = "monthly"
    <2>1. to = m + 1
      BY <1>5 DEF Months
    <2>2. MonthDays(m + 1) \in 28..31
      BY <1>1, MonthsGoOn
    <2>3. end = MonthStart[m] + MonthDays(m) + Smaller(day, MonthDays(m + 1) - 1)
      BY <1>3, <2>1
    <2> QED
      BY <1>2, <1>3, <1>4, <1>5, <2>2, <2>3 DEF Smaller, ShortestPeriod, LongestPeriod
  <1>6. CASE c = "yearly"
    <2>1. to = m + 12
      BY <1>6 DEF Months
    <2>2. /\ MonthStart[m + 12] \in Nat
          /\ MonthDays(m + 12) \in 28..31
          /\ \/ MonthStart[m + 12] - MonthStart[m] \in {365, 366}
                /\ MonthDays(m) <= MonthDays(m + 12)
             \/ MonthStart[m + 12] - MonthStart[m] = 366
                /\ MonthDays(m) = MonthDays(m + 12) + 1
      <3>1. m + 12 \in Nat /\ m + 13 \in Nat /\ (m + 12) + 1 = m + 13
        BY <1>1
      <3>2. MonthDays(m + 12) = MonthStart[m + 13] - MonthStart[m + 12]
        BY <3>1 DEF MonthDays
      <3>3. MonthStart[m + 12] \in Nat /\ MonthDays(m + 12) \in 28..31
        BY <3>1, MonthsGoOn
      <3>4. m \in DOMAIN MonthStart /\ m + 13 \in DOMAIN MonthStart
        BY <1>1, <3>1 DEF EndlessCalendar
      <3>5. LET year == MonthStart[m + 12] - MonthStart[m]
                days == MonthStart[m + 1] - MonthStart[m]
                later == MonthStart[m + 13] - MonthStart[m + 12]
            IN  \/ year \in {365, 366} /\ days <= later
                \/ year = 366 /\ days = later + 1
        BY <3>4, QuotesAssumption
      <3>6. MonthDays(m) = MonthStart[m + 1] - MonthStart[m]
        BY DEF MonthDays
      <3> HIDE DEF m
      <3> QED
        BY <3>2, <3>3, <3>5, <3>6
    <2>3. end = MonthStart[m + 12] + Smaller(day, MonthDays(m + 12) - 1)
      BY <2>1
    <2> QED
      BY <1>2, <1>3, <1>4, <1>6, <2>2, <2>3 DEF Smaller, ShortestPeriod, LongestPeriod
  <1> QED
    BY <1>5, <1>6 DEF BillingCycles

LEMMA RoundedBounds ==
  ASSUME NEW x \in Int, NEW y \in Nat \ {0}
  PROVE  /\ Rounded(x, y) \in Int
         /\ 2 * y * Rounded(x, y) <= 2 * x + y
         /\ 2 * y * Rounded(x, y) > 2 * x - y
  <1> DEFINE q == (2 * x + y) \div (2 * y)
             r == (2 * x + y) % (2 * y)
  <1>1. 2 * x + y \in Int /\ 2 * y \in Nat \ {0}
    OBVIOUS
  <1>2. q \in Int /\ r \in 0..(2 * y - 1) /\ 2 * x + y = (2 * y) * q + r
    BY <1>1
  <1> QED
    BY <1>2 DEF Rounded

(* Whole periods one after the other.                                      *)
Periods(f, d, c, w) ==
  f = [n \in 0..w |-> IF n = 0 THEN d ELSE AddBillingPeriod(f[n - 1], c)]

LEMMA PeriodsDefined ==
  ASSUME NEW d, NEW c, NEW w \in Nat
  PROVE  \E f : Periods(f, d, c, w)
  <1> DEFINE T == {k \in Nat : \E f : f = [n \in 0..k |->
                      IF n = 0 THEN d ELSE AddBillingPeriod(f[n - 1], c)]}
  <1>1. 0 \in T
    <2> DEFINE f == [n \in 0..0 |-> d]
    <2>1. f = [n \in 0..0 |-> IF n = 0 THEN d ELSE AddBillingPeriod(f[n - 1], c)]
      OBVIOUS
    <2> QED
      BY <2>1
  <1>2. ASSUME NEW k \in T PROVE k + 1 \in T
    <2>1. PICK f : f = [n \in 0..k |-> IF n = 0 THEN d ELSE AddBillingPeriod(f[n - 1], c)]
      OBVIOUS
    <2> DEFINE g == [n \in 0..(k + 1) |-> IF n <= k THEN f[n] ELSE AddBillingPeriod(f[k], c)]
    <2>2. ASSUME NEW n \in 0..(k + 1)
          PROVE  g[n] = IF n = 0 THEN d ELSE AddBillingPeriod(g[n - 1], c)
      <3>1. CASE n = 0
        BY <2>1, <3>1
      <3>2. CASE n # 0 /\ n <= k
        <4>1. g[n] = f[n] /\ g[n - 1] = f[n - 1] /\ n \in 0..k
          BY <3>2
        <4> HIDE DEF g
        <4> QED
          BY <2>1, <3>2, <4>1
      <3>3. CASE n = k + 1
        <4>1. g[n] = AddBillingPeriod(f[k], c) /\ g[n - 1] = f[k]
          BY <3>3
        <4> HIDE DEF g
        <4> QED
          BY <3>3, <4>1
      <3> QED
        BY <3>1, <3>2, <3>3
    <2>3. g = [n \in 0..(k + 1) |-> g[n]]
      OBVIOUS
    <2> HIDE DEF g
    <2>4. g = [n \in 0..(k + 1) |-> IF n = 0 THEN d ELSE AddBillingPeriod(g[n - 1], c)]
      BY <2>2, <2>3
    <2> QED
      BY <2>4
  <1>3. T \in SUBSET Nat
    OBVIOUS
  <1>4. T = Nat
    <2> HIDE DEF T
    <2> QED
      BY <1>1, <1>2, <1>3, AllNumbers
  <1> QED
    BY <1>4 DEF Periods

LEMMA PeriodsReach ==
  ASSUME EndlessCalendar, NEW d \in Nat, NEW c \in BillingCycles, NEW w \in Nat,
         NEW f, Periods(f, d, c, w)
  PROVE  /\ f[w] \in Nat
         /\ w * ShortestPeriod(c) <= f[w] - d
         /\ f[w] - d <= w * LongestPeriod(c)
  <1> DEFINE S == ShortestPeriod(c)
             L == LongestPeriod(c)
             T == {n \in Nat : n <= w => f[n] \in Nat /\ n * S <= f[n] - d /\ f[n] - d <= n * L}
  <1>0. S \in Nat /\ L \in Nat
    BY DEF ShortestPeriod, LongestPeriod
  <1> HIDE DEF S, L
  <1>1. 0 \in T
    <2>1. f[0] = d
      BY DEF Periods
    <2> QED
      BY <1>0, <2>1
  <1>2. ASSUME NEW n \in T PROVE n + 1 \in T
    <2> SUFFICES ASSUME n + 1 <= w
                 PROVE  /\ f[n + 1] \in Nat
                        /\ (n + 1) * S <= f[n + 1] - d
                        /\ f[n + 1] - d <= (n + 1) * L
      OBVIOUS
    <2>1. n \in Nat /\ f[n] \in Nat /\ n * S <= f[n] - d /\ f[n] - d <= n * L
      OBVIOUS
    <2>2. f[n + 1] = AddBillingPeriod(f[n], c)
      <3>1. n + 1 \in 0..w /\ n + 1 # 0 /\ (n + 1) - 1 = n
        BY <2>1
      <3> QED
        BY <3>1 DEF Periods
    <2>3. f[n + 1] \in Nat /\ f[n + 1] - f[n] \in S..L
      BY <2>1, <2>2, PeriodLength DEF S, L
    <2>4. (n + 1) * S = n * S + S /\ (n + 1) * L = n * L + L /\ n * S \in Nat /\ n * L \in Nat
      BY <1>0, <2>1
    <2> QED
      BY <1>0, <2>1, <2>3, <2>4
  <1>3. T \in SUBSET Nat
    OBVIOUS
  <1>4. T = Nat
    <2> HIDE DEF T
    <2> QED
      BY <1>1, <1>2, <1>3, AllNumbers
  <1>5. w \in T
    BY <1>4
  <1> QED
    BY <1>5 DEF S, L

(* How far a credit reaches, give or take half a day.                      *)
LEMMA CoverageReach ==
  ASSUME EndlessCalendar, NEW d \in Nat, NEW c \in BillingCycles,
         NEW credit \in Nat, NEW full \in Nat \ {0}
  PROVE  LET end == CreditCoverage(credit, full, c, d)
         IN  /\ end \in Nat
             /\ 2 * (credit * ShortestPeriod(c) - full * (end - d)) <= full
             /\ 2 * (full * (end - d) - credit * LongestPeriod(c)) <= full
             /\ credit >= full => d < end
  <1> DEFINE S == ShortestPeriod(c)
             L == LongestPeriod(c)
             whole == credit \div full
             rest == credit % full
  <1>1. whole \in Nat /\ rest \in 0..(full - 1) /\ credit = full * whole + rest
    OBVIOUS
  <1> HIDE DEF whole, rest
  <1>2. PICK f : Periods(f, d, c, whole)
    BY <1>1, PeriodsDefined
  <1> DEFINE end[n \in 0..whole] == IF n = 0 THEN d ELSE AddBillingPeriod(end[n - 1], c)
  <1>3. Periods(end, d, c, whole)
    BY <1>2 DEF Periods
  <1> DEFINE last == end[whole]
             part == Rounded((AddBillingPeriod(last, c) - last) * rest, full)
  <1>4. CreditCoverage(credit, full, c, d) = last + part
    BY DEF CreditCoverage, whole, rest
  <1> HIDE DEF end
  <1>5. last \in Nat /\ whole * S <= last - d /\ last - d <= whole * L
    BY <1>1, <1>3, PeriodsReach
  <1> DEFINE len == AddBillingPeriod(last, c) - last
  <1> HIDE DEF last
  <1>6. len \in S..L
    BY <1>5, PeriodLength
  <1>7. S \in Nat \ {0} /\ L \in Nat
    BY DEF ShortestPeriod, LongestPeriod
  <1> HIDE DEF S, L, len
  <1>8. /\ part \in Int
        /\ 2 * full * part <= 2 * (len * rest) + full
        /\ 2 * full * part > 2 * (len * rest) - full
    <2>1. len * rest \in Int
      BY <1>1, <1>6, <1>7
    <2> QED
      BY <2>1, RoundedBounds DEF len
  <1> HIDE DEF part
  <1>9. rest * S <= len * rest /\ len * rest <= rest * L
    BY <1>1, <1>6, <1>7
  <1>10. 2 * (credit * S - full * (last + part - d)) <= full
    <2>1. full * (whole * S) <= full * (last - d)
      BY <1>1, <1>5, <1>7
    <2>2. credit * S = full * (whole * S) + rest * S
      BY <1>1, <1>7
    <2>3. 2 * (full * (last + part - d)) = 2 * (full * (last - d)) + 2 * full * part
      BY <1>5, <1>8
    <2> QED
      BY <1>1, <1>5, <1>6, <1>7, <1>8, <1>9, <2>1, <2>2, <2>3
  <1>11. 2 * (full * (last + part - d) - credit * L) <= full
    <2>1. full * (last - d) <= full * (whole * L)
      BY <1>1, <1>5, <1>7
    <2>2. credit * L = full * (whole * L) + rest * L
      BY <1>1, <1>7
    <2>3. 2 * (full * (last + part - d)) = 2 * (full * (last - d)) + 2 * full * part
      BY <1>5, <1>8
    <2> QED
      BY <1>1, <1>5, <1>6, <1>7, <1>8, <1>9, <2>1, <2>2, <2>3
  <1>12. part \in Nat
    <2>1. len * rest \in Nat
      BY <1>1, <1>6, <1>7
    <2>2. ASSUME part < 0 PROVE FALSE
      <3>1. full * part <= -full
        BY <1>8, <2>2
      <3> QED
        BY <1>8, <2>1, <3>1
    <2> QED
      BY <1>8, <2>2
  <1>13. credit >= full => d < last + part
    <2> SUFFICES ASSUME credit >= full PROVE d < last + part
      OBVIOUS
    <2>1. whole # 0
      BY <1>1
    <2>2. whole * S \in Int /\ whole * S > 0
      BY <1>1, <1>7, <2>1
    <2> QED
      BY <1>5, <1>12, <2>2
  <1> QED
    BY <1>4, <1>5, <1>10, <1>11, <1>12, <1>13 DEF S, L

-----------------------------------------------------------------------------
(* Arithmetic.                                                             *)
LEMMA TimesLess ==
  ASSUME NEW a \in Int, NEW b \in Int, NEW k \in Nat, a <= b
  PROVE  k * a <= k * b
  OBVIOUS

LEMMA TimesCancel ==
  ASSUME NEW a \in Int, NEW b \in Int, NEW k \in Nat \ {0}, k * a <= k * b
  PROVE  a <= b
  <1> SUFFICES ASSUME b + 1 <= a PROVE FALSE
    OBVIOUS
  <1>1. k * (b + 1) <= k * a
    BY TimesLess
  <1>2. k * (b + 1) = k * b + k
    OBVIOUS
  <1>3. k * b \in Int /\ k * a \in Int
    OBVIOUS
  <1> QED
    BY <1>1, <1>2, <1>3

(* Of a term that is worth what it costs, give or take x, the rest is too, *)
(* give or take a rounding.                                                *)
LEMMA RestWorth ==
  ASSUME NEW value \in Nat, NEW span \in Nat \ {0}, NEW rest \in 0..span,
         NEW credit \in Int, NEW full \in Nat, NEW least \in Nat,
         NEW short \in Nat, NEW long \in Nat, short <= long, NEW x \in Nat,
         2 * span * credit <= 2 * (value * rest) + span,
         2 * span * credit > 2 * (value * rest) - span,
         least * (value * short - full * span) <= x,
         least * (full * span - value * long) <= x
  PROVE  /\ 2 * (least * (credit * short - full * rest)) <= 2 * x + least * long
         /\ 2 * (least * (full * rest - credit * long)) <= 2 * x + least * long
  <1>0. rest \in Nat /\ rest <= span
    OBVIOUS
  <1>1. rest * x <= span * x
    BY <1>0, TimesLess
  <1>2. 2 * (least * (credit * short - full * rest)) <= 2 * x + least * long
    <2> DEFINE a == 2 * (least * (credit * short - full * rest))
               b == 2 * x + least * long
    <2>1. (least * short) * (2 * span * credit) <= (least * short) * (2 * (value * rest) + span)
      BY TimesLess
    <2>2. rest * (least * (value * short - full * span)) <= rest * x
      BY <1>0, TimesLess
    <2>3. span * (least * short) <= span * (least * long)
      BY TimesLess
    <2>4. span * a = (least * short) * (2 * span * credit) - 2 * (rest * (least * (full * span)))
      BY <1>0
    <2>5. (least * short) * (2 * (value * rest) + span)
            = 2 * (rest * (least * (value * short - full * span)))
              + 2 * (rest * (least * (full * span))) + span * (least * short)
      BY <1>0
    <2>6. span * b = 2 * (span * x) + span * (least * long)
      OBVIOUS
    <2>7. span * a <= span * b
      BY <1>0, <1>1, <2>1, <2>2, <2>3, <2>4, <2>5, <2>6
    <2> QED
      BY <1>0, <2>7, TimesCancel
  <1>3. 2 * (least * (full * rest - credit * long)) <= 2 * x + least * long
    <2> DEFINE a == 2 * (least * (full * rest - credit * long))
               b == 2 * x + least * long
    <2>1. (least * long) * (2 * (value * rest) - span) <= (least * long) * (2 * span * credit)
      BY TimesLess
    <2>2. rest * (least * (full * span - value * long)) <= rest * x
      BY <1>0, TimesLess
    <2>4. span * a = 2 * (rest * (least * (full * span))) - (least * long) * (2 * span * credit)
      BY <1>0
    <2>5. (least * long) * (2 * (value * rest) - span)
            = 2 * (rest * (least * (full * span)))
              - 2 * (rest * (least * (full * span - value * long))) - span * (least * long)
      BY <1>0
    <2>6. span * b = 2 * (span * x) + span * (least * long)
      OBVIOUS
    <2>7. span * a <= span * b
      BY <1>0, <1>1, <2>1, <2>2, <2>4, <2>5, <2>6
    <2> QED
      BY <1>0, <2>7, TimesCancel
  <1> QED
    BY <1>2, <1>3

(* What is added by a renewal.                                             *)
LEMMA RenewedWorth ==
  ASSUME NEW rest \in Nat, NEW credit \in Int, NEW full \in Nat, NEW least \in Nat,
         NEW short \in Nat, NEW long \in Nat, NEW n \in Nat, NEW len \in short..long,
         least <= full,
         2 * (least * (credit * short - full * rest)) <= 2 * (n * full * (least + long)) + least * long,
         2 * (least * (full * rest - credit * long)) <= 2 * (n * full * (least + long)) + least * long
  PROVE  /\ least * ((credit + full) * short - full * (rest + len)) <= (n + 1) * full * (least + long)
         /\ least * (full * (rest + len) - (credit + full) * long) <= (n + 1) * full * (least + long)
  <1>0. len \in Nat /\ short <= len /\ len <= long
    OBVIOUS
  <1> DEFINE x == n * full * (least + long)
             slack == (n + 1) * full * (least + long)
  <1>1. slack = x + full * least + full * long /\ x \in Nat
    OBVIOUS
  <1>2. long * least <= long * full
    BY TimesLess
  <1>3. long * least = least * long /\ long * full = full * long
        /\ full * least \in Nat /\ full * long \in Nat
    OBVIOUS
  <1>4. (least * full) * short <= (least * full) * len /\ (least * full) * len <= (least * full) * long
    BY <1>0, TimesLess
  <1>5. least * ((credit + full) * short - full * (rest + len))
          = least * (credit * short - full * rest) + (least * full) * short - (least * full) * len
    BY <1>0
  <1>6. least * (full * (rest + len) - (credit + full) * long)
          = least * (full * rest - credit * long) + (least * full) * len - (least * full) * long
    BY <1>0
  <1>7. /\ least * (credit * short - full * rest) \in Int
        /\ least * (full * rest - credit * long) \in Int
        /\ (least * full) * short \in Int /\ (least * full) * len \in Int
        /\ (least * full) * long \in Int
    BY <1>0
  <1> HIDE DEF x, slack
  <1>8. /\ least * (credit * short - full * rest) <= slack
        /\ least * (full * rest - credit * long) <= slack
    BY <1>1, <1>2, <1>3, <1>7 DEF x
  <1>9. slack \in Int
    BY <1>1, <1>3
  <1> QED
    BY <1>4, <1>5, <1>6, <1>7, <1>8, <1>9 DEF slack

(* What is left, at the price of a higher plan.                            *)
LEMMA UpgradedWorth ==
  ASSUME NEW rest \in Nat, NEW credit \in Int, NEW full \in Nat \ {0}, NEW least \in Nat,
         NEW short \in Nat, NEW long \in Nat, NEW n \in Nat, NEW dear \in Nat, NEW value \in Int,
         least <= full, full <= dear, short <= long,
         2 * full * value <= 2 * (dear * credit) + full,
         2 * full * value > 2 * (dear * credit) - full,
         2 * (least * (credit * short - full * rest)) <= 2 * (n * full * (least + long)) + least * long,
         2 * (least * (full * rest - credit * long)) <= 2 * (n * full * (least + long)) + least * long
  PROVE  /\ least * (value * short - dear * rest) <= (n + 1) * dear * (least + long)
         /\ least * (dear * rest - value * long) <= (n + 1) * dear * (least + long)
  <1> DEFINE x == n * full * (least + long)
             slack == (n + 1) * dear * (least + long)
  <1>1. (2 * full) * slack = 2 * (dear * x) + 2 * ((full * dear) * least) + 2 * ((full * dear) * long)
        /\ x \in Nat /\ slack \in Nat
    OBVIOUS
  <1>2. /\ (dear * long) * least <= (dear * long) * full
        /\ (full * long) * least <= (full * long) * dear
        /\ (least * full) * short <= (least * full) * long
    BY TimesLess
  <1>3. /\ (dear * long) * least = dear * (least * long)
        /\ (dear * long) * full = (full * dear) * long
        /\ (full * long) * least = (least * full) * long
        /\ (full * long) * dear = (full * dear) * long
        /\ (full * dear) * least \in Nat /\ (full * dear) * long \in Nat
        /\ (least * full) * short \in Nat /\ (least * full) * long \in Nat
        /\ dear * (least * long) \in Nat /\ dear * x \in Nat
    OBVIOUS
  <1>4. least * (value * short - dear * rest) <= slack
    <2> DEFINE a == least * (value * short - dear * rest)
               b == least * (credit * short - full * rest)
    <2>1. (least * short) * (2 * full * value) <= (least * short) * (2 * (dear * credit) + full)
      BY TimesLess
    <2>2. dear * (2 * b) <= dear * (2 * x + least * long)
      BY <1>1, TimesLess
    <2>3. (2 * full) * a = (least * short) * (2 * full * value) - 2 * (full * (least * (dear * rest)))
      OBVIOUS
    <2>4. (least * short) * (2 * (dear * credit) + full)
            = dear * (2 * b) + 2 * (full * (least * (dear * rest))) + (least * full) * short
      OBVIOUS
    <2>5. dear * (2 * x + least * long) = 2 * (dear * x) + dear * (least * long)
      BY <1>1
    <2>6. a \in Int /\ b \in Int /\ full * (least * (dear * rest)) \in Int
      OBVIOUS
    <2> HIDE DEF a, b, x, slack
    <2>7. (2 * full) * a <= (2 * full) * slack
      BY <1>1, <1>2, <1>3, <2>1, <2>2, <2>3, <2>4, <2>5, <2>6
    <2>8. 2 * full \in Nat \ {0}
      OBVIOUS
    <2>9. a <= slack
      BY <1>1, <2>6, <2>7, <2>8, TimesCancel
    <2> QED
      BY <2>9 DEF a
  <1>5. least * (dear * rest - value * long) <= slack
    <2> DEFINE a == least * (dear * rest - value * long)
               b == least * (full * rest - credit * long)
    <2>1. (least * long) * (2 * (dear * credit) - full) <= (least * long) * (2 * full * value)
      BY TimesLess
    <2>2. dear * (2 * b) <= dear * (2 * x + least * long)
      BY <1>1, TimesLess
    <2>3. (2 * full) * a = 2 * (full * (least * (dear * rest))) - (least * long) * (2 * full * value)
      OBVIOUS
    <2>4. (least * long) * (2 * (dear * credit) - full)
            = 2 * (full * (least * (dear * rest))) - dear * (2 * b) - (least * full) * long
      OBVIOUS
    <2>5. dear * (2 * x + least * long) = 2 * (dear * x) + dear * (least * long)
      BY <1>1
    <2>6. a \in Int /\ b \in Int /\ full * (least * (dear * rest)) \in Int
      OBVIOUS
    <2> HIDE DEF a, b, x, slack
    <2>7. (2 * full) * a <= (2 * full) * slack
      BY <1>1, <1>2, <1>3, <2>1, <2>2, <2>3, <2>4, <2>5, <2>6
    <2>8. 2 * full \in Nat \ {0}
      OBVIOUS
    <2>9. a <= slack
      BY <1>1, <2>6, <2>7, <2>8, TimesCancel
    <2> QED
      BY <2>9 DEF a
  <1> QED
    BY <1>4, <1>5

-----------------------------------------------------------------------------
(* The documents of the price model.                                       *)
SubDocs ==
  [plan : DOMAIN Ranks, cycle : BillingCycles \cup {"none"}, expires : Nat,
   start : Nat \cup {Untracked}, value : Nat, from : DOMAIN Ranks \cup {"none"}]
QuoteDocs ==
  [amount : Nat, expires : Nat, start : Nat, value : Nat, scheduled : BOOLEAN]
OrderDocs ==
  [plan : DOMAIN Price, cycle : BillingCycles, quote : QuoteDocs, sub : SubDocs,
   day : Nat, paid : Nat \cup {-1}]
ChangeDocs ==
  [plan : DOMAIN Ranks, cycle : BillingCycles \cup {"none"}, starts : Nat, amount : Nat]

(* After n orders, so many days of a plan are worth that much.             *)
AtList(value, p, c, days, n) ==
  LET full == Price[p][c]
      least == Price["pro"][c]
  IN  /\ least * (value * ShortestPeriod(c) - full * days) <= n * full * (least + LongestPeriod(c))
      /\ least * (full * days - value * LongestPeriod(c)) <= n * full * (least + LongestPeriod(c))

(* The same of the rest of a term, which has been rounded once more.       *)
NearList(value, p, c, days, n) ==
  LET full == Price[p][c]
      least == Price["pro"][c]
      long == LongestPeriod(c)
  IN  /\ 2 * (least * (value * ShortestPeriod(c) - full * days))
           <= 2 * (n * full * (least + long)) + least * long
      /\ 2 * (least * (full * days - value * long))
           <= 2 * (n * full * (least + long)) + least * long

(* A subscription on day d. What is known of a plan from before credit was *)
(* tracked is that it ends within a period.                                *)
SubKept(s, d, n) ==
  IF s.plan = "free" THEN s.value = 0
  ELSE /\ s.cycle \in BillingCycles
       /\ s.start < s.expires /\ s.start <= d
       /\ IF s.start = Untracked THEN s.expires - d <= ShortestPeriod(s.cycle)
          ELSE AtList(s.value, s.plan, s.cycle, s.expires - s.start, n)

(* A quote made for it on that day.                                        *)
QuoteKept(q, s, p, c, d, n) ==
  /\ d < q.expires /\ q.start < q.expires
  /\ AtList(q.value, p, c, q.expires - q.start, n)
  /\ q.scheduled = (Unexpired(s, d) /\ Ranks[p] < Ranks[s.plan])
  /\ IF q.scheduled
     THEN q.value = q.amount /\ q.amount = Price[p][c] /\ q.start = s.expires
     ELSE q.value = RemainingCredit(s, d) + q.amount /\ q.start = d

LEMMA PricesTyped ==
  ASSUME NEW p \in DOMAIN Price, NEW c \in BillingCycles
  PROVE  /\ p \in {"pro", "premium"} /\ "pro" \in DOMAIN Price
         /\ Price[p][c] \in Nat \ {0} /\ Price["pro"][c] \in Nat \ {0}
         /\ Price["premium"][c] \in Nat \ {0}
         /\ Price["pro"][c] <= Price[p][c]
  <1>1. c \in {"monthly", "yearly"}
    BY DEF BillingCycles
  <1>2. DOMAIN Price = {"pro", "premium"}
    BY QuotesAssumption
  <1>3. Price["pro"] \in [{"monthly", "yearly"} -> Nat \ {0}]
        /\ Price["premium"] \in [{"monthly", "yearly"} -> Nat \ {0}]
    BY <1>2, QuotesAssumption
  <1>4. Price["pro"][c] <= Price["premium"][c]
    BY <1>1, QuotesAssumption
  <1> QED
    BY <1>1, <1>2, <1>3, <1>4

LEMMA PeriodsTyped ==
  ASSUME NEW c \in BillingCycles
  PROVE  /\ ShortestPeriod(c) \in Nat \ {0} /\ LongestPeriod(c) \in Nat \ {0}
         /\ ShortestPeriod(c) <= LongestPeriod(c)
  BY DEF ShortestPeriod, LongestPeriod

(* A period at its price.                                                  *)
LEMMA PeriodAtList ==
  ASSUME NEW p \in DOMAIN Price, NEW c \in BillingCycles, NEW n \in Nat,
         NEW days \in ShortestPeriod(c)..LongestPeriod(c)
  PROVE  AtList(Price[p][c], p, c, days, n)
  <1> DEFINE full == Price[p][c]
             least == Price["pro"][c]
             short == ShortestPeriod(c)
             long == LongestPeriod(c)
  <1>1. full \in Nat /\ least \in Nat /\ short \in Nat /\ long \in Nat
    BY PricesTyped, PeriodsTyped
  <1>2. AtList(full, p, c, days, n) <=>
          /\ least * (full * short - full * days) <= n * full * (least + long)
          /\ least * (full * days - full * long) <= n * full * (least + long)
    BY DEF AtList
  <1>3. days \in short..long
    OBVIOUS
  <1> HIDE DEF full, least, short, long
  <1>4. days \in Nat /\ short <= days /\ days <= long
    BY <1>1, <1>3
  <1>5. full * short <= full * days /\ full * days <= full * long
    BY <1>1, <1>4, TimesLess
  <1>6. full * short - full * days <= 0 /\ full * days - full * long <= 0
    BY <1>1, <1>4, <1>5
  <1>7. least * (full * short - full * days) <= least * 0 /\ least * (full * days - full * long) <= least * 0
    BY <1>1, <1>4, <1>6, TimesLess
  <1>8. n * full * (least + long) \in Nat
    BY <1>1
  <1> QED
    BY <1>1, <1>2, <1>4, <1>7, <1>8 DEF full

LEMMA AtListMore ==
  ASSUME NEW p \in DOMAIN Price, NEW c \in BillingCycles, NEW n \in Nat, NEW m \in Nat, n <= m,
         NEW value \in Int, NEW days \in Int, AtList(value, p, c, days, n)
  PROVE  AtList(value, p, c, days, m)
  <1> DEFINE full == Price[p][c]
             least == Price["pro"][c]
             short == ShortestPeriod(c)
             long == LongestPeriod(c)
  <1>1. full \in Nat /\ least \in Nat /\ short \in Nat /\ long \in Nat
    BY PricesTyped, PeriodsTyped
  <1>2. \A k : AtList(value, p, c, days, k) <=>
          /\ least * (value * short - full * days) <= k * full * (least + long)
          /\ least * (full * days - value * long) <= k * full * (least + long)
    BY DEF AtList
  <1> HIDE DEF full, least, short, long
  <1>3. (full * (least + long)) * n <= (full * (least + long)) * m
    BY <1>1, TimesLess
  <1>4. n * full * (least + long) = (full * (least + long)) * n
        /\ m * full * (least + long) = (full * (least + long)) * m
    BY <1>1
  <1>5. n * full * (least + long) \in Int /\ m * full * (least + long) \in Int
        /\ least * (value * short - full * days) \in Int
        /\ least * (full * days - value * long) \in Int
    BY <1>1
  <1>6. n * full * (least + long) <= m * full * (least + long)
    BY <1>3, <1>4
  <1> QED
    BY <1>2, <1>5, <1>6

(* What is left of a term, in money.                                       *)
LEMMA CreditWorth ==
  ASSUME EndlessCalendar, NEW s \in SubDocs, NEW d \in Nat, NEW n \in Nat, SubKept(s, d, n)
  PROVE  /\ RemainingCredit(s, d) \in Nat
         /\ ~Unexpired(s, d) => RemainingCredit(s, d) = 0
         /\ Unexpired(s, d) =>
              /\ s.plan \in DOMAIN Price /\ s.cycle \in BillingCycles
              /\ s.expires - d \in Nat \ {0} /\ s.value \in Nat
              /\ NearList(RemainingCredit(s, d), s.plan, s.cycle, s.expires - d, n)
  <1>1. CASE ~Unexpired(s, d)
    BY <1>1 DEF RemainingCredit
  <1>2. CASE Unexpired(s, d)
    <2> DEFINE p == s.plan
               c == s.cycle
               rest == s.expires - d
               credit == RemainingCredit(s, d)
    <2>1. p # "free" /\ p \in DOMAIN Ranks /\ s.expires \in Nat /\ s.expires > d
          /\ s.start \in Nat \cup {Untracked} /\ s.value \in Nat
      BY <1>2 DEF Unexpired, SubDocs
    <2>2. p \in DOMAIN Price /\ p \in {"pro", "premium"}
      BY <2>1, QuotesAssumption DEF Ranks
    <2>3. c \in BillingCycles /\ s.start < s.expires /\ s.start <= d
      BY <2>1 DEF SubKept
    <2> DEFINE full == Price[p][c]
               least == Price["pro"][c]
               short == ShortestPeriod(c)
               long == LongestPeriod(c)
               x == n * full * (least + long)
    <2>4. full \in Nat \ {0} /\ least \in Nat \ {0} /\ least <= full
          /\ short \in Nat \ {0} /\ long \in Nat \ {0} /\ short <= long
      BY <2>2, <2>3, PricesTyped, PeriodsTyped
    <2>5. rest \in Nat \ {0}
      BY <2>1
    <2>6. NearList(credit, p, c, rest, n) <=>
            /\ 2 * (least * (credit * short - full * rest)) <= 2 * x + least * long
            /\ 2 * (least * (full * rest - credit * long)) <= 2 * x + least * long
      BY DEF NearList
    <2>7. ASSUME NEW value \in Nat, NEW span \in Nat \ {0}, rest <= span,
                 credit = Rounded(value * rest, span),
                 least * (value * short - full * span) <= x,
                 least * (full * span - value * long) <= x
          PROVE  credit \in Nat /\ NearList(credit, p, c, rest, n)
      <3> HIDE DEF rest, full, least, short, long, credit
      <3> DEFINE part == value * rest
      <3>1. part \in Nat /\ credit = Rounded(part, span)
        BY <2>5, <2>7
      <3> HIDE DEF part
      <3>2. /\ credit \in Int
            /\ 2 * span * credit <= 2 * part + span
            /\ 2 * span * credit > 2 * part - span
        BY <3>1, RoundedBounds
      <3>3. credit \in Nat
        <4>1. ASSUME credit < 0 PROVE FALSE
          <5>1. span * 1 <= span * (-credit)
            BY <3>2, <4>1, <2>7, TimesLess
          <5>2. 2 * span * credit = -(2 * (span * (-credit)))
            BY <3>2, <2>7
          <5>3. span * (-credit) \in Int /\ span * 1 = span
            BY <3>2, <2>7
          <5> QED
            BY <2>7, <3>1, <3>2, <5>1, <5>2, <5>3
        <4> QED
          BY <3>2, <4>1
      <3>4. x \in Nat
        BY <2>4
      <3>5. rest \in 0..span
        BY <2>5, <2>7
      <3> HIDE DEF x
      <3>6. /\ 2 * (least * (credit * short - full * rest)) <= 2 * x + least * long
            /\ 2 * (least * (full * rest - credit * long)) <= 2 * x + least * long
        BY <2>4, <2>7, <3>2, <3>4, <3>5, RestWorth DEF part
      <3> QED
        BY <2>6, <3>3, <3>6
    <2>8. CASE s.start # Untracked
      <3>1. s.start \in Nat
        BY <2>1, <2>8
      <3> DEFINE span == s.expires - s.start
      <3>2. span \in Nat \ {0} /\ rest <= span
        BY <2>1, <2>3, <3>1
      <3>3. credit = Rounded(s.value * rest, span)
        BY <1>2, <2>8 DEF RemainingCredit
      <3>4. AtList(s.value, p, c, span, n)
        BY <2>1, <2>8 DEF SubKept
      <3>5. /\ least * (s.value * short - full * span) <= x
            /\ least * (full * span - s.value * long) <= x
        BY <3>4 DEF AtList
      <3> HIDE DEF span, rest, credit, full, least, short, long, x
      <3>6. credit \in Nat /\ NearList(credit, p, c, rest, n)
        BY <2>1, <2>7, <3>2, <3>3, <3>5
      <3> QED
        BY <1>2, <2>1, <2>2, <2>3, <2>5, <3>6 DEF credit, rest
    <2>9. CASE s.start = Untracked
      <3> DEFINE span == AddBillingPeriod(d, c) - d
      <3>1. span \in short..long
        BY <2>3, PeriodLength
      <3>2. rest <= short
        BY <2>1, <2>9 DEF SubKept
      <3>3. credit = Rounded(full * rest, span)
        BY <1>2, <2>9 DEF RemainingCredit
      <3>4. AtList(full, p, c, span, n)
        BY <2>2, <2>3, <3>1, PeriodAtList
      <3>5. /\ least * (full * short - full * span) <= x
            /\ least * (full * span - full * long) <= x
        BY <3>4 DEF AtList
      <3> HIDE DEF span, rest, credit, full, least, short, long, x
      <3>6. span \in Nat \ {0} /\ rest <= span
        BY <2>4, <2>5, <3>1, <3>2
      <3>7. credit \in Nat /\ NearList(credit, p, c, rest, n)
        BY <2>4, <2>7, <3>3, <3>5, <3>6
      <3> QED
        BY <1>2, <2>1, <2>2, <2>3, <2>5, <3>7 DEF credit, rest
    <2> QED
      BY <2>8, <2>9
  <1> QED
    BY <1>1, <1>2

(* What is bought costs what the list says, whatever it is bought for.     *)
LEMMA RenewalQuoteKept ==
  ASSUME EndlessCalendar, NEW s \in SubDocs, NEW d \in Nat, NEW n \in Nat, SubKept(s, d, n),
         NEW p \in DOMAIN Price, NEW c \in BillingCycles,
         Unexpired(s, d) => p = s.plan /\ c = s.cycle
  PROVE  /\ RenewalQuote(s, p, c, d) \in QuoteDocs
         /\ QuoteKept(RenewalQuote(s, p, c, d), s, p, c, d, n + 1)
  <1> DEFINE credit == RemainingCredit(s, d)
             full == Price[p][c]
             from == IF Unexpired(s, d) THEN s.expires ELSE d
             end == AddBillingPeriod(from, c)
             q == RenewalQuote(s, p, c, d)
  <1>1. /\ credit \in Nat /\ full \in Nat \ {0}
        /\ ~Unexpired(s, d) => credit = 0
        /\ Unexpired(s, d) =>
             s.expires - d \in Nat \ {0} /\ NearList(credit, s.plan, s.cycle, s.expires - d, n)
    BY CreditWorth, PricesTyped
  <1>2. from \in Nat /\ d <= from
    BY DEF Unexpired, SubDocs
  <1> HIDE DEF from
  <1>3. end \in Nat /\ end - from \in ShortestPeriod(c)..LongestPeriod(c) /\ ShortestPeriod(c) \in Nat \ {0}
    BY <1>2, PeriodLength, PeriodsTyped
  <1> HIDE DEF end
  <1>4. d < end
    BY <1>2, <1>3, PeriodsTyped
  <1>5. /\ q.amount = full /\ q.expires = end /\ q.start = d
        /\ q.value = credit + full /\ q.scheduled = FALSE
        /\ q = [amount |-> full, expires |-> end, start |-> d, value |-> credit + full, scheduled |-> FALSE]
    BY DEF RenewalQuote, Quote, from, end
  <1> HIDE DEF credit, full, q
  <1>6. q \in QuoteDocs
    BY <1>1, <1>3, <1>5 DEF QuoteDocs
  <1>7. AtList(credit + full, p, c, end - d, n + 1)
    <2>1. CASE ~Unexpired(s, d)
      <3>1. credit + full = full /\ end - d = end - from
        BY <1>1, <2>1 DEF from
      <3> QED
        BY <1>3, <3>1, PeriodAtList DEF full
    <2>2. CASE Unexpired(s, d)
      <3> DEFINE least == Price["pro"][c]
                 short == ShortestPeriod(c)
                 long == LongestPeriod(c)
                 rest == s.expires - d
                 len == end - from
      <3>1. /\ least \in Nat \ {0} /\ least <= full
            /\ short \in Nat \ {0} /\ long \in Nat \ {0} /\ len \in short..long
        BY <1>3, PricesTyped, PeriodsTyped DEF full
      <3>2. end - d = rest + len
        BY <1>1, <1>2, <1>3, <2>2 DEF from, SubDocs
      <3>3. rest \in Nat
        BY <1>1, <2>2
      <3>4. NearList(credit, p, c, rest, n)
        BY <1>1, <2>2
      <3>5. /\ 2 * (least * (credit * short - full * rest)) <= 2 * (n * full * (least + long)) + least * long
            /\ 2 * (least * (full * rest - credit * long)) <= 2 * (n * full * (least + long)) + least * long
        BY <3>4 DEF NearList, full
      <3>6. AtList(credit + full, p, c, end - d, n + 1) <=>
              /\ least * ((credit + full) * short - full * (rest + len)) <= (n + 1) * full * (least + long)
              /\ least * (full * (rest + len) - (credit + full) * long) <= (n + 1) * full * (least + long)
        BY <3>2 DEF AtList, full
      <3> HIDE DEF least, short, long, rest, len
      <3> QED
        BY <1>1, <3>1, <3>3, <3>5, <3>6, RenewedWorth
    <2> QED
      BY <2>1, <2>2
  <1>8. ~(Unexpired(s, d) /\ Ranks[p] < Ranks[s.plan])
    <2>1. p \in {"pro", "premium"}
      BY PricesTyped
    <2> QED
      BY <2>1 DEF Ranks
  <1>9. QuoteKept(q, s, p, c, d, n + 1)
    BY <1>4, <1>5, <1>7, <1>8 DEF QuoteKept, credit
  <1> QED
    BY <1>6, <1>9 DEF q

LEMMA PrepaidQuoteKept ==
  ASSUME EndlessCalendar, NEW s \in SubDocs, NEW d \in Nat, NEW n \in Nat,
         NEW p \in DOMAIN Price, NEW c \in BillingCycles,
         Unexpired(s, d), Ranks[p] < Ranks[s.plan]
  PROVE  /\ PrepaidQuote(s, p, c) \in QuoteDocs
         /\ QuoteKept(PrepaidQuote(s, p, c), s, p, c, d, n)
  <1> DEFINE full == Price[p][c]
             end == AddBillingPeriod(s.expires, c)
             q == PrepaidQuote(s, p, c)
  <1>1. s.expires \in Nat /\ d < s.expires /\ full \in Nat \ {0}
    BY PricesTyped DEF Unexpired, SubDocs
  <1>2. end \in Nat /\ end - s.expires \in ShortestPeriod(c)..LongestPeriod(c)
        /\ ShortestPeriod(c) \in Nat \ {0} /\ LongestPeriod(c) \in Nat
    BY <1>1, PeriodLength, PeriodsTyped
  <1>3. AtList(full, p, c, end - s.expires, n)
    BY <1>2, PeriodAtList
  <1> HIDE DEF end
  <1>4. s.expires < end
    BY <1>1, <1>2
  <1>5. /\ q.amount = full /\ q.expires = end /\ q.start = s.expires
        /\ q.value = full /\ q.scheduled = TRUE
        /\ q = [amount |-> full, expires |-> end, start |-> s.expires, value |-> full, scheduled |-> TRUE]
    BY DEF PrepaidQuote, Quote, end
  <1> HIDE DEF q
  <1>6. q \in QuoteDocs
    BY <1>1, <1>2, <1>5 DEF QuoteDocs
  <1>8. d < end
    BY <1>1, <1>2, <1>4
  <1> DEFINE lower == Unexpired(s, d) /\ Ranks[p] < Ranks[s.plan]
  <1>9. lower = TRUE
    OBVIOUS
  <1> HIDE DEF lower
  <1>10. q.scheduled = lower
    BY <1>5, <1>9
  <1> HIDE DEF full
  <1>7. QuoteKept(q, s, p, c, d, n)
    BY <1>3, <1>4, <1>5, <1>8, <1>9, <1>10 DEF QuoteKept, full, lower
  <1> QED
    BY <1>6, <1>7 DEF q

LEMMA CycleQuoteKept ==
  ASSUME EndlessCalendar, NEW s \in SubDocs, NEW d \in Nat, NEW n \in Nat, SubKept(s, d, n),
         NEW p \in DOMAIN Price, NEW c \in BillingCycles,
         ~(Unexpired(s, d) /\ Ranks[p] < Ranks[s.plan])
  PROVE  /\ CycleQuote(s, p, c, d) \in QuoteDocs
         /\ QuoteKept(CycleQuote(s, p, c, d), s, p, c, d, n + 1)
  <1> DEFINE credit == RemainingCredit(s, d)
             full == Price[p][c]
             least == Price["pro"][c]
             short == ShortestPeriod(c)
             long == LongestPeriod(c)
             amount == Larger(0, full - credit)
             value == credit + amount
             end == CreditCoverage(value, full, c, d)
             q == CycleQuote(s, p, c, d)
  <1>1. /\ credit \in Nat /\ full \in Nat \ {0} /\ least \in Nat \ {0} /\ least <= full
        /\ short \in Nat /\ long \in Nat
    BY CreditWorth, PricesTyped, PeriodsTyped
  <1> HIDE DEF credit, full
  <1>2. amount \in Nat /\ value \in Nat /\ full <= value
    BY <1>1 DEF Larger
  <1> HIDE DEF amount
  <1>3. /\ end \in Nat /\ d < end
        /\ 2 * (value * short - full * (end - d)) <= full
        /\ 2 * (full * (end - d) - value * long) <= full
    BY <1>1, <1>2, CoverageReach
  <1>4. /\ q.amount = amount /\ q.expires = end /\ q.start = d
        /\ q.value = value /\ q.scheduled = FALSE
        /\ q = [amount |-> amount, expires |-> end, start |-> d, value |-> value, scheduled |-> FALSE]
    BY DEF CycleQuote, Quote, credit, full, amount
  <1> HIDE DEF q, value, end
  <1>5. q \in QuoteDocs
    BY <1>2, <1>3, <1>4 DEF QuoteDocs
  <1>6. AtList(value, p, c, end - d, n + 1)
    <2> DEFINE days == end - d
               slack == (n + 1) * full * (least + long)
    <2>1. AtList(value, p, c, end - d, n + 1) <=>
            /\ least * (value * short - full * days) <= slack
            /\ least * (full * days - value * long) <= slack
      BY DEF AtList, full
    <2>2. days \in Int
      BY <1>3
    <2> HIDE DEF days, least, short, long
    <2>3. slack = n * full * (least + long) + full * least + full * long
      BY <1>1
    <2>4. n * full * (least + long) \in Nat /\ full * least \in Nat /\ full * long \in Nat
      BY <1>1
    <2>5. least * (2 * (value * short - full * days)) <= least * full
          /\ least * (2 * (full * days - value * long)) <= least * full
      BY <1>1, <1>2, <1>3, <2>2, TimesLess DEF days
    <2>6. /\ least * (2 * (value * short - full * days)) = 2 * (least * (value * short - full * days))
          /\ least * (2 * (full * days - value * long)) = 2 * (least * (full * days - value * long))
          /\ least * full = full * least
          /\ least * (value * short - full * days) \in Int
          /\ least * (full * days - value * long) \in Int
      BY <1>1, <1>2, <2>2
    <2> HIDE DEF slack
    <2> QED
      BY <2>1, <2>3, <2>4, <2>5, <2>6
  <1>7. QuoteKept(q, s, p, c, d, n + 1)
    BY <1>2, <1>3, <1>4, <1>6 DEF QuoteKept, value, credit
  <1> QED
    BY <1>5, <1>7 DEF q

LEMMA UpgradeQuoteKept ==
  ASSUME EndlessCalendar, NEW s \in SubDocs, NEW d \in Nat, NEW n \in Nat, SubKept(s, d, n),
         NEW p \in DOMAIN Price, NEW c \in BillingCycles,
         Unexpired(s, d), s.plan = "pro", p = "premium", s.cycle = c
  PROVE  /\ UpgradeQuote(s, p, c, d) \in QuoteDocs
         /\ QuoteKept(UpgradeQuote(s, p, c, d), s, p, c, d, n + 1)
  <1> DEFINE credit == RemainingCredit(s, d)
             full == Price["pro"][c]
             dear == Price[p][c]
             short == ShortestPeriod(c)
             long == LongestPeriod(c)
             rest == s.expires - d
             worth == Rounded(dear * credit, full)
             amount == Larger(0, worth - credit)
             q == UpgradeQuote(s, p, c, d)
  <1>1. /\ credit \in Nat /\ full \in Nat \ {0} /\ dear \in Nat \ {0} /\ full <= dear
        /\ short \in Nat /\ long \in Nat /\ short <= long
        /\ rest \in Nat \ {0} /\ NearList(credit, "pro", c, rest, n)
    BY CreditWorth, PricesTyped, PeriodsTyped
  <1>2. /\ 2 * (full * (credit * short - full * rest)) <= 2 * (n * full * (full + long)) + full * long
        /\ 2 * (full * (full * rest - credit * long)) <= 2 * (n * full * (full + long)) + full * long
    BY <1>1 DEF NearList
  <1>3. AtList(worth, p, c, rest, n + 1) <=>
          /\ full * (worth * short - dear * rest) <= (n + 1) * dear * (full + long)
          /\ full * (dear * rest - worth * long) <= (n + 1) * dear * (full + long)
    BY DEF AtList
  <1>4. /\ q.amount = amount /\ q.expires = s.expires /\ q.start = d
        /\ q.value = credit + amount /\ q.scheduled = FALSE
        /\ q = [amount |-> amount, expires |-> s.expires, start |-> d,
                value |-> credit + amount, scheduled |-> FALSE]
    BY DEF UpgradeQuote, Quote
  <1>5. s.expires \in Nat /\ d < s.expires
    BY DEF Unexpired, SubDocs
  <1> DEFINE part == dear * credit
  <1>6. part \in Nat /\ worth = Rounded(part, full)
    BY <1>1
  <1> HIDE DEF credit, full, dear, short, long, rest, worth, part, q
  <1>7. /\ worth \in Int
        /\ 2 * full * worth <= 2 * part + full
        /\ 2 * full * worth > 2 * part - full
    BY <1>1, <1>6, RoundedBounds
  (* A higher plan is worth at least as much.                              *)
  <1>8. credit <= worth
    <2>1. credit * full <= credit * dear
      BY <1>1, TimesLess
    <2>2. ASSUME worth + 1 <= credit PROVE FALSE
      <3>1. (2 * full) * (worth + 1) <= (2 * full) * credit
        BY <1>1, <1>7, <2>2, TimesLess
      <3>2. (2 * full) * (worth + 1) = 2 * full * worth + 2 * full
            /\ (2 * full) * credit = 2 * (credit * full) /\ part = credit * dear
            /\ 2 * full * worth \in Int /\ credit * full \in Int
        BY <1>1, <1>7 DEF part
      <3> QED
        BY <1>1, <1>6, <1>7, <2>1, <3>1, <3>2
    <2> QED
      BY <1>1, <1>7, <2>2
  <1>9. amount \in Nat /\ credit + amount = worth
    BY <1>1, <1>7, <1>8 DEF Larger
  <1>10. AtList(worth, p, c, rest, n + 1)
    <2>1. /\ 2 * full * worth <= 2 * (dear * credit) + full
          /\ 2 * full * worth > 2 * (dear * credit) - full
      BY <1>7 DEF part
    <2>2. full \in Nat /\ dear \in Nat /\ credit \in Int /\ rest \in Nat /\ full <= full
      BY <1>1
    <2>3. /\ full * (worth * short - dear * rest) <= (n + 1) * dear * (full + long)
          /\ full * (dear * rest - worth * long) <= (n + 1) * dear * (full + long)
      BY <1>1, <1>2, <1>7, <2>1, <2>2, UpgradedWorth
    <2> QED
      BY <1>3, <2>3
  <1> HIDE DEF amount
  <1>11. q \in QuoteDocs
    BY <1>1, <1>4, <1>5, <1>9 DEF QuoteDocs
  <1>12. ~(Unexpired(s, d) /\ Ranks[p] < Ranks[s.plan])
    BY DEF Ranks
  <1>13. QuoteKept(q, s, p, c, d, n + 1)
    BY <1>4, <1>5, <1>9, <1>10, <1>12 DEF QuoteKept, credit, rest
  <1> QED
    BY <1>11, <1>13 DEF q

(* So is every quote for a subscription that is.                           *)
LEMMA QuotePlanKept ==
  ASSUME EndlessCalendar, NEW s \in SubDocs, NEW d \in Nat, NEW n \in Nat, SubKept(s, d, n),
         NEW p \in DOMAIN Price, NEW c \in BillingCycles
  PROVE  /\ QuotePlan(s, p, c, d) \in QuoteDocs
         /\ QuoteKept(QuotePlan(s, p, c, d), s, p, c, d, n + 1)
  <1>0. /\ p \in {"pro", "premium"}
        /\ n + 1 \in Nat
        /\ Unexpired(s, d) => s.plan \in {"pro", "premium"} /\ s.cycle \in BillingCycles
    <2>1. Unexpired(s, d) => s.plan \in DOMAIN Price /\ s.cycle \in BillingCycles
      BY CreditWorth
    <2> QED
      BY <2>1, PricesTyped
  <1>1. CASE ~Unexpired(s, d)
    BY <1>1, RenewalQuoteKept DEF QuotePlan
  <1>2. CASE Unexpired(s, d) /\ Ranks[p] < Ranks[s.plan]
    BY <1>0, <1>2, PrepaidQuoteKept DEF QuotePlan
  <1>3. CASE Unexpired(s, d) /\ ~(Ranks[p] < Ranks[s.plan]) /\ s.cycle # c
    BY <1>3, CycleQuoteKept DEF QuotePlan
  <1>4. CASE Unexpired(s, d) /\ ~(Ranks[p] < Ranks[s.plan]) /\ s.cycle = c /\ p # s.plan
    <2>1. s.plan = "pro" /\ p = "premium"
      BY <1>0, <1>4 DEF Ranks
    <2> QED
      BY <1>4, <2>1, UpgradeQuoteKept DEF QuotePlan
  <1>5. CASE Unexpired(s, d) /\ ~(Ranks[p] < Ranks[s.plan]) /\ s.cycle = c /\ p = s.plan
    BY <1>5, RenewalQuoteKept DEF QuotePlan
  <1> QED
    BY <1>1, <1>2, <1>3, <1>4, <1>5

(* A term keeps its worth as days and orders go by.                        *)
LEMMA SubKeptOn ==
  ASSUME NEW s \in SubDocs, NEW d \in Nat, NEW e \in Nat, d <= e,
         NEW n \in Nat, NEW m \in Nat, n <= m, SubKept(s, d, n)
  PROVE  SubKept(s, e, m)
  <1>1. CASE s.plan = "free"
    BY <1>1 DEF SubKept
  <1>2. CASE s.plan # "free"
    <2>1. /\ s.cycle \in BillingCycles /\ s.start < s.expires /\ s.start <= d
          /\ s.start \in Nat \cup {Untracked} /\ s.expires \in Nat /\ s.value \in Nat
          /\ s.plan \in DOMAIN Price
      BY <1>2, QuotesAssumption DEF SubKept, SubDocs, Ranks
    <2>2. s.start <= e
      BY <2>1 DEF Untracked
    <2>3. CASE s.start = Untracked
      <3>1. s.expires - d <= ShortestPeriod(s.cycle) /\ ShortestPeriod(s.cycle) \in Nat
        BY <1>2, <2>1, <2>3, PeriodsTyped DEF SubKept
      <3>2. s.expires - e <= ShortestPeriod(s.cycle)
        BY <2>1, <3>1
      <3> QED
        BY <1>2, <2>1, <2>2, <2>3, <3>2 DEF SubKept
    <2>4. CASE s.start # Untracked
      <3>1. AtList(s.value, s.plan, s.cycle, s.expires - s.start, n)
        BY <1>2, <2>4 DEF SubKept
      <3>2. s.expires - s.start \in Int
        BY <2>1 DEF Untracked
      <3>3. AtList(s.value, s.plan, s.cycle, s.expires - s.start, m)
        BY <2>1, <3>1, <3>2, AtListMore
      <3> QED
        BY <1>2, <2>1, <2>2, <2>4, <3>3 DEF SubKept
    <2> QED
      BY <2>3, <2>4
  <1> QED
    BY <1>1, <1>2

(* The term a quote promises, once it has begun.                           *)
LEMMA NewTermKept ==
  ASSUME NEW p \in DOMAIN Price, NEW c \in BillingCycles, NEW start \in Nat, NEW end \in Nat,
         NEW value \in Nat, NEW d \in Nat, NEW n \in Nat,
         NEW days, days = end - start, start < end, start <= d, AtList(value, p, c, days, n)
  PROVE  /\ Term(p, c, start, end, value) \in SubDocs
         /\ Term(p, c, start, end, value).value = value
         /\ Term(p, c, start, end, value).plan = p
         /\ Term(p, c, start, end, value).expires = end
         /\ SubKept(Term(p, c, start, end, value), d, n)
  <1> DEFINE s == Term(p, c, start, end, value)
  <1>1. /\ s.plan = p /\ s.cycle = c /\ s.start = start /\ s.expires = end /\ s.value = value
        /\ s = [plan |-> p, cycle |-> c, expires |-> end, start |-> start, value |-> value,
                from |-> "none"]
    BY DEF Term
  <1>2. p \in DOMAIN Ranks /\ p # "free"
    BY PricesTyped DEF Ranks
  <1> HIDE DEF s
  <1>3. s \in SubDocs
    BY <1>1, <1>2 DEF SubDocs
  <1>4. start # Untracked
    BY DEF Untracked
  <1>5. SubKept(s, d, n)
    BY <1>1, <1>2, <1>4 DEF SubKept
  <1> QED
    BY <1>1, <1>3, <1>5 DEF s

LEMMA QuotedTermKept ==
  ASSUME NEW p \in DOMAIN Price, NEW c \in BillingCycles, NEW q \in QuoteDocs, NEW s, NEW e,
         NEW d \in Nat, NEW n \in Nat, QuoteKept(q, s, p, c, e, n), q.start <= d
  PROVE  /\ Term(p, c, q.start, q.expires, q.value) \in SubDocs
         /\ Term(p, c, q.start, q.expires, q.value).value = q.value
         /\ SubKept(Term(p, c, q.start, q.expires, q.value), d, n)
  <1> DEFINE start == q.start
             end == q.expires
             value == q.value
             days == end - start
  <1>1. start \in Nat /\ end \in Nat /\ value \in Nat
    BY DEF QuoteDocs
  <1>2. start < end /\ AtList(value, p, c, days, n) /\ start <= d /\ days = end - start
    BY DEF QuoteKept
  <1> HIDE DEF start, end, value, days
  <1>3. /\ Term(p, c, start, end, value) \in SubDocs
        /\ Term(p, c, start, end, value).value = value
        /\ SubKept(Term(p, c, start, end, value), d, n)
    BY <1>1, <1>2, NewTermKept
  <1> QED
    BY <1>3 DEF start, end, value

-----------------------------------------------------------------------------
(* The inductive invariant. A change that is scheduled costs its price,    *)
(* and begins when the term ends.                                          *)
FollowsKept ==
  \/ follows = NoChange
  \/ /\ follows \in ChangeDocs
     /\ IF follows.plan = "free" THEN follows.amount = 0
        ELSE /\ follows.plan \in DOMAIN Price /\ follows.cycle \in BillingCycles
             /\ follows.amount = Price[follows.plan][follows.cycle]
     /\ sub.plan # "free" => follows.starts = sub.expires

(* While an order is open, the term it was quoted for lasts or has ended,  *)
(* and only Free can be scheduled beside it.                               *)
QuotedTerm ==
  \/ sub = order.sub
  \/ sub.plan = "free" /\ order.sub.plan # "free" /\ order.sub.expires <= today

OrderKept ==
  \/ order = NoneOrdered
  \/ /\ order \in OrderDocs
     /\ order.quote.amount > 0 /\ order.day <= today
     /\ QuoteKept(order.quote, order.sub, order.plan, order.cycle, order.day, orders + 1)
     /\ RemainingCredit(order.sub, order.day) \in Nat
     /\ Ranks[order.plan] >= Ranks[order.sub.plan] \/ Unexpired(order.sub, order.day)
     /\ QuotedTerm
     /\ follows = NoChange \/ follows.plan = "free"

QuotesTyped ==
  /\ today \in Nat /\ today <= LastDay /\ orders \in Nat /\ owed \in Int
  /\ sub \in SubDocs

QuotesInv ==
  /\ QuotesTyped /\ SubKept(sub, today, orders + 1)
  /\ FollowsKept /\ OrderKept /\ CreditKept

LEMMA QuotesBegin ==
  ASSUME QuotesInit
  PROVE  QuotesInv
  <1>1. today \in Nat /\ today <= LastDay /\ orders = 0 /\ owed = 0 /\ follows = NoChange /\ order = NoneOrdered
    BY QuotesAssumption DEF QuotesInit
  <1>2. CASE sub = FreePlan("none")
    <2>1. sub \in SubDocs /\ sub.plan = "free" /\ sub.value = 0
      BY <1>2 DEF SubDocs, FreePlan, Ranks
    <2>2. SubKept(sub, today, orders + 1)
      BY <2>1 DEF SubKept
    <2>3. CreditKept
      BY <1>1, <2>1 DEF CreditKept, Ahead, Captured
    <2> QED
      BY <1>1, <2>1, <2>2, <2>3 DEF QuotesInv, QuotesTyped, FollowsKept, OrderKept
  <1>3. CASE sub = Term("pro", "monthly", Untracked, today + 20, 0)
    <2>1. sub \in SubDocs /\ sub.plan = "pro" /\ sub.value = 0 /\ sub.cycle = "monthly"
          /\ sub.start = Untracked /\ sub.expires = today + 20
      BY <1>1, <1>3 DEF SubDocs, Term, Ranks, BillingCycles
    <2>2. SubKept(sub, today, orders + 1)
      BY <1>1, <2>1 DEF SubKept, Untracked, BillingCycles, ShortestPeriod
    <2>3. CreditKept
      BY <1>1, <2>1 DEF CreditKept, Ahead, Captured
    <2> QED
      BY <1>1, <2>1, <2>2, <2>3 DEF QuotesInv, QuotesTyped, FollowsKept, OrderKept
  <1> QED
    BY <1>2, <1>3 DEF QuotesInit

LEMMA OrderPlanKeeps ==
  ASSUME EndlessCalendar, QuotesInv, NEW p \in DOMAIN Price, NEW c \in BillingCycles, OrderPlan(p, c)
  PROVE  QuotesInv'
  <1> DEFINE q == QuotePlan(sub, p, c, today)
  <1>1. /\ today \in Nat /\ today <= LastDay /\ orders \in Nat /\ owed \in Int /\ sub \in SubDocs
        /\ SubKept(sub, today, orders + 1) /\ CreditKept
    BY DEF QuotesInv, QuotesTyped
  <1>2. /\ order = NoneOrdered /\ follows = NoChange
        /\ Ranks[p] >= Ranks[sub.plan] \/ Unexpired(sub, today)
        /\ orders' = orders + 1 /\ today' = today /\ follows' = follows
    BY DEF OrderPlan
  <1>3. orders + 1 \in Nat /\ orders + 1 + 1 = orders + 2 /\ orders + 2 \in Nat /\ orders + 1 <= orders + 2
        /\ orders' + 1 = orders + 2
    BY <1>1, <1>2
  <1>4. q \in QuoteDocs /\ QuoteKept(q, sub, p, c, today, orders + 2)
    BY <1>1, <1>3, QuotePlanKept
  <1>5. RemainingCredit(sub, today) \in Nat
    BY <1>1, <1>3, CreditWorth
  <1>6. FollowsKept'
    BY <1>2 DEF FollowsKept
  <1>7. sub.value \in Nat /\ owed = sub.value
    BY <1>1, <1>2 DEF CreditKept, Ahead, Captured, SubDocs
  <1>8. CASE q.amount = 0
    <2>1. /\ sub' = Term(p, c, q.start, q.expires, q.value)
          /\ owed' = owed - sub.value + RemainingCredit(sub, today)
          /\ order' = order
      BY <1>8 DEF OrderPlan, Replace
    <2> HIDE DEF q
    <2>2. q.start \in Nat /\ q.expires \in Nat /\ q.value \in Nat
      BY <1>4 DEF QuoteDocs
    <2>3. ~q.scheduled
      BY <1>4, <1>8, PricesTyped DEF QuoteKept
    <2>4. q.start = today /\ q.value = RemainingCredit(sub, today) /\ q.start < q.expires
          /\ AtList(q.value, p, c, q.expires - q.start, orders + 2)
      BY <1>4, <1>5, <1>8, <2>3 DEF QuoteKept
    <2>5. sub' \in SubDocs /\ SubKept(sub', today, orders + 2) /\ sub'.value = q.value
      <3>1. q.start <= today
        BY <1>1, <2>4
      <3>2. /\ Term(p, c, q.start, q.expires, q.value) \in SubDocs
            /\ SubKept(Term(p, c, q.start, q.expires, q.value), today, orders + 2)
            /\ Term(p, c, q.start, q.expires, q.value).value = q.value
        BY <1>1, <1>3, <1>4, <3>1, QuotedTermKept
      <3> QED
        BY <2>1, <3>2
    <2>6. SubKept(sub', today', orders' + 1)
      BY <1>2, <1>3, <2>5
    <2>7. CreditKept'
      BY <1>2, <1>5, <1>7, <2>1, <2>4, <2>5 DEF CreditKept, Ahead, Captured
    <2>8. OrderKept'
      BY <1>2, <2>1 DEF OrderKept
    <2>9. QuotesTyped'
      BY <1>1, <1>2, <1>3, <1>5, <1>7, <2>1, <2>5 DEF QuotesTyped
    <2> QED
      BY <1>6, <2>6, <2>7, <2>8, <2>9 DEF QuotesInv
  <1>9. CASE q.amount # 0
    <2> DEFINE o == [plan |-> p, cycle |-> c, quote |-> q, sub |-> sub, day |-> today, paid |-> -1]
    <2>1. order' = o /\ sub' = sub /\ owed' = owed
      BY <1>9 DEF OrderPlan
    <2> HIDE DEF q
    <2>2. o \in OrderDocs
      BY <1>1, <1>4 DEF OrderDocs
    <2>3. /\ o.plan = p /\ o.cycle = c /\ o.quote = q /\ o.sub = sub /\ o.day = today /\ o.paid = -1
      OBVIOUS
    <2>4. q.amount > 0
      BY <1>4, <1>9 DEF QuoteDocs
    <2> HIDE DEF o
    <2>5. order' \in OrderDocs /\ (order.plan)' = p /\ (order.cycle)' = c /\ (order.quote)' = q
          /\ (order.sub)' = sub /\ (order.day)' = today /\ (order.paid)' = -1
      BY <2>1, <2>2, <2>3
    <2>6. QuoteKept(q, sub, p, c, today, (orders + 1)')
      BY <1>3, <1>4
    <2>7. OrderKept'
      BY <1>1, <1>2, <1>5, <2>1, <2>4, <2>5, <2>6 DEF OrderKept, QuotedTerm
    <2>8. SubKept(sub', today', (orders + 1)')
      BY <1>1, <1>2, <1>3, <2>1, SubKeptOn
    <2>9. CreditKept'
      BY <1>2, <1>7, <2>1, <2>5 DEF CreditKept, Ahead, Captured
    <2>10. QuotesTyped'
      BY <1>1, <1>2, <1>3, <2>1 DEF QuotesTyped
    <2> QED
      BY <1>6, <2>7, <2>8, <2>9, <2>10 DEF QuotesInv
  <1> QED
    BY <1>8, <1>9

(* An open order, taken apart.                                             *)
LEMMA OpenOrder ==
  ASSUME QuotesInv, order # NoneOrdered
  PROVE  /\ order \in OrderDocs /\ order.quote \in QuoteDocs /\ order.sub \in SubDocs
         /\ order.plan \in DOMAIN Price /\ order.cycle \in BillingCycles /\ order.day \in Nat
         /\ order.paid \in Nat \cup {-1}
         /\ order.quote.amount \in Nat \ {0} /\ order.day <= today
         /\ order.quote.expires \in Nat /\ order.quote.start \in Nat /\ order.quote.value \in Nat
         /\ QuoteKept(order.quote, order.sub, order.plan, order.cycle, order.day, orders + 1)
         /\ RemainingCredit(order.sub, order.day) \in Nat
         /\ Ranks[order.plan] >= Ranks[order.sub.plan] \/ Unexpired(order.sub, order.day)
         /\ QuotedTerm
         /\ follows = NoChange \/ follows.plan = "free"
         /\ today \in Nat /\ orders \in Nat /\ owed \in Int /\ sub \in SubDocs
         /\ sub.value \in Nat /\ SubKept(sub, today, orders + 1)
         /\ FollowsKept
         /\ owed = sub.value + (IF Captured THEN order.quote.amount ELSE 0)
  <1>1. order \in OrderDocs /\ order.quote.amount > 0
    BY DEF QuotesInv, OrderKept
  <1>2. order.quote \in QuoteDocs /\ order.sub \in SubDocs /\ order.plan \in DOMAIN Price
        /\ order.cycle \in BillingCycles /\ order.day \in Nat /\ order.paid \in Nat \cup {-1}
    BY <1>1 DEF OrderDocs
  <1>3. order.quote.amount \in Nat \ {0} /\ order.quote.expires \in Nat
        /\ order.quote.start \in Nat /\ order.quote.value \in Nat
    BY <1>1, <1>2 DEF QuoteDocs
  <1>4. sub \in SubDocs /\ sub.value \in Nat /\ owed = Ahead /\ FollowsKept
        /\ (follows = NoChange \/ follows.plan = "free")
    BY DEF QuotesInv, QuotesTyped, SubDocs, CreditKept, OrderKept
  <1>5. follows # NoChange => follows.amount = 0
    BY <1>4 DEF FollowsKept
  <1>6. owed = sub.value + (IF Captured THEN order.quote.amount ELSE 0)
    BY <1>3, <1>4, <1>5 DEF Ahead
  <1> QED
    BY <1>1, <1>2, <1>3, <1>4, <1>6 DEF QuotesInv, QuotesTyped, OrderKept

LEMMA PayOrderKeeps ==
  ASSUME QuotesInv, PayOrder
  PROVE  QuotesInv'
  <1>1. order # NoneOrdered /\ order.paid = -1
    BY DEF PayOrder
  <1>2. UNCHANGED <<today, sub, follows, orders>> /\ owed' = owed + order.quote.amount
    BY DEF PayOrder
  <1> DEFINE o == [order EXCEPT !.paid = today]
  <1>3. order' = o
    BY DEF PayOrder
  <1>4. /\ o \in OrderDocs /\ o.plan = order.plan /\ o.cycle = order.cycle /\ o.quote = order.quote
        /\ o.sub = order.sub /\ o.day = order.day /\ o.paid = today
    BY <1>1, OpenOrder DEF OrderDocs
  <1> HIDE DEF o
  <1>5. /\ order' \in OrderDocs /\ (order.plan)' = order.plan /\ (order.cycle)' = order.cycle
        /\ (order.quote)' = order.quote /\ (order.sub)' = order.sub /\ (order.day)' = order.day
        /\ (order.paid)' = today
    BY <1>3, <1>4
  <1>6. OrderKept'
    BY <1>1, <1>2, <1>5, OpenOrder DEF OrderKept, QuotedTerm
  <1>7. QuotesTyped' /\ SubKept(sub, today, orders + 1)' /\ FollowsKept'
    <2>1. SubKept(sub', today', (orders + 1)')
      BY <1>1, <1>2, OpenOrder
    <2>2. QuotesTyped'
      BY <1>1, <1>2, OpenOrder DEF QuotesTyped, QuotesInv
    <2>3. FollowsKept'
      BY <1>1, <1>2, OpenOrder DEF FollowsKept
    <2> QED
      BY <2>1, <2>2, <2>3
  <1>8. CreditKept'
    <2>1. owed = sub.value /\ sub.value \in Nat /\ order.quote.amount \in Nat
      BY <1>1, OpenOrder DEF Captured
    <2>2. follows = NoChange \/ follows.amount = 0
      BY <1>1, OpenOrder DEF FollowsKept
    <2>3. order' # NoneOrdered /\ (order.paid)' # -1
      <3>1. order' # NoneOrdered
        BY <1>5, PricesTyped DEF OrderDocs, NoneOrdered
      <3> QED
        BY <1>1, <1>5, <3>1, OpenOrder
    <2>4. Captured'
      BY <2>3 DEF Captured
    <2>5. Ahead' = sub.value + order.quote.amount
      BY <1>2, <1>5, <2>1, <2>2, <2>4 DEF Ahead
    <2> QED
      BY <1>2, <2>1, <2>5 DEF CreditKept
  <1> QED
    BY <1>6, <1>7, <1>8 DEF QuotesInv

LEMMA AbandonOrderKeeps ==
  ASSUME QuotesInv, AbandonOrder
  PROVE  QuotesInv'
  <1>1. order # NoneOrdered /\ order.paid = -1 /\ order' = NoneOrdered
        /\ UNCHANGED <<today, sub, follows, owed, orders>>
    BY DEF AbandonOrder
  <1>2. OrderKept' /\ FollowsKept'
    BY <1>1, OpenOrder DEF OrderKept, FollowsKept
  <1>3. QuotesTyped'
    BY <1>1 DEF QuotesInv, QuotesTyped
  <1>4. SubKept(sub', today', (orders + 1)')
    BY <1>1, OpenOrder
  <1>5. CreditKept'
    BY <1>1 DEF QuotesInv, CreditKept, Ahead, Captured
  <1> QED
    BY <1>2, <1>3, <1>4, <1>5 DEF QuotesInv

(* A prepaid plan that is reported late begins when the old one ended.     *)
LEMMA ApplyLateKeeps ==
  ASSUME QuotesInv, ApplyLate
  PROVE  QuotesInv'
  <1> DEFINE q == order.quote
             t == Term(order.plan, order.cycle, q.start, q.expires, q.value)
  <1>1. /\ order # NoneOrdered /\ Captured /\ sub.plan = "free" /\ q.scheduled /\ follows = NoChange
        /\ order' = NoneOrdered /\ UNCHANGED <<today, follows, owed, orders>>
        /\ sub' = Term(order.plan, order.cycle, q.start, q.expires, q.amount)
    BY DEF ApplyLate, Captured, Late
  <1>2. /\ q \in QuoteDocs /\ order.plan \in DOMAIN Price /\ order.cycle \in BillingCycles
        /\ today \in Nat /\ orders \in Nat /\ orders + 1 \in Nat /\ q.amount \in Nat
        /\ QuoteKept(q, order.sub, order.plan, order.cycle, order.day, orders + 1)
        /\ QuotedTerm /\ SubKept(sub, today, orders + 1) /\ sub.value \in Nat
        /\ owed = sub.value + q.amount
    BY <1>1, OpenOrder
  <1>3. q.value = q.amount /\ q.start = order.sub.expires
        /\ Unexpired(order.sub, order.day)
    BY <1>1, <1>2 DEF QuoteKept
  <1>4. q.start <= today
    BY <1>1, <1>2, <1>3 DEF QuotedTerm, Unexpired
  <1>5. t \in SubDocs /\ t.value = q.value /\ SubKept(t, today, orders + 1)
    BY <1>2, <1>4, QuotedTermKept
  <1>6. sub' = t
    BY <1>1, <1>3
  <1> HIDE DEF t
  <1>7. sub.value = 0
    BY <1>1, <1>2 DEF SubKept
  <1>8. SubKept(sub', today', (orders + 1)')
    BY <1>1, <1>5, <1>6
  <1>9. CreditKept'
    BY <1>1, <1>2, <1>3, <1>5, <1>6, <1>7 DEF CreditKept, Ahead, Captured
  <1>10. QuotesTyped' /\ OrderKept' /\ FollowsKept'
    BY <1>1, <1>5, <1>6 DEF QuotesInv, QuotesTyped, OrderKept, FollowsKept
  <1> QED
    BY <1>8, <1>9, <1>10 DEF QuotesInv

LEMMA SchedulePrepaidKeeps ==
  ASSUME QuotesInv, SchedulePrepaid
  PROVE  QuotesInv'
  <1> DEFINE q == order.quote
             f == [plan |-> order.plan, cycle |-> order.cycle, starts |-> sub.expires, amount |-> q.amount]
  <1>1. /\ order # NoneOrdered /\ Captured /\ sub = order.sub /\ Ranks[order.plan] < Ranks[sub.plan]
        /\ follows = NoChange /\ follows' = f
        /\ order' = NoneOrdered /\ UNCHANGED <<today, sub, owed, orders>>
    BY DEF SchedulePrepaid, Captured, SubAsQuoted, IsLower
  <1>2. /\ q \in QuoteDocs /\ order.plan \in DOMAIN Price /\ order.cycle \in BillingCycles
        /\ q.amount \in Nat
        /\ QuoteKept(q, order.sub, order.plan, order.cycle, order.day, orders + 1)
        /\ (Ranks[order.plan] >= Ranks[order.sub.plan] \/ Unexpired(order.sub, order.day))
        /\ SubKept(sub, today, orders + 1) /\ sub.value \in Nat /\ sub \in SubDocs
        /\ owed = sub.value + q.amount
    BY <1>1, OpenOrder
  <1>3. order.plan \in {"pro", "premium"} /\ sub.plan \in {"free", "pro", "premium"} /\ sub.expires \in Nat
    BY <1>2, PricesTyped DEF SubDocs, Ranks
  <1>4. Unexpired(order.sub, order.day)
    BY <1>1, <1>2, <1>3 DEF Ranks
  <1>5. q.amount = Price[order.plan][order.cycle]
    BY <1>1, <1>2, <1>4 DEF QuoteKept
  <1>6. f \in ChangeDocs /\ f.plan = order.plan /\ f.cycle = order.cycle /\ f.starts = sub.expires
        /\ f.amount = q.amount
    BY <1>2, <1>3 DEF ChangeDocs, Ranks
  <1>7. f # NoChange /\ f.plan # "free"
    BY <1>3, <1>6 DEF NoChange
  <1> HIDE DEF f
  <1>8. FollowsKept'
    BY <1>1, <1>2, <1>5, <1>6, <1>7 DEF FollowsKept
  <1>9. CreditKept'
    BY <1>1, <1>2, <1>6, <1>7 DEF CreditKept, Ahead, Captured
  <1>10. QuotesTyped' /\ OrderKept'
    BY <1>1 DEF QuotesInv, QuotesTyped, OrderKept
  <1>11. SubKept(sub', today', (orders + 1)')
    BY <1>1, <1>2
  <1> QED
    BY <1>8, <1>9, <1>10, <1>11 DEF QuotesInv

LEMMA ApplyPaidKeeps ==
  ASSUME QuotesInv, ApplyPaid
  PROVE  QuotesInv'
  <1> DEFINE q == order.quote
             t == Term(order.plan, order.cycle, q.start, q.expires, q.value)
             credit == RemainingCredit(sub, order.day)
  <1>1. /\ order # NoneOrdered /\ Captured /\ sub = order.sub /\ ~(Ranks[order.plan] < Ranks[sub.plan])
        /\ follows = NoChange /\ sub' = t /\ owed' = owed - sub.value + credit
        /\ order' = NoneOrdered /\ UNCHANGED <<today, follows, orders>>
    BY DEF ApplyPaid, Captured, SubAsQuoted, IsLower, Replace
  <1>2. /\ q \in QuoteDocs /\ order.plan \in DOMAIN Price /\ order.cycle \in BillingCycles
        /\ q.amount \in Nat /\ order.day \in Nat /\ order.day <= today
        /\ today \in Nat /\ orders \in Nat /\ orders + 1 \in Nat
        /\ QuoteKept(q, order.sub, order.plan, order.cycle, order.day, orders + 1)
        /\ RemainingCredit(order.sub, order.day) \in Nat
        /\ sub.value \in Nat /\ owed \in Int /\ owed = sub.value + q.amount
    BY <1>1, OpenOrder
  <1>3. ~q.scheduled
    BY <1>1, <1>2 DEF QuoteKept
  <1>4. q.value = credit + q.amount /\ q.start = order.day /\ credit \in Nat
    BY <1>1, <1>2, <1>3 DEF QuoteKept
  <1>5. q.start <= today
    BY <1>2, <1>4
  <1>6. t \in SubDocs /\ t.value = q.value /\ SubKept(t, today, orders + 1)
    BY <1>2, <1>5, QuotedTermKept
  <1> HIDE DEF t, credit
  <1>7. SubKept(sub', today', (orders + 1)')
    BY <1>1, <1>6
  <1>8. CreditKept' /\ owed' \in Int
    <2>1. owed' = q.value /\ owed' \in Int
      BY <1>1, <1>2, <1>4
    <2>2. Ahead' = t.value + 0 + 0
      BY <1>1 DEF Ahead, Captured
    <2>3. t.value = t.value + 0 + 0
      BY <1>2, <1>4, <1>6
    <2> QED
      BY <1>6, <2>1, <2>2, <2>3 DEF CreditKept
  <1>9. QuotesTyped' /\ OrderKept' /\ FollowsKept'
    BY <1>1, <1>6, <1>8 DEF QuotesInv, QuotesTyped, OrderKept, FollowsKept
  <1> QED
    BY <1>7, <1>8, <1>9 DEF QuotesInv

LEMMA RefundStaleKeeps ==
  ASSUME QuotesInv, RefundStale
  PROVE  QuotesInv'
  <1>1. order # NoneOrdered /\ Captured /\ order' = NoneOrdered /\ owed' = owed - order.quote.amount
        /\ UNCHANGED <<today, sub, follows, orders>>
    BY DEF RefundStale, Captured
  <1>2. /\ order.quote.amount \in Nat /\ sub.value \in Nat /\ SubKept(sub, today, orders + 1)
        /\ owed = sub.value + order.quote.amount /\ FollowsKept
        /\ follows = NoChange \/ follows.plan = "free"
    BY <1>1, OpenOrder
  <1>3. follows = NoChange \/ follows.amount = 0
    BY <1>2 DEF FollowsKept
  <1>4. CreditKept' /\ owed' \in Int
    BY <1>1, <1>2, <1>3 DEF CreditKept, Ahead, Captured
  <1>5. QuotesTyped' /\ OrderKept' /\ FollowsKept'
    BY <1>1, <1>2, <1>4 DEF QuotesInv, QuotesTyped, OrderKept, FollowsKept
  <1>6. SubKept(sub', today', (orders + 1)')
    BY <1>1, <1>2
  <1> QED
    BY <1>4, <1>5, <1>6 DEF QuotesInv

LEMMA ScheduleFreeKeeps ==
  ASSUME QuotesInv, ScheduleFree
  PROVE  QuotesInv'
  <1> DEFINE f == [plan |-> "free", cycle |-> "none", starts |-> sub.expires, amount |-> 0]
  <1>1. /\ follows = NoChange /\ follows' = f /\ UNCHANGED <<today, sub, order, owed, orders>>
    BY DEF ScheduleFree
  <1>2. /\ sub \in SubDocs /\ sub.value \in Nat /\ sub.expires \in Nat
        /\ SubKept(sub, today, orders + 1) /\ OrderKept /\ CreditKept
    BY DEF QuotesInv, QuotesTyped, SubDocs
  <1>3. f \in ChangeDocs /\ f.plan = "free" /\ f.starts = sub.expires /\ f.amount = 0 /\ f # NoChange
    BY <1>2 DEF ChangeDocs, Ranks, NoChange
  <1> HIDE DEF f
  <1>4. FollowsKept'
    BY <1>1, <1>3 DEF FollowsKept
  <1>5. OrderKept'
    BY <1>1, <1>2, <1>3 DEF OrderKept, QuotedTerm
  <1>6. CreditKept'
    BY <1>1, <1>2, <1>3 DEF CreditKept, Ahead, Captured
  <1>7. QuotesTyped' /\ SubKept(sub', today', (orders + 1)')
    BY <1>1, <1>2 DEF QuotesInv, QuotesTyped
  <1> QED
    BY <1>4, <1>5, <1>6, <1>7 DEF QuotesInv

LEMMA AheadTyped ==
  ASSUME QuotesInv
  PROVE  /\ sub.value \in Nat
         /\ follows # NoChange => follows.amount \in Nat
         /\ order # NoneOrdered => order.quote.amount \in Nat
         /\ owed = sub.value + (IF follows = NoChange THEN 0 ELSE follows.amount)
                             + (IF Captured THEN order.quote.amount ELSE 0)
  <1>1. sub.value \in Nat
    BY DEF QuotesInv, QuotesTyped, SubDocs
  <1>2. follows # NoChange => follows.amount \in Nat
    BY DEF QuotesInv, FollowsKept, ChangeDocs
  <1>3. order # NoneOrdered => order.quote.amount \in Nat
    BY OpenOrder
  <1> QED
    BY <1>1, <1>2, <1>3 DEF QuotesInv, CreditKept, Ahead

LEMMA CancelPrepaidKeeps ==
  ASSUME QuotesInv, CancelPrepaid
  PROVE  QuotesInv'
  <1>1. /\ follows # NoChange /\ follows' = NoChange /\ owed' = owed - follows.amount
        /\ UNCHANGED <<today, sub, order, orders>>
    BY DEF CancelPrepaid
  <1>2. CreditKept' /\ owed' \in Int
    <2> DEFINE c == IF Captured THEN order.quote.amount ELSE 0
    <2>1. c \in Nat
      BY AheadTyped DEF Captured
    <2>2. Ahead' = sub.value + 0 + c
      BY <1>1 DEF Ahead, Captured
    <2>3. owed = sub.value + follows.amount + c /\ sub.value \in Nat /\ follows.amount \in Nat
      BY <1>1, AheadTyped
    <2> HIDE DEF c
    <2> QED
      BY <1>1, <2>1, <2>2, <2>3 DEF CreditKept
  <1>3. OrderKept' /\ FollowsKept' /\ QuotesTyped' /\ SubKept(sub', today', (orders + 1)')
    BY <1>1, <1>2 DEF QuotesInv, QuotesTyped, OrderKept, QuotedTerm, FollowsKept
  <1> QED
    BY <1>2, <1>3 DEF QuotesInv

LEMMA ActivateKeeps ==
  ASSUME EndlessCalendar, QuotesInv, Activate
  PROVE  QuotesInv'
  <1> DEFINE p == follows.plan
             c == follows.cycle
             end == AddBillingPeriod(today, c)
             t == Term(p, c, today, end, follows.amount)
  <1>1. /\ follows # NoChange /\ p # "free" /\ sub' = t /\ owed' = owed - sub.value
        /\ follows' = NoChange /\ UNCHANGED <<today, order, orders>>
    BY DEF Activate
  <1>2. /\ today \in Nat /\ orders \in Nat /\ orders + 1 \in Nat
        /\ p \in DOMAIN Price /\ c \in BillingCycles
        /\ follows.amount = Price[p][c] /\ order = NoneOrdered
    BY <1>1 DEF QuotesInv, QuotesTyped, FollowsKept, OrderKept
  <1>3. /\ end \in Nat /\ end - today \in ShortestPeriod(c)..LongestPeriod(c)
        /\ ShortestPeriod(c) \in Nat \ {0} /\ LongestPeriod(c) \in Nat
    BY <1>2, PeriodLength, PeriodsTyped
  <1>4. Price[p][c] \in Nat
    BY <1>2, PricesTyped
  <1> DEFINE days == end - today
             full == Price[p][c]
  <1>5. AtList(full, p, c, days, orders + 1)
    BY <1>2, <1>3, PeriodAtList
  <1>6. today < end /\ today <= today /\ days = end - today
    BY <1>2, <1>3
  <1> HIDE DEF end, days, full
  <1>7. full \in Nat
    BY <1>4 DEF full
  <1>8. /\ Term(p, c, today, end, full) \in SubDocs
        /\ Term(p, c, today, end, full).value = full
        /\ SubKept(Term(p, c, today, end, full), today, orders + 1)
    BY <1>2, <1>3, <1>5, <1>6, <1>7, NewTermKept
  <1>9. t \in SubDocs /\ t.value = follows.amount /\ SubKept(t, today, orders + 1)
    BY <1>2, <1>8 DEF full
  <1> HIDE DEF t
  <1>10. CreditKept' /\ owed' \in Int
    <2>1. owed = sub.value + follows.amount + 0 /\ sub.value \in Nat /\ follows.amount \in Nat
      BY <1>1, <1>2, AheadTyped DEF Captured
    <2>2. Ahead' = t.value + 0 + 0
      BY <1>1, <1>2 DEF Ahead, Captured
    <2> QED
      BY <1>1, <1>9, <2>1, <2>2 DEF CreditKept
  <1>11. QuotesTyped' /\ OrderKept' /\ FollowsKept' /\ SubKept(sub', today', (orders + 1)')
    BY <1>1, <1>2, <1>9, <1>10 DEF QuotesInv, QuotesTyped, OrderKept, FollowsKept
  <1> QED
    BY <1>10, <1>11 DEF QuotesInv

LEMMA PlanEndsKeeps ==
  ASSUME QuotesInv, PlanEnds
  PROVE  QuotesInv'
  <1> DEFINE t == FreePlan(sub.plan)
             kept == follows # NoChange /\ follows.plan # "free"
  <1>1. /\ sub.plan # "free" /\ sub.expires <= today /\ sub' = t /\ owed' = owed - sub.value
        /\ follows' = IF kept THEN follows ELSE NoChange
        /\ UNCHANGED <<today, order, orders>>
    BY DEF PlanEnds, Due
  <1>2. sub \in SubDocs /\ sub.plan \in DOMAIN Ranks /\ sub.value \in Nat
        /\ FollowsKept /\ OrderKept
    BY DEF QuotesInv, QuotesTyped, SubDocs
  <1>3. t \in SubDocs /\ t.plan = "free" /\ t.value = 0
    BY <1>2 DEF FreePlan, SubDocs, Ranks
  <1> HIDE DEF t
  <1>4. SubKept(sub', today', (orders + 1)')
    BY <1>1, <1>3 DEF SubKept
  <1>5. FollowsKept'
    BY <1>1, <1>2, <1>3 DEF FollowsKept
  <1>6. CreditKept' /\ owed' \in Int
    <2> DEFINE c == IF Captured THEN order.quote.amount ELSE 0
               f == IF follows = NoChange THEN 0 ELSE follows.amount
    <2>1. c \in Nat /\ f \in Nat /\ owed = sub.value + f + c
      BY AheadTyped DEF Captured
    <2>2. f = IF kept THEN follows.amount ELSE 0
      BY <1>2 DEF FollowsKept
    <2>3. Ahead' = t.value + f + c
      BY <1>1, <2>2 DEF Ahead, Captured
    <2> HIDE DEF c, f
    <2> QED
      BY <1>1, <1>2, <1>3, <2>1, <2>3 DEF CreditKept
  <1>7. OrderKept'
    <2>1. CASE order = NoneOrdered
      BY <1>1, <2>1 DEF OrderKept
    <2>2. CASE order # NoneOrdered
      <3>1. QuotedTerm'
        BY <1>1, <1>2, <1>3, <2>2 DEF OrderKept, QuotedTerm
      <3>2. follows' = NoChange
        BY <1>1, <1>2, <2>2 DEF OrderKept
      <3> QED
        BY <1>1, <1>2, <2>2, <3>1, <3>2 DEF OrderKept
    <2> QED
      BY <2>1, <2>2
  <1>8. QuotesTyped'
    BY <1>1, <1>3, <1>6 DEF QuotesInv, QuotesTyped
  <1> QED
    BY <1>4, <1>5, <1>6, <1>7, <1>8 DEF QuotesInv

LEMMA PassDaysKeeps ==
  ASSUME QuotesInv, PassDays
  PROVE  QuotesInv'
  <1>1. PICK n \in Steps : /\ today + n <= LastDay /\ today' = today + n
                           /\ UNCHANGED <<sub, follows, order, owed, orders>>
    BY DEF PassDays
  <1>2. n \in Nat
    BY QuotesAssumption
  <1>3. today \in Nat /\ orders \in Nat /\ orders + 1 \in Nat /\ sub \in SubDocs
        /\ SubKept(sub, today, orders + 1)
    BY DEF QuotesInv, QuotesTyped
  <1>4. today' \in Nat /\ today <= today' /\ today' <= LastDay /\ orders + 1 <= orders + 1
    BY <1>1, <1>2, <1>3
  <1>5. SubKept(sub, today', orders + 1)
    BY <1>3, <1>4, SubKeptOn
  <1>6. SubKept(sub', today', (orders + 1)')
    BY <1>1, <1>5
  <1>7. OrderKept'
    <2>1. CASE order = NoneOrdered
      BY <1>1, <2>1 DEF OrderKept
    <2>2. CASE order # NoneOrdered
      <3>1. order.day \in Nat /\ order.day <= today /\ order.sub \in SubDocs /\ QuotedTerm /\ OrderKept
        BY <2>2, OpenOrder DEF QuotesInv
      <3>2. order.sub.expires \in Nat
        BY <3>1 DEF SubDocs
      <3>3. order.day <= today'
        BY <1>3, <1>4, <3>1
      <3>4. QuotedTerm'
        BY <1>1, <1>3, <1>4, <3>1, <3>2 DEF QuotedTerm
      <3> QED
        BY <1>1, <2>2, <3>1, <3>3, <3>4 DEF OrderKept
    <2> QED
      BY <2>1, <2>2
  <1>8. QuotesTyped' /\ FollowsKept' /\ CreditKept'
    BY <1>1, <1>4 DEF QuotesInv, QuotesTyped, FollowsKept, CreditKept, Ahead, Captured
  <1> QED
    BY <1>6, <1>7, <1>8 DEF QuotesInv

LEMMA QuotesStep ==
  ASSUME EndlessCalendar, QuotesInv, [QuotesNext]_quoteVars
  PROVE  QuotesInv'
  <1>1. CASE UNCHANGED quoteVars
    <2> USE <1>1 DEF quoteVars
    <2>1. QuotesTyped' /\ FollowsKept' /\ OrderKept' /\ CreditKept'
      BY DEF QuotesInv, QuotesTyped, FollowsKept, OrderKept, QuotedTerm, CreditKept, Ahead, Captured
    <2>2. SubKept(sub', today', (orders + 1)')
      BY DEF QuotesInv
    <2> QED
      BY <2>1, <2>2 DEF QuotesInv
  <1>2. ASSUME NEW p \in DOMAIN Price, NEW c \in BillingCycles, OrderPlan(p, c)
        PROVE  QuotesInv'
    BY <1>2, OrderPlanKeeps
  <1>3. CASE PayOrder \/ AbandonOrder
    BY <1>3, PayOrderKeeps, AbandonOrderKeeps
  <1>4. CASE ApplyLate \/ SchedulePrepaid \/ ApplyPaid \/ RefundStale
    BY <1>4, ApplyLateKeeps, SchedulePrepaidKeeps, ApplyPaidKeeps, RefundStaleKeeps
  <1>5. CASE ScheduleFree \/ CancelPrepaid
    BY <1>5, ScheduleFreeKeeps, CancelPrepaidKeeps
  <1>6. CASE Activate \/ PlanEnds
    BY <1>6, ActivateKeeps, PlanEndsKeeps
  <1>7. CASE PassDays
    BY <1>7, PassDaysKeeps
  <1> QED
    BY <1>1, <1>2, <1>3, <1>4, <1>5, <1>6, <1>7 DEF QuotesNext

LEMMA QuotesInvTypes ==
  ASSUME QuotesInv
  PROVE  QuotesTypeOK
  <1>1. today \in 0..LastDay /\ sub.plan \in DOMAIN Ranks
    BY QuotesAssumption DEF QuotesInv, QuotesTyped, SubDocs
  <1>2. sub.plan # "free" => sub.cycle \in BillingCycles /\ sub.start < sub.expires
    BY DEF QuotesInv, SubKept
  <1>3. order # NoneOrdered => order.quote.amount > 0 /\ order.quote.expires > order.day
    <2>1. CASE order # NoneOrdered
      BY <2>1, OpenOrder DEF QuoteKept
    <2> QED
      BY <2>1
  <1>4. follows # NoChange /\ sub.plan # "free" => follows.starts = sub.expires
    BY DEF QuotesInv, FollowsKept
  <1> QED
    BY <1>1, <1>2, <1>3, <1>4 DEF QuotesTypeOK

(* Subscription, order and schedule have their types, for every price list *)
(* and every calendar that goes on.                                        *)
THEOREM QuotesTypeCorrect == EndlessCalendar => (QuotesSpec => []QuotesTypeOK)
  <1> SUFFICES ASSUME EndlessCalendar PROVE QuotesSpec => []QuotesTypeOK
    OBVIOUS
  <1>1. QuotesInit => QuotesInv
    BY QuotesBegin
  <1>2. QuotesInv /\ [QuotesNext]_quoteVars => QuotesInv'
    BY QuotesStep
  <1>3. QuotesInv => QuotesTypeOK
    BY QuotesInvTypes
  <1> QED
    BY <1>1, <1>2, <1>3, PTL DEF QuotesSpec

(* However many orders, renewals, upgrades, changes of cycle and plans     *)
(* bought in advance there were, and on whatever days: no credit appears   *)
(* or is lost, and time costs what the price list says, but for a day and a*)
(* rupee of rounding per order (quotePlan, changePlan and applyPayment).   *)
THEOREM QuotesKeptInOrder == EndlessCalendar => (QuotesSpec => []QuotesInOrder)
  <1> SUFFICES ASSUME EndlessCalendar PROVE QuotesSpec => []QuotesInOrder
    OBVIOUS
  <1>1. QuotesInit => QuotesInv
    BY QuotesBegin
  <1>2. QuotesInv /\ [QuotesNext]_quoteVars => QuotesInv'
    BY QuotesStep
  <1>3. QuotesInv => QuotesInOrder
    <2>1. SUFFICES ASSUME QuotesInv, sub.plan # "free", sub.start # Untracked
                   PROVE  AtList(sub.value, sub.plan, sub.cycle, sub.expires - sub.start, orders + 1)
      BY DEF QuotesInv, QuotesInOrder, AtListPrice, AtList, Slack
    <2> QED
      BY <2>1 DEF QuotesInv, SubKept
  <1> QED
    BY <1>1, <1>2, <1>3, PTL DEF QuotesSpec

-----------------------------------------------------------------------------
(* All four sides of a plan, one beside the other.                         *)
PlansInv == TypeInv /\ QuotesInv /\ RemindersInv /\ NoticesInv

LEMMA PlansBegin ==
  ASSUME PlansInit
  PROVE  PlansInv
  BY TypeInit, QuotesBegin, RemindersBegin, NoticesBegin DEF PlansInit, PlansInv

LEMMA PlansStep ==
  ASSUME EndlessCalendar, PlansInv,
         [PlansNext]_<<vars, quoteVars, reminderVars, noticeVars, side>>
  PROVE  PlansInv'
  <1>1. /\ [Next]_vars /\ [QuotesNext]_quoteVars
        /\ [RemindersNext]_reminderVars /\ [NoticesNext]_noticeVars
    BY DEF PlansNext
  <1> QED
    BY <1>1, TypeStep, QuotesStep, RemindersStep, NoticesStep DEF PlansInv

(* Payments, prices, reminders and notices keep their types, whichever of  *)
(* them moves.                                                             *)
THEOREM PlansTypeCorrect == EndlessCalendar => (PlansSpec => []PlansTypeOK)
  <1> SUFFICES ASSUME EndlessCalendar PROVE PlansSpec => []PlansTypeOK
    OBVIOUS
  <1>1. PlansInit => PlansInv
    BY PlansBegin
  <1>2. PlansInv /\ [PlansNext]_<<vars, quoteVars, reminderVars, noticeVars, side>> => PlansInv'
    BY PlansStep
  <1>3. PlansInv => PlansTypeOK
    BY TypeInvTypes, QuotesInvTypes DEF PlansInv, PlansTypeOK, RemindersInv, RemindersTyped,
       NoticesInv, NoticesTyped
  <1> QED
    BY <1>1, <1>2, <1>3, PTL DEF PlansSpec
=============================================================================
