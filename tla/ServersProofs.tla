--------------------------- MODULE ServersProofs ----------------------------
(***************************************************************************)
(* What servers owe over time, proved for any number of servers, jobs,     *)
(* requests, sweeps and calls, and for any length of claim, interval and   *)
(* lateness within the assumption: the lock of the sweeps, the grace       *)
(* period, the calls of a browser tab, then all of it beside the payments. *)
(***************************************************************************)
EXTENDS MCSweeps, PaymentsProofs

-----------------------------------------------------------------------------
(* What the arithmetic needs of the constants.                             *)
LEMMA Lengths ==
  /\ Claim \in Nat /\ Period \in Nat /\ MaxLate \in Nat
  /\ Claim > 0 /\ Period > 0 /\ MaxLate < Claim
  /\ Longest = Period + Claim + MaxLate /\ Longest \in Nat
BY LockAssumption DEF LockAssumption, Longest

(* The three shapes of a tick.                                             *)
LEMMA TickShapes ==
  ASSUME NEW t \in TickDocs
  PROVE  \/ t = Off
         \/ /\ t.st = "asks" /\ t.server \in Servers /\ t.job \in Jobs
            /\ t.late \in 0..MaxLate
         \/ /\ t.st = "works" /\ t.server \in Servers /\ t.job \in Jobs
            /\ t.rest \in 0..Claim
BY DEF TickDocs, Off

-----------------------------------------------------------------------------
(* Types.                                                                  *)
LEMMA LockKept ==
  ASSUME LockTypeOK, [LockNext]_lockVars
  PROVE  LockTypeOK'
<1> USE Lengths DEF LockTypeOK
<1>1. ASSUME NEW s \in Servers, Boot(s) PROVE LockTypeOK'
  BY <1>1 DEF Boot
<1>2. ASSUME NEW s \in Servers, Halt(s) PROVE LockTypeOK'
  BY <1>2 DEF Halt, TickDocs
<1>3. ASSUME NEW s \in Servers, NEW j \in Jobs, NEW r \in Runs, Fire(s, j, r)
      PROVE  LockTypeOK'
  <2>1. Asking(s, j) \in TickDocs
    BY DEF Asking, TickDocs
  <2> QED BY <1>3, <2>1 DEF Fire
<1>4. ASSUME NEW r \in Runs, BeginJob(r) PROVE LockTypeOK'
  <2> DEFINE t == tick[r]
  <2>1. /\ t.server \in Servers /\ t.job \in Jobs /\ t.late \in 0..MaxLate
    BY <1>4, TickShapes DEF BeginJob, Asks, Off
  <2>2. Claim - t.late \in 0..Claim /\ Claim - t.late \in -MaxLate..Claim
    BY <2>1
  <2>3. Working(t.server, t.job, Claim - t.late) \in TickDocs
    BY <2>1, <2>2 DEF Working, TickDocs
  <2>4. /\ up' = up /\ timer' = timer
        /\ left' = [left EXCEPT ![t.job] = Claim - t.late]
        /\ tick' = [tick EXCEPT ![r] = Working(t.server, t.job, Claim - t.late)]
        /\ waited' = [s \in Servers |-> [waited[s] EXCEPT ![t.job] = 0]]
    BY <1>4 DEF BeginJob
  <2>5. left' \in [Jobs -> -MaxLate..Claim]
    BY <2>2, <2>4
  <2>6. tick' \in [Runs -> TickDocs]
    BY <2>3, <2>4
  <2>7. waited' \in [Servers -> [Jobs -> 0..(Longest + 1)]]
    <3>1. ASSUME NEW s \in Servers
          PROVE  [waited[s] EXCEPT ![t.job] = 0] \in [Jobs -> 0..(Longest + 1)]
      <4>1. 0 \in 0..(Longest + 1)
        OBVIOUS
      <4>2. waited[s] \in [Jobs -> 0..(Longest + 1)]
        OBVIOUS
      <4> QED BY <4>1, <4>2
    <3> QED BY <2>4, <3>1
  <2> QED BY <2>4, <2>5, <2>6, <2>7
<1>5. ASSUME NEW r \in Runs, Collide(r) PROVE LockTypeOK'
  BY <1>5 DEF Collide, TickDocs
<1>6. ASSUME NEW r \in Runs, FailTick(r) PROVE LockTypeOK'
  <2>1. tick[r].server \in Servers /\ tick[r].job \in Jobs
    BY <1>6, TickShapes DEF FailTick, Asks, Off
  <2>2. tick' \in [Runs -> TickDocs]
    BY <1>6 DEF FailTick, TickDocs
  <2>3. waited' \in [Servers -> [Jobs -> 0..(Longest + 1)]]
    BY <1>6, <2>1 DEF FailTick
  <2> QED BY <1>6, <2>2, <2>3 DEF FailTick
<1>7. ASSUME NEW r \in Runs, FinishJob(r) PROVE LockTypeOK'
  BY <1>7 DEF FinishJob, TickDocs
<1>8. ASSUME PassTime PROVE LockTypeOK'
  <2>1. timer' \in [Servers -> [Jobs -> 0..Period]]
    BY <1>8 DEF PassTime
  <2>2. left' \in [Jobs -> -MaxLate..Claim]
    BY <1>8 DEF PassTime
  <2>3. tick' \in [Runs -> TickDocs]
    <3> SUFFICES ASSUME NEW r \in Runs PROVE tick'[r] \in TickDocs
      BY <1>8 DEF PassTime
    <3>1. CASE tick[r].st = "asks"
      <4>1. tick[r].late \in 0..MaxLate /\ tick[r].late < MaxLate
        BY <1>8, <3>1, TickShapes, SMTT(60) DEF PassTime, Asks, Off
      <4>2. tick[r] \in [st : {"asks"}, server : Servers, job : Jobs, late : 0..MaxLate]
        BY <3>1 DEF TickDocs, Off
      <4>3. [tick[r] EXCEPT !.late = @ + 1]
              \in [st : {"asks"}, server : Servers, job : Jobs, late : 0..MaxLate]
        BY <4>1, <4>2, SMTT(60)
      <4> QED BY <1>8, <3>1, <4>3 DEF PassTime, TickDocs
    <3>2. CASE tick[r].st = "works" /\ tick[r].rest > 0
      <4>1. tick[r] \in [st : {"works"}, server : Servers, job : Jobs, rest : 0..Claim]
        BY <3>2 DEF TickDocs, Off
      <4>2. [tick[r] EXCEPT !.rest = @ - 1]
              \in [st : {"works"}, server : Servers, job : Jobs, rest : 0..Claim]
        BY <3>2, <4>1, SMTT(60)
      <4> QED BY <1>8, <3>2, <4>2 DEF PassTime, TickDocs
    <3>3. CASE ~(tick[r].st = "asks") /\ ~(tick[r].st = "works" /\ tick[r].rest > 0)
      BY <1>8, <3>3 DEF PassTime
    <3> QED BY <3>1, <3>2, <3>3
  <2>4. waited' \in [Servers -> [Jobs -> 0..(Longest + 1)]]
    BY <1>8 DEF PassTime
  <2> QED BY <1>8, <2>1, <2>2, <2>3, <2>4 DEF PassTime
<1>9. CASE UNCHANGED lockVars
  BY <1>9 DEF lockVars
<1> QED BY <1>1, <1>2, <1>3, <1>4, <1>5, <1>6, <1>7, <1>8, <1>9 DEF LockNext

LEMMA LockBegins == LockInit => LockTypeOK
BY Lengths DEF LockInit, LockTypeOK, TickDocs

(* Timers, locks and ticks keep their types however many servers there are *)
(* (main, runExclusive).                                                   *)
THEOREM LockTypeCorrect == LockSpec => []LockTypeOK
BY LockBegins, LockKept, PTL DEF LockSpec

-----------------------------------------------------------------------------
(* One run per claim. The strengthening: a run that is within its claim    *)
(* still holds the lock of its job.                                        *)
Held == \A r \in Runs : Within(r) => tick[r].rest <= left[tick[r].job]

OneRunInv == LockTypeOK /\ Held /\ OneRunPerClaim

(* A step that only ends runs or moves calls that still ask keeps it.      *)
LEMMA FewerRuns ==
  ASSUME OneRunInv,
         \A j \in Jobs : left'[j] = left[j],
         \A r \in Runs : tick'[r] = tick[r] \/ tick'[r].st # "works"
  PROVE  Held' /\ OneRunPerClaim'
<1>1. ASSUME NEW r \in Runs, Within(r)'
      PROVE  tick'[r] = tick[r] /\ Within(r) /\ tick[r].job \in Jobs
  BY <1>1, TickShapes DEF Within, OneRunInv, LockTypeOK, Off
<1>2. Held'
  BY <1>1 DEF Held, OneRunInv
<1>3. OneRunPerClaim'
  BY <1>1 DEF OneRunPerClaim, OneRunInv
<1> QED BY <1>2, <1>3

(* A new claim begins only when no run is within an older one.             *)
LEMMA NewClaim ==
  ASSUME OneRunInv, NEW r \in Runs, BeginJob(r)
  PROVE  Held' /\ OneRunPerClaim'
<1> DEFINE j == tick[r].job
           rest == Claim - tick[r].late
<1>1. /\ j \in Jobs /\ tick[r].server \in Servers /\ tick[r].late \in 0..MaxLate
      /\ left[j] <= 0
  <2>1. j \in Jobs /\ tick[r].server \in Servers /\ tick[r].late \in 0..MaxLate
    BY TickShapes DEF OneRunInv, LockTypeOK, BeginJob, Asks, Off
  <2>2. left[j] <= -tick[r].late /\ left[j] \in Int
    BY <2>1, Lengths DEF BeginJob, Expired, OneRunInv, LockTypeOK
  <2> QED BY <2>1, <2>2, Lengths
<1>2. ASSUME NEW q \in Runs, q # r, Within(q)
      PROVE  tick[q].job # j /\ tick[q].job \in Jobs /\ tick[q].rest \in Int
  <2>1. tick[q].job \in Jobs /\ tick[q].rest \in 0..Claim /\ tick[q].rest > 0
    BY <1>2, TickShapes DEF OneRunInv, LockTypeOK, Within, Off
  <2>2. tick[q].rest <= left[tick[q].job]
    BY <1>2 DEF OneRunInv, Held
  <2>3. left[tick[q].job] \in Int
    BY <2>1, Lengths DEF OneRunInv, LockTypeOK
  <2> QED BY <1>1, <2>1, <2>2, <2>3, Lengths
<1>3. /\ tick' = [tick EXCEPT ![r] = Working(tick[r].server, j, rest)]
      /\ left' = [left EXCEPT ![j] = rest]
  BY DEF BeginJob
<1>4. /\ \A q \in Runs : q # r => tick'[q] = tick[q]
      /\ tick'[r] = Working(tick[r].server, j, rest)
      /\ \A i \in Jobs : i # j => left'[i] = left[i]
      /\ left'[j] = rest
  BY <1>1, <1>3 DEF OneRunInv, LockTypeOK
<1>5. tick'[r].job = j /\ tick'[r].rest = rest
  BY <1>4 DEF Working
<1>6. Held'
  <2> SUFFICES ASSUME NEW q \in Runs, Within(q)'
               PROVE  tick'[q].rest <= left'[tick'[q].job]
    BY DEF Held
  <2>1. CASE q = r
    BY <2>1, <1>1, <1>4, <1>5, Lengths
  <2>2. CASE q # r
    <3>1. Within(q) /\ tick'[q] = tick[q]
      BY <2>2, <1>4 DEF Within
    <3> QED BY <2>2, <3>1, <1>2, <1>4 DEF OneRunInv, Held
  <2> QED BY <2>1, <2>2
<1>7. OneRunPerClaim'
  <2> SUFFICES ASSUME NEW p \in Runs, NEW q \in Runs, Within(p)', Within(q)',
                      tick'[p].job = tick'[q].job
               PROVE  p = q
    BY DEF OneRunPerClaim
  <2>1. ASSUME NEW x \in Runs, x # r, Within(x)'
        PROVE  Within(x) /\ tick'[x] = tick[x] /\ tick'[x].job # j
    BY <2>1, <1>2, <1>4 DEF Within
  <2>2. CASE p # r /\ q # r
    BY <2>1, <2>2 DEF OneRunInv, OneRunPerClaim
  <2>3. CASE p = r \/ q = r
    BY <2>1, <2>3, <1>5
  <2> QED BY <2>2, <2>3
<1> QED BY <1>6, <1>7

(* Time takes the same from a run as from the lock it holds.               *)
LEMMA TimePasses ==
  ASSUME OneRunInv, PassTime
  PROVE  Held' /\ OneRunPerClaim'
<1>1. ASSUME NEW r \in Runs, Within(r)'
      PROVE  /\ Within(r) /\ tick'[r].job = tick[r].job /\ tick[r].job \in Jobs
             /\ tick'[r].rest = tick[r].rest - 1 /\ tick[r].rest \in Nat
  <2>1. tick[r] \in TickDocs
    BY DEF OneRunInv, LockTypeOK
  <2>2. tick'[r] = CASE tick[r].st = "asks" -> [tick[r] EXCEPT !.late = @ + 1]
         [] tick[r].st = "works" /\ tick[r].rest > 0 -> [tick[r] EXCEPT !.rest = @ - 1]
         [] OTHER -> tick[r]
    BY DEF PassTime
  <2>3. CASE tick[r].st = "asks"
    <3>1. tick'[r] = [tick[r] EXCEPT !.late = @ + 1]
      BY <2>2, <2>3
    <3>2. tick[r] \in [st : {"asks"}, server : Servers, job : Jobs, late : 0..MaxLate]
      BY <2>1, <2>3 DEF TickDocs, Off
    <3>3. tick'[r].st = "asks"
      BY <3>1, <3>2
    <3> QED BY <1>1, <3>3 DEF Within
  <2>4. CASE tick[r].st = "works" /\ tick[r].rest > 0
    <3>1. tick'[r] = [tick[r] EXCEPT !.rest = @ - 1]
      BY <2>2, <2>4
    <3>2. tick[r] \in [st : {"works"}, server : Servers, job : Jobs, rest : 0..Claim]
      BY <2>1, <2>4 DEF TickDocs, Off
    <3> QED BY <2>4, <3>1, <3>2, Lengths DEF Within
  <2>5. CASE ~(tick[r].st = "asks") /\ ~(tick[r].st = "works" /\ tick[r].rest > 0)
    BY <1>1, <2>2, <2>5 DEF Within
  <2> QED BY <2>3, <2>4, <2>5
<1>2. Held'
  <2> SUFFICES ASSUME NEW r \in Runs, Within(r)'
               PROVE  tick'[r].rest <= left'[tick'[r].job]
    BY DEF Held
  <2>1. tick[r].rest <= left[tick[r].job] /\ tick[r].rest > 0
    BY <1>1 DEF OneRunInv, Held, Within
  <2>2. left[tick[r].job] \in Int
    BY <1>1, Lengths DEF OneRunInv, LockTypeOK
  <2>3. left'[tick[r].job] = left[tick[r].job] - 1
    BY <1>1, <2>1, <2>2, Lengths DEF PassTime
  <2> QED BY <1>1, <2>1, <2>2, <2>3
<1>3. OneRunPerClaim'
  BY <1>1 DEF OneRunInv, OneRunPerClaim
<1> QED BY <1>2, <1>3

LEMMA OneRunStep ==
  ASSUME OneRunInv, [LockNext]_lockVars
  PROVE  OneRunInv'
<1>1. LockTypeOK'
  BY LockKept DEF OneRunInv
<1>2. ASSUME NEW s \in Servers, Boot(s) PROVE Held' /\ OneRunPerClaim'
  BY <1>2, FewerRuns DEF Boot
<1>3. ASSUME NEW s \in Servers, Halt(s) PROVE Held' /\ OneRunPerClaim'
  <2>1. \A r \in Runs : tick'[r] = tick[r] \/ tick'[r].st # "works"
    BY <1>3 DEF Halt, Off
  <2>2. \A j \in Jobs : left'[j] = left[j]
    BY <1>3 DEF Halt
  <2> QED BY <2>1, <2>2, FewerRuns
<1>4. ASSUME NEW s \in Servers, NEW j \in Jobs, NEW r \in Runs, Fire(s, j, r)
      PROVE  Held' /\ OneRunPerClaim'
  <2>1. \A q \in Runs : tick'[q] = tick[q] \/ tick'[q].st # "works"
    BY <1>4 DEF Fire, Asking, OneRunInv, LockTypeOK
  <2>2. \A i \in Jobs : left'[i] = left[i]
    BY <1>4 DEF Fire
  <2> QED BY <2>1, <2>2, FewerRuns
<1>5. ASSUME NEW r \in Runs, Collide(r) \/ FailTick(r) \/ FinishJob(r)
      PROVE  Held' /\ OneRunPerClaim'
  <2>1. tick' = [tick EXCEPT ![r] = Off] /\ left' = left
    BY <1>5 DEF Collide, FailTick, FinishJob
  <2>2. \A q \in Runs : tick'[q] = tick[q] \/ tick'[q].st # "works"
    BY <2>1 DEF Off, OneRunInv, LockTypeOK
  <2>3. \A i \in Jobs : left'[i] = left[i]
    BY <2>1
  <2> QED BY <2>2, <2>3, FewerRuns
<1>6. ASSUME UNCHANGED lockVars PROVE Held' /\ OneRunPerClaim'
  BY <1>6, FewerRuns DEF lockVars
<1>7. Held' /\ OneRunPerClaim'
  BY <1>2, <1>3, <1>4, <1>5, <1>6, NewClaim, TimePasses DEF LockNext
<1> QED BY <1>1, <1>7 DEF OneRunInv

(* While a claim lasts nobody else does the job, however many servers ask  *)
(* for it, crash with it or ask by a late clock (runExclusive).            *)
THEOREM OneRunCorrect == LockSpec => []OneRunPerClaim
<1>1. LockInit => OneRunInv
  BY LockBegins DEF LockInit, OneRunInv, Held, OneRunPerClaim, Within, Off
<1>2. OneRunInv /\ [LockNext]_lockVars => OneRunInv'
  BY OneRunStep
<1>3. OneRunInv => OneRunPerClaim
  BY DEF OneRunInv
<1> QED BY <1>1, <1>2, <1>3, PTL DEF LockSpec

-----------------------------------------------------------------------------
(* No job waits for long. A server that waits longer than a claim since    *)
(* its last tick has a call under way that finds the lock expired.         *)
Overdue(r, s, j) ==
  /\ tick[r].st = "asks" /\ tick[r].server = s /\ tick[r].job = j
  /\ Claim + tick[r].late <= waited[s][j]
  /\ waited[s][j] <= Claim + Period + tick[r].late

SoonTicks(s, j) == waited[s][j] < Claim + Period - timer[s][j]

Waits(s, j) ==
  /\ s \notin up => waited[s][j] = 0
  /\ left[j] > -MaxLate => left[j] + waited[s][j] <= Claim
  /\ SoonTicks(s, j) \/ \E r \in Runs : Overdue(r, s, j)

WaitInv == LockTypeOK /\ \A s \in Servers, j \in Jobs : Waits(s, j)

LEMMA Numbers ==
  ASSUME LockTypeOK, NEW s \in Servers, NEW j \in Jobs
  PROVE  /\ waited[s][j] \in Nat /\ timer[s][j] \in 0..Period
         /\ left[j] \in Int /\ -MaxLate <= left[j] /\ left[j] <= Claim
BY Lengths DEF LockTypeOK

LEMMA WaitIsBounded ==
  ASSUME WaitInv
  PROVE  NeverBlockedForLong
<1> SUFFICES ASSUME NEW s \in Servers, NEW j \in Jobs
             PROVE  waited[s][j] <= Longest
  BY DEF NeverBlockedForLong
<1>1. waited[s][j] \in Nat /\ timer[s][j] \in 0..Period
  BY Numbers DEF WaitInv
<1>2. CASE SoonTicks(s, j)
  BY <1>1, <1>2, Lengths DEF SoonTicks
<1>3. ASSUME NEW r \in Runs, Overdue(r, s, j)
      PROVE  waited[s][j] <= Longest
  <2>1. tick[r].late \in 0..MaxLate
    BY <1>3, TickShapes DEF Overdue, WaitInv, LockTypeOK, Off
  <2> QED BY <1>1, <1>3, <2>1, Lengths DEF Overdue
<1> QED BY <1>2, <1>3 DEF WaitInv, Waits

(* Whose wait starts anew is in order.                                     *)
LEMMA WaitStarts ==
  ASSUME LockTypeOK', NEW s \in Servers, NEW j \in Jobs, waited'[s][j] = 0
  PROVE  Waits(s, j)'
<1>1. /\ timer'[s][j] \in 0..Period
      /\ left'[j] \in Int /\ left'[j] <= Claim
  BY Lengths DEF LockTypeOK
<1>2. SoonTicks(s, j)'
  BY <1>1, Lengths DEF SoonTicks
<1> QED BY <1>1, <1>2, Lengths DEF Waits

(* Nothing that matters to the wait changes.                               *)
LEMMA WaitStays ==
  ASSUME WaitInv, NEW s \in Servers, NEW j \in Jobs,
         s \in up <=> s \in up',
         waited'[s][j] = waited[s][j], timer'[s][j] = timer[s][j],
         left'[j] = left[j],
         \A r \in Runs : Overdue(r, s, j) => tick'[r] = tick[r]
  PROVE  Waits(s, j)'
BY DEF WaitInv, Waits, SoonTicks, Overdue

LEMMA WaitBoot ==
  ASSUME WaitInv, LockTypeOK', NEW z \in Servers, Boot(z),
         NEW s \in Servers, NEW j \in Jobs
  PROVE  Waits(s, j)'
<1>1. CASE s = z
  <2>1. waited'[s][j] = 0
    BY <1>1 DEF Boot, WaitInv, LockTypeOK
  <2> QED BY <2>1, WaitStarts
<1>2. CASE s # z
  <2>1. /\ waited'[s] = waited[s] /\ timer'[s] = timer[s]
        /\ s \in up <=> s \in up'
        /\ left' = left /\ tick' = tick
    BY <1>2 DEF Boot, WaitInv, LockTypeOK
  <2> QED BY <2>1, WaitStays
<1> QED BY <1>1, <1>2

LEMMA WaitHalt ==
  ASSUME WaitInv, LockTypeOK', NEW z \in Servers, Halt(z),
         NEW s \in Servers, NEW j \in Jobs
  PROVE  Waits(s, j)'
<1>1. CASE s = z
  <2>1. waited'[s][j] = 0
    BY <1>1 DEF Halt, WaitInv, LockTypeOK
  <2> QED BY <2>1, WaitStarts
<1>2. CASE s # z
  <2>1. /\ waited'[s] = waited[s] /\ timer'[s] = timer[s]
        /\ s \in up <=> s \in up'
        /\ left' = left
    BY <1>2 DEF Halt, WaitInv, LockTypeOK
  <2>2. \A r \in Runs : Overdue(r, s, j) => tick'[r] = tick[r]
    BY <1>2 DEF Halt, Overdue
  <2> QED BY <2>1, <2>2, WaitStays
<1> QED BY <1>1, <1>2

(* A timer fires: the new call asks by a clock that is not late at all.    *)
LEMMA WaitFire ==
  ASSUME WaitInv, LockTypeOK', NEW z \in Servers, NEW i \in Jobs, NEW q \in Runs,
         Fire(z, i, q), NEW s \in Servers, NEW j \in Jobs
  PROVE  Waits(s, j)'
<1>1. \A r \in Runs : Overdue(r, s, j) => tick'[r] = tick[r]
  BY DEF Fire, Overdue, Off, WaitInv, LockTypeOK
<1>2. CASE s # z \/ j # i
  <2>1. /\ waited' = waited /\ timer'[s][j] = timer[s][j]
        /\ up' = up /\ left' = left
    BY <1>2 DEF Fire, WaitInv, LockTypeOK
  <2> QED BY <1>1, <2>1, WaitStays
<1>3. CASE s = z /\ j = i
  <2>1. /\ waited' = waited /\ timer'[s][j] = Period /\ timer[s][j] = 0
        /\ up' = up /\ left' = left
    BY <1>3 DEF Fire, WaitInv, LockTypeOK
  <2>2. waited[s][j] \in Nat
    BY Numbers DEF WaitInv
  <2>3. CASE \E r \in Runs : Overdue(r, s, j)
    BY <1>1, <2>1, <2>3 DEF WaitInv, Waits, Overdue
  <2>4. CASE SoonTicks(s, j) /\ waited[s][j] >= Claim
    <3>1. tick'[q] = Asking(s, j)
      BY <1>3 DEF Fire, WaitInv, LockTypeOK
    <3>2. Overdue(q, s, j)'
      BY <2>1, <2>2, <2>4, <3>1, Lengths DEF Asking, Overdue, SoonTicks
    <3> QED BY <2>1, <3>2 DEF WaitInv, Waits
  <2>5. CASE waited[s][j] < Claim
    <3>1. SoonTicks(s, j)'
      BY <2>1, <2>2, <2>5, Lengths DEF SoonTicks
    <3> QED BY <2>1, <3>1 DEF WaitInv, Waits
  <2> QED BY <2>2, <2>3, <2>4, <2>5, Lengths DEF WaitInv, Waits
<1> QED BY <1>2, <1>3

LEMMA WaitBegin ==
  ASSUME WaitInv, LockTypeOK', NEW q \in Runs, BeginJob(q),
         NEW s \in Servers, NEW j \in Jobs
  PROVE  Waits(s, j)'
<1>1. tick[q].job \in Jobs
  BY TickShapes DEF BeginJob, Asks, Off, WaitInv, LockTypeOK
<1>2. CASE tick[q].job = j
  <2>1. waited'[s][j] = 0
    BY <1>1, <1>2 DEF BeginJob, WaitInv, LockTypeOK
  <2> QED BY <2>1, WaitStarts
<1>3. CASE tick[q].job # j
  <2>1. waited'[s][j] = waited[s][j]
    BY <1>3 DEF BeginJob, WaitInv, LockTypeOK
  <2>2. left'[j] = left[j] /\ up' = up /\ timer' = timer
    BY <1>1, <1>3 DEF BeginJob, WaitInv, LockTypeOK
  <2>3. \A r \in Runs : Overdue(r, s, j) => tick'[r] = tick[r]
    <3>1. \A r \in Runs : r # q => tick'[r] = tick[r]
      BY DEF BeginJob, WaitInv, LockTypeOK
    <3> QED BY <1>3, <3>1 DEF Overdue
  <2> QED BY <2>1, <2>2, <2>3, WaitStays
<1> QED BY <1>2, <1>3

(* A call that is overdue finds the lock expired.                          *)
LEMMA OverdueBegins ==
  ASSUME WaitInv, NEW q \in Runs, Collide(q), NEW s \in Servers, NEW j \in Jobs
  PROVE  ~Overdue(q, s, j)
<1> SUFFICES ASSUME Overdue(q, s, j) PROVE FALSE
  OBVIOUS
<1>1. /\ waited[s][j] \in Nat /\ left[j] \in Int
  BY Numbers DEF WaitInv
<1>2. tick[q].late \in 0..MaxLate
  BY TickShapes DEF Overdue, WaitInv, LockTypeOK, Off
<1>3. left[j] > -tick[q].late
  BY <1>1, <1>2, Lengths DEF Collide, Expired, Overdue
<1>4. left[j] + waited[s][j] <= Claim
  BY <1>1, <1>2, <1>3, Lengths DEF WaitInv, Waits
<1> QED BY <1>1, <1>2, <1>3, <1>4, Lengths DEF Overdue

LEMMA WaitEnds ==
  ASSUME WaitInv, LockTypeOK', NEW q \in Runs,
         Collide(q) \/ FailTick(q) \/ FinishJob(q),
         NEW s \in Servers, NEW j \in Jobs
  PROVE  Waits(s, j)'
<1>1. /\ \A r \in Runs : r # q => tick'[r] = tick[r]
      /\ up' = up /\ timer' = timer /\ left' = left
  BY DEF Collide, FailTick, FinishJob, WaitInv, LockTypeOK
<1>2. CASE Collide(q) \/ FinishJob(q)
  <2>1. ~Overdue(q, s, j)
    BY <1>2, OverdueBegins DEF FinishJob, Overdue
  <2>2. waited' = waited
    BY <1>2 DEF Collide, FinishJob
  <2> QED BY <1>1, <2>1, <2>2, WaitStays
<1>3. CASE FailTick(q) /\ tick[q].server = s /\ tick[q].job = j
  <2>1. waited'[s][j] = 0
    BY <1>3 DEF FailTick, WaitInv, LockTypeOK
  <2> QED BY <2>1, WaitStarts
<1>4. CASE FailTick(q) /\ ~(tick[q].server = s /\ tick[q].job = j)
  <2>1. tick[q].server \in Servers
    BY <1>4, TickShapes DEF FailTick, Asks, Off, WaitInv, LockTypeOK
  <2>2. waited'[s][j] = waited[s][j]
    BY <1>4, <2>1 DEF FailTick, WaitInv, LockTypeOK
  <2>3. ~Overdue(q, s, j)
    BY <1>4 DEF Overdue
  <2> QED BY <1>1, <2>2, <2>3, WaitStays
<1> QED BY <1>2, <1>3, <1>4

LEMMA WaitPassTime ==
  ASSUME WaitInv, LockTypeOK', PassTime, NEW s \in Servers, NEW j \in Jobs
  PROVE  Waits(s, j)'
<1>1. /\ waited[s][j] \in Nat /\ timer[s][j] \in 0..Period
      /\ left[j] \in Int /\ -MaxLate <= left[j] /\ left[j] <= Claim
  BY Numbers DEF WaitInv
<1>2. waited[s][j] <= Longest
  BY WaitIsBounded DEF NeverBlockedForLong
<1>3. left'[j] = IF left[j] > -MaxLate THEN left[j] - 1 ELSE left[j]
  BY DEF PassTime
<1>4. CASE s \notin up
  <2>1. waited'[s][j] = 0
    BY <1>4 DEF PassTime, WaitInv, Waits
  <2> QED BY <2>1, WaitStarts
<1>5. CASE s \in up
  <2>1. /\ waited'[s][j] = waited[s][j] + 1
        /\ timer'[s][j] = timer[s][j] - 1
        /\ up' = up
    BY <1>2, <1>5 DEF PassTime
  <2>2. left'[j] > -MaxLate => left'[j] + waited'[s][j] <= Claim
    BY <1>1, <1>3, <2>1, Lengths DEF WaitInv, Waits
  <2>3. CASE SoonTicks(s, j)
    <3>1. SoonTicks(s, j)'
      BY <1>1, <2>1, <2>3, Lengths DEF SoonTicks
    <3> QED BY <1>5, <2>1, <2>2, <3>1 DEF Waits
  <2>4. ASSUME NEW r \in Runs, Overdue(r, s, j)
        PROVE  Overdue(r, s, j)'
    <3>1. tick[r] \in [st : {"asks"}, server : Servers, job : Jobs, late : 0..MaxLate]
      BY <2>4 DEF Overdue, WaitInv, LockTypeOK, TickDocs, Off
    <3>2. tick'[r] = [tick[r] EXCEPT !.late = @ + 1]
      BY <2>4 DEF Overdue, PassTime
    <3>3. /\ tick'[r].st = "asks" /\ tick'[r].server = s /\ tick'[r].job = j
          /\ tick'[r].late = tick[r].late + 1 /\ tick[r].late \in Nat
      BY <2>4, <3>1, <3>2, Lengths DEF Overdue
    <3> QED BY <1>1, <2>1, <2>4, <3>3, Lengths DEF Overdue
  <2> QED BY <1>5, <2>1, <2>2, <2>3, <2>4 DEF WaitInv, Waits
<1> QED BY <1>4, <1>5

LEMMA WaitStep ==
  ASSUME WaitInv, [LockNext]_lockVars
  PROVE  WaitInv'
<1>1. LockTypeOK'
  BY LockKept DEF WaitInv
<1>2. ASSUME NEW s \in Servers, NEW j \in Jobs PROVE Waits(s, j)'
  <2>1. CASE \E z \in Servers : Boot(z)
    BY <1>1, <2>1, WaitBoot
  <2>2. CASE \E z \in Servers : Halt(z)
    BY <1>1, <2>2, WaitHalt
  <2>3. CASE \E z \in Servers, i \in Jobs, q \in Runs : Fire(z, i, q)
    BY <1>1, <2>3, WaitFire
  <2>4. CASE \E q \in Runs : BeginJob(q)
    BY <1>1, <2>4, WaitBegin
  <2>5. CASE \E q \in Runs : Collide(q) \/ FailTick(q) \/ FinishJob(q)
    BY <1>1, <2>5, WaitEnds
  <2>6. CASE PassTime
    BY <1>1, <2>6, WaitPassTime
  <2>7. CASE UNCHANGED lockVars
    BY <2>7, WaitStays DEF lockVars
  <2> QED BY <2>1, <2>2, <2>3, <2>4, <2>5, <2>6, <2>7 DEF LockNext
<1> QED BY <1>1, <1>2 DEF WaitInv

LEMMA WaitInit == LockInit => WaitInv
<1> SUFFICES ASSUME LockInit PROVE WaitInv
  OBVIOUS
<1>1. ASSUME NEW s \in Servers, NEW j \in Jobs PROVE Waits(s, j)
  <2>1. waited[s][j] = 0 /\ timer[s][j] = 0 /\ left[j] = -MaxLate
    BY DEF LockInit
  <2>2. SoonTicks(s, j)
    BY <2>1, Lengths DEF SoonTicks
  <2> QED BY <2>1, <2>2, Lengths DEF Waits
<1> QED BY <1>1, LockBegins DEF WaitInv

(* "A server that crashes mid-run never blocks the next one for long": on  *)
(* a server that stays up and reaches the database a job is begun within   *)
(* an interval, a claim and the lateness of one call (runExclusive).       *)
THEOREM NeverBlockedCorrect == LockSpec => []NeverBlockedForLong
<1>1. LockInit => WaitInv
  BY WaitInit
<1>2. WaitInv /\ [LockNext]_lockVars => WaitInv'
  BY WaitStep
<1>3. WaitInv => NeverBlockedForLong
  BY WaitIsBounded
<1> QED BY <1>1, <1>2, <1>3, PTL DEF LockSpec

-----------------------------------------------------------------------------
(* What a request or sweep can be doing.                                   *)
WorkerDocs ==
  {Idling, Stopped}
    \cup [st : {"try", "failed"}, again : BOOLEAN, sweep : BOOLEAN]
    \cup [st : {"hold"}, again : BOOLEAN, sweep : BOOLEAN, had : Nat]
    \cup [st : {"done"}, again : BOOLEAN, sweep : BOOLEAN, n : Nat, had : Nat]
    \cup [st : {"look"}, sweep : BOOLEAN]

GraceTyped ==
  /\ GraceTypeOK
  /\ worker \in [Workers -> WorkerDocs]
  /\ through \in BOOLEAN /\ lost \in BOOLEAN

(* Whatever is over the Free plan can still be put away.                   *)
RoomToShelve == shelved + Excess <= MaxShelved

(* Whoever holds the workspace took it as it is now: nobody else records.  *)
HeldAsTaken ==
  \A w \in Workers : plan.hold = w /\ worker[w].st \in {"hold", "done"} =>
    /\ worker[w].had = plan.archived
    /\ worker[w].again = plan.enforced

(* What the holder has archived is shelved already.                        *)
HolderShelved ==
  \A w \in Workers : plan.hold = w /\ DoesWork(w, "done") =>
    plan.archived + worker[w].n <= shelved

(* An archival that somebody else than the holder has yet to record.       *)
Stray(w) == Unrecorded(w) /\ plan.hold # w

(* Unless a record was lost or will be, all that was shelved is recorded   *)
(* or about to be.                                                         *)
HolderBalance ==
  ~plan.paid /\ ~lost /\ (\A w \in Workers : ~Stray(w)) =>
    /\ \A w \in Workers : plan.hold = w /\ DoesWork(w, "done") =>
         plan.archived + worker[w].n = shelved
    /\ (\A w \in Workers : plan.hold = w => ~DoesWork(w, "done")) =>
         plan.archived = shelved

Summary ==
  /\ plan.enforced => through
  /\ ~plan.paid => \A w \in Workers : DoesWork(w, "done") => through
  /\ plan.archived <= shelved
  /\ ~plan.enforced => plan.archived = 0

GraceInv ==
  /\ GraceTyped /\ PaidIsClean /\ RoomToShelve
  /\ Summary /\ HeldAsTaken /\ HolderShelved /\ HolderBalance

-----------------------------------------------------------------------------
LEMMA GraceNumbers ==
  /\ MaxWork \in Nat /\ FreeWork \in Nat /\ FreeWork <= MaxWork
  /\ MaxShelved \in Nat /\ MaxWork - FreeWork <= MaxShelved
  /\ NoHold \notin Workers
BY GraceAssumption, NobodyAssumption DEF GraceAssumption, NobodyAssumption

LEMMA WorkerShapes ==
  ASSUME NEW q \in WorkerDocs
  PROVE  \/ q = Idling \/ q = Stopped
         \/ q.st \in {"try", "failed"} /\ q.again \in BOOLEAN /\ q.sweep \in BOOLEAN
         \/ q.st = "hold" /\ q.again \in BOOLEAN /\ q.sweep \in BOOLEAN /\ q.had \in Nat
         \/ /\ q.st = "done" /\ q.again \in BOOLEAN /\ q.sweep \in BOOLEAN
            /\ q.n \in Nat /\ q.had \in Nat
         \/ q.st = "look" /\ q.sweep \in BOOLEAN
BY DEF WorkerDocs, Idling, Stopped

LEMMA GraceBegins == GraceInit => GraceInv
<1> SUFFICES ASSUME GraceInit PROVE GraceInv
  OBVIOUS
<1> USE GraceNumbers
<1>1. GraceTyped
  <2>1. plan \in PlanDocs /\ 0 \in 0..MaxShelved
    BY DEF GraceInit, PlanDocs
  <2>2. Idling \in WorkerDocs
    BY DEF WorkerDocs
  <2>3. worker \in [Workers -> WorkerDocs]
    BY <2>2 DEF GraceInit
  <2> QED BY <2>1, <2>3 DEF GraceInit, GraceTyped, GraceTypeOK
<1>2. PaidIsClean /\ Summary
  BY DEF GraceInit, PaidIsClean, Summary, DoesWork, Idling
<1>3. RoomToShelve
  BY DEF GraceInit, RoomToShelve, Excess, Over
<1>4. HeldAsTaken /\ HolderShelved /\ HolderBalance
  BY DEF GraceInit, HeldAsTaken, HolderShelved, HolderBalance, DoesWork, Idling
<1> QED BY <1>1, <1>2, <1>3, <1>4 DEF GraceInv

(* Steps of the workspace: the workers go on as they were.                 *)
LEMMA PlanEndsInv == GraceInv /\ PlanEnds => GraceInv'
<1> SUFFICES ASSUME GraceInv, PlanEnds PROVE GraceInv'
  OBVIOUS
<1> USE GraceNumbers
<1>1. plan' = [paid |-> FALSE, grace |-> "running", enforced |-> FALSE, hold |-> NoHold,
               stale |-> FALSE, archived |-> 0]
  BY DEF PlanEnds, Cleared, GraceInv, GraceTyped, GraceTypeOK, PlanDocs
<1>2. /\ shelved' = 0 /\ through' = FALSE /\ lost' = FALSE
      /\ work' = work /\ worker' = worker /\ work \in 0..MaxWork
      /\ worker \in [Workers -> WorkerDocs]
  BY DEF PlanEnds, GraceInv, GraceTyped, GraceTypeOK
<1>3. \A w \in Workers : worker[w] \in {Idling, Stopped}
  BY DEF PlanEnds, Engaged
<1>4. GraceTyped'
  <2>1. plan' \in PlanDocs /\ 0 \in 0..MaxShelved
    BY <1>1 DEF PlanDocs
  <2> QED BY <1>2, <2>1 DEF GraceTyped, GraceTypeOK
<1>5. RoomToShelve'
  BY <1>2 DEF RoomToShelve, Excess, Over
<1>6. PaidIsClean' /\ Summary'
  BY <1>1, <1>2, <1>3 DEF PaidIsClean, Summary, DoesWork, Idling, Stopped
<1>7. HeldAsTaken' /\ HolderShelved' /\ HolderBalance'
  BY <1>1, <1>2, <1>3 DEF HeldAsTaken, HolderShelved, HolderBalance
<1> QED BY <1>4, <1>5, <1>6, <1>7 DEF GraceInv

LEMMA RenewInv == GraceInv /\ Renew => GraceInv'
<1> SUFFICES ASSUME GraceInv, Renew PROVE GraceInv'
  OBVIOUS
<1> USE GraceNumbers
<1>1. plan' = [paid |-> TRUE, grace |-> "none", enforced |-> FALSE, hold |-> NoHold,
               stale |-> FALSE, archived |-> 0]
  BY DEF Renew, Cleared, GraceInv, GraceTyped, GraceTypeOK, PlanDocs
<1>2. /\ shelved' = 0 /\ through' = FALSE /\ lost' = FALSE
      /\ work' = work /\ worker' = worker /\ work \in 0..MaxWork
      /\ worker \in [Workers -> WorkerDocs]
  BY DEF Renew, GraceInv, GraceTyped, GraceTypeOK
<1>4. GraceTyped'
  <2>1. plan' \in PlanDocs /\ 0 \in 0..MaxShelved
    BY <1>1 DEF PlanDocs
  <2> QED BY <1>2, <2>1 DEF GraceTyped, GraceTypeOK
<1>5. RoomToShelve'
  BY <1>2 DEF RoomToShelve, Excess, Over
<1>6. PaidIsClean' /\ Summary'
  BY <1>1, <1>2 DEF PaidIsClean, Summary
<1>7. HeldAsTaken' /\ HolderShelved' /\ HolderBalance'
  BY <1>1, <1>2 DEF HeldAsTaken, HolderShelved, HolderBalance
<1> QED BY <1>4, <1>5, <1>6, <1>7 DEF GraceInv

(* Nothing but the work, the clock or the age of the hold changes.         *)
LEMMA SamePlanInv ==
  ASSUME GraceInv, UNCHANGED <<worker, shelved, through, lost>>,
         work' \in 0..MaxWork, RoomToShelve', plan' \in PlanDocs,
         plan'.paid = plan.paid, plan'.enforced = plan.enforced,
         plan'.hold = plan.hold, plan'.archived = plan.archived,
         plan'.grace = plan.grace \/ ~plan.paid
  PROVE  GraceInv'
<1>1. GraceTyped'
  BY DEF GraceInv, GraceTyped, GraceTypeOK
<1>2. PaidIsClean' /\ Summary'
  BY DEF GraceInv, PaidIsClean, Summary, DoesWork
<1>3. HeldAsTaken' /\ HolderShelved'
  BY DEF GraceInv, HeldAsTaken, HolderShelved, DoesWork
<1>4. \A w \in Workers : Stray(w)' <=> Stray(w)
  BY DEF Stray, Unrecorded, DoesWork
<1>5. HolderBalance'
  BY <1>4 DEF GraceInv, HolderBalance, DoesWork
<1> QED BY <1>1, <1>2, <1>3, <1>5 DEF GraceInv

LEMMA WorkspaceInv ==
  ASSUME GraceInv, GraceEnds \/ HoldStale \/ AddWork \/ RestoreWork \/ RemoveWork
  PROVE  GraceInv'
<1> USE GraceNumbers
<1>0. /\ work \in 0..MaxWork /\ shelved \in Nat /\ plan \in PlanDocs
      /\ shelved + Excess <= MaxShelved
      /\ plan.paid => shelved = 0 /\ plan.grace = "none"
  BY DEF GraceInv, GraceTyped, GraceTypeOK, RoomToShelve, PaidIsClean
<1>1. CASE GraceEnds
  <2>1. plan' \in PlanDocs /\ RoomToShelve'
    BY <1>0, <1>1 DEF GraceEnds, PlanDocs, RoomToShelve, Excess, Over
  <2>2. ~plan.paid
    BY <1>0, <1>1 DEF GraceEnds
  <2> QED BY <1>0, <1>1, <2>1, <2>2, SamePlanInv DEF GraceEnds, PlanDocs
<1>2. CASE HoldStale
  <2>1. plan' \in PlanDocs /\ RoomToShelve'
    BY <1>0, <1>2 DEF HoldStale, PlanDocs, RoomToShelve, Excess, Over
  <2> QED BY <1>0, <1>2, <2>1, SamePlanInv DEF HoldStale, PlanDocs
<1>3. CASE AddWork
  <2>1. work' \in 0..MaxWork /\ RoomToShelve'
    BY <1>0, <1>3 DEF AddWork, Room, RoomToShelve, Excess, Over
  <2> QED BY <1>0, <1>3, <2>1, SamePlanInv DEF AddWork
<1>4. CASE RestoreWork
  <2>1. work' \in 0..MaxWork /\ RoomToShelve'
    BY <1>0, <1>4 DEF RestoreWork, RoomToShelve, Excess, Over
  <2> QED BY <1>0, <1>4, <2>1, SamePlanInv DEF RestoreWork
<1>5. CASE RemoveWork
  <2>1. work' \in 0..MaxWork /\ RoomToShelve'
    BY <1>0, <1>5 DEF RemoveWork, RoomToShelve, Excess, Over
  <2> QED BY <1>0, <1>5, <2>1, SamePlanInv DEF RemoveWork
<1> QED BY <1>1, <1>2, <1>3, <1>4, <1>5

-----------------------------------------------------------------------------
(* Steps of one request or sweep.                                          *)
LEMMA AfterTyped ==
  ASSUME NEW w \in Workers, worker[w].sweep \in BOOLEAN, NEW ran
  PROVE  After(w, ran) \in WorkerDocs /\ After(w, ran).st \notin {"hold", "done"}
BY DEF After, WorkerDocs, Idling

LEMMA WorkerTyped ==
  ASSUME GraceInv, NEW w \in Workers, NEW q \in WorkerDocs, Carries(w, q)
  PROVE  /\ worker' \in [Workers -> WorkerDocs]
         /\ worker'[w] = q
         /\ \A x \in Workers : x # w => worker'[x] = worker[x]
BY DEF Carries, GraceInv, GraceTyped

(* It goes on with nothing in hand, and what it leaves unrecorded is lost. *)
LEMMA EmptyHandedInv ==
  ASSUME GraceInv, NEW w \in Workers, NEW q \in WorkerDocs, Carries(w, q),
         q.st \notin {"hold", "done"}, UNCHANGED <<work, plan, shelved, through>>,
         lost' = (lost \/ Unrecorded(w))
  PROVE  GraceInv'
<1>0. /\ worker' \in [Workers -> WorkerDocs]
      /\ worker'[w] = q
      /\ \A x \in Workers : x # w => worker'[x] = worker[x]
  BY WorkerTyped
<1>1. GraceTyped'
  BY <1>0 DEF GraceInv, GraceTyped, GraceTypeOK, Unrecorded, DoesWork
<1>2. PaidIsClean' /\ Summary' /\ RoomToShelve'
  BY <1>0 DEF GraceInv, PaidIsClean, Summary, DoesWork, RoomToShelve, Excess, Over
<1>3. HeldAsTaken' /\ HolderShelved'
  BY <1>0 DEF GraceInv, HeldAsTaken, HolderShelved, DoesWork
<1>4. HolderBalance'
  <2> SUFFICES ASSUME ~plan.paid, ~lost, ~Unrecorded(w), \A x \in Workers : ~Stray(x)'
      PROVE  /\ \A x \in Workers : plan.hold = x /\ DoesWork(x, "done")' =>
                  plan.archived + worker'[x].n = shelved
             /\ (\A x \in Workers : plan.hold = x => ~DoesWork(x, "done")') =>
                  plan.archived = shelved
    BY DEF HolderBalance, DoesWork
  <2>1. \A x \in Workers : ~Stray(x)
    BY <1>0 DEF Stray, Unrecorded, DoesWork
  <2>2. /\ \A x \in Workers : plan.hold = x /\ DoesWork(x, "done") =>
             plan.archived + worker[x].n = shelved
        /\ (\A x \in Workers : plan.hold = x => ~DoesWork(x, "done")) =>
             plan.archived = shelved
    BY <2>1 DEF GraceInv, HolderBalance
  <2>3. \A x \in Workers : plan.hold = x /\ DoesWork(x, "done")' =>
          plan.archived + worker'[x].n = shelved
    BY <1>0, <2>2 DEF DoesWork
  <2>4. ASSUME \A x \in Workers : plan.hold = x => ~DoesWork(x, "done")'
        PROVE  plan.archived = shelved
    <3>1. CASE plan.hold = w /\ DoesWork(w, "done")
      <4>1. worker[w].n = 0
        BY <3>1, WorkerShapes DEF GraceInv, GraceTyped, Unrecorded, DoesWork, Idling, Stopped
      <4>2. plan.archived + worker[w].n = shelved
        BY <2>2, <3>1
      <4>3. plan.archived \in Int
        BY DEF GraceInv, GraceTyped, GraceTypeOK, PlanDocs
      <4> QED BY <4>1, <4>2, <4>3
    <3>2. CASE ~(plan.hold = w /\ DoesWork(w, "done"))
      BY <1>0, <2>2, <2>4, <3>2 DEF DoesWork
    <3> QED BY <3>1, <3>2
  <2> QED BY <2>3, <2>4
<1> QED BY <1>1, <1>2, <1>3, <1>4 DEF GraceInv

LEMMA EmptyHandedSteps ==
  ASSUME GraceInv, NEW w \in Workers,
         \/ \E sweep \in BOOLEAN : Enforce(w, sweep)
         \/ NoHoldForMe(w) \/ LookAgain(w) \/ RestartWorker(w) \/ GoesWrong(w)
  PROVE  GraceInv'
<1>0. worker[w] \in WorkerDocs /\ lost \in BOOLEAN
  BY DEF GraceInv, GraceTyped
<1>1. ASSUME NEW sweep \in BOOLEAN, Enforce(w, sweep) PROVE GraceInv'
  <2>1. [st |-> "try", again |-> FALSE, sweep |-> sweep] \in WorkerDocs
    BY DEF WorkerDocs
  <2>2. ~Unrecorded(w)
    BY <1>1 DEF Enforce, Unrecorded, DoesWork, Idling
  <2> QED BY <1>0, <1>1, <2>1, <2>2, EmptyHandedInv DEF Enforce
<1>2. CASE NoHoldForMe(w)
  <2>0. worker[w].sweep \in BOOLEAN
    BY <1>0, <1>2, WorkerShapes DEF NoHoldForMe, DoesWork, Idling, Stopped
  <2>1. After(w, FALSE) \in WorkerDocs /\ After(w, FALSE).st \notin {"hold", "done"}
    BY <2>0, AfterTyped
  <2>2. ~Unrecorded(w)
    BY <1>2 DEF NoHoldForMe, Unrecorded, DoesWork
  <2> QED BY <1>0, <1>2, <2>1, <2>2, EmptyHandedInv DEF NoHoldForMe
<1>3. CASE LookAgain(w)
  <2>1. worker[w].sweep \in BOOLEAN /\ ~Unrecorded(w)
    BY <1>0, <1>3, WorkerShapes DEF LookAgain, Unrecorded, DoesWork, Idling, Stopped
  <2>2. [st |-> "try", again |-> TRUE, sweep |-> worker[w].sweep] \in WorkerDocs
        /\ Idling \in WorkerDocs
    BY <2>1 DEF WorkerDocs
  <2> QED BY <1>0, <1>3, <2>1, <2>2, EmptyHandedInv DEF LookAgain, Idling
<1>4. CASE RestartWorker(w)
  <2>1. ~Unrecorded(w)
    BY <1>4 DEF RestartWorker, Unrecorded, DoesWork, Stopped
  <2>2. Idling \in WorkerDocs
    BY DEF WorkerDocs
  <2> QED BY <1>0, <1>4, <2>1, <2>2, EmptyHandedInv DEF RestartWorker, Idling
<1>5. CASE FailArchival(w)
  <2>1. worker[w].again \in BOOLEAN /\ worker[w].sweep \in BOOLEAN
    BY <1>0, <1>5, WorkerShapes DEF FailArchival, Idling, Stopped
  <2>2. [st |-> "failed", again |-> worker[w].again, sweep |-> worker[w].sweep] \in WorkerDocs
    BY <2>1 DEF WorkerDocs
  <2> QED BY <1>5, <2>2, EmptyHandedInv DEF FailArchival
<1>6. CASE CrashWorker(w)
  <2>1. Stopped \in WorkerDocs
    BY DEF WorkerDocs
  <2> QED BY <1>6, <2>1, EmptyHandedInv DEF CrashWorker, Stopped
<1> QED BY <1>1, <1>2, <1>3, <1>4, <1>5, <1>6 DEF GoesWrong

LEMMA ReleaseHoldInv ==
  ASSUME GraceInv, NEW w \in Workers, ReleaseHold(w)
  PROVE  GraceInv'
<1> USE GraceNumbers
<1>0. /\ worker[w] \in WorkerDocs /\ worker[w].st = "failed" /\ plan \in PlanDocs
      /\ worker[w].sweep \in BOOLEAN
  BY WorkerShapes DEF ReleaseHold, DoesWork, GraceInv, GraceTyped, GraceTypeOK, Idling, Stopped
<1>1. After(w, FALSE) \in WorkerDocs /\ After(w, FALSE).st \notin {"hold", "done"}
  BY <1>0, AfterTyped
<1>2. /\ worker' \in [Workers -> WorkerDocs]
      /\ worker'[w] = After(w, FALSE)
      /\ \A x \in Workers : x # w => worker'[x] = worker[x]
  BY <1>1, WorkerTyped DEF ReleaseHold
<1>3. /\ plan' \in PlanDocs /\ plan'.paid = plan.paid /\ plan'.grace = plan.grace
      /\ plan'.enforced = plan.enforced /\ plan'.archived = plan.archived
      /\ plan'.hold = IF plan.hold = w THEN NoHold ELSE plan.hold
  BY <1>0 DEF ReleaseHold, PlanDocs
<1>4. work' = work /\ shelved' = shelved /\ through' = through /\ lost' = lost
  BY DEF ReleaseHold
<1>5. GraceTyped'
  BY <1>2, <1>3, <1>4 DEF GraceInv, GraceTyped, GraceTypeOK
<1>6. PaidIsClean' /\ RoomToShelve'
  BY <1>3, <1>4 DEF GraceInv, PaidIsClean, RoomToShelve, Excess, Over
<1>7. Summary'
  BY <1>1, <1>2, <1>3, <1>4 DEF GraceInv, Summary, DoesWork
<1>8. HeldAsTaken' /\ HolderShelved'
  BY <1>1, <1>2, <1>3, <1>4 DEF GraceInv, HeldAsTaken, HolderShelved, DoesWork
<1>9. HolderBalance'
  <2>1. \A x \in Workers : Stray(x)' <=> Stray(x)
    BY <1>0, <1>1, <1>2, <1>3 DEF Stray, Unrecorded, DoesWork
  <2>2. \A x \in Workers : plan'.hold = x /\ DoesWork(x, "done")' <=>
                           plan.hold = x /\ DoesWork(x, "done")
    BY <1>0, <1>1, <1>2, <1>3 DEF DoesWork
  <2>3. \A x \in Workers : DoesWork(x, "done") => worker'[x] = worker[x]
    BY <1>0, <1>2 DEF DoesWork
  <2> QED BY <1>3, <1>4, <2>1, <2>2, <2>3 DEF GraceInv, HolderBalance
<1> QED BY <1>5, <1>6, <1>7, <1>8, <1>9 DEF GraceInv

LEMMA TakeHoldInv ==
  ASSUME GraceInv, NEW w \in Workers, TakeHold(w)
  PROVE  GraceInv'
<1> USE GraceNumbers
<1> DEFINE q == [st |-> "hold", again |-> worker[w].again, sweep |-> worker[w].sweep,
                 had |-> plan.archived]
<1>0. /\ worker[w] \in WorkerDocs /\ worker[w].st = "try" /\ plan \in PlanDocs
      /\ worker[w].sweep \in BOOLEAN /\ worker[w].again \in BOOLEAN
      /\ plan.archived \in Nat /\ ~plan.paid /\ plan.enforced = worker[w].again
  BY WorkerShapes
     DEF TakeHold, DoesWork, Holdable, Due, GraceInv, GraceTyped, GraceTypeOK, PlanDocs,
         Idling, Stopped
<1>1. q \in WorkerDocs
  BY <1>0 DEF WorkerDocs
<1>2. /\ worker' \in [Workers -> WorkerDocs]
      /\ worker'[w] = q
      /\ \A x \in Workers : x # w => worker'[x] = worker[x]
  BY <1>1, WorkerTyped DEF TakeHold
<1>3. /\ plan' \in PlanDocs /\ plan'.paid = plan.paid /\ plan'.grace = plan.grace
      /\ plan'.enforced = plan.enforced /\ plan'.archived = plan.archived
      /\ plan'.hold = w
  BY <1>0 DEF TakeHold, PlanDocs
<1>4. work' = work /\ shelved' = shelved /\ through' = through /\ lost' = lost
  BY DEF TakeHold
<1>5. GraceTyped'
  BY <1>2, <1>3, <1>4 DEF GraceInv, GraceTyped, GraceTypeOK
<1>6. PaidIsClean' /\ RoomToShelve'
  BY <1>0, <1>3, <1>4 DEF GraceInv, PaidIsClean, RoomToShelve, Excess, Over
<1>7. Summary'
  BY <1>0, <1>2, <1>3, <1>4 DEF GraceInv, Summary, DoesWork
<1>8. HeldAsTaken' /\ HolderShelved'
  BY <1>0, <1>2, <1>3, <1>4 DEF GraceInv, HeldAsTaken, HolderShelved, DoesWork
<1>9. HolderBalance'
  <2>1. ~DoesWork(w, "done") /\ ~DoesWork(w, "done")'
    BY <1>0, <1>2 DEF DoesWork
  <2>2. \A x \in Workers : Stray(x) => Stray(x)'
    BY <1>2, <1>3, <2>1 DEF Stray, Unrecorded, DoesWork
  <2>3. SUFFICES ASSUME ~lost, \A x \in Workers : ~Stray(x)' PROVE plan.archived = shelved
    BY <1>2, <1>3, <1>4, <2>1 DEF HolderBalance
  <2>4. \A x \in Workers : plan.hold = x /\ DoesWork(x, "done") =>
          worker[x].n = 0 /\ plan.archived + worker[x].n = shelved
    <3>1. \A x \in Workers : plan.hold = x /\ DoesWork(x, "done") =>
            x # w /\ ~Unrecorded(x)
      BY <1>2, <1>3, <2>1, <2>3 DEF Stray, Unrecorded, DoesWork
    <3>2. \A x \in Workers : DoesWork(x, "done") => worker[x].n \in Nat
      BY WorkerShapes DEF DoesWork, GraceInv, GraceTyped, Idling, Stopped
    <3> QED BY <1>0, <2>2, <2>3, <3>1, <3>2 DEF GraceInv, HolderBalance, Unrecorded
  <2>5. (\A x \in Workers : plan.hold = x => ~DoesWork(x, "done")) => plan.archived = shelved
    BY <1>0, <2>2, <2>3 DEF GraceInv, HolderBalance
  <2> QED BY <1>0, <2>4, <2>5
<1> QED BY <1>5, <1>6, <1>7, <1>8, <1>9 DEF GraceInv

LEMMA ArchiveExcessInv ==
  ASSUME GraceInv, NEW w \in Workers, ArchiveExcess(w)
  PROVE  GraceInv'
<1> USE GraceNumbers
<1> DEFINE q == [st |-> "done", again |-> worker[w].again, sweep |-> worker[w].sweep,
                 n |-> Archivable, had |-> worker[w].had]
<1>0. /\ worker[w] \in WorkerDocs /\ worker[w].st = "hold" /\ plan \in PlanDocs
      /\ worker[w].sweep \in BOOLEAN /\ worker[w].again \in BOOLEAN
      /\ worker[w].had \in Nat /\ plan.archived \in Nat
      /\ work \in 0..MaxWork /\ shelved \in Nat
  BY WorkerShapes
     DEF ArchiveExcess, DoesWork, GraceInv, GraceTyped, GraceTypeOK, PlanDocs, Idling, Stopped
<1>1. /\ Archivable \in Nat /\ (plan.paid => Archivable = 0)
      /\ work - Archivable \in 0..MaxWork
      /\ (shelved + Excess <= MaxShelved) =>
           /\ shelved + Archivable <= MaxShelved
           /\ work - Archivable > FreeWork =>
                shelved + Archivable + (work - Archivable - FreeWork) <= MaxShelved
  BY <1>0 DEF Archivable, Excess, Over
<1>a. q \in WorkerDocs
  BY <1>0, <1>1 DEF WorkerDocs
<1>2. /\ worker' \in [Workers -> WorkerDocs]
      /\ worker'[w] = q
      /\ \A x \in Workers : x # w => worker'[x] = worker[x]
  BY <1>a, WorkerTyped DEF ArchiveExcess
<1>3. /\ plan' = plan /\ lost' = lost /\ through' = TRUE
      /\ work' = work - Archivable /\ shelved' = shelved + Archivable
  BY DEF ArchiveExcess
<1> HIDE DEF q
<1>q. q.st = "done" /\ q.n = Archivable /\ q.had = worker[w].had /\ q.again = worker[w].again
  BY DEF q
<1>5. GraceTyped' /\ RoomToShelve'
  <2>1. shelved' \in 0..MaxShelved
    BY <1>0, <1>1, <1>3 DEF GraceInv, RoomToShelve
  <2>2. RoomToShelve'
    BY <1>0, <1>1, <1>3, <2>1 DEF GraceInv, RoomToShelve, Excess, Over
  <2> QED BY <1>1, <1>2, <1>3, <2>1, <2>2 DEF GraceInv, GraceTyped, GraceTypeOK
<1>6. PaidIsClean'
  BY <1>0, <1>1, <1>3 DEF GraceInv, PaidIsClean
<1>7. Summary'
  BY <1>0, <1>1, <1>3 DEF GraceInv, Summary, DoesWork
<1>8. HeldAsTaken' /\ HolderShelved'
  <2>1. HeldAsTaken'
    BY <1>0, <1>2, <1>3, <1>q DEF GraceInv, HeldAsTaken, DoesWork
  <2>2. ASSUME NEW x \in Workers, plan.hold = x, DoesWork(x, "done")'
        PROVE  plan.archived + worker'[x].n <= shelved'
    <3>1. CASE x = w
      BY <1>0, <1>1, <1>2, <1>3, <1>q, <3>1 DEF GraceInv, Summary
    <3>2. CASE x # w
      <4>1. worker'[x] = worker[x] /\ worker[x].n \in Nat
        BY <1>2, <2>2, <3>2, WorkerShapes
           DEF DoesWork, GraceInv, GraceTyped, Idling, Stopped
      <4>2. plan.archived + worker[x].n <= shelved
        BY <2>2, <4>1 DEF GraceInv, HolderShelved, DoesWork
      <4> QED BY <1>0, <1>1, <1>3, <4>1, <4>2
    <3> QED BY <3>1, <3>2
  <2> QED BY <1>3, <2>1, <2>2 DEF HolderShelved, DoesWork
<1>9. HolderBalance'
  <2>0. ~DoesWork(w, "done") /\ DoesWork(w, "done")'
    BY <1>0, <1>2, <1>q DEF DoesWork
  <2>1. SUFFICES ASSUME ~plan.paid, ~lost, \A x \in Workers : ~Stray(x)'
        PROVE  /\ \A x \in Workers : plan.hold = x /\ DoesWork(x, "done")' =>
                    plan.archived + worker'[x].n = shelved'
               /\ (\A x \in Workers : plan.hold = x => ~DoesWork(x, "done")') =>
                    plan.archived = shelved'
    BY <1>3 DEF HolderBalance, DoesWork
  <2>2. \A x \in Workers : ~Stray(x)
    BY <1>2, <1>3, <2>0, <2>1 DEF Stray, Unrecorded, DoesWork
  <2>3. /\ \A x \in Workers : plan.hold = x /\ DoesWork(x, "done") =>
             plan.archived + worker[x].n = shelved
        /\ (\A x \in Workers : plan.hold = x => ~DoesWork(x, "done")) =>
             plan.archived = shelved
    BY <2>1, <2>2 DEF GraceInv, HolderBalance
  <2>4. CASE plan.hold = w
    <3>1. plan.archived = shelved
      BY <2>0, <2>3, <2>4
    <3> QED BY <1>0, <1>1, <1>2, <1>3, <1>q, <2>0, <2>4, <3>1
  <2>5. CASE plan.hold # w
    <3>1. Archivable = 0
      BY <1>0, <1>1, <1>2, <1>3, <1>q, <2>0, <2>1, <2>5 DEF Stray, Unrecorded
    <3>2. shelved' = shelved
      BY <1>0, <1>3, <3>1
    <3> QED BY <1>2, <2>3, <2>5, <3>2 DEF DoesWork
  <2> QED BY <2>4, <2>5
<1> QED BY <1>5, <1>6, <1>7, <1>8, <1>9 DEF GraceInv

LEMMA RecordArchivalInv ==
  ASSUME GraceInv, NEW w \in Workers, RecordArchival(w)
  PROVE  GraceInv'
<1> USE GraceNumbers
<1>0. /\ worker[w] \in WorkerDocs /\ worker[w].st = "done" /\ plan \in PlanDocs
      /\ worker[w].sweep \in BOOLEAN /\ worker[w].again \in BOOLEAN
      /\ worker[w].n \in Nat /\ plan.archived \in Nat /\ plan.enforced \in BOOLEAN
  BY WorkerShapes
     DEF RecordArchival, DoesWork, GraceInv, GraceTyped, GraceTypeOK, PlanDocs, Idling, Stopped
<1>1. CASE ~Mine(w)
  <2>1. After(w, FALSE) \in WorkerDocs /\ After(w, FALSE).st \notin {"hold", "done"}
    BY <1>0, AfterTyped
  <2>2. Mine(w) = FALSE
    BY <1>1 DEF Mine, Due
  <2>3. Carries(w, After(w, FALSE)) /\ lost' = (lost \/ Unrecorded(w))
    BY <1>0, <1>1, <2>2 DEF RecordArchival, Unrecorded, DoesWork
  <2> QED BY <1>1, <2>1, <2>3, EmptyHandedInv DEF RecordArchival
<1>2. CASE Mine(w)
  <2>1. /\ After(w, Mine(w)) \in WorkerDocs
        /\ After(w, Mine(w)).st \notin {"hold", "done"}
    BY <1>0, AfterTyped
  <2>2. /\ worker' \in [Workers -> WorkerDocs]
        /\ worker'[w] = After(w, Mine(w))
        /\ \A x \in Workers : x # w => worker'[x] = worker[x]
    BY <2>1, WorkerTyped DEF RecordArchival
  <2>3. /\ ~plan.paid /\ plan.hold = w /\ plan' = Recorded(w) /\ lost' = lost
        /\ work' = work /\ shelved' = shelved /\ through' = through
    BY <1>2 DEF RecordArchival, Mine, Due
  <2>4. /\ worker[w].had = plan.archived /\ worker[w].again = plan.enforced
        /\ ~plan.enforced => plan.archived = 0
        /\ plan.archived + worker[w].n <= shelved /\ through /\ shelved \in 0..MaxShelved
    BY <1>0, <2>3
       DEF GraceInv, HeldAsTaken, HolderShelved, Summary, DoesWork, GraceTyped, GraceTypeOK
  <2>5. worker[w].n + (IF worker[w].again THEN worker[w].had ELSE 0)
          = plan.archived + worker[w].n
    BY <1>0, <2>4
  <2>6. /\ plan' \in PlanDocs /\ ~plan'.paid /\ plan'.enforced /\ plan'.hold = NoHold
        /\ plan'.archived = plan.archived + worker[w].n
    <3>1. plan.archived + worker[w].n \in 0..MaxShelved
      BY <1>0, <2>4
    <3>2. plan' = [plan EXCEPT !.hold = NoHold, !.stale = FALSE, !.enforced = TRUE,
                               !.archived = plan.archived + worker[w].n]
      BY <2>3, <2>5 DEF Recorded
    <3> QED BY <1>0, <2>3, <3>1, <3>2 DEF PlanDocs
  <2>7. GraceTyped' /\ RoomToShelve' /\ PaidIsClean'
    BY <2>2, <2>3, <2>6
       DEF GraceInv, GraceTyped, GraceTypeOK, RoomToShelve, Excess, Over, PaidIsClean
  <2>8. Summary' /\ HeldAsTaken' /\ HolderShelved'
    BY <2>3, <2>4, <2>6 DEF Summary, HeldAsTaken, HolderShelved
  <2>9. HolderBalance'
    <3> SUFFICES ASSUME ~lost, \A x \in Workers : ~Stray(x)' PROVE plan'.archived = shelved
      BY <2>3, <2>6 DEF HolderBalance
    <3>1. \A x \in Workers : ~Stray(x)
      BY <2>2, <2>3, <2>6 DEF Stray, Unrecorded, DoesWork
    <3> QED BY <1>0, <2>3, <2>6, <3>1 DEF GraceInv, HolderBalance, DoesWork
  <2> QED BY <2>7, <2>8, <2>9 DEF GraceInv
<1> QED BY <1>1, <1>2

LEMMA GraceStep == GraceInv /\ [GraceNext]_graceVars => GraceInv'
<1> SUFFICES ASSUME GraceInv, [GraceNext]_graceVars PROVE GraceInv'
  OBVIOUS
<1>1. CASE PlanEnds
  BY <1>1, PlanEndsInv
<1>2. CASE Renew
  BY <1>2, RenewInv
<1>3. CASE GraceEnds \/ HoldStale \/ AddWork \/ RestoreWork \/ RemoveWork
  BY <1>3, WorkspaceInv
<1>4. ASSUME NEW w \in Workers,
             Goes(w) \/ GoesWrong(w) \/ \E sweep \in BOOLEAN : Enforce(w, sweep)
      PROVE  GraceInv'
  <2>1. CASE TakeHold(w)
    BY <2>1, TakeHoldInv
  <2>2. CASE ArchiveExcess(w)
    BY <2>2, ArchiveExcessInv
  <2>3. CASE RecordArchival(w)
    BY <2>3, RecordArchivalInv
  <2>4. CASE ReleaseHold(w)
    BY <2>4, ReleaseHoldInv
  <2>5. CASE \/ \E sweep \in BOOLEAN : Enforce(w, sweep)
             \/ NoHoldForMe(w) \/ LookAgain(w) \/ RestartWorker(w) \/ GoesWrong(w)
    BY <2>5, EmptyHandedSteps
  <2> QED BY <1>4, <2>1, <2>2, <2>3, <2>4, <2>5 DEF Goes
<1>5. CASE UNCHANGED graceVars
  BY <1>5
     DEF graceVars, GraceInv, GraceTyped, GraceTypeOK, PaidIsClean, RoomToShelve, Excess, Over,
         Summary, HeldAsTaken, HolderShelved, HolderBalance, Stray, Unrecorded, DoesWork
<1> QED BY <1>1, <1>2, <1>3, <1>4, <1>5 DEF GraceNext

LEMMA GraceInvariant == GraceSpec => []GraceInv
BY GraceBegins, GraceStep, PTL DEF GraceSpec

(* Work, plan and counts keep their types however many requests and sweeps *)
(* there are: what is archived never exceeds what was over the plan.       *)
THEOREM GraceTypeCorrect == GraceSpec => []GraceTypeOK
<1>1. GraceInv => GraceTypeOK
  BY DEF GraceInv, GraceTyped
<1> QED BY <1>1, GraceInvariant, PTL

(* Buying a plan leaves nothing of the grace period behind, and the count  *)
(* of what was archived adds up, for any number of requests and sweeps     *)
(* that crash, fail or stall and take the hold from one another            *)
(* (enforceGraceIfDue, changePlan).                                        *)
THEOREM GraceKeptInOrder == GraceSpec => []GraceInOrder
<1>1. ASSUME GraceInv PROVE SummaryAddsUp
  <2>1. ASSUME plan.enforced, ~lost, \A w \in Workers : ~DoesWork(w, "done")
        PROVE  plan.archived = shelved
    BY <1>1, <2>1 DEF GraceInv, PaidIsClean, HolderBalance, Stray, Unrecorded
  <2> QED BY <1>1, <2>1 DEF GraceInv, Summary, SummaryAddsUp
<1>2. GraceInv => GraceInOrder
  BY <1>1 DEF GraceInv, GraceInOrder
<1> QED BY <1>2, GraceInvariant, PTL

-----------------------------------------------------------------------------
(* The calls of one tab.                                                   *)
CallDocs ==
  [at : {"waits", "told", "sent", "renews", "again", "over"}, read : BOOLEAN,
   woken : BOOLEAN, forced : BOOLEAN, renewed : BOOLEAN,
   bears : {"none", "stale", "fresh"}, gone : BOOLEAN,
   result : {"none", "ok", "answer", "cancelled", "failed"}, done : Nat]

AttemptDocs ==
  [st : {"asks", "sleeps"}, checks : 1..MaxChecks, announced : BOOLEAN,
   waiters : Nat, aborted : BOOLEAN]

Tokens == {"none", "stale", "fresh"}

(* Whoever sleeps has checks left.                                         *)
AttemptTyped ==
  /\ attempt \in AttemptDocs \cup {NoAttempt}
  /\ attempt # NoAttempt /\ attempt.st = "sleeps" => attempt.checks < MaxChecks

(* A call that is under way has not been carried out.                      *)
UnderWayUndone(call) == call.done <= 1 /\ (call.at # "over" => call.done = 0)

CallsFit ==
  /\ calls \in [Calls -> CallDocs]
  /\ AttemptTyped
  /\ \A c \in Calls : UnderWayUndone(calls[c])
  /\ WaitersCounted
  /\ RenewedForSomebody

ClientInv == CallsFit /\ token \in Tokens /\ SignedOutRightly

LEMMA ChecksPositive == MaxChecks \in Nat /\ MaxChecks > 0 /\ IsFiniteSet(Calls)
BY ClientAssumption DEF ClientAssumption

LEMMA WaitingFinite == IsFiniteSet(Waiting) /\ Cardinality(Waiting) \in Nat
<1>1. IsFiniteSet(Waiting)
  BY ChecksPositive, FS_Subset DEF Waiting
<1> QED BY <1>1, FS_CardinalityType

LEMMA CallTyped ==
  ASSUME CallsFit, NEW c \in Calls
  PROVE  calls[c] \in CallDocs /\ UnderWayUndone(calls[c])
BY DEF CallsFit

(* One call is at another place now.                                       *)
LEMMA OneCall ==
  ASSUME CallsFit, NEW c \in Calls, NEW q \in CallDocs, UnderWayUndone(q),
         calls' = [calls EXCEPT ![c] = q]
  PROVE  /\ calls' \in [Calls -> CallDocs]
         /\ \A x \in Calls : UnderWayUndone(calls'[x])
         /\ calls'[c] = q
         /\ \A x \in Calls : x # c => calls'[x] = calls[x]
BY DEF CallsFit

(* A call that neither waits nor will, whatever else it does.              *)
LEMMA MoveFits ==
  ASSUME CallsFit, NEW c \in Calls, NEW q \in CallDocs, UnderWayUndone(q),
         calls' = [calls EXCEPT ![c] = q],
         calls[c].at # "waits", q.at # "waits",
         UNCHANGED <<attempt, waking>>,
         \/ renewing' = renewing /\ (q.at = "renews" <=> calls[c].at = "renews")
         \/ renewing' = TRUE /\ q.at = "renews"
  PROVE  CallsFit'
<1>1. /\ calls' \in [Calls -> CallDocs]
      /\ \A x \in Calls : UnderWayUndone(calls'[x])
      /\ calls'[c] = q
      /\ \A x \in Calls : x # c => calls'[x] = calls[x]
  BY OneCall
<1>2. Waiting' = Waiting
  BY <1>1 DEF Waiting
<1>3. WaitersCounted'
  BY <1>2 DEF CallsFit, WaitersCounted
<1>4. RenewedForSomebody'
  BY <1>1 DEF CallsFit, RenewedForSomebody
<1>5. AttemptTyped'
  BY DEF CallsFit, AttemptTyped
<1>6. \A x \in Calls : UnderWayUndone(calls[x])'
  BY <1>1 DEF UnderWayUndone
<1> QED BY <1>1, <1>3, <1>4, <1>5, <1>6 DEF CallsFit

(* A call joins the attempt there is, or begins one.                       *)
LEMMA JoinFits ==
  ASSUME CallsFit, NEW c \in Calls, NEW q \in CallDocs, UnderWayUndone(q),
         calls' = [calls EXCEPT ![c] = q],
         calls[c].at \notin {"waits", "renews"}, q.at = "waits",
         attempt' = Joined, UNCHANGED <<waking, renewing>>
  PROVE  CallsFit'
<1> USE ChecksPositive
<1>1. /\ calls' \in [Calls -> CallDocs]
      /\ \A x \in Calls : UnderWayUndone(calls'[x])
      /\ calls'[c] = q
      /\ \A x \in Calls : x # c => calls'[x] = calls[x]
  BY OneCall
<1>2. Waiting' = Waiting \cup {c} /\ c \notin Waiting
  BY <1>1 DEF Waiting
<1>3. Cardinality(Waiting') = Cardinality(Waiting) + 1
  BY <1>2, WaitingFinite, FS_AddElement
<1>4. PICK a : a = IF attempt = NoAttempt THEN Polling(1) ELSE attempt
  OBVIOUS
<1>5. /\ a \in AttemptDocs /\ (a.st = "sleeps" => a.checks < MaxChecks)
      /\ a.waiters = Cardinality(Waiting) /\ waking = a.announced
  <2>1. CASE attempt = NoAttempt
    <3>1. Waiting = {} /\ ~waking
      BY <2>1 DEF CallsFit, WaitersCounted
    <3>2. Cardinality(Waiting) = 0
      BY <3>1, FS_EmptySet
    <3>3. waking = FALSE
      BY <2>1 DEF CallsFit, WaitersCounted, RenewedForSomebody
    <3>4. a = [st |-> "asks", checks |-> 1, announced |-> FALSE, waiters |-> 0, aborted |-> FALSE]
      <4>1. (1 > 1) = FALSE
        OBVIOUS
      <4> QED BY <1>4, <2>1, <4>1 DEF Polling
    <3>5. 1 \in 1..MaxChecks
      OBVIOUS
    <3> QED BY <3>2, <3>3, <3>4, <3>5 DEF AttemptDocs
  <2>2. CASE attempt # NoAttempt
    BY <1>4, <2>2 DEF CallsFit, AttemptTyped, WaitersCounted
  <2> QED BY <2>1, <2>2
<1>6. attempt' = [a EXCEPT !.waiters = a.waiters + 1]
  BY <1>4 DEF Joined
<1>7. /\ attempt' \in AttemptDocs /\ attempt'.st = a.st /\ attempt'.checks = a.checks
      /\ attempt'.waiters = a.waiters + 1 /\ attempt'.announced = a.announced
      /\ attempt' # NoAttempt
  BY <1>5, <1>6 DEF AttemptDocs, NoAttempt
<1>8. AttemptTyped'
  BY <1>5, <1>7 DEF AttemptTyped
<1>9. WaitersCounted'
  BY <1>2, <1>3, <1>5, <1>7 DEF WaitersCounted
<1>10. RenewedForSomebody'
  BY <1>1 DEF CallsFit, RenewedForSomebody
<1>11. \A x \in Calls : UnderWayUndone(calls[x])'
  BY <1>1 DEF UnderWayUndone
<1> QED BY <1>1, <1>8, <1>9, <1>10, <1>11 DEF CallsFit

(* A call that is over, and one that goes out.                             *)
LEMMA EndedTyped ==
  ASSUME NEW call \in CallDocs, NEW result \in {"none", "ok", "answer", "cancelled", "failed"},
         call.done <= 1
  PROVE  /\ CallEnded(call, result) \in CallDocs
         /\ CallEnded(call, result).at = "over"
         /\ CallEnded(call, result).done = call.done
         /\ UnderWayUndone(CallEnded(call, result))
<1>1. CallEnded(call, result) =
        [at |-> "over", read |-> FALSE, woken |-> FALSE, forced |-> FALSE,
         renewed |-> FALSE, bears |-> "none", gone |-> FALSE, result |-> result,
         done |-> call.done]
  <2>1. PICK a : a = [NoCall EXCEPT !.result = result]
    OBVIOUS
  <2>2. a = [at |-> "over", read |-> FALSE, woken |-> FALSE, forced |-> FALSE,
             renewed |-> FALSE, bears |-> "none", gone |-> FALSE, result |-> result,
             done |-> 0]
    BY <2>1 DEF NoCall
  <2>3. CallEnded(call, result) = [a EXCEPT !.done = call.done]
    BY <2>1 DEF CallEnded
  <2> QED BY <2>2, <2>3
<1>2. call.done \in Nat
  BY DEF CallDocs
<1> QED BY <1>1, <1>2 DEF CallDocs, UnderWayUndone

LEMMA SentTyped ==
  ASSUME NEW call \in CallDocs, call.done = 0, token \in Tokens
  PROVE  /\ Sent(call) \in CallDocs
         /\ Sent(call).at \in {"sent", "over"}
         /\ Sent(call).done = 0
         /\ UnderWayUndone(Sent(call))
<1>1. CASE call.gone
  BY <1>1, EndedTyped DEF Sent, Gone
<1>2. CASE ~call.gone
  <2>1. PICK x : x = [call EXCEPT !.at = "sent"]
    OBVIOUS
  <2>2. x \in CallDocs /\ x.at = "sent" /\ x.done = 0
    BY <2>1 DEF CallDocs
  <2>3. Sent(call) = [x EXCEPT !.bears = token]
    BY <1>2, <2>1 DEF Sent
  <2> QED BY <2>2, <2>3 DEF CallDocs, Tokens, UnderWayUndone
<1> QED BY <1>1, <1>2

(* waitForServer, called by a call that does not wait.                     *)
LEMMA WaitForServerFits ==
  ASSUME CallsFit, NEW c \in Calls, NEW call \in CallDocs, call.done = 0,
         call.at # "renews",
         calls[c].at \notin {"waits", "renews"}, token \in Tokens,
         NEW force \in BOOLEAN, WaitForServer(c, call, force),
         UNCHANGED <<waking, renewing>>
  PROVE  CallsFit'
<1>1. CASE ready /\ ~force
  <2>1. PICK q : q = Sent(call)
    OBVIOUS
  <2>2. q \in CallDocs /\ q.done = 0 /\ q.at \in {"sent", "over"}
    BY <2>1, SentTyped
  <2>3. calls' = [calls EXCEPT ![c] = q] /\ attempt' = attempt /\ UnderWayUndone(q)
    BY <1>1, <2>1, <2>2 DEF WaitForServer, UnderWayUndone
  <2> QED BY <2>2, <2>3, MoveFits
<1>2. CASE ~(ready /\ ~force)
  <2>1. PICK q : q = [call EXCEPT !.at = "waits", !.forced = force]
    OBVIOUS
  <2>2. q \in CallDocs /\ q.done = 0 /\ q.at = "waits"
    BY <2>1 DEF CallDocs
  <2>3. calls' = [calls EXCEPT ![c] = q] /\ attempt' = Joined /\ UnderWayUndone(q)
    BY <1>2, <2>1, <2>2 DEF WaitForServer, UnderWayUndone
  <2> QED BY <2>2, <2>3, JoinFits
<1> QED BY <1>1, <1>2

(* The last one that gives up takes the health check along.                *)
LEMMA LeaveFits ==
  ASSUME CallsFit, NEW c \in Calls, NEW q \in CallDocs, UnderWayUndone(q),
         calls' = [calls EXCEPT ![c] = q],
         calls[c].at = "waits", q.at = "over",
         attempt' = Released, UNCHANGED <<waking, renewing>>
  PROVE  CallsFit'
<1>1. /\ calls' \in [Calls -> CallDocs]
      /\ \A x \in Calls : UnderWayUndone(calls'[x])
      /\ calls'[c] = q
      /\ \A x \in Calls : x # c => calls'[x] = calls[x]
  BY OneCall
<1>2. Waiting' = Waiting \ {c} /\ c \in Waiting
  BY <1>1 DEF Waiting
<1>3. Cardinality(Waiting') = Cardinality(Waiting) - 1
  BY <1>2, WaitingFinite, FS_RemoveElement
<1>4. attempt # NoAttempt
  BY <1>2 DEF CallsFit, WaitersCounted
<1>5. /\ attempt \in AttemptDocs /\ (attempt.st = "sleeps" => attempt.checks < MaxChecks)
      /\ attempt.waiters = Cardinality(Waiting) /\ waking = attempt.announced
  BY <1>4 DEF CallsFit, AttemptTyped, WaitersCounted
<1>6. attempt.waiters > 0
  <2>1. Cardinality(Waiting) # 0
    BY <1>2, WaitingFinite, FS_EmptySet
  <2> QED BY <1>5, <2>1, WaitingFinite
<1>7. /\ attempt' \in AttemptDocs /\ attempt'.st = attempt.st
      /\ attempt'.checks = attempt.checks
      /\ attempt'.waiters = attempt.waiters - 1
      /\ attempt'.announced = attempt.announced
      /\ attempt'.aborted = (attempt.aborted \/ attempt.waiters = 1)
      /\ attempt' # NoAttempt
  <2>1. attempt.waiters - 1 \in Nat
    BY <1>5, <1>6 DEF AttemptDocs
  <2> QED BY <1>5, <2>1 DEF Released, AttemptDocs, NoAttempt
<1>8. AttemptTyped'
  BY <1>5, <1>7 DEF AttemptTyped
<1>9. WaitersCounted'
  <2>1. ASSUME Waiting' = {} PROVE attempt'.aborted
    <3>1. Cardinality(Waiting') = 0
      BY <2>1, FS_EmptySet
    <3>2. attempt.waiters = 1
      BY <1>3, <1>5, <3>1, WaitingFinite
    <3>3. (attempt.aborted \/ attempt.waiters = 1) = TRUE
      BY <3>2
    <3> QED BY <1>7, <3>3
  <2> QED BY <1>3, <1>5, <1>7, <2>1 DEF WaitersCounted
<1>10. RenewedForSomebody'
  BY <1>1 DEF CallsFit, RenewedForSomebody
<1>11. \A x \in Calls : UnderWayUndone(calls[x])'
  BY <1>1 DEF UnderWayUndone
<1> QED BY <1>1, <1>8, <1>9, <1>10, <1>11 DEF CallsFit

(* The attempt is over and everyone who waits is told.                     *)
LEMMA SettleFits ==
  ASSUME CallsFit, NEW result \in {"ok", "failed", "cancelled"}, Settle(result),
         attempt # NoAttempt, renewing' = renewing
  PROVE  CallsFit'
<1>1. ASSUME NEW x \in Calls
      PROVE  /\ calls'[x] \in CallDocs /\ UnderWayUndone(calls'[x])
             /\ calls'[x].at # "waits"
             /\ calls'[x].at = "renews" <=> calls[x].at = "renews"
  <2>1. calls[x] \in CallDocs /\ UnderWayUndone(calls[x])
    BY CallTyped
  <2>2. CASE x \in Waiting
    <3>1. calls'[x] = [calls[x] EXCEPT !.at = "told", !.result = result]
      BY <2>2 DEF Settle
    <3>2. calls'[x] \in CallDocs /\ calls'[x].at = "told" /\ calls'[x].done = calls[x].done
      BY <2>1, <3>1 DEF CallDocs
    <3> QED BY <2>1, <2>2, <3>2 DEF Waiting, UnderWayUndone
  <2>3. CASE x \notin Waiting
    <3>1. calls'[x] = calls[x]
      BY <2>3 DEF Settle
    <3> QED BY <2>1, <2>3, <3>1 DEF Waiting
  <2> QED BY <2>2, <2>3
<1>2. calls' \in [Calls -> CallDocs]
  <2>1. calls' = [x \in Calls |-> calls'[x]]
    BY DEF Settle
  <2> QED BY <1>1, <2>1
<1>3. attempt' = NoAttempt /\ ~waking'
  BY DEF Settle, CallsFit, WaitersCounted
<1>4. Waiting' = {}
  BY <1>1 DEF Waiting
<1>5. WaitersCounted' /\ AttemptTyped'
  BY <1>3, <1>4 DEF WaitersCounted, AttemptTyped
<1>6. RenewedForSomebody'
  BY <1>1 DEF CallsFit, RenewedForSomebody
<1>7. \A x \in Calls : UnderWayUndone(calls[x])'
  BY <1>1 DEF UnderWayUndone
<1> QED BY <1>2, <1>5, <1>6, <1>7 DEF CallsFit

(* The attempt goes on, its waiters stay.                                  *)
LEMMA AttemptFits ==
  ASSUME CallsFit, attempt # NoAttempt, NEW a \in AttemptDocs, attempt' = a,
         a.st = "sleeps" => a.checks < MaxChecks,
         a.waiters = attempt.waiters, attempt.aborted => a.aborted,
         waking' = a.announced, UNCHANGED <<calls, renewing>>
  PROVE  CallsFit'
<1>1. Waiting' = Waiting
  BY DEF Waiting
<1>2. AttemptTyped'
  BY DEF AttemptTyped
<1>3. WaitersCounted'
  <2>1. a # NoAttempt
    BY DEF AttemptDocs, NoAttempt
  <2> QED BY <1>1, <2>1 DEF CallsFit, WaitersCounted
<1>4. RenewedForSomebody'
  BY DEF CallsFit, RenewedForSomebody
<1>5. \A x \in Calls : UnderWayUndone(calls[x])'
  BY DEF CallsFit, UnderWayUndone
<1> QED BY <1>2, <1>3, <1>4, <1>5 DEF CallsFit

(* Everyone who waits for the refresh goes on.                             *)
LEMMA RenewedFits ==
  ASSUME CallsFit, renewing, NEW next, Renewed(next),
         \A x \in Calls : calls[x].at = "renews" =>
           /\ next[x] \in CallDocs /\ UnderWayUndone(next[x])
           /\ next[x].at \in {"again", "over"},
         renewing' = FALSE, UNCHANGED <<attempt, waking>>
  PROVE  CallsFit'
<1>1. ASSUME NEW x \in Calls
      PROVE  /\ calls'[x] \in CallDocs /\ UnderWayUndone(calls'[x])
             /\ calls'[x].at = "waits" <=> calls[x].at = "waits"
             /\ calls'[x].at # "renews"
  <2>1. calls'[x] = IF calls[x].at = "renews" THEN next[x] ELSE calls[x]
    BY DEF Renewed
  <2> QED BY <2>1, CallTyped
<1>2. calls' \in [Calls -> CallDocs]
  <2>1. calls' = [x \in Calls |-> calls'[x]]
    BY DEF Renewed
  <2> QED BY <1>1, <2>1
<1>3. Waiting' = Waiting
  BY <1>1 DEF Waiting
<1>4. WaitersCounted' /\ AttemptTyped'
  BY <1>3 DEF CallsFit, WaitersCounted, AttemptTyped
<1>5. RenewedForSomebody'
  BY <1>1 DEF RenewedForSomebody
<1>6. \A x \in Calls : UnderWayUndone(calls[x])'
  BY <1>1 DEF UnderWayUndone
<1> QED BY <1>2, <1>4, <1>5, <1>6 DEF CallsFit

-----------------------------------------------------------------------------
LEMMA CallsBegin == ClientInit => ClientInv
<1> SUFFICES ASSUME ClientInit PROVE ClientInv
  OBVIOUS
<1>1. NoCall \in CallDocs /\ NoCall.at = "over" /\ NoCall.done = 0
  BY DEF NoCall, CallDocs
<1>2. calls \in [Calls -> CallDocs] /\ \A c \in Calls : calls[c] = NoCall
  BY <1>1 DEF ClientInit
<1>3. Waiting = {} /\ WaitersCounted
  BY <1>1, <1>2 DEF ClientInit, Waiting, WaitersCounted
<1>4. AttemptTyped /\ RenewedForSomebody
  BY <1>1, <1>2 DEF ClientInit, AttemptTyped, RenewedForSomebody
<1>5. token \in Tokens /\ SignedOutRightly
  BY DEF ClientInit, Tokens, SignedOutRightly
<1> QED BY <1>1, <1>2, <1>3, <1>4, <1>5 DEF ClientInv, CallsFit, UnderWayUndone

(* The steps of one call.                                                  *)
LEMMA CallSteps ==
  ASSUME ClientInv, NEW c \in Calls,
         Proceeds(c) \/ Cancel(c) \/ \E read \in BOOLEAN : Begin(c, read)
  PROVE  CallsFit'
<1>0. /\ CallsFit /\ token \in Tokens /\ calls[c] \in CallDocs
      /\ UnderWayUndone(calls[c])
  BY CallTyped DEF ClientInv
<1>1. ASSUME NEW read \in BOOLEAN, Begin(c, read) PROVE CallsFit'
  <2>1. PICK call : call = [NoCall EXCEPT !.read = read]
    OBVIOUS
  <2>2. call \in CallDocs /\ call.done = 0 /\ call.at # "renews"
    BY <2>1 DEF NoCall, CallDocs
  <2> QED BY <1>0, <1>1, <2>1, <2>2, WaitForServerFits DEF Begin
<1>2. CASE Again(c)
  <2>1. calls[c].at = "again" /\ calls[c].done = 0
    BY <1>0, <1>2 DEF Again, UnderWayUndone
  <2>2. CASE calls[c].gone
    <3>1. PICK q : q = Gone(calls[c])
      OBVIOUS
    <3>2. q \in CallDocs /\ UnderWayUndone(q) /\ q.at = "over"
      BY <1>0, <3>1, EndedTyped DEF Gone, UnderWayUndone
    <3>3. calls' = [calls EXCEPT ![c] = q] /\ UNCHANGED <<attempt, waking, renewing>>
      BY <1>2, <2>2, <3>1 DEF Again
    <3> QED BY <1>0, <2>1, <3>2, <3>3, MoveFits
  <2>3. CASE ~calls[c].gone
    BY <1>0, <1>2, <2>1, <2>3, WaitForServerFits DEF Again
  <2> QED BY <2>2, <2>3
<1>3. CASE Told(c)
  <2>1. PICK q : q = CASE calls[c].result = "ok" /\ calls[c].forced ->
                            [calls[c] EXCEPT !.at = "again", !.result = "none"]
                       [] calls[c].result = "ok" /\ ~calls[c].forced ->
                            Sent([calls[c] EXCEPT !.result = "none"])
                       [] OTHER -> CallEnded(calls[c], calls[c].result)
    OBVIOUS
  <2>2. /\ calls[c].at = "told" /\ calls' = [calls EXCEPT ![c] = q]
        /\ UNCHANGED <<attempt, waking, renewing>>
    BY <1>3, <2>1 DEF Told
  <2>3. q \in CallDocs /\ q.at \in {"again", "sent", "over"} /\ UnderWayUndone(q)
    <3>1. CASE calls[c].result = "ok" /\ calls[c].forced
      BY <1>0, <2>1, <2>2, <3>1 DEF CallDocs, UnderWayUndone
    <3>2. CASE calls[c].result = "ok" /\ ~calls[c].forced
      <4>1. PICK x : x = [calls[c] EXCEPT !.result = "none"]
        OBVIOUS
      <4>2. x \in CallDocs /\ x.done = 0
        BY <1>0, <2>2, <4>1 DEF CallDocs, UnderWayUndone
      <4>3. q = Sent(x)
        BY <2>1, <3>2, <4>1
      <4> QED BY <1>0, <4>2, <4>3, SentTyped
    <3>3. CASE calls[c].result # "ok"
      <4>1. q = CallEnded(calls[c], calls[c].result)
        BY <2>1, <3>3
      <4>2. calls[c].result \in {"none", "ok", "answer", "cancelled", "failed"}
        BY <1>0 DEF CallDocs
      <4> QED BY <1>0, <4>1, <4>2, EndedTyped DEF UnderWayUndone
    <3> QED BY <3>1, <3>2, <3>3
  <2> QED BY <1>0, <2>2, <2>3, MoveFits
<1>4. CASE Answered(c)
  <2>1. PICK x : x = [calls[c] EXCEPT !.done = Carried(calls[c])]
    OBVIOUS
  <2>2. x \in CallDocs /\ x.done \in {0, 1}
    BY <1>0, <1>4, <2>1 DEF Answered, Carried, CallDocs, UnderWayUndone
  <2>3. PICK q : q = CallEnded(x, "answer")
    OBVIOUS
  <2>4. q \in CallDocs /\ UnderWayUndone(q) /\ q.at = "over"
    BY <2>2, <2>3, EndedTyped
  <2>5. /\ calls[c].at = "sent" /\ calls' = [calls EXCEPT ![c] = q]
        /\ UNCHANGED <<attempt, waking, renewing>>
    BY <1>4, <2>1, <2>3 DEF Answered
  <2> QED BY <1>0, <2>4, <2>5, MoveFits
<1>5. CASE Unavailable(c)
  <2>1. PICK done \in {calls[c].done, Carried(calls[c])} :
          LET call == [calls[c] EXCEPT !.done = done, !.bears = "none"]
          IN  IF MayRetry(call)
              THEN WaitForServer(c, [call EXCEPT !.woken = TRUE], TRUE)
              ELSE calls' = [calls EXCEPT ![c] = Failed(call)] /\ UNCHANGED attempt
    BY <1>5 DEF Unavailable
  <2>2. PICK x : x = [calls[c] EXCEPT !.done = done, !.bears = "none"]
    OBVIOUS
  <2>3. /\ calls[c].at = "sent" /\ UNCHANGED <<waking, renewing>>
        /\ calls[c].done = 0 /\ calls[c].read \in BOOLEAN
    BY <1>0, <1>5 DEF Unavailable, UnderWayUndone, CallDocs
  <2>4. done \in {0, 1} /\ (calls[c].read => done = 0)
    BY <2>3 DEF Carried
  <2>5. x \in CallDocs /\ x.done = done /\ x.read = calls[c].read /\ x.at = "sent"
    <3>1. PICK d : d = [calls[c] EXCEPT !.done = done]
      OBVIOUS
    <3>2. d \in CallDocs /\ d.done = done /\ d.read = calls[c].read /\ d.at = "sent"
      BY <1>0, <2>3, <2>4, <3>1 DEF CallDocs
    <3>3. x = [d EXCEPT !.bears = "none"]
      BY <2>2, <3>1
    <3> QED BY <3>2, <3>3 DEF CallDocs
  <2>6. CASE MayRetry(x)
    <3>1. PICK y : y = [x EXCEPT !.woken = TRUE]
      OBVIOUS
    <3>2. y \in CallDocs /\ y.done = 0 /\ y.at # "renews"
      BY <2>4, <2>5, <2>6, <3>1 DEF MayRetry, CallDocs
    <3>3. WaitForServer(c, y, TRUE)
      BY <2>1, <2>2, <2>6, <3>1
    <3> QED BY <1>0, <2>3, <3>2, <3>3, WaitForServerFits
  <2>7. CASE ~MayRetry(x)
    <3>1. PICK q : q = Failed(x)
      OBVIOUS
    <3>2. q \in CallDocs /\ UnderWayUndone(q) /\ q.at = "over"
      BY <2>4, <2>5, <3>1, EndedTyped DEF Failed
    <3>3. calls' = [calls EXCEPT ![c] = q] /\ UNCHANGED attempt
      BY <2>1, <2>2, <2>7, <3>1
    <3> QED BY <1>0, <2>3, <3>2, <3>3, MoveFits
  <2> QED BY <2>6, <2>7
<1>6. CASE (TokenRefused(c) /\ calls[c].renewed) \/ SignInNeeded(c)
  <2>1. PICK q : q = Failed(calls[c])
    OBVIOUS
  <2>2. q \in CallDocs /\ UnderWayUndone(q) /\ q.at = "over"
    BY <1>0, <2>1, EndedTyped DEF Failed, UnderWayUndone
  <2>3. /\ calls[c].at = "sent" /\ calls' = [calls EXCEPT ![c] = q]
        /\ UNCHANGED <<attempt, waking, renewing>>
    BY <1>6, <2>1 DEF TokenRefused, SignInNeeded
  <2> QED BY <1>0, <2>2, <2>3, MoveFits
<1>7. CASE TokenRefused(c) /\ ~calls[c].renewed
  <2>1. PICK q : q = [calls[c] EXCEPT !.at = "renews", !.bears = "none", !.renewed = TRUE]
    OBVIOUS
  <2>2. calls[c].at = "sent" /\ renewing' = TRUE /\ UNCHANGED <<attempt, waking>>
    BY <1>7 DEF TokenRefused
  <2>3. calls' = [calls EXCEPT ![c] = q]
    BY <1>0, <1>7, <2>1 DEF TokenRefused, CallsFit, CallDocs
  <2>4. q \in CallDocs /\ UnderWayUndone(q) /\ q.at = "renews"
    BY <1>0, <2>1, <2>2 DEF CallDocs, UnderWayUndone
  <2> QED BY <1>0, <2>2, <2>3, <2>4, MoveFits
<1>8. CASE Cancel(c)
  <2>1. UNCHANGED <<waking, renewing>>
    BY <1>8 DEF Cancel
  <2>2. CASE calls[c].at \in {"waits", "told", "sent"}
    <3>1. PICK q : q = Gone(calls[c])
      OBVIOUS
    <3>2. q \in CallDocs /\ UnderWayUndone(q) /\ q.at = "over"
      BY <1>0, <3>1, EndedTyped DEF Gone, UnderWayUndone
    <3>3. calls' = [calls EXCEPT ![c] = q]
      BY <1>8, <2>2, <3>1 DEF Cancel
    <3>4. CASE calls[c].at = "waits"
      <4>1. attempt' = Released
        BY <1>8, <3>4 DEF Cancel
      <4> QED BY <1>0, <2>1, <3>2, <3>3, <3>4, <4>1, LeaveFits
    <3>5. CASE calls[c].at # "waits"
      <4>1. attempt' = attempt
        BY <1>8, <3>5 DEF Cancel
      <4> QED BY <1>0, <2>1, <2>2, <3>2, <3>3, <3>5, <4>1, MoveFits
    <3> QED BY <3>4, <3>5
  <2>3. CASE calls[c].at \in {"renews", "again"}
    <3>1. PICK q : q = [calls[c] EXCEPT !.gone = TRUE]
      OBVIOUS
    <3>2. q \in CallDocs /\ UnderWayUndone(q) /\ q.at = calls[c].at
      BY <1>0, <3>1 DEF CallDocs, UnderWayUndone
    <3>3. calls' = [calls EXCEPT ![c] = q] /\ attempt' = attempt
      BY <1>8, <2>3, <3>1 DEF Cancel
    <3> QED BY <1>0, <2>1, <2>3, <3>2, <3>3, MoveFits
  <2> QED BY <1>8, <2>2, <2>3 DEF Cancel
<1> QED BY <1>1, <1>2, <1>3, <1>4, <1>5, <1>6, <1>7, <1>8 DEF Proceeds

(* The steps of the health check and of the refresh.                       *)
LEMMA HealthSteps ==
  ASSUME ClientInv, Health PROVE CallsFit'
<1>0. CallsFit /\ attempt \in AttemptDocs \cup {NoAttempt} /\ MaxChecks \in Nat
  BY ChecksPositive DEF ClientInv, CallsFit, AttemptTyped
<1>1. ASSUME NotReady \/ CheckAgain
      PROVE  attempt # NoAttempt /\ attempt \in AttemptDocs /\ waking = attempt.announced
  BY <1>0, <1>1 DEF NotReady, CheckAgain, NoAttempt, CallsFit, WaitersCounted
<1>2. CASE ServerReady
  BY <1>0, <1>2, SettleFits DEF ServerReady, NoAttempt
<1>3. CASE WakeFails
  BY <1>0, <1>3, SettleFits DEF WakeFails, NoAttempt
<1>4. CASE AttemptAborts
  BY <1>0, <1>4, SettleFits DEF AttemptAborts
<1>5. CASE NotReady
  <2>1. PICK a : a = [attempt EXCEPT !.st = "sleeps", !.announced = TRUE]
    OBVIOUS
  <2>2. /\ a \in AttemptDocs /\ a.checks = attempt.checks /\ a.waiters = attempt.waiters
        /\ a.aborted = attempt.aborted /\ a.announced = TRUE
    BY <1>1, <1>5, <2>1 DEF AttemptDocs
  <2>3. /\ attempt' = a /\ waking' = a.announced /\ attempt.checks < MaxChecks
        /\ UNCHANGED <<calls, renewing>>
    BY <1>5, <2>1, <2>2 DEF NotReady
  <2> QED BY <1>0, <1>1, <1>5, <2>2, <2>3, AttemptFits
<1>6. CASE CheckAgain
  <2>1. PICK a : a = [attempt EXCEPT !.st = "asks", !.checks = attempt.checks + 1]
    OBVIOUS
  <2>2. attempt.checks + 1 \in 1..MaxChecks
    BY <1>0, <1>1, <1>6 DEF CheckAgain, CallsFit, AttemptTyped, AttemptDocs
  <2>3. /\ a \in AttemptDocs /\ a.st = "asks" /\ a.waiters = attempt.waiters
        /\ a.aborted = attempt.aborted /\ a.announced = attempt.announced
    BY <1>1, <1>6, <2>1, <2>2 DEF AttemptDocs
  <2>4. attempt' = a /\ waking' = a.announced /\ UNCHANGED <<calls, renewing>>
    BY <1>1, <1>6, <2>1, <2>3 DEF CheckAgain
  <2> QED BY <1>0, <1>1, <1>6, <2>3, <2>4, AttemptFits
<1> QED BY <1>2, <1>3, <1>4, <1>5, <1>6 DEF Health

LEMMA RefreshSteps ==
  ASSUME ClientInv, Refresh PROVE CallsFit'
<1>0. CallsFit /\ renewing
  BY DEF ClientInv, Refresh, RefreshSucceeds, RefreshRejected, RefreshFails
<1>1. CASE RefreshSucceeds
  <2>1. PICK next : next = [c \in Calls |-> [calls[c] EXCEPT !.at = "again"]]
    OBVIOUS
  <2>2. Renewed(next)
    BY <1>1, <2>1 DEF RefreshSucceeds
  <2>3. ASSUME NEW x \in Calls, calls[x].at = "renews"
        PROVE  next[x] \in CallDocs /\ UnderWayUndone(next[x]) /\ next[x].at \in {"again", "over"}
    BY <1>0, <2>1, <2>3, CallTyped DEF CallDocs, UnderWayUndone
  <2>4. renewing' = FALSE /\ UNCHANGED <<attempt, waking>>
    BY <1>1 DEF RefreshSucceeds
  <2> QED BY <1>0, <2>2, <2>3, <2>4, RenewedFits
<1>2. CASE RefreshRejected \/ RefreshFails
  <2>1. PICK next : next = [c \in Calls |-> Failed(calls[c])]
    OBVIOUS
  <2>2. Renewed(next)
    BY <1>2, <2>1 DEF RefreshRejected, RefreshFails
  <2>3. ASSUME NEW x \in Calls, calls[x].at = "renews"
        PROVE  next[x] \in CallDocs /\ UnderWayUndone(next[x]) /\ next[x].at \in {"again", "over"}
    <3>1. calls[x] \in CallDocs /\ calls[x].done <= 1
      BY <1>0, CallTyped DEF UnderWayUndone
    <3> QED BY <2>1, <3>1, EndedTyped DEF Failed
  <2>4. renewing' = FALSE /\ UNCHANGED <<attempt, waking>>
    BY <1>2 DEF RefreshRejected, RefreshFails
  <2> QED BY <1>0, <2>2, <2>3, <2>4, RenewedFits
<1> QED BY <1>1, <1>2 DEF Refresh

LEMMA ClientStep == ClientInv /\ [ClientNext]_clientVars => ClientInv'
<1> SUFFICES ASSUME ClientInv, [ClientNext]_clientVars PROVE ClientInv'
  OBVIOUS
<1>1. ASSUME NEW c \in Calls,
             Proceeds(c) \/ Cancel(c) \/ \E read \in BOOLEAN : Begin(c, read)
      PROVE  CallsFit' /\ UNCHANGED <<token, session, signedOut>>
  <2>1. UNCHANGED <<token, session, signedOut>>
    BY <1>1 DEF Proceeds, Cancel, Begin, Again, Told, Answered, Unavailable, TokenRefused,
                SignInNeeded
  <2> QED BY <1>1, <2>1, CallSteps
<1>2. CASE Health
  <2>1. UNCHANGED <<token, session, signedOut>>
    BY <1>2 DEF Health, ServerReady, NotReady, CheckAgain, WakeFails, AttemptAborts
  <2> QED BY <1>2, <2>1, HealthSteps DEF ClientInv, SignedOutRightly
<1>3. CASE Refresh
  <2>1. token' \in Tokens /\ SignedOutRightly'
    BY <1>3 DEF Refresh, RefreshSucceeds, RefreshRejected, RefreshFails, ClientInv,
                SignedOutRightly, Tokens
  <2> QED BY <1>3, <2>1, RefreshSteps DEF ClientInv
<1>4. CASE \/ ServerComesAndGoes \/ SessionEnds \/ TokenExpires \/ ReadyForgotten
           \/ UNCHANGED clientVars
  <2>1. UNCHANGED <<attempt, waking, renewing, calls, signedOut>>
    BY <1>4 DEF ServerComesAndGoes, SessionEnds, TokenExpires, ReadyForgotten, clientVars
  <2>2. CallsFit'
    BY <2>1 DEF ClientInv, CallsFit, AttemptTyped, UnderWayUndone, WaitersCounted, Waiting,
                RenewedForSomebody
  <2>3. token' \in Tokens /\ SignedOutRightly'
    BY <1>4 DEF ServerComesAndGoes, SessionEnds, TokenExpires, ReadyForgotten, clientVars,
                ClientInv, SignedOutRightly, Tokens
  <2> QED BY <2>2, <2>3 DEF ClientInv
<1> QED BY <1>1, <1>2, <1>3, <1>4 DEF ClientNext, ClientInv, SignedOutRightly

LEMMA ClientInvariant == ClientSpec => []ClientInv
BY CallsBegin, ClientStep, PTL DEF ClientSpec

(* Calls, token and attempt keep their types however many calls wait.      *)
THEOREM ClientTypeCorrect == ClientSpec => []ClientTypeOK
<1>1. ClientInv => ClientTypeOK
  BY DEF ClientInv, CallsFit, AttemptTyped, ClientTypeOK, CallDocs, AttemptDocs, Tokens
<1> QED BY <1>1, ClientInvariant, PTL

(* However many calls a tab has under way: each one that waits for the     *)
(* server is counted, nothing that changes data is carried out twice, and  *)
(* only a rejected session signs the person out (waitForServer and the     *)
(* interceptors of client.ts).                                             *)
THEOREM CallsKeptInOrder == ClientSpec => []CallsInOrder
<1>1. ClientInv => CallsInOrder
  BY DEF ClientInv, CallsFit, CallsInOrder, WritesOnce, UnderWayUndone
<1> QED BY <1>1, ClientInvariant, PTL

-----------------------------------------------------------------------------
(* All of it beside the payments.                                          *)
SweepsInv == LockTypeOK /\ GraceInv /\ ClientInv /\ TypeInv

LEMMA SweepsBegin ==
  ASSUME SweepsInit
  PROVE  SweepsInv
BY LockBegins, GraceBegins, CallsBegin, TypeInit DEF SweepsInit, SweepsInv

LEMMA SweepsStep ==
  ASSUME SweepsInv, [SweepsNext]_<<lockVars, graceVars, vars, clientVars, side>>
  PROVE  SweepsInv'
<1>1. [LockNext]_lockVars /\ [GraceNext]_graceVars /\ [ClientNext]_clientVars /\ [Next]_vars
  BY DEF SweepsNext
<1> QED BY <1>1, LockKept, GraceStep, ClientStep, TypeStep DEF SweepsInv

(* Locks, work, calls, payments and requests have their types, whatever is *)
(* done to the others meanwhile.                                           *)
THEOREM SweepsTypeCorrect == SweepsSpec => []SweepsTypeOK
<1>1. SweepsInv => SweepsTypeOK
  BY TypeInvTypes
     DEF SweepsInv, SweepsTypeOK, GraceInv, GraceTyped, ClientInv, CallsFit, AttemptTyped, ClientTypeOK,
         CallDocs, AttemptDocs, Tokens
<1> QED BY <1>1, SweepsBegin, SweepsStep, PTL DEF SweepsSpec
=============================================================================
