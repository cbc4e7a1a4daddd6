------------------------------- MODULE JobLock -------------------------------
(***************************************************************************)
(* The sweeps of several servers (server.ts) and the lock that lets one of *)
(* them do a job per tick (lib/jobLock.ts).                                *)
(*                                                                         *)
(* Times are relative to now: left[j] is how long the lock of a job still  *)
(* holds, counted down as time passes. A server reads its clock and then   *)
(* asks the database, so a request decides by a clock that is "late".      *)
(* The clocks of the servers agree.                                        *)
(***************************************************************************)
EXTENDS Integers, FiniteSets

CONSTANTS
  Servers,   \* processes of the API
  Jobs,      \* names of the sweeps
  Runs,      \* bound: ticks under way at once
  Claim,     \* claimMs, the same for all jobs of the model
  Period,    \* the interval of setInterval
  MaxLate    \* bound: between reading the clock and the update

ASSUME LockAssumption ==
  /\ Claim \in Nat /\ Period \in Nat \ {0} /\ MaxLate \in Nat
  /\ MaxLate < Claim

VARIABLES
  up,      \* the servers that run
  timer,   \* until each timer of a server fires
  left,    \* lockedUntil of each job, from now
  tick,    \* what each call of runExclusive is doing
  waited   \* how long a server has been up without a failed tick while
           \* nobody began the job (history)

lockVars == <<up, timer, left, tick, waited>>

Off == [st |-> "off"]
Asking(s, j) == [st |-> "asks", server |-> s, job |-> j, late |-> 0]
Working(s, j, rest) == [st |-> "works", server |-> s, job |-> j, rest |-> rest]

TickDocs ==
  {Off} \cup [st : {"asks"}, server : Servers, job : Jobs, late : 0..MaxLate]
        \cup [st : {"works"}, server : Servers, job : Jobs, rest : 0..Claim]

Longest == Period + Claim + MaxLate

-----------------------------------------------------------------------------
(* main: every timer's sweep also runs when the server starts.             *)
Boot(s) ==
  /\ s \notin up
  /\ up' = up \cup {s}
  /\ timer' = [timer EXCEPT ![s] = [j \in Jobs |-> 0]]
  /\ waited' = [waited EXCEPT ![s] = [j \in Jobs |-> 0]]
  /\ UNCHANGED <<left, tick>>

(* setInterval: the next tick does not wait for this one.                  *)
Fire(s, j, r) ==
  /\ s \in up
  /\ timer[s][j] = 0
  /\ tick[r] = Off
  /\ timer' = [timer EXCEPT ![s][j] = Period]
  /\ tick' = [tick EXCEPT ![r] = Asking(s, j)]
  /\ UNCHANGED <<up, left, waited>>

Asks(r) == tick[r].st = "asks"

(* Mutant of Expired: lockedUntil is not looked at.                        *)
Expired_Always(r) == TRUE

(* lockedUntil is not later than the clock that was read.                  *)
Expired(r) == left[tick[r].job] <= -tick[r].late

(* runExclusive: push lockedUntil forward and do the job.                  *)
BeginJob(r) ==
  LET t == tick[r]
      rest == Claim - t.late
  IN  /\ Asks(r)
      /\ Expired(r)
      /\ left' = [left EXCEPT ![t.job] = rest]
      /\ tick' = [tick EXCEPT ![r] = Working(t.server, t.job, rest)]
      /\ waited' = [s \in Servers |-> [waited[s] EXCEPT ![t.job] = 0]]
      /\ UNCHANGED <<up, timer>>

(* Mutant of Collide: a tick that finds the lock taken prolongs it.        *)
Collide_Prolongs(r) ==
  /\ Asks(r)
  /\ ~Expired(r)
  /\ left' = [left EXCEPT ![tick[r].job] = Claim - tick[r].late]
  /\ tick' = [tick EXCEPT ![r] = Off]
  /\ UNCHANGED <<up, timer, waited>>

(* The upsert meets the row that is still locked.                          *)
Collide(r) ==
  /\ Asks(r)
  /\ ~Expired(r)
  /\ tick' = [tick EXCEPT ![r] = Off]
  /\ UNCHANGED <<up, timer, left, waited>>

(* The database does not answer.                                           *)
FailTick(r) ==
  LET t == tick[r]
  IN  /\ Asks(r)
      /\ tick' = [tick EXCEPT ![r] = Off]
      /\ waited' = [waited EXCEPT ![t.server][t.job] = 0]
      /\ UNCHANGED <<up, timer, left>>

(* The job is through, or threw; the lock stays as it is.                  *)
FinishJob(r) ==
  /\ tick[r].st = "works"
  /\ tick' = [tick EXCEPT ![r] = Off]
  /\ UNCHANGED <<up, timer, left, waited>>

Halt(s) ==
  /\ s \in up
  /\ up' = up \ {s}
  /\ timer' = [timer EXCEPT ![s] = [j \in Jobs |-> 0]]
  /\ tick' = [r \in Runs |-> IF tick[r] # Off /\ tick[r].server = s THEN Off ELSE tick[r]]
  /\ waited' = [waited EXCEPT ![s] = [j \in Jobs |-> 0]]
  /\ UNCHANGED left

(* Time passes. Timers fire on time, and no call is late for longer than   *)
(* MaxLate.                                                                *)
PassTime ==
  /\ \A s \in up, j \in Jobs : timer[s][j] > 0
  /\ \A r \in Runs : Asks(r) => tick[r].late < MaxLate
  /\ timer' = [s \in Servers |-> [j \in Jobs |-> IF s \in up THEN timer[s][j] - 1 ELSE 0]]
  /\ left' = [j \in Jobs |-> IF left[j] > -MaxLate THEN left[j] - 1 ELSE left[j]]
  /\ tick' = [r \in Runs |->
       CASE tick[r].st = "asks" -> [tick[r] EXCEPT !.late = @ + 1]
         [] tick[r].st = "works" /\ tick[r].rest > 0 -> [tick[r] EXCEPT !.rest = @ - 1]
         [] OTHER -> tick[r]]
  /\ waited' = [s \in Servers |-> [j \in Jobs |->
       IF s \in up /\ waited[s][j] <= Longest THEN waited[s][j] + 1 ELSE waited[s][j]]]
  /\ UNCHANGED up

LockInit ==
  /\ up = {}
  /\ timer = [s \in Servers |-> [j \in Jobs |-> 0]]
  /\ left = [j \in Jobs |-> -MaxLate]
  /\ tick = [r \in Runs |-> Off]
  /\ waited = [s \in Servers |-> [j \in Jobs |-> 0]]

LockNext ==
  \/ \E s \in Servers : Boot(s) \/ Halt(s) \/ \E j \in Jobs, r \in Runs : Fire(s, j, r)
  \/ \E r \in Runs : BeginJob(r) \/ Collide(r) \/ FailTick(r) \/ FinishJob(r)
  \/ PassTime

LockSpec == LockInit /\ [][LockNext]_lockVars

-----------------------------------------------------------------------------
(* Servers, timers, locks and ticks have their types.                      *)
LockTypeOK ==
  /\ up \in SUBSET Servers
  /\ timer \in [Servers -> [Jobs -> 0..Period]]
  /\ left \in [Jobs -> -MaxLate..Claim]
  /\ tick \in [Runs -> TickDocs]
  /\ waited \in [Servers -> [Jobs -> 0..(Longest + 1)]]

Within(r) == tick[r].st = "works" /\ tick[r].rest > 0

(* While a claim lasts nobody else does the job: two servers, or two ticks *)
(* of one server, can do it at once only when the first has outlasted its  *)
(* claim ("a slow run can overlap the next claim"), whatever a late clock, *)
(* a crash or a failed call does (runExclusive).                           *)
OneRunPerClaim ==
  \A r, q \in Runs :
    Within(r) /\ Within(q) /\ tick[r].job = tick[q].job => r = q

(* "A server that crashes mid-run never blocks the next one for long": on  *)
(* a server that stays up and reaches the database a job is begun by       *)
(* somebody within one interval and one claim, whoever crashed holding it. *)
NeverBlockedForLong ==
  \A s \in Servers, j \in Jobs : waited[s][j] <= Longest
=============================================================================
