------------------------------ MODULE ApiClient ------------------------------
(***************************************************************************)
(* How one browser tab calls the API (web/src/api/client.ts): calls wait   *)
(* together for a server that sleeps, a read is tried once more after the  *)
(* server was not there, and an expired access token is renewed once for   *)
(* all calls that meet it.                                                 *)
(*                                                                         *)
(* JavaScript runs one handler at a time; what a settled promise sets off  *)
(* in the calls that await it comes in any order.                          *)
(***************************************************************************)
EXTENDS Naturals, FiniteSets

CONSTANTS
  Calls,      \* calls of the tab under way at once
  MaxChecks   \* health checks of one attempt before its 90 seconds are over

ASSUME ClientAssumption == IsFiniteSet(Calls) /\ MaxChecks \in Nat \ {0}

VARIABLES
  serverUp,  \* the server answers
  session,   \* the refresh cookie is still good
  token,     \* the access token the tab holds
  ready,     \* the server answered less than ten minutes ago
  attempt,   \* serverWakeAttempt
  waking,    \* what the wake-up screen was told
  renewing,  \* refreshPromise is set
  calls,     \* what each call is doing
  signedOut  \* onAuthFailure was called (history)

clientVars ==
  <<serverUp, session, token, ready, attempt, waking, renewing, calls, signedOut>>

NoAttempt == [st |-> "none"]
Polling(n) == [st |-> "asks", checks |-> n, announced |-> n > 1, waiters |-> 0, aborted |-> FALSE]

(* done counts how often the server carried a call out that changes data   *)
(* (history).                                                              *)
NoCall == [at |-> "over", read |-> FALSE, woken |-> FALSE, forced |-> FALSE,
           renewed |-> FALSE, bears |-> "none", gone |-> FALSE, result |-> "none",
           done |-> 0]

Carried(call) == IF call.read THEN 0 ELSE call.done + 1

Waiting == {c \in Calls : calls[c].at = "waits"}

-----------------------------------------------------------------------------
(* The request interceptor lets a call go with the token of the tab.       *)
CallEnded(call, result) ==
  [NoCall EXCEPT !.result = result, !.done = call.done]
Gone(call) == CallEnded(call, "cancelled")
Failed(call) == CallEnded(call, "failed")
Sent(call) ==
  IF call.gone THEN Gone(call) ELSE [call EXCEPT !.at = "sent", !.bears = token]

(* waitForServer: a call joins the attempt there is, or begins one.        *)
Joined ==
  [(IF attempt = NoAttempt THEN Polling(1) ELSE attempt) EXCEPT !.waiters = @ + 1]

WaitForServer(c, call, force) ==
  IF ready /\ ~force
  THEN calls' = [calls EXCEPT ![c] = Sent(call)] /\ UNCHANGED attempt
  ELSE /\ calls' = [calls EXCEPT ![c] = [call EXCEPT !.at = "waits", !.forced = force]]
       /\ attempt' = Joined

Begin(c, read) ==
  /\ calls[c].at = "over"
  /\ WaitForServer(c, [NoCall EXCEPT !.read = read], FALSE)
  /\ UNCHANGED <<serverUp, session, token, ready, waking, renewing, signedOut>>

(* A call that is tried again passes the interceptor again.                *)
Again(c) ==
  /\ calls[c].at = "again"
  /\ IF calls[c].gone
     THEN calls' = [calls EXCEPT ![c] = Gone(@)] /\ UNCHANGED attempt
     ELSE WaitForServer(c, calls[c], FALSE)
  /\ UNCHANGED <<serverUp, session, token, ready, waking, renewing, signedOut>>

(* Mutant of Released: the attempt goes on when nobody waits any more.     *)
Released_GoesOn == [attempt EXCEPT !.waiters = @ - 1]

(* The last one that gives up takes the health check along.                *)
Released == [attempt EXCEPT !.waiters = @ - 1, !.aborted = @ \/ attempt.waiters = 1]

(* The caller aborts: its screen is closed.                                *)
Cancel(c) ==
  /\ calls[c].at \in {"waits", "told", "sent", "renews", "again"}
  /\ ~calls[c].gone
  /\ calls' = [calls EXCEPT ![c] =
       IF @.at \in {"waits", "told", "sent"} THEN Gone(@) ELSE [@ EXCEPT !.gone = TRUE]]
  /\ attempt' = IF calls[c].at = "waits" THEN Released ELSE attempt
  /\ UNCHANGED <<serverUp, session, token, ready, waking, renewing, signedOut>>

-----------------------------------------------------------------------------
(* pollUntilServerReady.                                                   *)

(* The attempt is over: it is taken down, then everyone who waits is told. *)
Settle(result) ==
  /\ attempt' = NoAttempt
  /\ waking' = IF attempt.announced THEN FALSE ELSE waking
  /\ calls' = [c \in Calls |->
       IF c \in Waiting THEN [calls[c] EXCEPT !.at = "told", !.result = result] ELSE calls[c]]

ServerReady ==
  /\ attempt.st = "asks" /\ ~attempt.aborted
  /\ serverUp
  /\ ready' = TRUE
  /\ Settle("ok")
  /\ UNCHANGED <<serverUp, session, token, renewing, signedOut>>

(* Only the first check that fails announces that the server wakes up.     *)
NotReady ==
  /\ attempt.st = "asks" /\ ~attempt.aborted
  /\ ~serverUp
  /\ attempt.checks < MaxChecks
  /\ attempt' = [attempt EXCEPT !.st = "sleeps", !.announced = TRUE]
  /\ waking' = TRUE
  /\ UNCHANGED <<serverUp, session, token, ready, renewing, calls, signedOut>>

CheckAgain ==
  /\ attempt.st = "sleeps" /\ ~attempt.aborted
  /\ attempt' = [attempt EXCEPT !.st = "asks", !.checks = @ + 1]
  /\ UNCHANGED <<serverUp, session, token, ready, waking, renewing, calls, signedOut>>

(* ServerWakeTimeoutError, or an answer that is not worth another try.     *)
WakeFails ==
  /\ attempt.st = "asks" /\ ~attempt.aborted
  /\ ~serverUp
  /\ Settle("failed")
  /\ UNCHANGED <<serverUp, session, token, ready, renewing, signedOut>>

(* The abort reaches the health check or the pause between two. Whoever    *)
(* joined in between is cancelled with it.                                 *)
AttemptAborts ==
  /\ attempt # NoAttempt
  /\ attempt.aborted
  /\ Settle("cancelled")
  /\ UNCHANGED <<serverUp, session, token, ready, renewing, signedOut>>

(* A waiter hears how the attempt went.                                    *)
Told(c) ==
  LET call == calls[c]
  IN  /\ call.at = "told"
      /\ calls' = [calls EXCEPT ![c] =
           CASE call.result = "ok" /\ call.forced -> [call EXCEPT !.at = "again", !.result = "none"]
             [] call.result = "ok" /\ ~call.forced -> Sent([call EXCEPT !.result = "none"])
             [] OTHER -> CallEnded(call, call.result)]
      /\ UNCHANGED <<serverUp, session, token, ready, attempt, waking, renewing, signedOut>>

-----------------------------------------------------------------------------
(* The response interceptor.                                               *)
Answered(c) ==
  /\ calls[c].at = "sent"
  /\ serverUp
  /\ calls[c].bears = "fresh"
  /\ calls' = [calls EXCEPT ![c] = CallEnded([@ EXCEPT !.done = Carried(calls[c])], "answer")]
  /\ \/ ready' = TRUE
     \/ UNCHANGED ready    \* the answer is a refusal
  /\ UNCHANGED <<serverUp, session, token, attempt, waking, renewing, signedOut>>

(* Mutant of MayRetry: a read is tried again as often as the server is not *)
(* there.                                                                  *)
MayRetry_Always(call) == call.read

(* Only what changes nothing is tried again, and only once.                *)
MayRetry(call) == call.read /\ ~call.woken

(* The server is not there; it may have carried the call out before.       *)
Unavailable(c) ==
  /\ calls[c].at = "sent"
  /\ ~serverUp
  /\ ready' = FALSE
  /\ \E done \in {calls[c].done, Carried(calls[c])} :
       LET call == [calls[c] EXCEPT !.done = done, !.bears = "none"]
       IN  IF MayRetry(call)
           THEN WaitForServer(c, [call EXCEPT !.woken = TRUE], TRUE)
           ELSE calls' = [calls EXCEPT ![c] = Failed(call)] /\ UNCHANGED attempt
  /\ UNCHANGED <<serverUp, session, token, waking, renewing, signedOut>>

(* TOKEN_EXPIRED: await the refresh there is, or begin one.                *)
TokenRefused(c) ==
  /\ calls[c].at = "sent"
  /\ serverUp
  /\ calls[c].bears = "stale"
  /\ IF calls[c].renewed
     THEN calls' = [calls EXCEPT ![c] = Failed(@)] /\ UNCHANGED renewing
     ELSE /\ calls' = [calls EXCEPT ![c].at = "renews", ![c].bears = "none",
                                   ![c].renewed = TRUE]
          /\ renewing' = TRUE
  /\ UNCHANGED <<serverUp, session, token, ready, attempt, waking, signedOut>>

(* Without a token the API refuses for good.                               *)
SignInNeeded(c) ==
  /\ calls[c].at = "sent"
  /\ serverUp
  /\ calls[c].bears = "none"
  /\ calls' = [calls EXCEPT ![c] = Failed(@)]
  /\ UNCHANGED <<serverUp, session, token, ready, attempt, waking, renewing, signedOut>>

Renewed(next) ==
  calls' = [c \in Calls |-> IF calls[c].at = "renews" THEN next[c] ELSE calls[c]]

RefreshSucceeds ==
  /\ renewing
  /\ serverUp /\ session
  /\ renewing' = FALSE
  /\ token' = "fresh"
  /\ Renewed([c \in Calls |-> [calls[c] EXCEPT !.at = "again"]])
  /\ UNCHANGED <<serverUp, session, ready, attempt, waking, signedOut>>

(* Only a rejected session means signed out.                               *)
RefreshRejected ==
  /\ renewing
  /\ serverUp /\ ~session
  /\ renewing' = FALSE
  /\ token' = "none"
  /\ signedOut' = TRUE
  /\ Renewed([c \in Calls |-> Failed(calls[c])])
  /\ UNCHANGED <<serverUp, session, ready, attempt, waking>>

RefreshFails ==
  /\ renewing
  /\ ~serverUp
  /\ renewing' = FALSE
  /\ Renewed([c \in Calls |-> Failed(calls[c])])
  /\ UNCHANGED <<serverUp, session, token, ready, attempt, waking, signedOut>>

-----------------------------------------------------------------------------
(* What happens meanwhile.                                                 *)
ServerComesAndGoes ==
  /\ serverUp' = ~serverUp
  /\ UNCHANGED <<session, token, ready, attempt, waking, renewing, calls, signedOut>>

SessionEnds ==
  /\ session
  /\ session' = FALSE
  /\ UNCHANGED <<serverUp, token, ready, attempt, waking, renewing, calls, signedOut>>

(* Bound: a token outlives the call it was renewed for.                    *)
TokenExpires ==
  /\ token = "fresh"
  /\ \A c \in Calls : ~calls[c].renewed
  /\ token' = "stale"
  /\ UNCHANGED <<serverUp, session, ready, attempt, waking, renewing, calls, signedOut>>

(* SERVER_READY_CACHE_MS.                                                  *)
ReadyForgotten ==
  /\ ready
  /\ ready' = FALSE
  /\ UNCHANGED <<serverUp, session, token, attempt, waking, renewing, calls, signedOut>>

ClientInit ==
  /\ serverUp \in BOOLEAN
  /\ session = TRUE
  /\ token = "fresh"
  /\ ready = FALSE
  /\ attempt = NoAttempt
  /\ waking = FALSE
  /\ renewing = FALSE
  /\ calls = [c \in Calls |-> NoCall]
  /\ signedOut = FALSE

Health == ServerReady \/ NotReady \/ CheckAgain \/ WakeFails \/ AttemptAborts
Refresh == RefreshSucceeds \/ RefreshRejected \/ RefreshFails
Proceeds(c) ==
  \/ Again(c) \/ Told(c) \/ Answered(c) \/ Unavailable(c)
  \/ TokenRefused(c) \/ SignInNeeded(c)

ClientNext ==
  \/ \E c \in Calls : Proceeds(c) \/ Cancel(c) \/ \E read \in BOOLEAN : Begin(c, read)
  \/ Health \/ Refresh
  \/ ServerComesAndGoes \/ SessionEnds \/ TokenExpires \/ ReadyForgotten

(* Health checks, refreshes and requests have timeouts, and handlers run.  *)
ClientFairness ==
  /\ WF_clientVars(Health)
  /\ WF_clientVars(Refresh)
  /\ \A c \in Calls : WF_clientVars(Proceeds(c))

ClientSpec == ClientInit /\ [][ClientNext]_clientVars /\ ClientFairness

-----------------------------------------------------------------------------
(* Calls, token and attempt have their types.                              *)
ClientTypeOK ==
  /\ token \in {"none", "stale", "fresh"}
  /\ \A c \in Calls :
       /\ calls[c].at \in {"waits", "told", "sent", "renews", "again", "over"}
       /\ calls[c].result \in {"none", "ok", "answer", "cancelled", "failed"}
  /\ attempt # NoAttempt => attempt.checks \in 1..MaxChecks

(* The count of waiters is right, the server is not asked for nobody, and  *)
(* the wake-up screen shows while and only while a check has failed.       *)
WaitersCounted ==
  /\ attempt = NoAttempt => Waiting = {} /\ ~waking
  /\ attempt # NoAttempt =>
       /\ attempt.waiters = Cardinality(Waiting)
       /\ Waiting = {} => attempt.aborted
       /\ waking = attempt.announced

(* Nothing that changes data is carried out twice, whichever of wake-up    *)
(* and refresh it meets.                                                   *)
WritesOnce == \A c \in Calls : calls[c].done <= 1

(* "Only a rejected session means signed out."                             *)
SignedOutRightly == (signedOut => ~session) /\ (token = "none" <=> signedOut)

(* A refresh is under way while calls wait for it, and only then.          *)
RenewedForSomebody == renewing <=> \E c \in Calls : calls[c].at = "renews"

CallsInOrder == WaitersCounted /\ WritesOnce /\ SignedOutRightly /\ RenewedForSomebody

(* Every call ends. And once the server stays and the session holds, calls *)
(* are answered: no failure of the time before is remembered for ever.     *)
CallsServed ==
  /\ \A c \in Calls : []<>(calls[c].at = "over")
  /\ <>[](serverUp /\ session) =>
       <>[][\A c \in Calls : calls'[c].result = "failed" => calls[c].result = "failed"]_calls

=============================================================================
