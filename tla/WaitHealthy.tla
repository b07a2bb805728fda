---------------------------- MODULE WaitHealthy ----------------------------
(***************************************************************************)
(* Client.WaitHealthy (remote/health.go): poll GET /health until the       *)
(* service answers "ok" or the caller's context ends.  Time is modelled by *)
(* countdowns: the caller's deadline, the attempt's timeout and the ticker *)
(* each hold the units left, and Advance takes one unit from all of them.  *)
(* A timer that is due fires before time goes on, in any order with what   *)
(* else happens at that instant.  The goroutine's own steps take no time,  *)
(* except that it may be kept off the processor for MaxStall units in all. *)
(***************************************************************************)
EXTENDS Integers

CONSTANTS
    Intervals,      \* the interval argument
    Deadlines,      \* units until the caller's deadline; Never for none
    Never,
    MaxLatency,     \* a healthy service answers within this many units
    MaxStall        \* bound on the time the goroutine is not scheduled

ASSUME IntervalsAssumption == Intervals \subseteq Int
ASSUME DeadlinesAssumption == /\ Deadlines \subseteq Nat \cup {Never}
                              /\ Never \notin Int
ASSUME LatencyAssumption == MaxLatency \in Nat /\ MaxStall \in Nat

\* "starting" stands for every answer that is not a healthy one: another
\* status, an HTTP error, a refused connection.
Answers == {"ok", "starting"}
Statuses == Answers \cup {"hung"}

VARIABLES
    pc,         \* where the goroutine is in WaitHealthy
    interval,   \* the argument
    left,       \* units to the caller's deadline
    ctxErr,     \* ctx.Err() of the caller's context
    attempt,    \* units to the attempt's own timeout
    attemptErr, \* that timeout has fired
    ticker,     \* units to the ticker's next tick
    ticked,     \* a tick waits in ticker.C
    service,    \* what /health would say now
    flight,     \* the request: "none", "sent", "lost", or its answer
    health,     \* what Health returned
    result,     \* what WaitHealthy returned
    \* Ghosts: they are read by the properties and by Advance alone.
    age,        \* units the request has been waiting for its answer
    paused,     \* units since the last attempt failed, up to interval
    okFor,      \* units the service has been healthy without a break
    late,       \* units the call went on after the caller's context ended
    stalled,    \* units the goroutine was runnable and did not run
    saidOk      \* the service answered "ok" to a request of this call

clientVars == <<pc, attempt, flight, health, result, age, paused>>
timerVars == <<left, ctxErr, attemptErr, ticker, ticked>>
ghostVars == <<okFor, late, stalled, saidOk>>
vars == <<clientVars, timerVars, ghostVars, interval, service>>

TypeOK ==
    /\ pc \in {"begin", "loop", "request", "returned", "select", "done"}
    /\ interval \in Intervals
    /\ pc \notin {"begin", "done"} => interval > 0
    /\ left \in Nat \cup {Never}
    /\ ctxErr \in {"nil", "deadline", "canceled"}
    /\ attempt \in Nat /\ attemptErr \in BOOLEAN
    /\ ticker \in Nat /\ ticked \in BOOLEAN
    /\ service \in Statuses
    /\ flight \in {"none", "sent", "lost"} \cup Answers
    /\ health \in {"none", "failed"} \cup Answers
    /\ result \in {"none", "nil", "badInterval", "deadline", "canceled"}
    /\ age \in Nat /\ paused \in Nat
    /\ okFor \in Nat /\ late \in Nat /\ stalled \in Nat
    /\ saidOk \in BOOLEAN

Init ==
    /\ pc = "begin"
    /\ interval \in Intervals
    /\ left \in Deadlines
    /\ ctxErr = "nil"
    /\ attempt = 0 /\ attemptErr = FALSE
    /\ ticker = 0 /\ ticked = FALSE
    /\ service \in Statuses
    /\ flight = "none" /\ health = "none" /\ result = "none"
    /\ age = 0 /\ paused = 0
    /\ okFor = 0 /\ late = 0 /\ stalled = 0
    /\ saidOk = FALSE

(***************************************************************************)
(* The goroutine.                                                          *)
(***************************************************************************)

Return(r) == pc' = "done" /\ result' = r

\* The guard on the interval, then the new ticker.
Begin ==
    /\ pc = "begin"
    /\ IF interval <= 0
       THEN Return("badInterval") /\ UNCHANGED <<ticker, paused>>
       ELSE /\ pc' = "loop" /\ ticker' = interval
            /\ paused' = interval
            /\ UNCHANGED result
    /\ UNCHANGED <<attempt, flight, health, age, interval, service,
                   left, ctxErr, attemptErr, ticked, ghostVars>>

\* The loop's condition, and Health sending its request under attemptCtx.
Attempt ==
    /\ pc = "loop" /\ ctxErr = "nil"
    /\ pc' = "request"
    /\ attempt' = interval /\ attemptErr' = FALSE
    /\ flight' = "sent" /\ age' = 0
    /\ UNCHANGED <<health, result, paused, interval, service,
                   left, ctxErr, ticker, ticked, ghostVars>>

\* Mutant: only a deadline ends the loop, a cancellation does not.
GiveUp_DeadlineOnly ==
    /\ pc = "loop" /\ ctxErr = "deadline"
    /\ Return(ctxErr)
    /\ UNCHANGED <<attempt, flight, health, age, paused, interval, service,
                   timerVars, ghostVars>>

\* The loop's condition failing: the caller's own error is returned.
GiveUp ==
    /\ pc = "loop" /\ ctxErr # "nil"
    /\ Return(ctxErr)
    /\ UNCHANGED <<attempt, flight, health, age, paused, interval, service,
                   timerVars, ghostVars>>

\* Mutant: the attempt's context is not derived from the caller's.
attemptDone_Detached == attemptErr

\* Mutant: the attempt runs under the caller's context itself.
attemptDone_CallerOnly == ctxErr # "nil"

\* attemptCtx is a child of the caller's context: it ends with either.
attemptDone == attemptErr \/ ctxErr # "nil"

\* Health returns: with the answer, or with the context's error.  With both
\* there the HTTP client may return either.
HealthReturns ==
    /\ pc = "request"
    /\ \/ flight \in Answers /\ health' = flight
       \/ attemptDone /\ health' = "failed"
    /\ pc' = "returned"
    /\ flight' = "none" /\ age' = 0
    /\ UNCHANGED <<attempt, result, paused, interval, service,
                   timerVars, ghostVars>>

\* Mutant: the pause runs on the ticker as it happens to stand.
Reset_Dropped == UNCHANGED <<ticker, ticked>>

\* ticker.Reset also drops a tick that is already in the channel (Go 1.23).
Reset == ticker' = interval /\ ticked' = FALSE

Outcome(healthy) ==
    /\ pc = "returned"
    /\ \/ /\ healthy
          /\ Return("nil")
          /\ UNCHANGED <<ticker, ticked, paused>>
       \/ /\ ~healthy
          /\ pc' = "select"
          /\ Reset
          /\ paused' = 0
          /\ UNCHANGED result
    /\ UNCHANGED <<attempt, flight, health, age, interval, service,
                   left, ctxErr, attemptErr, ghostVars>>

\* Mutant: the caller's context is looked at before the answer is.
Settle_ContextFirst == Outcome(health = "ok" /\ ctxErr = "nil")

\* What follows Health: "ok" ends the wait whatever became of the caller's
\* context, anything else starts the pause.
Settle == Outcome(health = "ok")

\* The pause: with both ready the runtime picks either.
Select ==
    /\ pc = "select"
    /\ \/ ctxErr # "nil" /\ UNCHANGED ticked
       \/ ticked /\ ticked' = FALSE
    /\ pc' = "loop"
    /\ UNCHANGED <<attempt, flight, health, result, age, paused, interval,
                   service, left, ctxErr, attemptErr, ticker, ghostVars>>

Client == Begin \/ Attempt \/ GiveUp \/ HealthReturns \/ Settle \/ Select

Runnable ==
    \/ pc \in {"begin", "loop", "returned"}
    \/ pc = "request" /\ (flight \in Answers \/ attemptDone)
    \/ pc = "select" /\ (ticked \/ ctxErr # "nil")

(***************************************************************************)
(* The timers, the caller, the service and the clock.                      *)
(***************************************************************************)

\* A timer counts from the moment it is set, and only while its owner uses it.
deadlineDue == left = 0 /\ ctxErr = "nil"
attemptDue == pc = "request" /\ attempt = 0 /\ ~attemptErr
tickDue == pc \notin {"begin", "done"} /\ ticker = 0

Lapse ==
    /\ deadlineDue
    /\ ctxErr' = "deadline"
    /\ UNCHANGED <<left, attemptErr, ticker, ticked, clientVars, ghostVars,
                   interval, service>>

AttemptLapses ==
    /\ attemptDue
    /\ attemptErr' = TRUE
    /\ UNCHANGED <<left, ctxErr, ticker, ticked, clientVars, ghostVars,
                   interval, service>>

Tick ==
    /\ tickDue
    /\ ticked' = TRUE /\ ticker' = interval
    /\ UNCHANGED <<left, ctxErr, attemptErr, clientVars, ghostVars,
                   interval, service>>

\* The caller cancels its context.
Cancel ==
    /\ pc # "done" /\ ctxErr = "nil"
    /\ ctxErr' = "canceled"
    /\ UNCHANGED <<left, attemptErr, ticker, ticked, clientVars, ghostVars,
                   interval, service>>

\* A service that restarts may drop the request it had.
Change(s) ==
    /\ pc # "done" /\ s # service
    /\ service' = s
    /\ okFor' = 0
    /\ flight' \in IF flight = "sent" THEN {"sent", "lost"} ELSE {flight}
    /\ UNCHANGED <<pc, attempt, health, result, age, paused, timerVars,
                   interval, late, stalled, saidOk>>

Answer ==
    /\ flight = "sent" /\ service # "hung"
    /\ flight' = service
    /\ saidOk' = (saidOk \/ service = "ok")
    /\ UNCHANGED <<pc, attempt, health, result, age, paused, timerVars,
                   interval, service, okFor, late, stalled>>

less(n) == IF n = Never THEN Never ELSE IF n > 0 THEN n - 1 ELSE 0
more(n, cap) == IF n < cap THEN n + 1 ELSE n

\* The longest a healthy service can go unnoticed: a request that was lost
\* runs into its timeout, the pause follows, and the next one is answered.
NoticeBound == 2 * interval + MaxLatency

Advance ==
    /\ pc # "done"
    /\ ~deadlineDue /\ ~attemptDue /\ ~tickDue
    /\ Runnable => stalled < MaxStall
    /\ ~(service = "ok" /\ flight = "sent" /\ age >= MaxLatency)
    /\ left' = less(left)
    /\ attempt' = less(attempt)
    /\ ticker' = less(ticker)
    /\ age' = more(age, MaxLatency)
    /\ paused' = more(paused, interval)
    /\ okFor' = IF service = "ok" THEN more(okFor, NoticeBound + MaxStall + 1)
                ELSE 0
    /\ late' = IF ctxErr # "nil" THEN late + 1 ELSE late
    /\ stalled' = IF Runnable THEN stalled + 1 ELSE stalled
    /\ UNCHANGED <<pc, flight, health, result, ctxErr, attemptErr, ticked,
                   interval, service, saidOk>>

Terminated == pc = "done" /\ UNCHANGED vars

Next ==
    \/ Begin \/ Attempt \/ GiveUp \/ HealthReturns \/ Settle \/ Select
    \/ Lapse \/ AttemptLapses \/ Tick \/ Cancel
    \/ \E s \in Statuses : Change(s)
    \/ Answer \/ Advance
    \/ Terminated

\* The goroutine and the runtime's timers run, time passes, and a service
\* that keeps being healthy answers.
Fairness ==
    /\ WF_vars(Client) /\ WF_vars(Lapse) /\ WF_vars(AttemptLapses)
    /\ WF_vars(Tick) /\ WF_vars(Answer) /\ WF_vars(Advance)

Spec == Init /\ [][Next]_vars /\ Fairness

(***************************************************************************)
(* Properties.                                                             *)
(***************************************************************************)

\* WaitHealthy returns nil only when the service answered "ok" to a request
\* of this very call.  Any other return carries the caller's own error, and
\* then no "ok" was in hand: one that Health returned as the context ended is
\* never traded for the context's error or for one more attempt.
NilMeansOk ==
    pc = "done" =>
        CASE result = "nil" -> saidOk
          [] result = "badInterval" -> interval <= 0
          [] OTHER -> result = ctxErr /\ ctxErr # "nil" /\ health # "ok"

\* After a failed attempt a whole interval passes before the next request:
\* a tick that fell due during the attempt does not shorten the pause.
PausesAfterFailure ==
    [][(pc # "request" /\ pc' = "request") => paused = interval]_vars

\* The call outlives the caller's context only by the time the goroutine was
\* not scheduled: neither a request nor a pause is sat out.
EndsWithTheContext == late <= stalled

\* A service that has been healthy for two intervals and its own latency has
\* been noticed: a hung request or a pause costs one interval each, never more.
HealthyIsNoticed ==
    (pc # "done" /\ ctxErr = "nil" /\ interval > MaxLatency + MaxStall)
        => okFor <= NoticeBound + stalled

\* The wait ends once the caller's context has, and once the service is healthy
\* for good, if the interval leaves it time to answer.
Returns ==
    /\ ctxErr # "nil" ~> pc = "done"
    /\ (<>[](service = "ok") /\ interval > MaxLatency) => <>(pc = "done")
=============================================================================
