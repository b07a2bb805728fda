-------------------------- MODULE WaitHealthyProofs --------------------------
(***************************************************************************)
(* The safety of WaitHealthy for every interval, deadline, latency and     *)
(* stall: what a nil return means, that a pause is never cut short, that   *)
(* an "ok" is never lost, that the call ends with the caller's context and *)
(* how long a healthy service can go unnoticed.                            *)
(***************************************************************************)
EXTENDS WaitHealthy, TLAPS

(* A countdown and a capped counter stay natural numbers. *)
LEMMA LessType == \A n \in Nat \cup {Never} :
                     /\ less(n) \in Nat \cup {Never}
                     /\ n \in Nat => less(n) \in Nat
BY DeadlinesAssumption DEF less

LEMMA MoreType == \A n \in Nat, cap \in Int : more(n, cap) \in Nat
BY DEF more

LEMMA TypeInductive == TypeOK /\ [Next]_vars => TypeOK'
<1> USE DEF Answers, Statuses
<1> SUFFICES ASSUME TypeOK, [Next]_vars PROVE TypeOK'
    OBVIOUS
<1>0. interval \in Int
    BY IntervalsAssumption DEF TypeOK
<1>1. CASE Begin
    BY <1>0, <1>1 DEF Begin, Return, TypeOK, ghostVars
<1>2. CASE Attempt
    <2>1. attemptErr' \in BOOLEAN /\ ticked' \in BOOLEAN /\ saidOk' \in BOOLEAN
        BY <1>2, Zenon DEF Attempt, TypeOK, ghostVars
    <2>2. attempt' \in Nat
        BY <1>0, <1>2 DEF Attempt, TypeOK
    <2> QED BY <1>2, <2>1, <2>2 DEF Attempt, TypeOK, ghostVars
<1>3. CASE GiveUp
    BY <1>0, <1>3 DEF GiveUp, Return, TypeOK, ghostVars, timerVars
<1>4. CASE HealthReturns
    BY <1>0, <1>4 DEF HealthReturns, TypeOK, ghostVars, timerVars
<1>5. CASE Settle
    <2>1. attemptErr' \in BOOLEAN /\ ticked' \in BOOLEAN /\ saidOk' \in BOOLEAN
        BY <1>5, Zenon DEF Settle, Outcome, Reset, TypeOK, ghostVars
    <2>2. ticker' \in Nat /\ paused' \in Nat
        BY <1>0, <1>5 DEF Settle, Outcome, Reset, TypeOK
    <2> QED BY <1>5, <2>1, <2>2 DEF Settle, Outcome, Return, TypeOK, ghostVars
<1>6. CASE Select
    <2>1. ticked' \in BOOLEAN
        BY <1>6, Zenon DEF Select, TypeOK
    <2> QED BY <1>6, <2>1 DEF Select, TypeOK, ghostVars
<1>7. CASE Lapse \/ AttemptLapses \/ Tick \/ Cancel
    <2>1. attemptErr' \in BOOLEAN /\ ticked' \in BOOLEAN
        BY <1>7, Zenon DEF Lapse, AttemptLapses, Tick, Cancel, TypeOK
    <2>2. ticker' \in Nat
        BY <1>0, <1>7 DEF Lapse, AttemptLapses, Tick, Cancel, tickDue, TypeOK
    <2> QED BY <1>7, <2>1, <2>2 DEF Lapse, AttemptLapses, Tick, Cancel, TypeOK,
                                    ghostVars, clientVars
<1>8. CASE \E s \in Statuses : Change(s)
    BY <1>0, <1>8 DEF Change, TypeOK, timerVars
<1>9. CASE Answer
    BY <1>0, <1>9 DEF Answer, TypeOK, timerVars
<1>10. CASE Advance
    <2>1. /\ left' \in Nat \cup {Never}
          /\ attempt' \in Nat /\ ticker' \in Nat
        BY <1>10, LessType DEF Advance, TypeOK
    <2>2. /\ age' \in Nat /\ paused' \in Nat
        BY <1>0, <1>10, MoreType, LatencyAssumption DEF Advance, TypeOK
    <2>3. NoticeBound + MaxStall + 1 \in Int
        BY <1>0, LatencyAssumption DEF NoticeBound
    <2>4. okFor' \in Nat
        BY <2>3, <1>10, MoreType DEF Advance, TypeOK
    <2>5. late' \in Nat /\ stalled' \in Nat
        BY <1>10 DEF Advance, TypeOK
    <2> QED BY <1>10, <2>1, <2>2, <2>4, <2>5 DEF Advance, TypeOK
<1>11. CASE UNCHANGED vars
    BY <1>11 DEF vars, clientVars, timerVars, ghostVars, TypeOK
<1> QED
    BY <1>1, <1>2, <1>3, <1>4, <1>5, <1>6, <1>7, <1>8, <1>9, <1>10, <1>11
       DEF Next, Terminated

LEMMA TypeInit == Init => TypeOK
<1> SUFFICES ASSUME Init PROVE TypeOK
    OBVIOUS
<1>1. attemptErr \in BOOLEAN /\ ticked \in BOOLEAN /\ saidOk \in BOOLEAN
    BY Zenon DEF Init
<1> QED BY <1>1, DeadlinesAssumption DEF Init, TypeOK, Statuses, Answers

(* WaitHealthy keeps to the types of its state. *)
THEOREM TypeCorrect == Spec => []TypeOK
<1>1. Init => TypeOK
    BY TypeInit
<1>2. TypeOK /\ [Next]_vars => TypeOK'
    BY TypeInductive
<1> QED BY <1>1, <1>2, PTL DEF Spec

-----------------------------------------------------------------------------
(* An "ok" in flight, or returned by Health, is one the service said. *)
OkWasSaid == (flight = "ok" \/ health = "ok") => saidOk

(* A goroutine that goes on waiting was not given an "ok".                  *)
WaitsWithoutOk == pc \in {"begin", "loop", "request", "select"} => health # "ok"

(* In the pause, the ticker has exactly the rest of the interval to go.    *)
PauseIsTimed ==
    /\ pc = "select" => IF ticked THEN paused = interval
                                  ELSE paused + ticker = interval
    /\ (pc = "loop" /\ ctxErr = "nil") => paused = interval

IInv == /\ TypeOK /\ OkWasSaid /\ WaitsWithoutOk
        /\ NilMeansOk /\ PauseIsTimed /\ EndsWithTheContext

LEMMA OkWasSaidStep == TypeOK /\ OkWasSaid /\ [Next]_vars => OkWasSaid'
<1> SUFFICES ASSUME TypeOK, OkWasSaid, [Next]_vars PROVE OkWasSaid'
    OBVIOUS
<1>1. CASE Answer
    BY <1>1 DEF Answer, TypeOK, OkWasSaid
<1>2. CASE HealthReturns
    BY <1>2 DEF HealthReturns, ghostVars, OkWasSaid
<1>3. CASE \E s \in Statuses : Change(s)
    BY <1>3 DEF Change, OkWasSaid
<1>4. CASE Begin \/ Attempt \/ GiveUp \/ Settle \/ Select
    BY <1>4 DEF Begin, Attempt, GiveUp, Settle, Outcome, Select, ghostVars, OkWasSaid
<1>5. CASE Lapse \/ AttemptLapses \/ Tick \/ Cancel \/ Advance \/ UNCHANGED vars
    BY <1>5 DEF Lapse, AttemptLapses, Tick, Cancel, Advance, vars, clientVars,
                ghostVars, OkWasSaid
<1> QED BY <1>1, <1>2, <1>3, <1>4, <1>5 DEF Next, Terminated

LEMMA WaitsWithoutOkStep == WaitsWithoutOk /\ [Next]_vars => WaitsWithoutOk'
<1> SUFFICES ASSUME WaitsWithoutOk, [Next]_vars PROVE WaitsWithoutOk'
    OBVIOUS
<1>1. CASE Begin \/ Attempt \/ GiveUp \/ Select
    BY <1>1 DEF Begin, Attempt, GiveUp, Select, Return, WaitsWithoutOk
<1>2. CASE HealthReturns
    BY <1>2 DEF HealthReturns, WaitsWithoutOk
<1>3. CASE Settle
    BY <1>3 DEF Settle, Outcome, Return, WaitsWithoutOk
<1>4. CASE Lapse \/ AttemptLapses \/ Tick \/ Cancel
    BY <1>4 DEF Lapse, AttemptLapses, Tick, Cancel, clientVars, WaitsWithoutOk
<1>5. CASE (\E s \in Statuses : Change(s)) \/ Answer \/ Advance
    BY <1>5 DEF Change, Answer, Advance, WaitsWithoutOk
<1>6. CASE UNCHANGED vars
    BY <1>6 DEF vars, clientVars, WaitsWithoutOk
<1> QED BY <1>1, <1>2, <1>3, <1>4, <1>5, <1>6 DEF Next, Terminated

LEMMA NilMeansOkStep ==
    TypeOK /\ OkWasSaid /\ WaitsWithoutOk /\ NilMeansOk /\ [Next]_vars
        => NilMeansOk'
<1> SUFFICES ASSUME TypeOK, OkWasSaid, WaitsWithoutOk, NilMeansOk, [Next]_vars
             PROVE  NilMeansOk'
    OBVIOUS
<1>0. interval \in Int
    BY IntervalsAssumption DEF TypeOK
<1>1. CASE Begin
    BY <1>0, <1>1 DEF Begin, Return, NilMeansOk
<1>2. CASE GiveUp
    BY <1>2 DEF GiveUp, Return, timerVars, TypeOK, WaitsWithoutOk, NilMeansOk
<1>3. CASE Settle
    BY <1>3 DEF Settle, Outcome, Return, ghostVars, OkWasSaid, NilMeansOk
<1>4. CASE Attempt \/ HealthReturns \/ Select
    BY <1>4 DEF Attempt, HealthReturns, Select, NilMeansOk
<1>5. CASE Cancel
    BY <1>5 DEF Cancel, clientVars, NilMeansOk
<1>6. CASE Lapse
    BY <1>6 DEF Lapse, deadlineDue, clientVars, ghostVars, TypeOK, NilMeansOk
<1>7. CASE AttemptLapses \/ Tick
    BY <1>7 DEF AttemptLapses, Tick, clientVars, ghostVars, NilMeansOk
<1>8. CASE (\E s \in Statuses : Change(s)) \/ Advance
    BY <1>8 DEF Change, Advance, timerVars, NilMeansOk
<1>9. CASE Answer
    BY <1>9 DEF Answer, timerVars, TypeOK, NilMeansOk
<1>10. CASE UNCHANGED vars
    BY <1>10 DEF vars, clientVars, timerVars, ghostVars, NilMeansOk
<1> QED BY <1>1, <1>2, <1>3, <1>4, <1>5, <1>6, <1>7, <1>8, <1>9, <1>10
           DEF Next, Terminated

LEMMA PauseIsTimedStep == TypeOK /\ PauseIsTimed /\ [Next]_vars => PauseIsTimed'
<1> SUFFICES ASSUME TypeOK, PauseIsTimed, [Next]_vars PROVE PauseIsTimed'
    OBVIOUS
<1>0. interval \in Int
    BY IntervalsAssumption DEF TypeOK
<1>1. CASE Begin \/ Attempt \/ GiveUp \/ HealthReturns
    BY <1>0, <1>1 DEF Begin, Attempt, GiveUp, HealthReturns, Return, PauseIsTimed
<1>2. CASE Settle
    BY <1>0, <1>2 DEF Settle, Outcome, Reset, Return, PauseIsTimed
<1>3. CASE Select
    BY <1>0, <1>3 DEF Select, PauseIsTimed
<1>4. CASE Lapse \/ AttemptLapses \/ Cancel
    BY <1>0, <1>4 DEF Lapse, AttemptLapses, Cancel, clientVars, PauseIsTimed
<1>5. CASE Tick
    BY <1>0, <1>5 DEF Tick, tickDue, clientVars, TypeOK, PauseIsTimed
<1>6. CASE (\E s \in Statuses : Change(s)) \/ Answer
    BY <1>0, <1>6 DEF Change, Answer, timerVars, PauseIsTimed
<1>7. CASE Advance
    <2>1. ASSUME pc = "select", ~ticked PROVE ticker > 0 /\ ticker' = ticker - 1
        BY <1>7, <2>1, DeadlinesAssumption DEF Advance, tickDue, less, TypeOK
    <2>2. paused' = IF paused < interval THEN paused + 1 ELSE paused
        BY <1>7 DEF Advance, more
    <2> QED BY <1>0, <1>7, <2>1, <2>2 DEF Advance, TypeOK, PauseIsTimed
<1>8. CASE UNCHANGED vars
    BY <1>8 DEF vars, clientVars, timerVars, PauseIsTimed
<1> QED BY <1>1, <1>2, <1>3, <1>4, <1>5, <1>6, <1>7, <1>8 DEF Next, Terminated

(* Time that passes after the context ended is time the goroutine could    *)
(* have run in.                                                            *)
LEMMA EndsStep ==
    TypeOK /\ EndsWithTheContext /\ [Next]_vars => EndsWithTheContext'
<1> SUFFICES ASSUME TypeOK, EndsWithTheContext, [Next]_vars
             PROVE  EndsWithTheContext'
    OBVIOUS
<1>1. CASE Advance
    <2>1. ctxErr # "nil" => Runnable
        BY <1>1 DEF Advance, Runnable, attemptDone, TypeOK
    <2>2. late' = IF ctxErr # "nil" THEN late + 1 ELSE late
        BY <1>1 DEF Advance
    <2>3. stalled' = IF Runnable THEN stalled + 1 ELSE stalled
        BY <1>1 DEF Advance
    <2> QED BY <2>1, <2>2, <2>3 DEF TypeOK, EndsWithTheContext
<1>2. CASE UNCHANGED <<late, stalled>>
    BY <1>2 DEF EndsWithTheContext
<1>3. [Next]_vars => Advance \/ UNCHANGED <<late, stalled>>
    BY DEF Next, Begin, Attempt, GiveUp, HealthReturns, Settle, Outcome, Select,
           Lapse, AttemptLapses, Tick, Cancel, Change, Answer, Terminated, vars,
           ghostVars
<1> QED BY <1>1, <1>2, <1>3

LEMMA Inductive ==
    /\ Init => IInv
    /\ IInv /\ [Next]_vars => IInv'
<1>1. Init => IInv
    BY TypeInit DEF Init, IInv, OkWasSaid, WaitsWithoutOk, NilMeansOk, PauseIsTimed,
                    EndsWithTheContext
<1>2. IInv /\ [Next]_vars => IInv'
    BY TypeInductive, OkWasSaidStep, WaitsWithoutOkStep, NilMeansOkStep,
       PauseIsTimedStep, EndsStep DEF IInv
<1> QED BY <1>1, <1>2

(* Nil means the service said "ok" to this call; any other return carries   *)
(* the caller's own error, and no "ok" was thrown away for it.              *)
THEOREM ReturnsAreTrue == Spec => []NilMeansOk
<1>1. IInv => NilMeansOk
    BY DEF IInv
<1> QED BY <1>1, Inductive, PTL DEF Spec

(* A whole interval lies between a failed attempt and the next request.     *)
THEOREM PausesAreWhole == Spec => PausesAfterFailure
<1>1. IInv /\ [Next]_vars => [(pc # "request" /\ pc' = "request") => paused = interval]_vars
    <2> SUFFICES ASSUME IInv, Next, pc # "request", pc' = "request"
                 PROVE  paused = interval
        OBVIOUS
    <2>1. Attempt
        BY DEF Next, Begin, GiveUp, HealthReturns, Settle, Outcome, Return, Select,
               Lapse, AttemptLapses, Tick, Cancel, Change, Answer, Advance, Terminated,
               vars, clientVars
    <2> QED BY <2>1 DEF Attempt, IInv, PauseIsTimed
<1> QED BY <1>1, Inductive, PTL DEF Spec, PausesAfterFailure

(* The call outlives the caller's context by stalls of its own at most.     *)
THEOREM EndsInTime == Spec => []EndsWithTheContext
<1>1. IInv => EndsWithTheContext
    BY DEF IInv
<1> QED BY <1>1, Inductive, PTL DEF Spec

-----------------------------------------------------------------------------
(* How long a healthy service goes unnoticed. *)

(* The attempt under way began before the service was healthy, or ran into *)
(* its timeout: its own time is all that was lost so far.                  *)
OldAttempt == okFor <= interval - attempt + stalled

(* The service has been healthy since before the attempt began, so that    *)
(* the attempt is answered long before its timeout.                        *)
FreshAttempt ==
    /\ flight \in {"sent", "ok"} /\ ~attemptErr
    /\ LET waited == IF flight = "sent" THEN age ELSE MaxLatency
       IN  /\ okFor <= 2 * interval + waited + stalled
           /\ interval - attempt <= IF flight = "sent" THEN age ELSE MaxLatency + stalled

(* What each place in the loop may have cost, while the context lasts. *)
UnnoticedSoFar ==
    /\ pc = "begin" => okFor <= stalled
    /\ pc = "loop" => okFor <= 2 * interval + stalled
    /\ pc = "request" => OldAttempt \/ FreshAttempt
    /\ pc = "returned" => \/ okFor <= interval + stalled
                          \/ health = "ok" /\ okFor <= NoticeBound + stalled
    /\ pc = "select" => okFor <= interval + paused + stalled

Unnoticed ==
    /\ stalled <= MaxStall /\ age <= MaxLatency
    /\ pc = "request" => attempt <= interval
    /\ service # "ok" => okFor = 0
    /\ (ctxErr = "nil" /\ interval > MaxLatency + MaxStall) => UnnoticedSoFar

(* An unhealthy service is not counted, and a new attempt has its whole    *)
(* timeout.                                                                *)
LEMMA UnnoticedStep == IInv /\ Unnoticed /\ [Next]_vars => Unnoticed'
<1> SUFFICES ASSUME IInv, Unnoticed, [Next]_vars PROVE Unnoticed'
    OBVIOUS
<1>0. /\ interval \in Int /\ MaxLatency \in Nat /\ MaxStall \in Nat
      /\ okFor \in Nat /\ stalled \in Nat /\ age \in Nat /\ attempt \in Nat /\ paused \in Nat
      /\ ticker \in Nat /\ (pc \notin {"begin", "done"} => interval > 0)
      /\ pc \in {"begin", "loop", "request", "returned", "select", "done"}
    BY IntervalsAssumption, LatencyAssumption DEF IInv, TypeOK
<1> USE DEF OldAttempt, FreshAttempt, UnnoticedSoFar, NoticeBound
<1>1. CASE Begin
    BY <1>0, <1>1 DEF Begin, Return, ghostVars, Unnoticed
<1>2. CASE Attempt
    BY <1>0, <1>2 DEF Attempt, ghostVars, Unnoticed
<1>3. CASE GiveUp
    BY <1>0, <1>3 DEF GiveUp, Return, ghostVars, timerVars, Unnoticed
<1>4. CASE HealthReturns
    BY <1>0, <1>4 DEF HealthReturns, attemptDone, Answers, ghostVars, timerVars, Unnoticed
<1>5. CASE Settle
    BY <1>0, <1>5 DEF Settle, Outcome, Return, ghostVars, Unnoticed
<1>6. CASE Select
    BY <1>0, <1>6 DEF Select, ghostVars, Unnoticed, IInv, PauseIsTimed
<1>7. CASE Lapse \/ Cancel
    BY <1>0, <1>7 DEF Lapse, Cancel, clientVars, ghostVars, Unnoticed
<1>8. CASE AttemptLapses
    BY <1>0, <1>8 DEF AttemptLapses, attemptDue, clientVars, ghostVars, Unnoticed
<1>9. CASE Tick
    BY <1>0, <1>9 DEF Tick, clientVars, ghostVars, Unnoticed
<1>10. CASE \E s \in Statuses : Change(s)
    BY <1>0, <1>10 DEF Change, timerVars, Unnoticed
<1>11. CASE Answer
    BY <1>0, <1>11 DEF Answer, timerVars, Unnoticed
<1>12. CASE Advance
    <2>1. /\ attempt' = IF attempt > 0 THEN attempt - 1 ELSE 0
          /\ ticker' = IF ticker > 0 THEN ticker - 1 ELSE 0
        BY <1>0, <1>12, DeadlinesAssumption DEF Advance, less
    <2>2. /\ age' = IF age < MaxLatency THEN age + 1 ELSE age
          /\ paused' = IF paused < interval THEN paused + 1 ELSE paused
        BY <1>12 DEF Advance, more
    <2>3. okFor' \in {0, okFor, okFor + 1} /\ (service # "ok" => okFor' = 0)
        BY <1>12 DEF Advance, more
    <2>4. /\ stalled' = IF Runnable THEN stalled + 1 ELSE stalled
          /\ stalled' <= MaxStall
        BY <1>0, <1>12 DEF Advance, Unnoticed
    <2>5. /\ UNCHANGED <<pc, interval, ctxErr, service, flight, health, attemptErr>>
          /\ ~attemptDue /\ ~tickDue
          /\ ~(service = "ok" /\ flight = "sent" /\ age >= MaxLatency)
        BY <1>12 DEF Advance
    <2>6. /\ stalled' <= MaxStall /\ age' <= MaxLatency
          /\ pc' = "request" => attempt' <= interval'
          /\ service' # "ok" => okFor' = 0
        BY <1>0, <2>1, <2>2, <2>3, <2>4, <2>5 DEF Unnoticed
    <2>7. ASSUME ctxErr = "nil", interval > MaxLatency + MaxStall PROVE UnnoticedSoFar'
        <3>0. UnnoticedSoFar
            BY <2>7 DEF Unnoticed
        <3>1. CASE pc \in {"begin", "loop", "returned"}
            <4>1. stalled' = stalled + 1
                BY <2>4, <3>1 DEF Runnable
            <4> QED BY <1>0, <2>3, <2>5, <3>0, <3>1, <4>1
        <3>2. CASE pc = "request" /\ OldAttempt
            <4>1. attempt = 0 => stalled' = stalled + 1
                BY <2>4, <2>5, <3>2 DEF Runnable, attemptDue, attemptDone
            <4> QED BY <1>0, <2>1, <2>3, <2>4, <2>5, <3>2, <4>1
        <3>3. CASE pc = "request" /\ FreshAttempt
            <4>1. flight = "ok" => stalled' = stalled + 1
                BY <2>4, <3>3 DEF Runnable, Answers
            <4>2. CASE service # "ok"
                BY <1>0, <2>1, <2>3, <2>4, <2>5, <2>6, <3>3, <4>2
            <4>3. CASE service = "ok" /\ flight = "sent"
                BY <1>0, <2>1, <2>2, <2>3, <2>4, <2>5, <3>3, <4>3
            <4>4. CASE flight = "ok"
                BY <1>0, <2>1, <2>3, <2>4, <2>5, <3>3, <4>1, <4>4
            <4> QED BY <3>3, <4>2, <4>3, <4>4
        <3>4. CASE pc = "select"
            <4>1. ticked => stalled' = stalled + 1
                BY <2>4, <3>4 DEF Runnable
            <4>2. ~ticked => paused' = paused + 1
                BY <1>0, <2>2, <2>5, <3>4 DEF tickDue, IInv, PauseIsTimed
            <4> QED BY <1>0, <2>2, <2>3, <2>4, <2>5, <3>0, <3>4, <4>1, <4>2
        <3>5. CASE pc = "done"
            BY <2>5, <3>5
        <3> QED BY <1>0, <3>0, <3>1, <3>2, <3>3, <3>4, <3>5
    <2> QED BY <2>5, <2>6, <2>7 DEF Unnoticed
<1>13. CASE UNCHANGED vars
    BY <1>13 DEF vars, clientVars, timerVars, ghostVars, Unnoticed
<1> QED BY <1>1, <1>2, <1>3, <1>4, <1>5, <1>6, <1>7, <1>8, <1>9, <1>10, <1>11, <1>12, <1>13
           DEF Next, Terminated

(* A service that has been healthy for two intervals and its latency has   *)
(* been noticed: a lost request costs one interval and the pause another.  *)
THEOREM HealthIsNoticed == Spec => []HealthyIsNoticed
<1>1. Init => Unnoticed
    BY LatencyAssumption DEF Init, Unnoticed, UnnoticedSoFar
<1>2. IInv /\ Unnoticed => HealthyIsNoticed
    <2> SUFFICES ASSUME IInv, Unnoticed, pc # "done", ctxErr = "nil",
                        interval > MaxLatency + MaxStall
                 PROVE  okFor <= NoticeBound + stalled
        BY DEF HealthyIsNoticed
    <2>1. /\ interval \in Int /\ MaxLatency \in Nat /\ MaxStall \in Nat
          /\ okFor \in Nat /\ stalled \in Nat /\ age \in Nat /\ attempt \in Nat
          /\ paused \in Nat /\ ticker \in Nat /\ interval > 0 /\ age <= MaxLatency
          /\ pc \in {"begin", "loop", "request", "returned", "select"}
        BY IntervalsAssumption, LatencyAssumption DEF IInv, TypeOK, Unnoticed
    <2>2. UnnoticedSoFar
        BY DEF Unnoticed
    <2>3. pc = "select" => paused <= interval
        BY <2>1 DEF IInv, PauseIsTimed
    <2> QED BY <2>1, <2>2, <2>3 DEF UnnoticedSoFar, OldAttempt, FreshAttempt, NoticeBound
<1> QED BY <1>1, <1>2, UnnoticedStep, Inductive, PTL DEF Spec
=============================================================================
