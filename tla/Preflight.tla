---- MODULE Preflight ----
(***************************************************************************)
(* The tokenizer preflight that gates the workers' claims                   *)
(* (atheros-search/internal/embed/preflight.go) and the metric that shows   *)
(* its state (metrics.go, app.go).  One goroutine runs Run: check, record,   *)
(* tell the observer, sleep.  Another publishes the state every five         *)
(* seconds.  Both write the metric one series at a time.  Definitions marked *)
(* "wrong" are seeded defects no action uses.                                *)
(***************************************************************************)
EXTENDS Integers

CONSTANTS
    CheckInterval,  \* first retry delay, in ticks
    MaxInterval,    \* bound of the retry delay
    SuccessEvery    \* delay after a success

States == {"pending", "compatible", "incompatible", "disabled"}

\* The order in which SetEmbeddingPreflightState writes the series.
Series == <<"pending", "compatible", "incompatible", "disabled">>

Setters == {"observer", "publisher"}

VARIABLES
    healthy,    \* would a check succeed now (the backend)
    state,      \* the published preflight state
    nextDelay,
    run,        \* where Run stands: check, notify, rest or sleep
    sleep,      \* ticks until its timer fires
    gauge,      \* the series of the metric that are 1
    setting     \* a running SetEmbeddingPreflightState: its state, next series

preflight == <<state, nextDelay, run, sleep>>
vars == <<healthy, preflight, gauge, setting>>

NotSetting(s) == setting[s].at = 0

Init ==
    /\ healthy \in BOOLEAN
    /\ state = "pending" /\ nextDelay = 0 /\ run = "check" /\ sleep = 0
    /\ gauge = {"pending"}
    /\ setting = [s \in Setters |-> [state |-> "pending", at |-> 0]]

----------------------------------------------------------------------------

NextBackoff(d) ==
    IF d < CheckInterval THEN CheckInterval
    ELSE IF 2 * d > MaxInterval THEN MaxInterval ELSE 2 * d

\* The end of runOnce: the observer hears of a changed state.
Record(s) ==
    /\ state' = s
    /\ run' = IF state # s THEN "notify" ELSE "rest"
    /\ setting' = IF state # s THEN [setting EXCEPT !["observer"] = [state |-> s, at |-> 1]]
                               ELSE setting
    /\ UNCHANGED <<healthy, sleep, gauge>>

CheckSucceeds ==
    /\ run = "check" /\ healthy
    /\ nextDelay' = SuccessEvery
    /\ Record("compatible")

\* Wrong: a failed check leaves the gate as it was.
CheckFailsGateOpen ==
    /\ run = "check" /\ ~healthy
    /\ nextDelay' = NextBackoff(nextDelay)
    /\ Record(state)

CheckFails ==
    /\ run = "check" /\ ~healthy
    /\ nextDelay' = NextBackoff(nextDelay)
    /\ Record("incompatible")

\* nextSleep, and the timer.
FallAsleep ==
    /\ run = "rest"
    /\ sleep' = IF state = "compatible" THEN SuccessEvery ELSE nextDelay
    /\ run' = "sleep"
    /\ UNCHANGED <<healthy, state, nextDelay, gauge, setting>>

Tick ==
    /\ run = "sleep" /\ sleep > 0
    /\ sleep' = sleep - 1
    /\ UNCHANGED <<healthy, state, nextDelay, run, gauge, setting>>

WakeUp ==
    /\ run = "sleep" /\ sleep = 0
    /\ run' = "check"
    /\ UNCHANGED <<healthy, state, nextDelay, sleep, gauge, setting>>

----------------------------------------------------------------------------

\* publishEmbeddingGauges reads the state and begins to publish it.
Publish ==
    /\ NotSetting("publisher")
    /\ setting' = [setting EXCEPT !["publisher"] = [state |-> state, at |-> 1]]
    /\ UNCHANGED <<healthy, preflight, gauge>>

\* Wrong: the other series are not reset.
SeriesOnlyRaised(s) ==
    IF Series[setting[s].at] = setting[s].state THEN gauge \union {setting[s].state} ELSE gauge

\* One Set of the loop in SetEmbeddingPreflightState.
SeriesWritten(s) ==
    IF Series[setting[s].at] = setting[s].state
    THEN gauge \union {setting[s].state} ELSE gauge \ {Series[setting[s].at]}

WriteSeries(s) ==
    /\ ~NotSetting(s)
    /\ gauge' = SeriesWritten(s)
    /\ setting' = [setting EXCEPT ![s].at = IF @ = 4 THEN 0 ELSE @ + 1]
    /\ run' = IF s = "observer" /\ setting[s].at = 4 THEN "rest" ELSE run
    /\ UNCHANGED <<healthy, state, nextDelay, sleep>>

\* The backend breaks or recovers.
Flip ==
    /\ healthy' = ~healthy
    /\ UNCHANGED <<preflight, gauge, setting>>

----------------------------------------------------------------------------

Run == CheckSucceeds \/ CheckFails \/ FallAsleep \/ Tick \/ WakeUp

Next == Run \/ Publish \/ (\E s \in Setters : WriteSeries(s)) \/ Flip

Spec == Init /\ [][Next]_vars

\* Both goroutines run, checks have a timeout, timers fire; the backend may stay
\* as it is.
Fairness ==
    /\ WF_vars(Run) /\ WF_vars(Publish) /\ \A s \in Setters : WF_vars(WriteSeries(s))

FairSpec == Spec /\ Fairness

----------------------------------------------------------------------------

\* Types; a delay is never shorter than the first retry delay and never longer
\* than the bound that applies to it, so the loop neither spins nor goes silent.
TypeOK ==
    /\ healthy \in BOOLEAN
    /\ state \in States
    /\ run \in {"check", "notify", "rest", "sleep"}
    /\ nextDelay \in {0, SuccessEvery} \union CheckInterval..MaxInterval
    /\ sleep \in 0..MaxInterval \union 0..SuccessEvery
    /\ gauge \subseteq States
    /\ setting \in [Setters -> [state : States, at : 0..4]]

\* The gate follows the backend: it opens once a check can succeed, and closes
\* once it cannot, though Run may be asleep, in a long backoff or in the observer.
GateFollowsBackend ==
    /\ healthy ~> state = "compatible" \/ ~healthy
    /\ ~healthy ~> state # "compatible" \/ healthy

\* Whatever the two writers did to each other's series, once the state settles
\* the metric ends up showing that state and no other.
MetricSettles == \A s \in States : <>[](state = s) => <>[](gauge = {s})

====
