---- MODULE Circuit ----
(***************************************************************************)
(* One lane's circuit breaker and the calls that go through it              *)
(* (atheros-search/internal/embed/circuit.go: Circuit and LaneClient.call). *)
(* Calls overlap: each is admitted, runs against the backend and has its    *)
(* outcome recorded, and the breaker may have changed state any number of   *)
(* times in between.  Every critical section of the breaker's mutex is one  *)
(* action.  Definitions marked "wrong" are seeded defects no action uses.    *)
(***************************************************************************)
EXTENDS Integers

CONSTANTS
    Calls,        \* concurrent callers of the lane
    FailureMax,   \* counted failures before the breaker opens
    BaseBackoff,  \* first open window, in ticks
    MaxBackoff    \* bound of the open window, in ticks

ASSUME CircuitAssumption ==
    /\ FailureMax \in Nat \ {0}
    /\ BaseBackoff \in Nat \ {0}
    /\ MaxBackoff \in Nat \ {0}

VARIABLES
    state,     \* closed, open or half_open
    failures,  \* consecutive counted failures; counting stops at FailureMax
    backoff,   \* the next open window; 0 when no trip since the last success
    wait,      \* ticks until openedUntil
    probing,   \* is the half-open probe slot taken
    call,      \* where a call stands: idle, running, or about to release
    probe      \* was the running call admitted as the half-open probe

vars == <<state, failures, backoff, wait, probing, call, probe>>

Init ==
    /\ state = "closed" /\ failures = 0 /\ backoff = 0 /\ wait = 0 /\ probing = FALSE
    /\ call = [c \in Calls |-> "idle"]
    /\ probe = [c \in Calls |-> FALSE]

\* advanceLocked: an elapsed open window makes the breaker half-open.
Elapsed == state = "open" /\ wait = 0
Advanced == IF Elapsed THEN "half_open" ELSE state
AdvancedProbing == IF Elapsed THEN FALSE ELSE probing

\* baseBackoffLocked and nextBackoffLocked.
MaxWindow == IF MaxBackoff < BaseBackoff THEN BaseBackoff ELSE MaxBackoff
Doubled(b) == IF 2 * b <= BaseBackoff THEN 2 * BaseBackoff ELSE 2 * b
\* Wrong: the window is not bounded.
NextBackoffUnbounded(b) == Doubled(b)
NextBackoff(b) == IF Doubled(b) > MaxWindow THEN MaxWindow ELSE Doubled(b)
FirstWindow == IF backoff = 0 THEN BaseBackoff ELSE backoff

----------------------------------------------------------------------------

\* State and Snapshot, polled by health and metrics, only let the window elapse.
Observe ==
    /\ Elapsed
    /\ state' = "half_open" /\ probing' = FALSE
    /\ UNCHANGED <<failures, backoff, wait, call, probe>>

\* call: admitted in the closed state, or as the half-open probe.
AdmitClosed(c) ==
    /\ call[c] = "idle" /\ state = "closed"
    /\ call' = [call EXCEPT ![c] = "running"]
    /\ probe' = [probe EXCEPT ![c] = FALSE]
    /\ UNCHANGED <<state, failures, backoff, wait, probing>>

AdmitProbe(c) ==
    /\ call[c] = "idle" /\ Advanced = "half_open" /\ ~AdvancedProbing
    /\ state' = "half_open" /\ probing' = TRUE
    /\ call' = [call EXCEPT ![c] = "running"]
    /\ probe' = [probe EXCEPT ![c] = TRUE]
    /\ UNCHANGED <<failures, backoff, wait>>

\* record(nil).
Succeed(c) ==
    /\ call[c] = "running"
    /\ state' = "closed" /\ failures' = 0 /\ backoff' = 0 /\ wait' = 0 /\ probing' = FALSE
    /\ call' = [call EXCEPT ![c] = "idle"]
    /\ UNCHANGED probe

\* record(err) of a counted failure; it does not advance the breaker first.
Fail(c) ==
    /\ call[c] = "running"
    /\ failures' = IF failures < FailureMax THEN failures + 1 ELSE failures
    /\ IF state = "half_open" \/ failures' >= FailureMax
       THEN /\ state' = "open" /\ probing' = FALSE
            /\ wait' = FirstWindow
            /\ backoff' = NextBackoff(FirstWindow)
       ELSE UNCHANGED <<state, probing, wait, backoff>>
    /\ call' = [call EXCEPT ![c] = "idle"]
    /\ UNCHANGED probe

\* Wrong: a neutral outcome is not followed by releaseProbe.
NeutralUnreleased(c) ==
    /\ call[c] = "running"
    /\ call' = [call EXCEPT ![c] = "idle"]
    /\ UNCHANGED <<state, failures, backoff, wait, probing, probe>>

\* record(err) of a neutral outcome returns true; releaseProbe follows, in a
\* critical section of its own.
Neutral(c) ==
    /\ call[c] = "running"
    /\ call' = [call EXCEPT ![c] = "releasing"]
    /\ UNCHANGED <<state, failures, backoff, wait, probing, probe>>

ReleaseProbe(c) ==
    /\ call[c] = "releasing"
    /\ probing' = IF state = "half_open" THEN FALSE ELSE probing
    /\ call' = [call EXCEPT ![c] = "idle"]
    /\ UNCHANGED <<state, failures, backoff, wait, probe>>

Tick ==
    /\ wait > 0
    /\ wait' = wait - 1
    /\ UNCHANGED <<state, failures, backoff, probing, call, probe>>

----------------------------------------------------------------------------

\* The end of a call: its outcome, then its release.
Finish(c) == Succeed(c) \/ Fail(c) \/ Neutral(c) \/ ReleaseProbe(c)

Next ==
    \/ \E c \in Calls : AdmitClosed(c) \/ AdmitProbe(c) \/ Finish(c)
    \/ Observe
    \/ Tick

Spec == Init /\ [][Next]_vars

\* Calls end (context or HTTP timeout), the clock advances, metrics poll State.
Fairness ==
    /\ \A c \in Calls : WF_vars(Finish(c))
    /\ WF_vars(Tick)
    /\ WF_vars(Observe)

FairSpec == Spec /\ Fairness

----------------------------------------------------------------------------

States == {"closed", "open", "half_open"}

\* Types of the breaker's fields and of the calls; the window never exceeds its
\* bound.
TypeOK ==
    /\ state \in States
    /\ failures \in 0..FailureMax
    /\ backoff \in 0..MaxWindow
    /\ wait \in 0..MaxWindow
    /\ probing \in BOOLEAN
    /\ call \in [Calls -> {"idle", "running", "releasing"}]
    /\ probe \in [Calls -> BOOLEAN]

\* The breaker cannot wedge half-open: while the probe slot is taken, a call is
\* in flight whose end frees it.  A call that ended neutrally, or lost its
\* context, has given the slot back (releaseProbe).
ProbeSlotNotLeaked ==
    state = "half_open" /\ probing => \E c \in Calls : probe[c] /\ call[c] # "idle"

\* The breaker is away from closed exactly when the failure count has reached
\* its limit, and has a backoff exactly then, whatever late outcomes of earlier
\* calls arrive in whatever state.
StateMatchesFailures ==
    /\ state = "closed" <=> failures < FailureMax
    /\ state = "closed" <=> backoff = 0
    /\ state # "open" => wait = 0

\* Reopening never waits less than the trip before it: without a success in
\* between, the next window only grows.
BackoffGrows == [][state' = "closed" \/ backoff' >= backoff]_vars

\* The open state always ends, and a taken probe slot is always given back.
CircuitProgress ==
    /\ state = "open" ~> state # "open"
    /\ state = "half_open" /\ probing ~> ~(state = "half_open" /\ probing)

\* "A call made in the closed state changes nothing" (comment of releaseProbe):
\* a call that was not admitted as the probe never frees the probe slot.
ClosedCallReleasesNothing ==
    [][\A c \in Calls : call[c] = "releasing" /\ call'[c] = "idle" /\ ~probe[c]
          => probing' = probing]_vars

====
