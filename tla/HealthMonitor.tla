---- MODULE HealthMonitor ----
(***************************************************************************)
(* The shared health snapshot (atheros-search/internal/etlhealth/health.go). *)
(* Callers of Snapshot are answered from a cache; one background refresh at *)
(* a time queries the database, stores the result, publishes the gauges     *)
(* through the observer and closes the channel the first callers wait on.   *)
(* Every critical section of the monitor's mutex is one action.  Snapshots  *)
(* are numbered by the refresh that measured them (MeasuredAt is taken when *)
(* the refresh starts).  Definitions marked "wrong" are seeded defects.      *)
(***************************************************************************)
EXTENDS Integers, FiniteSets

CONSTANTS
    Callers,   \* request handlers, the ETL stream and the warm-up
    MaxCalls   \* bound: calls of Snapshot in a behaviour

ASSUME MonitorAssumption == MaxCalls \in Nat

\* A call starts at most two refreshes: one that it waits for, and one because
\* the snapshot it is then answered with has expired.
Refreshes == 1..(2 * MaxCalls)

VARIABLES
    cached,      \* the refresh that measured the cached snapshot; 0 is nil
    expired,     \* is the cached snapshot older than cacheTTL
    lastErr,     \* did the last refresh fail
    refreshing,  \* is a refresh marked running
    refreshDone, \* the channel of the latest refresh, numbered like it; 0 is nil
    closed,      \* channels that are closed
    refresh,     \* where each refresh stands
    gauges,      \* the snapshot the observer published last
    calls,       \* calls made so far
    call,        \* where each caller stands
    done,        \* the channel it waits on
    got          \* the snapshot it was answered with

monitor == <<cached, expired, lastErr, refreshing, refreshDone, closed, refresh, gauges>>
callers == <<calls, call, done, got>>
vars == <<monitor, callers>>

Init ==
    /\ cached = 0 /\ expired = FALSE /\ lastErr = FALSE
    /\ refreshing = FALSE /\ refreshDone = 0 /\ closed = {}
    /\ refresh = [r \in Refreshes |-> "none"]
    /\ gauges = 0 /\ calls = 0
    /\ call = [c \in Callers |-> "idle"]
    /\ done = [c \in Callers |-> 0]
    /\ got = [c \in Callers |-> 0]

----------------------------------------------------------------------------
(* Snapshot                                                                 *)

\* Wrong: no new channel is made.
StartRefreshNoChannel ==
    /\ refreshDone < 2 * MaxCalls
    /\ refreshing' = TRUE
    /\ refresh' = [refresh EXCEPT ![refreshDone + 1] = "query"]
    /\ UNCHANGED refreshDone

\* startRefreshLocked.
StartRefresh ==
    /\ refreshDone < 2 * MaxCalls
    /\ refreshing' = TRUE
    /\ refreshDone' = refreshDone + 1
    /\ refresh' = [refresh EXCEPT ![refreshDone + 1] = "query"]

\* A request calls Snapshot.
Arrive(c) ==
    /\ calls < MaxCalls /\ call[c] \in {"idle", "answered", "failed"}
    /\ calls' = calls + 1
    /\ call' = [call EXCEPT ![c] = "loop"]
    /\ got' = [got EXCEPT ![c] = 0]
    /\ UNCHANGED <<monitor, done>>

\* Wrong: an expired snapshot starts a refresh although one is running.
RefreshDueAlways == expired
RefreshDue == expired /\ ~refreshing

\* A snapshot is cached: it is the answer, and a refresh starts when it is old.
AnswerCached(c) ==
    /\ call[c] = "loop" /\ cached # 0
    /\ IF RefreshDue THEN StartRefresh ELSE UNCHANGED <<refreshing, refreshDone, refresh>>
    /\ call' = [call EXCEPT ![c] = "answered"]
    /\ got' = [got EXCEPT ![c] = cached]
    /\ UNCHANGED <<cached, expired, lastErr, closed, gauges, calls, done>>

\* No snapshot yet: wait for the running refresh.
JoinRefresh(c) ==
    /\ call[c] = "loop" /\ cached = 0 /\ refreshing
    /\ call' = [call EXCEPT ![c] = "shared"]
    /\ done' = [done EXCEPT ![c] = refreshDone]
    /\ UNCHANGED <<monitor, calls, got>>

\* No snapshot and no refresh: start one and wait for it.
OwnRefresh(c) ==
    /\ call[c] = "loop" /\ cached = 0 /\ ~refreshing
    /\ StartRefresh
    /\ call' = [call EXCEPT ![c] = "own"]
    /\ done' = [done EXCEPT ![c] = refreshDone']
    /\ UNCHANGED <<cached, expired, lastErr, closed, gauges, calls, got>>

\* The channel is closed: one who joined goes round again, the one who started
\* the refresh looks at its error first, in a critical section of its own.
Woken(c) ==
    /\ done[c] \in closed
    /\ \/ call[c] = "shared" /\ call' = [call EXCEPT ![c] = "loop"]
       \/ call[c] = "own" /\ call' = [call EXCEPT ![c] = "check"]
    /\ UNCHANGED <<monitor, calls, done, got>>

CheckError(c) ==
    /\ call[c] = "check"
    /\ call' = [call EXCEPT ![c] = IF lastErr THEN "failed" ELSE "loop"]
    /\ UNCHANGED <<monitor, calls, done, got>>

\* The request's context ends while it waits.
Cancelled(c) ==
    /\ call[c] \in {"shared", "own"}
    /\ call' = [call EXCEPT ![c] = "failed"]
    /\ UNCHANGED <<monitor, calls, done, got>>

----------------------------------------------------------------------------
(* refresh                                                                  *)

\* snapshotFromDB returned a snapshot: it is cached, lastErr is cleared.
Measured(r) ==
    /\ refresh[r] = "query"
    /\ cached' = r /\ expired' = FALSE /\ lastErr' = FALSE
    /\ refresh' = [refresh EXCEPT ![r] = "observe"]
    /\ UNCHANGED <<refreshing, refreshDone, closed, gauges, callers>>

\* A statement failed or the refresh timed out: the old snapshot stays.
QueryFailed(r) ==
    /\ refresh[r] = "query"
    /\ lastErr' = TRUE
    /\ refresh' = [refresh EXCEPT ![r] = "finish"]
    /\ UNCHANGED <<cached, expired, refreshing, refreshDone, closed, gauges, callers>>

\* The observer, outside the mutex, publishes the gauges.
ObserveSnapshot(r) ==
    /\ refresh[r] = "observe"
    /\ gauges' = r
    /\ refresh' = [refresh EXCEPT ![r] = "finish"]
    /\ UNCHANGED <<cached, expired, lastErr, refreshing, refreshDone, closed, callers>>

\* Closing h.refreshDone, whatever channel that is by now.
FinishRefresh(r) ==
    /\ refresh[r] = "finish"
    /\ refreshing' = FALSE
    /\ closed' = closed \union {refreshDone}
    /\ refresh' = [refresh EXCEPT ![r] = "ended"]
    /\ UNCHANGED <<cached, expired, lastErr, refreshDone, gauges, callers>>

\* cacheTTL passes.
Expire ==
    /\ cached # 0 /\ ~expired
    /\ expired' = TRUE
    /\ UNCHANGED <<cached, lastErr, refreshing, refreshDone, closed, refresh, gauges, callers>>

----------------------------------------------------------------------------

CallStep(c) ==
    AnswerCached(c) \/ JoinRefresh(c) \/ OwnRefresh(c) \/ Woken(c) \/ CheckError(c)

RefreshStep(r) == Measured(r) \/ QueryFailed(r) \/ ObserveSnapshot(r) \/ FinishRefresh(r)

Next ==
    \/ \E c \in Callers : Arrive(c) \/ CallStep(c) \/ Cancelled(c)
    \/ \E r \in Refreshes : RefreshStep(r)
    \/ Expire

Spec == Init /\ [][Next]_vars

\* Goroutines run; the query has refreshTimeout and the observer does not block.
Fairness ==
    /\ \A c \in Callers : WF_vars(CallStep(c))
    /\ \A r \in Refreshes : WF_vars(RefreshStep(r))

FairSpec == Spec /\ Fairness

----------------------------------------------------------------------------

\* Types of the monitor's fields and of the callers' local state.
TypeOK ==
    /\ cached \in Refreshes \union {0} /\ gauges \in Refreshes \union {0}
    /\ refreshDone \in Refreshes \union {0} /\ closed \subseteq Refreshes
    /\ expired \in BOOLEAN /\ lastErr \in BOOLEAN /\ refreshing \in BOOLEAN
    /\ refresh \in [Refreshes -> {"none", "query", "observe", "finish", "ended"}]
    /\ calls \in 0..MaxCalls
    /\ call \in [Callers -> {"idle", "loop", "shared", "own", "check", "answered", "failed"}]
    /\ done \in [Callers -> Refreshes \union {0}]
    /\ got \in [Callers -> Refreshes \union {0}]

Running(r) == refresh[r] \in {"query", "observe", "finish"}

\* "Callers share one refresh": the database never serves two at once, and the
\* running one will close the channel its waiters hold, once (closing a channel
\* twice panics).
OneRefresh ==
    \A r \in Refreshes : Running(r) =>
        refreshing /\ refreshDone = r /\ r \notin closed

\* Later answers are never older: a refresh that started earlier does not replace
\* the snapshot of a later one, and a failed refresh does not lose a snapshot.
SnapshotsMonotone == [][cached' >= cached]_vars

\* No lost wakeup: every call of Snapshot returns, though the refresh it waits
\* for may fail, and another one may start, before it looks again.
CallReturns ==
    \A c \in Callers : call[c] \in {"loop", "shared", "own", "check"}
        ~> call[c] \in {"answered", "failed"}

\* The part of "a caller returning from Snapshot never races with gauge
\* publication" (comment in refresh) that holds: whoever is woken by a refresh finds
\* its gauges published.  A caller answered from the cache may still be earlier.
GaugesBeforeWakeup == \A r \in closed : cached = r => gauges = r

\* A refresh runs alone from its start to the wakeup of its callers, and has published
\* its gauges by then.
RefreshesSound == OneRefresh /\ GaugesBeforeWakeup

====
