---- MODULE MCCaches ----
(***************************************************************************)
(* What the service remembers between requests: the ETL health snapshot, the *)
(* samples of the upstream proxies, the counts behind the readiness probe    *)
(* (and the wait for the schema before it), and the vectors of queries.  They *)
(* share no state: a behaviour is one of the part chosen at the start, and    *)
(* the run visits the sum of the four state spaces.                          *)
(***************************************************************************)
EXTENDS HealthMonitor, TLC

CONSTANTS
    Readers, Samples, Ttl, Stale, Gone, Horizon,
    Timeout, Probes, Lifetime, MaxTime,
    Clients, Texts, Capacity

ASSUME CacheAssumption ==
    /\ {Ttl, Stale, Gone, Horizon, Timeout, Lifetime, MaxTime, Capacity} \subseteq Nat
    /\ Horizon >= 1 /\ MaxTime >= 1
    /\ "nobody" \notin Probes
    /\ \A s \in Samples : s.at \in Nat /\ s.count \in Nat

VARIABLES
    part,
    clock, nextAttempt, upstreamRefresh, fetched, sample, last, rates, reader,
    polls, ended, wait, status, err, trouble, time, rows, counts, locked, probe,
    now, order, used, client

\* Two instances behind one address, their counters reset now and then.
S(i, t, c) == [instance |-> i, at |-> t, count |-> c]
MCSamples == {S("a", 1, 0), S("a", 2, 1), S("a", 3, 0), S("b", 2, 0), S("b", 5, 1)}

Proxies == INSTANCE Upstream
    WITH refresh <- upstreamRefresh, cached <- sample
Ready == INSTANCE Readiness
Vectors == INSTANCE QueryCache

proxyVars == <<clock, nextAttempt, upstreamRefresh, fetched, sample, last, rates, reader>>
readyVars == <<polls, ended, wait, status, err, trouble, time, rows, counts, locked, probe>>
vectorVars == <<now, order, used, client>>

CachesInit ==
    /\ part \in {"health", "proxies", "ready", "vectors"}
    /\ Init /\ Proxies!Init /\ Ready!Init /\ Vectors!Init

CachesNext ==
    /\ \/ part = "health" /\ Next /\ UNCHANGED <<proxyVars, readyVars, vectorVars>>
       \/ part = "proxies" /\ Proxies!Next /\ UNCHANGED <<vars, readyVars, vectorVars>>
       \/ part = "ready" /\ Ready!Next /\ UNCHANGED <<vars, proxyVars, vectorVars>>
       \/ part = "vectors" /\ Vectors!Next /\ UNCHANGED <<vars, proxyVars, readyVars>>
    /\ UNCHANGED part

\* The fairness of each part; a part the behaviour is not about has no step to take.
CachesSpec ==
    /\ CachesInit /\ [][CachesNext]_<<part, vars, proxyVars, readyVars, vectorVars>>
    /\ Fairness
    /\ WF_proxyVars(part = "proxies" /\ Proxies!Refreshing)
    /\ \A r \in Readers : WF_proxyVars(part = "proxies" /\ (Proxies!Woken(r) \/ Proxies!Show(r)))

----------------------------------------------------------------------------

\* The part at hand is well typed.
CachesTypeOK ==
    CASE part = "health" -> TypeOK
      [] part = "proxies" -> Proxies!TypeOK
      [] part = "ready" -> Ready!TypeOK
      [] part = "vectors" -> Vectors!TypeOK

\* Whoever waits for a refresh that is shared gets an answer: callers of the health
\* monitor and readers of the upstream sample.
SharedWaitEnds == CallReturns /\ Proxies!WaitersWake

\* The rates shown with a sample of the proxy are those that led to it (upstream.go).
RatesOfShown == part = "proxies" => Proxies!RatesOfShown

\* A startup that gives up reports the database error behind it, and only then one, and
\* ready probes report counts that were in the table when they were read, none newer
\* than those in the cache (ready.go).
ReadinessHonest == part = "ready" => Ready!ReadinessHonest

\* Concurrent puts and gets of query vectors keep the cache within its capacity, in its
\* order, and free of expired answers (cache.go).
CacheSound == part = "vectors" => Vectors!CacheSound

====
