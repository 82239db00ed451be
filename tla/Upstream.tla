---- MODULE Upstream ----
(***************************************************************************)
(* The live proxy measurement of the operations view                        *)
(* (atheros-search/internal/operations/upstream.go): a shared snapshot       *)
(* reader, whose refresh outlives the browser request that began it, and the *)
(* rates the proxy reader derives from successive samples.  Samples come     *)
(* from several proxy instances behind one address, may be old, repeated or  *)
(* dated in the future.  A critical section of either mutex is one action.   *)
(* A counter stands for all of them.  Definitions marked "wrong" are seeded   *)
(* defects no action uses.                                                   *)
(***************************************************************************)
EXTENDS Integers, FiniteSets

CONSTANTS
    Readers,     \* browser requests at work
    Samples,     \* what the proxies behind the address measure: instance, time, counter
    Ttl,         \* ticks between attempts (5 s in the code)
    Stale,       \* age that makes a sample stale (15 s)
    Gone,        \* age that hides its counters (60 s)
    Horizon      \* bound: ticks of a behaviour

VARIABLES
    clock,
    nextAttempt,  \* no refresh before this
    refresh,      \* "none", or where the one refresh stands
    fetched,      \* what it fetched
    cached,       \* the last valid sample
    last, rates,  \* the baseline of the rates, and the rates up to it
    reader        \* what each request has and where it stands

proxy == <<last, rates>>
vars == <<clock, nextAttempt, refresh, fetched, cached, last, rates, reader>>

\* How far the clock of a proxy may be ahead; one tick is tolerated.
MaxSkew == 2
NoSample == [instance |-> "none", at |-> 0, count |-> 0]
NoRates == [from |-> NoSample, to |-> NoSample]
NoReader == [at |-> "idle", sample |-> NoSample, status |-> "none", rates |-> NoRates]

Init ==
    /\ clock = 1
    /\ nextAttempt = 0 /\ refresh = "none" /\ fetched = NoSample /\ cached = NoSample
    /\ last = NoSample /\ rates = NoRates
    /\ reader = [r \in Readers |-> NoReader]

Tick ==
    /\ clock < Horizon
    /\ clock' = clock + 1
    /\ UNCHANGED <<nextAttempt, refresh, fetched, cached, proxy, reader>>

----------------------------------------------------------------------------
(* snapshotReader                                                           *)

\* The locked part of read: begin a refresh when one is due, and use what is
\* cached unless the first refresh is still under way.
Read(r) ==
    /\ reader[r].at = "idle"
    /\ LET due == clock >= nextAttempt /\ refresh = "none"
       IN  /\ nextAttempt' = IF due THEN clock + Ttl ELSE nextAttempt
           /\ refresh' = IF due THEN "fetching" ELSE refresh
           /\ reader' = [reader EXCEPT ![r] = [NoReader EXCEPT !.sample = cached,
                !.at = IF cached # NoSample \/ refresh' = "none" THEN "show" ELSE "wait"]]
    /\ UNCHANGED <<clock, fetched, cached, proxy>>

\* fetch answers with some sample taken so far, or fails or runs into its timeout.
\* A counter that went back is a process restarted under the same identity.
Fetch(s) ==
    /\ refresh = "fetching" /\ s.at <= clock + MaxSkew
    /\ refresh' = "fetched" /\ fetched' = s
    /\ UNCHANGED <<clock, nextAttempt, cached, proxy, reader>>

\* validProxy, as far as time goes.
Valid(s) == s # NoSample /\ s.at <= clock + 1

\* observe: an old sample of the same instance is ignored.
Observe(s) ==
    IF last # NoSample /\ s.instance = last.instance /\ s.at <= last.at THEN UNCHANGED proxy
    ELSE /\ last' = s
         /\ rates' = IF last # NoSample /\ last.instance = s.instance /\ s.count >= last.count
                     THEN [from |-> last, to |-> s] ELSE NoRates

\* The validation of the fetched sample; observe takes its own mutex.
Validate ==
    /\ refresh = "fetched"
    /\ refresh' = "ending"
    /\ IF Valid(fetched) THEN Observe(fetched) /\ UNCHANGED fetched
       ELSE fetched' = NoSample /\ UNCHANGED proxy
    /\ UNCHANGED <<clock, nextAttempt, cached, reader>>

\* Wrong: a refresh that brought nothing does not wake anybody.
EndRefreshSilently ==
    /\ refresh = "ending"
    /\ cached' = IF fetched # NoSample THEN fetched ELSE cached
    /\ refresh' = "none" /\ fetched' = NoSample
    /\ reader' = IF fetched = NoSample THEN reader
                 ELSE [r \in Readers |-> IF reader[r].at = "wait"
                                         THEN [reader[r] EXCEPT !.at = "woken"] ELSE reader[r]]
    /\ UNCHANGED <<clock, nextAttempt, proxy>>

\* The end of refresh: everybody who waits is woken, whatever it brought.
EndRefresh ==
    /\ refresh = "ending"
    /\ cached' = IF fetched # NoSample THEN fetched ELSE cached
    /\ refresh' = "none" /\ fetched' = NoSample
    /\ reader' = [r \in Readers |-> IF reader[r].at = "wait"
                                    THEN [reader[r] EXCEPT !.at = "woken"] ELSE reader[r]]
    /\ UNCHANGED <<clock, nextAttempt, proxy>>

Woken(r) ==
    /\ reader[r].at = "woken"
    /\ reader' = [reader EXCEPT ![r].at = "show", ![r].sample = cached]
    /\ UNCHANGED <<clock, nextAttempt, refresh, fetched, cached, proxy>>

\* The browser goes away: its wait ends, the refresh goes on.
Cancel(r) ==
    /\ reader[r].at \in {"wait", "woken"}
    /\ reader' = [reader EXCEPT ![r].at = "show"]
    /\ UNCHANGED <<clock, nextAttempt, refresh, fetched, cached, proxy>>

----------------------------------------------------------------------------
(* proxyReader.read                                                         *)

\* measurementStatus, and the age that hides everything.
Status(s) ==
    IF s = NoSample \/ clock - s.at > Gone \/ s.at > clock + 1 THEN "unavailable"
    ELSE IF clock - s.at > Stale THEN "stale" ELSE "current"

\* Wrong: whatever rates there are.
ShownRatesAny(s) == IF Status(s) = "current" THEN rates ELSE NoRates

\* Rates are shown only with the sample they were computed for.
ShownRates(s) ==
    IF Status(s) = "current" /\ last.instance = s.instance /\ last.at = s.at THEN rates ELSE NoRates

Show(r) ==
    /\ reader[r].at = "show"
    /\ reader' = [reader EXCEPT ![r].at = "shown", ![r].status = Status(reader[r].sample),
                                ![r].rates = ShownRates(reader[r].sample)]
    /\ UNCHANGED <<clock, nextAttempt, refresh, fetched, cached, proxy>>

Leave(r) ==
    /\ reader[r].at = "shown"
    /\ reader' = [reader EXCEPT ![r] = NoReader]
    /\ UNCHANGED <<clock, nextAttempt, refresh, fetched, cached, proxy>>

----------------------------------------------------------------------------

Refreshing == (\E s \in Samples \union {NoSample} : Fetch(s)) \/ Validate \/ EndRefresh

Next ==
    \/ Tick
    \/ Refreshing
    \/ \E r \in Readers : Read(r) \/ Woken(r) \/ Cancel(r) \/ Show(r) \/ Leave(r)

\* The refresh has a timeout and its goroutine runs; so does a handler that can.
Fairness ==
    /\ WF_vars(Refreshing)
    /\ \A r \in Readers : WF_vars(Woken(r) \/ Show(r))

Spec == Init /\ [][Next]_vars /\ Fairness

----------------------------------------------------------------------------

\* Types of the cache and the requests.
TypeOK ==
    /\ clock \in 1..Horizon /\ nextAttempt \in 0..(Horizon + Ttl)
    /\ refresh \in {"none", "fetching", "fetched", "ending"}
    /\ {fetched, cached, last} \subseteq Samples \union {NoSample}
    /\ \A r \in Readers : reader[r].at \in {"idle", "wait", "woken", "show", "shown"}

\* Rates shown with a sample are the ones up to that sample: from an earlier sample
\* of the same instance, over a positive time, with no counter going back; although
\* samples come out of order and the baseline moves between the two locks of a read.
RatesOfShown ==
    \A r \in Readers :
        LET shown == reader[r] IN shown.rates # NoRates =>
            /\ shown.status = "current"
            /\ shown.rates.to.instance = shown.sample.instance /\ shown.rates.to.at = shown.sample.at
            /\ shown.rates.from.instance = shown.sample.instance
            /\ shown.rates.from.at < shown.rates.to.at
            /\ shown.rates.from.count <= shown.rates.to.count

\* A request that waits for the first refresh is answered, whether it brings a
\* sample or not and whoever began it.
WaitersWake == \A r \in Readers : reader[r].at = "wait" ~> reader[r].at = "shown"

====
