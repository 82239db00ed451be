---- MODULE CachesProofs ----
(***************************************************************************)
(* Proofs about what the service remembers between requests: the ETL health  *)
(* snapshot, whose refreshes never overlap and wake their waiters after the   *)
(* gauges are published, the samples of the upstream proxies and their rates, *)
(* the counts behind the readiness probe, and the cache of query vectors, for *)
(* any number of callers, readers, probes and clients, any capacity and any   *)
(* lifetimes.                                                               *)
(***************************************************************************)
EXTENDS MCCaches, Sequences, TLAPS

----------------------------------------------------------------------------
(* The health snapshot                                                      *)

\* Refreshes start in the order of their numbers, so what is newer than the
\* latest channel has not started, what is closed or cached is not newer than it,
\* and a refresh still querying is newer than what is cached.
Numbered ==
    /\ \A r \in Refreshes : r > refreshDone => refresh[r] = "none"
    /\ \A r \in closed : r <= refreshDone
    /\ cached <= refreshDone
    /\ \A r \in Refreshes : refresh[r] = "query" => cached < r
    /\ refreshing => refreshDone \in Refreshes /\ Running(refreshDone)

MonitorInv == TypeOK /\ OneRefresh /\ Numbered

LEMMA MonitorInit == Init => MonitorInv
<1> SUFFICES ASSUME Init PROVE MonitorInv
  OBVIOUS
<1>1. TypeOK
  <2>1. calls \in 0..MaxCalls
    BY MonitorAssumption DEF Init
  <2>2. closed \subseteq Refreshes
    BY DEF Init
  <2> QED
    BY <2>1, <2>2, Zenon DEF Init, TypeOK
<1>2. \A r \in Refreshes : ~Running(r)
  BY DEF Init, Running
<1>3. Numbered
  <2>1. 0 \in Nat /\ \A r \in Refreshes : 0 < r
    BY MonitorAssumption DEF Refreshes
  <2> QED
    BY <2>1 DEF Init, Numbered
<1> QED
  BY <1>1, <1>2, <1>3 DEF MonitorInv, OneRefresh

LEMMA MonitorStep == MonitorInv /\ [Next]_vars => MonitorInv'
<1> SUFFICES ASSUME MonitorInv, [Next]_vars PROVE MonitorInv'
  OBVIOUS
<1> USE MonitorAssumption
<1>a. Refreshes \subseteq Nat \ {0} /\ refreshDone \in Nat /\ cached \in Nat
  BY DEF MonitorInv, TypeOK, Refreshes
<1>1. ASSUME NEW c \in Callers, Arrive(c) PROVE MonitorInv'
  BY <1>1 DEF Arrive, monitor, MonitorInv, TypeOK, OneRefresh, Numbered, Running
<1>s. ASSUME StartRefresh, ~refreshing, UNCHANGED <<cached, closed>>
      PROVE OneRefresh' /\ Numbered' /\ refresh' \in [Refreshes -> {"none", "query", "observe", "finish", "ended"}]
            /\ refreshDone' \in Refreshes /\ refreshing' \in BOOLEAN
  <2>1. refreshDone + 1 \in Refreshes /\ refreshDone' = refreshDone + 1
    BY <1>s, <1>a DEF StartRefresh, Refreshes
  <2>2. \A r \in Refreshes : ~Running(r)
    BY <1>s DEF MonitorInv, OneRefresh
  <2> QED
    BY <1>s, <1>a, <2>1, <2>2 DEF StartRefresh, MonitorInv, TypeOK, OneRefresh, Numbered, Running
<1>2. ASSUME NEW c \in Callers, AnswerCached(c) PROVE MonitorInv'
  <2>1. CASE RefreshDue
    BY <1>2, <1>s, <2>1 DEF AnswerCached, RefreshDue, MonitorInv, TypeOK
  <2>2. CASE ~RefreshDue
    BY <1>2, <2>2 DEF AnswerCached, MonitorInv, TypeOK, OneRefresh, Numbered, Running
  <2> QED
    BY <2>1, <2>2
<1>3. ASSUME NEW c \in Callers, JoinRefresh(c) PROVE MonitorInv'
  BY <1>3 DEF JoinRefresh, monitor, MonitorInv, TypeOK, OneRefresh, Numbered, Running
<1>4. ASSUME NEW c \in Callers, OwnRefresh(c) PROVE MonitorInv'
  BY <1>4, <1>s DEF OwnRefresh, MonitorInv, TypeOK
<1>5. ASSUME NEW c \in Callers, Woken(c) \/ CheckError(c) \/ Cancelled(c) PROVE MonitorInv'
  BY <1>5 DEF Woken, CheckError, Cancelled, monitor, MonitorInv, TypeOK, OneRefresh, Numbered, Running
<1>6. ASSUME NEW r \in Refreshes, Measured(r) PROVE MonitorInv'
  <2>1. TypeOK'
    BY <1>6 DEF Measured, callers, MonitorInv, TypeOK
  <2>2. refreshing /\ refreshDone = r /\ \A q \in Refreshes : Running(q) => q = r
    BY <1>6 DEF Measured, MonitorInv, OneRefresh, Running
  <2>3. refresh'[r] = "observe" /\ \A q \in Refreshes : q # r => refresh'[q] = refresh[q]
    BY <1>6 DEF Measured, MonitorInv, TypeOK
  <2>4. OneRefresh'
    BY <1>6, <2>2, <2>3 DEF Measured, MonitorInv, OneRefresh, Running
  <2>5. Numbered'
    BY <1>6, <1>a, <2>2, <2>3 DEF Measured, MonitorInv, OneRefresh, Numbered, Running
  <2> QED
    BY <2>1, <2>4, <2>5 DEF MonitorInv
<1>7. ASSUME NEW r \in Refreshes, QueryFailed(r) \/ ObserveSnapshot(r) PROVE MonitorInv'
  <2>0. Running(r)
    BY <1>7 DEF QueryFailed, ObserveSnapshot, Running
  <2>1. refreshing /\ refreshDone = r /\ r \notin closed /\ \A q \in Refreshes : Running(q) => q = r
    BY <2>0 DEF MonitorInv, OneRefresh
  <2>2. TypeOK'
    BY <1>7, <2>1 DEF QueryFailed, ObserveSnapshot, callers, MonitorInv, TypeOK
  <2>3. refresh'[r] = "finish" /\ \A q \in Refreshes : q # r => refresh'[q] = refresh[q]
    BY <1>7 DEF QueryFailed, ObserveSnapshot, MonitorInv, TypeOK
  <2>4. OneRefresh'
    BY <1>7, <2>1, <2>3 DEF QueryFailed, ObserveSnapshot, MonitorInv, OneRefresh, Running
  <2>5. Numbered'
    BY <1>7, <1>a, <2>1, <2>3 DEF QueryFailed, ObserveSnapshot, MonitorInv, Numbered, Running
  <2> QED
    BY <2>2, <2>4, <2>5 DEF MonitorInv
<1>8. ASSUME NEW r \in Refreshes, FinishRefresh(r) PROVE MonitorInv'
  <2>0. Running(r)
    BY <1>8 DEF FinishRefresh, Running
  <2>1. refreshing /\ refreshDone = r /\ r \notin closed /\ \A q \in Refreshes : Running(q) => q = r
    BY <2>0 DEF MonitorInv, OneRefresh
  <2>2. TypeOK'
    BY <1>8, <2>1 DEF FinishRefresh, callers, MonitorInv, TypeOK
  <2>3. refresh'[r] = "ended" /\ \A q \in Refreshes : q # r => refresh'[q] = refresh[q]
    BY <1>8 DEF FinishRefresh, MonitorInv, TypeOK
  <2>4. OneRefresh'
    BY <1>8, <2>1, <2>3 DEF FinishRefresh, MonitorInv, OneRefresh, Running
  <2>5. Numbered'
    BY <1>8, <1>a, <2>1, <2>3 DEF FinishRefresh, MonitorInv, Numbered, Running
  <2> QED
    BY <2>2, <2>4, <2>5 DEF MonitorInv
<1>9. CASE Expire
  BY <1>9 DEF Expire, callers, MonitorInv, TypeOK, OneRefresh, Numbered, Running
<1>10. CASE UNCHANGED vars
  BY <1>10 DEF vars, monitor, callers, MonitorInv, TypeOK, OneRefresh, Numbered, Running
<1> QED
  BY <1>1, <1>2, <1>3, <1>4, <1>5, <1>6, <1>7, <1>8, <1>9, <1>10 DEF Next, CallStep, RefreshStep

\* The invariant of the monitor: types, one refresh at a time, refreshes numbered
\* in the order they start.
THEOREM MonitorInvariant == Spec => []MonitorInv
  BY MonitorInit, MonitorStep, PTL DEF Spec

\* The refreshes of snapshotFromDB never overlap, and each closes its own channel
\* once, however many handlers call Snapshot.
THEOREM RefreshesExclude == Spec => []OneRefresh
<1>1. MonitorInv => OneRefresh
  BY DEF MonitorInv
<1> QED
  BY <1>1, MonitorInvariant, PTL

\* The cached snapshot is only ever replaced by a later measurement.
THEOREM AnswersNeverOlder == Spec => SnapshotsMonotone
<1>1. ASSUME MonitorInv, [Next]_vars PROVE [cached' >= cached]_vars
  <2>0. cached \in Nat
    BY <1>1, MonitorAssumption DEF MonitorInv, TypeOK, Refreshes
  <2>1. ASSUME NEW r \in Refreshes, Measured(r) PROVE cached' >= cached
    BY <1>1, <2>0, <2>1, MonitorAssumption DEF Measured, MonitorInv, Numbered, Refreshes
  <2>2. (\A r \in Refreshes : ~Measured(r)) => cached' = cached
    BY <1>1 DEF Next, CallStep, RefreshStep, Arrive, AnswerCached, JoinRefresh, OwnRefresh, Woken,
       CheckError, Cancelled, QueryFailed, ObserveSnapshot, FinishRefresh, Expire, monitor, callers, vars
  <2> QED
    BY <2>0, <2>1, <2>2
<1> QED
  BY <1>1, MonitorInvariant, PTL DEF Spec, SnapshotsMonotone

\* What has been published when: a refresh at the observer is the one whose
\* snapshot is cached, and when it is about to close its channel, or has closed
\* it, and its snapshot still is the cached one, the gauges are its own.
Published ==
    \A r \in Refreshes :
        /\ refresh[r] = "observe" => cached = r
        /\ refresh[r] = "finish" \/ r \in closed => (cached = r => gauges = r)

LEMMA PublishedInit == Init => Published
<1>1. Init => \A r \in Refreshes : refresh[r] = "none" /\ r \notin closed
  BY DEF Init
<1> QED
  BY <1>1 DEF Published

LEMMA PublishedStep == MonitorInv /\ Published /\ [Next]_vars => Published'
<1> SUFFICES ASSUME MonitorInv, Published, [Next]_vars PROVE Published'
  OBVIOUS
<1> USE MonitorAssumption
<1>a. Refreshes \subseteq Nat \ {0} /\ refreshDone \in Nat /\ cached \in Nat
  BY DEF MonitorInv, TypeOK, Refreshes
<1>b. refresh \in [Refreshes -> {"none", "query", "observe", "finish", "ended"}]
  BY DEF MonitorInv, TypeOK
<1>s. ASSUME StartRefresh, UNCHANGED <<cached, closed, gauges>> PROVE Published'
  BY <1>s, <1>a, <1>b DEF StartRefresh, Published, Refreshes
<1>1. ASSUME NEW c \in Callers, Arrive(c) \/ CallStep(c) \/ Cancelled(c) PROVE Published'
  <2>1. StartRefresh \/ UNCHANGED refresh
    BY <1>1 DEF Arrive, CallStep, AnswerCached, JoinRefresh, OwnRefresh, Woken, CheckError, Cancelled, monitor
  <2>2. UNCHANGED <<cached, closed, gauges>>
    BY <1>1 DEF Arrive, CallStep, AnswerCached, JoinRefresh, OwnRefresh, Woken, CheckError, Cancelled, monitor
  <2> QED
    BY <1>s, <2>1, <2>2 DEF Published
<1>2. ASSUME NEW r \in Refreshes, RefreshStep(r) PROVE Published'
  <2>1. Running(r)
    BY <1>2 DEF RefreshStep, Measured, QueryFailed, ObserveSnapshot, FinishRefresh, Running
  <2>2. refreshDone = r /\ r \notin closed /\ \A q \in Refreshes : Running(q) => q = r
    BY <2>1 DEF MonitorInv, OneRefresh
  <2>3. CASE Measured(r)
    BY <1>b, <2>2, <2>3 DEF Measured, Published, Running
  <2>4. CASE QueryFailed(r)
    <3>1. cached # r
      BY <1>a, <2>4 DEF QueryFailed, MonitorInv, Numbered
    <3> QED
      BY <1>b, <2>2, <2>4, <3>1 DEF QueryFailed, Published, Running
  <2>5. CASE ObserveSnapshot(r)
    <3>1. cached = r
      BY <2>5 DEF ObserveSnapshot, Published
    <3> QED
      BY <1>b, <2>2, <2>5, <3>1 DEF ObserveSnapshot, Published, Running
  <2>6. CASE FinishRefresh(r)
    BY <1>b, <2>2, <2>6 DEF FinishRefresh, Published, Running
  <2> QED
    BY <1>2, <2>3, <2>4, <2>5, <2>6 DEF RefreshStep
<1>3. CASE Expire \/ UNCHANGED vars
  BY <1>3 DEF Expire, vars, monitor, Published
<1> QED
  BY <1>1, <1>2, <1>3 DEF Next

\* A caller that waits for a refresh is woken only after the observer has
\* published its gauges (refresh calls the observer before it closes the channel).
THEOREM WokenAfterGauges == Spec => []GaugesBeforeWakeup
<1>1. MonitorInv /\ Published => GaugesBeforeWakeup
  BY DEF MonitorInv, TypeOK, Published, GaugesBeforeWakeup
<1>2. Spec => []Published
  BY PublishedInit, PublishedStep, MonitorInvariant, PTL DEF Spec
<1> QED
  BY <1>1, <1>2, MonitorInvariant, PTL

\* One refresh at a time, and its gauges are published before its callers wake.
THEOREM RefreshesAreSound == Spec => []RefreshesSound
  BY RefreshesExclude, WokenAfterGauges, PTL DEF RefreshesSound

----------------------------------------------------------------------------
(* The upstream proxies                                                     *)

\* The rates lead to the baseline from an earlier sample of its instance.
MaybeSamples == Samples \union {Proxies!NoSample}
Rates == [from : MaybeSamples, to : MaybeSamples]
RatesToLast ==
    rates # Proxies!NoRates =>
        /\ rates.to = last /\ rates.from.instance = last.instance
        /\ rates.from.at < last.at /\ rates.from.count <= last.count

\* A request has rates only once it has shown them.
ReaderTyped ==
    reader \in [Readers -> [at : {"idle", "wait", "woken", "show", "shown"}, sample : MaybeSamples,
                            status : {"none", "unavailable", "stale", "current"}, rates : Rates]]
ProxiesInv ==
    /\ Proxies!TypeOK /\ ReaderTyped /\ rates \in Rates /\ RatesToLast
    /\ \A r \in Readers : reader[r].at # "shown" => reader[r].rates = Proxies!NoRates
    /\ Proxies!RatesOfShown

----------------------------------------------------------------------------

\* A database error that no answer followed is the one that is kept, and a context that
\* was not cancelled leaves no cancellation behind.
WaitInv ==
    /\ err \in {"none", "database", "deadline", "canceled"} /\ status \in {"none", "not_ready", "ready"}
    /\ ended # "canceled" => err # "canceled"
    /\ wait \in {"poll", "select"} => status # "ready"
    /\ trouble \in BOOLEAN /\ (trouble <=> err = "database")

\* Counts that were read are those of the table at that time, which is past.
CountsRead ==
    /\ time \in 1..MaxTime /\ rows \in [1..MaxTime -> Nat]
    /\ counts \in [value : Nat, read : 0..time, expires : Nat]
    /\ counts.expires # 0 => counts.read # 0
    /\ counts.read # 0 => counts.value = rows[counts.read]
\* Whoever counts holds the lock, and reads no less than the cache holds.
ProbesRead ==
    /\ probe \in [Probes -> [at : {"idle", "counting", "counted", "ready", "failed"}, seen : Nat, read : 0..time]]
    /\ \A p \in Probes : probe[p].at \in {"counted", "ready"} =>
         probe[p].read # 0 /\ probe[p].seen = rows[probe[p].read]
    /\ \A p \in Probes : probe[p].at = "ready" => probe[p].read <= counts.read
    /\ \A p \in Probes : probe[p].at = "counted" => counts.read <= probe[p].read
    /\ \A p \in Probes : probe[p].at \in {"counting", "counted"} <=> locked = p

ReadyInv == Ready!TypeOK /\ WaitInv /\ CountsRead /\ ProbesRead /\ Ready!ReadinessHonest

----------------------------------------------------------------------------

\* Entries of the cache and of its history.
Entries == [text : Texts, expires : 0..(MaxTime + Ttl)]
Uses == [text : Texts]
VectorsTyped ==
    /\ now \in 0..MaxTime /\ order \in Seq(Entries) /\ used \in Seq(Uses)
    /\ client \in [Clients -> [at : {"idle", "get", "hit", "embed", "put"}, text : Texts \union {"none"},
                               age : 0..Ttl]]
    /\ \A c \in Clients : client[c].at # "idle" => client[c].text \in Texts

\* An entry was put at the latest now, and was used.
EntriesPut ==
    /\ \A i \in DOMAIN order : order[i].expires <= now + Ttl
    /\ \A i \in DOMAIN order : \E k \in DOMAIN used : used[k].text = order[i].text

VectorsInv == VectorsTyped /\ EntriesPut /\ Vectors!CacheSound

CachesInv ==
    /\ part \in {"health", "proxies", "ready", "vectors"}
    /\ part = "health" => MonitorInv
    /\ part = "proxies" => ProxiesInv
    /\ part = "ready" => ReadyInv
    /\ part = "vectors" => VectorsInv

----------------------------------------------------------------------------
(* Samples of the upstream proxies                                          *)

LEMMA SampleTypes ==
    /\ \A s \in MaybeSamples : s.at \in Nat /\ s.count \in Nat
    /\ Proxies!NoSample \in MaybeSamples /\ Proxies!NoRates \in Rates
BY CacheAssumption DEF MaybeSamples, Proxies!NoSample, Proxies!NoRates, Rates

LEMMA ProxiesInit == Proxies!Init => ProxiesInv
<1> SUFFICES ASSUME Proxies!Init PROVE ProxiesInv
  OBVIOUS
<1>1. Proxies!NoReader \in [at : {"idle", "wait", "woken", "show", "shown"}, sample : MaybeSamples,
                            status : {"none", "unavailable", "stale", "current"}, rates : Rates]
  BY SampleTypes DEF Proxies!NoReader
<1>2. Proxies!NoReader.at = "idle" /\ Proxies!NoReader.rates = Proxies!NoRates
  BY DEF Proxies!NoReader
<1>3. ReaderTyped /\ \A r \in Readers : reader[r].at = "idle" /\ reader[r].rates = Proxies!NoRates
  BY <1>1, <1>2 DEF Proxies!Init, ReaderTyped
<1>4. Proxies!TypeOK
  BY <1>3, SampleTypes, CacheAssumption DEF Proxies!Init, Proxies!TypeOK, MaybeSamples
<1> QED
  BY <1>3, <1>4, SampleTypes DEF Proxies!Init, ProxiesInv, RatesToLast, Proxies!RatesOfShown

\* The rates observe computes.
LEMMA ObserveRates ==
    ASSUME ProxiesInv, NEW s \in Samples, Proxies!Observe(s)
    PROVE  last' \in MaybeSamples /\ rates' \in Rates /\ RatesToLast'
<1>0. last \in MaybeSamples /\ rates \in Rates /\ RatesToLast /\ s \in MaybeSamples
  BY DEF ProxiesInv, Proxies!TypeOK, MaybeSamples
<1>1. CASE UNCHANGED <<last, rates>>
  BY <1>0, <1>1 DEF RatesToLast
<1>2. CASE ~ UNCHANGED <<last, rates>>
  <2>1. /\ ~(last # Proxies!NoSample /\ s.instance = last.instance /\ s.at <= last.at)
        /\ last' = s
        /\ rates' = IF last # Proxies!NoSample /\ last.instance = s.instance /\ s.count >= last.count
                    THEN [from |-> last, to |-> s] ELSE Proxies!NoRates
    BY <1>2 DEF Proxies!Observe, Proxies!proxy
  <2>2. s.at \in Nat /\ last.at \in Nat /\ s.count \in Nat /\ last.count \in Nat
    BY <1>0, SampleTypes
  <2>3. CASE last # Proxies!NoSample /\ last.instance = s.instance /\ s.count >= last.count
    <3>1. rates' = [from |-> last, to |-> s] /\ last.at < s.at /\ last.count <= s.count
      BY <2>1, <2>2, <2>3
    <3>2. rates' \in Rates
      BY <1>0, <3>1 DEF Rates
    <3> QED
      BY <1>0, <2>1, <2>3, <3>1, <3>2 DEF RatesToLast
  <2>4. CASE ~(last # Proxies!NoSample /\ last.instance = s.instance /\ s.count >= last.count)
    BY <1>0, <2>1, <2>4, SampleTypes DEF RatesToLast, Proxies!NoRates
  <2> QED
    BY <2>3, <2>4
<1> QED
  BY <1>1, <1>2

\* The refresh and the clock: no request shows anything new.
LEMMA ProxyRefreshStep ==
    ASSUME ProxiesInv, Proxies!Tick \/ Proxies!Refreshing
    PROVE  ProxiesInv'
<1> USE CacheAssumption
<1>0. fetched \in MaybeSamples /\ sample \in MaybeSamples /\ last \in MaybeSamples /\ clock \in 1..Horizon
  BY DEF ProxiesInv, Proxies!TypeOK, MaybeSamples
<1>1. CASE Proxies!Tick
  BY <1>1 DEF Proxies!Tick, Proxies!proxy, ProxiesInv, Proxies!TypeOK, ReaderTyped, RatesToLast, Proxies!RatesOfShown
<1>2. CASE \E s \in Samples \union {Proxies!NoSample} : Proxies!Fetch(s)
  BY <1>2 DEF Proxies!Fetch, Proxies!proxy, ProxiesInv, Proxies!TypeOK, ReaderTyped, RatesToLast, Proxies!RatesOfShown
<1>3. CASE Proxies!Validate
  <2>1. /\ upstreamRefresh' = "ending" /\ UNCHANGED <<clock, nextAttempt, sample, reader>>
        /\ \/ fetched' = fetched /\ fetched \in Samples /\ Proxies!Observe(fetched)
           \/ fetched' = Proxies!NoSample /\ UNCHANGED <<last, rates>>
    BY <1>0, <1>3 DEF Proxies!Validate, Proxies!Valid, Proxies!proxy, MaybeSamples
  <2>2. fetched' \in MaybeSamples /\ last' \in MaybeSamples /\ rates' \in Rates /\ RatesToLast'
    <3>1. CASE fetched' = fetched /\ fetched \in Samples /\ Proxies!Observe(fetched)
      BY <1>0, <3>1, ObserveRates
    <3>2. CASE fetched' = Proxies!NoSample /\ UNCHANGED <<last, rates>>
      BY <1>0, <3>2, SampleTypes DEF ProxiesInv, RatesToLast
    <3> QED
      BY <2>1, <3>1, <3>2
  <2>3. Proxies!TypeOK'
    BY <1>0, <2>1, <2>2 DEF ProxiesInv, Proxies!TypeOK, MaybeSamples
  <2> QED
    BY <2>1, <2>2, <2>3 DEF ProxiesInv, ReaderTyped, Proxies!RatesOfShown
<1>4. CASE Proxies!EndRefresh
  <2>1. /\ sample' = (IF fetched # Proxies!NoSample THEN fetched ELSE sample)
        /\ upstreamRefresh' = "none" /\ fetched' = Proxies!NoSample
        /\ reader' = [r \in Readers |-> IF reader[r].at = "wait"
                                        THEN [reader[r] EXCEPT !.at = "woken"] ELSE reader[r]]
        /\ UNCHANGED <<clock, nextAttempt, last, rates>>
    BY <1>4 DEF Proxies!EndRefresh, Proxies!proxy
  <2>2. sample' \in MaybeSamples /\ fetched' \in MaybeSamples
    BY <1>0, <2>1, SampleTypes
  <2>3. ReaderTyped'
    BY <2>1 DEF ReaderTyped, ProxiesInv
  <2>4. \A r \in Readers : reader'[r] = reader[r] \/ (reader[r].at = "wait" /\ reader'[r].at = "woken" /\ reader'[r].rates = reader[r].rates)
    BY <2>1 DEF ReaderTyped, ProxiesInv
  <2>5. Proxies!TypeOK'
    BY <1>0, <2>1, <2>2, <2>3 DEF ProxiesInv, Proxies!TypeOK, MaybeSamples, ReaderTyped
  <2>6. \A r \in Readers : reader'[r].at # "shown" => reader'[r].rates = Proxies!NoRates
    BY <2>4 DEF ProxiesInv
  <2>7. Proxies!RatesOfShown'
    BY <2>4 DEF ProxiesInv, Proxies!RatesOfShown
  <2>8. rates' \in Rates /\ RatesToLast'
    BY <2>1 DEF ProxiesInv, RatesToLast
  <2> QED
    BY <2>3, <2>5, <2>6, <2>7, <2>8 DEF ProxiesInv
<1> QED
  BY <1>1, <1>2, <1>3, <1>4 DEF Proxies!Refreshing

\* A step of one request, which only has to be shown of what that one has.
LEMMA ReaderMove ==
    ASSUME ProxiesInv, NEW r \in Readers,
           UNCHANGED <<clock, fetched, sample, last, rates>>,
           nextAttempt' \in 0..(Horizon + Ttl), upstreamRefresh' \in {"none", "fetching", "fetched", "ending"},
           NEW x \in [at : {"idle", "wait", "woken", "show", "shown"}, sample : MaybeSamples,
                      status : {"none", "unavailable", "stale", "current"}, rates : Rates],
           reader' = [reader EXCEPT ![r] = x],
           \/ x.rates = Proxies!NoRates
           \/ /\ x.at = "shown" /\ x.status = "current" /\ x.rates = rates
              /\ last.instance = x.sample.instance /\ last.at = x.sample.at
    PROVE  ProxiesInv'
<1>1. ReaderTyped' /\ reader'[r] = x /\ \A q \in Readers \ {r} : reader'[q] = reader[q]
  BY DEF ProxiesInv, ReaderTyped
<1>2. Proxies!TypeOK'
  BY <1>1 DEF ProxiesInv, Proxies!TypeOK, ReaderTyped
<1>3. \A q \in Readers : reader'[q].at # "shown" => reader'[q].rates = Proxies!NoRates
  BY <1>1 DEF ProxiesInv
<1>4. rates' \in Rates /\ RatesToLast'
  BY DEF ProxiesInv, RatesToLast
<1>5. Proxies!RatesOfShown'
  <2> SUFFICES ASSUME NEW q \in Readers, reader'[q].rates # Proxies!NoRates
               PROVE  /\ reader'[q].status = "current"
                      /\ reader'[q].rates.to.instance = reader'[q].sample.instance
                      /\ reader'[q].rates.to.at = reader'[q].sample.at
                      /\ reader'[q].rates.from.instance = reader'[q].sample.instance
                      /\ reader'[q].rates.from.at < reader'[q].rates.to.at
                      /\ reader'[q].rates.from.count <= reader'[q].rates.to.count
    BY DEF Proxies!RatesOfShown
  <2>1. CASE q # r
    BY <1>1, <2>1 DEF ProxiesInv, Proxies!RatesOfShown
  <2>2. CASE q = r
    BY <1>1, <2>2 DEF ProxiesInv, RatesToLast
  <2> QED
    BY <2>1, <2>2
<1> QED
  BY <1>1, <1>2, <1>3, <1>4, <1>5 DEF ProxiesInv

LEMMA ReaderStep ==
    ASSUME ProxiesInv, NEW r \in Readers,
           Proxies!Read(r) \/ Proxies!Woken(r) \/ Proxies!Cancel(r) \/ Proxies!Show(r) \/ Proxies!Leave(r)
    PROVE  ProxiesInv'
<1> USE CacheAssumption
<1> DEFINE Readings == [at : {"idle", "wait", "woken", "show", "shown"}, sample : MaybeSamples,
                        status : {"none", "unavailable", "stale", "current"}, rates : Rates]
<1>0. /\ clock \in 1..Horizon /\ nextAttempt \in 0..(Horizon + Ttl) /\ sample \in MaybeSamples /\ rates \in Rates
      /\ upstreamRefresh \in {"none", "fetching", "fetched", "ending"}
      /\ reader[r] \in Readings
  BY DEF ProxiesInv, Proxies!TypeOK, MaybeSamples, ReaderTyped
<1>1. UNCHANGED <<clock, fetched, sample, last, rates>>
  BY DEF Proxies!Read, Proxies!Woken, Proxies!Cancel, Proxies!Show, Proxies!Leave, Proxies!proxy
<1>2. reader[r].at # "shown" => reader[r].rates = Proxies!NoRates
  BY DEF ProxiesInv
<1>3. Proxies!NoReader \in Readings /\ Proxies!NoReader.rates = Proxies!NoRates
  BY SampleTypes DEF Proxies!NoReader
<1>4. CASE Proxies!Read(r)
  <2> PICK there : there = (IF sample # Proxies!NoSample \/ upstreamRefresh' = "none" THEN "show" ELSE "wait")
    OBVIOUS
  <2> DEFINE x == [Proxies!NoReader EXCEPT !.sample = sample, !.at = there]
  <2>1. /\ nextAttempt' \in {nextAttempt, clock + Ttl} /\ upstreamRefresh' \in {upstreamRefresh, "fetching"}
        /\ reader' = [reader EXCEPT ![r] = x]
    BY <1>4 DEF Proxies!Read
  <2>2. x \in Readings /\ x.rates = Proxies!NoRates
    BY <1>0, SampleTypes DEF Proxies!NoReader
  <2>3. nextAttempt' \in 0..(Horizon + Ttl)
    BY <1>0, <2>1
  <2> HIDE DEF x
  <2> QED
    BY <1>0, <1>1, <2>1, <2>2, <2>3, ReaderMove
<1>5. CASE Proxies!Woken(r)
  <2> DEFINE x == [reader[r] EXCEPT !.at = "show", !.sample = sample]
  <2>1. reader' = [reader EXCEPT ![r] = x] /\ reader[r].at = "woken" /\ UNCHANGED <<nextAttempt, upstreamRefresh>>
    BY <1>5 DEF Proxies!Woken, ProxiesInv, ReaderTyped
  <2>2. x \in Readings /\ x.rates = Proxies!NoRates
    BY <1>0, <1>2, <2>1
  <2> HIDE DEF x
  <2> QED
    BY <1>0, <1>1, <2>1, <2>2, ReaderMove
<1>6. CASE Proxies!Cancel(r)
  <2> DEFINE x == [reader[r] EXCEPT !.at = "show"]
  <2>1. reader' = [reader EXCEPT ![r] = x] /\ reader[r].at # "shown" /\ UNCHANGED <<nextAttempt, upstreamRefresh>>
    BY <1>6 DEF Proxies!Cancel, ProxiesInv, ReaderTyped
  <2>2. x \in Readings /\ x.rates = Proxies!NoRates
    BY <1>0, <1>2, <2>1
  <2> HIDE DEF x
  <2> QED
    BY <1>0, <1>1, <2>1, <2>2, ReaderMove
<1>7. CASE Proxies!Show(r)
  <2> PICK s : s = reader[r].sample
    OBVIOUS
  <2> PICK t : t = Proxies!Status(s)
    OBVIOUS
  <2> PICK y : y = Proxies!ShownRates(s)
    OBVIOUS
  <2> DEFINE x == [reader[r] EXCEPT !.at = "shown", !.status = t, !.rates = y]
  <2>1. reader' = [reader EXCEPT ![r] = x] /\ UNCHANGED <<nextAttempt, upstreamRefresh>>
    BY <1>7 DEF Proxies!Show, ProxiesInv, ReaderTyped
  <2>2. t \in {"unavailable", "stale", "current"}
    BY DEF Proxies!Status
  <2>3. \/ y = Proxies!NoRates
        \/ t = "current" /\ y = rates /\ last.instance = s.instance /\ last.at = s.at
    BY DEF Proxies!ShownRates
  <2>4. y \in Rates
    BY <1>0, <2>3, SampleTypes
  <2>5. x \in Readings /\ x.at = "shown" /\ x.status = t /\ x.rates = y /\ x.sample = s
    BY <1>0, <2>2, <2>4
  <2> HIDE DEF x
  <2> QED
    BY <1>0, <1>1, <2>1, <2>3, <2>5, ReaderMove
<1>8. CASE Proxies!Leave(r)
  <2>1. reader' = [reader EXCEPT ![r] = Proxies!NoReader] /\ UNCHANGED <<nextAttempt, upstreamRefresh>>
    BY <1>8 DEF Proxies!Leave
  <2> QED
    BY <1>0, <1>1, <1>3, <2>1, ReaderMove
<1> QED
  BY <1>4, <1>5, <1>6, <1>7, <1>8

LEMMA ProxiesStep == ProxiesInv /\ Proxies!Next => ProxiesInv'
BY ProxyRefreshStep, ReaderStep DEF Proxies!Next

----------------------------------------------------------------------------
(* Readiness                                                                *)

LEMMA ReadyInit == Ready!Init => ReadyInv
<1> SUFFICES ASSUME Ready!Init PROVE ReadyInv
  OBVIOUS
<1> USE CacheAssumption
<1>1. WaitInv
  BY DEF Ready!Init, WaitInv
<1>2. CountsRead
  BY DEF Ready!Init, CountsRead
<1>3. /\ ProbesRead /\ \A p \in Probes : probe[p].at = "idle"
  BY DEF Ready!Init, ProbesRead, Ready!NoProbe, Ready!Nobody
<1>4. Ready!TypeOK
  BY <1>3 DEF Ready!Init, Ready!TypeOK, Ready!Nobody
<1>5. Ready!ReadinessHonest
  BY <1>3 DEF Ready!Init, Ready!ReadinessHonest
<1> QED
  BY <1>1, <1>2, <1>3, <1>4, <1>5 DEF ReadyInv

\* The wait for the schema.
LEMMA WaitStep ==
    ASSUME ReadyInv, Ready!Wait, UNCHANGED Ready!probing
    PROVE  ReadyInv'
<1> USE CacheAssumption
<1>0. UNCHANGED <<time, rows, counts, locked, probe>>
  BY DEF Ready!probing
<1>1. CountsRead' /\ ProbesRead'
  BY <1>0 DEF ReadyInv, CountsRead, ProbesRead
<1>2. polls \in 0..(Timeout + 1) /\ ended \in {"no", "deadline", "canceled"} /\ WaitInv
  BY DEF ReadyInv, Ready!TypeOK
<1>3. /\ polls' \in 0..(Timeout + 1) /\ ended' \in {"no", "deadline", "canceled"} /\ WaitInv'
      /\ wait' \in {"poll", "select", "passed", "database", "deadline", "canceled", "not_ready", "timeout"}
      /\ wait' = "database" => trouble'
      /\ wait' \in {"deadline", "not_ready", "timeout"} => ~trouble'
  <2>1. CASE \E r \in BOOLEAN : Ready!Answer(r)
    BY <1>2, <2>1 DEF Ready!Answer, WaitInv
  <2>2. ASSUME NEW e \in {"database", "deadline", "canceled"}, Ready!Error(e)
        PROVE  /\ polls' = polls /\ ended' = ended /\ WaitInv' /\ wait' = "select"
    BY <1>2, <2>2 DEF Ready!Error, Ready!Kept, WaitInv
  <2>3. CASE Ready!Expire \/ Ready!Cancel \/ Ready!Again
    BY <1>2, <2>3 DEF Ready!Expire, Ready!Cancel, Ready!Again, WaitInv
  <2>4. CASE Ready!GiveUp
    <3>1. UNCHANGED <<polls, ended, status, err, trouble>> /\ wait = "select" /\ wait' = Ready!Told
      BY <2>4 DEF Ready!GiveUp
    <3>2. \/ ended = "canceled" /\ Ready!Told = "canceled"
          \/ ended # "canceled" /\ err # "none" /\ Ready!Told = err
          \/ ended # "canceled" /\ err = "none" /\ Ready!Told \in {status, "timeout"}
             /\ (Ready!Told = status => status # "none")
      BY DEF Ready!Told
    <3> QED
      BY <1>2, <3>1, <3>2 DEF WaitInv
  <2> QED
    BY <1>2, <2>1, <2>2, <2>3, <2>4 DEF Ready!Wait
<1>4. Ready!TypeOK'
  BY <1>0, <1>3 DEF ReadyInv, Ready!TypeOK
<1>5. Ready!ReadinessHonest'
  BY <1>0, <1>3 DEF ReadyInv, Ready!ReadinessHonest
<1> QED
  BY <1>1, <1>3, <1>4, <1>5 DEF ReadyInv

\* What the probes do, once the counts and the probes are known to be right.
LEMMA ProbeMove ==
    ASSUME ReadyInv, UNCHANGED Ready!waiting, CountsRead', ProbesRead', locked' \in Probes \union {"nobody"}
    PROVE  ReadyInv'
<1>0. UNCHANGED <<polls, ended, wait, status, err, trouble>>
  BY DEF Ready!waiting
<1>1. WaitInv'
  BY <1>0 DEF ReadyInv, WaitInv
<1>2. Ready!TypeOK'
  BY <1>0 DEF ReadyInv, Ready!TypeOK, ProbesRead, Ready!Nobody
<1>3. Ready!ReadinessHonest'
  BY <1>0 DEF ReadyInv, Ready!ReadinessHonest, ProbesRead
<1> QED
  BY <1>1, <1>2, <1>3 DEF ReadyInv

LEMMA ProbeStep ==
    ASSUME ReadyInv, Ready!Probe, UNCHANGED Ready!waiting
    PROVE  ReadyInv'
<1> USE CacheAssumption
<1> DEFINE Asked == [at : {"idle", "counting", "counted", "ready", "failed"}, seen : Nat, read : 0..time]
<1>0. CountsRead /\ ProbesRead /\ time \in 1..MaxTime /\ time \in Nat /\ locked \in Probes \union {"nobody"}
  BY DEF ReadyInv, Ready!TypeOK, Ready!Nobody, CountsRead
<1>1. \* A step of one probe that leaves the table and the clock.
      ASSUME NEW p \in Probes, NEW x \in Asked, probe' = [probe EXCEPT ![p] = x],
             x.at \in {"counted", "ready"} => x.read # 0 /\ x.seen = rows[x.read],
             x.at = "ready" => x.read <= counts'.read, x.at = "counted" => counts'.read <= x.read,
             x.at \in {"counting", "counted"} <=> locked' = p,
             \A q \in Probes \ {p} : locked' = q <=> locked = q,
             UNCHANGED <<time, rows>>,
             counts' = counts \/ (locked = p /\ counts.read <= counts'.read /\ counts'.read \in Nat)
      PROVE  ProbesRead'
  <2>1. /\ probe' \in [Probes -> Asked] /\ probe'[p] = x
        /\ \A q \in Probes \ {p} : probe'[q] = probe[q]
    BY <1>0, <1>1 DEF ProbesRead
  <2>2. ASSUME NEW q \in Probes \ {p}
        PROVE  /\ probe[q].at = "ready" => probe[q].read <= counts'.read
               /\ probe[q].at = "counted" => counts'.read <= probe[q].read
               /\ probe[q].at \in {"counting", "counted"} <=> locked' = q
    <3>1. probe[q] \in Asked /\ counts.read \in Nat
      BY <1>0 DEF ProbesRead, CountsRead
    <3>2. CASE counts' = counts
      BY <1>0, <1>1, <3>2 DEF ProbesRead
    <3>3. CASE locked = p /\ counts.read <= counts'.read /\ counts'.read \in Nat
      BY <1>0, <1>1, <3>1, <3>3 DEF ProbesRead
    <3> QED
      BY <1>1, <3>2, <3>3
  <2> QED
    BY <1>0, <1>1, <2>1, <2>2 DEF ProbesRead
<1>2. ASSUME UNCHANGED <<time, rows, counts>> PROVE CountsRead'
  BY <1>0, <1>2 DEF CountsRead
<1>3. ASSUME NEW p \in Probes, Ready!Lock(p) PROVE ReadyInv'
  <2>1. UNCHANGED <<time, rows, counts>>
    BY <1>3 DEF Ready!Lock
  <2>2. CASE time < counts.expires
    <3> DEFINE x == [at |-> "ready", seen |-> counts.value, read |-> counts.read]
    <3>1. probe' = [probe EXCEPT ![p] = x] /\ locked' = locked
      BY <1>3, <2>2 DEF Ready!Lock
    <3>2. counts.read # 0
      BY <1>0, <2>2 DEF CountsRead
    <3>3. x \in Asked /\ x.at = "ready" /\ x.read # 0 /\ x.seen = rows[x.read] /\ x.read <= counts.read
      BY <1>0, <3>2 DEF CountsRead
    <3>4. locked' = "nobody" /\ locked = "nobody"
      BY <1>3, <3>1 DEF Ready!Lock, Ready!Nobody
    <3> HIDE DEF x
    <3>5. ProbesRead'
      BY <1>1, <2>1, <3>1, <3>3, <3>4
    <3> QED
      BY <1>0, <1>2, <2>1, <3>1, <3>5, ProbeMove
  <2>3. CASE ~(time < counts.expires)
    <3> DEFINE x == [Ready!NoProbe EXCEPT !.at = "counting"]
    <3>1. probe' = [probe EXCEPT ![p] = x] /\ locked' = p
      BY <1>3, <2>3 DEF Ready!Lock
    <3>2. x \in Asked /\ x.at = "counting"
      BY <1>0 DEF Ready!NoProbe
    <3>3. locked = "nobody"
      BY <1>3 DEF Ready!Lock, Ready!Nobody
    <3> HIDE DEF x
    <3>4. ProbesRead'
      BY <1>1, <2>1, <3>1, <3>2, <3>3
    <3> QED
      BY <1>0, <1>2, <2>1, <3>1, <3>4, ProbeMove
  <2> QED
    BY <2>2, <2>3
<1>4. ASSUME NEW p \in Probes, Ready!Count(p) PROVE ReadyInv'
  <2> DEFINE x == [probe[p] EXCEPT !.at = "counted", !.seen = rows[time], !.read = time]
  <2>1. probe' = [probe EXCEPT ![p] = x] /\ UNCHANGED <<time, rows, counts, locked>>
    BY <1>0, <1>4 DEF Ready!Count, ProbesRead
  <2>2. probe[p] \in Asked /\ rows[time] \in Nat /\ time \in 0..time /\ time # 0
    BY <1>0 DEF ProbesRead, CountsRead
  <2>3. x \in Asked
    BY <2>2
  <2>4. x.read = time /\ x.seen = rows[time]
    BY <2>2
  <2>5. x \in Asked /\ x.at = "counted" /\ x.read # 0 /\ x.seen = rows[x.read] /\ counts.read <= x.read
    BY <1>0, <2>2, <2>3, <2>4 DEF CountsRead
  <2>6. locked = p
    BY <1>0, <1>4 DEF Ready!Count, ProbesRead
  <2> HIDE DEF x
  <2>7. ProbesRead'
    BY <1>1, <2>1, <2>5, <2>6
  <2> QED
    BY <1>0, <1>2, <2>1, <2>7, ProbeMove
<1>5. ASSUME NEW p \in Probes, Ready!CountFails(p) PROVE ReadyInv'
  <2> DEFINE x == [probe[p] EXCEPT !.at = "failed"]
  <2>1. probe' = [probe EXCEPT ![p] = x] /\ UNCHANGED <<time, rows, counts>> /\ locked' = "nobody"
    BY <1>0, <1>5 DEF Ready!CountFails, ProbesRead, Ready!Nobody
  <2>2. x \in Asked /\ x.at = "failed"
    BY <1>0 DEF ProbesRead
  <2>3. locked = p
    BY <1>0, <1>5 DEF Ready!CountFails, ProbesRead
  <2> HIDE DEF x
  <2>4. ProbesRead'
    BY <1>1, <2>1, <2>2, <2>3
  <2> QED
    BY <1>0, <1>2, <2>1, <2>4, ProbeMove
<1>6. ASSUME NEW p \in Probes, Ready!Publish(p) PROVE ReadyInv'
  <2> DEFINE x == [probe[p] EXCEPT !.at = "ready"]
  <2>1. /\ probe[p].at = "counted" /\ UNCHANGED <<time, rows>> /\ locked' = "nobody"
        /\ counts' = [value |-> probe[p].seen, read |-> probe[p].read, expires |-> time + Lifetime]
    BY <1>6 DEF Ready!Publish, Ready!Nobody
  <2>2. probe' = [probe EXCEPT ![p] = x]
    BY <1>0, <1>6 DEF Ready!Publish, ProbesRead
  <2>3. probe[p] \in Asked /\ probe[p].read # 0 /\ probe[p].seen = rows[probe[p].read]
    BY <1>0, <2>1 DEF ProbesRead
  <2>4. x \in Asked /\ x.at = "ready" /\ x.read # 0 /\ x.seen = rows[x.read] /\ x.read = counts'.read
    BY <2>1, <2>3
  <2>5. CountsRead'
    BY SMTT(30), <1>0, <2>1, <2>3 DEF CountsRead
  <2>6. locked = p /\ counts.read <= counts'.read /\ counts'.read \in Nat
    BY <1>0, <2>1, <2>3 DEF ProbesRead
  <2> HIDE DEF x
  <2>7. x.read <= counts'.read /\ UNCHANGED <<time, rows>>
    BY <2>1, <2>4, <2>6
  <2>8. locked' # p /\ \A q \in Probes \ {p} : locked' = q <=> locked = q
    BY <2>1, <2>6
  <2>9. ProbesRead'
    BY <1>1, <2>2, <2>4, <2>6, <2>7, <2>8
  <2> QED
    BY <1>0, <2>1, <2>5, <2>9, ProbeMove
<1>7. ASSUME NEW p \in Probes, Ready!Done(p) PROVE ReadyInv'
  <2>1. probe' = [probe EXCEPT ![p] = Ready!NoProbe] /\ UNCHANGED <<time, rows, counts, locked>>
    BY <1>7 DEF Ready!Done
  <2>2. Ready!NoProbe \in Asked /\ Ready!NoProbe.at = "idle"
    BY <1>0 DEF Ready!NoProbe
  <2>3. locked # p
    BY <1>0, <1>7 DEF Ready!Done, ProbesRead
  <2>4. ProbesRead'
    BY <1>1, <2>1, <2>2, <2>3
  <2> QED
    BY <1>0, <1>2, <2>1, <2>4, ProbeMove
<1>8. ASSUME NEW p \in Probes, Ready!CheckFails(p) PROVE ReadyInv'
  <2> DEFINE x == [probe[p] EXCEPT !.at = "failed"]
  <2>1. probe' = [probe EXCEPT ![p] = x] /\ UNCHANGED <<time, rows, counts, locked>>
    BY <1>0, <1>8 DEF Ready!CheckFails, ProbesRead
  <2>2. x \in Asked /\ x.at = "failed"
    BY <1>0 DEF ProbesRead
  <2>3. locked # p
    BY <1>0, <1>8 DEF Ready!CheckFails, ProbesRead
  <2> HIDE DEF x
  <2>4. ProbesRead'
    BY <1>1, <2>1, <2>2, <2>3
  <2> QED
    BY <1>0, <1>2, <2>1, <2>4, ProbeMove
<1>9. CASE Ready!Pass
  <2>1. /\ time < MaxTime /\ time' = time + 1 /\ UNCHANGED <<counts, locked, probe>>
        /\ \E n \in {rows[time], time} : rows' = [rows EXCEPT ![time + 1] = n]
    BY <1>9 DEF Ready!Pass
  <2>2. PICK n \in {rows[time], time} : rows' = [rows EXCEPT ![time + 1] = n]
    BY <2>1
  <2>3. rows' \in [1..MaxTime -> Nat] /\ \A t \in 1..time : rows'[t] = rows[t]
    BY <1>0, <2>1, <2>2 DEF CountsRead
  <2>4. CountsRead'
    BY SMTT(30), <1>0, <2>1, <2>3 DEF CountsRead
  <2>5. ProbesRead'
    BY <1>0, <2>1, <2>3 DEF ProbesRead
  <2> QED
    BY <1>0, <2>1, <2>4, <2>5, ProbeMove
<1> QED
  BY <1>3, <1>4, <1>5, <1>6, <1>7, <1>9, <1>8 DEF Ready!Probe

LEMMA ReadyStep == ReadyInv /\ Ready!Next => ReadyInv'
BY WaitStep, ProbeStep DEF Ready!Next


----------------------------------------------------------------------------
(* The cache of query vectors                                               *)

LEMMA Joined ==
    ASSUME NEW R, NEW u \in Seq(R), NEW v \in Seq(R)
    PROVE  /\ u \o v \in Seq(R) /\ Len(u \o v) = Len(u) + Len(v)
           /\ \A i \in 1..Len(u) : (u \o v)[i] = u[i]
           /\ \A i \in 1..Len(v) : (u \o v)[Len(u) + i] = v[i]
<1>1. u \o v \in Seq(R)
  OBVIOUS
<1>2. Len(u \o v) = Len(u) + Len(v)
  OBVIOUS
<1> QED
  BY <1>1, <1>2

LEMMA Fronted ==
    ASSUME NEW R, NEW e \in R, NEW w \in Seq(R), NEW n, n = <<e>> \o w
    PROVE  n \in Seq(R) /\ Len(n) = Len(w) + 1 /\ n[1] = e /\ \A i \in 1..Len(w) : n[i + 1] = w[i]
<1>1. <<e>> \in Seq(R) /\ Len(<<e>>) = 1 /\ <<e>>[1] = e
  OBVIOUS
<1> PICK y \in Seq(R) : y = <<e>>
  BY <1>1
<1>2. y \o w \in Seq(R) /\ Len(y \o w) = Len(y) + Len(w)
  BY Joined
<1>3. \A i \in 1..Len(y) : (y \o w)[i] = y[i]
  BY Joined
<1>4. \A i \in 1..Len(w) : (y \o w)[Len(y) + i] = w[i]
  BY Joined
<1>5. Len(y) = 1 /\ y[1] = e /\ Len(w) \in Nat
  BY <1>1
<1>6. \A i \in 1..Len(w) : Len(y) + i = i + 1
  BY <1>5
<1> QED
  BY <1>2, <1>3, <1>4, <1>5, <1>6

\* What is left of a list without a text: all of it, or all but one place.
LEMMA Removed ==
    ASSUME NEW R, NEW s \in Seq(R), NEW t
    PROVE  \/ Vectors!Without(s, t) = s /\ \A i \in 1..Len(s) : s[i].text # t
           \/ \E p \in 1..Len(s) :
                /\ s[p].text = t /\ Vectors!Position(s, t) = p
                /\ Vectors!Without(s, t) \in Seq(R) /\ Len(Vectors!Without(s, t)) = Len(s) - 1
                /\ \A i \in 1..(Len(s) - 1) : Vectors!Without(s, t)[i] = IF i < p THEN s[i] ELSE s[i + 1]
<1>1. CASE t \notin Vectors!TextsIn(s)
  BY <1>1 DEF Vectors!Without, Vectors!TextsIn
<1>2. CASE t \in Vectors!TextsIn(s)
  <2>1. \E i \in DOMAIN s : s[i].text = t
    BY <1>2 DEF Vectors!TextsIn
  <2> DEFINE p == Vectors!Position(s, t)
  <2>2. p \in 1..Len(s) /\ s[p].text = t
    BY <2>1 DEF Vectors!Position
  <2>3. Vectors!Without(s, t) = SubSeq(s, 1, p - 1) \o SubSeq(s, p + 1, Len(s))
    BY <1>2 DEF Vectors!Without, Vectors!RemoveAt
  <2> HIDE DEF p
  <2> DEFINE u == SubSeq(s, 1, p - 1)  v == SubSeq(s, p + 1, Len(s))
  <2>4. u \in Seq(R) /\ Len(u) = p - 1 /\ \A i \in 1..(p - 1) : u[i] = s[i]
    BY <2>2
  <2>5. v \in Seq(R) /\ Len(v) = Len(s) - p /\ \A i \in 1..(Len(s) - p) : v[i] = s[i + p]
    BY <2>2
  <2> HIDE DEF u, v
  <2>6. u \o v \in Seq(R) /\ Len(u \o v) = Len(s) - 1
    <3>1. u \o v \in Seq(R) /\ Len(u \o v) = Len(u) + Len(v)
      BY <2>4, <2>5, Joined
    <3> QED
      BY <2>2, <2>4, <2>5, <3>1
  <2>7. \A i \in 1..(Len(s) - 1) : (u \o v)[i] = IF i < p THEN s[i] ELSE s[i + 1]
    <3> TAKE i \in 1..(Len(s) - 1)
    <3>1. CASE i < p
      BY <2>2, <2>4, <2>5, <3>1
    <3>2. CASE ~(i < p)
      <4>1. (u \o v)[i] = v[i - (p - 1)] /\ i - (p - 1) \in 1..(Len(s) - p)
        BY <2>2, <2>4, <2>5, <3>2
      <4> QED
        BY <2>2, <2>5, <3>2, <4>1
    <3> QED
      BY <3>1, <3>2
  <2> QED
    BY <2>2, <2>3, <2>6, <2>7 DEF p, u, v
<1> QED
  BY <1>1, <1>2

\* What is left of a list in which a text is found once: it keeps its order, and only
\* the text is gone.
Once(s) == \A i, j \in 1..Len(s) : i < j => s[i].text # s[j].text
Precede(s, a, b) == \E k, l \in 1..Len(s) : k < l /\ s[k].text = a /\ s[l].text = b

LEMMA LeftInOrder ==
    ASSUME NEW R, NEW s \in Seq(R), NEW t, NEW w, w = Vectors!Without(s, t)
    PROVE  /\ w \in Seq(R) /\ Len(w) <= Len(s)
           /\ (\E i \in 1..Len(s) : s[i].text = t) => Len(w) = Len(s) - 1
           /\ \A i, j \in 1..Len(w) : i < j => \E k, l \in 1..Len(s) : k < l /\ w[i] = s[k] /\ w[j] = s[l]
           /\ \A i \in 1..Len(w) : \E k \in 1..Len(s) : w[i] = s[k]
           /\ Once(s) => \A i \in 1..Len(w) : w[i].text # t
           /\ \A a, b : a # t /\ b # t /\ Precede(s, a, b) => Precede(w, a, b)
           /\ \A k \in 1..Len(s) : s[k].text # t => \E i \in 1..Len(w) : w[i].text = s[k].text
<1>1. CASE w = s /\ \A i \in 1..Len(s) : s[i].text # t
  BY <1>1
<1>2. ASSUME NEW p \in 1..Len(s), s[p].text = t, w \in Seq(R), Len(w) = Len(s) - 1,
             \A i \in 1..(Len(s) - 1) : w[i] = IF i < p THEN s[i] ELSE s[i + 1]
      PROVE  /\ \A i, j \in 1..Len(w) : i < j => \E k, l \in 1..Len(s) : k < l /\ w[i] = s[k] /\ w[j] = s[l]
             /\ \A i \in 1..Len(w) : \E k \in 1..Len(s) : w[i] = s[k]
             /\ Once(s) => \A i \in 1..Len(w) : w[i].text # t
             /\ \A a, b : a # t /\ b # t /\ Precede(s, a, b) => Precede(w, a, b)
             /\ \A k \in 1..Len(s) : s[k].text # t => \E i \in 1..Len(w) : w[i].text = s[k].text
  <2> DEFINE From(i) == IF i < p THEN i ELSE i + 1
             To(k) == IF k < p THEN k ELSE k - 1
  <2>0. Len(s) \in Nat
    OBVIOUS
  <2>1. \A i \in 1..Len(w) : From(i) \in 1..Len(s) /\ From(i) # p /\ w[i] = s[From(i)]
    BY <1>2, <2>0
  <2>2. \A i, j \in 1..Len(w) : i < j => From(i) < From(j)
    BY <1>2, <2>0
  <2>3. \A k \in 1..Len(s) : k # p => To(k) \in 1..Len(w) /\ w[To(k)] = s[k]
    BY <1>2, <2>0
  <2>4. \A k, l \in 1..Len(s) : k # p /\ l # p /\ k < l => To(k) < To(l)
    BY <1>2, <2>0
  <2> HIDE DEF From, To
  <2>5. \A i, j \in 1..Len(w) : i < j => \E k, l \in 1..Len(s) : k < l /\ w[i] = s[k] /\ w[j] = s[l]
    BY <2>1, <2>2
  <2>6. Once(s) => \A i \in 1..Len(w) : w[i].text # t
    <3> SUFFICES ASSUME Once(s), NEW i \in 1..Len(w) PROVE w[i].text # t
      OBVIOUS
    <3> PICK k \in 1..Len(s) : k # p /\ w[i] = s[k]
      BY <2>1
    <3>1. k < p \/ p < k
      BY <2>0
    <3> QED
      BY <1>2, <3>1 DEF Once
  <2>7. ASSUME NEW a, NEW b, a # t, b # t, Precede(s, a, b) PROVE Precede(w, a, b)
    <3> PICK k \in 1..Len(s), l \in 1..Len(s) : k < l /\ s[k].text = a /\ s[l].text = b
      BY <2>7 DEF Precede
    <3>1. k # p /\ l # p
      BY <1>2, <2>7
    <3>2. To(k) \in 1..Len(w) /\ To(l) \in 1..Len(w) /\ To(k) < To(l) /\ w[To(k)].text = a /\ w[To(l)].text = b
      BY <2>3, <2>4, <3>1
    <3> QED
      BY <3>2 DEF Precede
  <2>8. \A k \in 1..Len(s) : s[k].text # t => \E i \in 1..Len(w) : w[i].text = s[k].text
    BY <1>2, <2>3
  <2> QED
    BY <2>1, <2>5, <2>6, <2>7, <2>8
<1>3. w \in Seq(R) /\ Len(w) <= Len(s) /\ ((\E i \in 1..Len(s) : s[i].text = t) => Len(w) = Len(s) - 1)
  BY Removed
<1> QED
  BY <1>1, <1>2, <1>3, Removed

\* What the cache holds was used, in the order it is held in.
Kept(o, u) ==
    /\ \A i \in 1..Len(o) : \E k \in 1..Len(u) : u[k].text = o[i].text
    /\ Once(o) /\ \A i, j \in 1..Len(o) : i < j => Precede(u, o[i].text, o[j].text)

\* A part of the list, in its order, is kept with it.
LEMMA PartKept ==
    ASSUME NEW o \in Seq(Entries), NEW w \in Seq(Entries), NEW u, Kept(o, u),
           \A i \in 1..Len(w) : \E k \in 1..Len(o) : w[i] = o[k],
           \A i, j \in 1..Len(w) : i < j => \E k, l \in 1..Len(o) : k < l /\ w[i] = o[k] /\ w[j] = o[l]
    PROVE  Kept(w, u)
<1>1. \A i \in 1..Len(w) : \E k \in 1..Len(u) : u[k].text = w[i].text
  BY SMTT(30) DEF Kept
<1>2. ASSUME NEW i \in 1..Len(w), NEW j \in 1..Len(w), i < j
      PROVE  w[i].text # w[j].text /\ Precede(u, w[i].text, w[j].text)
  <2> PICK k \in 1..Len(o), l \in 1..Len(o) : k < l /\ w[i] = o[k] /\ w[j] = o[l]
    BY <1>2
  <2> QED
    BY DEF Kept, Once
<1> QED
  BY <1>1, <1>2 DEF Kept, Once

\* A text used now comes first, and the order of the others stays.
Moved(s, e) == <<e>> \o Vectors!Without(s, e.text)
Use(t) == [text |-> t]

LEMMA FrontKept ==
    ASSUME NEW o \in Seq(Entries), NEW u \in Seq(Uses), Kept(o, u), NEW t \in Texts,
           NEW e \in Entries, e.text = t,
           NEW n, n = Moved(o, e), NEW v, v = Moved(u, Use(t))
    PROVE  /\ n \in Seq(Entries) /\ v \in Seq(Uses) /\ Kept(n, v)
           /\ Len(n) <= Len(o) + 1 /\ ((\E i \in 1..Len(o) : o[i].text = t) => Len(n) = Len(o))
           /\ \A i \in 1..Len(n) : n[i] = e \/ \E k \in 1..Len(o) : n[i] = o[k]
<1> DEFINE w == Vectors!Without(o, t)  x == Vectors!Without(u, t)  f == Use(t)
<1>1. /\ w \in Seq(Entries) /\ Len(w) <= Len(o) /\ ((\E i \in 1..Len(o) : o[i].text = t) => Len(w) = Len(o) - 1)
      /\ \A i, j \in 1..Len(w) : i < j => \E k, l \in 1..Len(o) : k < l /\ w[i] = o[k] /\ w[j] = o[l]
      /\ \A i \in 1..Len(w) : \E k \in 1..Len(o) : w[i] = o[k]
      /\ \A i \in 1..Len(w) : w[i].text # t
  BY LeftInOrder DEF Kept
<1>2. /\ x \in Seq(Uses)
      /\ \A a, b : a # t /\ b # t /\ Precede(u, a, b) => Precede(x, a, b)
      /\ \A k \in 1..Len(u) : u[k].text # t => \E i \in 1..Len(x) : x[i].text = u[k].text
  BY LeftInOrder
<1>3. f \in Uses /\ f.text = t
  BY DEF Uses, Use
<1>4. n = <<e>> \o w /\ v = <<f>> \o x
  BY <1>3 DEF w, x, f, Moved
<1> HIDE DEF w, x, f
<1>5. Kept(w, u)
  BY <1>1, PartKept
<1>6. n \in Seq(Entries) /\ Len(n) = Len(w) + 1 /\ n[1] = e /\ \A i \in 1..Len(w) : n[i + 1] = w[i]
  <2>1. w \in Seq(Entries) /\ n = <<e>> \o w /\ e \in Entries
    BY <1>1, <1>4
  <2> QED
    BY ONLY <2>1, Fronted
<1>7. v \in Seq(Uses) /\ Len(v) = Len(x) + 1 /\ v[1] = f /\ \A i \in 1..Len(x) : v[i + 1] = x[i]
  <2>1. x \in Seq(Uses) /\ v = <<f>> \o x /\ f \in Uses
    BY <1>2, <1>3, <1>4
  <2> QED
    BY ONLY <2>1, Fronted
<1>8. Len(w) \in Nat /\ Len(x) \in Nat /\ Len(o) \in Nat
  BY <1>1, <1>2
<1>9. \A i \in 1..Len(n) : i = 1 \/ (i - 1 \in 1..Len(w) /\ n[i] = w[i - 1])
  <2> TAKE i \in 1..Len(n)
  <2> SUFFICES ASSUME i # 1 PROVE i - 1 \in 1..Len(w) /\ n[i] = w[i - 1]
    OBVIOUS
  <2>1. i - 1 \in 1..Len(w) /\ i = (i - 1) + 1
    BY <1>6, <1>8
  <2> QED
    BY <1>6, <2>1
<1>10. \A i \in 1..Len(w) : \E k \in 1..Len(x) : x[k].text = w[i].text
  <2> TAKE i \in 1..Len(w)
  <2> PICK k \in 1..Len(u) : u[k].text = w[i].text
    BY <1>5 DEF Kept
  <2> QED
    BY <1>1, <1>2
<1>11. \A k \in 1..Len(x) : k + 1 \in 1..Len(v) /\ v[k + 1] = x[k] /\ 1 < k + 1
  BY <1>7, <1>8
<1>12. 1 \in 1..Len(v) /\ v[1].text = t /\ n[1].text = t
  BY <1>3, <1>6, <1>7, <1>8
<1>13. \A i \in 1..Len(w) : Precede(v, t, w[i].text)
  <2> TAKE i \in 1..Len(w)
  <2> PICK k \in 1..Len(x) : x[k].text = w[i].text
    BY <1>10
  <2>1. k + 1 \in 1..Len(v) /\ 1 < k + 1 /\ v[k + 1].text = w[i].text
    BY <1>11
  <2> QED
    BY <1>12, <2>1 DEF Precede
<1>14. \A i, j \in 1..Len(w) : i < j => Precede(v, w[i].text, w[j].text)
  <2> TAKE i \in 1..Len(w), j \in 1..Len(w)
  <2> HAVE i < j
  <2>1. Precede(x, w[i].text, w[j].text)
    BY <1>1, <1>2, <1>5 DEF Kept
  <2> PICK k \in 1..Len(x), l \in 1..Len(x) : k < l /\ x[k].text = w[i].text /\ x[l].text = w[j].text
    BY <2>1 DEF Precede
  <2>2. k + 1 \in 1..Len(v) /\ v[k + 1].text = w[i].text /\ l + 1 \in 1..Len(v) /\ v[l + 1].text = w[j].text
    BY <1>11
  <2>3. k + 1 < l + 1
    OBVIOUS
  <2> QED
    BY <2>2, <2>3 DEF Precede
<1>15. ASSUME NEW i \in 1..Len(n), NEW j \in 1..Len(n), i < j
       PROVE  n[i].text # n[j].text /\ Precede(v, n[i].text, n[j].text)
  <2>1. j - 1 \in 1..Len(w) /\ n[j] = w[j - 1] /\ j # 1
    BY <1>9, <1>15, <1>6, <1>8
  <2>2. CASE i = 1
    BY <1>1, <1>12, <1>13, <2>1, <2>2
  <2>3. CASE i # 1
    <3>1. i - 1 \in 1..Len(w) /\ n[i] = w[i - 1]
      BY <1>9, <2>3
    <3>2. i - 1 < j - 1
      BY <1>15, <1>6, <1>8
    <3>3. w[i - 1].text # w[j - 1].text
      BY <1>5, <2>1, <3>1, <3>2 DEF Kept, Once
    <3> QED
      BY <1>14, <2>1, <3>1, <3>2, <3>3
  <2> QED
    BY <2>2, <2>3
<1>16. \A i \in 1..Len(n) : \E k \in 1..Len(v) : v[k].text = n[i].text
  <2> TAKE i \in 1..Len(n)
  <2>1. CASE i = 1
    BY <1>12, <2>1
  <2>2. CASE i # 1
    <3>1. i - 1 \in 1..Len(w) /\ n[i] = w[i - 1]
      BY <1>9, <2>2
    <3> QED
      BY <3>1, <1>10, <1>11
  <2> QED
    BY <2>1, <2>2
<1>17. Kept(n, v)
  <2>1. Once(n)
    BY <1>15 DEF Once
  <2>2. \A i, j \in 1..Len(n) : i < j => Precede(v, n[i].text, n[j].text)
    BY <1>15
  <2> QED
    BY <1>16, <2>1, <2>2 DEF Kept
<1>18. \A i \in 1..Len(n) : n[i] = e \/ \E k \in 1..Len(o) : n[i] = o[k]
  <2> TAKE i \in 1..Len(n)
  <2>1. i = 1 => n[i] = e
    BY <1>6
  <2>2. i # 1 => \E k \in 1..Len(o) : n[i] = o[k]
    BY SMTT(30), <1>1, <1>9
  <2> QED
    BY <2>1, <2>2
<1> QED
  BY <1>1, <1>6, <1>7, <1>8, <1>17, <1>18

\* What the operations make of the list, with a bound on when its entries expire.
Bounded(o, b) == \A i \in 1..Len(o) : o[i].expires <= b

LEMMA DroppedKept ==
    ASSUME NEW o \in Seq(Entries), NEW u, Kept(o, u), NEW b, Bounded(o, b), NEW t,
           NEW w, w = Vectors!Without(o, t)
    PROVE  w \in Seq(Entries) /\ Len(w) <= Len(o) /\ Kept(w, u) /\ Bounded(w, b)
<1>1. w \in Seq(Entries) /\ Len(w) <= Len(o)
  BY LeftInOrder
<1>2. \A i, j \in 1..Len(w) : i < j => \E k, l \in 1..Len(o) : k < l /\ w[i] = o[k] /\ w[j] = o[l]
  BY SMTT(30), LeftInOrder
<1>3. \A i \in 1..Len(w) : \E k \in 1..Len(o) : w[i] = o[k]
  BY LeftInOrder
<1>4. Kept(w, u)
  BY <1>1, <1>2, <1>3, PartKept
<1> QED
  BY <1>1, <1>3, <1>4 DEF Bounded

LEMMA MovedKept ==
    ASSUME NEW o \in Seq(Entries), NEW u \in Seq(Uses), Kept(o, u), NEW b, Bounded(o, b), NEW t \in Texts,
           NEW e \in Entries, e.text = t, e.expires <= b
    PROVE  /\ Moved(o, e) \in Seq(Entries) /\ Moved(u, Use(t)) \in Seq(Uses)
           /\ Kept(Moved(o, e), Moved(u, Use(t))) /\ Bounded(Moved(o, e), b)
           /\ (\E i \in 1..Len(o) : o[i].text = t) => Len(Moved(o, e)) = Len(o)
<1> PICK n, v : n = Moved(o, e) /\ v = Moved(u, Use(t))
  OBVIOUS
<1>1. n \in Seq(Entries) /\ v \in Seq(Uses) /\ Kept(n, v)
  BY FrontKept
<1>2. (\E i \in 1..Len(o) : o[i].text = t) => Len(n) = Len(o)
  BY FrontKept
<1>3. \A i \in 1..Len(n) : n[i] = e \/ \E k \in 1..Len(o) : n[i] = o[k]
  BY FrontKept
<1>4. Bounded(n, b)
  BY <1>3 DEF Bounded
<1> QED
  BY <1>1, <1>2, <1>4

\* The front of a list.
Cut(s, m) == SubSeq(s, 1, m)

LEMMA CutKept ==
    ASSUME NEW n \in Seq(Entries), NEW v, Kept(n, v), NEW b, Bounded(n, b), NEW m \in 0..Len(n)
    PROVE  Cut(n, m) \in Seq(Entries) /\ Len(Cut(n, m)) = m /\ Kept(Cut(n, m), v) /\ Bounded(Cut(n, m), b)
<1> DEFINE w == Cut(n, m)
<1>0. Len(n) \in Nat
  OBVIOUS
<1>1. w \in Seq(Entries)
  BY <1>0 DEF Cut
<1>2. Len(w) = m
  BY <1>0 DEF Cut
<1>3. \A i \in 1..Len(w) : i \in 1..Len(n) /\ w[i] = n[i]
  BY <1>0, <1>2 DEF Cut
<1> HIDE DEF w
<1>4. Kept(w, v)
  BY <1>1, <1>3, PartKept
<1>5. Bounded(w, b)
  BY <1>1, <1>2, <1>3 DEF Bounded
<1> QED
  BY <1>1, <1>2, <1>4, <1>5 DEF w

LEMMA VectorsInit == Vectors!Init => VectorsInv
<1> SUFFICES ASSUME Vectors!Init PROVE VectorsInv
  OBVIOUS
<1>1. VectorsTyped /\ \A c \in Clients : client[c].at = "idle"
  BY CacheAssumption DEF Vectors!Init, Vectors!NoCall, VectorsTyped
<1>2. EntriesPut /\ Len(order) = 0 /\ DOMAIN order = {}
  BY DEF Vectors!Init, EntriesPut
<1>3. Vectors!CacheSound
  BY <1>1, <1>2, CacheAssumption DEF Vectors!CacheSound
<1> QED
  BY <1>1, <1>2, <1>3 DEF VectorsInv

\* The list and the history in the words of the lemmas.
LEMMA ListsKept ==
    ASSUME VectorsInv
    PROVE  /\ order \in Seq(Entries) /\ used \in Seq(Uses) /\ Kept(order, used)
           /\ Len(order) <= Capacity /\ Bounded(order, now + Ttl)
<1>1. order \in Seq(Entries) /\ used \in Seq(Uses)
  BY DEF VectorsInv, VectorsTyped
<1>2. DOMAIN order = 1..Len(order) /\ DOMAIN used = 1..Len(used)
  BY <1>1
<1>3. Kept(order, used)
  BY <1>2 DEF VectorsInv, EntriesPut, Vectors!CacheSound, Kept, Once, Precede
<1> QED
  BY <1>1, <1>2, <1>3 DEF VectorsInv, EntriesPut, Vectors!CacheSound, Bounded

\* And back.
LEMMA ListsSound ==
    ASSUME NEW o, NEW u, o \in Seq(Entries), u \in Seq(Uses), Kept(o, u), order' = o, used' = u, now' \in 0..MaxTime,
           Len(o) <= Capacity, Bounded(o, now' + Ttl),
           client' \in [Clients -> [at : {"idle", "get", "hit", "embed", "put"}, text : Texts \union {"none"},
                                    age : 0..Ttl]],
           \A c \in Clients : client'[c].at # "idle" => client'[c].text \in Texts
    PROVE  VectorsInv'
<1>1. VectorsTyped'
  BY DEF VectorsTyped
<1>2. DOMAIN o = 1..Len(o) /\ DOMAIN u = 1..Len(u)
  OBVIOUS
<1>3. EntriesPut'
  BY <1>2 DEF EntriesPut, Kept, Bounded
<1>4. \A i, j \in DOMAIN o : i < j =>
        /\ o[i].text # o[j].text
        /\ \E k, l \in DOMAIN u : k < l /\ u[k].text = o[i].text /\ u[l].text = o[j].text
  <2> SUFFICES ASSUME NEW i \in DOMAIN o, NEW j \in DOMAIN o, i < j
               PROVE  /\ o[i].text # o[j].text
                      /\ \E k, l \in DOMAIN u : k < l /\ u[k].text = o[i].text /\ u[l].text = o[j].text
    OBVIOUS
  <2>1. o[i].text # o[j].text /\ Precede(u, o[i].text, o[j].text)
    BY <1>2 DEF Kept, Once
  <2> QED
    BY <1>2, <2>1 DEF Precede
<1>5. Vectors!CacheSound'
  BY <1>4 DEF Vectors!CacheSound
<1> QED
  BY <1>1, <1>3, <1>5 DEF VectorsInv

LEMMA VectorsStep == VectorsInv /\ Vectors!Next => VectorsInv'
<1> SUFFICES ASSUME VectorsInv, Vectors!Next PROVE VectorsInv'
  OBVIOUS
<1> USE CacheAssumption
<1> DEFINE Calls == [at : {"idle", "get", "hit", "embed", "put"}, text : Texts \union {"none"}, age : 0..Ttl]
<1>0. /\ now \in 0..MaxTime /\ client \in [Clients -> Calls] /\ Ttl \in Nat /\ MaxTime \in Nat /\ Capacity \in Nat
      /\ \A c \in Clients : client[c].at # "idle" => client[c].text \in Texts
  BY DEF VectorsInv, VectorsTyped
<1>1. /\ order \in Seq(Entries) /\ used \in Seq(Uses) /\ Kept(order, used)
      /\ Len(order) <= Capacity /\ Bounded(order, now + Ttl)
  BY ListsKept
<1> PICK o, u : o = order /\ u = used
  OBVIOUS
<1>2. /\ o \in Seq(Entries) /\ u \in Seq(Uses) /\ Kept(o, u) /\ Len(o) \in Nat
      /\ Len(o) <= Capacity /\ Bounded(o, now + Ttl)
  BY <1>1
<1>3. \* One call moves.
      ASSUME NEW c \in Clients, NEW x \in Calls, x.at # "idle" => x.text \in Texts,
             client' = [client EXCEPT ![c] = x]
      PROVE  client' \in [Clients -> Calls] /\ \A d \in Clients : client'[d].at # "idle" => client'[d].text \in Texts
  BY <1>0, <1>3
<1>4. Vectors!NoCall \in Calls /\ Vectors!NoCall.at = "idle"
  BY <1>0 DEF Vectors!NoCall
<1>5. ASSUME UNCHANGED <<now, order, used>>, client' \in [Clients -> Calls],
             \A d \in Clients : client'[d].at # "idle" => client'[d].text \in Texts
      PROVE  VectorsInv'
  <2>1. order' = o /\ used' = u /\ now' = now
    BY <1>5
  <2> QED
    BY <1>0, <1>2, <1>5, <2>1, ListsSound
<1>6. CASE Vectors!Pass
  <2>1. order' = o /\ used' = u /\ now' = now + 1 /\ now' \in 0..MaxTime /\ client' = client
    BY <1>0, <1>6 DEF Vectors!Pass
  <2>2. Bounded(o, now' + Ttl)
    <3> SUFFICES ASSUME NEW i \in 1..Len(o) PROVE o[i].expires <= now' + Ttl
      BY DEF Bounded
    <3>1. o[i] \in Entries
      BY <1>2
    <3>2. o[i].expires \in Int /\ o[i].expires <= now + Ttl
      BY <1>2, <3>1 DEF Bounded, Entries
    <3> QED
      BY <1>0, <2>1, <3>2
  <2> QED
    BY <1>0, <1>2, <2>1, <2>2, ListsSound
<1>7. ASSUME NEW c \in Clients, NEW t \in Texts, Vectors!Call(c, t) PROVE VectorsInv'
  <2> DEFINE x == [at |-> "get", text |-> t, age |-> 0]
  <2>1. x \in Calls /\ x.text \in Texts
    BY <1>0
  <2>2. client' = [client EXCEPT ![c] = x] /\ UNCHANGED <<now, order, used>>
    BY <1>7 DEF Vectors!Call
  <2> HIDE DEF x
  <2> QED
    BY <1>3, <1>5, <2>1, <2>2
<1>8. ASSUME NEW c \in Clients, Vectors!Embedded(c) PROVE VectorsInv'
  <2> DEFINE x == [client[c] EXCEPT !.at = "put"]
  <2>1. client[c] \in Calls /\ client[c].text \in Texts
    BY <1>0, <1>8 DEF Vectors!Embedded
  <2>2. x \in Calls /\ x.text \in Texts
    BY <2>1
  <2>3. client' = [client EXCEPT ![c] = x] /\ UNCHANGED <<now, order, used>>
    BY <1>0, <1>8 DEF Vectors!Embedded
  <2> HIDE DEF x
  <2> QED
    BY <1>3, <1>5, <2>2, <2>3
<1>9. ASSUME NEW c \in Clients, Vectors!EmbedFails(c) \/ Vectors!Return(c) PROVE VectorsInv'
  <2>1. client' = [client EXCEPT ![c] = Vectors!NoCall] /\ UNCHANGED <<now, order, used>>
    BY <1>9 DEF Vectors!EmbedFails, Vectors!Return
  <2> QED
    BY <1>3, <1>4, <1>5, <2>1
<1>10. ASSUME NEW c \in Clients, Vectors!Get(c) PROVE VectorsInv'
  <2> PICK t : t = client[c].text
    OBVIOUS
  <2>1. client[c].at = "get" /\ now' = now /\ t \in Texts /\ client[c] \in Calls
    BY <1>0, <1>10 DEF Vectors!Get
  <2> DEFINE entry == o[Vectors!Position(o, t)]
             hit == t \in Vectors!TextsIn(o) /\ now <= entry.expires
  <2>2. /\ hit => /\ order' = <<entry>> \o Vectors!Without(o, t)
                  /\ client' = [client EXCEPT ![c].at = "hit", ![c].age = now - (entry.expires - Ttl)]
                  /\ used' = <<[text |-> t]>> \o Vectors!Without(u, t)
        /\ ~hit => /\ order' = Vectors!Without(o, t) /\ used' = u
                   /\ client' = [client EXCEPT ![c].at = "embed"]
    BY <1>10 DEF Vectors!Get, Vectors!Touch
  <2>3. CASE ~hit
    <3> DEFINE x == [client[c] EXCEPT !.at = "embed"]
    <3>1. x \in Calls /\ x.text \in Texts
      BY <2>1
    <3>2. client' = [client EXCEPT ![c] = x]
      BY <1>0, <2>2, <2>3
    <3> HIDE DEF x, hit
    <3>3. client' \in [Clients -> Calls] /\ \A d \in Clients : client'[d].at # "idle" => client'[d].text \in Texts
      BY <1>3, <3>1, <3>2
    <3> PICK w : w = Vectors!Without(o, t)
      OBVIOUS
    <3>4. w \in Seq(Entries) /\ Len(w) <= Len(o) /\ Kept(w, u) /\ Bounded(w, now + Ttl)
      BY <1>2, DroppedKept
    <3>5. Len(w) <= Capacity
      BY <1>0, <1>2, <3>4
    <3>6. order' = w /\ used' = u
      BY <2>2, <2>3
    <3> HIDE DEF Calls
    <3> QED
      BY <1>0, <1>2, <2>1, <3>3, <3>4, <3>5, <3>6, ListsSound DEF Calls
  <2>4. CASE hit
    <3>1. \E i \in DOMAIN o : o[i].text = t
      BY <2>4 DEF Vectors!TextsIn
    <3> PICK p : p = Vectors!Position(o, t)
      OBVIOUS
    <3>2. p \in 1..Len(o) /\ o[p].text = t
      BY <1>2, <3>1 DEF Vectors!Position
    <3> PICK e : e = o[p]
      OBVIOUS
    <3>3. e \in Entries /\ e.text = t /\ entry = e
      BY <1>2, <3>2
    <3>4. e.expires \in Nat /\ now <= e.expires /\ e.expires <= now + Ttl
      <4>1. e.expires <= now + Ttl
        BY <1>2, <3>2 DEF Bounded
      <4>2. e.expires \in Nat
        BY <1>0, <3>3 DEF Entries
      <4>3. now <= e.expires
        BY <2>4, <3>3
      <4> QED
        BY <4>1, <4>2, <4>3
    <3> PICK a : a = now - (e.expires - Ttl)
      OBVIOUS
    <3>5. a \in 0..Ttl
      BY <1>0, <3>4
    <3> DEFINE x == [client[c] EXCEPT !.at = "hit", !.age = a]
    <3>6. x \in Calls /\ x.text \in Texts
      BY <2>1, <3>5
    <3>7. client' = [client EXCEPT ![c] = x]
      BY <1>0, <2>2, <2>4, <3>3
    <3>8. order' = <<e>> \o Vectors!Without(o, t) /\ used' = <<[text |-> t]>> \o Vectors!Without(u, t)
      BY <2>2, <2>4, <3>3
    <3> HIDE DEF x, hit, entry
    <3>9. client' \in [Clients -> Calls] /\ \A d \in Clients : client'[d].at # "idle" => client'[d].text \in Texts
      BY <1>3, <3>6, <3>7
    <3> PICK n, v : n = Moved(o, e) /\ v = Moved(u, Use(t))
      OBVIOUS
    <3>10. n \in Seq(Entries) /\ v \in Seq(Uses) /\ Kept(n, v) /\ Bounded(n, now + Ttl) /\ Len(n) = Len(o)
      <4> PICK b : b = now + Ttl
        OBVIOUS
      <4>1. /\ o \in Seq(Entries) /\ u \in Seq(Uses) /\ Kept(o, u) /\ Bounded(o, b) /\ t \in Texts
            /\ e \in Entries /\ e.text = t /\ e.expires <= b /\ \E i \in 1..Len(o) : o[i].text = t
        BY <1>2, <2>1, <3>2, <3>3, <3>4
      <4>2. /\ Moved(o, e) \in Seq(Entries) /\ Moved(u, Use(t)) \in Seq(Uses)
            /\ Kept(Moved(o, e), Moved(u, Use(t))) /\ Bounded(Moved(o, e), b)
            /\ Len(Moved(o, e)) = Len(o)
        BY ONLY <4>1, MovedKept
      <4> QED
        BY <4>2
    <3>11. order' = n /\ used' = v
      BY <3>3, <3>8 DEF Moved, Use
    <3> QED
      BY <1>0, <1>2, <2>1, <3>9, <3>10, <3>11, ListsSound
  <2> QED
    BY <2>3, <2>4
<1>11. ASSUME NEW c \in Clients, Vectors!Put(c) PROVE VectorsInv'
  <2> PICK t : t = client[c].text
    OBVIOUS
  <2>1. t \in Texts /\ now' = now /\ client' = [client EXCEPT ![c] = Vectors!NoCall]
    BY <1>0, <1>11 DEF Vectors!Put
  <2> PICK e : e = [text |-> t, expires |-> now + Ttl]
    OBVIOUS
  <2>2. e \in Entries /\ e.text = t /\ e.expires = now + Ttl
    BY <1>0, <2>1 DEF Entries
  <2> PICK n, v : n = Moved(o, e) /\ v = Moved(u, Use(t))
    OBVIOUS
  <2>3. n \in Seq(Entries) /\ v \in Seq(Uses) /\ Kept(n, v) /\ Bounded(n, now + Ttl)
    <3>1. e.expires <= now + Ttl
      BY <1>0, <2>2
    <3> QED
      BY <1>2, <2>1, <2>2, <3>1, MovedKept
  <2> PICK m : m = IF Len(n) > Capacity THEN Capacity ELSE Len(n)
    OBVIOUS
  <2>4. m \in 0..Len(n) /\ m <= Capacity
    BY <1>0, <2>3
  <2> PICK w : w = Cut(n, m)
    OBVIOUS
  <2>5. order' = w /\ used' = v
    BY <1>11, <2>2 DEF Vectors!Put, Vectors!PutOrder, Vectors!Touch, Moved, Use, Cut
  <2>6. w \in Seq(Entries) /\ Len(w) = m /\ Kept(w, v) /\ Bounded(w, now + Ttl)
    BY <2>3, <2>4, CutKept
  <2>7. client' \in [Clients -> Calls] /\ \A d \in Clients : client'[d].at # "idle" => client'[d].text \in Texts
    BY <1>3, <1>4, <2>1
  <2> QED
    BY <1>0, <2>1, <2>3, <2>4, <2>5, <2>6, <2>7, ListsSound
<1> QED
  BY <1>6, <1>7, <1>8, <1>9, <1>10, <1>11 DEF Vectors!Next

----------------------------------------------------------------------------
(* The four together                                                        *)

allVars == <<part, vars, proxyVars, readyVars, vectorVars>>

\* Nothing happens.
LEMMA ProxiesIdle == ProxiesInv /\ UNCHANGED proxyVars => ProxiesInv'
BY DEF ProxiesInv, proxyVars, Proxies!TypeOK, ReaderTyped, RatesToLast, Proxies!RatesOfShown

LEMMA ReadyIdle == ReadyInv /\ UNCHANGED readyVars => ReadyInv'
<1> SUFFICES ASSUME ReadyInv, UNCHANGED readyVars PROVE ReadyInv'
  OBVIOUS
<1>0. UNCHANGED <<polls, ended, wait, status, err, trouble, time, rows, counts, locked, probe>>
  BY DEF readyVars
<1>1. WaitInv' /\ CountsRead' /\ ProbesRead'
  BY <1>0 DEF ReadyInv, WaitInv, CountsRead, ProbesRead
<1>2. Ready!TypeOK' /\ Ready!ReadinessHonest'
  BY <1>0 DEF ReadyInv, Ready!TypeOK, Ready!ReadinessHonest
<1> QED
  BY <1>1, <1>2 DEF ReadyInv

LEMMA VectorsIdle == VectorsInv /\ UNCHANGED vectorVars => VectorsInv'
<1> SUFFICES ASSUME VectorsInv, UNCHANGED vectorVars PROVE VectorsInv'
  OBVIOUS
<1>0. UNCHANGED <<now, order, used, client>>
  BY DEF vectorVars
<1>1. VectorsTyped' /\ EntriesPut'
  BY <1>0 DEF VectorsInv, VectorsTyped, EntriesPut
<1>2. Vectors!CacheSound'
  BY <1>0 DEF VectorsInv, Vectors!CacheSound
<1> QED
  BY <1>1, <1>2 DEF VectorsInv

LEMMA CachesStart == CachesInit => CachesInv
BY MonitorInit, ProxiesInit, ReadyInit, VectorsInit DEF CachesInit, CachesInv

LEMMA CachesStep == CachesInv /\ [CachesNext]_allVars => CachesInv'
<1> SUFFICES ASSUME CachesInv, [CachesNext]_allVars PROVE CachesInv'
  OBVIOUS
<1>0. part' = part
  BY DEF CachesNext, allVars
<1>1. CASE part = "health"
  <2>1. [Next]_vars
    BY <1>1 DEF CachesNext, allVars
  <2> QED
    BY <1>0, <1>1, <2>1, MonitorStep DEF CachesInv
<1>2. CASE part = "proxies"
  <2>1. Proxies!Next \/ UNCHANGED proxyVars
    BY <1>2 DEF CachesNext, allVars
  <2> QED
    BY <1>0, <1>2, <2>1, ProxiesStep, ProxiesIdle DEF CachesInv
<1>3. CASE part = "ready"
  <2>1. Ready!Next \/ UNCHANGED readyVars
    BY <1>3 DEF CachesNext, allVars
  <2> QED
    BY <1>0, <1>3, <2>1, ReadyStep, ReadyIdle DEF CachesInv
<1>4. CASE part = "vectors"
  <2>1. Vectors!Next \/ UNCHANGED vectorVars
    BY <1>4 DEF CachesNext, allVars
  <2> QED
    BY <1>0, <1>4, <2>1, VectorsStep, VectorsIdle DEF CachesInv
<1> QED
  BY <1>1, <1>2, <1>3, <1>4 DEF CachesInv

\* The invariants of the four parts, on which the theorems below rest.
THEOREM CachesInvariant == CachesSpec => []CachesInv
  BY CachesStart, CachesStep, PTL DEF CachesSpec, allVars

\* Every part keeps its types, whatever requests overlap in it.
THEOREM CachesWellTyped == CachesSpec => []CachesTypeOK
<1>1. CachesInv => CachesTypeOK
  <2> SUFFICES ASSUME CachesInv PROVE CachesTypeOK
    OBVIOUS
  <2>1. part = "vectors" => Vectors!TypeOK
    <3> SUFFICES ASSUME VectorsInv PROVE Vectors!TypeOK
      BY DEF CachesInv
    <3>1. \A i \in DOMAIN order : order[i] \in Entries
      BY DEF VectorsInv, VectorsTyped
    <3>2. \A i \in DOMAIN order : order[i].text \in Texts /\ order[i].expires \in 0..(MaxTime + Ttl)
      BY <3>1 DEF Entries
    <3> QED
      BY <3>2 DEF VectorsInv, VectorsTyped, Vectors!TypeOK
  <2>2. CASE part = "health"
    BY <2>2 DEF CachesInv, CachesTypeOK, MonitorInv
  <2>3. CASE part = "proxies"
    BY <2>3 DEF CachesInv, CachesTypeOK, ProxiesInv
  <2>4. CASE part = "ready"
    BY <2>4 DEF CachesInv, CachesTypeOK, ReadyInv
  <2>5. CASE part = "vectors"
    BY <2>1, <2>5 DEF CachesTypeOK
  <2> QED
    BY <2>2, <2>3, <2>4, <2>5 DEF CachesInv
<1> QED
  BY <1>1, CachesInvariant, PTL

\* upstream.go: the rates a request shows with a sample are those that led to that
\* sample from an earlier one of the same instance, for any number of readers.
THEOREM RatesBelongToSample == CachesSpec => []RatesOfShown
<1>1. CachesInv => RatesOfShown
  BY DEF CachesInv, ProxiesInv, RatesOfShown
<1> QED
  BY <1>1, CachesInvariant, PTL

\* ready.go: a startup that gives up after a database error reports it, and the counts
\* of a ready probe are those of the table when it was read, for any number of probes.
THEOREM ReadinessIsHonest == CachesSpec => []ReadinessHonest
<1>1. CachesInv => ReadinessHonest
  BY DEF CachesInv, ReadyInv, ReadinessHonest
<1> QED
  BY <1>1, CachesInvariant, PTL

\* embed/cache.go: for any number of overlapping misses, any capacity and any lifetime
\* the cache stays within its capacity, holds no text twice, is in the order of last use
\* and answers with no vector older than its lifetime.
THEOREM CacheIsSound == CachesSpec => []CacheSound
<1>1. CachesInv => CacheSound
  BY DEF CachesInv, VectorsInv, CacheSound
<1> QED
  BY <1>1, CachesInvariant, PTL

\* The health snapshot is refreshed in the composition as it is alone.
LEMMA MonitorInCaches == CachesSpec => Spec
<1>1. CachesInit => Init
  BY DEF CachesInit
<1>2. [CachesNext]_<<part, vars, proxyVars, readyVars, vectorVars>> => [Next]_vars
  BY DEF CachesNext
<1> QED
  BY <1>1, <1>2, PTL DEF CachesSpec, Spec

\* In the composition the run checks, refreshes of the health snapshot do not overlap
\* and wake their waiters after the gauges are published.
THEOREM CachedRefreshesSound == CachesSpec => []RefreshesSound
  BY MonitorInCaches, RefreshesAreSound, PTL

\* In the composition, too, no caller gets a snapshot older than an earlier answer.
THEOREM CachedSnapshotsMonotone == CachesSpec => SnapshotsMonotone
  BY MonitorInCaches, AnswersNeverOlder, PTL

====
