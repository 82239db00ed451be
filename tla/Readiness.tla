---- MODULE Readiness ----
(***************************************************************************)
(* atheros-search/internal/health/ready.go: the wait for the schema at       *)
(* startup, and the embedding counts readiness probes share.  Definitions    *)
(* marked "wrong" are seeded defects no action uses.                          *)
(***************************************************************************)
EXTENDS Integers

CONSTANTS
    Timeout,   \* polls before the deadline of the wait
    Probes,    \* readiness probes at work
    Lifetime,  \* ticks the counts are cached (one minute)
    MaxTime    \* bound: ticks of a behaviour

VARIABLES
    polls,   \* polls of the schema so far
    ended,   \* how the context of the wait ended: "no", "deadline" or "canceled"
    wait,    \* "poll", "select", or how the wait ended
    status, err,  \* lastStatus and lastErr
    trouble, \* history: a database error came after the last answer
    time, rows,  \* the clock, and the number of embeddings at every time so far
    counts,  \* cached counts: value, when they were read, when they expire
    locked,  \* who holds countsMu
    probe    \* where each probe stands, and what it reported

waiting == <<polls, ended, wait, status, err, trouble>>
probing == <<time, rows, counts, locked, probe>>
vars == <<waiting, probing>>

Nobody == "nobody"
NoProbe == [at |-> "idle", seen |-> 0, read |-> 0]

Init ==
    /\ polls = 0 /\ ended = "no" /\ wait = "poll" /\ status = "none" /\ err = "none"
    /\ trouble = FALSE
    /\ time = 1 /\ rows = [t \in 1..MaxTime |-> 0]
    /\ counts = [value |-> 0, read |-> 0, expires |-> 0]
    /\ locked = Nobody /\ probe = [p \in Probes |-> NoProbe]

----------------------------------------------------------------------------
(* WaitForSchemaReady                                                       *)

\* SchemaReady answers; ready ends the wait.
Answer(ready) ==
    /\ wait = "poll" /\ ended = "no"
    /\ status' = IF ready THEN "ready" ELSE "not_ready"
    /\ err' = "none" /\ trouble' = FALSE
    /\ wait' = IF ready THEN "passed" ELSE "select"
    /\ UNCHANGED <<polls, ended>>

\* Wrong: the last error is the one that is kept.
KeptLatest(e) == e

\* A context error must not hide the database error that explains why startup is blocked.
Kept(e) == IF err = "none" \/ e = "database" THEN e ELSE err

\* SchemaReady fails: a database error or the query's own deadline, and once the
\* context of the wait has ended the error of that context.
Error(e) ==
    /\ wait = "poll" /\ e \in (IF ended = "no" THEN {"database", "deadline"} ELSE {ended})
    /\ err' = Kept(e) /\ trouble' = (trouble \/ e = "database")
    /\ wait' = "select"
    /\ UNCHANGED <<polls, ended, status>>

Expire ==
    /\ wait \in {"poll", "select"} /\ ended = "no" /\ polls >= Timeout
    /\ ended' = "deadline"
    /\ UNCHANGED <<polls, wait, status, err, trouble>>

\* The caller cancels the startup.
Cancel ==
    /\ wait \in {"poll", "select"} /\ ended = "no"
    /\ ended' = "canceled"
    /\ UNCHANGED <<polls, wait, status, err, trouble>>

\* select: the ticker, also when both are ready, or the end of the wait.
Again ==
    /\ wait = "select" /\ polls < Timeout + 1
    /\ polls' = polls + 1 /\ wait' = "poll"
    /\ UNCHANGED <<ended, status, err, trouble>>

\* What the caller is told: a cancellation hides what the polls met.  A context ends in
\* no third way, so the default of the switch is never taken.
Told ==
    CASE ended = "canceled" -> "canceled"
      [] ended # "canceled" /\ err # "none" -> err
      [] ended # "canceled" /\ err = "none" /\ status # "none" -> status
      [] OTHER -> "timeout"
GiveUp ==
    /\ wait = "select" /\ ended # "no"
    /\ wait' = Told
    /\ UNCHANGED <<polls, ended, status, err, trouble>>

----------------------------------------------------------------------------
(* Check                                                                    *)

\* The database is not well, or the schema is not ready: the probe fails before it counts.
CheckFails(p) ==
    /\ probe[p].at = "idle"
    /\ probe' = [probe EXCEPT ![p].at = "failed"]
    /\ UNCHANGED <<time, rows, counts, locked>>

\* Both answered.  embeddingCounts: one probe counts, the others wait for it.
Lock(p) ==
    /\ probe[p].at = "idle" /\ locked = Nobody
    /\ IF time < counts.expires
       THEN /\ probe' = [probe EXCEPT ![p] =
                 [at |-> "ready", seen |-> counts.value, read |-> counts.read]]
            /\ UNCHANGED locked
       ELSE /\ probe' = [probe EXCEPT ![p] = [NoProbe EXCEPT !.at = "counting"]]
            /\ locked' = p
    /\ UNCHANGED <<time, rows, counts>>

\* CountEmbeddings reads the table.
Count(p) ==
    /\ probe[p].at = "counting"
    /\ probe' = [probe EXCEPT ![p].at = "counted", ![p].seen = rows[time], ![p].read = time]
    /\ UNCHANGED <<time, rows, counts, locked>>

\* An error makes this probe fail and leaves the cache as it was.
CountFails(p) ==
    /\ probe[p].at = "counting"
    /\ probe' = [probe EXCEPT ![p].at = "failed"] /\ locked' = Nobody
    /\ UNCHANGED <<time, rows, counts>>

Publish(p) ==
    /\ probe[p].at = "counted"
    /\ counts' = [value |-> probe[p].seen, read |-> probe[p].read, expires |-> time + Lifetime]
    /\ probe' = [probe EXCEPT ![p].at = "ready"] /\ locked' = Nobody
    /\ UNCHANGED <<time, rows>>

Done(p) ==
    /\ probe[p].at \in {"ready", "failed"}
    /\ probe' = [probe EXCEPT ![p] = NoProbe]
    /\ UNCHANGED <<time, rows, counts, locked>>

Pass ==
    /\ time < MaxTime
    /\ time' = time + 1 /\ \E n \in {rows[time], time} : rows' = [rows EXCEPT ![time + 1] = n]
    /\ UNCHANGED <<counts, locked, probe>>

----------------------------------------------------------------------------

Wait ==
    \/ \E r \in BOOLEAN : Answer(r)
    \/ \E e \in {"database", "deadline", "canceled"} : Error(e)
    \/ Expire \/ Cancel \/ Again \/ GiveUp
Probe ==
    \/ Pass
    \/ \E p \in Probes :
         CheckFails(p) \/ Lock(p) \/ Count(p) \/ CountFails(p) \/ Publish(p) \/ Done(p)
Next == (Wait /\ UNCHANGED probing) \/ (Probe /\ UNCHANGED waiting)

Spec == Init /\ [][Next]_vars

----------------------------------------------------------------------------

\* Types of the wait and of the probes.
TypeOK ==
    /\ polls \in 0..(Timeout + 1) /\ ended \in {"no", "deadline", "canceled"}
    /\ wait \in {"poll", "select", "passed", "database", "deadline", "canceled", "not_ready",
                  "timeout"}
    /\ locked \in Probes \union {Nobody}
    /\ \A p \in Probes : probe[p].at \in {"idle", "counting", "counted", "ready", "failed"}

\* A startup that gives up says why: unless its caller cancelled it, the error reported
\* is a database error exactly when one came that no answer followed, however many
\* deadlines came after it.  Counts a ready probe reports were in the table when they
\* were read, and the cache never falls back behind what a probe has reported.
ReadinessHonest ==
    /\ wait = "database" => trouble
    /\ wait \in {"deadline", "not_ready", "timeout"} => ~trouble
    /\ \A p \in Probes : probe[p].at = "ready" =>
         /\ probe[p].read # 0 /\ probe[p].seen = rows[probe[p].read]
         /\ probe[p].read <= counts.read

====
