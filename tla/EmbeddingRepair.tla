---- MODULE EmbeddingRepair ----
(***************************************************************************)
(* The embedding-job-repair command (atheros-search/internal/app/repair)    *)
(* running against the live queue of EmbeddingJobs.  Its statements on rows *)
(* it has locked are one step each.  The two cancel statements choose their *)
(* rows from the statement's snapshot without locking them and update them  *)
(* by job id alone, so they are two steps: in between, and while the update *)
(* waits for a row lock, the queue moves on.                                *)
(***************************************************************************)
EXTENDS EmbeddingJobs

VARIABLES
    proxy,     \* documents of the proxy source kinds, which do not change
    targets    \* rows chosen by a running cancel statement

rvars == <<vars, proxy, targets>>

RepairInit == Init /\ proxy \in SUBSET Docs /\ targets = {}

\* The reset and retry commands leave proxy documents to the scoped campaigns.
LegacyDocument(d) == docs[d].status = "active" /\ d \notin proxy

\* Some rows of R, up to the -limit of the invocation.
UpdateRows(R, Image(_)) ==
    /\ \E S \in SUBSET R :
         /\ S # {}
         /\ rows' = [j \in Jobs |-> IF j \in S THEN Image(rows[j]) ELSE rows[j]]
    /\ UNCHANGED <<docs, embeddings, kindVectors, control, tx, proxy, targets>>

Pending(r) == Released(r, "pending")

\* Wrong: leases that have not expired are reset, locked or not.
StaleLive(j) ==
    /\ rows[j].status = "leased"
    /\ rows[j].attempts < MaxAttempts /\ LegacyDocument(DocOf[j])

Stale(j) ==
    /\ Expired(j) /\ ~RowLocked(j)
    /\ rows[j].attempts < MaxAttempts /\ LegacyDocument(DocOf[j])

ResetStaleJobs == UpdateRows({j \in Jobs : Stale(j)}, Pending)

Retryable(j) ==
    /\ rows[j].status = "failed"
    /\ rows[j].attempts < MaxAttempts /\ LegacyDocument(DocOf[j])

RetryFailedJobs == UpdateRows({j \in Jobs : Retryable(j)}, Pending)

----------------------------------------------------------------------------
(* cancel-superseded and cancel-orphaned                                    *)

SelectTargets(documentStatus) ==
    /\ targets = {}
    /\ \E S \in SUBSET {j \in Jobs : /\ rows[j].status \in {"pending", "leased"}
                                     /\ docs[DocOf[j]].status = documentStatus} :
         S # {} /\ targets' = S
    /\ UNCHANGED <<vars, proxy>>

SelectSuperseded == SelectTargets("inactive")
SelectOrphaned == SelectTargets("missing")

\* The update has every row lock; its condition names the job id only.
CancelTargets ==
    /\ targets # {}
    /\ \A j \in targets : ~RowLocked(j)
    /\ rows' = [j \in Jobs |-> IF j \in targets THEN Released(rows[j], "cancelled") ELSE rows[j]]
    /\ targets' = {}
    /\ UNCHANGED <<docs, embeddings, kindVectors, control, tx, proxy>>

\* The statement times out or is chosen as a deadlock victim.
CancelAborted ==
    /\ targets # {}
    /\ targets' = {}
    /\ UNCHANGED <<vars, proxy>>

----------------------------------------------------------------------------
(* A row of a proxy-reconcile page, rechecked under the source lock         *)

\* The two vector tables agree on a vector for the job's text.
VectorCurrent(j) ==
    LET d == DocOf[j]
    IN  embeddings[d] # NoVector /\ embeddings[d] = kindVectors[d]
        /\ embeddings[d].sha = ContentOf[j]

\* Wrong: completed jobs are retried whether or not their vector is there.
ReconcilableAnyway(j) ==
    LET d == docs[DocOf[j]]
    IN  /\ DocOf[j] \in proxy
        /\ rows[j].status \in {"completed", "failed"} /\ rows[j].attempts < MaxAttempts
        /\ d.status = "active" /\ d.sha = ContentOf[j] /\ d.text = d.sha

\* Completed without a current vector, or a failed job an operator has reviewed.
Reconcilable(j) ==
    LET d == docs[DocOf[j]]
    IN  /\ DocOf[j] \in proxy
        /\ rows[j].status \in {"completed", "failed"} /\ rows[j].attempts < MaxAttempts
        /\ d.status = "active" /\ d.sha = ContentOf[j] /\ d.text = d.sha
        /\ ~VectorCurrent(j)

Reopened(r) == [r EXCEPT !.status = "pending"]

ReconcileProxyJob ==
    UpdateRows({j \in Jobs : Reconcilable(j) /\ SourceFree(DocOf[j])}, Reopened)

----------------------------------------------------------------------------

Repair ==
    \/ ResetStaleJobs \/ RetryFailedJobs
    \/ SelectSuperseded \/ SelectOrphaned \/ CancelTargets \/ CancelAborted
    \/ ReconcileProxyJob

RepairNext == (Next /\ UNCHANGED <<proxy, targets>>) \/ Repair

RepairSpec == RepairInit /\ [][RepairNext]_rvars

\* As PollingSpec: the pool keeps polling and recovering while repairs are run.
RepairFairSpec ==
    /\ RepairSpec
    /\ \A w \in Workers : WF_rvars(BatchStep(w) /\ UNCHANGED <<proxy, targets>>)
    /\ \A j \in Jobs : WF_rvars(Tick(j) /\ UNCHANGED <<proxy, targets>>)
    /\ WF_rvars(Recover /\ UNCHANGED <<proxy, targets>>)

----------------------------------------------------------------------------

\* "cancelled is terminal: retry-failed will not reset it" (scripts/README.md),
\* and no other command or worker does.
CancelledForGood ==
    [][\A j \in Jobs : rows[j].status = "cancelled" => rows'[j].status = "cancelled"]_rvars

\* A completed job is only reopened when search has no vector for its current
\* text, so repairing a healthy queue changes nothing.
OnlyMissingReopened ==
    [][\A j \in Jobs : rows[j].status = "completed" /\ rows'[j].status = "pending"
          => ~VectorCurrent(j) /\ InputCurrent(j)]_rvars

\* Repairs reopen what needs it and nothing else: neither a job whose vector is
\* current nor one that was cancelled.
ReopenedRightly == OnlyMissingReopened /\ CancelledForGood

\* "`cancel-superseded` cancels pending/leased jobs whose document is not `active`"
\* (scripts/README.md): a job whose document was activated again and that has
\* completed since is not turned into a cancelled one.
FinishedNotCancelled ==
    [][\A j \in Jobs : rows[j].status = "completed" => rows'[j].status # "cancelled"]_rvars

====
