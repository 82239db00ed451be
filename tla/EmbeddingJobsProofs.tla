---- MODULE EmbeddingJobsProofs ----
(***************************************************************************)
(* Proofs about EmbeddingJobs and about the repair commands of              *)
(* EmbeddingRepair running against it, for every number of jobs, documents,  *)
(* workers and contents, every retry budget, lease length and batch size.   *)
(***************************************************************************)
EXTENDS EmbeddingRepair, TLAPS

----------------------------------------------------------------------------
(* What the row images are                                                  *)

\* Arithmetic of the bounded counters.
LEMMA Counters ==
    /\ 0 \in Fences /\ 0 \in Ticks /\ LeaseTicks \in Ticks /\ 0 \in Attempts
    /\ Grants \subseteq Fences
    /\ \A f \in Fences : f \in Int /\ f >= 0
    /\ \A f \in Fences : f < MaxFence => f + 1 \in Grants
    /\ \A a \in Attempts : a \in Int /\ a >= 0 /\ a <= MaxAttempts
    /\ \A a \in Attempts : a < MaxAttempts => a + 1 \in Attempts
    /\ \A a \in Attempts : a > 0 => a - 1 \in Attempts
    /\ \A t \in Ticks : t \in Int /\ t >= 0
    /\ \A t \in Ticks : t > 0 => t - 1 \in Ticks
  BY BoundAssumption DEF Fences, Grants, Ticks, Attempts

\* Releasing a row keeps its type and its counters (every UPDATE of lease.go
\* that clears owner, token and expiry).
LEMMA ReleasedRow ==
    ASSUME NEW r \in Rows, NEW s \in Statuses
    PROVE  /\ Released(r, s) \in Rows
           /\ Released(r, s).status = s
           /\ Released(r, s).fence = r.fence
           /\ Released(r, s).attempts = r.attempts
  BY Counters DEF Released, Rows

\* Failing or recovering a row: pending again below the attempt limit, failed
\* at the limit (failJob, recoverExpiredLeases).
LEMMA FailedOrRetriedRow ==
    ASSUME NEW r \in Rows
    PROVE  /\ FailedOrRetried(r) \in Rows
           /\ FailedOrRetried(r).status \in {"failed", "pending"}
           /\ FailedOrRetried(r).status = "pending" => r.attempts < MaxAttempts
           /\ FailedOrRetried(r).fence = r.fence
           /\ FailedOrRetried(r).attempts = r.attempts
  <1>1. r.attempts \in Int /\ MaxAttempts \in Int
    BY Counters, BoundAssumption DEF Rows
  <1>2. "failed" \in Statuses /\ "pending" \in Statuses
    BY DEF Statuses, Terminal
  <1>. QED  BY <1>1, <1>2, ReleasedRow DEF FailedOrRetried

\* Deferring a row gives back one attempt and never goes below zero (deferJob).
LEMMA DeferredRow ==
    ASSUME NEW r \in Rows
    PROVE  /\ Deferred(r) \in Rows
           /\ Deferred(r).status = "pending"
           /\ Deferred(r).fence = r.fence
           /\ Deferred(r).attempts = IF r.attempts > 0 THEN r.attempts - 1 ELSE 0
  <1>1. "pending" \in Statuses
    BY DEF Statuses
  <1>2. (IF r.attempts > 0 THEN r.attempts - 1 ELSE 0) \in Attempts
    BY Counters DEF Rows
  <1>. QED  BY <1>1, <1>2, ReleasedRow DEF Deferred, Rows

\* Leasing a claimable row mints the next fence and uses one attempt (claimJobs).
LEMMA LeasedRow ==
    ASSUME NEW r \in Rows, r.fence < MaxFence, r.attempts < MaxAttempts
    PROVE  /\ Leased(r) \in Rows
           /\ Leased(r).status = "leased"
           /\ Leased(r).fence = r.fence + 1
           /\ Leased(r).token = r.fence + 1
           /\ Leased(r).attempts = r.attempts + 1
  <1>1. "leased" \in Statuses
    BY DEF Statuses
  <1>2. r.fence + 1 \in Fences /\ r.attempts + 1 \in Attempts /\ LeaseTicks \in Ticks
    BY Counters DEF Rows
  <1>. QED  BY <1>1, <1>2 DEF Leased, Rows

----------------------------------------------------------------------------
(* Type correctness                                                         *)

\* A claim made from a claimable row has its type, whatever it read of the
\* document.
LEMMA ClaimOfType ==
    ASSUME TypeOK, NEW j \in Jobs, Claimable(j)
    PROVE  /\ ClaimOf(j) \in Claims
           /\ ClaimOf(j).job = j
           /\ ClaimOf(j).fence = rows[j].fence + 1
           /\ ClaimOf(j).token = rows[j].fence + 1
  <1>1. rows[j] \in Rows /\ rows[j].fence < MaxFence /\ rows[j].attempts < MaxAttempts
    BY DEF TypeOK, Claimable
  <1>2. rows[j].fence + 1 \in Grants
    BY <1>1, Counters DEF Rows
  <1>3. Leased(rows[j]).fence = rows[j].fence + 1 /\ Leased(rows[j]).token = rows[j].fence + 1
    BY <1>1, LeasedRow
  <1>4. docs[DocOf[j]].text \in Contents
    BY JobAssumption DEF TypeOK, Documents
  <1>. QED  BY <1>2, <1>3, <1>4 DEF ClaimOf, Claims

\* A claimed row has its type, leased or cancelled.
LEMMA ClaimedRowType ==
    ASSUME TypeOK, NEW j \in Jobs, Claimable(j)
    PROVE  ClaimedRow(j) \in Rows
  <1>1. rows[j] \in Rows /\ Leased(rows[j]) \in Rows
    BY LeasedRow DEF TypeOK, Claimable
  <1>2. "cancelled" \in Statuses
    BY DEF Statuses, Terminal
  <1>. QED  BY <1>1, <1>2, ReleasedRow DEF ClaimedRow

\* What a commit writes has its type.
LEMMA ApplyCompletionsType ==
    ASSUME TypeOK, NEW w \in Workers, ApplyCompletions(written[w])
    PROVE  /\ rows' \in [Jobs -> Rows]
           /\ docs' \in [Docs -> Documents]
           /\ embeddings' \in [Docs -> Vectors \union {NoVector}]
           /\ kindVectors' \in [Docs -> Vectors \union {NoVector}]
  <1>1. "completed" \in Statuses
    BY DEF Statuses, Terminal
  <1>2. rows' \in [Jobs -> Rows]
    BY <1>1, ReleasedRow DEF TypeOK, ApplyCompletions
  <1>3. ASSUME NEW d \in Docs, \E c \in written[w] : DocOfClaim(c) = d
        PROVE  VectorOf(CHOOSE c \in written[w] : DocOfClaim(c) = d) \in Vectors
    <2>1. PICK c \in written[w] : DocOfClaim(c) = d
      BY <1>3
    <2>2. \A b \in written[w] : VectorOf(b) \in Vectors
      BY JobAssumption DEF TypeOK, Claims, VectorOf, Vectors
    <2>. QED  BY <2>1, <2>2
  <1>4. ASSUME NEW t \in [Docs -> Vectors \union {NoVector}]
        PROVE  InsertVectors(t, written[w]) \in [Docs -> Vectors \union {NoVector}]
    BY <1>3 DEF InsertVectors
  <1>. QED  BY <1>2, <1>4 DEF TypeOK, ApplyCompletions

\* Ending a transaction leaves its worker's transaction state typed.
LEMMA EndTxType ==
    ASSUME TypeOK, NEW w \in Workers, EndTx(w)
    PROVE  /\ scope' \in [Workers -> SUBSET Claims]
           /\ guard' \in [Workers -> SUBSET Claims]
           /\ locked' \in [Workers -> SUBSET Docs]
           /\ written' \in [Workers -> SUBSET Claims]
  BY DEF TypeOK, EndTx

\* The error path of a completion keeps the worker's state typed.
LEMMA StoreFailedType ==
    ASSUME TypeOK, NEW w \in Workers, StoreFailed(w)
    PROVE  /\ pc' \in [Workers -> PCs]
           /\ batch' \in [Workers -> SUBSET Claims]
           /\ todo' \in [Workers -> SUBSET Claims]
           /\ cur' \in [Workers -> SUBSET Claims]
           /\ settle' \in [Workers -> SUBSET Claims]
  BY DEF TypeOK, StoreFailed, PCs

\* A step of the batch keeps the types.
LEMMA BatchStepType ==
    ASSUME TypeOK, NEW w \in Workers, BatchStep(w)
    PROVE  TypeOK'
  <1>1. CASE StartGroup(w)
    BY <1>1 DEF TypeOK, StartGroup, PCs, tables, tx
  <1>2. CASE FinishBatch(w)
    BY <1>2 DEF TypeOK, FinishBatch, PCs, tables, tx
  <1>3. CASE EmbedUnavailable(w)
    BY <1>3 DEF TypeOK, EmbedUnavailable, PCs, tables, tx
  <1>4. CASE EmbedFailed(w)
    BY <1>4 DEF TypeOK, EmbedFailed, PCs, tables, tx
  <1>5. CASE EmbedOk(w)
    BY <1>5 DEF TypeOK, EmbedOk, PCs, tables
  <1>6. CASE BeginOne(w)
    BY <1>6 DEF TypeOK, BeginOne, PCs, tables
  <1>7. CASE LockSource(w)
    BY <1>7, JobAssumption DEF TypeOK, LockSource, LocksTaken, DocOfClaim, Claims,
                             control, tables
  <1>8. CASE WriteCompletion(w)
    BY <1>8 DEF TypeOK, WriteCompletion, PCs, control, tables
  <1>9. CASE EmbedOversized(w)
    <2>1. "failed" \in Statuses
      BY DEF Statuses, Terminal
    <2>2. rows' \in [Jobs -> Rows]
      BY <1>9, <2>1, ReleasedRow DEF TypeOK, EmbedOversized, Claims
    <2>. QED  BY <1>9, <2>2 DEF TypeOK, EmbedOversized, PCs, tx
  <1>10. CASE DeferOne(w)
    BY <1>10, DeferredRow DEF TypeOK, DeferOne, PCs, Claims, tx
  <1>11. CASE FailOne(w)
    BY <1>11, FailedOrRetriedRow DEF TypeOK, FailOne, FailJob, PCs, Claims, tx
  <1>12. CASE CommitStore(w)
    <2>1. ApplyCompletions(written[w]) /\ EndTx(w)
      BY <1>12 DEF CommitStore
    <2>. QED  BY <1>12, <2>1, ApplyCompletionsType, EndTxType DEF TypeOK, CommitStore, PCs
  <1>13. CASE CommitUnacknowledged(w)
    <2>1. ApplyCompletions(written[w]) /\ StoreFailed(w) /\ EndTx(w)
      BY <1>13 DEF CommitUnacknowledged, StoreFailed
    <2>. QED  BY <2>1, ApplyCompletionsType, EndTxType, StoreFailedType DEF TypeOK
  <1>14. CASE AbortStore(w)
    <2>1. UNCHANGED tables /\ StoreFailed(w) /\ EndTx(w)
      BY <1>14 DEF AbortStore, StoreFailed
    <2>. QED  BY <2>1, EndTxType, StoreFailedType DEF TypeOK, tables
  <1>. QED
    BY <1>1, <1>2, <1>3, <1>4, <1>5, <1>6, <1>7, <1>8, <1>9, <1>10, <1>11, <1>12,
       <1>13, <1>14 DEF BatchStep

\* A step of Octopus keeps the types.
LEMMA OctopusType ==
    ASSUME TypeOK, NEW d \in Docs, Octopus(d)
    PROVE  TypeOK'
  <1>1. CASE UpdateDoc(d)
    BY <1>1 DEF TypeOK, UpdateDoc, Documents, control, tx
  <1>2. CASE Supersede(d)
    <2>1. "cancelled" \in Statuses
      BY DEF Statuses, Terminal
    <2>2. rows' \in [Jobs -> Rows]
      BY <1>2, <2>1, ReleasedRow DEF TypeOK, Supersede
    <2>3. docs' \in [Docs -> Documents]
      BY <1>2 DEF TypeOK, Supersede, Documents
    <2>. QED  BY <1>2, <2>2, <2>3 DEF TypeOK, Supersede, control, tx
  <1>3. CASE DeleteDoc(d)
    BY <1>3 DEF TypeOK, DeleteDoc, Documents, control, tx
  <1>4. CASE InsertDoc(d)
    BY <1>4 DEF TypeOK, InsertDoc, Documents, control, tx
  <1>. QED  BY <1>1, <1>2, <1>3, <1>4 DEF Octopus

\* Every step keeps the types.
LEMMA NextType ==
    ASSUME TypeOK, [Next]_vars
    PROVE  TypeOK'
  <1>1. ASSUME NEW w \in Workers, ClaimJobs(w)
        PROVE  TypeOK'
    <2>1. rows' \in [Jobs -> Rows]
      BY <1>1, ClaimedRowType DEF TypeOK, ClaimJobs
    <2>2. batch' \in [Workers -> SUBSET Claims] /\ todo' \in [Workers -> SUBSET Claims]
      BY <1>1, ClaimOfType DEF TypeOK, ClaimJobs
    <2>3. pc' \in [Workers -> PCs]
      BY <1>1 DEF TypeOK, ClaimJobs, PCs
    <2>. QED  BY <1>1, <2>1, <2>2, <2>3 DEF TypeOK, ClaimJobs, tx
  <1>2. ASSUME NEW w \in Workers, BatchStep(w)
        PROVE  TypeOK'
    BY <1>2, BatchStepType
  <1>3. ASSUME NEW w \in Workers, Renew(w)
        PROVE  TypeOK'
    <2>1. rows' \in [Jobs -> Rows]
      BY SMTT(30), <1>3, Counters DEF TypeOK, Renew, Rows, Claims
    <2>. QED  BY <1>3, <2>1 DEF TypeOK, Renew, control, tx
  <1>4. ASSUME NEW w \in Workers, Crash(w)
        PROVE  TypeOK'
    <2>1. EndTx(w)
      BY <1>4 DEF Crash
    <2>. QED  BY <1>4, <2>1, EndTxType DEF TypeOK, Crash, PCs, tables
  <1>5. ASSUME NEW j \in Jobs, Tick(j)
        PROVE  TypeOK'
    <2>1. rows[j] \in Rows /\ rows[j].ttl - 1 \in Ticks
      BY <1>5, Counters DEF TypeOK, Tick, Rows
    <2>2. rows' \in [Jobs -> Rows]
      BY <1>5, <2>1 DEF TypeOK, Tick, Rows
    <2>. QED  BY <1>5, <2>2 DEF TypeOK, Tick, control, tx
  <1>6. CASE Recover
    <2>1. rows' \in [Jobs -> Rows]
      BY <1>6, FailedOrRetriedRow DEF TypeOK, Recover
    <2>. QED  BY <1>6, <2>1 DEF TypeOK, Recover, control, tx
  <1>7. ASSUME NEW d \in Docs, Octopus(d)
        PROVE  TypeOK'
    BY <1>7, OctopusType
  <1>8. CASE UNCHANGED vars
    BY <1>8 DEF TypeOK, vars, tables, control, tx
  <1>. QED  BY <1>1, <1>2, <1>3, <1>4, <1>5, <1>6, <1>7, <1>8 DEF Next

\* Type correctness: in every reachable state of every instance, the queue, the
\* vector tables and the workers' local state have their types; in particular
\* attempts never exceed max_attempts.
THEOREM TypeCorrect == Spec => []TypeOK
  <1>1. Init => TypeOK
    BY Counters DEF Init, TypeOK, Rows, Statuses, PCs
  <1>2. TypeOK /\ [Next]_vars => TypeOK'
    BY NextType
  <1>. QED  BY <1>1, <1>2, PTL DEF Spec

----------------------------------------------------------------------------
(* The inductive invariant                                                  *)

\* A worker only works on claims of its batch, in the phase each set is for.
WithinBatch ==
    \A w \in Workers :
        /\ todo[w] \union cur[w] \union settle[w] \subseteq batch[w]
        /\ scope[w] \union guard[w] \union written[w] \subseteq batch[w]
        /\ ~Storing(w) => scope[w] \union guard[w] \union written[w] = {}
        /\ pc[w] \notin {"fail", "defer"} => settle[w] = {}
        /\ pc[w] \in {"idle", "defer"} => todo[w] \union cur[w] = {}

\* Claims carry the token minted with their fence, never a fence the row has not
\* reached, and the text the job was created for.
ClaimsMinted ==
    \A w \in Workers : \A c \in batch[w] :
        /\ c.token = c.fence
        /\ c.fence <= rows[c.job].fence
        /\ c.text = ContentOf[c.job]

\* No fence of a job is handed out twice.
ClaimsUnique ==
    \A u, w \in Workers : \A b \in batch[u], c \in batch[w] :
        b.job = c.job /\ b.fence = c.fence => u = w

LeaseInv ==
    /\ TypeOK
    /\ WithinBatch
    /\ ClaimsMinted
    /\ ClaimsUnique
    /\ WrittenStillLeased

\* A source advisory lock has one holder; a completion past its lock statement
\* holds the lock of its document unless the row was missing then, and a
\* written one describes the document as it is.
SourceInv ==
    /\ \A u, w \in Workers : u # w => locked[u] \intersect locked[w] = {}
    /\ \A w \in Workers : \A c \in guard[w] :
          DocOfClaim(c) \in locked[w] \/ docs[DocOfClaim(c)].status = "missing"
    /\ \A w \in Workers : \A c \in written[w] :
          DocOfClaim(c) \in locked[w] /\ InputCurrent(c.job)

\* The two vector tables agree, and completed jobs have left a vector.
VectorInv ==
    /\ embeddings = kindVectors
    /\ \A j \in Jobs : rows[j].status = "completed" => embeddings[DocOf[j]] # NoVector

\* No step takes a row's fence back.
LEMMA FencesGrow ==
    ASSUME TypeOK, [Next]_vars
    PROVE  \A j \in Jobs : rows'[j].fence >= rows[j].fence
  <1>0. /\ \A j \in Jobs : rows[j] \in Rows /\ rows[j].fence \in Int
        /\ "failed" \in Statuses /\ "cancelled" \in Statuses /\ "completed" \in Statuses
    BY Counters DEF TypeOK, Rows, Statuses, Terminal
  <1>1. ASSUME NEW w \in Workers, ClaimJobs(w)
        PROVE  \A j \in Jobs : rows'[j].fence >= rows[j].fence
    <2>1. ASSUME NEW j \in Jobs, Claimable(j)
          PROVE  ClaimedRow(j).fence = rows[j].fence + 1
      <3>1. Leased(rows[j]) \in Rows /\ Leased(rows[j]).fence = rows[j].fence + 1
        BY <1>0, <2>1, LeasedRow DEF Claimable
      <3>. QED  BY <1>0, <3>1, ReleasedRow DEF ClaimedRow
    <2>2. PICK S \in SUBSET {j \in Jobs : Claimable(j)} :
             rows' = [j \in Jobs |-> IF j \in S THEN ClaimedRow(j) ELSE rows[j]]
      BY <1>1 DEF ClaimJobs
    <2>. QED  BY <1>0, <2>1, <2>2
  <1>2. ASSUME NEW w \in Workers, BatchStep(w)
        PROVE  \A j \in Jobs : rows'[j].fence >= rows[j].fence
    <2>1. CASE EmbedOversized(w)
      <3>1. PICK c \in cur[w] : \/ rows' = [rows EXCEPT ![c.job] = Released(@, "failed")]
                                \/ UNCHANGED rows
        BY <2>1 DEF EmbedOversized
      <3>2. c.job \in Jobs
        BY DEF TypeOK, Claims
      <3>3. Released(rows[c.job], "failed").fence = rows[c.job].fence
        BY <1>0, <3>2, ReleasedRow
      <3>. QED  BY <1>0, <3>1, <3>2, <3>3 DEF TypeOK
    <2>2. CASE DeferOne(w)
      BY <1>0, <2>2, DeferredRow DEF DeferOne, TypeOK, Claims
    <2>3. CASE FailOne(w)
      BY <1>0, <2>3, FailedOrRetriedRow DEF FailOne, FailJob, TypeOK, Claims
    <2>4. ASSUME ApplyCompletions(written[w])
          PROVE  \A j \in Jobs : rows'[j].fence >= rows[j].fence
      BY <1>0, <2>4, ReleasedRow DEF ApplyCompletions
    <2>5. CASE \/ StartGroup(w) \/ FinishBatch(w) \/ EmbedUnavailable(w) \/ EmbedFailed(w)
               \/ EmbedOk(w) \/ BeginOne(w) \/ LockSource(w) \/ WriteCompletion(w)
               \/ AbortStore(w)
      BY <1>0, <2>5 DEF StartGroup, FinishBatch, EmbedUnavailable, EmbedFailed, EmbedOk,
           BeginOne, LockSource, WriteCompletion, AbortStore, tables
    <2>. QED  BY <1>2, <2>1, <2>2, <2>3, <2>4, <2>5
              DEF BatchStep, CommitStore, CommitUnacknowledged
  <1>3. ASSUME NEW w \in Workers, Renew(w) \/ Crash(w)
        PROVE  \A j \in Jobs : rows'[j].fence >= rows[j].fence
    <2>1. CASE Renew(w)
      <3>1. PICK c \in batch[w] : rows' = [rows EXCEPT ![c.job].ttl = LeaseTicks]
        BY <2>1 DEF Renew
      <3>2. c.job \in Jobs
        BY DEF TypeOK, Claims
      <3>3. \A j \in Jobs : rows'[j].fence = rows[j].fence
        BY <3>1, <3>2 DEF TypeOK, Rows
      <3>. QED  BY <1>0, <3>3
    <2>2. CASE Crash(w)
      BY <1>0, <2>2 DEF Crash, tables
    <2>. QED  BY <1>3, <2>1, <2>2
  <1>4. ASSUME NEW i \in Jobs, Tick(i)
        PROVE  \A j \in Jobs : rows'[j].fence >= rows[j].fence
    BY <1>0, <1>4 DEF Tick, TypeOK, Rows
  <1>5. CASE Recover
    BY <1>0, <1>5, FailedOrRetriedRow DEF Recover
  <1>6. ASSUME NEW d \in Docs, Octopus(d)
        PROVE  \A j \in Jobs : rows'[j].fence >= rows[j].fence
    BY SMTT(30), <1>0, <1>6, ReleasedRow DEF Octopus, UpdateDoc, Supersede, DeleteDoc, InsertDoc
  <1>7. CASE UNCHANGED vars
    BY <1>0, <1>7 DEF vars, tables
  <1>. QED  BY <1>1, <1>2, <1>3, <1>4, <1>5, <1>6, <1>7 DEF Next

\* Only a claim adds to a batch.
LEMMA BatchShrinks ==
    ASSUME TypeOK, [Next]_vars, ~\E w \in Workers : ClaimJobs(w)
    PROVE  \A w \in Workers : batch'[w] \subseteq batch[w]
  BY DEF Next, TypeOK, BatchStep, StartGroup, FinishBatch, EmbedOversized, EmbedUnavailable,
     EmbedFailed, EmbedOk, DeferOne, FailOne, BeginOne, LockSource, WriteCompletion,
     CommitStore, CommitUnacknowledged, AbortStore, StoreFailed, Renew, Crash, Tick, Recover,
     Octopus, UpdateDoc, Supersede, DeleteDoc, InsertDoc, control, vars

\* A claim of the batch of a worker that is not storing is not the claim of a
\* completion another transaction has written.
LEMMA OwnedNotWritten ==
    ASSUME LeaseInv, NEW w \in Workers, NEW c \in batch[w], Owns(c), ~Storing(w)
    PROVE  ~RowLocked(c.job)
  <1>. SUFFICES ASSUME NEW u \in Workers, NEW b \in written[u], b.job = c.job
                PROVE  FALSE
    BY DEF RowLocked
  <1>1. b \in batch[u] /\ b.fence = c.fence
    BY DEF LeaseInv, WithinBatch, WrittenStillLeased, Owns
  <1>2. u = w
    BY <1>1 DEF LeaseInv, ClaimsUnique
  <1>. QED  BY <1>2 DEF LeaseInv, WithinBatch

\* Two open transactions never write completions of the same job.
LEMMA WrittenDisjoint ==
    ASSUME LeaseInv, NEW u \in Workers, NEW w \in Workers, u # w,
           NEW b \in written[u], NEW c \in written[w]
    PROVE  b.job # c.job
  BY DEF LeaseInv, WithinBatch, WrittenStillLeased, ClaimsUnique

\* A worker's working sets stay within its batch.
LEMMA WithinBatchStep ==
    ASSUME TypeOK, WithinBatch, [Next]_vars
    PROVE  WithinBatch'
  <1>1. ASSUME NEW w \in Workers, ClaimJobs(w)
        PROVE  WithinBatch'
    <2>1. PICK S \in SUBSET {j \in Jobs : Claimable(j)} :
             LET claims == {ClaimOf(j) : j \in {i \in S : InputCurrent(i)}}
             IN  /\ batch' = [batch EXCEPT ![w] = claims]
                 /\ todo' = [todo EXCEPT ![w] = claims]
                 /\ pc' = [pc EXCEPT ![w] = IF claims = {} THEN "idle" ELSE "next"]
      BY <1>1 DEF ClaimJobs
    <2>. QED  BY <1>1, <2>1 DEF ClaimJobs, WithinBatch, TypeOK, Storing, tx
  <1>2. ASSUME NEW w \in Workers, BatchStep(w)
        PROVE  WithinBatch'
    <2>1. CASE StartGroup(w)
      BY <2>1 DEF StartGroup, WithinBatch, TypeOK, Storing, tables, tx
    <2>2. CASE FinishBatch(w)
      BY <2>2 DEF FinishBatch, WithinBatch, TypeOK, Storing, tables, tx
    <2>3. CASE EmbedOversized(w)
      BY <2>3 DEF EmbedOversized, WithinBatch, TypeOK, Storing, tx
    <2>4. CASE EmbedUnavailable(w)
      BY <2>4 DEF EmbedUnavailable, WithinBatch, TypeOK, Storing, tables, tx
    <2>5. CASE EmbedFailed(w)
      BY <2>5 DEF EmbedFailed, WithinBatch, TypeOK, Storing, tables, tx
    <2>6. CASE EmbedOk(w)
      BY <2>6 DEF EmbedOk, WithinBatch, TypeOK, Storing, tables
    <2>7. CASE DeferOne(w)
      BY <2>7 DEF DeferOne, WithinBatch, TypeOK, Storing, tx
    <2>8. CASE FailOne(w)
      BY <2>8 DEF FailOne, WithinBatch, TypeOK, Storing, tx
    <2>9. CASE BeginOne(w)
      BY <2>9 DEF BeginOne, WithinBatch, TypeOK, Storing, tables
    <2>10. CASE LockSource(w)
      BY <2>10 DEF LockSource, WithinBatch, TypeOK, Storing, tables, control
    <2>11. CASE WriteCompletion(w)
      BY <2>11 DEF WriteCompletion, WithinBatch, TypeOK, Storing, tables, control
    <2>12. CASE CommitStore(w)
      BY <2>12 DEF CommitStore, AllWritten, WithinBatch, TypeOK, Storing, EndTx
    <2>13. CASE CommitUnacknowledged(w)
      BY <2>13 DEF CommitUnacknowledged, WithinBatch, TypeOK, Storing, StoreFailed, EndTx
    <2>14. CASE AbortStore(w)
      BY <2>14 DEF AbortStore, WithinBatch, TypeOK, Storing, StoreFailed, EndTx
    <2>. QED
      BY <1>2, <2>1, <2>2, <2>3, <2>4, <2>5, <2>6, <2>7, <2>8, <2>9, <2>10, <2>11, <2>12,
         <2>13, <2>14 DEF BatchStep
  <1>3. ASSUME NEW w \in Workers, Crash(w)
        PROVE  WithinBatch'
    BY <1>3 DEF Crash, WithinBatch, TypeOK, Storing, EndTx
  <1>4. ASSUME UNCHANGED control /\ UNCHANGED tx
        PROVE  WithinBatch'
    BY <1>4 DEF WithinBatch, Storing, control, tx
  <1>5. ASSUME NEW w \in Workers, Renew(w)
        PROVE  UNCHANGED control /\ UNCHANGED tx
    BY <1>5 DEF Renew
  <1>6. ASSUME NEW j \in Jobs, Tick(j)
        PROVE  UNCHANGED control /\ UNCHANGED tx
    BY <1>6 DEF Tick
  <1>7. ASSUME Recover
        PROVE  UNCHANGED control /\ UNCHANGED tx
    BY <1>7 DEF Recover
  <1>8. ASSUME NEW d \in Docs, Octopus(d)
        PROVE  UNCHANGED control /\ UNCHANGED tx
    BY <1>8 DEF Octopus, UpdateDoc, Supersede, DeleteDoc, InsertDoc
  <1>9. ASSUME UNCHANGED vars
        PROVE  UNCHANGED control /\ UNCHANGED tx
    BY <1>9 DEF vars
  <1>. QED  BY <1>1, <1>2, <1>3, <1>4, <1>5, <1>6, <1>7, <1>8, <1>9 DEF Next

\* Claims are minted with fresh fences, and fences only grow.
LEMMA ClaimsStep ==
    ASSUME LeaseInv, TypeOK', [Next]_vars
    PROVE  ClaimsMinted' /\ ClaimsUnique'
  <1>0. /\ \A w \in Workers : \A c \in batch[w] : c.job \in Jobs /\ c.fence \in Int
        /\ \A w \in Workers : \A c \in batch'[w] : c.job \in Jobs /\ c.fence \in Int
        /\ \A j \in Jobs : rows[j].fence \in Int /\ rows'[j].fence \in Int
    BY Counters DEF LeaseInv, TypeOK, Rows, Claims
  <1>1. \A j \in Jobs : rows'[j].fence >= rows[j].fence
    BY FencesGrow DEF LeaseInv
  <1>2. CASE ~\E w \in Workers : ClaimJobs(w)
    <2>1. \A w \in Workers : batch'[w] \subseteq batch[w]
      BY <1>2, BatchShrinks DEF LeaseInv
    <2>2. ClaimsMinted'
      BY <1>0, <1>1, <2>1 DEF LeaseInv, ClaimsMinted
    <2>. QED  BY <2>1, <2>2 DEF LeaseInv, ClaimsUnique
  <1>3. ASSUME NEW w \in Workers, ClaimJobs(w)
        PROVE  ClaimsMinted' /\ ClaimsUnique'
    <2>1. PICK S \in SUBSET {j \in Jobs : Claimable(j)} :
             /\ rows' = [j \in Jobs |-> IF j \in S THEN ClaimedRow(j) ELSE rows[j]]
             /\ batch' = [batch EXCEPT
                            ![w] = {ClaimOf(j) : j \in {i \in S : InputCurrent(i)}}]
      BY <1>3 DEF ClaimJobs
    <2>2. ASSUME NEW c \in batch'[w]
          PROVE  /\ c.token = c.fence
                 /\ c.fence = rows[c.job].fence + 1
                 /\ c.fence = rows'[c.job].fence
                 /\ c.text = ContentOf[c.job]
      <3>1. PICK j \in S : InputCurrent(j) /\ c = ClaimOf(j)
        BY <2>1 DEF LeaseInv, TypeOK
      <3>2. j \in Jobs /\ Claimable(j) /\ rows[j] \in Rows
        BY DEF LeaseInv, TypeOK
      <3>3. c.job = j /\ c.fence = rows[j].fence + 1 /\ c.token = rows[j].fence + 1
        BY <3>1, <3>2, ClaimOfType DEF LeaseInv
      <3>4. rows'[j] = Leased(rows[j]) /\ Leased(rows[j]).fence = rows[j].fence + 1
        BY <2>1, <3>1, <3>2, LeasedRow DEF ClaimedRow, Claimable
      <3>5. c.text = ContentOf[j]
        BY <3>1 DEF ClaimOf, InputCurrent
      <3>. QED  BY <3>3, <3>4, <3>5
    <2>3. \A u \in Workers : u # w => batch'[u] = batch[u]
      BY <2>1 DEF LeaseInv, TypeOK
    <2>4. ClaimsMinted'
      BY <1>0, <1>1, <2>2, <2>3 DEF LeaseInv, ClaimsMinted
    <2>5. ASSUME NEW u \in Workers, u # w, NEW b \in batch'[u], NEW c \in batch'[w],
                 b.job = c.job
          PROVE  b.fence # c.fence
      BY <1>0, <2>2, <2>3, <2>5 DEF LeaseInv, ClaimsMinted
    <2>. QED  BY <2>3, <2>4, <2>5 DEF LeaseInv, ClaimsUnique
  <1>. QED  BY <1>2, <1>3

\* The rows an open transaction has rewritten keep their lease: whoever could
\* change them waits for the row lock, skips it, or has lost the lease.
LEMMA WrittenStep ==
    ASSUME LeaseInv, TypeOK', [Next]_vars
    PROVE  WrittenStillLeased'
  <1>0. /\ TypeOK /\ WithinBatch /\ WrittenStillLeased
        /\ \A w \in Workers : \A c \in written[w] : c \in batch[w] /\ c.job \in Jobs
        /\ \A w \in Workers : \A c \in batch[w] : c.job \in Jobs
    BY DEF LeaseInv, WithinBatch, TypeOK, Claims
  <1>1. ASSUME \A w \in Workers : written'[w] \subseteq written[w],
               \A w \in Workers : \A c \in written'[w] :
                  /\ rows'[c.job].status = rows[c.job].status
                  /\ rows'[c.job].fence = rows[c.job].fence
        PROVE  WrittenStillLeased'
    BY <1>0, <1>1 DEF WrittenStillLeased
  <1>2. ASSUME UNCHANGED rows, \A w \in Workers : written'[w] \subseteq written[w]
        PROVE  WrittenStillLeased'
    BY <1>1, <1>2
  <1>3. ASSUME NEW w \in Workers, ~Storing(w), UNCHANGED written, NEW c \in batch[w],
               NEW r, \/ Owns(c) /\ rows' = [rows EXCEPT ![c.job] = r]
                      \/ UNCHANGED rows
        PROVE  WrittenStillLeased'
    <2>1. CASE Owns(c) /\ rows' = [rows EXCEPT ![c.job] = r]
      <3>1. ~RowLocked(c.job)
        BY <1>3, <2>1, OwnedNotWritten
      <3>2. \A u \in Workers : \A b \in written[u] : rows'[b.job] = rows[b.job]
        BY <1>0, <2>1, <3>1 DEF RowLocked, TypeOK
      <3>. QED  BY <1>1, <1>3, <3>2
    <2>. QED  BY <1>2, <1>3, <2>1
  <1>4. ASSUME NEW w \in Workers, ClaimJobs(w)
        PROVE  WrittenStillLeased'
    <2>1. \A u \in Workers : \A b \in written[u] : rows'[b.job] = rows[b.job]
      BY <1>0, <1>4 DEF ClaimJobs, Claimable, WrittenStillLeased
    <2>. QED  BY <1>1, <1>4, <2>1 DEF ClaimJobs, tx
  <1>5. ASSUME NEW w \in Workers, BatchStep(w)
        PROVE  WrittenStillLeased'
    <2>1. CASE EmbedOversized(w)
      <3>1. PICK c \in cur[w] :
               \/ Owns(c) /\ rows' = [rows EXCEPT ![c.job] = Released(@, "failed")]
               \/ UNCHANGED rows
        BY <2>1 DEF EmbedOversized
      <3>2. ~Storing(w) /\ UNCHANGED written /\ c \in batch[w]
        BY <1>0, <2>1 DEF EmbedOversized, WithinBatch, Storing, tx
      <3>. QED  BY <1>3, <3>1, <3>2
    <2>2. CASE DeferOne(w)
      <3>1. PICK c \in settle[w] :
               \/ Owns(c) /\ rows' = [rows EXCEPT ![c.job] = Deferred(@)]
               \/ UNCHANGED rows
        BY <2>2 DEF DeferOne
      <3>2. ~Storing(w) /\ UNCHANGED written /\ c \in batch[w]
        BY <1>0, <2>2 DEF DeferOne, WithinBatch, Storing, tx
      <3>. QED  BY <1>3, <3>1, <3>2
    <2>3. CASE FailOne(w)
      <3>1. PICK c \in settle[w] :
               \/ Owns(c) /\ rows' = [rows EXCEPT ![c.job] = FailedOrRetried(@)]
               \/ UNCHANGED rows
        BY <2>3 DEF FailOne, FailJob
      <3>2. ~Storing(w) /\ UNCHANGED written /\ c \in batch[w]
        BY <1>0, <2>3 DEF FailOne, WithinBatch, Storing, tx
      <3>. QED  BY <1>3, <3>1, <3>2
    <2>4. CASE \/ StartGroup(w) \/ FinishBatch(w) \/ EmbedUnavailable(w) \/ EmbedFailed(w)
               \/ EmbedOk(w) \/ BeginOne(w) \/ LockSource(w) \/ AbortStore(w)
      BY <1>0, <1>2, <2>4 DEF StartGroup, FinishBatch, EmbedUnavailable, EmbedFailed, EmbedOk,
           BeginOne, LockSource, AbortStore, StoreFailed, EndTx, tables, tx, TypeOK
    <2>5. CASE WriteCompletion(w)
      BY <1>0, <2>5 DEF WriteCompletion, Owns, WrittenStillLeased, TypeOK, tables
    <2>6. ASSUME ApplyCompletions(written[w]), EndTx(w)
          PROVE  WrittenStillLeased'
      <3>1. ASSUME NEW u \in Workers, NEW b \in written'[u]
            PROVE  u # w /\ b \in written[u]
        BY <1>0, <2>6, <3>1 DEF EndTx, TypeOK
      <3>2. ASSUME NEW u \in Workers, NEW b \in written'[u]
            PROVE  rows'[b.job] = rows[b.job]
        BY <1>0, <2>6, <3>1, WrittenDisjoint DEF ApplyCompletions
      <3>. QED  BY <1>1, <3>1, <3>2
    <2>. QED  BY <1>5, <2>1, <2>2, <2>3, <2>4, <2>5, <2>6
              DEF BatchStep, CommitStore, CommitUnacknowledged, StoreFailed
  <1>6. ASSUME NEW w \in Workers, Renew(w)
        PROVE  WrittenStillLeased'
    <2>1. PICK c \in batch[w] : rows' = [rows EXCEPT ![c.job].ttl = LeaseTicks]
      BY <1>6 DEF Renew
    <2>2. \A j \in Jobs : rows'[j].status = rows[j].status /\ rows'[j].fence = rows[j].fence
      BY <1>0, <2>1 DEF TypeOK, Rows
    <2>. QED  BY <1>0, <1>1, <1>6, <2>2 DEF Renew, tx
  <1>7. ASSUME NEW w \in Workers, Crash(w)
        PROVE  WrittenStillLeased'
    BY <1>0, <1>2, <1>7 DEF Crash, EndTx, tables, TypeOK
  <1>8. ASSUME NEW j \in Jobs, Tick(j)
        PROVE  WrittenStillLeased'
    <2>1. \A i \in Jobs : rows'[i].status = rows[i].status /\ rows'[i].fence = rows[i].fence
      BY <1>0, <1>8 DEF Tick, TypeOK, Rows
    <2>. QED  BY <1>0, <1>1, <1>8, <2>1 DEF Tick, tx
  <1>9. CASE Recover
    <2>1. \A u \in Workers : \A b \in written[u] : rows'[b.job] = rows[b.job]
      BY <1>0, <1>9 DEF Recover, Recoverable, RowLocked
    <2>. QED  BY <1>1, <1>9, <2>1 DEF Recover, tx
  <1>10. ASSUME NEW d \in Docs, Octopus(d)
         PROVE  WrittenStillLeased'
    <2>1. CASE Supersede(d)
      <3>1. \A u \in Workers : \A b \in written[u] : rows'[b.job] = rows[b.job]
        BY <1>0, <2>1 DEF Supersede, RowLocked
      <3>. QED  BY <1>1, <2>1, <3>1 DEF Supersede, tx
    <2>. QED  BY <1>2, <1>10, <2>1 DEF Octopus, UpdateDoc, DeleteDoc, InsertDoc, tx
  <1>11. CASE UNCHANGED vars
    BY <1>2, <1>11 DEF vars, tables, tx
  <1>. QED  BY <1>4, <1>5, <1>6, <1>7, <1>8, <1>9, <1>10, <1>11 DEF Next

\* Every step of the queue keeps the lease invariant.
LEMMA LeaseStep ==
    ASSUME LeaseInv, [Next]_vars
    PROVE  LeaseInv'
  <1>1. TypeOK'
    BY NextType DEF LeaseInv
  <1>. QED  BY <1>1, WithinBatchStep, ClaimsStep, WrittenStep DEF LeaseInv

\* The lease invariant holds in every reachable state.
THEOREM LeaseInvariant == Spec => []LeaseInv
  <1>1. Init => LeaseInv
    BY Counters DEF Init, LeaseInv, TypeOK, Rows, Statuses, PCs, WithinBatch, Storing,
       ClaimsMinted, ClaimsUnique, WrittenStillLeased
  <1>2. LeaseInv /\ [Next]_vars => LeaseInv'
    BY LeaseStep
  <1>. QED  BY <1>1, <1>2, PTL DEF Spec

\* At most one worker can act on a job: for any number of workers and jobs, and
\* however leases expire and are granted again, two workers never both hold a
\* claim that the conditional statements accept.
THEOREM LeaseExclusion == Spec => []LeaseExclusive
  <1>1. LeaseInv => LeaseExclusive
    BY DEF LeaseInv, ClaimsUnique, LeaseExclusive, Owns
  <1>. QED  BY <1>1, LeaseInvariant, PTL

\* A completion transaction commits over the very lease it was written under.
THEOREM CompletionUnderLease == Spec => []WrittenStillLeased
  <1>1. LeaseInv => WrittenStillLeased
    BY DEF LeaseInv
  <1>. QED  BY <1>1, LeaseInvariant, PTL

----------------------------------------------------------------------------
(* What a step may do to a row                                              *)

\* The transitions of the job state machine, each with the status it starts from.
RowStep(j) ==
    \/ rows'[j] = rows[j]
    \/ Claimable(j) /\ rows'[j] = ClaimedRow(j)
    \/ /\ rows[j].status \in {"pending", "leased"}
       /\ rows'[j] = Released(rows[j], "cancelled")
    \/ /\ rows[j].status = "leased"
       /\ rows'[j] \in {Released(rows[j], "completed"), Released(rows[j], "failed")}
    \/ /\ rows[j].status = "leased"
       /\ rows'[j] \in {FailedOrRetried(rows[j]), Deferred(rows[j])}
    \/ /\ rows[j].status = "leased"
       /\ \E t \in Ticks : rows'[j] = [rows[j] EXCEPT !.ttl = t]

\* Every step follows the state machine.
LEMMA RowSteps ==
    ASSUME LeaseInv, [Next]_vars, NEW j \in Jobs
    PROVE  RowStep(j)
  <1>0. /\ TypeOK /\ WithinBatch /\ WrittenStillLeased
        /\ "failed" \in Terminal /\ "cancelled" \in Terminal /\ "completed" \in Terminal
    BY DEF LeaseInv, Terminal
  <1>1. ASSUME NEW w \in Workers, ClaimJobs(w)
        PROVE  RowStep(j)
    BY <1>1 DEF ClaimJobs, RowStep
  <1>2. ASSUME NEW w \in Workers, BatchStep(w)
        PROVE  RowStep(j)
    <2>1. CASE EmbedOversized(w)
      BY <1>0, <2>1 DEF EmbedOversized, Owns, RowStep, TypeOK
    <2>2. CASE DeferOne(w)
      BY <1>0, <2>2 DEF DeferOne, Owns, RowStep, TypeOK
    <2>3. CASE FailOne(w)
      BY <1>0, <2>3 DEF FailOne, FailJob, Owns, RowStep, TypeOK
    <2>4. CASE \/ StartGroup(w) \/ FinishBatch(w) \/ EmbedUnavailable(w) \/ EmbedFailed(w)
               \/ EmbedOk(w) \/ BeginOne(w) \/ LockSource(w) \/ WriteCompletion(w)
               \/ AbortStore(w)
      BY <2>4 DEF StartGroup, FinishBatch, EmbedUnavailable, EmbedFailed, EmbedOk,
           BeginOne, LockSource, WriteCompletion, AbortStore, tables, RowStep
    <2>5. ASSUME ApplyCompletions(written[w])
          PROVE  RowStep(j)
      BY <1>0, <2>5 DEF ApplyCompletions, WrittenStillLeased, RowStep
    <2>. QED  BY <1>2, <2>1, <2>2, <2>3, <2>4, <2>5
              DEF BatchStep, CommitStore, CommitUnacknowledged
  <1>3. ASSUME NEW w \in Workers, Renew(w)
        PROVE  RowStep(j)
    <2>1. PICK c \in batch[w] : Owns(c) /\ rows' = [rows EXCEPT ![c.job].ttl = LeaseTicks]
      BY <1>3 DEF Renew
    <2>2. LeaseTicks \in Ticks
      BY Counters
    <2>. QED  BY <1>0, <2>1, <2>2 DEF Owns, RowStep, TypeOK
  <1>4. ASSUME NEW w \in Workers, Crash(w)
        PROVE  RowStep(j)
    BY <1>4 DEF Crash, tables, RowStep
  <1>5. ASSUME NEW i \in Jobs, Tick(i)
        PROVE  RowStep(j)
    <2>1. rows[i].ttl - 1 \in Ticks
      BY <1>0, <1>5, Counters DEF Tick, TypeOK, Rows
    <2>. QED  BY <1>0, <1>5, <2>1 DEF Tick, RowStep, TypeOK
  <1>6. CASE Recover
    BY <1>6 DEF Recover, Recoverable, Expired, RowStep
  <1>7. ASSUME NEW d \in Docs, Octopus(d)
        PROVE  RowStep(j)
    BY <1>0, <1>7 DEF Octopus, UpdateDoc, Supersede, DeleteDoc, InsertDoc, RowStep
  <1>8. CASE UNCHANGED vars
    BY <1>8 DEF vars, tables, RowStep
  <1>. QED  BY <1>1, <1>2, <1>3, <1>4, <1>5, <1>6, <1>7, <1>8 DEF Next

\* Finished jobs stay as they are: no late completion, failure, deferral, renewal
\* or recovery, and no superseding document, changes a terminal row.
THEOREM TerminalRowsStable == Spec => TerminalStable
  <1>1. LeaseInv /\ [Next]_vars =>
           [\A j \in Jobs : rows[j].status \in Terminal => rows'[j] = rows[j]]_vars
    <2>. SUFFICES ASSUME LeaseInv, [Next]_vars, NEW j \in Jobs, rows[j].status \in Terminal
                  PROVE  rows'[j] = rows[j]
      OBVIOUS
    <2>1. rows[j].status \notin {"pending", "leased"}
      BY DEF Terminal
    <2>. QED  BY <2>1, RowSteps DEF RowStep, Claimable
  <1>. QED  BY <1>1, LeaseInvariant, PTL DEF Spec, TerminalStable

\* Every transition of the state machine keeps the retry budget.
LEMMA BudgetStep ==
    ASSUME LeaseInv, AttemptBudget, [Next]_vars
    PROVE  AttemptBudget'
  <1>. SUFFICES ASSUME NEW j \in Jobs
                PROVE  /\ rows'[j].status = "pending" => rows'[j].attempts < MaxAttempts
                       /\ rows'[j].status = "leased" => rows'[j].attempts \in 1..MaxAttempts
                       /\ rows'[j].attempts <= rows'[j].fence
    BY DEF AttemptBudget
  <1>. DEFINE r == rows[j]
  <1>0. /\ r \in Rows /\ r.attempts \in 0..MaxAttempts /\ r.fence \in Nat
        /\ MaxAttempts \in Nat \ {0} /\ Terminal \subseteq Statuses
        /\ "pending" \notin Terminal /\ "leased" \notin Terminal
        /\ r.status = "pending" => r.attempts < MaxAttempts
        /\ r.status = "leased" => r.attempts \in 1..MaxAttempts
        /\ r.attempts <= r.fence
    BY Counters, BoundAssumption
       DEF LeaseInv, TypeOK, Rows, Attempts, Fences, Statuses, Terminal, AttemptBudget
  <1>1. CASE rows'[j] = r
    BY <1>0, <1>1
  <1>2. CASE Claimable(j) /\ rows'[j] = ClaimedRow(j)
    <2>1. /\ Leased(r) \in Rows /\ Leased(r).status = "leased"
          /\ Leased(r).attempts = r.attempts + 1 /\ Leased(r).fence = r.fence + 1
          /\ r.attempts < MaxAttempts
      BY <1>0, <1>2, LeasedRow DEF Claimable
    <2>2. CASE InputCurrent(j)
      BY <1>0, <1>2, <2>1, <2>2 DEF ClaimedRow
    <2>3. CASE ~InputCurrent(j)
      <3>1. "cancelled" \in Statuses
        BY DEF Statuses, Terminal
      <3>2. /\ rows'[j].status = "cancelled"
            /\ rows'[j].attempts = r.attempts + 1 /\ rows'[j].fence = r.fence + 1
        BY <1>2, <2>1, <2>3, <3>1, ReleasedRow DEF ClaimedRow
      <3>. QED  BY <1>0, <3>2
    <2>. QED  BY <2>2, <2>3
  <1>3. ASSUME NEW s \in Terminal, rows'[j] = Released(r, s)
        PROVE  /\ rows'[j].status = s
               /\ rows'[j].attempts = r.attempts /\ rows'[j].fence = r.fence
    BY <1>0, <1>3, ReleasedRow
  <1>4. CASE rows'[j] = FailedOrRetried(r)
    BY <1>0, <1>4, FailedOrRetriedRow
  <1>5. CASE rows'[j] = Deferred(r)
    BY <1>0, <1>5, DeferredRow
  <1>6. ASSUME NEW t \in Ticks, rows'[j] = [r EXCEPT !.ttl = t]
        PROVE  /\ rows'[j].status = r.status
               /\ rows'[j].attempts = r.attempts /\ rows'[j].fence = r.fence
    BY <1>0, <1>6 DEF Rows
  <1>7. RowStep(j)
    BY RowSteps
  <1>8. "completed" \in Terminal /\ "failed" \in Terminal /\ "cancelled" \in Terminal
    BY DEF Terminal
  <1>. QED  BY <1>0, <1>1, <1>2, <1>3, <1>4, <1>5, <1>6, <1>7, <1>8 DEF RowStep

\* The retry budget is kept by every transition, however claims, deferrals,
\* failures and recoveries interleave.
THEOREM RetryBudget == Spec => []AttemptBudget
  <1>1. Init => AttemptBudget
    BY BoundAssumption DEF Init, AttemptBudget
  <1>2. LeaseInv /\ AttemptBudget /\ [Next]_vars => AttemptBudget'
    BY BudgetStep
  <1>. QED  BY <1>1, <1>2, LeaseInvariant, PTL DEF Spec

----------------------------------------------------------------------------
(* Vectors                                                                  *)

\* Only a commit writes the vector tables.
LEMMA OnlyCommitsWrite ==
    ASSUME [Next]_vars
    PROVE  \/ UNCHANGED <<embeddings, kindVectors>>
           \/ \E w \in Workers : ApplyCompletions(written[w])
  BY DEF Next, BatchStep, ClaimJobs, StartGroup, FinishBatch, EmbedOversized,
     EmbedUnavailable, EmbedFailed, EmbedOk, DeferOne, FailOne, BeginOne, LockSource,
     WriteCompletion, CommitStore, CommitUnacknowledged, AbortStore, Renew, Crash, Tick,
     Recover, Octopus, UpdateDoc, Supersede, DeleteDoc, InsertDoc, tables, vars

\* A row becomes completed only in a commit that has written its claim.
LEMMA OnlyCommitsComplete ==
    ASSUME LeaseInv, [Next]_vars, NEW j \in Jobs,
           rows'[j].status = "completed", rows[j].status # "completed"
    PROVE  \E w \in Workers : ApplyCompletions(written[w]) /\ \E c \in written[w] : c.job = j
  <1>0. /\ \A i \in Jobs : rows[i] \in Rows
        /\ rows \in [Jobs -> Rows]
        /\ "failed" \in Statuses /\ "cancelled" \in Statuses
        /\ \A w \in Workers : \A c \in batch[w] \union cur[w] \union settle[w] : c.job \in Jobs
    BY DEF LeaseInv, TypeOK, Statuses, Terminal, Claims
  <1>1. ASSUME NEW w \in Workers, ClaimJobs(w)
        PROVE  FALSE
    <2>1. ASSUME Claimable(j)
          PROVE  ClaimedRow(j).status # "completed"
      <3>1. Leased(rows[j]) \in Rows /\ Leased(rows[j]).status = "leased"
        BY <1>0, <2>1, LeasedRow DEF Claimable
      <3>. QED  BY <1>0, <3>1, ReleasedRow DEF ClaimedRow
    <2>. QED  BY <1>1, <2>1 DEF ClaimJobs
  <1>2. ASSUME NEW w \in Workers, BatchStep(w), ~ApplyCompletions(written[w])
        PROVE  FALSE
    <2>1. CASE EmbedOversized(w)
      <3>1. Released(rows[j], "failed").status = "failed"
        BY <1>0, ReleasedRow
      <3>. QED  BY <1>0, <2>1, <3>1 DEF EmbedOversized
    <2>2. CASE DeferOne(w)
      <3>1. Deferred(rows[j]).status = "pending"
        BY <1>0, DeferredRow
      <3>. QED  BY <1>0, <2>2, <3>1 DEF DeferOne
    <2>3. CASE FailOne(w)
      <3>1. FailedOrRetried(rows[j]).status \in {"failed", "pending"}
        BY <1>0, FailedOrRetriedRow
      <3>. QED  BY <1>0, <2>3, <3>1 DEF FailOne, FailJob
    <2>. QED  BY <1>2, <2>1, <2>2, <2>3 DEF BatchStep, StartGroup, FinishBatch,
         EmbedUnavailable, EmbedFailed, EmbedOk, BeginOne, LockSource, WriteCompletion,
         CommitStore, CommitUnacknowledged, AbortStore, tables
  <1>3. ASSUME NEW w \in Workers, ApplyCompletions(written[w])
        PROVE  \E c \in written[w] : c.job = j
    BY <1>3 DEF ApplyCompletions
  <1>4. ASSUME NEW w \in Workers, Renew(w)
        PROVE  FALSE
    <2>1. rows'[j].status = rows[j].status
      BY <1>0, <1>4 DEF Renew, Rows
    <2>. QED  BY <2>1
  <1>5. ASSUME NEW i \in Jobs, Tick(i)
        PROVE  FALSE
    <2>1. rows'[j].status = rows[j].status
      BY <1>0, <1>5 DEF Tick, Rows
    <2>. QED  BY <2>1
  <1>6. ASSUME Recover
        PROVE  FALSE
    <2>1. FailedOrRetried(rows[j]).status \in {"failed", "pending"}
      BY <1>0, FailedOrRetriedRow
    <2>. QED  BY <1>6, <2>1 DEF Recover
  <1>7. ASSUME NEW d \in Docs, Octopus(d)
        PROVE  FALSE
    <2>1. Released(rows[j], "cancelled").status = "cancelled"
      BY <1>0, ReleasedRow
    <2>. QED  BY <1>7, <2>1 DEF Octopus, UpdateDoc, Supersede, DeleteDoc, InsertDoc
  <1>. QED  BY <1>1, <1>2, <1>3, <1>4, <1>5, <1>6, <1>7 DEF Next, Crash, vars, tables

\* The vectors and the terminal state become visible in one commit.
LEMMA VectorStep ==
    ASSUME LeaseInv, VectorInv, [Next]_vars
    PROVE  VectorInv'
  <1>1. embeddings' = kindVectors'
    BY OnlyCommitsWrite DEF VectorInv, ApplyCompletions
  <1>2. ASSUME NEW w \in Workers, ApplyCompletions(written[w]), NEW d \in Docs,
               embeddings'[d] = NoVector
        PROVE  /\ embeddings[d] = NoVector
               /\ \A c \in written[w] : DocOfClaim(c) # d
    <2>1. \A c \in written[w] : VectorOf(c) \in Vectors
      BY JobAssumption DEF LeaseInv, TypeOK, Claims, VectorOf, Vectors
    <2>2. NoVector \notin Vectors
      BY BoundAssumption
    <2>. QED  BY <1>2, <2>1, <2>2 DEF ApplyCompletions, InsertVectors
  <1>3. ASSUME NEW j \in Jobs, rows'[j].status = "completed"
        PROVE  embeddings'[DocOf[j]] # NoVector
    <2>0. DocOf[j] \in Docs
      BY JobAssumption
    <2>1. CASE rows[j].status = "completed"
      BY <1>2, <2>0, <2>1, OnlyCommitsWrite DEF VectorInv
    <2>2. CASE rows[j].status # "completed"
      BY <1>2, <1>3, <2>0, <2>2, OnlyCommitsComplete DEF DocOfClaim
    <2>. QED  BY <2>1, <2>2
  <1>. QED  BY <1>1, <1>3 DEF VectorInv

\* A completed job has left its vector in both tables, which always agree: the
\* vectors and the terminal state become visible in one commit.
THEOREM CompletedWithVector == Spec => []CompletedHasVector
  <1>1. Init => VectorInv
    BY DEF Init, VectorInv
  <1>2. LeaseInv /\ VectorInv /\ [Next]_vars => VectorInv'
    BY VectorStep
  <1>3. VectorInv => CompletedHasVector
    BY DEF VectorInv, CompletedHasVector
  <1>. QED  BY <1>1, <1>2, <1>3, LeaseInvariant, PTL DEF Spec

\* The source locks and the documents of open completions, as long as a deleted
\* document id is not inserted again.
LEMMA SourceStep ==
    ASSUME LeaseInv, SourceInv, ~Reinsertion, [Next]_vars
    PROVE  SourceInv'
  <1>0. /\ TypeOK
        /\ \A w \in Workers : \A c \in scope[w] \union guard[w] \union written[w] :
              c.job \in Jobs /\ DocOfClaim(c) \in Docs
    BY JobAssumption DEF LeaseInv, TypeOK, Claims, DocOfClaim
  <1>1. ASSUME UNCHANGED <<docs, guard, locked, written>>
        PROVE  SourceInv'
    BY <1>1 DEF SourceInv, InputCurrent, DocOfClaim
  <1>2. ASSUME NEW w \in Workers, UNCHANGED docs, EndTx(w)
        PROVE  SourceInv'
    BY <1>0, <1>2 DEF SourceInv, EndTx, TypeOK, InputCurrent, DocOfClaim
  <1>3. ASSUME NEW w \in Workers, LockSource(w)
        PROVE  SourceInv'
    <2>1. PICK c \in scope[w] :
             /\ \A u \in Workers \ {w} : LocksTaken(DocOfClaim(c)) \intersect locked[u] = {}
             /\ locked' = [locked EXCEPT ![w] = @ \union LocksTaken(DocOfClaim(c))]
             /\ guard' = [guard EXCEPT ![w] = {c}]
             /\ UNCHANGED <<docs, written>>
      BY <1>3 DEF LockSource, tables
    <2>2. \A u, v \in Workers : u # v => locked'[u] \intersect locked'[v] = {}
      BY <1>0, <2>1 DEF SourceInv, TypeOK
    <2>3. \A u \in Workers : locked[u] \subseteq locked'[u]
      BY <1>0, <2>1 DEF TypeOK
    <2>4. \A u \in Workers : \A b \in guard'[u] :
             DocOfClaim(b) \in locked'[u] \/ docs'[DocOfClaim(b)].status = "missing"
      BY <1>0, <2>1, <2>3 DEF SourceInv, TypeOK, LocksTaken
    <2>5. \A u \in Workers : \A b \in written'[u] :
             DocOfClaim(b) \in locked'[u] /\ InputCurrent(b.job)'
      BY <2>1, <2>3 DEF SourceInv, InputCurrent
    <2>. QED  BY <2>2, <2>4, <2>5 DEF SourceInv, DocOfClaim
  <1>4. ASSUME NEW w \in Workers, WriteCompletion(w)
        PROVE  SourceInv'
    <2>1. PICK c \in guard[w] : InputCurrent(c.job)
                                /\ written' = [written EXCEPT ![w] = @ \union {c}]
      BY <1>4 DEF WriteCompletion
    <2>2. UNCHANGED <<docs, locked>> /\ guard' = [guard EXCEPT ![w] = {}]
      BY <1>4 DEF WriteCompletion, tables
    <2>3. DocOfClaim(c) \in locked[w]
      BY <2>1 DEF SourceInv, InputCurrent, DocOfClaim
    <2>4. \A u \in Workers : \A b \in written'[u] :
             DocOfClaim(b) \in locked[u] /\ InputCurrent(b.job)
      BY <1>0, <2>1, <2>3 DEF SourceInv, TypeOK
    <2>5. \A u \in Workers : guard'[u] \subseteq guard[u]
      BY <1>0, <2>2 DEF TypeOK
    <2>. QED  BY <2>2, <2>4, <2>5 DEF SourceInv, InputCurrent, DocOfClaim
  <1>5. ASSUME NEW d \in Docs, SourceFree(d), UNCHANGED <<guard, locked, written>>,
               NEW e, docs' = [docs EXCEPT ![d] = e],
               docs[d].status = "missing" => e.status = "missing"
        PROVE  SourceInv'
    <2>1. \A w \in Workers : d \notin locked[w]
      BY <1>5 DEF SourceFree, SourceLockedBy
    <2>2. \A w \in Workers : \A c \in guard[w] :
             DocOfClaim(c) \in locked[w] \/ docs'[DocOfClaim(c)].status = "missing"
      BY <1>0, <1>5, <2>1 DEF SourceInv, TypeOK
    <2>3. \A w \in Workers : \A c \in written[w] :
             DocOfClaim(c) \in locked[w] /\ docs'[DocOfClaim(c)] = docs[DocOfClaim(c)]
      BY <1>0, <1>5, <2>1 DEF SourceInv, TypeOK
    <2>4. \A w \in Workers : \A c \in written[w] : InputCurrent(c.job)'
      BY <2>3 DEF SourceInv, InputCurrent, DocOfClaim
    <2>. QED  BY <1>5, <2>2, <2>3, <2>4 DEF SourceInv, DocOfClaim
  <1>6. ASSUME NEW w \in Workers, BatchStep(w), ~LockSource(w), ~WriteCompletion(w)
        PROVE  SourceInv'
    BY <1>1, <1>2, <1>6 DEF BatchStep, StartGroup, FinishBatch, EmbedOversized,
       EmbedUnavailable, EmbedFailed, EmbedOk, DeferOne, FailOne, BeginOne, CommitStore,
       CommitUnacknowledged, AbortStore, StoreFailed, ApplyCompletions, tables, tx
  <1>7. ASSUME NEW d \in Docs, Octopus(d)
        PROVE  SourceInv'
    <2>1. CASE UpdateDoc(d)
      <3>1. PICK t, s \in Contents :
               docs' = [docs EXCEPT ![d] = [status |-> "active", text |-> t, sha |-> s]]
        BY <2>1 DEF UpdateDoc
      <3>. QED  BY <1>5, <2>1, <3>1 DEF UpdateDoc, tx
    <2>2. CASE Supersede(d)
      <3>1. docs' = [docs EXCEPT ![d] = [docs[d] EXCEPT !.status = "inactive"]]
        BY <2>2 DEF Supersede
      <3>. QED  BY <1>5, <2>2, <3>1 DEF Supersede, tx
    <2>3. CASE DeleteDoc(d)
      <3>1. docs' = [docs EXCEPT ![d] = [docs[d] EXCEPT !.status = "missing"]]
        BY <2>3 DEF DeleteDoc
      <3>2. docs[d].status # "missing"
        BY <2>3 DEF DeleteDoc
      <3>. QED  BY <1>5, <2>3, <3>1, <3>2 DEF DeleteDoc, tx
    <2>. QED  BY <1>7, <2>1, <2>2, <2>3 DEF Octopus, InsertDoc
  <1>8. ASSUME NEW w \in Workers, ClaimJobs(w) \/ Renew(w) \/ Crash(w)
        PROVE  SourceInv'
    BY <1>1, <1>2, <1>8 DEF ClaimJobs, Renew, Crash, tables, tx
  <1>9. ASSUME Recover \/ UNCHANGED vars \/ \E j \in Jobs : Tick(j)
        PROVE  SourceInv'
    BY <1>1, <1>9 DEF Recover, Tick, vars, tables, tx
  <1>. QED  BY <1>3, <1>4, <1>6, <1>7, <1>8, <1>9 DEF Next

\* What a step publishes was computed from the text the document has.
LEMMA FreshStep ==
    ASSUME LeaseInv, SourceInv, [Next]_vars, NEW d \in Docs, embeddings'[d] # embeddings[d]
    PROVE  /\ docs[d].status = "active"
           /\ embeddings'[d].of = docs[d].text
           /\ embeddings'[d].sha = docs[d].sha
  <1>1. PICK w \in Workers : ApplyCompletions(written[w])
    BY OnlyCommitsWrite
  <1>2. PICK c \in written[w] : DocOfClaim(c) = d /\ embeddings'[d] = VectorOf(c)
    <2>1. \E b \in written[w] : DocOfClaim(b) = d
      BY <1>1 DEF ApplyCompletions, InsertVectors
    <2>2. embeddings'[d] = VectorOf(CHOOSE b \in written[w] : DocOfClaim(b) = d)
      BY <1>1, <2>1 DEF ApplyCompletions, InsertVectors
    <2>. QED  BY <2>1, <2>2
  <1>3. InputCurrent(c.job) /\ c.text = ContentOf[c.job]
    BY DEF SourceInv, LeaseInv, WithinBatch, ClaimsMinted
  <1>. QED  BY <1>2, <1>3 DEF InputCurrent, VectorOf, DocOfClaim

\* No stale vector: when deleted document ids are not reused, every vector that
\* becomes visible was computed from the text the document has at that moment.
THEOREM VectorsFresh == ~Reinsertion /\ Spec => FreshVectorWrites
  <1>. SUFFICES ASSUME ~Reinsertion
                PROVE  Spec => FreshVectorWrites
    OBVIOUS
  <1>1. Init => SourceInv
    BY DEF Init, SourceInv
  <1>2. LeaseInv /\ SourceInv /\ [Next]_vars => SourceInv'
    BY SourceStep
  <1>3. LeaseInv /\ SourceInv /\ [Next]_vars =>
           [\A d \in Docs : embeddings'[d] # embeddings[d] =>
              /\ docs[d].status = "active"
              /\ embeddings'[d].of = docs[d].text
              /\ embeddings'[d].sha = docs[d].sha]_vars
    BY FreshStep
  <1>. QED  BY <1>1, <1>2, <1>3, LeaseInvariant, PTL DEF Spec, FreshVectorWrites

----------------------------------------------------------------------------
(* The queue implements the ledger                                          *)

\* Outside a commit a job only makes a move of the ledger.
LEMMA StatusMoves ==
    ASSUME LeaseInv, [Next]_vars, NEW j \in Jobs,
           rows'[j].status = "completed" => rows[j].status = "completed"
    PROVE  \/ rows'[j].status = rows[j].status
           \/ <<rows[j].status, rows'[j].status>> \in Ledger!Moves
  <1>. DEFINE r == rows[j]
  <1>0. /\ r \in Rows
        /\ "failed" \in Statuses /\ "cancelled" \in Statuses /\ "completed" \in Statuses
    BY DEF LeaseInv, TypeOK, Statuses, Terminal
  <1>1. CASE Claimable(j) /\ rows'[j] = ClaimedRow(j)
    <2>1. r.status = "pending" /\ Leased(r) \in Rows /\ Leased(r).status = "leased"
      BY <1>0, <1>1, LeasedRow DEF Claimable
    <2>2. rows'[j].status \in {"leased", "cancelled"}
      BY <1>0, <1>1, <2>1, ReleasedRow DEF ClaimedRow
    <2>. QED  BY <2>1, <2>2 DEF Ledger!Moves
  <1>2. CASE r.status \in {"pending", "leased"} /\ rows'[j] = Released(r, "cancelled")
    <2>1. rows'[j].status = "cancelled"
      BY <1>0, <1>2, ReleasedRow
    <2>. QED  BY <1>2, <2>1 DEF Ledger!Moves
  <1>3. CASE /\ r.status = "leased"
             /\ rows'[j] \in {Released(r, "completed"), Released(r, "failed")}
    <2>1. rows'[j].status = "failed"
      BY <1>0, <1>3, ReleasedRow
    <2>. QED  BY <1>3, <2>1 DEF Ledger!Moves
  <1>4. CASE r.status = "leased" /\ rows'[j] \in {FailedOrRetried(r), Deferred(r)}
    <2>1. rows'[j].status \in {"failed", "pending"}
      BY <1>0, <1>4, FailedOrRetriedRow, DeferredRow
    <2>. QED  BY <1>4, <2>1 DEF Ledger!Moves
  <1>5. ASSUME NEW t \in Ticks, rows'[j] = [r EXCEPT !.ttl = t]
        PROVE  rows'[j].status = r.status
    BY <1>0, <1>5 DEF Rows
  <1>6. RowStep(j)
    BY RowSteps
  <1>. QED  BY <1>1, <1>2, <1>3, <1>4, <1>5, <1>6 DEF RowStep

\* A commit publishes the vectors of exactly the jobs it completes.
LEMMA CommitPublishes ==
    ASSUME LeaseInv, LeaseInv', NEW w \in Workers, ApplyCompletions(written[w]),
           NEW S, S = {c.job : c \in written[w]}
    PROVE  Ledger!Publish(S)
  <1>0. /\ TypeOK /\ TypeOK' /\ WrittenStillLeased
        /\ \A j \in Jobs : rows[j] \in Rows
        /\ \A c \in written[w] : c \in Claims /\ c.job \in Jobs
        /\ "completed" \in Statuses
    BY DEF LeaseInv, TypeOK, Claims, Statuses, Terminal
  <1>1. \A j \in S : j \in Jobs /\ rows[j].status = "leased"
    BY <1>0 DEF WrittenStillLeased
  <1>2. ASSUME NEW j \in Jobs
        PROVE  rows'[j].status = IF j \in S THEN "completed" ELSE rows[j].status
    <2>1. rows'[j] = IF j \in S THEN Released(rows[j], "completed") ELSE rows[j]
      BY DEF ApplyCompletions
    <2>. QED  BY <1>0, <2>1, ReleasedRow
  <1>3. ASSUME NEW d \in Docs
        PROVE  \/ \E j \in S : /\ DocOf[j] = d
                               /\ ShaIn(embeddings'[d]) = ContentOf[j]
                               /\ ShaIn(kindVectors'[d]) = ContentOf[j]
               \/ /\ \A j \in S : DocOf[j] # d
                  /\ embeddings'[d] = embeddings[d] /\ kindVectors'[d] = kindVectors[d]
    <2>1. CASE \E c \in written[w] : DocOfClaim(c) = d
      <3>1. PICK c \in written[w] :
               /\ DocOfClaim(c) = d
               /\ embeddings'[d] = VectorOf(c) /\ kindVectors'[d] = VectorOf(c)
        BY <2>1 DEF ApplyCompletions, InsertVectors
      <3>2. VectorOf(c) \in Vectors /\ VectorOf(c).sha = ContentOf[c.job]
        BY <1>0, JobAssumption DEF VectorOf, Vectors, Claims
      <3>3. ShaIn(VectorOf(c)) = ContentOf[c.job]
        BY <3>2, BoundAssumption DEF ShaIn
      <3>. QED  BY <3>1, <3>3 DEF DocOfClaim
    <2>2. CASE ~\E c \in written[w] : DocOfClaim(c) = d
      BY <2>2 DEF ApplyCompletions, InsertVectors, DocOfClaim
    <2>. QED  BY <2>1, <2>2
  <1>4. ASSUME NEW d \in Docs
        PROVE  /\ ShaIn(embeddings'[d]) \in Contents \union {NoVector}
               /\ ShaIn(kindVectors'[d]) \in Contents \union {NoVector}
    BY <1>0 DEF TypeOK, ShaIn, Vectors
  <1>. QED  BY <1>1, <1>2, <1>3, <1>4 DEF Ledger!Publish

\* Workers, leases, recovery, fallbacks, crashes and lost commit answers
\* implement the ledger: every step is a step of the ledger or invisible in it.
THEOREM QueueImplementsLedger == Spec => ImplementsLedger
  <1>1. Init => Ledger!Init
    BY DEF Init, Ledger!Init, ShaIn
  <1>2. ASSUME LeaseInv, LeaseInv', [Next]_vars
        PROVE  [Ledger!Next]_(Ledger!ledger)
    <2>0. \A j \in Jobs : rows'[j].status \in Ledger!Statuses
      BY <1>2 DEF LeaseInv, TypeOK, Rows, Statuses, Terminal, Ledger!Statuses
    <2>1. ASSUME NEW w \in Workers, ApplyCompletions(written[w])
          PROVE  Ledger!Next
      <3>1. {c.job : c \in written[w]} \in SUBSET Jobs
        BY <1>2 DEF LeaseInv, TypeOK, Claims
      <3>2. PICK S \in SUBSET Jobs : S = {c.job : c \in written[w]}
        BY <3>1
      <3>3. Ledger!Publish(S)
        BY <1>2, <2>1, <3>2, CommitPublishes
      <3>. QED  BY <3>3 DEF Ledger!Next
    <2>2. CASE ~\E w \in Workers : ApplyCompletions(written[w])
      <3>1. UNCHANGED <<embeddings, kindVectors>>
        BY <1>2, <2>2, OnlyCommitsWrite
      <3>2. \A j \in Jobs : \/ rows'[j].status = rows[j].status
                            \/ <<rows[j].status, rows'[j].status>> \in Ledger!Moves
        BY <1>2, <2>2, StatusMoves, OnlyCommitsComplete
      <3>3. Ledger!Advance
        BY <2>0, <3>1, <3>2 DEF Ledger!Advance
      <3>. QED  BY <3>3 DEF Ledger!Next
    <2>. QED  BY <2>1, <2>2
  <1>. QED  BY <1>1, <1>2, LeaseInvariant, PTL DEF Spec, ImplementsLedger, Ledger!Spec

\* The queue keeps its promises together: exclusive leases, completions under the
\* lease, a vector for every completed job and the limit of attempts.
THEOREM QueueIsSafe == Spec => []QueueSafe
  BY LeaseExclusion, CompletionUnderLease, CompletedWithVector, RetryBudget, PTL DEF QueueSafe

----------------------------------------------------------------------------
(* Repair commands against the working queue                                *)

\* Jobs that are or have been completed are of the kind of their document, and so
\* are the claims that may complete one.
KindInv ==
    /\ \A w \in Workers : \A c \in batch[w] : DocKind[DocOf[c.job]] = JobKind[c.job]
    /\ \A j \in Jobs : rows[j].status = "completed" => DocKind[DocOf[j]] = JobKind[j]

RepairInv == LeaseInv /\ AttemptBudget /\ VectorInv /\ KindInv

\* Reopening a job keeps everything but its status.
LEMMA ReopenedRow ==
    ASSUME NEW r \in Rows
    PROVE  /\ Reopened(r) \in Rows /\ Reopened(r).status = "pending"
           /\ Reopened(r).fence = r.fence /\ Reopened(r).attempts = r.attempts
  BY DEF Reopened, Rows, Statuses

\* What a repair command may do to a row: nothing while a completion holds it, and
\* otherwise reopen a lease that expired, a job that failed or one that completed
\* without its vector, or cancel.
RepairStep(j) ==
    \/ rows'[j] = rows[j]
    \/ /\ ~RowLocked(j)
       /\ \/ Stale(j) /\ rows'[j] = Released(rows[j], "pending")
          \/ Retryable(j) /\ rows'[j] = Released(rows[j], "pending")
          \/ Reconcilable(j) /\ rows'[j] = Reopened(rows[j])
          \/ rows'[j] = Released(rows[j], "cancelled")

\* The repair commands do just that and leave the workers alone.
LEMMA RepairSteps ==
    ASSUME LeaseInv, Repair
    PROVE  /\ UNCHANGED <<docs, embeddings, kindVectors, control, tx>>
           /\ rows' \in [Jobs -> {rows'[j] : j \in Jobs}]
           /\ \A j \in Jobs : RepairStep(j)
  <1>1. \A j \in Jobs : rows[j].status # "leased" => ~RowLocked(j)
    BY DEF LeaseInv, WrittenStillLeased, RowLocked
  <1>2. rows = [j \in Jobs |-> rows[j]]
    BY DEF LeaseInv, TypeOK
  <1>3. CASE ResetStaleJobs
    BY <1>3 DEF ResetStaleJobs, UpdateRows, Pending, Stale, RepairStep
  <1>4. CASE RetryFailedJobs
    BY <1>1, <1>4 DEF RetryFailedJobs, UpdateRows, Pending, Retryable, RepairStep
  <1>5. CASE ReconcileProxyJob
    BY <1>1, <1>5 DEF ReconcileProxyJob, UpdateRows, Reconcilable, RepairStep
  <1>6. CASE CancelTargets
    BY <1>6 DEF CancelTargets, RepairStep
  <1>7. CASE SelectSuperseded \/ SelectOrphaned \/ CancelAborted
    BY <1>2, <1>7 DEF SelectSuperseded, SelectOrphaned, SelectTargets, CancelAborted, RepairStep,
       vars, tables
  <1>. QED  BY <1>3, <1>4, <1>5, <1>6, <1>7 DEF Repair

\* A row after a repair command: of its type, with its counters, and pending only
\* with attempts left.
LEMMA RepairedRow ==
    ASSUME LeaseInv, NEW j \in Jobs, RepairStep(j)
    PROVE  /\ rows'[j] \in Rows
           /\ rows'[j].fence = rows[j].fence /\ rows'[j].attempts = rows[j].attempts
           /\ \/ rows'[j] = rows[j]
              \/ rows'[j].status = "pending" /\ rows[j].attempts < MaxAttempts
              \/ rows'[j].status = "cancelled"
  <1>1. rows[j] \in Rows /\ "pending" \in Statuses /\ "cancelled" \in Statuses
    BY DEF LeaseInv, TypeOK, Statuses, Terminal
  <1>. QED  BY <1>1, ReleasedRow, ReopenedRow DEF RepairStep, Stale, Retryable, Reconcilable

\* A repair command keeps the lease invariant: in particular it takes no row from
\* an open completion.
LEMMA RepairLease == ASSUME LeaseInv, Repair PROVE LeaseInv'
  <1>1. /\ UNCHANGED <<docs, embeddings, kindVectors, control, tx>>
        /\ \A j \in Jobs : RepairStep(j)
        /\ rows' \in [Jobs -> {rows'[j] : j \in Jobs}]
    BY RepairSteps
  <1>2. \A j \in Jobs : rows'[j] \in Rows /\ rows'[j].fence = rows[j].fence
    BY <1>1, RepairedRow
  <1>3. TypeOK'
    BY <1>1, <1>2 DEF LeaseInv, TypeOK, control, tx
  <1>4. WithinBatch'
    BY <1>1 DEF LeaseInv, WithinBatch, Storing, control, tx
  <1>5. \A w \in Workers : \A c \in batch[w] \union written[w] : c.job \in Jobs
    BY DEF LeaseInv, TypeOK, Claims
  <1>6. ClaimsMinted' /\ ClaimsUnique'
    BY <1>1, <1>2, <1>5 DEF LeaseInv, ClaimsMinted, ClaimsUnique, control
  <1>7. ASSUME NEW w \in Workers, NEW c \in written[w]
        PROVE  rows'[c.job] = rows[c.job]
    <2>1. RowLocked(c.job)
      BY DEF RowLocked
    <2>. QED  BY <1>1, <1>5, <2>1 DEF RepairStep
  <1>8. WrittenStillLeased'
    BY <1>1, <1>7 DEF LeaseInv, WrittenStillLeased, tx
  <1>. QED  BY <1>3, <1>4, <1>6, <1>8 DEF LeaseInv

\* Claims and completions are of the document's kind.
LEMMA KindStep == ASSUME LeaseInv, KindInv, [Next]_vars PROVE KindInv'
  <1>1. \A w \in Workers : \A c \in batch'[w] : DocKind[DocOf[c.job]] = JobKind[c.job]
    <2>1. ASSUME NEW w \in Workers, ClaimJobs(w)
          PROVE  \A u \in Workers : \A c \in batch'[u] : DocKind[DocOf[c.job]] = JobKind[c.job]
      <3>1. PICK S \in SUBSET {j \in Jobs : Claimable(j)} :
               batch' = [batch EXCEPT ![w] = {ClaimOf(j) : j \in {i \in S : InputCurrent(i)}}]
        BY <2>1 DEF ClaimJobs
      <3>2. ASSUME NEW j \in S, InputCurrent(j)
            PROVE  DocKind[DocOf[ClaimOf(j).job]] = JobKind[ClaimOf(j).job]
        BY <3>2 DEF InputCurrent, ClaimOf
      <3>. QED  BY <3>1, <3>2 DEF KindInv, LeaseInv, TypeOK
    <2>. QED  BY <2>1, BatchShrinks DEF KindInv, LeaseInv
  <1>2. ASSUME NEW j \in Jobs, rows'[j].status = "completed"
        PROVE  DocKind[DocOf[j]] = JobKind[j]
    <2>1. CASE rows[j].status = "completed"
      BY <2>1 DEF KindInv
    <2>2. CASE rows[j].status # "completed"
      <3>1. PICK w \in Workers : \E c \in written[w] : c.job = j
        BY <1>2, <2>2, OnlyCommitsComplete
      <3>. QED  BY <3>1 DEF KindInv, LeaseInv, WithinBatch
    <2>. QED  BY <2>1, <2>2
  <1>. QED  BY <1>1, <1>2 DEF KindInv

\* The queue keeps its invariant while repair commands run.
LEMMA RepairInvStep == ASSUME RepairInv, [RepairNext]_rvars PROVE RepairInv'
  <1>1. CASE [Next]_vars
    BY <1>1, LeaseStep, BudgetStep, VectorStep, KindStep DEF RepairInv
  <1>2. CASE Repair
    <2>1. /\ UNCHANGED <<docs, embeddings, kindVectors, control, tx>>
          /\ \A j \in Jobs : RepairStep(j)
      BY <1>2, RepairSteps DEF RepairInv
    <2>2. LeaseInv'
      BY <1>2, RepairLease DEF RepairInv
    <2>3. \A j \in Jobs : /\ rows'[j].fence = rows[j].fence /\ rows'[j].attempts = rows[j].attempts
                          /\ \/ rows'[j] = rows[j]
                             \/ rows'[j].status = "pending" /\ rows[j].attempts < MaxAttempts
                             \/ rows'[j].status = "cancelled"
      BY <2>1, RepairedRow DEF RepairInv
    <2>4. AttemptBudget'
      BY <2>3 DEF RepairInv, AttemptBudget
    <2>5. VectorInv'
      BY <2>1, <2>3 DEF RepairInv, VectorInv
    <2>6. KindInv'
      BY <2>1, <2>3 DEF RepairInv, KindInv, control
    <2>. QED  BY <2>2, <2>4, <2>5, <2>6 DEF RepairInv
  <1>. QED  BY <1>1, <1>2 DEF RepairNext, rvars

\* The invariant of the queue holds although repair commands are run against it.
THEOREM RepairInvariant == RepairSpec => []RepairInv
  <1>1. RepairInit => RepairInv
    BY Counters, BoundAssumption DEF RepairInit, Init, RepairInv, LeaseInv, TypeOK, Rows, Statuses, PCs,
       WithinBatch, Storing, ClaimsMinted, ClaimsUnique, WrittenStillLeased, AttemptBudget,
       VectorInv, KindInv
  <1>2. RepairInv /\ [RepairNext]_rvars => RepairInv'
    BY RepairInvStep
  <1>. QED  BY <1>1, <1>2, PTL DEF RepairSpec

\* Whatever repair commands are run, the queue keeps its promises: exclusive leases,
\* completions under the lease, a vector for every completed job, the retry budget.
THEOREM RepairedQueueIsSafe == RepairSpec => []QueueSafe
  <1>1. RepairInv => QueueSafe
    BY DEF RepairInv, LeaseInv, VectorInv, QueueSafe, LeaseExclusive, ClaimsUnique, Owns,
       CompletedHasVector
  <1>. QED  BY <1>1, RepairInvariant, PTL

\* No repair command pulls a row away from an open completion transaction.
THEOREM CompletionUnderRepair == RepairSpec => []WrittenStillLeased
  <1>1. RepairInv => WrittenStillLeased
    BY DEF RepairInv, LeaseInv
  <1>. QED  BY <1>1, RepairInvariant, PTL

\* Repairs reopen only completed jobs whose vector search lacks, and revive nothing
\* that was cancelled; nor does any worker, recovery or document do either.
THEOREM RepairsReopenRightly == RepairSpec => ReopenedRightly
  <1>1. ASSUME RepairInv, [RepairNext]_rvars, NEW j \in Jobs
        PROVE  /\ rows[j].status = "completed" /\ rows'[j].status = "pending"
                    => ~VectorCurrent(j) /\ InputCurrent(j)
               /\ rows[j].status = "cancelled" => rows'[j].status = "cancelled"
    <2>1. CASE [Next]_vars
      <3>1. RowStep(j)
        BY <1>1, <2>1, RowSteps DEF RepairInv
      <3>. QED  BY <3>1 DEF RowStep, Claimable
    <2>2. CASE Repair
      <3>0. rows[j] \in Rows /\ "cancelled" \in Statuses
        BY <1>1 DEF RepairInv, LeaseInv, TypeOK, Statuses, Terminal
      <3>1. RepairStep(j)
        BY <1>1, <2>2, RepairSteps DEF RepairInv
      <3>2. Released(rows[j], "cancelled").status = "cancelled"
        BY <3>0, ReleasedRow
      <3>3. rows[j].status = "completed" => DocKind[DocOf[j]] = JobKind[j]
        BY <1>1 DEF RepairInv, KindInv
      <3>. QED  BY <3>1, <3>2, <3>3 DEF RepairStep, Stale, Expired, Retryable, Reconcilable, InputCurrent
    <2>. QED  BY <1>1, <2>1, <2>2 DEF RepairNext, rvars
  <1>2. RepairInv /\ [RepairNext]_rvars =>
          /\ [\A j \in Jobs : rows[j].status = "completed" /\ rows'[j].status = "pending"
                => ~VectorCurrent(j) /\ InputCurrent(j)]_rvars
          /\ [\A j \in Jobs : rows[j].status = "cancelled" => rows'[j].status = "cancelled"]_rvars
    BY <1>1
  <1>. QED
    BY <1>2, RepairInvariant, PTL DEF RepairSpec, ReopenedRightly, OnlyMissingReopened, CancelledForGood

\* Reopened jobs publish only fresh vectors, when deleted document ids are not reused.
THEOREM VectorsFreshUnderRepair == ~Reinsertion /\ RepairSpec => FreshVectorWrites
  <1>. SUFFICES ASSUME ~Reinsertion
                PROVE  RepairSpec => FreshVectorWrites
    OBVIOUS
  <1>1. RepairInit => SourceInv
    BY DEF RepairInit, Init, SourceInv
  <1>2. RepairInv /\ SourceInv /\ [RepairNext]_rvars => SourceInv'
    <2>. SUFFICES ASSUME RepairInv, SourceInv, [RepairNext]_rvars
                  PROVE  SourceInv'
      OBVIOUS
    <2>1. CASE [Next]_vars
      BY <2>1, SourceStep DEF RepairInv
    <2>2. CASE Repair
      <3>1. UNCHANGED <<docs, guard, locked, written>>
        BY <2>2, RepairSteps DEF RepairInv, tx
      <3>. QED  BY <3>1 DEF SourceInv, InputCurrent, DocOfClaim
    <2>. QED  BY <2>1, <2>2 DEF RepairNext, rvars
  <1>3. RepairInv /\ SourceInv /\ [RepairNext]_rvars =>
           [\A d \in Docs : embeddings'[d] # embeddings[d] =>
              /\ docs[d].status = "active"
              /\ embeddings'[d].of = docs[d].text
              /\ embeddings'[d].sha = docs[d].sha]_vars
    <2>. SUFFICES ASSUME RepairInv, SourceInv, [RepairNext]_rvars, NEW d \in Docs,
                         embeddings'[d] # embeddings[d]
                  PROVE  /\ docs[d].status = "active"
                         /\ embeddings'[d].of = docs[d].text
                         /\ embeddings'[d].sha = docs[d].sha
      OBVIOUS
    <2>1. CASE [Next]_vars
      BY <2>1, FreshStep DEF RepairInv
    <2>2. CASE Repair
      BY <2>2, RepairSteps DEF RepairInv
    <2>. QED  BY <2>1, <2>2 DEF RepairNext, rvars
  <1>. QED  BY <1>1, <1>2, <1>3, RepairInvariant, PTL DEF RepairSpec, FreshVectorWrites

====
