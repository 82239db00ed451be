---- MODULE EmbeddingJobs ----
(***************************************************************************)
(* The embedding job queue and its worker pool                             *)
(* (atheros-search/internal/worker).  The rows of embedding_jobs are leased *)
(* in batches, embedded one kind group at a time, and completed in the      *)
(* transaction that writes their vectors.  A lease is a token and a fence;  *)
(* every later statement about the row is conditional on both and on the    *)
(* lease being unexpired.  Any number of pool workers, the lease recovery   *)
(* loop, the lease renewers and Octopus, the service that owns              *)
(* search_documents, interleave.                                            *)
(*                                                                          *)
(* One action is one database transaction or statement, except that the     *)
(* completion transaction, which holds locks across several statements, is  *)
(* split at the points where it can wait or be overtaken.                   *)
(***************************************************************************)
EXTENDS Integers, FiniteSets

CONSTANTS
    Jobs,         \* rows of embedding_jobs for one model and input revision
    Docs,         \* document ids
    Workers,      \* goroutines running runWorker, of one or several pools
    Contents,     \* document texts; a text also stands for its own checksum
    Kinds,        \* embedding kinds
    DocOf,        \* document_id of a job
    ContentOf,    \* content_sha256 of a job
    JobKind,      \* embedding_kind of a job
    DocKind,      \* embeddingKindForSource of a document's source kind
    MaxAttempts,  \* max_attempts of a job
    LeaseTicks,   \* LeaseSeconds, in ticks of the database clock
    BatchSize,    \* rows one claim or one recovery statement may touch
    MaxFence,     \* bound: how often one job is claimed in a behaviour
    Scoped,       \* is SourceKinds set (every present document is in scope)
    Reinsertion,  \* may Octopus insert a document id again after deleting it
    NoVector      \* no row in a vector table

Vectors == [sha : Contents, of : Contents]

ASSUME JobAssumption ==
    /\ DocOf \in [Jobs -> Docs] /\ ContentOf \in [Jobs -> Contents]
    /\ JobKind \in [Jobs -> Kinds] /\ DocKind \in [Docs -> Kinds]

ASSUME BoundAssumption ==
    /\ MaxAttempts \in Nat \ {0} /\ LeaseTicks \in Nat \ {0}
    /\ BatchSize \in Nat \ {0} /\ MaxFence \in Nat
    /\ Scoped \in BOOLEAN /\ Reinsertion \in BOOLEAN
    /\ NoVector \notin Vectors

VARIABLES
    rows,         \* embedding_jobs: status, fence, token, remaining lease, attempts
    docs,         \* search_documents: status, text and stored checksum
    embeddings,   \* the embeddings table, one row per document
    kindVectors,  \* the search_vectors_<kind> table of the document's kind
    pc,           \* where processBatch of a worker stands
    batch,        \* claims of the running batch (what its renewer renews)
    todo,         \* claims of the kind groups not started yet
    cur,          \* claims of the kind group in hand
    settle,       \* claims about to be failed or deferred, one by one
    scope,        \* open completion transaction: claims not looked at yet
    guard,        \* the claim whose source lock statement has run
    locked,       \* documents whose source advisory lock it holds
    written       \* claims whose vector and completion it has written

tables  == <<rows, docs, embeddings, kindVectors>>
control == <<pc, batch, todo, cur, settle>>
tx      == <<scope, guard, locked, written>>
vars    == <<tables, control, tx>>

----------------------------------------------------------------------------

Terminal == {"completed", "failed", "cancelled"}
Statuses == {"pending", "leased"} \union Terminal

Fences   == 0..MaxFence
Grants   == 1..MaxFence
Ticks    == 0..LeaseTicks
Attempts == 0..MaxAttempts

Rows == [status : Statuses, fence : Fences, token : Fences,
         ttl : Ticks, attempts : Attempts]

Documents == [status : {"active", "inactive", "missing"},
              text : Contents, sha : Contents]

\* What a worker keeps of a claimed row.  A lease token is a fresh UUID per
\* claim, numbered here by the fence minted with it; 0 is NULL.
Claims == [job : Jobs, fence : Grants, token : Grants, text : Contents]

DocOfClaim(c) == DocOf[c.job]

\* The document still is what the job was created for: active, its checksum is
\* the job's, its text hashes to that checksum, and its source kind maps to the
\* job's kind.
InputCurrent(j) ==
    LET d == docs[DocOf[j]]
    IN  /\ d.status = "active"
        /\ d.sha = ContentOf[j]
        /\ d.text = d.sha
        /\ DocKind[DocOf[j]] = JobKind[j]

\* The WHERE clause of every statement about a claimed row.
Owns(c) ==
    LET r == rows[c.job]
    IN  r.status = "leased" /\ r.token = c.token /\ r.fence = c.fence /\ r.ttl > 0

\* A completion transaction has locked and rewritten the row.
RowLocked(j) == \E w \in Workers : \E c \in written[w] : c.job = j

SourceLockedBy(d, w) == d \in locked[w]
SourceFree(d) == \A w \in Workers : ~SourceLockedBy(d, w)

\* Row images, one for each UPDATE of the queue.  Definitions marked "wrong" here
\* and below are defects seeded to show that a property can fail; no action uses
\* them.

\* Wrong: a claim counts its attempt twice.
LeasedCountedTwice(r) ==
    [r EXCEPT !.status = "leased", !.fence = @ + 1, !.token = r.fence + 1,
              !.ttl = LeaseTicks, !.attempts = @ + 2]
\* Wrong: a second claim of a row reuses the token and fence of the first.
LeasedSameFence(r) ==
    [r EXCEPT !.status = "leased", !.fence = 1, !.token = 1,
              !.ttl = LeaseTicks, !.attempts = @ + 1]
Leased(r) == [r EXCEPT !.status = "leased", !.fence = @ + 1, !.token = r.fence + 1,
                       !.ttl = LeaseTicks, !.attempts = @ + 1]
Released(r, status) == [r EXCEPT !.status = status, !.token = 0, !.ttl = 0]
FailedOrRetried(r) ==
    Released(r, IF r.attempts >= MaxAttempts THEN "failed" ELSE "pending")
Deferred(r) ==
    [Released(r, "pending") EXCEPT !.attempts = IF @ > 0 THEN @ - 1 ELSE 0]

----------------------------------------------------------------------------

Init ==
    /\ rows = [j \in Jobs |-> [status |-> "pending", fence |-> 0, token |-> 0,
                               ttl |-> 0, attempts |-> 0]]
    /\ docs \in [Docs -> {d \in Documents : d.text = d.sha}]
    /\ embeddings = [d \in Docs |-> NoVector]
    /\ kindVectors = [d \in Docs |-> NoVector]
    /\ pc = [w \in Workers |-> "idle"]
    /\ batch = [w \in Workers |-> {}]
    /\ todo = [w \in Workers |-> {}]
    /\ cur = [w \in Workers |-> {}]
    /\ settle = [w \in Workers |-> {}]
    /\ scope = [w \in Workers |-> {}]
    /\ guard = [w \in Workers |-> {}]
    /\ locked = [w \in Workers |-> {}]
    /\ written = [w \in Workers |-> {}]

----------------------------------------------------------------------------
(* Claiming                                                                 *)

\* A source kind filter needs the document row to exist.
InScope(j) == Scoped => docs[DocOf[j]].status # "missing"

\* Wrong: only rows whose document still exists are claimed, so nobody cancels
\* the others.
ClaimableWithDocument(j) ==
    /\ rows[j].status = "pending"
    /\ rows[j].attempts < MaxAttempts
    /\ docs[DocOf[j]].status # "missing"
    /\ rows[j].fence < MaxFence

Claimable(j) ==
    /\ rows[j].status = "pending"
    /\ rows[j].attempts < MaxAttempts
    /\ InScope(j)
    /\ rows[j].fence < MaxFence

\* The claim transaction: any due rows (when a row is due, and which rows
\* SKIP LOCKED passes over, is left open) are leased, and those whose document
\* is missing, not active or changed are cancelled in the same transaction.
ClaimedRow(j) ==
    IF InputCurrent(j) THEN Leased(rows[j]) ELSE Released(Leased(rows[j]), "cancelled")

\* What RETURNING and the document query give the worker.
ClaimOf(j) == [job |-> j, fence |-> Leased(rows[j]).fence,
               token |-> Leased(rows[j]).token, text |-> docs[DocOf[j]].text]

ClaimJobs(w) ==
    /\ pc[w] = "idle"
    /\ \E S \in SUBSET {j \in Jobs : Claimable(j)} :
         /\ S # {} /\ Cardinality(S) <= BatchSize
         /\ LET claims == {ClaimOf(j) : j \in {i \in S : InputCurrent(i)}}
            IN  /\ rows' = [j \in Jobs |-> IF j \in S THEN ClaimedRow(j) ELSE rows[j]]
                /\ batch' = [batch EXCEPT ![w] = claims]
                /\ todo' = [todo EXCEPT ![w] = claims]
                /\ pc' = [pc EXCEPT ![w] = IF claims = {} THEN "idle" ELSE "next"]
    /\ UNCHANGED <<docs, embeddings, kindVectors, cur, settle, tx>>

----------------------------------------------------------------------------
(* The batch: one kind group after the other                                *)

\* processBatch takes the next kind group.
StartGroup(w) ==
    /\ pc[w] = "next" /\ cur[w] = {}
    /\ \E k \in {JobKind[c.job] : c \in todo[w]} :
         LET group == {c \in todo[w] : JobKind[c.job] = k}
         IN  /\ cur' = [cur EXCEPT ![w] = group]
             /\ todo' = [todo EXCEPT ![w] = @ \ group]
    /\ pc' = [pc EXCEPT ![w] = "embed"]
    /\ UNCHANGED <<tables, batch, settle, tx>>

\* No group is left: processBatch returns and its renewer is cancelled.
FinishBatch(w) ==
    /\ pc[w] = "next" /\ cur[w] = {} /\ todo[w] = {}
    /\ pc' = [pc EXCEPT ![w] = "idle"]
    /\ batch' = [batch EXCEPT ![w] = {}]
    /\ UNCHANGED <<tables, todo, cur, settle, tx>>

\* The backend rejects one input as oversized: its job fails for good (unless
\* the lease or the database is lost) and the rest of the group is tried again.
EmbedOversized(w) ==
    /\ pc[w] = "embed"
    /\ \E c \in cur[w] :
         /\ \/ Owns(c) /\ rows' = [rows EXCEPT ![c.job] = Released(@, "failed")]
            \/ UNCHANGED rows
         /\ cur' = [cur EXCEPT ![w] = @ \ {c}]
         /\ pc' = [pc EXCEPT ![w] = IF cur[w] = {c} THEN "next" ELSE "embed"]
    /\ UNCHANGED <<docs, embeddings, kindVectors, batch, todo, settle, tx>>

\* The backend is unavailable: this group and all later ones are deferred.
EmbedUnavailable(w) ==
    /\ pc[w] = "embed"
    /\ pc' = [pc EXCEPT ![w] = "defer"]
    /\ settle' = [settle EXCEPT ![w] = todo[w] \union cur[w]]
    /\ todo' = [todo EXCEPT ![w] = {}]
    /\ cur' = [cur EXCEPT ![w] = {}]
    /\ UNCHANGED <<tables, batch, tx>>

\* Any other embedding error, or a wrong number of vectors: the group fails.
EmbedFailed(w) ==
    /\ pc[w] = "embed"
    /\ pc' = [pc EXCEPT ![w] = "fail"]
    /\ settle' = [settle EXCEPT ![w] = cur[w]]
    /\ cur' = [cur EXCEPT ![w] = {}]
    /\ UNCHANGED <<tables, batch, todo, tx>>

\* One vector per text: the group's completion transaction begins.
EmbedOk(w) ==
    /\ pc[w] = "embed"
    /\ pc' = [pc EXCEPT ![w] = "store"]
    /\ scope' = [scope EXCEPT ![w] = cur[w]]
    /\ UNCHANGED <<tables, batch, todo, cur, settle, guard, locked, written>>

\* deferClaimedJobs, one job: back to pending with its attempt given back, or
\* nothing when the lease is lost or the database fails.
DeferOne(w) ==
    /\ pc[w] = "defer"
    /\ \E c \in settle[w] :
         /\ \/ Owns(c) /\ rows' = [rows EXCEPT ![c.job] = Deferred(@)]
            \/ UNCHANGED rows
         /\ settle' = [settle EXCEPT ![w] = @ \ {c}]
         /\ pc' = [pc EXCEPT ![w] = IF settle[w] = {c} THEN "idle" ELSE "defer"]
         /\ batch' = [batch EXCEPT ![w] = IF settle[w] = {c} THEN {} ELSE @]
    /\ UNCHANGED <<docs, embeddings, kindVectors, todo, cur, tx>>

\* failJob on a row the claim owns.
FailJob(c) ==
    /\ Owns(c)
    /\ rows' = [rows EXCEPT ![c.job] = FailedOrRetried(@)]

\* failClaimedJob, one job: failJob, or nothing when it errs.
FailOne(w) ==
    /\ pc[w] = "fail"
    /\ \E c \in settle[w] :
         /\ FailJob(c) \/ UNCHANGED rows
         /\ settle' = [settle EXCEPT ![w] = @ \ {c}]
         /\ pc' = [pc EXCEPT ![w] = IF settle[w] = {c} THEN "next" ELSE "fail"]
    /\ UNCHANGED <<docs, embeddings, kindVectors, batch, todo, cur, tx>>

----------------------------------------------------------------------------
(* The completion transaction                                               *)

\* The per-job fallback: a transaction of its own for one claim of the group
\* whose batched transaction failed.
BeginOne(w) ==
    /\ pc[w] = "next"
    /\ \E c \in cur[w] :
         /\ cur' = [cur EXCEPT ![w] = @ \ {c}]
         /\ scope' = [scope EXCEPT ![w] = {c}]
    /\ pc' = [pc EXCEPT ![w] = "one"]
    /\ UNCHANGED <<tables, batch, todo, settle, guard, locked, written>>

Storing(w) == pc[w] \in {"store", "one"}

\* Wrong: the document is only read, not locked.
NoLocks(d) == {}

\* guardCompletion, first statement.  The advisory lock is taken by selecting
\* it from the document row, so a missing row locks nothing.
LocksTaken(d) == IF docs[d].status = "missing" THEN {} ELSE {d}

LockSource(w) ==
    /\ Storing(w) /\ guard[w] = {}
    /\ \E c \in scope[w] :
         LET d == DocOfClaim(c)
         IN  /\ \A u \in Workers \ {w} : LocksTaken(d) \intersect locked[u] = {}
             /\ locked' = [locked EXCEPT ![w] = @ \union LocksTaken(d)]
             /\ guard' = [guard EXCEPT ![w] = {c}]
             /\ scope' = [scope EXCEPT ![w] = @ \ {c}]
    /\ UNCHANGED <<tables, control, written>>

\* The rest of guardCompletion (document current, row owned and locked), then
\* insertVector and completeJob.
WriteCompletion(w) ==
    /\ Storing(w)
    /\ \E c \in guard[w] :
         /\ InputCurrent(c.job) /\ Owns(c)
         /\ written' = [written EXCEPT ![w] = @ \union {c}]
    /\ guard' = [guard EXCEPT ![w] = {}]
    /\ UNCHANGED <<tables, control, scope, locked>>

EndTx(w) ==
    /\ scope' = [scope EXCEPT ![w] = {}]
    /\ guard' = [guard EXCEPT ![w] = {}]
    /\ locked' = [locked EXCEPT ![w] = {}]
    /\ written' = [written EXCEPT ![w] = {}]

\* insertVector writes the same vector to both tables, with the job's checksum.
VectorOf(c) == [sha |-> ContentOf[c.job], of |-> c.text]

InsertVectors(table, S) ==
    [d \in Docs |-> IF \E c \in S : DocOfClaim(c) = d
                    THEN VectorOf(CHOOSE c \in S : DocOfClaim(c) = d)
                    ELSE table[d]]

\* What the commit of the completions of S makes visible.
ApplyCompletions(S) ==
    /\ rows' = [j \in Jobs |-> IF \E c \in S : c.job = j
                               THEN Released(rows[j], "completed") ELSE rows[j]]
    /\ embeddings' = InsertVectors(embeddings, S)
    /\ kindVectors' = InsertVectors(kindVectors, S)
    /\ UNCHANGED docs

\* The transaction returns an error: a batched one leaves the group to the
\* fallback, a single one fails its job.
StoreFailed(w) ==
    /\ EndTx(w)
    /\ \/ /\ pc[w] = "store" /\ pc' = [pc EXCEPT ![w] = "next"]
          /\ UNCHANGED settle
       \/ /\ pc[w] = "one" /\ pc' = [pc EXCEPT ![w] = "fail"]
          /\ settle' = [settle EXCEPT ![w] = scope[w] \union guard[w] \union written[w]]
    /\ UNCHANGED <<batch, todo, cur>>

AllWritten(w) == Storing(w) /\ scope[w] = {} /\ guard[w] = {}

CommitStore(w) ==
    /\ AllWritten(w)
    /\ ApplyCompletions(written[w])
    /\ EndTx(w)
    /\ pc' = [pc EXCEPT ![w] = "next"]
    /\ cur' = [cur EXCEPT ![w] = IF pc[w] = "store" THEN {} ELSE @]
    /\ UNCHANGED <<batch, todo, settle>>

\* The commit takes effect but its answer is lost: the worker sees an error.
CommitUnacknowledged(w) ==
    /\ AllWritten(w)
    /\ ApplyCompletions(written[w])
    /\ StoreFailed(w)

\* A failed check, a database error or a deadlock victim: rollback.
AbortStore(w) ==
    /\ Storing(w)
    /\ StoreFailed(w)
    /\ UNCHANGED tables

\* The process dies or shuts down: the open transaction rolls back, leases stay.
Crash(w) ==
    /\ pc[w] # "idle"
    /\ pc' = [pc EXCEPT ![w] = "idle"]
    /\ batch' = [batch EXCEPT ![w] = {}]
    /\ todo' = [todo EXCEPT ![w] = {}]
    /\ cur' = [cur EXCEPT ![w] = {}]
    /\ settle' = [settle EXCEPT ![w] = {}]
    /\ EndTx(w)
    /\ UNCHANGED tables

----------------------------------------------------------------------------
(* Lease renewal, time and recovery                                         *)

\* renewLeases, one job of the running batch; it waits for a locked row.
Renew(w) ==
    /\ \E c \in batch[w] :
         /\ Owns(c) /\ ~RowLocked(c.job)
         /\ rows' = [rows EXCEPT ![c.job].ttl = LeaseTicks]
    /\ UNCHANGED <<docs, embeddings, kindVectors, control, tx>>

\* A lease gets one tick older; the ticks of different leases interleave.
Tick(j) ==
    /\ rows[j].status = "leased" /\ rows[j].ttl > 0
    /\ rows' = [rows EXCEPT ![j].ttl = @ - 1]
    /\ UNCHANGED <<docs, embeddings, kindVectors, control, tx>>

Expired(j) == rows[j].status = "leased" /\ rows[j].ttl = 0

\* Wrong: recovery does not skip locked rows.
RecoverableLocked(j) == Expired(j) /\ InScope(j)
\* Wrong: recovery leaves out rows whose attempts are used up.
RecoverableBelowLimit(j) ==
    Expired(j) /\ ~RowLocked(j) /\ InScope(j) /\ rows[j].attempts < MaxAttempts

\* recoverExpiredLeases skips locked rows and is bounded by the batch size.
Recoverable(j) == Expired(j) /\ ~RowLocked(j) /\ InScope(j)

Recover ==
    /\ \E S \in SUBSET {j \in Jobs : Recoverable(j)} :
         /\ S # {} /\ Cardinality(S) <= BatchSize
         /\ \/ Cardinality(S) = BatchSize
            \/ S = {j \in Jobs : Recoverable(j)}
         /\ rows' = [j \in Jobs |-> IF j \in S THEN FailedOrRetried(rows[j]) ELSE rows[j]]
    /\ UNCHANGED <<docs, embeddings, kindVectors, control, tx>>

----------------------------------------------------------------------------
(* Octopus, the owner of search_documents: it holds the source advisory     *)
(* lock while it changes a document.                                        *)

\* The text changes in place, or a document is activated again.  The stored
\* checksum need not be that of the text: the worker checks it.
UpdateDoc(d) ==
    /\ docs[d].status # "missing" /\ SourceFree(d)
    /\ \E t, s \in Contents :
         docs' = [docs EXCEPT ![d] = [status |-> "active", text |-> t, sha |-> s]]
    /\ UNCHANGED <<rows, embeddings, kindVectors, control, tx>>

\* A document is superseded, and its open jobs are cancelled with it.
Supersede(d) ==
    /\ docs[d].status = "active" /\ SourceFree(d)
    /\ \A j \in Jobs : DocOf[j] = d => ~RowLocked(j)
    /\ docs' = [docs EXCEPT ![d].status = "inactive"]
    /\ rows' = [j \in Jobs |-> IF DocOf[j] = d /\ rows[j].status \in {"pending", "leased"}
                               THEN Released(rows[j], "cancelled") ELSE rows[j]]
    /\ UNCHANGED <<embeddings, kindVectors, control, tx>>

DeleteDoc(d) ==
    /\ docs[d].status # "missing" /\ SourceFree(d)
    /\ docs' = [docs EXCEPT ![d].status = "missing"]
    /\ UNCHANGED <<rows, embeddings, kindVectors, control, tx>>

InsertDoc(d) ==
    /\ Reinsertion
    /\ docs[d].status = "missing" /\ SourceFree(d)
    /\ \E t \in Contents :
         docs' = [docs EXCEPT ![d] = [status |-> "active", text |-> t, sha |-> t]]
    /\ UNCHANGED <<rows, embeddings, kindVectors, control, tx>>

----------------------------------------------------------------------------

\* A step of processBatch once a batch is claimed.
BatchStep(w) ==
    \/ StartGroup(w) \/ FinishBatch(w)
    \/ EmbedOversized(w) \/ EmbedUnavailable(w) \/ EmbedFailed(w) \/ EmbedOk(w)
    \/ DeferOne(w) \/ FailOne(w)
    \/ BeginOne(w) \/ LockSource(w) \/ WriteCompletion(w)
    \/ CommitStore(w) \/ CommitUnacknowledged(w) \/ AbortStore(w)

Octopus(d) == UpdateDoc(d) \/ Supersede(d) \/ DeleteDoc(d) \/ InsertDoc(d)

Next ==
    \/ \E w \in Workers : ClaimJobs(w) \/ BatchStep(w) \/ Renew(w) \/ Crash(w)
    \/ \E j \in Jobs : Tick(j)
    \/ Recover
    \/ \E d \in Docs : Octopus(d)

Spec == Init /\ [][Next]_vars

\* Statements return, the clock advances and the recovery ticker fires; polling
\* for new work is not assumed.
Fairness ==
    /\ \A w \in Workers : WF_vars(BatchStep(w))
    /\ \A j \in Jobs : WF_vars(Tick(j))
    /\ WF_vars(Recover)

FairSpec == Spec /\ Fairness

\* The poll tickers fire and the claim gate opens, too.
PollingSpec == FairSpec /\ \A w \in Workers : WF_vars(ClaimJobs(w))

----------------------------------------------------------------------------

PCs == {"idle", "next", "embed", "fail", "defer", "store", "one"}

\* Every variable has its type (the rows of embedding_jobs, the documents, the
\* vector tables, and the local state of the workers).
TypeOK ==
    /\ rows \in [Jobs -> Rows]
    /\ docs \in [Docs -> Documents]
    /\ embeddings \in [Docs -> Vectors \union {NoVector}]
    /\ kindVectors \in [Docs -> Vectors \union {NoVector}]
    /\ pc \in [Workers -> PCs]
    /\ batch \in [Workers -> SUBSET Claims]
    /\ todo \in [Workers -> SUBSET Claims]
    /\ cur \in [Workers -> SUBSET Claims]
    /\ settle \in [Workers -> SUBSET Claims]
    /\ scope \in [Workers -> SUBSET Claims]
    /\ guard \in [Workers -> SUBSET Claims]
    /\ locked \in [Workers -> SUBSET Docs]
    /\ written \in [Workers -> SUBSET Claims]

\* However leases expire, are renewed, recovered and granted again, two workers
\* never both hold a claim that the conditional statements of lease.go accept
\* for the same job.
LeaseExclusive ==
    \A u, w \in Workers : \A b \in batch[u], c \in batch[w] :
        b.job = c.job /\ Owns(b) /\ Owns(c) => u = w

\* The retry budget: a job waits for another attempt only while it has one left,
\* and a running one has used at least one and at most max_attempts (claims add
\* one, deferral gives it back, failure and expiry keep it).
AttemptBudget ==
    \A j \in Jobs :
        /\ rows[j].status = "pending" => rows[j].attempts < MaxAttempts
        /\ rows[j].status = "leased" => rows[j].attempts \in 1..MaxAttempts
        /\ rows[j].attempts <= rows[j].fence

\* A completed job has left its vector in both tables, and they agree.
CompletedHasVector ==
    \A j \in Jobs : rows[j].status = "completed" =>
        /\ embeddings[DocOf[j]] # NoVector
        /\ embeddings[DocOf[j]] = kindVectors[DocOf[j]]

\* A completion is never applied to a row that meanwhile left the lease it was
\* written under: when the transaction commits, every row it rewrites still
\* carries that lease, although the lease time may have run out since.
WrittenStillLeased ==
    \A w \in Workers : \A c \in written[w] :
        /\ rows[c.job].status = "leased"
        /\ rows[c.job].fence = c.fence

\* What the queue keeps through crashes, expired leases and overlapping batches: one
\* owner per job, completions only under the lease they were written in, a vector in
\* both tables for every completed job, and no more attempts than allowed.
QueueSafe == LeaseExclusive /\ WrittenStillLeased /\ CompletedHasVector /\ AttemptBudget

\* A vector that becomes visible describes the document as it is at that moment:
\* active, and with the text the vector was computed from.  The text was read
\* when the job was claimed, long before (guardCompletion, scope.go).
FreshVectorWrites ==
    [][\A d \in Docs : embeddings'[d] # embeddings[d] =>
          /\ docs[d].status = "active"
          /\ embeddings'[d].of = docs[d].text
          /\ embeddings'[d].sha = docs[d].sha]_vars

\* Completed, failed and cancelled rows never change again: neither a late
\* worker, nor the recovery loop, nor a superseding document touches them.
TerminalStable ==
    [][\A j \in Jobs : rows[j].status \in Terminal => rows'[j] = rows[j]]_vars

\* A lease always ends: by completion, failure, deferral, cancellation or, when
\* its worker died or lost the database, by expiry and recovery.
LeaseReleased ==
    \A j \in Jobs : rows[j].status = "leased" ~> rows[j].status # "leased"

\* A job whose document is gone does not wait for ever: a claim cancels it (the
\* comments of claimJobs and cancelOrphanedJobs), unless the document returns.
\* The claims of one behaviour are bounded by MaxFence, hence the third conjunct.
Orphaned(j) ==
    /\ rows[j].status = "pending"
    /\ docs[DocOf[j]].status = "missing"
    /\ rows[j].fence < MaxFence

OrphanRetired == \A j \in Jobs : Orphaned(j) ~> ~Orphaned(j)

----------------------------------------------------------------------------
(* The abstract specification                                               *)

\* The text a vector row stands for.
ShaIn(v) == IF v = NoVector THEN NoVector ELSE v.sha

Ledger == INSTANCE JobLedger WITH
    None <- NoVector,
    status <- [j \in Jobs |-> rows[j].status],
    published <- [d \in Docs |-> ShaIn(embeddings[d])],
    byKind <- [d \in Docs |-> ShaIn(kindVectors[d])]

\* Leases, fallbacks, crashes and lost commit answers are invisible from outside:
\* a job finishes once, and its vector appears in both tables exactly then.
ImplementsLedger == Ledger!Spec

====
