---- MODULE ProxyCampaign ----
(***************************************************************************)
(* Scoped repair campaigns (atheros-search/internal/app/repair/scoped.go):  *)
(* operators page through the proxy jobs created before a cutoff, in job id *)
(* order, and reopen those that completed without a vector, or one failed   *)
(* job they have reviewed.  A page is one transaction.  It locks the        *)
(* campaign's progress row, then the queue, and writes its reopenings, the  *)
(* receipts and the cursor together.  Definitions marked "wrong" are seeded *)
(* defects no action uses.                                                  *)
(***************************************************************************)
EXTENDS Integers, FiniteSets, FiniteSetsExt

CONSTANTS
    Operators,    \* concurrent invocations of proxy-reconcile -apply
    Campaigns,    \* campaign ids, each with its frozen scope
    Reviewed,     \* the failed job a campaign is about, 0 for a missing-vector one
    ReviewedAt,   \* attempts of the reviewed failure; they stand for its updated_at
    Reserve,      \* queue-reserve of a campaign
    LastJob,      \* jobs are 1..LastJob in job id order
    Cutoff,       \* jobs above it are created after created-before
    PageLimit,    \* -limit
    HighWater,    \* pending_high_water of the queue policy
    MaxAttempts,  \* max_attempts of a job
    LossyJobs     \* jobs whose vector may get lost again (their text was replaced and came back)

Jobs == 1..LastJob

ASSUME CampaignAssumption ==
    /\ LastJob \in Nat /\ Cutoff \in 0..LastJob
    /\ PageLimit \in Nat \ {0} /\ HighWater \in Nat /\ MaxAttempts \in Nat \ {0}
    /\ ReviewedAt \in Nat
    /\ Reviewed \in [Campaigns -> 0..LastJob] /\ Reserve \in [Campaigns -> Nat]
    /\ LossyJobs \subseteq Jobs

VARIABLES
    status,    \* of each job; open is pending or leased, healthy and missing are completed
    attempts,  \* attempt_count
    cursor,    \* after_job_id of each campaign, 0 when NULL
    receipts,  \* receipts a campaign has written for each job
    pc,        \* where an invocation stands
    campaign,  \* the campaign of its page
    page,      \* the job ids its page has scanned
    ids,       \* those found eligible and not yet looked at again
    reopened   \* rows it has locked and rewritten

queue == <<status, attempts>>
local == <<pc, campaign, page, ids, reopened>>
vars  == <<queue, cursor, receipts, local>>

States == {"absent", "open", "healthy", "missing", "failed", "cancelled"}

Init ==
    /\ status \in [Jobs -> States \ {"cancelled"}]
    /\ \A j \in Jobs : status[j] = "absent" <=> j > Cutoff
    /\ attempts \in [Jobs -> {0, 1}]
    /\ \A j \in Jobs : status[j] # "open" => attempts[j] = 1
    /\ Cardinality({j \in Jobs : status[j] = "open"}) <= HighWater
    /\ cursor = [c \in Campaigns |-> 0]
    /\ receipts = [c \in Campaigns |-> [j \in Jobs |-> 0]]
    /\ pc = [o \in Operators |-> "idle"]
    /\ campaign = [o \in Operators |-> "none"]
    /\ page = [o \in Operators |-> {}]
    /\ ids = [o \in Operators |-> {}]
    /\ reopened = [o \in Operators |-> {}]

Open == {j \in Jobs : status[j] = "open"}
RowLocked(j) == \E o \in Operators : j \in reopened[o]

----------------------------------------------------------------------------

\* The progress row is free of other transactions.
ProgressLocked(o, c) ==
    \A p \in Operators \ {o} : campaign[p] # c

\* The progress row is inserted or locked.  A cursor given on the command line
\* that is not the stored one is refused and changes nothing.
BeginPage(o, c) ==
    /\ pc[o] = "idle"
    /\ ProgressLocked(o, c)
    /\ pc' = [pc EXCEPT ![o] = "scan"]
    /\ campaign' = [campaign EXCEPT ![o] = c]
    /\ UNCHANGED <<queue, cursor, receipts, page, ids, reopened>>

\* A job of the kind the campaign repairs.  A reviewed failure must still have
\* the update time the operator saw; attempts grow between two failures.
Repairable(c, j) ==
    IF Reviewed[c] = 0 THEN status[j] = "missing"
    ELSE status[j] = "failed" /\ attempts[j] = ReviewedAt

Eligible(c, j) == Repairable(c, j) /\ attempts[j] < MaxAttempts

\* Wrong: jobs created after the cutoff are in scope.
InScopeLate(c) == {j \in Jobs : j > cursor[c] /\ Reviewed[c] \in {0, j}}
InScope(c) == {j \in 1..Cutoff : j > cursor[c] /\ Reviewed[c] \in {0, j}}

\* The first PageLimit job ids after the cursor.
FirstPage(S) == {j \in S : Cardinality({i \in S : i < j}) < PageLimit}

ScanPage(o) ==
    /\ pc[o] = "scan"
    /\ page' = [page EXCEPT ![o] = FirstPage(InScope(campaign[o]))]
    /\ ids' = [ids EXCEPT ![o] = {j \in page'[o] : Eligible(campaign[o], j)}]
    /\ pc' = [pc EXCEPT ![o] = "admit"]
    /\ UNCHANGED <<queue, cursor, receipts, campaign, reopened>>

QueueFree(o) == \A p \in Operators \ {o} : pc[p] # "retry"

Headroom(c) == HighWater - Cardinality(Open) - Reserve[c]

\* Wrong: the reserve is left out of the comparison.
RoomForIgnoringReserve(c, S) == S = {} \/ Cardinality(S) <= HighWater - Cardinality(Open)
RoomFor(c, S) == S = {} \/ Cardinality(S) <= Headroom(c)

\* With the queue lock held, the page must fit below the high water mark;
\* otherwise the transaction ends (AbortPage).
AdmitPage(o) ==
    /\ pc[o] = "admit" /\ QueueFree(o)
    /\ RoomFor(campaign[o], ids[o])
    /\ pc' = [pc EXCEPT ![o] = "retry"]
    /\ UNCHANGED <<queue, cursor, receipts, campaign, page, ids, reopened>>

\* One job, looked at again under its source lock; a changed one is passed over.
RetryOne(o) ==
    /\ pc[o] = "retry"
    /\ \E j \in ids[o] :
         /\ ~RowLocked(j)
         /\ reopened' = [reopened EXCEPT ![o] =
                            IF Eligible(campaign[o], j) THEN @ \union {j} ELSE @]
         /\ ids' = [ids EXCEPT ![o] = @ \ {j}]
    /\ UNCHANGED <<queue, cursor, receipts, pc, campaign, page>>

EndPage(o) ==
    /\ pc' = [pc EXCEPT ![o] = "idle"]
    /\ page' = [page EXCEPT ![o] = {}]
    /\ ids' = [ids EXCEPT ![o] = {}]
    /\ reopened' = [reopened EXCEPT ![o] = {}]
    /\ campaign' = [campaign EXCEPT ![o] = "none"]

\* The last job scanned, eligible or not.
NewCursor(c, S) == IF S = {} THEN cursor[c] ELSE Max(S)

CommitPage(o) ==
    /\ pc[o] = "retry" /\ ids[o] = {}
    /\ status' = [j \in Jobs |-> IF j \in reopened[o] THEN "open" ELSE status[j]]
    /\ receipts' = [receipts EXCEPT ![campaign[o]] =
                       [j \in Jobs |-> IF j \in reopened[o] THEN @[j] + 1 ELSE @[j]]]
    /\ cursor' = [cursor EXCEPT ![campaign[o]] = NewCursor(campaign[o], page[o])]
    /\ EndPage(o)
    /\ UNCHANGED attempts

\* Wrong: the cursor is saved although the page was given up.
AbortKeepingCursor(o) ==
    /\ pc[o] # "idle"
    /\ EndPage(o)
    /\ cursor' = [cursor EXCEPT ![campaign[o]] = NewCursor(campaign[o], page[o])]
    /\ UNCHANGED <<queue, receipts>>

\* No headroom, no current policy, a timeout, or the command dies: rollback.
AbortPage(o) ==
    /\ pc[o] # "idle"
    /\ EndPage(o)
    /\ UNCHANGED <<queue, cursor, receipts>>

----------------------------------------------------------------------------
(* The queue around the campaigns                                           *)

\* A worker takes an open job: it completes with its vector, fails, is cancelled,
\* or waits for another attempt.
Work(j) ==
    /\ status[j] = "open" /\ attempts[j] < MaxAttempts /\ ~RowLocked(j)
    /\ attempts' = [attempts EXCEPT ![j] = @ + 1]
    /\ \E s \in {"healthy", "failed", "cancelled"} \union IF attempts[j] + 1 < MaxAttempts THEN {"open"} ELSE {} :
         status' = [status EXCEPT ![j] = s]
    /\ UNCHANGED <<cursor, receipts, local>>

\* Another job replaces the vector of a completed one whose text then returns.
LoseVector(j) ==
    /\ j \in LossyJobs
    /\ status[j] = "healthy" /\ ~RowLocked(j)
    /\ status' = [status EXCEPT ![j] = "missing"]
    /\ UNCHANGED <<attempts, cursor, receipts, local>>

\* Octopus adds a job, under the queue lock and below the high water mark.
Enqueue(j) ==
    /\ status[j] = "absent"
    /\ \A o \in Operators : pc[o] # "retry"
    /\ Cardinality(Open) < HighWater
    /\ status' = [status EXCEPT ![j] = "open"]
    /\ attempts' = [attempts EXCEPT ![j] = 0]
    /\ UNCHANGED <<cursor, receipts, local>>

Next ==
    \/ \E o \in Operators :
         \/ \E c \in Campaigns : BeginPage(o, c)
         \/ ScanPage(o) \/ AdmitPage(o) \/ RetryOne(o) \/ CommitPage(o) \/ AbortPage(o)
    \/ \E j \in Jobs : Work(j) \/ LoseVector(j) \/ Enqueue(j)

Spec == Init /\ [][Next]_vars

----------------------------------------------------------------------------

\* Types of the queue, the campaigns and the invocations.
TypeOK ==
    /\ status \in [Jobs -> States]
    /\ attempts \in [Jobs -> 0..MaxAttempts]
    /\ cursor \in [Campaigns -> 0..Cutoff]
    /\ receipts \in [Campaigns -> [Jobs -> Nat]]
    /\ pc \in [Operators -> {"idle", "scan", "admit", "retry"}]
    /\ campaign \in [Operators -> Campaigns \union {"none"}]
    /\ page \in [Operators -> SUBSET Jobs]
    /\ ids \in [Operators -> SUBSET Jobs]
    /\ reopened \in [Operators -> SUBSET Jobs]

\* However repairs, Octopus and the workers interleave, the queue stays below
\* its high water mark, and a page that reopens jobs leaves the campaign's
\* reserve free, although the headroom was measured before the rows were locked.
HeadroomKept ==
    /\ Cardinality(Open) <= HighWater
    /\ \A o \in Operators :
         reopened[o] # {} => Cardinality(Open \union reopened[o]) + Reserve[campaign[o]] <= HighWater

\* A campaign passes each job once, also when two invocations run it at the same
\* time or a page is repeated: a job has at most one receipt per campaign.
OncePerCampaign == \A c \in Campaigns : \A j \in Jobs : receipts[c][j] <= 1

\* Resuming from the cursor skips nothing: behind the cursor of a missing-vector
\* campaign no job that still has attempts lacks its vector, whatever pages were
\* given up or repeated (a vector lost after the campaign has passed is the next
\* campaign's).
NothingSkipped ==
    \A c \in Campaigns : \A j \in 1..cursor[c] \ LossyJobs :
        Reviewed[c] = 0 /\ status[j] = "missing" => attempts[j] = MaxAttempts

\* A campaign passes every job exactly once.
EachJobOnce == OncePerCampaign /\ NothingSkipped

====
