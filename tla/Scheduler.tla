---- MODULE Scheduler ----
(***************************************************************************)
(* The admission point for backend embedding requests                       *)
(* (atheros-search/internal/embed/scheduler.go): a channel of Total permits *)
(* shared by both lanes, and a second channel that keeps bulk workers below *)
(* the reserved share.  A channel send is one atomic step, and so is each    *)
(* critical section of the counters behind InUse and Waiting; everything     *)
(* between them interleaves.  Definitions marked "wrong" are seeded defects  *)
(* that no action uses.                                                     *)
(***************************************************************************)
EXTENDS SchedulerParams

VARIABLES
    slots,        \* permits in the global channel
    workerSlots,  \* permits in the worker channel
    inUse,        \* the InUse counter of each lane
    waiters,      \* the Waiting counter of each lane
    pc            \* where a caller stands in Acquire or in its releaser

vars == <<slots, workerSlots, inUse, waiters, pc>>

Lanes == {"interactive", "worker"}
LaneOf(c) == IF c \in WorkerCallers THEN "worker" ELSE "interactive"

\* NewScheduler clamps its arguments into a usable range.
Total == IF TotalSlots < 1 THEN 1 ELSE TotalSlots
Reserved ==
    IF ReservedSlots < 0 THEN 0 ELSE IF ReservedSlots >= Total THEN Total - 1 ELSE ReservedSlots
WorkerMax == Total - Reserved

Init ==
    /\ slots = 0 /\ workerSlots = 0
    /\ inUse = [l \in Lanes |-> 0]
    /\ waiters = [l \in Lanes |-> 0]
    /\ pc = [c \in Callers |-> "idle"]

----------------------------------------------------------------------------
(* Acquire                                                                  *)

At(c, here, there) == pc[c] = here /\ pc' = [pc EXCEPT ![c] = there]

\* The counters never go below zero.
Dec(n) == IF n > 0 THEN n - 1 ELSE n

BeginWait(c) ==
    /\ At(c, "idle", IF c \in WorkerCallers THEN "wait_worker" ELSE "wait_slot")
    /\ waiters' = [waiters EXCEPT ![LaneOf(c)] = @ + 1]
    /\ UNCHANGED <<slots, workerSlots, inUse>>

TakeWorkerSlot(c) ==
    /\ At(c, "wait_worker", "wait_slot")
    /\ workerSlots < WorkerMax
    /\ workerSlots' = workerSlots + 1
    /\ UNCHANGED <<slots, inUse, waiters>>

TakeSlot(c) ==
    /\ At(c, "wait_slot", "granted")
    /\ slots < Total
    /\ slots' = slots + 1
    /\ UNCHANGED <<workerSlots, inUse, waiters>>

\* endWait after a grant.
EndWait(c) ==
    /\ At(c, "granted", "holding")
    /\ waiters' = [waiters EXCEPT ![LaneOf(c)] = Dec(@)]
    /\ inUse' = [inUse EXCEPT ![LaneOf(c)] = @ + 1]
    /\ UNCHANGED <<slots, workerSlots>>

\* The caller's context ends in the first select: it holds nothing.
CancelWorkerWait(c) ==
    /\ At(c, "wait_worker", "abandoned")
    /\ UNCHANGED <<slots, workerSlots, inUse, waiters>>

\* Wrong: a worker cancelled in the second select keeps its worker slot.
CancelSlotWaitLeaking(c) ==
    /\ At(c, "wait_slot", "abandoned")
    /\ UNCHANGED <<slots, workerSlots, inUse, waiters>>

\* It ends in the second: a worker still holds its worker slot.
CancelSlotWait(c) ==
    /\ At(c, "wait_slot", IF c \in WorkerCallers THEN "refund" ELSE "abandoned")
    /\ UNCHANGED <<slots, workerSlots, inUse, waiters>>

RefundWorkerSlot(c) ==
    /\ At(c, "refund", "abandoned")
    /\ workerSlots' = workerSlots - 1
    /\ UNCHANGED <<slots, inUse, waiters>>

\* endWait after a cancellation: Acquire returns the context's error.
Abandon(c) ==
    /\ At(c, "abandoned", "idle")
    /\ waiters' = [waiters EXCEPT ![LaneOf(c)] = Dec(@)]
    /\ UNCHANGED <<slots, workerSlots, inUse>>

----------------------------------------------------------------------------
(* The releaser: once per grant, the global slot first                      *)

ReleaseSlot(c) ==
    /\ At(c, "holding", IF c \in WorkerCallers THEN "free_worker" ELSE "uncount")
    /\ slots' = slots - 1
    /\ UNCHANGED <<workerSlots, inUse, waiters>>

FreeWorkerSlot(c) ==
    /\ At(c, "free_worker", "uncount")
    /\ workerSlots' = workerSlots - 1
    /\ UNCHANGED <<slots, inUse, waiters>>

Uncount(c) ==
    /\ At(c, "uncount", "idle")
    /\ inUse' = [inUse EXCEPT ![LaneOf(c)] = Dec(@)]
    /\ UNCHANGED <<slots, workerSlots, waiters>>

----------------------------------------------------------------------------

\* Steps a caller takes by itself once it can.
Proceed(c) ==
    \/ EndWait(c) \/ RefundWorkerSlot(c) \/ Abandon(c)
    \/ ReleaseSlot(c) \/ FreeWorkerSlot(c) \/ Uncount(c)

Next ==
    \E c \in Callers :
        \/ BeginWait(c) \/ TakeWorkerSlot(c) \/ TakeSlot(c)
        \/ CancelWorkerWait(c) \/ CancelSlotWait(c)
        \/ Proceed(c)

Spec == Init /\ [][Next]_vars

\* Backend calls end (each has a timeout) and release; senders blocked on a Go
\* channel are served in order, so one that could send again and again is served.
Fairness ==
    \A c \in Callers :
        /\ WF_vars(Proceed(c))
        /\ SF_vars(TakeWorkerSlot(c))
        /\ SF_vars(TakeSlot(c))

FairSpec == Spec /\ Fairness

----------------------------------------------------------------------------

PCs == {"idle", "wait_worker", "wait_slot", "granted", "holding", "refund",
        "abandoned", "free_worker", "uncount"}

\* The channels hold at most their capacity and the counters are natural numbers.
TypeOK ==
    /\ slots \in 0..Total
    /\ workerSlots \in 0..WorkerMax
    /\ inUse \in [Lanes -> Nat]
    /\ waiters \in [Lanes -> Nat]
    /\ pc \in [Callers -> PCs]

HoldsSlot == {c \in Callers : pc[c] \in {"granted", "holding"}}
HoldsWorkerSlot ==
    {c \in WorkerCallers : pc[c] \in {"wait_slot", "granted", "holding", "refund", "free_worker"}}

\* No permit is lost or minted: each channel holds exactly the permits of the
\* callers between their send and their receive, cancelled ones included.
PermitsConserved ==
    /\ slots = Cardinality(HoldsSlot)
    /\ workerSlots = Cardinality(HoldsWorkerSlot)

\* The reservation: workers alone never fill the backend, so while no query or
\* probe holds a reserved slot, the next one finds a free slot.
ReservedForQueries ==
    /\ Cardinality(HoldsSlot \intersect WorkerCallers) <= WorkerMax
    /\ Reserved > 0 /\ HoldsSlot \subseteq WorkerCallers => slots < Total

\* The scheduler's books are right: the permits are those of its callers, and workers
\* never take what is reserved for queries.
SlotsAccounted == PermitsConserved /\ ReservedForQueries

\* Nobody waits for ever: every caller in Acquire gets its slot or gives up,
\* however the other lane keeps the backend busy.
WaitEnds ==
    \A c \in Callers : pc[c] \in {"wait_worker", "wait_slot"} ~> pc[c] \in {"granted", "abandoned"}

====
