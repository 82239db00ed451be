---- MODULE SchedulerParams ----
(***************************************************************************)
(* The callers and the configured sizes of the scheduler.                   *)
(***************************************************************************)
EXTENDS Integers, FiniteSets

CONSTANTS
    Callers,        \* goroutines that acquire a slot, one call at a time
    WorkerCallers,  \* those on the worker lane
    TotalSlots,     \* configured backend slots
    ReservedSlots   \* configured slots held back from workers

ASSUME CallerAssumption == IsFiniteSet(Callers) /\ WorkerCallers \subseteq Callers
ASSUME SlotAssumption == TotalSlots \in Int /\ ReservedSlots \in Int

====
