---- MODULE MCLanes ----
(***************************************************************************)
(* What admits a call of the embedding backend: the breaker of a lane, the  *)
(* scheduler and the preflight gate.  They share no state, so a behaviour is *)
(* one of the part chosen at the start and the run visits the sum of the     *)
(* three state spaces.  Three overlapping calls of the breaker, two failures *)
(* to trip, windows of 2, 4 and at most 5 ticks (the bound cuts the second   *)
(* doubling); two queries and two workers compete for two slots, of which    *)
(* more are reserved than there are.                                        *)
(***************************************************************************)
EXTENDS Circuit, SchedulerParams, TLC

CONSTANTS CheckInterval, MaxInterval, SuccessEvery

ASSUME PreflightAssumption ==
    /\ CheckInterval \in Nat \ {0}
    /\ MaxInterval \in Nat /\ MaxInterval >= CheckInterval
    /\ SuccessEvery \in Nat \ {0}

VARIABLES
    part,  \* the part this behaviour is about
    slots, workerSlots, inUse, waiters, pc,
    healthy, gate, nextDelay, run, sleep, gauge, setting

Admission == INSTANCE Scheduler
Gate == INSTANCE Preflight WITH state <- gate

schedulerVars == <<slots, workerSlots, inUse, waiters, pc>>
preflightVars == <<healthy, gate, nextDelay, run, sleep, gauge, setting>>

LanesInit ==
    /\ part \in {"circuit", "scheduler", "preflight"}
    /\ Init /\ Admission!Init /\ Gate!Init
    /\ part # "preflight" => healthy

LanesNext ==
    /\ \/ part = "circuit" /\ Next /\ UNCHANGED <<schedulerVars, preflightVars>>
       \/ part = "scheduler" /\ Admission!Next /\ UNCHANGED <<vars, preflightVars>>
       \/ part = "preflight" /\ Gate!Next /\ UNCHANGED <<vars, schedulerVars>>
    /\ UNCHANGED part

\* The fairness of each part; a part the behaviour is not about has no step to take.
LanesSpec ==
    /\ LanesInit /\ [][LanesNext]_<<part, vars, schedulerVars, preflightVars>>
    /\ Fairness /\ Admission!Fairness
    /\ WF_preflightVars(part = "preflight" /\ Gate!Run)
    /\ WF_preflightVars(part = "preflight" /\ Gate!Publish)
    /\ \A s \in Gate!Setters : WF_preflightVars(part = "preflight" /\ Gate!WriteSeries(s))

----------------------------------------------------------------------------

\* Every part is well typed.
LanesTypeOK == TypeOK /\ Admission!TypeOK /\ Gate!TypeOK

\* Acquire and release, cancelled at any wait, conserve the permits of both semaphores
\* and leave queries their share (scheduler.go).
SlotsAccounted == Admission!SlotsAccounted

\* Everyone who waits in Acquire gets a slot or gives up (scheduler.go).
WaitEnds == Admission!WaitEnds

\* The claim gate opens once a check can succeed and closes once it cannot, whatever
\* delay the loop of preflight.go has arrived at.
GateFollowsBackend == part = "preflight" => Gate!GateFollowsBackend

\* The series two goroutines set one by one come to show the preflight's state
\* (SetEmbeddingPreflightState in metrics.go).
MetricSettles == Gate!MetricSettles

====
