---- MODULE LanesProofs ----
(***************************************************************************)
(* Proofs about what admits a call of the embedding backend: the breaker,    *)
(* for any number of overlapping calls and any positive failure limit and     *)
(* backoff bounds, the scheduler, for any finite set of callers on either     *)
(* lane and any configured numbers of total and reserved slots, the          *)
(* preflight, for any delays, and the three parts of MCLanes together.       *)
(***************************************************************************)
EXTENDS MCLanes, FiniteSetTheorems, TLAPS

----------------------------------------------------------------------------
(* The breaker                                                              *)

\* The backoff schedule stays between one tick and the bound, and never shrinks.
LEMMA Windows ==
    /\ MaxWindow \in Nat \ {0} /\ BaseBackoff \in 1..MaxWindow
    /\ \A b \in 1..MaxWindow : NextBackoff(b) \in 1..MaxWindow /\ NextBackoff(b) >= b
  BY CircuitAssumption DEF MaxWindow, NextBackoff, Doubled

\* The reset values are in range, and below the failure limit.
LEMMA Zeros == 0 \in 0..FailureMax /\ 0 \in 0..MaxWindow /\ 0 < FailureMax
  BY CircuitAssumption, Windows

\* The window a trip opens: the base one after a success, else the stored one.
LEMMA FirstWindowRange ==
    ASSUME TypeOK
    PROVE  FirstWindow \in 1..MaxWindow /\ FirstWindow >= backoff
  BY Windows DEF FirstWindow, TypeOK

CircuitInv == TypeOK /\ StateMatchesFailures /\ ProbeSlotNotLeaked

LEMMA CircuitStart == Init => CircuitInv
  BY Zeros DEF Init, CircuitInv, TypeOK, States, StateMatchesFailures, ProbeSlotNotLeaked

LEMMA CircuitStep ==
    ASSUME CircuitInv, [Next]_vars
    PROVE  CircuitInv'
  <1>0. TypeOK /\ StateMatchesFailures /\ ProbeSlotNotLeaked
    BY DEF CircuitInv
  <1>1. ASSUME NEW c \in Calls, AdmitClosed(c)
        PROVE  CircuitInv'
    BY <1>0, <1>1 DEF AdmitClosed, CircuitInv, TypeOK, StateMatchesFailures, ProbeSlotNotLeaked
  <1>2. ASSUME NEW c \in Calls, AdmitProbe(c)
        PROVE  CircuitInv'
    <2>1. state # "closed"
      BY <1>2 DEF AdmitProbe, Advanced, Elapsed
    <2>2. wait = 0
      BY <1>0, <1>2 DEF AdmitProbe, Advanced, Elapsed, StateMatchesFailures
    <2>3. TypeOK'
      BY <1>0, <1>2 DEF AdmitProbe, TypeOK, States
    <2>4. StateMatchesFailures'
      BY <1>0, <1>2, <2>1, <2>2 DEF AdmitProbe, StateMatchesFailures
    <2>5. ProbeSlotNotLeaked'
      BY <1>0, <1>2 DEF AdmitProbe, TypeOK, ProbeSlotNotLeaked
    <2>. QED  BY <2>3, <2>4, <2>5 DEF CircuitInv
  <1>3. ASSUME NEW c \in Calls, Succeed(c)
        PROVE  CircuitInv'
    <2>1. TypeOK'
      BY <1>0, <1>3, Zeros DEF Succeed, TypeOK, States
    <2>2. StateMatchesFailures'
      BY <1>3, Zeros DEF Succeed, StateMatchesFailures
    <2>. QED  BY <1>3, <2>1, <2>2 DEF Succeed, CircuitInv, ProbeSlotNotLeaked
  <1>4. ASSUME NEW c \in Calls, Fail(c)
        PROVE  CircuitInv'
    <2>1. FirstWindow \in 1..MaxWindow /\ NextBackoff(FirstWindow) \in 1..MaxWindow
      BY <1>0, FirstWindowRange, Windows
    <2>2. CASE state = "half_open" \/ failures' >= FailureMax
      <3>1. /\ state' = "open" /\ ~probing' /\ wait' = FirstWindow
            /\ backoff' = NextBackoff(FirstWindow) /\ probing' \in BOOLEAN
        BY <1>4, <2>2 DEF Fail
      <3>2. failures' = FailureMax
        BY <1>0, <1>4, <2>2, CircuitAssumption DEF Fail, TypeOK, StateMatchesFailures
      <3>3. TypeOK'
        BY <1>0, <1>4, <2>1, <3>1, <3>2, CircuitAssumption, Windows DEF Fail, TypeOK, States
      <3>4. StateMatchesFailures'
        BY <2>1, <3>1, <3>2, CircuitAssumption, Windows DEF StateMatchesFailures
      <3>. QED  BY <3>1, <3>3, <3>4 DEF CircuitInv, ProbeSlotNotLeaked
    <2>3. CASE ~(state = "half_open" \/ failures' >= FailureMax)
      <3>1. UNCHANGED <<state, probing, wait, backoff>> /\ state # "half_open"
        BY <1>4, <2>3 DEF Fail
      <3>2. failures \in 0..FailureMax /\ failures' = failures + 1 /\ failures' < FailureMax
        BY <1>0, <1>4, <2>3, CircuitAssumption DEF Fail, TypeOK
      <3>3. TypeOK'
        BY <1>0, <1>4, <3>1, <3>2, CircuitAssumption DEF Fail, TypeOK
      <3>4. StateMatchesFailures'
        BY <1>0, <3>1, <3>2, CircuitAssumption DEF StateMatchesFailures
      <3>. QED  BY <3>1, <3>3, <3>4 DEF CircuitInv, ProbeSlotNotLeaked
    <2>. QED  BY <2>2, <2>3
  <1>5. ASSUME NEW c \in Calls, Neutral(c)
        PROVE  CircuitInv'
    BY <1>0, <1>5 DEF Neutral, CircuitInv, TypeOK, StateMatchesFailures, ProbeSlotNotLeaked
  <1>6. ASSUME NEW c \in Calls, ReleaseProbe(c)
        PROVE  CircuitInv'
    BY <1>0, <1>6 DEF ReleaseProbe, CircuitInv, TypeOK, StateMatchesFailures, ProbeSlotNotLeaked
  <1>7. CASE Observe
    BY <1>0, <1>7 DEF Observe, Elapsed, CircuitInv, TypeOK, States, StateMatchesFailures,
                      ProbeSlotNotLeaked
  <1>8. CASE Tick
    BY <1>0, <1>8, Windows DEF Tick, CircuitInv, TypeOK, StateMatchesFailures, ProbeSlotNotLeaked
  <1>9. CASE UNCHANGED vars
    BY <1>0, <1>9 DEF vars, CircuitInv, TypeOK, StateMatchesFailures, ProbeSlotNotLeaked
  <1>. QED  BY <1>1, <1>2, <1>3, <1>4, <1>5, <1>6, <1>7, <1>8, <1>9 DEF Next, Finish

\* The invariant of the breaker holds in every reachable state.
THEOREM CircuitInvariant == Spec => []CircuitInv
  <1>1. CircuitInv /\ [Next]_vars => CircuitInv'
    BY CircuitStep
  <1>. QED  BY CircuitStart, <1>1, PTL DEF Spec

\* The breaker never wedges half-open: for any number of overlapping calls, a
\* taken probe slot belongs to a call still in flight.
THEOREM NoProbeLeak == Spec => []ProbeSlotNotLeaked
  <1>1. CircuitInv => ProbeSlotNotLeaked
    BY DEF CircuitInv
  <1>. QED  BY <1>1, CircuitInvariant, PTL

\* The state, the failure count and the backoff agree whatever late outcomes
\* arrive.
THEOREM StateAgrees == Spec => []StateMatchesFailures
  <1>1. CircuitInv => StateMatchesFailures
    BY DEF CircuitInv
  <1>. QED  BY <1>1, CircuitInvariant, PTL

\* Without a success, no trip shortens the next window.
THEOREM BackoffNeverShrinks == Spec => BackoffGrows
  <1>1. CircuitInv /\ [Next]_vars => [state' = "closed" \/ backoff' >= backoff]_vars
    <2>. SUFFICES ASSUME CircuitInv, [Next]_vars
                  PROVE  state' = "closed" \/ backoff' >= backoff
      OBVIOUS
    <2>0. TypeOK /\ backoff \in Int
      BY Windows DEF CircuitInv, TypeOK
    <2>1. ASSUME NEW c \in Calls, Fail(c)
          PROVE  backoff' >= backoff
      <3>1. /\ FirstWindow \in Int /\ FirstWindow >= backoff
            /\ NextBackoff(FirstWindow) \in Int /\ NextBackoff(FirstWindow) >= FirstWindow
        BY <2>0, FirstWindowRange, Windows
      <3>2. backoff' = backoff \/ backoff' = NextBackoff(FirstWindow)
        BY <2>1 DEF Fail
      <3>. QED  BY <2>0, <3>1, <3>2
    <2>2. ASSUME ~\E c \in Calls : Fail(c)
          PROVE  state' = "closed" \/ backoff' = backoff
      BY <2>2 DEF Next, Finish, AdmitClosed, AdmitProbe, Succeed, Neutral, ReleaseProbe,
                  Observe, Tick, vars
    <2>. QED  BY <2>0, <2>1, <2>2
  <1>. QED  BY <1>1, CircuitInvariant, PTL DEF Spec, BackoffGrows

----------------------------------------------------------------------------
(* The scheduler                                                            *)

\* The clamped configuration is usable: at least one slot, and workers keep one.
LEMMA Capacities ==
    /\ Admission!Total \in Nat \ {0} /\ Admission!Reserved \in Nat /\ Admission!WorkerMax \in Nat \ {0}
    /\ Admission!WorkerMax + Admission!Reserved = Admission!Total
  BY SlotAssumption DEF Admission!Total, Admission!Reserved, Admission!WorkerMax

\* The scheduler counts with the Cardinality of its own instance.
LEMMA AdmissionCardinality == \A S : Admission!Cardinality(S) = Cardinality(S)
  BY DEF Admission!Cardinality, Cardinality

\* Only worker callers are at the program points about worker slots.
WorkerPoints ==
    \A c \in Callers : pc[c] \in {"wait_worker", "refund", "free_worker"} => c \in WorkerCallers

PermitInv == Admission!TypeOK /\ WorkerPoints /\ Admission!PermitsConserved

\* The holders are finite sets, and moving one caller adds or removes it.
LEMMA Holders ==
    ASSUME Admission!TypeOK
    PROVE  IsFiniteSet(Admission!HoldsSlot) /\ IsFiniteSet(Admission!HoldsWorkerSlot)
  BY CallerAssumption, FS_Subset DEF Admission!HoldsSlot, Admission!HoldsWorkerSlot

LEMMA SlotHolderMoves ==
    ASSUME Admission!TypeOK, NEW c \in Callers, NEW t, pc' = [pc EXCEPT ![c] = t]
    PROVE  Admission!HoldsSlot' = IF t \in {"granted", "holding"} THEN Admission!HoldsSlot \union {c}
                                                        ELSE Admission!HoldsSlot \ {c}
  BY DEF Admission!TypeOK, Admission!HoldsSlot

LEMMA WorkerSlotHolderMoves ==
    ASSUME Admission!TypeOK, NEW c \in Callers, NEW t, pc' = [pc EXCEPT ![c] = t]
    PROVE  Admission!HoldsWorkerSlot' =
             IF c \in WorkerCallers
                /\ t \in {"wait_slot", "granted", "holding", "refund", "free_worker"}
             THEN Admission!HoldsWorkerSlot \union {c} ELSE Admission!HoldsWorkerSlot \ {c}
  <1>1. WorkerCallers \subseteq Callers
    BY CallerAssumption
  <1>. QED  BY <1>1 DEF Admission!TypeOK, Admission!HoldsWorkerSlot

\* A move between points where its permit is kept changes no worker's permit.
LEMMA WorkerSlotKept ==
    ASSUME Admission!TypeOK, NEW c \in Callers, NEW t, pc' = [pc EXCEPT ![c] = t],
           c \in WorkerCallers <=> c \in Admission!HoldsWorkerSlot,
           c \in WorkerCallers => t \in {"wait_slot", "granted", "holding", "refund", "free_worker"}
    PROVE  Admission!HoldsWorkerSlot' = Admission!HoldsWorkerSlot
  <1>1. CASE c \in WorkerCallers
    <2>1. Admission!HoldsWorkerSlot' = Admission!HoldsWorkerSlot \union {c}
      BY <1>1, WorkerSlotHolderMoves
    <2>. QED  BY <1>1, <2>1
  <1>2. CASE c \notin WorkerCallers
    <2>1. Admission!HoldsWorkerSlot' = Admission!HoldsWorkerSlot \ {c}
      BY <1>2, WorkerSlotHolderMoves
    <2>. QED  BY <1>2, <2>1
  <1>. QED  BY <1>1, <1>2

\* A set that gains or loses nothing keeps its cardinality.
LEMMA SameHolders ==
    ASSUME NEW S, NEW c
    PROVE  (c \in S => S \union {c} = S) /\ (c \notin S => S \ {c} = S)
  OBVIOUS

\* How a move of one caller changes the number of permits held.
LEMMA CountMoves ==
    ASSUME NEW S, IsFiniteSet(S), NEW c
    PROVE  /\ Cardinality(S) \in Nat
           /\ c \notin S => Cardinality(S \union {c}) = Cardinality(S) + 1
           /\ c \in S => Cardinality(S \ {c}) = Cardinality(S) - 1 /\ Cardinality(S) > 0
           /\ c \in S => Cardinality(S \union {c}) = Cardinality(S)
           /\ c \notin S => Cardinality(S \ {c}) = Cardinality(S)
  <1>1. Cardinality(S) \in Nat
    BY FS_CardinalityType
  <1>2. c \notin S => Cardinality(S \union {c}) = Cardinality(S) + 1
    BY FS_AddElement
  <1>3. ASSUME c \in S
        PROVE  Cardinality(S \ {c}) = Cardinality(S) - 1 /\ Cardinality(S) > 0
    <2>1. IsFiniteSet(S \ {c}) /\ Cardinality(S \ {c}) = Cardinality(S) - 1
      BY <1>3, FS_RemoveElement
    <2>2. Cardinality(S \ {c}) \in Nat
      BY <2>1, FS_CardinalityType
    <2>. QED  BY <1>1, <2>1, <2>2
  <1>4. /\ c \in S => Cardinality(S \union {c}) = Cardinality(S)
        /\ c \notin S => Cardinality(S \ {c}) = Cardinality(S)
    BY SameHolders, Zenon
  <1>. QED  BY <1>1, <1>2, <1>3, <1>4

LEMMA PermitStep ==
    ASSUME PermitInv, [Admission!Next]_(Admission!vars)
    PROVE  PermitInv'
  <1>0. /\ Admission!TypeOK /\ WorkerPoints
        /\ slots = Cardinality(Admission!HoldsSlot) /\ workerSlots = Cardinality(Admission!HoldsWorkerSlot)
        /\ IsFiniteSet(Admission!HoldsSlot) /\ IsFiniteSet(Admission!HoldsWorkerSlot)
        /\ slots \in 0..Admission!Total /\ workerSlots \in 0..Admission!WorkerMax
        /\ Admission!Total \in Nat /\ Admission!WorkerMax \in Nat /\ WorkerCallers \subseteq Callers
    BY Holders, Capacities, CallerAssumption, AdmissionCardinality DEF PermitInv, Admission!PermitsConserved, Admission!TypeOK
  <1>1. ASSUME NEW c \in Callers, NEW t \in Admission!PCs, pc' = [pc EXCEPT ![c] = t],
               t \in {"wait_worker", "refund", "free_worker"} => c \in WorkerCallers,
               inUse' \in [Admission!Lanes -> Nat], waiters' \in [Admission!Lanes -> Nat],
               slots' \in 0..Admission!Total, workerSlots' \in 0..Admission!WorkerMax,
               slots' = Cardinality(Admission!HoldsSlot'), workerSlots' = Cardinality(Admission!HoldsWorkerSlot')
        PROVE  PermitInv'
    BY <1>0, <1>1, AdmissionCardinality DEF PermitInv, Admission!TypeOK, WorkerPoints, Admission!PermitsConserved
  <1>2. /\ inUse \in [Admission!Lanes -> Nat] /\ waiters \in [Admission!Lanes -> Nat]
        /\ \A c \in Callers : [inUse EXCEPT ![Admission!LaneOf(c)] = @ + 1] \in [Admission!Lanes -> Nat]
        /\ \A c \in Callers : [inUse EXCEPT ![Admission!LaneOf(c)] = Admission!Dec(@)] \in [Admission!Lanes -> Nat]
        /\ \A c \in Callers : [waiters EXCEPT ![Admission!LaneOf(c)] = @ + 1] \in [Admission!Lanes -> Nat]
        /\ \A c \in Callers : [waiters EXCEPT ![Admission!LaneOf(c)] = Admission!Dec(@)] \in [Admission!Lanes -> Nat]
    BY <1>0 DEF Admission!TypeOK, Admission!Dec, Admission!LaneOf, Admission!Lanes
  <1>3. ASSUME NEW c \in Callers, Admission!BeginWait(c) \/ Admission!CancelWorkerWait(c) \/ Admission!Abandon(c) \/ Admission!Uncount(c)
        PROVE  PermitInv'
    <2>1. PICK t \in {"wait_worker", "wait_slot", "abandoned", "idle"} :
             /\ pc' = [pc EXCEPT ![c] = t]
             /\ t = "wait_worker" => c \in WorkerCallers
             /\ t = "wait_slot" => c \notin WorkerCallers
      BY <1>3 DEF Admission!BeginWait, Admission!CancelWorkerWait, Admission!Abandon, Admission!Uncount, Admission!At
    <2>2. c \notin Admission!HoldsSlot /\ c \notin Admission!HoldsWorkerSlot
      BY <1>3 DEF Admission!BeginWait, Admission!CancelWorkerWait, Admission!Abandon, Admission!Uncount, Admission!At, Admission!HoldsSlot, Admission!HoldsWorkerSlot
    <2>3. UNCHANGED <<slots, workerSlots>> /\ inUse' \in [Admission!Lanes -> Nat] /\ waiters' \in [Admission!Lanes -> Nat]
      BY <1>2, <1>3 DEF Admission!BeginWait, Admission!CancelWorkerWait, Admission!Abandon, Admission!Uncount
    <2>4. Admission!HoldsSlot' = Admission!HoldsSlot
      <3>1. Admission!HoldsSlot' = Admission!HoldsSlot \ {c}
        BY <1>0, <2>1, SlotHolderMoves
      <3>. QED  BY <2>2, <3>1
    <2>5. Admission!HoldsWorkerSlot' = Admission!HoldsWorkerSlot
      <3>1. Admission!HoldsWorkerSlot' = Admission!HoldsWorkerSlot \ {c}
        BY <1>0, <2>1, WorkerSlotHolderMoves
      <3>. QED  BY <2>2, <3>1
    <2>6. t \in Admission!PCs
      BY DEF Admission!PCs
    <2>. QED  BY <1>0, <1>1, <2>1, <2>3, <2>4, <2>5, <2>6
  <1>4. ASSUME NEW c \in Callers, Admission!TakeWorkerSlot(c)
        PROVE  PermitInv'
    <2>1. /\ pc' = [pc EXCEPT ![c] = "wait_slot"] /\ c \in WorkerCallers
          /\ c \notin Admission!HoldsSlot /\ c \notin Admission!HoldsWorkerSlot
      BY <1>0, <1>4 DEF Admission!TakeWorkerSlot, Admission!At, WorkerPoints, Admission!HoldsSlot, Admission!HoldsWorkerSlot
    <2>2. Admission!HoldsSlot' = Admission!HoldsSlot
      <3>1. Admission!HoldsSlot' = Admission!HoldsSlot \ {c}
        BY <1>0, <2>1, SlotHolderMoves
      <3>. QED  BY <2>1, <3>1
    <2>3. Admission!HoldsWorkerSlot' = Admission!HoldsWorkerSlot \union {c}
      BY <1>0, <2>1, WorkerSlotHolderMoves
    <2>4. /\ workerSlots' = Cardinality(Admission!HoldsWorkerSlot') /\ workerSlots' \in 0..Admission!WorkerMax
          /\ slots' = slots
      BY <1>0, <1>4, <2>1, <2>3, CountMoves DEF Admission!TakeWorkerSlot
    <2>5. "wait_slot" \in Admission!PCs
      BY DEF Admission!PCs
    <2>. QED  BY <1>0, <1>1, <1>2, <1>4, <2>1, <2>2, <2>4, <2>5 DEF Admission!TakeWorkerSlot
  <1>5. ASSUME NEW c \in Callers, Admission!TakeSlot(c)
        PROVE  PermitInv'
    <2>1. /\ pc' = [pc EXCEPT ![c] = "granted"] /\ c \notin Admission!HoldsSlot
          /\ c \in WorkerCallers <=> c \in Admission!HoldsWorkerSlot
      BY <1>0, <1>5 DEF Admission!TakeSlot, Admission!At, Admission!HoldsSlot, Admission!HoldsWorkerSlot
    <2>2. Admission!HoldsSlot' = Admission!HoldsSlot \union {c}
      BY <1>0, <2>1, SlotHolderMoves
    <2>3. Admission!HoldsWorkerSlot' = Admission!HoldsWorkerSlot
      BY <1>0, <2>1, WorkerSlotKept
    <2>4. /\ slots' = Cardinality(Admission!HoldsSlot') /\ slots' \in 0..Admission!Total
          /\ workerSlots' = workerSlots
      BY <1>0, <1>5, <2>1, <2>2, CountMoves DEF Admission!TakeSlot
    <2>5. "granted" \in Admission!PCs
      BY DEF Admission!PCs
    <2>. QED  BY <1>0, <1>1, <1>2, <1>5, <2>1, <2>3, <2>4, <2>5 DEF Admission!TakeSlot
  <1>6. ASSUME NEW c \in Callers, Admission!EndWait(c)
        PROVE  PermitInv'
    <2>1. /\ pc' = [pc EXCEPT ![c] = "holding"] /\ c \in Admission!HoldsSlot
          /\ c \in WorkerCallers <=> c \in Admission!HoldsWorkerSlot
      BY <1>0, <1>6 DEF Admission!EndWait, Admission!At, Admission!HoldsSlot, Admission!HoldsWorkerSlot
    <2>2. Admission!HoldsSlot' = Admission!HoldsSlot
      BY <1>0, <2>1, SlotHolderMoves, SameHolders
    <2>3. Admission!HoldsWorkerSlot' = Admission!HoldsWorkerSlot
      BY <1>0, <2>1, WorkerSlotKept
    <2>4. "holding" \in Admission!PCs
      BY DEF Admission!PCs
    <2>. QED  BY <1>0, <1>1, <1>2, <1>6, <2>1, <2>2, <2>3, <2>4 DEF Admission!EndWait
  <1>7. ASSUME NEW c \in Callers, Admission!CancelSlotWait(c)
        PROVE  PermitInv'
    <2>1. PICK t \in {"refund", "abandoned"} :
             pc' = [pc EXCEPT ![c] = t] /\ (t = "refund" <=> c \in WorkerCallers)
      BY <1>7 DEF Admission!CancelSlotWait, Admission!At
    <2>2. c \notin Admission!HoldsSlot /\ (c \in WorkerCallers <=> c \in Admission!HoldsWorkerSlot)
      BY <1>0, <1>7 DEF Admission!CancelSlotWait, Admission!At, Admission!HoldsSlot, Admission!HoldsWorkerSlot
    <2>3. Admission!HoldsSlot' = Admission!HoldsSlot
      <3>1. Admission!HoldsSlot' = Admission!HoldsSlot \ {c}
        BY <1>0, <2>1, SlotHolderMoves
      <3>. QED  BY <2>2, <3>1
    <2>4. Admission!HoldsWorkerSlot' = Admission!HoldsWorkerSlot
      BY <1>0, <2>1, <2>2, WorkerSlotKept
    <2>5. t \in Admission!PCs
      BY DEF Admission!PCs
    <2>. QED  BY <1>0, <1>1, <1>2, <1>7, <2>1, <2>3, <2>4, <2>5 DEF Admission!CancelSlotWait
  <1>8. ASSUME NEW c \in Callers, Admission!RefundWorkerSlot(c) \/ Admission!FreeWorkerSlot(c)
        PROVE  PermitInv'
    <2>1. PICK t \in {"abandoned", "uncount"} : pc' = [pc EXCEPT ![c] = t]
      BY <1>8 DEF Admission!RefundWorkerSlot, Admission!FreeWorkerSlot, Admission!At
    <2>2. c \notin Admission!HoldsSlot /\ c \in Admission!HoldsWorkerSlot
      BY <1>0, <1>8 DEF Admission!RefundWorkerSlot, Admission!FreeWorkerSlot, Admission!At, WorkerPoints, Admission!HoldsSlot,
                        Admission!HoldsWorkerSlot
    <2>3. Admission!HoldsSlot' = Admission!HoldsSlot
      <3>1. Admission!HoldsSlot' = Admission!HoldsSlot \ {c}
        BY <1>0, <2>1, SlotHolderMoves
      <3>. QED  BY <2>2, <3>1
    <2>4. Admission!HoldsWorkerSlot' = Admission!HoldsWorkerSlot \ {c}
      BY <1>0, <2>1, WorkerSlotHolderMoves
    <2>5. /\ workerSlots' = workerSlots - 1 /\ slots' = slots
          /\ UNCHANGED <<inUse, waiters>>
      BY <1>8 DEF Admission!RefundWorkerSlot, Admission!FreeWorkerSlot
    <2>6. workerSlots' = Cardinality(Admission!HoldsWorkerSlot') /\ workerSlots' \in 0..Admission!WorkerMax
      BY <1>0, <2>2, <2>4, <2>5, CountMoves
    <2>7. t \in Admission!PCs
      BY DEF Admission!PCs
    <2>. QED  BY <1>0, <1>1, <1>2, <2>1, <2>3, <2>5, <2>6, <2>7
  <1>9. ASSUME NEW c \in Callers, Admission!ReleaseSlot(c)
        PROVE  PermitInv'
    <2>1. PICK t \in {"free_worker", "uncount"} :
             pc' = [pc EXCEPT ![c] = t] /\ (t = "free_worker" <=> c \in WorkerCallers)
      BY <1>9 DEF Admission!ReleaseSlot, Admission!At
    <2>2. c \in Admission!HoldsSlot /\ (c \in WorkerCallers <=> c \in Admission!HoldsWorkerSlot)
      BY <1>0, <1>9 DEF Admission!ReleaseSlot, Admission!At, Admission!HoldsSlot, Admission!HoldsWorkerSlot
    <2>3. Admission!HoldsSlot' = Admission!HoldsSlot \ {c}
      BY <1>0, <2>1, SlotHolderMoves
    <2>4. Admission!HoldsWorkerSlot' = Admission!HoldsWorkerSlot
      BY <1>0, <2>1, <2>2, WorkerSlotKept
    <2>5. slots' = slots - 1 /\ UNCHANGED <<workerSlots, inUse, waiters>>
      BY <1>9 DEF Admission!ReleaseSlot
    <2>6. slots' = Cardinality(Admission!HoldsSlot') /\ slots' \in 0..Admission!Total
      BY <1>0, <2>2, <2>3, <2>5, CountMoves
    <2>7. t \in Admission!PCs
      BY DEF Admission!PCs
    <2>. QED  BY <1>0, <1>1, <1>2, <2>1, <2>4, <2>5, <2>6, <2>7
  <1>10. CASE UNCHANGED Admission!vars
    BY <1>10 DEF Admission!vars, PermitInv, Admission!TypeOK, WorkerPoints, Admission!PermitsConserved, Admission!HoldsSlot,
                 Admission!HoldsWorkerSlot
  <1>. QED  BY <1>3, <1>4, <1>5, <1>6, <1>7, <1>8, <1>9, <1>10 DEF Admission!Next, Admission!Proceed

LEMMA PermitStart == Admission!Init => PermitInv
  <1>. SUFFICES ASSUME Admission!Init
                PROVE  PermitInv
    OBVIOUS
  <1>1. Admission!HoldsSlot = {} /\ Admission!HoldsWorkerSlot = {}
    BY CallerAssumption DEF Admission!Init, Admission!HoldsSlot, Admission!HoldsWorkerSlot
  <1>2. Admission!TypeOK /\ WorkerPoints
    BY Capacities DEF Admission!Init, Admission!TypeOK, WorkerPoints, Admission!PCs, Admission!Lanes
  <1>. QED  BY <1>1, <1>2, FS_EmptySet, AdmissionCardinality DEF Admission!Init, PermitInv, Admission!PermitsConserved

\* Bulk workers never occupy the reserved slots.
LEMMA Reservation == PermitInv => Admission!ReservedForQueries
  <1>. SUFFICES ASSUME PermitInv
                PROVE  Admission!ReservedForQueries
    OBVIOUS
  <1>1. Admission!HoldsSlot \intersect WorkerCallers \subseteq Admission!HoldsWorkerSlot
    BY DEF Admission!HoldsSlot, Admission!HoldsWorkerSlot
  <1>2. IsFiniteSet(Admission!HoldsWorkerSlot) /\ workerSlots = Cardinality(Admission!HoldsWorkerSlot)
        /\ workerSlots <= Admission!WorkerMax /\ slots = Cardinality(Admission!HoldsSlot)
        /\ workerSlots \in Int
    BY Holders, Capacities, AdmissionCardinality DEF PermitInv, Admission!PermitsConserved, Admission!TypeOK
  <1>3. /\ IsFiniteSet(Admission!HoldsSlot \intersect WorkerCallers)
        /\ Cardinality(Admission!HoldsSlot \intersect WorkerCallers) <= workerSlots
    BY <1>1, <1>2, FS_Subset
  <1>4. Cardinality(Admission!HoldsSlot \intersect WorkerCallers) \in Nat
    BY <1>3, FS_CardinalityType
  <1>5. Cardinality(Admission!HoldsSlot \intersect WorkerCallers) <= Admission!WorkerMax
    BY <1>2, <1>3, <1>4, Capacities
  <1>6. ASSUME Admission!Reserved > 0, Admission!HoldsSlot \subseteq WorkerCallers
        PROVE  slots < Admission!Total
    <2>1. Admission!HoldsSlot \intersect WorkerCallers = Admission!HoldsSlot
      BY <1>6
    <2>2. slots \in Nat /\ slots <= Admission!WorkerMax
      BY <1>2, <1>4, <1>5, <2>1
    <2>. QED  BY <1>6, <2>2, Capacities
  <1>. QED  BY <1>5, <1>6, AdmissionCardinality DEF Admission!ReservedForQueries

\* A cancelled or finished call never loses or mints a permit, and workers leave the
\* reserved ones to queries: the scheduler by itself, for any callers and slots.
THEOREM SchedulerBooks == Admission!Spec => []Admission!SlotsAccounted
  <1>1. PermitInv => Admission!SlotsAccounted
    BY Reservation DEF PermitInv, Admission!SlotsAccounted
  <1>2. PermitInv /\ [Admission!Next]_(Admission!vars) => PermitInv'
    BY PermitStep
  <1>. QED  BY <1>1, <1>2, PermitStart, PTL DEF Admission!Spec

----------------------------------------------------------------------------
(* The preflight                                                            *)

\* Run waits for its observer, which publishes the state just recorded; what is
\* recorded goes with a delay it may sleep.
Delays == {SuccessEvery} \union CheckInterval..MaxInterval
GateInv ==
    /\ Gate!TypeOK
    /\ run = "notify" <=> setting["observer"].at # 0
    /\ run = "notify" => setting["observer"].state = gate
    /\ run # "check" => nextDelay \in Delays

LEMMA GateInit == Gate!Init => GateInv
  BY PreflightAssumption DEF Gate!Init, GateInv, Gate!TypeOK, Gate!Setters, Gate!States

\* The retry delay stays between the first one and its bound.
LEMMA RetryDelays ==
    ASSUME NEW d \in Nat
    PROVE  Gate!NextBackoff(d) \in CheckInterval..MaxInterval
  BY PreflightAssumption DEF Gate!NextBackoff

LEMMA GateStep ==
    ASSUME GateInv, [Gate!Next]_(Gate!vars)
    PROVE  GateInv'
  <1>. USE PreflightAssumption
  <1>0. /\ Gate!TypeOK /\ nextDelay \in Nat /\ "observer" \in Gate!Setters
        /\ setting \in [Gate!Setters -> [state : Gate!States, at : 0..4]]
        /\ run = "notify" <=> setting["observer"].at # 0
        /\ run = "notify" => setting["observer"].state = gate
        /\ run # "check" => nextDelay \in Delays
    BY DEF GateInv, Gate!TypeOK, Gate!Setters
  <1>1. ASSUME NEW s \in {"compatible", "incompatible"}, run = "check", Gate!Record(s),
               nextDelay' \in Delays
        PROVE  GateInv'
    <2>1. /\ gate' = s /\ s \in Gate!States /\ UNCHANGED <<healthy, sleep, gauge>>
          /\ run' = IF gate # s THEN "notify" ELSE "rest"
      BY <1>1 DEF Gate!Record, Gate!States
    <2>2. setting["observer"].at = 0
      BY <1>0, <1>1
    <2>3. CASE gate # s
      <3>. DEFINE x == [state |-> s, at |-> 1]
      <3>1. x \in [state : Gate!States, at : 0..4] /\ x.at = 1 /\ x.state = s
        BY <2>1
      <3>2. setting' = [setting EXCEPT !["observer"] = x] /\ run' = "notify"
        BY <1>1, <2>1, <2>3 DEF Gate!Record
      <3>. HIDE DEF x
      <3>3. setting' \in [Gate!Setters -> [state : Gate!States, at : 0..4]] /\ setting'["observer"] = x
        BY <1>0, <3>1, <3>2
      <3>. QED  BY <1>0, <1>1, <2>1, <3>1, <3>2, <3>3 DEF GateInv, Gate!TypeOK, Delays
    <2>4. CASE gate = s
      <3>1. setting' = setting /\ run' = "rest"
        BY <1>1, <2>1, <2>4 DEF Gate!Record
      <3>. QED  BY <1>0, <1>1, <2>1, <2>2, <3>1 DEF GateInv, Gate!TypeOK, Delays
    <2>. QED  BY <2>3, <2>4
  <1>2. CASE Gate!CheckSucceeds
    <2>1. run = "check" /\ Gate!Record("compatible") /\ nextDelay' \in Delays
      BY <1>2 DEF Gate!CheckSucceeds, Delays
    <2>. QED  BY <1>1, <2>1
  <1>3. CASE Gate!CheckFails
    <2>1. run = "check" /\ Gate!Record("incompatible") /\ nextDelay' = Gate!NextBackoff(nextDelay)
      BY <1>3 DEF Gate!CheckFails
    <2>2. nextDelay' \in Delays
      BY <1>0, <2>1, RetryDelays DEF Delays
    <2>. QED  BY <1>1, <2>1, <2>2
  <1>4. CASE Gate!FallAsleep
    <2>1. sleep' \in 0..MaxInterval \union 0..SuccessEvery
      BY <1>0, <1>4 DEF Gate!FallAsleep, Delays
    <2>. QED  BY <1>0, <1>4, <2>1 DEF Gate!FallAsleep, GateInv, Gate!TypeOK
  <1>5. CASE Gate!Tick \/ Gate!WakeUp
    <2>1. sleep' \in 0..MaxInterval \union 0..SuccessEvery
      BY <1>0, <1>5 DEF Gate!Tick, Gate!WakeUp, Gate!TypeOK
    <2>. QED  BY <1>0, <1>5, <2>1 DEF Gate!Tick, Gate!WakeUp, GateInv, Gate!TypeOK
  <1>6. CASE Gate!Publish
    <2>. DEFINE x == [state |-> gate, at |-> 1]
    <2>1. x \in [state : Gate!States, at : 0..4]
      BY <1>0 DEF Gate!TypeOK
    <2>2. /\ setting' = [setting EXCEPT !["publisher"] = x]
          /\ UNCHANGED <<healthy, gate, nextDelay, run, sleep, gauge>>
      BY <1>6 DEF Gate!Publish, Gate!preflight
    <2>. HIDE DEF x
    <2>3. /\ setting' \in [Gate!Setters -> [state : Gate!States, at : 0..4]]
          /\ setting'["observer"] = setting["observer"]
      BY <1>0, <2>1, <2>2 DEF Gate!Setters
    <2>. QED  BY <1>0, <2>2, <2>3 DEF GateInv, Gate!TypeOK
  <1>7. ASSUME NEW s \in Gate!Setters, Gate!WriteSeries(s) PROVE GateInv'
    <2>. PICK x : x = [setting[s] EXCEPT !.at = IF @ = 4 THEN 0 ELSE @ + 1]
      OBVIOUS
    <2>1. /\ setting[s] \in [state : Gate!States, at : 0..4] /\ setting[s].at # 0
          /\ UNCHANGED <<healthy, gate, nextDelay, sleep>> /\ gauge' = Gate!SeriesWritten(s)
          /\ run' = IF s = "observer" /\ setting[s].at = 4 THEN "rest" ELSE run
      BY <1>0, <1>7 DEF Gate!WriteSeries, Gate!NotSetting
    <2>2. setting' = [setting EXCEPT ![s] = x]
      BY <1>0, <1>7 DEF Gate!WriteSeries
    <2>3. /\ x \in [state : Gate!States, at : 0..4] /\ x.state = setting[s].state
          /\ x.at = 0 <=> setting[s].at = 4
      BY <2>1
    <2>4. gauge' \subseteq Gate!States
      BY <1>0, <2>1 DEF Gate!SeriesWritten, Gate!TypeOK
    <2>5. setting' \in [Gate!Setters -> [state : Gate!States, at : 0..4]]
      BY <1>0, <2>2, <2>3
    <2>6. Gate!TypeOK'
      BY <1>0, <2>1, <2>4, <2>5 DEF Gate!TypeOK
    <2>7. CASE s = "observer"
      <3>1. setting'["observer"] = x /\ run = "notify"
        BY <1>0, <2>1, <2>2, <2>7
      <3>. QED  BY <1>0, <2>1, <2>3, <2>6, <2>7, <3>1 DEF GateInv, Delays
    <2>8. CASE s # "observer"
      <3>1. setting'["observer"] = setting["observer"] /\ run' = run
        BY <1>0, <2>1, <2>2, <2>8
      <3>. QED  BY <1>0, <2>1, <2>6, <3>1 DEF GateInv, Delays
    <2>. QED  BY <2>7, <2>8
  <1>8. CASE Gate!Flip
    <2>1. healthy' \in BOOLEAN /\ UNCHANGED <<gate, nextDelay, run, sleep, gauge, setting>>
      BY <1>0, <1>8 DEF Gate!Flip, Gate!preflight, Gate!TypeOK
    <2>. QED  BY <1>0, <2>1 DEF GateInv, Gate!TypeOK, Delays
  <1>9. CASE UNCHANGED Gate!vars
    BY <1>0, <1>9 DEF Gate!vars, Gate!preflight, GateInv, Gate!TypeOK, Delays
  <1>. QED  BY <1>2, <1>3, <1>4, <1>5, <1>6, <1>7, <1>8, <1>9 DEF Gate!Next, Gate!Run

----------------------------------------------------------------------------
(* The three together                                                       *)

lanesVars == <<part, vars, schedulerVars, preflightVars>>

LanesInv == CircuitInv /\ PermitInv /\ GateInv

LEMMA LanesStart == LanesInit => LanesInv
  BY CircuitStart, PermitStart, GateInit DEF LanesInit, LanesInv

LEMMA LanesStep == LanesInv /\ [LanesNext]_lanesVars => LanesInv'
  <1>. SUFFICES ASSUME LanesInv, [LanesNext]_lanesVars PROVE LanesInv'
    OBVIOUS
  <1>1. [Next]_vars
    BY DEF LanesNext, lanesVars
  <1>2. [Admission!Next]_(Admission!vars)
    BY DEF LanesNext, lanesVars, schedulerVars, Admission!vars
  <1>3. [Gate!Next]_(Gate!vars)
    BY DEF LanesNext, lanesVars, preflightVars, Gate!vars, Gate!preflight
  <1>. QED  BY <1>1, <1>2, <1>3, CircuitStep, PermitStep, GateStep DEF LanesInv

\* The invariants of the breaker, of the scheduler and of the preflight.
THEOREM LanesInvariant == LanesSpec => []LanesInv
  BY LanesStart, LanesStep, PTL DEF LanesSpec, lanesVars

\* All three parts keep their types: the breaker's window stays within its bound, the
\* channels within their capacities, the delays of the preflight within theirs.
THEOREM LanesWellTyped == LanesSpec => []LanesTypeOK
  <1>1. LanesInv => LanesTypeOK
    BY DEF LanesInv, CircuitInv, PermitInv, GateInv, LanesTypeOK
  <1>. QED  BY <1>1, LanesInvariant, PTL

\* The scheduler neither loses nor mints a permit, and workers leave the reserved
\* ones to queries, whatever the numbers of callers and slots (scheduler.go).
THEOREM BooksAreRight == LanesSpec => []SlotsAccounted
  <1>1. PermitInv => SlotsAccounted
    BY Reservation DEF PermitInv, SlotsAccounted, Admission!SlotsAccounted
  <1>2. LanesInv => SlotsAccounted
    BY <1>1 DEF LanesInv
  <1>. QED  BY <1>2, LanesInvariant, PTL

\* The loop of preflight.go neither spins nor goes silent: each time it falls asleep it
\* is for the success delay or for a retry delay between the first and the bound.
RunPaced == [][run = "rest" /\ run' = "sleep" => sleep' \in Delays]_preflightVars

\* That pace holds for any check interval, any bound and any success delay.
THEOREM PreflightPaced == LanesSpec => RunPaced
  <1>1. ASSUME LanesInv, [LanesNext]_lanesVars
        PROVE  [run = "rest" /\ run' = "sleep" => sleep' \in Delays]_preflightVars
    <2>. SUFFICES ASSUME run = "rest", run' = "sleep" PROVE sleep' \in Delays
      OBVIOUS
    <2>1. [Gate!Next]_(Gate!vars)
      BY <1>1 DEF LanesNext, lanesVars, preflightVars, Gate!vars, Gate!preflight
    <2>2. Gate!FallAsleep
      BY <2>1 DEF Gate!vars, Gate!preflight, Gate!Next, Gate!Run, Gate!CheckSucceeds, Gate!CheckFails, Gate!Tick,
                  Gate!WakeUp, Gate!Publish, Gate!WriteSeries, Gate!Flip
    <2>3. nextDelay \in Delays /\ SuccessEvery \in Delays
      BY <1>1 DEF LanesInv, GateInv, Delays
    <2>. QED  BY <2>2, <2>3 DEF Gate!FallAsleep
  <1>. QED  BY <1>1, LanesInvariant, PTL DEF LanesSpec, lanesVars, RunPaced

====
