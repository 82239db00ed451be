---- MODULE EmbedInputsProofs ----
(***************************************************************************)
(* Proofs about EmbedInputs: for any texts, chunks, limits and number of     *)
(* goroutines, packing and pooling undo each other and the caller learns     *)
(* the cause of a failure.                                                  *)
(***************************************************************************)
EXTENDS EmbedInputs, FiniteSetTheorems, WellFoundedInduction, TLAPS

----------------------------------------------------------------------------
(* Running sums, which offsets and weights are                              *)

\* A set of natural numbers that is not empty has a least element.
LEMMA LeastOf == ASSUME NEW T \in SUBSET Nat, T # {} PROVE \E x \in T : \A y \in T : x <= y
<1> DEFINE R == {p \in Nat \X Nat : p[1] < p[2]}
<1>1. IsWellFoundedOn(R, Nat)
  BY NatLessThanWellFounded DEF OpToRel
<1>2. PICK x \in T : \A y \in T : ~(<<y, x>> \in R)
  BY <1>1, WFMin
<1>3. ASSUME NEW y \in T PROVE x <= y
  <2>1. x \in Nat /\ y \in Nat /\ <<y, x>> \in Nat \X Nat
    OBVIOUS
  <2>2. ~(<<y, x>>[1] < <<y, x>>[2])
    BY <1>2, <2>1
  <2> QED
    BY <2>1, <2>2
<1> QED
  BY <1>3

\* A running sum of c up to n.
SumTo(g, c, n) == g = [i \in 0..n |-> IF i = 0 THEN 0 ELSE g[i - 1] + c[i]]

LEMMA SumsExist == ASSUME NEW c PROVE \A n \in Nat : \E g : SumTo(g, c, n)
<1> DEFINE T == {n \in Nat : ~\E g : SumTo(g, c, n)}
<1> SUFFICES ASSUME T # {} PROVE FALSE
  OBVIOUS
<1>1. PICK n \in T : \A m \in T : n <= m
  BY LeastOf
<1>2. CASE n = 0
  <2> DEFINE g == [i \in 0..0 |-> 0]
  <2>1. g = [i \in 0..0 |-> IF i = 0 THEN 0 ELSE g[i - 1] + c[i]]
    OBVIOUS
  <2>2. SumTo(g, c, n)
    BY <1>2, <2>1 DEF SumTo
  <2> QED
    BY <2>2
<1>3. CASE n > 0
  <2>1. n - 1 \in Nat /\ n - 1 \notin T
    BY <1>1, <1>3
  <2>2. PICK g : SumTo(g, c, n - 1)
    BY <2>1
  <2> DEFINE h == [i \in 0..n |-> IF i = n THEN g[n - 1] + c[n] ELSE g[i]]
  <2>3. \A i \in 0..(n - 1) : g[i] = IF i = 0 THEN 0 ELSE g[i - 1] + c[i]
    BY <2>2 DEF SumTo
  <2>4. \A i \in 0..n : h[i] = IF i = 0 THEN 0 ELSE h[i - 1] + c[i]
    <3> SUFFICES ASSUME NEW i \in 0..n PROVE h[i] = IF i = 0 THEN 0 ELSE h[i - 1] + c[i]
      OBVIOUS
    <3>1. CASE i = n
      BY <1>3, <3>1
    <3>2. CASE i = 0
      BY <1>3, <2>3, <3>2
    <3>3. CASE i # n /\ i # 0
      <4>1. i \in 0..(n - 1) /\ i - 1 \in 0..n /\ i - 1 # n
        BY <3>3
      <4> QED
        BY <2>3, <3>3, <4>1
    <3> QED
      BY <3>1, <3>2, <3>3
  <2>5. h = [i \in 0..n |-> IF i = 0 THEN 0 ELSE h[i - 1] + c[i]]
    <3> HIDE DEF h
    <3>1. h = [i \in 0..n |-> h[i]]
      BY DEF h
    <3> QED
      BY <2>4, <3>1
  <2> HIDE DEF h
  <2>6. SumTo(h, c, n)
    BY <2>5 DEF SumTo
  <2> QED
    BY <2>6
<1> QED
  BY <1>1, <1>2, <1>3

LEMMA SumsAgree ==
    ASSUME NEW c, NEW m \in Nat, NEW n \in Nat, NEW g, NEW h, SumTo(g, c, m), SumTo(h, c, n)
    PROVE  \A k \in Nat : k <= m /\ k <= n => g[k] = h[k]
<1> DEFINE T == {k \in Nat : k <= m /\ k <= n /\ g[k] # h[k]}
<1> SUFFICES ASSUME T # {} PROVE FALSE
  OBVIOUS
<1>1. PICK k \in T : \A j \in T : k <= j
  BY LeastOf
<1>2. /\ g[k] = IF k = 0 THEN 0 ELSE g[k - 1] + c[k]
      /\ h[k] = IF k = 0 THEN 0 ELSE h[k - 1] + c[k]
  BY DEF SumTo
<1>3. k # 0
  BY <1>2
<1>4. k - 1 \in Nat /\ k - 1 \notin T
  BY <1>1, <1>3
<1> QED
  BY <1>2, <1>3, <1>4

\* The running sum of any function exists, so its definition is what it says.
LEMMA RunningSum ==
    ASSUME NEW c
    PROVE  \E f : f = [i \in Nat |-> IF i = 0 THEN 0 ELSE f[i - 1] + c[i]]
<1> DEFINE G == [n \in Nat |-> CHOOSE g : SumTo(g, c, n)]
           f == [n \in Nat |-> G[n][n]]
<1>1. \A n \in Nat : SumTo(G[n], c, n)
  BY SumsExist
<1>2. ASSUME NEW i \in Nat PROVE f[i] = IF i = 0 THEN 0 ELSE f[i - 1] + c[i]
  <2>1. G[i][i] = IF i = 0 THEN 0 ELSE G[i][i - 1] + c[i]
    <3> HIDE DEF G
    <3>1. PICK g : g = G[i]
      OBVIOUS
    <3>2. g = [j \in 0..i |-> IF j = 0 THEN 0 ELSE g[j - 1] + c[j]]
      BY <1>1, <3>1 DEF SumTo
    <3> QED
      BY <3>1, <3>2
  <2>2. CASE i = 0
    BY <2>1, <2>2
  <2>3. CASE i # 0
    <3>1. i - 1 \in Nat /\ SumTo(G[i], c, i) /\ SumTo(G[i - 1], c, i - 1)
      BY <1>1, <2>3
    <3> HIDE DEF G
    <3>2. G[i][i - 1] = G[i - 1][i - 1]
      BY <3>1, SumsAgree
    <3>3. f[i] = G[i][i] /\ f[i - 1] = G[i - 1][i - 1]
      BY <3>1
    <3> QED
      BY <2>1, <2>3, <3>2, <3>3
  <2> QED
    BY <2>2, <2>3
<1>3. f = [i \in Nat |-> f[i]]
  OBVIOUS
<1> HIDE DEF f
<1>4. f = [i \in Nat |-> IF i = 0 THEN 0 ELSE f[i - 1] + c[i]]
  BY <1>2, <1>3
<1> QED
  BY <1>4

\* Sums of natural numbers are natural and do not decrease.
LEMMA SumsGrow ==
    ASSUME NEW f, NEW c, NEW m \in Nat, \A i \in 1..m : c[i] \in Nat,
           \A i \in Nat : f[i] = IF i = 0 THEN 0 ELSE f[i - 1] + c[i]
    PROVE  \A i \in 0..m : f[i] \in Nat /\ \A j \in 0..i : f[j] <= f[i]
<1> DEFINE T == {i \in Nat : i <= m /\ ~(f[i] \in Nat /\ \A j \in 0..i : f[j] <= f[i])}
<1> SUFFICES ASSUME T # {} PROVE FALSE
  OBVIOUS
<1>1. PICK i \in T : \A j \in T : i <= j
  BY LeastOf
<1>2. CASE i = 0
  <2>1. f[i] = 0
    BY <1>2
  <2> QED
    BY <1>2, <2>1
<1>3. CASE i # 0
  <2>1. i - 1 \in Nat /\ i - 1 \notin T /\ i \in 1..m
    BY <1>1, <1>3
  <2>2. f[i - 1] \in Nat /\ \A j \in 0..(i - 1) : f[j] <= f[i - 1]
    BY <2>1
  <2>3. f[i] = f[i - 1] + c[i] /\ c[i] \in Nat
    BY <1>3, <2>1
  <2>4. f[i] \in Nat /\ f[i - 1] <= f[i]
    BY <2>2, <2>3
  <2>5. ASSUME NEW j \in 0..i PROVE f[j] <= f[i]
    <3>1. CASE j = i
      BY <2>4, <3>1
    <3>2. CASE j # i
      <4>1. j \in 0..(i - 1)
        BY <2>1, <3>2
      <4>2. f[j] <= f[i - 1] /\ f[j] \in Nat
        <5>1. j \in Nat /\ j \notin T
          BY <1>1, <2>1, <4>1
        <5> QED
          BY <2>1, <2>2, <4>1, <5>1
      <4> QED
        BY <2>2, <2>4, <4>2
    <3> QED
      BY <3>1, <3>2
  <2> QED
    BY <2>4, <2>5
<1> QED
  BY <1>2, <1>3

LEMMA OffsetStep == \A i \in Nat : Offset[i] = IF i = 0 THEN 0 ELSE Offset[i - 1] + counts[i]
<1>1. Offset = [i \in Nat |-> IF i = 0 THEN 0 ELSE Offset[i - 1] + counts[i]]
  BY RunningSum DEF Offset
<1> QED
  BY <1>1

LEMMA WeightStep == \A i \in Nat : Weight[i] = IF i = 0 THEN 0 ELSE Weight[i - 1] + tokens[i]
<1>1. Weight = [i \in Nat |-> IF i = 0 THEN 0 ELSE Weight[i - 1] + tokens[i]]
  BY RunningSum DEF Weight
<1> QED
  BY <1>1

----------------------------------------------------------------------------
(* The inductive invariant                                                  *)

\* The texts have chunks and the chunks have tokens.
InputShape ==
    /\ \E t \in 1..MaxTexts : counts \in [1..t -> 1..MaxChunks]
    /\ tokens \in [1..Offset[Len(counts)] -> TokenCounts]

\* The requests packed so far cover the chunks before first, each once.
Tiled ==
    /\ \E l \in Nat : batches \in [1..l -> [from : Nat \ {0}, to : Nat]]
    /\ end \in 1..(Len(tokens) + 1) /\ first \in 1..end
    /\ \A b \in DOMAIN batches : batches[b].from <= batches[b].to /\ batches[b].to < first
    /\ \A n \in 1..(first - 1) : \E b \in DOMAIN batches : n \in Batch(b)
    /\ \A b, c \in DOMAIN batches : \A n \in Batch(b) : n \in Batch(c) => b = c

\* The request in hand is within its limits as well.
InHand ==
    /\ size = Weight[end - 1] - Weight[first - 1]
    /\ end > first => \/ size <= PackLimit
                      \/ end = first + 1 /\ tokens[first] <= RequestTokenLimit

Packed == InputShape /\ Tiled /\ InHand /\ PackedWithinLimit

\* Goroutines exist once everything is packed, one slot each, and nobody is at work
\* when the call has returned.
Started == main \in {"send", "join"} \/ answer \in {"backend", "cancelled", "ok"}
PoolShape ==
    /\ \E l \in Nat : pool \in [1..l -> {"wait", "acquire", "embed", "report", "cancel", "exit"}]
    /\ hand \in [DOMAIN pool -> 0..Len(batches)]
    /\ fault \in [DOMAIN pool -> {"none", "backend", "cancelled"}]
    /\ main = "pack" => pool = <<>>
    /\ main = "returned" => \A w \in DOMAIN pool : pool[w] = "exit"
    /\ Started => first = Len(tokens) + 1 /\ DOMAIN results = DOMAIN batches
    /\ main # "returned" <=> answer = "none"
    /\ main = "pack" => next = 1

\* Request b has been answered with the vectors of its chunks, in their order.
Served(b) == results[b] = [i \in 1..RequestSize(b) |-> batches[b].from - 1 + i]

\* A request that was handed out is served, at work, or behind an error.
Accounted ==
    /\ \A w \in DOMAIN pool : pool[w] \in {"acquire", "embed"} => hand[w] \in 1..(next - 1)
    /\ Started => \A b \in 1..(next - 1) :
         \/ Served(b) \/ errCh # "none"
         \/ \E w \in DOMAIN pool : \/ pool[w] \in {"acquire", "embed"} /\ hand[w] = b
                                   \/ pool[w] = "report"
    /\ main = "join" => next > Len(batches) \/ ContextDone
    /\ answer = "ok" => \A b \in DOMAIN batches : Served(b)

\* The shared context is cancelled after an error was reported, and an error that
\* only says so came later or comes from the caller's own context.
Causes ==
    /\ cancelled => errCh # "none"
    /\ errCh = "cancelled" => parentDone
    /\ \A w \in DOMAIN pool :
         /\ pool[w] = "report" => fault[w] # "none"
         /\ pool[w] = "report" /\ fault[w] = "cancelled" => parentDone \/ errCh # "none"
         /\ pool[w] = "cancel" => errCh # "none"

EmbedInv ==
    /\ TypeOK /\ Packed /\ PoolShape /\ Accounted /\ Causes /\ RootCauseReported
    /\ cancelled \in BOOLEAN /\ parentDone \in BOOLEAN

----------------------------------------------------------------------------
(* Steps                                                                    *)

\* The numbers behind the input.
LEMMA InputFacts ==
    ASSUME InputShape
    PROVE  /\ Len(counts) \in Nat /\ Len(tokens) \in Nat /\ Len(tokens) = Offset[Len(counts)]
           /\ DOMAIN tokens = 1..Len(tokens) /\ \A n \in 1..Len(tokens) : tokens[n] \in Nat
           /\ \A i \in 0..Len(counts) : Offset[i] \in Nat /\ \A j \in 0..i : Offset[j] <= Offset[i]
           /\ \A n \in 0..Len(tokens) : Weight[n] \in Nat
<1> USE EmbedAssumption
<1>1. PICK t \in 1..MaxTexts : counts \in [1..t -> 1..MaxChunks]
  BY DEF InputShape
<1>2. Len(counts) = t /\ t \in Nat /\ \A i \in 1..t : counts[i] \in Nat
  BY <1>1
<1> PICK off : off = Offset
  OBVIOUS
<1>3. \A i \in 0..t : off[i] \in Nat /\ \A j \in 0..i : off[j] <= off[i]
  BY <1>2, OffsetStep, SumsGrow
<1>4. off[t] \in Nat /\ tokens \in [1..off[t] -> TokenCounts]
  BY <1>2, <1>3 DEF InputShape
<1>5. Len(tokens) = off[t] /\ DOMAIN tokens = 1..off[t] /\ \A n \in 1..off[t] : tokens[n] \in Nat
  <2> PICK m \in Nat : m = off[t]
    BY <1>4
  <2>1. tokens \in [1..m -> TokenCounts]
    BY <1>4
  <2>2. Len(tokens) = m /\ DOMAIN tokens = 1..m
    BY <2>1
  <2> QED
    BY <2>1, <2>2
<1> PICK w : w = Weight
  OBVIOUS
<1>6. \A n \in 0..Len(tokens) : w[n] \in Nat
  BY <1>4, <1>5, WeightStep, SumsGrow
<1> QED
  BY <1>2, <1>3, <1>4, <1>5, <1>6

LEMMA EmbedInit == Init => EmbedInv
<1> SUFFICES ASSUME Init PROVE EmbedInv
  OBVIOUS
<1> USE EmbedAssumption
<1>1. InputShape
  BY DEF Init, InputShape
<1>2. Len(tokens) \in Nat /\ Weight[0] \in Nat
  BY <1>1, InputFacts
<1>3. batches \in [1..0 -> [from : Nat \ {0}, to : Nat]] /\ DOMAIN batches = {} /\ Len(batches) = 0
  BY DEF Init
<1>4. Tiled
  <2>1. \E l \in Nat : batches \in [1..l -> [from : Nat \ {0}, to : Nat]]
    BY <1>3
  <2>2. end \in 1..(Len(tokens) + 1) /\ first \in 1..end /\ 1..(first - 1) = {}
    BY <1>2 DEF Init
  <2> QED
    BY <1>3, <2>1, <2>2 DEF Tiled
<1>5. InHand
  BY <1>2 DEF InHand, Init
<1>6. PackedWithinLimit
  BY <1>3 DEF PackedWithinLimit
<1>7. DOMAIN pool = {} /\ pool \in [1..0 -> {"wait", "acquire", "embed", "report", "cancel", "exit"}]
  BY DEF Init
<1>8. hand \in [DOMAIN pool -> 0..Len(batches)] /\ fault \in [DOMAIN pool -> {"none", "backend", "cancelled"}]
  BY <1>3, <1>7 DEF Init
<1>9. PoolShape
  BY <1>7, <1>8 DEF PoolShape, Started, Init
<1>10. Accounted /\ Causes /\ RootCauseReported
  BY <1>7 DEF Accounted, Causes, RootCauseReported, Started, Init
<1>11. TypeOK
  BY <1>2, <1>3, <1>7 DEF TypeOK, Init
<1> QED
  BY <1>1, <1>4, <1>5, <1>6, <1>9, <1>10, <1>11 DEF EmbedInv, Packed, Init

\* Once packed, input and requests do not change any more.
LEMMA PackedKept == Packed /\ UNCHANGED <<input, packing>> => Packed'
<1> SUFFICES ASSUME Packed, UNCHANGED <<input, packing>> PROVE Packed'
  OBVIOUS
<1>1. UNCHANGED <<counts, tokens, batches, first, size, end>>
  BY DEF input, packing
<1>2. Offset' = Offset /\ Weight' = Weight
  BY <1>1 DEF Offset, Weight
<1>3. \A b : Batch(b)' = Batch(b) /\ RequestSize(b)' = RequestSize(b)
  BY <1>1 DEF Batch, RequestSize
<1>4. InputShape' /\ Tiled' /\ InHand'
  BY <1>1, <1>2, <1>3 DEF Packed, InputShape, Tiled, InHand
<1>5. PackedWithinLimit'
  BY <1>1, <1>2, <1>3 DEF Packed, PackedWithinLimit
<1> QED
  BY <1>4, <1>5 DEF Packed

\* While requests are packed there is no pool.
LEMMA PackingFacts ==
    ASSUME EmbedInv, main = "pack"
    PROVE  /\ pool = <<>> /\ DOMAIN pool = {} /\ answer = "none" /\ InputShape
           /\ Len(tokens) \in Nat /\ end \in 1..(Len(tokens) + 1) /\ first \in 1..end
<1> QED
  BY InputFacts DEF EmbedInv, PoolShape, Packed, Tiled

LEMMA RejectStep == ASSUME EmbedInv, RejectInput PROVE EmbedInv'
<1>1. main = "pack" /\ main' = "returned" /\ answer' = "invalid"
  BY DEF RejectInput
<1>2. UNCHANGED <<input, packing, next, bodies, results, errCh, cancelled, parentDone>>
  BY DEF RejectInput
<1>3. UNCHANGED <<counts, tokens, batches, first, size, end, next, pool, hand, fault, results, errCh, cancelled, parentDone>>
  BY <1>2 DEF input, packing, bodies
<1>4. Packed'
  BY <1>2, PackedKept DEF EmbedInv
<1>5. DOMAIN pool = {} /\ DOMAIN pool' = {}
  BY <1>1, <1>3, PackingFacts
<1>6. TypeOK'
  BY <1>1, <1>3 DEF EmbedInv, TypeOK
<1>7. PoolShape' /\ Accounted' /\ Causes' /\ RootCauseReported'
  BY <1>1, <1>3, <1>5 DEF EmbedInv, PoolShape, Accounted, Causes, RootCauseReported, Started
<1> QED
  BY <1>3, <1>4, <1>6, <1>7 DEF EmbedInv

\* The next chunk joins the request in hand.
LEMMA TakeStep == ASSUME EmbedInv, TakeInput PROVE EmbedInv'
<1> USE EmbedAssumption
<1>1. /\ main = "pack" /\ end \in 1..Len(tokens) /\ tokens[end] <= RequestTokenLimit /\ Fits(end)
      /\ size' = size + tokens[end] /\ end' = end + 1
      /\ UNCHANGED <<input, batches, first, main, next, bodies, results, errCh, cancelled, parentDone, answer>>
  BY DEF TakeInput, Inputs
<1>2. UNCHANGED <<counts, tokens, batches, first, main, next, pool, hand, fault, results, errCh, cancelled, parentDone, answer>>
  BY <1>1 DEF input, bodies
<1>3. Offset' = Offset /\ Weight' = Weight
  BY <1>2 DEF Offset, Weight
<1>4. \A b : Batch(b)' = Batch(b) /\ RequestSize(b)' = RequestSize(b)
  BY <1>2 DEF Batch, RequestSize
<1>5. Len(tokens) \in Nat /\ first \in 1..end /\ InputShape /\ InHand
  BY <1>1, PackingFacts DEF EmbedInv, Packed
<1>6. /\ Weight[end] = Weight[end - 1] + tokens[end] /\ tokens[end] \in Nat
      /\ Weight[end - 1] \in Nat /\ Weight[first - 1] \in Nat
  BY <1>1, <1>5, WeightStep, InputFacts
<1>7. InputShape'
  BY <1>2, <1>3, <1>5 DEF InputShape
<1>8. Tiled'
  <2>1. end' \in 1..(Len(tokens') + 1) /\ first' \in 1..end'
    BY <1>1, <1>2, <1>5
  <2> QED
    BY <1>2, <1>4, <2>1 DEF EmbedInv, Packed, Tiled
<1>9. InHand'
  <2>1. size = Weight[end - 1] - Weight[first - 1]
    BY <1>5 DEF InHand
  <2>2. size' = Weight[end] - Weight[first - 1] /\ end' - 1 = end
    BY <1>1, <1>5, <1>6, <2>1
  <2>3. CASE end = first
    BY <1>1, <1>2, <1>3, <1>5, <2>2, <2>3 DEF InHand
  <2>4. CASE end # first
    <3>1. size + tokens[end] <= PackLimit
      BY <1>1, <2>4 DEF Fits
    <3> QED
      BY <1>1, <1>2, <1>3, <2>2, <3>1 DEF InHand
  <2> QED
    BY <2>3, <2>4
<1>10. PackedWithinLimit'
  BY <1>2, <1>3, <1>4 DEF EmbedInv, Packed, PackedWithinLimit
<1>11. DOMAIN pool = {}
  BY <1>1, PackingFacts
<1>12. TypeOK'
  BY <1>1, <1>2, <1>5 DEF EmbedInv, TypeOK
<1>13. PoolShape' /\ Accounted' /\ Causes' /\ RootCauseReported'
  <2>1. ~Started /\ answer = "none"
    BY <1>1, PackingFacts DEF Started
  <2> QED
    BY <1>1, <1>2, <1>11, <2>1 DEF EmbedInv, PoolShape, Accounted, Causes, RootCauseReported, Started
<1> QED
  BY <1>2, <1>7, <1>8, <1>9, <1>10, <1>12, <1>13 DEF EmbedInv, Packed

\* The request in hand is closed.
LEMMA CloseStep == ASSUME EmbedInv, CloseBatch PROVE EmbedInv'
<1> USE EmbedAssumption
<1> DEFINE new == [from |-> first, to |-> end - 1]
<1> PICK k : k = Len(batches) + 1
  OBVIOUS
<1>1. /\ main = "pack" /\ end > first /\ first' = end /\ size' = 0 /\ batches' = Append(batches, new)
      /\ UNCHANGED <<input, end, main, next, bodies, results, errCh, cancelled, parentDone, answer>>
  BY DEF CloseBatch
<1>2. UNCHANGED <<counts, tokens, end, main, next, pool, hand, fault, results, errCh, cancelled, parentDone, answer>>
  BY <1>1 DEF input, bodies
<1>3. Offset' = Offset /\ Weight' = Weight
  BY <1>2 DEF Offset, Weight
<1>4. /\ Len(tokens) \in Nat /\ end \in 1..(Len(tokens) + 1) /\ first \in 1..end
      /\ InputShape /\ InHand /\ Tiled /\ PackedWithinLimit
  BY <1>1, PackingFacts DEF EmbedInv, Packed
<1>5. PICK l \in Nat : batches \in [1..l -> [from : Nat \ {0}, to : Nat]]
  BY <1>4 DEF Tiled
<1>6. Len(batches) = l /\ DOMAIN batches = 1..l /\ k = l + 1 /\ new \in [from : Nat \ {0}, to : Nat]
  BY <1>1, <1>4, <1>5
<1>7. /\ batches' \in [1..(l + 1) -> [from : Nat \ {0}, to : Nat]] /\ Len(batches') = l + 1 /\ DOMAIN batches' = 1..(l + 1)
      /\ batches'[k] = new /\ \A b \in 1..l : batches'[b] = batches[b]
  <2> DEFINE R == [from : Nat \ {0}, to : Nat]
  <2>0. batches \in [1..l -> R] /\ new \in R
    BY <1>5, <1>6
  <2> HIDE DEF R, new
  <2>1. batches \in Seq(R) /\ new \in R
    BY <2>0
  <2>2. /\ batches' \in Seq(R) /\ Len(batches') = l + 1 /\ DOMAIN batches' = 1..(l + 1)
        /\ batches'[k] = new /\ \A b \in 1..l : batches'[b] = batches[b]
    BY <1>1, <1>6, <2>1
  <2>3. batches' \in [1..(l + 1) -> R]
    BY <2>2
  <2> QED
    BY <2>2, <2>3 DEF R
<1>8. /\ \A b \in 1..l : Batch(b)' = Batch(b) /\ RequestSize(b)' = RequestSize(b)
      /\ Batch(k)' = first..(end - 1) /\ RequestSize(k)' = end - first
  <2>1. \A b : Batch(b)' = batches'[b].from..batches'[b].to /\ RequestSize(b)' = batches'[b].to - batches'[b].from + 1
    BY DEF Batch, RequestSize
  <2>2. \A b \in 1..l : Batch(b)' = Batch(b) /\ RequestSize(b)' = RequestSize(b)
    BY <1>7, <2>1 DEF Batch, RequestSize
  <2>3. batches'[k].from = first /\ batches'[k].to = end - 1
    BY <1>7
  <2> QED
    BY <1>4, <1>6, <2>1, <2>2, <2>3
<1>9. InputShape'
  BY <1>2, <1>3, <1>4 DEF InputShape
<1>10. Tiled'
  <2>1. \A b \in 1..(l + 1) : batches'[b].from <= batches'[b].to /\ batches'[b].to < first'
    <3> SUFFICES ASSUME NEW b \in 1..(l + 1) PROVE batches'[b].from <= batches'[b].to /\ batches'[b].to < first'
      OBVIOUS
    <3>1. CASE b \in 1..l
      <4>1. batches[b].from <= batches[b].to /\ batches[b].to < first /\ batches[b].to \in Nat
        BY <1>4, <1>5, <1>6, <3>1 DEF Tiled
      <4>2. batches'[b] = batches[b]
        BY <1>7, <3>1
      <4>3. first' = end /\ first <= end /\ first \in Nat /\ end \in Nat
        BY <1>1, <1>4
      <4> QED
        BY <4>1, <4>2, <4>3
    <3>2. CASE b = k
      BY <1>1, <1>4, <1>7, <3>2
    <3> QED
      BY <1>6, <3>1, <3>2
  <2>2. \A n \in 1..(first' - 1) : \E b \in 1..(l + 1) : n \in Batch(b)'
    <3> SUFFICES ASSUME NEW n \in 1..(end - 1) PROVE \E b \in 1..(l + 1) : n \in Batch(b)'
      BY <1>1
    <3>1. CASE n \in 1..(first - 1)
      <4>1. PICK b \in 1..l : n \in Batch(b)
        BY <1>4, <1>6, <3>1 DEF Tiled
      <4> QED
        BY <1>8, <4>1
    <3>2. CASE n \in first..(end - 1)
      BY <1>6, <1>8, <3>2
    <3> QED
      BY <1>4, <3>1, <3>2
  <2>3. ASSUME NEW b \in 1..(l + 1), NEW c \in 1..(l + 1), NEW n, n \in Batch(b)', n \in Batch(c)' PROVE b = c
    <3>1. \A d \in 1..l : \A m \in Batch(d) : m < first
      BY <1>4, <1>5, <1>6 DEF Tiled, Batch
    <3>2. CASE b \in 1..l /\ c \in 1..l
      BY <1>4, <1>6, <1>8, <2>3, <3>2 DEF Tiled
    <3>3. CASE b = k /\ c \in 1..l
      BY <1>4, <1>8, <2>3, <3>1, <3>3
    <3>4. CASE b \in 1..l /\ c = k
      BY <1>4, <1>8, <2>3, <3>1, <3>4
    <3> QED
      BY <1>6, <3>2, <3>3, <3>4
  <2>4. end' \in 1..(Len(tokens') + 1) /\ first' \in 1..end'
    BY <1>1, <1>2, <1>4
  <2>5. \E m \in Nat : batches' \in [1..m -> [from : Nat \ {0}, to : Nat]]
    BY <1>7
  <2>6. \A b, c \in DOMAIN batches' : \A n \in Batch(b)' : n \in Batch(c)' => b = c
    BY <1>7, <2>3
  <2> QED
    BY <1>7, <2>1, <2>2, <2>4, <2>5, <2>6 DEF Tiled
<1>11. InHand'
  <2>1. Weight[end - 1] \in Nat
    BY <1>4, InputFacts
  <2> QED
    BY <1>1, <1>2, <1>3, <1>4, <2>1 DEF InHand
<1>12. PackedWithinLimit'
  <2> SUFFICES ASSUME NEW b \in 1..(l + 1)
               PROVE  /\ RequestSize(b)' >= 1
                      /\ \/ Weight[batches'[b].to] - Weight[batches'[b].from - 1] <= PackLimit
                         \/ RequestSize(b)' = 1 /\ tokens[batches'[b].from] <= RequestTokenLimit
    BY <1>2, <1>3, <1>7 DEF PackedWithinLimit
  <2>1. CASE b \in 1..l
    BY <1>4, <1>6, <1>7, <1>8, <2>1 DEF PackedWithinLimit
  <2>2. CASE b = k
    BY SMTT(30), <1>1, <1>4, <1>7, <1>8, <2>2 DEF InHand
  <2> QED
    BY <1>6, <2>1, <2>2
<1>13. DOMAIN pool = {}
  BY <1>1, PackingFacts
<1>14. TypeOK'
  BY <1>1, <1>2, <1>4, <1>6, <1>7, <1>13 DEF EmbedInv, TypeOK
<1>15. PoolShape' /\ Accounted' /\ Causes' /\ RootCauseReported'
  <2>1. ~Started /\ answer = "none"
    BY <1>1, PackingFacts DEF Started
  <2>2. hand' \in [DOMAIN pool' -> 0..Len(batches')]
    BY <1>2, <1>13 DEF EmbedInv, PoolShape
  <2>3. PoolShape'
    BY <1>1, <1>2, <2>1, <2>2 DEF EmbedInv, PoolShape, Started
  <2>4. Accounted' /\ Causes' /\ RootCauseReported'
    BY <1>1, <1>2, <1>13, <2>1 DEF EmbedInv, Accounted, Causes, RootCauseReported, Started
  <2> QED
    BY <2>3, <2>4
<1> QED
  BY <1>2, <1>9, <1>10, <1>11, <1>12, <1>14, <1>15 DEF EmbedInv, Packed


\* The pool starts with everything packed.
LEMMA StartStep == ASSUME EmbedInv, StartPool PROVE EmbedInv'
<1> USE EmbedAssumption
<1>1. /\ main = "pack" /\ first > Len(tokens) /\ main' = "send"
      /\ pool' = [w \in 1..PoolSize |-> "wait"] /\ hand' = [w \in 1..PoolSize |-> 0]
      /\ fault' = [w \in 1..PoolSize |-> "none"] /\ results' = [b \in 1..Len(batches) |-> <<>>]
      /\ UNCHANGED <<input, packing, next, errCh, cancelled, parentDone, answer>>
  BY DEF StartPool
<1>2. UNCHANGED <<counts, tokens, batches, first, size, end, next, errCh, cancelled, parentDone, answer>>
  BY <1>1 DEF input, packing
<1>3. Packed'
  BY <1>1, PackedKept DEF EmbedInv
<1>4. /\ Len(tokens) \in Nat /\ end \in 1..(Len(tokens) + 1) /\ first \in 1..end
      /\ answer = "none" /\ DOMAIN pool = {}
  BY <1>1, PackingFacts
<1>5. PICK l \in Nat : batches \in [1..l -> [from : Nat \ {0}, to : Nat]]
  BY DEF EmbedInv, Packed, Tiled
<1>6. Len(batches) = l /\ DOMAIN batches = 1..l
  BY <1>5
<1>7. PICK k \in Nat : k = PoolSize
  BY <1>6 DEF PoolSize
<1>8. /\ pool' \in [1..k -> {"wait", "acquire", "embed", "report", "cancel", "exit"}] /\ DOMAIN pool' = 1..k
      /\ hand' \in [1..k -> 0..Len(batches)] /\ fault' \in [1..k -> {"none", "backend", "cancelled"}]
      /\ \A w \in 1..k : pool'[w] = "wait" /\ hand'[w] = 0 /\ fault'[w] = "none"
  BY <1>1, <1>6, <1>7
<1>9. next = 1
  BY <1>1 DEF EmbedInv, PoolShape
<1>10. TypeOK'
  BY <1>1, <1>2, <1>4, <1>8 DEF EmbedInv, TypeOK
<1>11. PoolShape'
  <2>1. \E m \in Nat : pool' \in [1..m -> {"wait", "acquire", "embed", "report", "cancel", "exit"}]
    BY <1>8
  <2> QED
    BY <1>1, <1>2, <1>4, <1>6, <1>8, <2>1 DEF PoolShape
<1>12. Accounted' /\ Causes' /\ RootCauseReported'
  BY <1>1, <1>2, <1>4, <1>8, <1>9 DEF EmbedInv, Accounted, Causes, RootCauseReported
<1> QED
  BY <1>2, <1>3, <1>10, <1>11, <1>12 DEF EmbedInv


\* A request is served whatever else happens to its neighbours.
LEMMA ServedKept ==
    ASSUME UNCHANGED batches, NEW b, results'[b] = results[b]
    PROVE  Served(b)' <=> Served(b)
BY DEF Served, RequestSize

\* Who is at work in the pool is so between the start and the end of the call.
LEMMA AtWork ==
    ASSUME EmbedInv, NEW w \in DOMAIN pool, pool[w] # "exit"
    PROVE  main \in {"send", "join"} /\ answer = "none"
BY DEF EmbedInv, PoolShape, TypeOK

\* A step of one goroutine.
LEMMA PoolMove ==
    ASSUME EmbedInv, NEW w \in DOMAIN pool, main \in {"send", "join"},
           UNCHANGED <<input, packing, main, next, hand, parentDone, answer>>,
           NEW p \in {"wait", "acquire", "embed", "report", "cancel", "exit"},
           pool' = [pool EXCEPT ![w] = p],
           NEW e \in {"none", "backend", "cancelled"}, fault' = [fault EXCEPT ![w] = e],
           errCh' \in {"none", "backend", "cancelled"}, cancelled' \in BOOLEAN,
           DOMAIN results' = DOMAIN results,
           p \in {"acquire", "embed"} => pool[w] \in {"acquire", "embed"},
           errCh # "none" => errCh' = errCh, cancelled' => errCh' # "none",
           errCh' = "cancelled" => parentDone, cancelled => cancelled',
           p = "report" => e # "none",
           p = "report" /\ e = "cancelled" => parentDone \/ errCh' # "none",
           p = "cancel" => errCh' # "none",
           \A b \in 1..(next - 1) : Served(b) => Served(b)',
           pool[w] \in {"acquire", "embed"} => p \in {"acquire", "embed", "report"} \/ Served(hand[w])',
           pool[w] = "report" => errCh' # "none"
    PROVE  EmbedInv'
<1>1. Packed'
  BY PackedKept DEF EmbedInv
<1>2. UNCHANGED <<counts, tokens, batches, first, size, end>>
  BY DEF input, packing
<1>3. PICK l \in Nat : pool \in [1..l -> {"wait", "acquire", "embed", "report", "cancel", "exit"}]
  BY DEF EmbedInv, PoolShape
<1>4. /\ pool' \in [1..l -> {"wait", "acquire", "embed", "report", "cancel", "exit"}]
      /\ DOMAIN pool' = DOMAIN pool /\ pool'[w] = p /\ \A v \in DOMAIN pool \ {w} : pool'[v] = pool[v]
  BY <1>3
<1>5. /\ fault' \in [DOMAIN pool' -> {"none", "backend", "cancelled"}]
      /\ fault'[w] = e /\ \A v \in DOMAIN pool \ {w} : fault'[v] = fault[v]
  BY <1>4 DEF EmbedInv, PoolShape
<1>6. hand' \in [DOMAIN pool' -> 0..Len(batches')]
  BY <1>2, <1>4 DEF EmbedInv, PoolShape
<1>7. TypeOK'
  BY <1>2, <1>4, <1>5, <1>6 DEF EmbedInv, TypeOK
<1>8. answer = "none" /\ answer' = "none" /\ main' \in {"send", "join"}
  BY DEF EmbedInv, PoolShape
<1>9. PoolShape'
  <2>1. \E m \in Nat : pool' \in [1..m -> {"wait", "acquire", "embed", "report", "cancel", "exit"}]
    BY <1>4
  <2>2. first' = Len(tokens') + 1 /\ DOMAIN results' = DOMAIN batches'
    BY <1>2 DEF EmbedInv, PoolShape, Started
  <2> QED
    BY <1>5, <1>6, <1>8, <2>1, <2>2 DEF PoolShape
<1>10. Accounted'
  <2>1. \A v \in DOMAIN pool' : pool'[v] \in {"acquire", "embed"} => hand'[v] \in 1..(next' - 1)
    BY <1>4 DEF EmbedInv, Accounted
  <2>2. ASSUME NEW b \in 1..(next - 1), errCh' = "none", ~Served(b)'
        PROVE  \E v \in DOMAIN pool' : \/ pool'[v] \in {"acquire", "embed"} /\ hand'[v] = b
                                       \/ pool'[v] = "report"
    <3>1. errCh = "none" /\ ~Served(b)
      BY <2>2
    <3>2. PICK v \in DOMAIN pool : \/ pool[v] \in {"acquire", "embed"} /\ hand[v] = b
                                   \/ pool[v] = "report"
      BY <3>1 DEF EmbedInv, Accounted, Started
    <3>3. CASE v # w
      BY <1>4, <3>2, <3>3
    <3>4. CASE v = w
      BY <1>4, <2>2, <3>2, <3>4
    <3> QED
      BY <3>3, <3>4
  <2>3. main' = "join" => next' > Len(batches') \/ ContextDone'
    BY <1>2 DEF EmbedInv, Accounted, ContextDone
  <2> QED
    BY <1>8, <2>1, <2>2, <2>3 DEF Accounted
<1>11. Causes'
  BY <1>4, <1>5 DEF EmbedInv, Causes
<1>12. RootCauseReported'
  BY <1>8 DEF RootCauseReported
<1> QED
  BY <1>1, <1>7, <1>9, <1>10, <1>11, <1>12 DEF EmbedInv


LEMMA BodyStep ==
    ASSUME EmbedInv, NEW w \in DOMAIN pool,
           JobsClosed(w) \/ Acquired(w) \/ AcquireFailed(w) \/ EmbedFailed(w) \/ Report(w) \/ CancelRest(w)
    PROVE  EmbedInv'
<1>0. pool[w] # "exit"
  BY DEF JobsClosed, Acquired, AcquireFailed, EmbedFailed, Report, CancelRest
<1>1. main \in {"send", "join"}
  BY <1>0, AtWork
<1>2. /\ fault[w] \in {"none", "backend", "cancelled"} /\ fault = [fault EXCEPT ![w] = fault[w]]
      /\ errCh \in {"none", "backend", "cancelled"} /\ cancelled \in BOOLEAN
      /\ cancelled => errCh # "none"
      /\ errCh = "cancelled" => parentDone
  BY DEF EmbedInv, PoolShape, TypeOK, Causes
<1>3. /\ pool[w] = "report" => fault[w] # "none"
      /\ pool[w] = "report" /\ fault[w] = "cancelled" => parentDone \/ errCh # "none"
      /\ pool[w] = "cancel" => errCh # "none"
  BY DEF EmbedInv, Causes
<1>4. UNCHANGED <<input, packing, main, next, hand, results, parentDone, answer>> /\ UNCHANGED batches
  BY DEF JobsClosed, Acquired, AcquireFailed, EmbedFailed, Erred, Report, CancelRest, packing
<1>5. \A b \in 1..(next - 1) : Served(b) => Served(b)'
  BY <1>4, ServedKept
<1>6. CASE JobsClosed(w)
  <2>1. pool[w] = "wait" /\ pool' = [pool EXCEPT ![w] = "exit"] /\ UNCHANGED <<fault, errCh, cancelled>>
    BY <1>6 DEF JobsClosed
  <2> QED
    BY <1>1, <1>2, <1>4, <1>5, <2>1, PoolMove
<1>7. CASE Acquired(w)
  <2>1. pool[w] = "acquire" /\ pool' = [pool EXCEPT ![w] = "embed"] /\ UNCHANGED <<fault, errCh, cancelled>>
    BY <1>7 DEF Acquired
  <2> QED
    BY <1>1, <1>2, <1>4, <1>5, <2>1, PoolMove
<1>8. CASE AcquireFailed(w) \/ EmbedFailed(w)
  <2>1. PICK e \in {"backend", "cancelled"} : Erred(w, e) /\ (e = "cancelled" => ContextDone)
    BY <1>8 DEF AcquireFailed, EmbedFailed
  <2>2. pool[w] \in {"acquire", "embed"}
    BY <1>8 DEF AcquireFailed, EmbedFailed
  <2>3. pool' = [pool EXCEPT ![w] = "report"] /\ fault' = [fault EXCEPT ![w] = e] /\ UNCHANGED <<errCh, cancelled>>
    BY <2>1 DEF Erred
  <2>4. e = "cancelled" => parentDone \/ errCh # "none"
    BY <1>2, <2>1 DEF ContextDone
  <2> QED
    BY <1>1, <1>2, <1>4, <1>5, <2>2, <2>3, <2>4, PoolMove
<1>9. CASE Report(w)
  <2>1. /\ pool[w] = "report" /\ errCh' = (IF errCh = "none" THEN fault[w] ELSE errCh)
        /\ pool' = [pool EXCEPT ![w] = IF errCh = "none" THEN "cancel" ELSE "exit"]
        /\ UNCHANGED <<fault, cancelled>>
    BY <1>9 DEF Report
  <2>2. CASE errCh = "none"
    <3>1. errCh' = fault[w] /\ errCh' # "none" /\ pool' = [pool EXCEPT ![w] = "cancel"] /\ (errCh' = "cancelled" => parentDone)
      BY <1>3, <2>1, <2>2
    <3> QED
      BY <1>1, <1>2, <1>4, <1>5, <2>1, <2>2, <3>1, PoolMove
  <2>3. CASE errCh # "none"
    <3>1. errCh' = errCh /\ pool' = [pool EXCEPT ![w] = "exit"]
      BY <2>1, <2>3
    <3> QED
      BY <1>1, <1>2, <1>4, <1>5, <2>1, <2>3, <3>1, PoolMove
  <2> QED
    BY <2>2, <2>3
<1>10. CASE CancelRest(w)
  <2>1. pool[w] = "cancel" /\ cancelled' = TRUE /\ pool' = [pool EXCEPT ![w] = "exit"] /\ UNCHANGED <<fault, errCh>>
    BY <1>10 DEF CancelRest
  <2> QED
    BY <1>1, <1>2, <1>3, <1>4, <1>5, <2>1, PoolMove
<1> QED
  BY <1>6, <1>7, <1>8, <1>9, <1>10

\* A response that names every input once, or none, gives each input its vector: n
\* different indexes among n are all of them.
LEMMA AssociatedIsIdentity ==
    ASSUME NEW n \in Nat \ {0}, NEW r \in Responses(n), ResponseValid(r, n)
    PROVE  DOMAIN r = 1..n /\ \A i \in 1..n : Associated(r)[i] = i
<1>1. PICK m \in 0..n : r \in [1..m -> 0..(n + 1)]
  BY DEF Responses
<1>2. m = n /\ DOMAIN r = 1..n /\ r \in [1..n -> 0..(n + 1)]
  BY <1>1 DEF ResponseValid
<1>3. /\ \A i \in 1..n : (r[i] # 0) <=> (r[1] # 0)
      /\ \A i \in 1..n : r[i] # 0 => r[i] \in 1..n
      /\ \A i, j \in 1..n : r[i] # 0 /\ r[i] = r[j] => i = j
  BY <1>2 DEF ResponseValid
<1>4. ASSUME NEW i \in 1..n PROVE Associated(r)[i] = i
  <2>1. Associated(r)[i] = IF r[1] = 0 THEN VectorOf(r, i) ELSE VectorOf(r, CHOOSE k \in DOMAIN r : r[k] = i)
    BY <1>2 DEF Associated
  <2>2. CASE r[1] = 0
    <3>1. r[i] = 0
      BY <1>3, <2>2
    <3> QED
      BY <2>1, <2>2, <3>1 DEF VectorOf
  <2>3. CASE r[1] # 0
    <3>1. \E k \in 1..n : r[k] = i
      <4> SUFFICES ASSUME \A k \in 1..n : r[k] # i PROVE FALSE
        OBVIOUS
      <4> DEFINE T == (1..n) \ {i}
      <4>1. r \in [1..n -> T]
        BY <1>2, <1>3, <2>3
      <4>2. IsFiniteSet(1..n) /\ Cardinality(1..n) = n
        BY FS_Interval
      <4>3. IsFiniteSet(T) /\ Cardinality(T) = n - 1
        BY ZenonT(30), <4>2, FS_RemoveElement
      <4> HIDE DEF T
      <4>4. \E x, y \in 1..n : x # y /\ r[x] = r[y]
        BY <4>1, <4>2, <4>3, FS_PigeonHole
      <4> QED
        BY <1>3, <2>3, <4>4
    <3> DEFINE k == CHOOSE x \in DOMAIN r : r[x] = i
    <3>2. r[k] = i
      BY <1>2, <3>1
    <3>3. VectorOf(r, k) = i
      BY <3>2 DEF VectorOf
    <3> QED
      BY <2>1, <2>3, <3>3
  <2> QED
    BY <2>2, <2>3
<1> QED
  BY <1>2, <1>4

LEMMA EmbeddedStep == ASSUME EmbedInv, NEW w \in DOMAIN pool, Embedded(w) PROVE EmbedInv'
<1> PICK b : b = hand[w]
  OBVIOUS
<1>1. /\ pool[w] = "embed" /\ pool' = [pool EXCEPT ![w] = "wait"]
      /\ UNCHANGED <<input, packing, main, next, hand, fault, errCh, cancelled, parentDone, answer>>
  BY DEF Embedded
<1>2. PICK r \in Responses(RequestSize(b)) :
        /\ ResponseValid(r, RequestSize(b))
        /\ results' = [results EXCEPT ![b] = [i \in DOMAIN r |-> batches[b].from - 1 + Associated(r)[i]]]
  BY DEF Embedded
<1>3. main \in {"send", "join"} /\ UNCHANGED batches
  BY <1>1, AtWork DEF packing
<1>4. /\ fault[w] \in {"none", "backend", "cancelled"} /\ fault = [fault EXCEPT ![w] = fault[w]]
      /\ errCh \in {"none", "backend", "cancelled"} /\ cancelled \in BOOLEAN
      /\ cancelled => errCh # "none"
      /\ errCh = "cancelled" => parentDone
  BY DEF EmbedInv, PoolShape, TypeOK, Causes
<1>5. PICK l \in Nat : batches \in [1..l -> [from : Nat \ {0}, to : Nat]]
  BY DEF EmbedInv, Packed, Tiled
<1>6. Len(batches) = l /\ DOMAIN batches = 1..l /\ DOMAIN results = 1..l
  BY <1>3, <1>5 DEF EmbedInv, PoolShape, Started
<1>7. b \in 1..l
  BY <1>1, <1>6 DEF EmbedInv, Accounted, TypeOK
<1>8. RequestSize(b) \in Nat \ {0}
  BY <1>5, <1>6, <1>7 DEF RequestSize, EmbedInv, Packed, Tiled
<1>9. DOMAIN r = 1..RequestSize(b) /\ \A i \in 1..RequestSize(b) : Associated(r)[i] = i
  BY <1>2, <1>8, AssociatedIsIdentity
<1>10. results'[b] = [i \in 1..RequestSize(b) |-> batches[b].from - 1 + i]
  BY <1>2, <1>6, <1>7, <1>9
<1>11. Served(b)'
  BY <1>3, <1>10 DEF Served, RequestSize
<1>12. \A c \in 1..(next - 1) : Served(c) => Served(c)'
  <2> SUFFICES ASSUME NEW c \in 1..(next - 1), Served(c) PROVE Served(c)'
    OBVIOUS
  <2>1. CASE c = b
    BY <1>11, <2>1
  <2>2. CASE c # b
    <3>1. c \in 1..l
      BY <1>6 DEF EmbedInv, TypeOK
    <3>2. results'[c] = results[c]
      BY <1>2, <1>6, <2>2, <3>1
    <3> QED
      BY <1>3, <3>2, ServedKept
  <2> QED
    BY <2>1, <2>2
<1>13. Served(hand[w])' /\ DOMAIN results' = DOMAIN results
  BY <1>1, <1>2, <1>11
<1> QED
  BY <1>1, <1>3, <1>4, <1>12, <1>13, PoolMove

LEMMA SendStep == ASSUME EmbedInv, NEW w \in DOMAIN pool, Send(w) PROVE EmbedInv'
<1>1. /\ main = "send" /\ next <= Len(batches) /\ pool[w] = "wait"
      /\ pool' = [pool EXCEPT ![w] = "acquire"] /\ hand' = [hand EXCEPT ![w] = next] /\ next' = next + 1
      /\ main' = (IF ContextDone THEN "join" ELSE "send")
      /\ UNCHANGED <<input, packing, fault, results, errCh, cancelled, parentDone, answer>>
  BY DEF Send
<1>2. UNCHANGED <<counts, tokens, batches, first, size, end>> /\ Packed'
  BY <1>1, PackedKept DEF input, packing, EmbedInv
<1>3. PICK l \in Nat : pool \in [1..l -> {"wait", "acquire", "embed", "report", "cancel", "exit"}]
  BY DEF EmbedInv, PoolShape
<1>4. /\ pool' \in [1..l -> {"wait", "acquire", "embed", "report", "cancel", "exit"}]
      /\ DOMAIN pool' = DOMAIN pool /\ pool'[w] = "acquire" /\ \A v \in DOMAIN pool \ {w} : pool'[v] = pool[v]
  BY <1>1, <1>3
<1>5. PICK m \in Nat : m = Len(batches)
  <2>1. PICK k \in Nat : batches \in [1..k -> [from : Nat \ {0}, to : Nat]]
    BY DEF EmbedInv, Packed, Tiled
  <2> QED
    BY <2>1
<1>6. next \in 1..m
  BY <1>1, <1>5 DEF EmbedInv, TypeOK
<1>7. /\ hand' \in [DOMAIN pool' -> 0..m] /\ hand'[w] = next
      /\ \A v \in DOMAIN pool \ {w} : hand'[v] = hand[v]
  BY <1>1, <1>4, <1>5, <1>6 DEF EmbedInv, PoolShape
<1>8. answer = "none" /\ answer' = "none" /\ main' \in {"send", "join"}
  BY <1>1 DEF EmbedInv, PoolShape
<1>9. TypeOK'
  BY <1>1, <1>2, <1>4, <1>5, <1>6, <1>7, <1>8 DEF EmbedInv, TypeOK, PoolShape
<1>10. PoolShape'
  <2>1. \E k \in Nat : pool' \in [1..k -> {"wait", "acquire", "embed", "report", "cancel", "exit"}]
    BY <1>4
  <2>2. first' = Len(tokens') + 1 /\ DOMAIN results' = DOMAIN batches'
    BY <1>1, <1>2 DEF EmbedInv, PoolShape, Started
  <2>3. fault' \in [DOMAIN pool' -> {"none", "backend", "cancelled"}] /\ hand' \in [DOMAIN pool' -> 0..Len(batches')]
    BY <1>1, <1>2, <1>4, <1>5, <1>7 DEF EmbedInv, PoolShape
  <2> QED
    BY <1>8, <2>1, <2>2, <2>3 DEF PoolShape
<1>11. Accounted'
  <2>1. \A v \in DOMAIN pool' : pool'[v] \in {"acquire", "embed"} => hand'[v] \in 1..(next' - 1)
    <3> SUFFICES ASSUME NEW v \in DOMAIN pool, pool'[v] \in {"acquire", "embed"} PROVE hand'[v] \in 1..(next' - 1)
      BY <1>4
    <3>1. CASE v = w
      BY <1>1, <1>6, <1>7, <3>1
    <3>2. CASE v # w
      <4>1. hand[v] \in 1..(next - 1)
        BY <1>4, <3>2 DEF EmbedInv, Accounted
      <4> QED
        BY <1>1, <1>6, <1>7, <3>2, <4>1
    <3> QED
      BY <3>1, <3>2
  <2>2. ASSUME NEW b \in 1..(next' - 1), errCh' = "none", ~Served(b)'
        PROVE  \E v \in DOMAIN pool' : \/ pool'[v] \in {"acquire", "embed"} /\ hand'[v] = b
                                       \/ pool'[v] = "report"
    <3>1. CASE b = next
      BY <1>4, <1>7, <3>1
    <3>2. CASE b # next
      <4>1. b \in 1..(next - 1) /\ errCh = "none" /\ ~Served(b)
        BY <1>1, <1>2, <1>6, <2>2, <3>2, ServedKept
      <4>2. PICK v \in DOMAIN pool : \/ pool[v] \in {"acquire", "embed"} /\ hand[v] = b
                                     \/ pool[v] = "report"
        BY <1>1, <4>1 DEF EmbedInv, Accounted, Started
      <4>3. v # w
        BY <1>1, <4>2
      <4> QED
        BY <1>4, <1>7, <4>2, <4>3
    <3> QED
      BY <3>1, <3>2
  <2>3. main' = "join" => ContextDone'
    BY <1>1 DEF ContextDone
  <2> QED
    BY <1>8, <2>1, <2>2, <2>3 DEF Accounted
<1>12. Causes' /\ RootCauseReported'
  BY <1>1, <1>4, <1>8 DEF EmbedInv, Causes, RootCauseReported
<1> QED
  BY <1>1, <1>2, <1>9, <1>10, <1>11, <1>12 DEF EmbedInv

LEMMA CloseJobsStep == ASSUME EmbedInv, CloseJobs PROVE EmbedInv'
<1>1. /\ main = "send" /\ (ContextDone \/ next > Len(batches)) /\ main' = "join"
      /\ UNCHANGED <<input, packing, next, bodies, results, errCh, cancelled, parentDone, answer>>
  BY DEF CloseJobs
<1>2. UNCHANGED <<counts, tokens, batches, first, size, end, next, pool, hand, fault, results, errCh, cancelled, parentDone, answer>>
  BY <1>1 DEF input, packing, bodies
<1>3. Packed' /\ \A b : Served(b)' <=> Served(b)
  BY <1>1, <1>2, PackedKept, ServedKept DEF EmbedInv
<1>4. answer = "none"
  BY <1>1 DEF EmbedInv, PoolShape
<1>5. TypeOK' /\ PoolShape'
  BY <1>1, <1>2 DEF EmbedInv, TypeOK, PoolShape, Started
<1>6. Accounted'
  BY <1>1, <1>2, <1>3, <1>4 DEF EmbedInv, Accounted, Started, ContextDone
<1>7. Causes' /\ RootCauseReported'
  BY <1>2 DEF EmbedInv, Causes, RootCauseReported
<1> QED
  BY <1>2, <1>3, <1>5, <1>6, <1>7 DEF EmbedInv

\* The call returns: without an error and with its context alive, every request was
\* handed out and served.
LEMMA JoinStep == ASSUME EmbedInv, Join PROVE EmbedInv'
<1>1. /\ main = "join" /\ (\A w \in DOMAIN pool : pool[w] = "exit") /\ main' = "returned" /\ answer' = Answer
      /\ UNCHANGED <<input, packing, next, bodies, results, errCh, cancelled, parentDone>>
  BY DEF Join
<1>2. UNCHANGED <<counts, tokens, batches, first, size, end, next, pool, hand, fault, results, errCh, cancelled, parentDone>>
  BY <1>1 DEF input, packing, bodies
<1>3. Packed' /\ \A b : Served(b)' <=> Served(b)
  BY <1>1, <1>2, PackedKept, ServedKept DEF EmbedInv
<1>4. answer' \in {"backend", "cancelled", "ok"}
  BY <1>1 DEF Answer, EmbedInv, TypeOK
<1>5. answer' = "cancelled" => parentDone
  BY <1>1 DEF Answer, ContextDone, EmbedInv, Causes
<1>6. ASSUME answer' = "ok", NEW b \in DOMAIN batches PROVE Served(b)
  <2>1. errCh = "none" /\ ~ContextDone
    BY <1>1, <1>6 DEF Answer, EmbedInv, TypeOK
  <2>2. next > Len(batches)
    BY <1>1, <2>1 DEF EmbedInv, Accounted
  <2>3. PICK l \in Nat : batches \in [1..l -> [from : Nat \ {0}, to : Nat]]
    BY DEF EmbedInv, Packed, Tiled
  <2>4. next = l + 1 /\ b \in 1..l
    BY <2>2, <2>3 DEF EmbedInv, TypeOK
  <2>5. b \in 1..(next - 1)
    BY <2>3, <2>4
  <2> QED
    BY <1>1, <2>1, <2>5 DEF EmbedInv, Accounted, Started
<1>7. TypeOK'
  BY <1>1, <1>2, <1>4 DEF EmbedInv, TypeOK
<1>8. PoolShape'
  BY <1>1, <1>2, <1>4 DEF EmbedInv, PoolShape, Started
<1>9. Accounted'
  BY <1>1, <1>2, <1>3, <1>6 DEF EmbedInv, Accounted, Started
<1>10. Causes' /\ RootCauseReported'
  BY <1>2, <1>5 DEF EmbedInv, Causes, RootCauseReported
<1> QED
  BY <1>2, <1>3, <1>7, <1>8, <1>9, <1>10 DEF EmbedInv

LEMMA ParentStep == ASSUME EmbedInv, ParentDone PROVE EmbedInv'
<1>1. parentDone' = TRUE /\ UNCHANGED <<input, packing, main, next, bodies, results, errCh, cancelled, answer>>
  BY DEF ParentDone
<1>2. UNCHANGED <<counts, tokens, batches, first, size, end, main, next, pool, hand, fault, results, errCh, cancelled, answer>>
  BY <1>1 DEF input, packing, bodies
<1>3. Packed' /\ \A b : Served(b)' <=> Served(b)
  BY <1>1, <1>2, PackedKept, ServedKept DEF EmbedInv
<1>4. TypeOK' /\ PoolShape'
  BY <1>2 DEF EmbedInv, TypeOK, PoolShape, Started
<1>5. Accounted'
  BY <1>1, <1>2, <1>3 DEF EmbedInv, Accounted, Started, ContextDone
<1>6. Causes' /\ RootCauseReported'
  BY <1>1, <1>2 DEF EmbedInv, Causes, RootCauseReported
<1> QED
  BY <1>1, <1>2, <1>3, <1>4, <1>5, <1>6 DEF EmbedInv

LEMMA EmbedStutter == EmbedInv /\ UNCHANGED vars => EmbedInv'
<1> SUFFICES ASSUME EmbedInv, UNCHANGED vars PROVE EmbedInv'
  OBVIOUS
<1>1. /\ UNCHANGED <<input, packing>>
      /\ UNCHANGED <<counts, tokens, batches, first, size, end, main, next, pool, hand, fault, results, errCh, cancelled,
                     parentDone, answer>>
  BY DEF vars, input, packing, bodies
<1>2. Packed' /\ \A b : Served(b)' <=> Served(b)
  BY <1>1, PackedKept, ServedKept DEF EmbedInv
<1>3. TypeOK' /\ PoolShape'
  BY <1>1 DEF EmbedInv, TypeOK, PoolShape, Started
<1>4. Accounted' /\ Causes' /\ RootCauseReported'
  BY <1>1, <1>2 DEF EmbedInv, Accounted, Started, ContextDone, Causes, RootCauseReported
<1> QED
  BY <1>1, <1>2, <1>3, <1>4 DEF EmbedInv

\* The inductive invariant: the requests packed so far tile the chunks behind them,
\* every request handed out is served, at work or behind an error, and nobody is
\* cancelled before the cause is in the channel.
THEOREM EmbedInvariant == Spec => []EmbedInv
<1>1. Init => EmbedInv
  BY EmbedInit
<1>2. EmbedInv /\ [Next]_vars => EmbedInv'
  BY RejectStep, TakeStep, CloseStep, StartStep, SendStep, CloseJobsStep, JoinStep, BodyStep,
     EmbeddedStep, ParentStep, EmbedStutter DEF Next, Caller, Body
<1> QED
  BY <1>1, <1>2, PTL DEF Spec

----------------------------------------------------------------------------
(* What it shows                                                            *)

\* Every variable keeps its type and every position stays within the input.
THEOREM EmbedTypeOK == Spec => []TypeOK
<1>1. EmbedInv => TypeOK
  BY DEF EmbedInv
<1> QED
  BY <1>1, EmbedInvariant, PTL

\* A cancellation is reported as the cause only when the caller's own context is
\* done, for any number of goroutines that fail at once.
THEOREM CauseIsReported == Spec => []RootCauseReported
<1>1. EmbedInv => RootCauseReported
  BY DEF EmbedInv
<1> QED
  BY <1>1, EmbedInvariant, PTL

\* The vector at each position is that of the chunk there.
LEMMA VectorsInOrder ==
    ASSUME EmbedInv, answer = "ok", NEW n \in Inputs
    PROVE  (\E b \in DOMAIN batches : n \in Batch(b)) /\ Vectors[n] = n
<1>1. n \in 1..(first - 1) /\ Len(tokens) \in Nat
  BY InputFacts DEF Inputs, EmbedInv, Packed, PoolShape, Started
<1>2. \E b \in DOMAIN batches : n \in Batch(b)
  BY <1>1 DEF EmbedInv, Packed, Tiled
<1> DEFINE b == CHOOSE x \in DOMAIN batches : n \in Batch(x)
<1>3. b \in DOMAIN batches /\ n \in Batch(b)
  BY <1>2
<1>4. Vectors[n] = results[b][n - batches[b].from + 1]
  BY DEF Vectors
<1> HIDE DEF b
<1>5. Served(b) /\ batches[b].from \in Nat /\ batches[b].to \in Nat
  BY <1>3 DEF EmbedInv, Accounted, Packed, Tiled
<1>6. n \in Nat /\ n - batches[b].from + 1 \in 1..RequestSize(b)
  BY <1>1, <1>3, <1>5 DEF Batch, RequestSize
<1>7. results[b][n - batches[b].from + 1] = batches[b].from - 1 + (n - batches[b].from + 1)
  BY <1>5, <1>6 DEF Served
<1>8. batches[b].from - 1 + (n - batches[b].from + 1) = n
  BY <1>5, <1>6
<1> QED
  BY <1>2, <1>4, <1>7, <1>8

\* Every request is within its limits, and a call that succeeds pools for each text
\* the vectors of exactly its own chunks in their order, for any texts, any limits
\* and any order in which requests end and responses list their items.
THEOREM PackingAndPoolingUndoEachOther == Spec => []PackedAndPooled
<1>1. EmbedInv => PackedAndPooled
  <2> SUFFICES ASSUME EmbedInv, answer = "ok" PROVE PooledFromOwnChunks
    BY DEF EmbedInv, Packed, PackedAndPooled, PooledFromOwnChunks
  <2>1. \A n \in Inputs : \E b \in DOMAIN batches : n \in Batch(b)
    BY VectorsInOrder
  <2>2. ASSUME NEW b \in DOMAIN batches PROVE Len(results[b]) = RequestSize(b)
    <3>1. Served(b) /\ batches[b].from \in Nat /\ batches[b].to \in Nat /\ batches[b].from <= batches[b].to
      BY DEF EmbedInv, Accounted, Packed, Tiled
    <3>2. PICK m \in Nat : m = RequestSize(b)
      BY <3>1 DEF RequestSize
    <3>3. results[b] = [i \in 1..m |-> batches[b].from - 1 + i]
      BY <3>1, <3>2 DEF Served
    <3> QED
      BY <3>2, <3>3
  <2>3. ASSUME NEW i \in Texts, NEW n \in DOMAIN Pooled(i) PROVE Pooled(i)[n] = n
    <3>1. /\ Len(counts) \in Nat /\ Len(tokens) \in Nat /\ Len(tokens) = Offset[Len(counts)]
          /\ \A k \in 0..Len(counts) : Offset[k] \in Nat /\ \A j \in 0..k : Offset[j] <= Offset[k]
      BY InputFacts DEF EmbedInv, Packed
    <3>2. i \in 0..Len(counts) /\ i - 1 \in 0..Len(counts) /\ Len(counts) \in 0..Len(counts)
      BY <3>1 DEF Texts
    <3>3. Offset[i - 1] \in Nat /\ Offset[i] \in Nat /\ Offset[i] <= Len(tokens)
      BY <3>1, <3>2
    <3>4. n \in (Offset[i - 1] + 1)..Offset[i] /\ Pooled(i)[n] = Vectors[n]
      BY DEF Pooled
    <3>5. n \in Inputs
      BY <3>1, <3>3, <3>4 DEF Inputs
    <3> QED
      BY <3>4, <3>5, VectorsInOrder
  <2> QED
    BY <2>1, <2>2, <2>3 DEF PooledFromOwnChunks
<1> QED
  BY <1>1, EmbedInvariant, PTL

====
