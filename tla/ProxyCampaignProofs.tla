---- MODULE ProxyCampaignProofs ----
(***************************************************************************)
(* Proofs about ProxyCampaign: for any number of invocations, campaigns and *)
(* jobs, any page limit and any queue policy, repairs keep the queue below  *)
(* its high water mark with the reserve free, and a campaign passes every   *)
(* job of its scope exactly once.                                           *)
(***************************************************************************)
EXTENDS ProxyCampaign, FiniteSetTheorems, WellFoundedInduction, TLAPS

\* Two pages at once belong to different campaigns, one page at a time holds the
\* queue lock, and only that one has rewritten rows.
Exclusive ==
    /\ \A o \in Operators : pc[o] # "idle" => campaign[o] \in Campaigns
    /\ \A o, p \in Operators :
         o # p /\ pc[o] # "idle" /\ pc[p] # "idle" => campaign[o] # campaign[p]
    /\ \A o, p \in Operators : pc[o] = "retry" /\ pc[p] = "retry" => o = p
    /\ \A o \in Operators : reopened[o] # {} => pc[o] = "retry"
    /\ \A o \in Operators : pc[o] \in {"idle", "scan"} => page[o] = {} /\ ids[o] = {}

\* A page is an initial part of what is left of its campaign's scope.
PageFollowsCursor ==
    \A o \in Operators : pc[o] # "idle" =>
        /\ ids[o] \subseteq page[o] /\ reopened[o] \subseteq page[o]
        /\ page[o] \subseteq InScope(campaign[o])
        /\ \A j \in page[o] : \A i \in InScope(campaign[o]) : i < j => i \in page[o]

\* What an admitted page may still open fits below the high water mark.
PageFits ==
    \A o \in Operators :
        pc[o] = "retry" /\ ids[o] \union reopened[o] # {} =>
            Cardinality(Open \union ids[o] \union reopened[o]) + Reserve[campaign[o]] <= HighWater

\* A receipt lies behind the cursor.
ReceiptsBehind ==
    \A c \in Campaigns : \A j \in Jobs : receipts[c][j] <= 1 /\ (receipts[c][j] = 1 => j <= cursor[c])

\* A job of a page of a missing-vector campaign that lacks its vector and has
\* attempts left is waiting for its second look or has been rewritten.
NothingOverlooked ==
    \A o \in Operators : pc[o] # "idle" /\ Reviewed[campaign[o]] = 0 =>
        \A j \in page[o] \ LossyJobs :
            status[j] = "missing" /\ attempts[j] < MaxAttempts => j \in ids[o] \union reopened[o]

CampaignInv ==
    /\ TypeOK /\ Exclusive /\ PageFollowsCursor /\ PageFits
    /\ Cardinality(Open) <= HighWater
    /\ ReceiptsBehind /\ NothingOverlooked /\ NothingSkipped

\* A set of natural numbers that is not empty has a least element.
LEMMA MinOfNat == ASSUME NEW T \in SUBSET Nat, T # {} PROVE \E x \in T : \A y \in T : x <= y
<1> DEFINE R == {ss \in Nat \X Nat : ss[1] < ss[2]}
<1>1. IsWellFoundedOn(R, Nat)
  BY NatLessThanWellFounded DEF OpToRel
<1>2. \E x \in T : \A y \in T : ~(<<y, x>> \in R)
  BY <1>1, WFMin
<1>3. PICK x \in T : \A y \in T : ~(<<y, x>> \in R)
  BY <1>2
<1>4. ASSUME NEW y \in T PROVE x <= y
  <2>1. x \in Nat /\ y \in Nat /\ <<y, x>> \in Nat \X Nat
    OBVIOUS
  <2>2. <<y, x>>[1] = y /\ <<y, x>>[2] = x
    OBVIOUS
  <2>3. ~(<<y, x>>[1] < <<y, x>>[2])
    BY <1>3, <2>1
  <2> QED
    BY <2>1, <2>2, <2>3
<1> QED
  BY <1>4

\* Max is the greatest element of a set of job ids that is not empty.
LEMMA MaxOfBounded == ASSUME NEW n \in Nat, NEW S \in SUBSET (1..n), S # {} PROVE Max(S) \in S /\ \A y \in S : y <= Max(S)
<1> DEFINE T == {n - s : s \in S}
<1>0. \A s \in S : n - s \in Nat
  OBVIOUS
<1>1. T \in SUBSET Nat /\ T # {}
  BY <1>0, Zenon
<1>2. PICK t \in T : \A u \in T : t <= u
  BY <1>1, MinOfNat, Zenon
<1>3. PICK x \in S : t = n - x
  OBVIOUS
<1>4. \A y \in S : x >= y
  <2> TAKE y \in S
  <2>1. n - x <= n - y
    BY <1>2, <1>3
  <2> QED
    BY <2>1
<1>5. Max(S) \in S /\ \A y \in S : Max(S) >= y
  BY <1>4, Zenon DEF Max
<1> QED
  BY <1>5

\* Sets of jobs are finite, and a smaller one has fewer elements.
LEMMA JobSets ==
    ASSUME NEW S \in SUBSET Jobs
    PROVE  /\ IsFiniteSet(S) /\ Cardinality(S) \in Nat
           /\ \A T \in SUBSET S : IsFiniteSet(T) /\ Cardinality(T) \in Nat /\ Cardinality(T) <= Cardinality(S)
<1>1. IsFiniteSet(Jobs)
  BY FS_Interval, CampaignAssumption DEF Jobs
<1>2. IsFiniteSet(S) /\ Cardinality(S) \in Nat
  BY <1>1, FS_Subset, FS_CardinalityType
<1>3. ASSUME NEW T \in SUBSET S PROVE IsFiniteSet(T) /\ Cardinality(T) \in Nat /\ Cardinality(T) <= Cardinality(S)
  <2>1. IsFiniteSet(T) /\ Cardinality(T) <= Cardinality(S)
    BY <1>2, FS_Subset, Zenon
  <2> QED
    BY <2>1, FS_CardinalityType
<1> QED
  BY <1>2, <1>3

\* The first page of a set of jobs is an initial part of it.
LEMMA FirstPageInitial ==
    ASSUME NEW S \in SUBSET Jobs, NEW j \in FirstPage(S), NEW i \in S, i < j
    PROVE  i \in FirstPage(S)
<1> DEFINE Below(k) == {x \in S : x < k}
<1>0. i \in Nat /\ j \in Nat /\ \A x \in S : x \in Nat
  BY CampaignAssumption DEF Jobs, FirstPage
<1>1. Below(i) \in SUBSET Below(j)
  <2>1. ASSUME NEW x \in S, x < i PROVE x < j
    BY <1>0, <2>1
  <2> QED
    BY <2>1, Zenon
<1>2. Below(j) \in SUBSET Jobs
  OBVIOUS
<1>3. Cardinality(Below(i)) <= Cardinality(Below(j)) /\ Cardinality(Below(i)) \in Nat /\ Cardinality(Below(j)) \in Nat
  BY <1>1, <1>2, JobSets
<1>4. Cardinality(Below(j)) < PageLimit
  BY DEF FirstPage
<1>5. Cardinality(Below(i)) < PageLimit
  BY <1>3, <1>4, CampaignAssumption
<1> QED
  BY <1>5 DEF FirstPage

LEMMA CampaignInit == Init => CampaignInv
<1> SUFFICES ASSUME Init PROVE CampaignInv
  OBVIOUS
<1> USE CampaignAssumption
<1>1. TypeOK
  <2>1. status \in [Jobs -> States]
    BY DEF Init, States
  <2>2. attempts \in [Jobs -> 0..MaxAttempts]
    BY DEF Init
  <2>3. cursor \in [Campaigns -> 0..Cutoff] /\ receipts \in [Campaigns -> [Jobs -> Nat]]
    BY DEF Init
  <2>4. pc \in [Operators -> {"idle", "scan", "admit", "retry"}] /\ campaign \in [Operators -> Campaigns \union {"none"}]
    BY DEF Init
  <2>5. page \in [Operators -> SUBSET Jobs] /\ ids \in [Operators -> SUBSET Jobs] /\ reopened \in [Operators -> SUBSET Jobs]
    BY DEF Init
  <2> QED
    BY <2>1, <2>2, <2>3, <2>4, <2>5 DEF TypeOK
<1>2. Exclusive /\ PageFollowsCursor /\ PageFits /\ NothingOverlooked
  BY DEF Init, Exclusive, PageFollowsCursor, PageFits, NothingOverlooked
<1>3. Cardinality(Open) <= HighWater
  BY DEF Init, Open
<1>4. ReceiptsBehind
  BY DEF Init, ReceiptsBehind
<1>5. NothingSkipped
  BY DEF Init, NothingSkipped
<1> QED
  BY <1>1, <1>2, <1>3, <1>4, <1>5 DEF CampaignInv

LEMMA BeginStep ==
    ASSUME CampaignInv, NEW o \in Operators, NEW c \in Campaigns, BeginPage(o, c)
    PROVE  CampaignInv'
<1>1. TypeOK'
  BY DEF BeginPage, queue, CampaignInv, TypeOK
<1>2. page[o] = {} /\ ids[o] = {} /\ reopened[o] = {}
  BY DEF BeginPage, CampaignInv, Exclusive
<1>3. /\ pc'[o] = "scan" /\ campaign'[o] = c
      /\ \A p \in Operators \ {o} : pc'[p] = pc[p] /\ campaign'[p] = campaign[p]
  BY DEF BeginPage, CampaignInv, TypeOK
<1>4. Exclusive'
  BY <1>2, <1>3 DEF BeginPage, ProgressLocked, CampaignInv, Exclusive
<1>5. PageFollowsCursor'
  BY <1>2, <1>3 DEF BeginPage, CampaignInv, PageFollowsCursor, InScope
<1>6. PageFits' /\ (Cardinality(Open) <= HighWater)'
  BY <1>2, <1>3 DEF BeginPage, queue, CampaignInv, PageFits, Open
<1>7. ReceiptsBehind' /\ NothingSkipped'
  BY DEF BeginPage, queue, CampaignInv, ReceiptsBehind, NothingSkipped
<1>8. NothingOverlooked'
  BY <1>2, <1>3 DEF BeginPage, queue, CampaignInv, NothingOverlooked
<1> QED
  BY <1>1, <1>4, <1>5, <1>6, <1>7, <1>8 DEF CampaignInv

LEMMA ScanStep ==
    ASSUME CampaignInv, NEW o \in Operators, ScanPage(o)
    PROVE  CampaignInv'
<1> DEFINE c == campaign[o]
<1>0. c \in Campaigns /\ reopened[o] = {} /\ InScope(c) \in SUBSET Jobs
  BY CampaignAssumption DEF ScanPage, CampaignInv, Exclusive, InScope, Jobs
<1>1. FirstPage(InScope(c)) \in SUBSET InScope(c)
  BY DEF FirstPage
<1>2. /\ page'[o] = FirstPage(InScope(c)) /\ ids'[o] = {j \in page'[o] : Eligible(c, j)} /\ pc'[o] = "admit"
      /\ \A p \in Operators \ {o} : pc'[p] = pc[p] /\ page'[p] = page[p] /\ ids'[p] = ids[p]
  BY DEF ScanPage, CampaignInv, TypeOK
<1>3. TypeOK'
  BY <1>0, <1>1, <1>2 DEF ScanPage, queue, CampaignInv, TypeOK
<1>4. Exclusive'
  BY <1>2 DEF ScanPage, CampaignInv, Exclusive
<1>5. PageFollowsCursor'
  <2>1. ids'[o] \subseteq page'[o] /\ reopened'[o] \subseteq page'[o] /\ page'[o] \subseteq InScope(c)
    BY <1>0, <1>1, <1>2 DEF ScanPage
  <2>2. \A j \in page'[o] : \A i \in InScope(c) : i < j => i \in page'[o]
    BY <1>0, <1>2, FirstPageInitial
  <2> QED
    BY <1>2, <2>1, <2>2 DEF ScanPage, CampaignInv, PageFollowsCursor, InScope
<1>6. PageFits' /\ (Cardinality(Open) <= HighWater)'
  BY <1>2 DEF ScanPage, queue, CampaignInv, PageFits, Open
<1>7. ReceiptsBehind' /\ NothingSkipped'
  BY DEF ScanPage, queue, CampaignInv, ReceiptsBehind, NothingSkipped
<1>8. NothingOverlooked'
  BY <1>2 DEF ScanPage, queue, CampaignInv, NothingOverlooked, Eligible, Repairable
<1> QED
  BY <1>3, <1>4, <1>5, <1>6, <1>7, <1>8 DEF CampaignInv

LEMMA AdmitStep ==
    ASSUME CampaignInv, NEW o \in Operators, AdmitPage(o)
    PROVE  CampaignInv'
<1> DEFINE c == campaign[o]
<1>0. c \in Campaigns /\ reopened[o] = {} /\ ids[o] \in SUBSET Jobs /\ Open \in SUBSET Jobs
  BY DEF AdmitPage, CampaignInv, Exclusive, TypeOK, Open
<1>1. pc'[o] = "retry" /\ \A p \in Operators \ {o} : pc'[p] = pc[p] /\ pc[p] # "retry"
  BY DEF AdmitPage, QueueFree, CampaignInv, TypeOK
<1>2. TypeOK'
  BY DEF AdmitPage, queue, CampaignInv, TypeOK
<1>3. Exclusive'
  BY <1>1 DEF AdmitPage, CampaignInv, Exclusive
<1>4. PageFollowsCursor'
  BY <1>1 DEF AdmitPage, CampaignInv, PageFollowsCursor, InScope
<1>5. (Cardinality(Open) <= HighWater)'
  BY DEF AdmitPage, queue, CampaignInv, Open
<1>6. ASSUME ids[o] # {} PROVE Cardinality(Open \union ids[o]) + Reserve[c] <= HighWater
  <2>1. Cardinality(ids[o]) <= HighWater - Cardinality(Open) - Reserve[c]
    BY <1>6 DEF AdmitPage, RoomFor, Headroom
  <2>2. IsFiniteSet(Open) /\ IsFiniteSet(ids[o]) /\ Cardinality(Open) \in Nat /\ Cardinality(ids[o]) \in Nat
    BY <1>0, JobSets
  <2>3. Cardinality(Open \intersect ids[o]) \in Nat
    BY <1>0, JobSets
  <2>4. Cardinality(Open \union ids[o]) = Cardinality(Open) + Cardinality(ids[o]) - Cardinality(Open \intersect ids[o])
    BY <2>2, FS_Union
  <2>5. Reserve[c] \in Nat /\ HighWater \in Nat
    BY <1>0, CampaignAssumption
  <2> QED
    BY <2>1, <2>2, <2>3, <2>4, <2>5
<1>7. PageFits'
  <2>1. Open' = Open
    BY DEF AdmitPage, queue, Open
  <2>2. ids' = ids /\ reopened' = reopened /\ campaign' = campaign
    BY DEF AdmitPage
  <2>3. ASSUME ids[o] \union reopened[o] # {}
        PROVE  Cardinality(Open \union ids[o] \union reopened[o]) + Reserve[c] <= HighWater
    <3>1. Open \union ids[o] \union reopened[o] = Open \union ids[o] /\ ids[o] # {}
      BY <1>0, <2>3
    <3> QED
      BY <3>1, <1>6
  <2> QED
    BY <1>1, <2>1, <2>2, <2>3 DEF PageFits
<1>8. ReceiptsBehind' /\ NothingSkipped'
  BY DEF AdmitPage, queue, CampaignInv, ReceiptsBehind, NothingSkipped
<1>9. NothingOverlooked'
  BY <1>1 DEF AdmitPage, queue, CampaignInv, NothingOverlooked
<1> QED
  BY <1>2, <1>3, <1>4, <1>5, <1>7, <1>8, <1>9 DEF CampaignInv

LEMMA RetryStep ==
    ASSUME CampaignInv, NEW o \in Operators, RetryOne(o)
    PROVE  CampaignInv'
<1> DEFINE c == campaign[o]
<1>1. PICK j \in ids[o] :
         /\ reopened' = [reopened EXCEPT ![o] = IF Eligible(c, j) THEN @ \union {j} ELSE @]
         /\ ids' = [ids EXCEPT ![o] = @ \ {j}]
  BY DEF RetryOne
<1>2. c \in Campaigns /\ ids[o] \in SUBSET Jobs /\ reopened[o] \in SUBSET Jobs /\ Open \in SUBSET Jobs /\ j \in Jobs
  BY DEF RetryOne, CampaignInv, Exclusive, TypeOK, Open
<1>3. /\ ids'[o] = ids[o] \ {j}
      /\ reopened'[o] = IF Eligible(c, j) THEN reopened[o] \union {j} ELSE reopened[o]
      /\ \A p \in Operators \ {o} : ids'[p] = ids[p] /\ reopened'[p] = reopened[p]
  BY <1>1 DEF CampaignInv, TypeOK
<1>4. TypeOK'
  BY <1>1, <1>2 DEF RetryOne, queue, CampaignInv, TypeOK
<1>5. Exclusive'
  BY <1>3 DEF RetryOne, CampaignInv, Exclusive
<1>6. PageFollowsCursor'
  BY <1>1, <1>3 DEF RetryOne, CampaignInv, PageFollowsCursor, InScope
<1>7. (Cardinality(Open) <= HighWater)'
  BY DEF RetryOne, queue, CampaignInv, Open
<1>8. PageFits'
  <2>1. Open' = Open /\ pc' = pc /\ campaign' = campaign
    BY DEF RetryOne, queue, Open
  <2>2. Open \union ids'[o] \union reopened'[o] \in SUBSET (Open \union ids[o] \union reopened[o])
    BY <1>3
  <2>3. Cardinality(Open \union ids[o] \union reopened[o]) + Reserve[c] <= HighWater
    BY DEF RetryOne, CampaignInv, PageFits
  <2>4. /\ Cardinality(Open \union ids'[o] \union reopened'[o]) <= Cardinality(Open \union ids[o] \union reopened[o])
        /\ Cardinality(Open \union ids'[o] \union reopened'[o]) \in Nat
        /\ Cardinality(Open \union ids[o] \union reopened[o]) \in Nat
    BY <1>2, <2>2, JobSets
  <2>5. Reserve[c] \in Nat /\ HighWater \in Nat
    BY <1>2, CampaignAssumption
  <2>6. Cardinality(Open \union ids'[o] \union reopened'[o]) + Reserve[c] <= HighWater
    BY <2>3, <2>4, <2>5
  <2> QED
    BY <1>3, <2>1, <2>6 DEF CampaignInv, PageFits
<1>9. ReceiptsBehind' /\ NothingSkipped'
  BY DEF RetryOne, queue, CampaignInv, ReceiptsBehind, NothingSkipped
<1>10. NothingOverlooked'
  BY <1>2, <1>3 DEF RetryOne, queue, CampaignInv, NothingOverlooked, Eligible, Repairable
<1> QED
  BY <1>4, <1>5, <1>6, <1>7, <1>8, <1>9, <1>10 DEF CampaignInv

\* The end of a transaction: its locks are gone, and the other pages still follow
\* their cursors when only the cursor of its campaign moved.
LEMMA EndStep ==
    ASSUME CampaignInv, NEW o \in Operators, pc[o] # "idle", EndPage(o)
    PROVE  /\ pc' \in [Operators -> {"idle", "scan", "admit", "retry"}]
           /\ campaign' \in [Operators -> Campaigns \union {"none"}]
           /\ page' \in [Operators -> SUBSET Jobs]
           /\ ids' \in [Operators -> SUBSET Jobs]
           /\ reopened' \in [Operators -> SUBSET Jobs]
           /\ Exclusive'
           /\ pc'[o] = "idle"
           /\ \A p \in Operators \ {o} :
                 /\ pc'[p] = pc[p] /\ campaign'[p] = campaign[p] /\ page'[p] = page[p]
                 /\ ids'[p] = ids[p] /\ reopened'[p] = reopened[p]
           /\ (\A d \in Campaigns \ {campaign[o]} : cursor'[d] = cursor[d]) => PageFollowsCursor'
<1>1. /\ pc' \in [Operators -> {"idle", "scan", "admit", "retry"}]
      /\ campaign' \in [Operators -> Campaigns \union {"none"}]
      /\ page' \in [Operators -> SUBSET Jobs]
      /\ ids' \in [Operators -> SUBSET Jobs]
      /\ reopened' \in [Operators -> SUBSET Jobs]
  BY DEF EndPage, CampaignInv, TypeOK
<1>2. /\ pc'[o] = "idle" /\ page'[o] = {} /\ ids'[o] = {} /\ reopened'[o] = {}
      /\ \A p \in Operators \ {o} :
            /\ pc'[p] = pc[p] /\ campaign'[p] = campaign[p] /\ page'[p] = page[p]
            /\ ids'[p] = ids[p] /\ reopened'[p] = reopened[p]
  BY DEF EndPage, CampaignInv, TypeOK
<1>3. Exclusive'
  BY <1>2 DEF CampaignInv, Exclusive
<1>4. ASSUME \A d \in Campaigns \ {campaign[o]} : cursor'[d] = cursor[d]
      PROVE  PageFollowsCursor'
  <2> SUFFICES ASSUME NEW p \in Operators, pc'[p] # "idle"
               PROVE  /\ ids'[p] \subseteq page'[p] /\ reopened'[p] \subseteq page'[p]
                      /\ page'[p] \subseteq InScope(campaign[p])'
                      /\ \A j \in page'[p] : \A i \in InScope(campaign[p])' : i < j => i \in page'[p]
    BY DEF PageFollowsCursor
  <2>1. p # o /\ campaign'[p] = campaign[p] /\ pc[p] # "idle"
    BY <1>2
  <2>2. campaign[p] \in Campaigns \ {campaign[o]}
    BY <2>1 DEF CampaignInv, Exclusive
  <2>3. InScope(campaign[p])' = InScope(campaign[p])
    BY <1>4, <2>1, <2>2 DEF InScope
  <2> QED
    BY <1>2, <2>1, <2>3 DEF CampaignInv, PageFollowsCursor
<1> QED
  BY <1>1, <1>2, <1>3, <1>4

LEMMA CommitStep ==
    ASSUME CampaignInv, NEW o \in Operators, CommitPage(o)
    PROVE  CampaignInv'
<1> DEFINE c == campaign[o]
           n == NewCursor(c, page[o])
<1> USE CampaignAssumption
<1>0. pc[o] # "idle" /\ EndPage(o) /\ pc[o] = "retry" /\ ids[o] = {}
  BY DEF CommitPage
<1>1. /\ c \in Campaigns /\ reopened[o] \in SUBSET Jobs /\ Open \in SUBSET Jobs
      /\ reopened[o] \subseteq page[o] /\ page[o] \in SUBSET InScope(c)
      /\ cursor[c] \in 0..Cutoff
  BY DEF CommitPage, CampaignInv, Exclusive, TypeOK, Open, PageFollowsCursor
<1>2. n \in 0..Cutoff /\ n >= cursor[c] /\ (\A j \in page[o] : j <= n) /\ (page[o] # {} => n \in page[o])
      /\ (page[o] = {} => n = cursor[c])
  <2>1. CASE page[o] = {}
    BY <1>1, <2>1 DEF NewCursor
  <2>2. CASE page[o] # {}
    <3>1. page[o] \in SUBSET (1..Cutoff) /\ \A j \in page[o] : j > cursor[c]
      BY <1>1 DEF InScope
    <3>2. Max(page[o]) \in page[o] /\ \A y \in page[o] : y <= Max(page[o])
      <4>1. Cutoff \in Nat
        OBVIOUS
      <4> QED
        BY <2>2, <3>1, <4>1, MaxOfBounded, Zenon
    <3> QED
      BY <1>1, <2>2, <3>1, <3>2 DEF NewCursor
  <2> QED
    BY <2>1, <2>2
<1>3. cursor' \in [Campaigns -> 0..Cutoff] /\ cursor'[c] = n /\ \A d \in Campaigns \ {c} : cursor'[d] = cursor[d]
  BY <1>1, <1>2 DEF CommitPage, CampaignInv, TypeOK
<1>4. /\ receipts' \in [Campaigns -> [Jobs -> Nat]]
      /\ \A d \in Campaigns \ {c} : receipts'[d] = receipts[d]
      /\ \A j \in Jobs : receipts'[c][j] = IF j \in reopened[o] THEN receipts[c][j] + 1 ELSE receipts[c][j]
  BY <1>1 DEF CommitPage, CampaignInv, TypeOK
<1>5. /\ status' \in [Jobs -> States] /\ attempts' = attempts
      /\ \A j \in Jobs : status'[j] = IF j \in reopened[o] THEN "open" ELSE status[j]
  BY DEF CommitPage, CampaignInv, TypeOK, States
<1>6. TypeOK'
  BY <1>0, <1>3, <1>4, <1>5, EndStep DEF CampaignInv, TypeOK
<1>7. Exclusive' /\ PageFollowsCursor'
  BY <1>0, <1>3, EndStep
<1>8. (Cardinality(Open) <= HighWater)'
  <2>1. Open' = Open \union reopened[o]
    BY <1>1, <1>5 DEF Open
  <2>2. CASE reopened[o] = {}
    BY <2>1, <2>2 DEF CampaignInv
  <2>3. CASE reopened[o] # {}
    <3>1. Cardinality(Open \union ids[o] \union reopened[o]) + Reserve[c] <= HighWater
      BY <1>0, <2>3 DEF CampaignInv, PageFits
    <3>2. Open \union ids[o] \union reopened[o] = Open \union reopened[o]
      BY <1>0
    <3>3. Cardinality(Open \union reopened[o]) \in Nat
      BY <1>1, JobSets
    <3>4. Reserve[c] \in Nat /\ HighWater \in Nat
      BY <1>1
    <3>5. Cardinality(Open \union reopened[o]) + Reserve[c] <= HighWater
      BY <3>1, <3>2, Zenon
    <3>6. Cardinality(Open \union reopened[o]) <= HighWater
      BY <3>3, <3>4, <3>5
    <3> QED
      BY <2>1, <3>6
  <2> QED
    BY <2>2, <2>3
<1>9. PageFits'
  <2>1. \A p \in Operators : pc'[p] # "retry"
    BY <1>0, EndStep DEF CampaignInv, Exclusive
  <2> QED
    BY <2>1 DEF PageFits
<1>10. ReceiptsBehind'
  <2> SUFFICES ASSUME NEW d \in Campaigns, NEW j \in Jobs
               PROVE  receipts'[d][j] <= 1 /\ (receipts'[d][j] = 1 => j <= cursor'[d])
    BY DEF ReceiptsBehind
  <2>0. receipts[d][j] \in Nat /\ receipts[d][j] <= 1 /\ (receipts[d][j] = 1 => j <= cursor[d])
    BY DEF CampaignInv, TypeOK, ReceiptsBehind
  <2>1. CASE d # c
    BY <1>3, <1>4, <2>0, <2>1
  <2>2. CASE d = c /\ j \notin reopened[o]
    <3>1. receipts'[d][j] = receipts[d][j]
      BY <1>4, <2>2
    <3>2. j <= cursor[c] => j <= n
      BY <1>1, <1>2 DEF Jobs
    <3> QED
      BY <1>3, <2>0, <2>2, <3>1, <3>2
  <2>3. CASE d = c /\ j \in reopened[o]
    <3>1. j > cursor[c] /\ j <= n
      BY <1>1, <1>2, <2>3 DEF InScope
    <3>2. receipts[d][j] = 0
      BY <1>1, <2>0, <2>3, <3>1 DEF Jobs
    <3> QED
      BY <1>3, <1>4, <2>3, <3>1, <3>2
  <2> QED
    BY <2>1, <2>2, <2>3
<1>11. NothingOverlooked'
  <2> SUFFICES ASSUME NEW p \in Operators, pc'[p] # "idle", Reviewed[campaign'[p]] = 0,
                      NEW j \in page'[p] \ LossyJobs, status'[j] = "missing", attempts'[j] < MaxAttempts
               PROVE  j \in ids'[p] \union reopened'[p]
    BY DEF NothingOverlooked
  <2>1. p # o /\ pc[p] # "idle" /\ campaign'[p] = campaign[p] /\ page'[p] = page[p] /\ ids'[p] = ids[p] /\ reopened'[p] = reopened[p]
    BY <1>0, EndStep
  <2>2. j \in Jobs
    BY <2>1 DEF CampaignInv, TypeOK
  <2>3. status[j] = "missing" /\ attempts[j] < MaxAttempts
    BY <1>5, <2>2
  <2> QED
    BY <2>1, <2>3 DEF CampaignInv, NothingOverlooked
<1>12. NothingSkipped'
  <2> SUFFICES ASSUME NEW d \in Campaigns, NEW j \in (1..cursor'[d]) \ LossyJobs, Reviewed[d] = 0, status'[j] = "missing"
               PROVE  attempts'[j] = MaxAttempts
    BY DEF NothingSkipped
  <2>0. cursor'[d] \in 0..Cutoff /\ cursor[d] \in 0..Cutoff /\ j \in 1..Cutoff /\ j \in Jobs /\ attempts[j] \in 0..MaxAttempts
    BY <1>3 DEF CampaignInv, TypeOK, Jobs
  <2>1. status[j] = "missing" /\ j \notin reopened[o] /\ attempts'[j] = attempts[j]
    BY <1>5, <2>0
  <2>2. CASE j <= cursor[d]
    BY <2>0, <2>1, <2>2 DEF CampaignInv, NothingSkipped
  <2>3. CASE j > cursor[d]
    <3>1. d = c /\ page[o] # {} /\ n \in page[o] /\ j <= n
      BY <1>2, <1>3, <2>0, <2>3
    <3>2. j \in InScope(c)
      BY <2>0, <2>3, <3>1 DEF InScope
    <3>3. j \in page[o]
      <4>1. j = n \/ j < n
        BY <1>2, <2>0, <3>1
      <4>2. \A i \in InScope(c) : i < n => i \in page[o]
        BY <1>0, <3>1, Zenon DEF CampaignInv, PageFollowsCursor
      <4> QED
        BY <3>1, <3>2, <4>1, <4>2, Zenon
    <3>4. ~(attempts[j] < MaxAttempts)
      BY <1>0, <2>1, <3>1, <3>3 DEF CampaignInv, NothingOverlooked
    <3> QED
      BY <2>0, <2>1, <3>4
  <2> QED
    BY <2>0, <2>2, <2>3
<1> QED
  BY <1>6, <1>7, <1>8, <1>9, <1>10, <1>11, <1>12 DEF CampaignInv

LEMMA AbortStep ==
    ASSUME CampaignInv, NEW o \in Operators, AbortPage(o)
    PROVE  CampaignInv'
<1>0. pc[o] # "idle" /\ EndPage(o) /\ UNCHANGED <<status, attempts, cursor, receipts>>
  BY DEF AbortPage, queue
<1>1. TypeOK'
  BY <1>0, EndStep DEF CampaignInv, TypeOK
<1>2. Exclusive' /\ PageFollowsCursor'
  BY <1>0, EndStep
<1>3. (Cardinality(Open) <= HighWater)' /\ Open' = Open
  BY <1>0 DEF CampaignInv, Open
<1>4. PageFits' /\ NothingOverlooked'
  BY <1>0, <1>3, EndStep DEF CampaignInv, PageFits, NothingOverlooked
<1>5. ReceiptsBehind' /\ NothingSkipped'
  BY <1>0 DEF CampaignInv, ReceiptsBehind, NothingSkipped
<1> QED
  BY <1>1, <1>2, <1>3, <1>4, <1>5 DEF CampaignInv

\* Workers only take jobs out of the set of open ones, and only a lossy job comes
\* to lack its vector.
LEMMA WorkStep ==
    ASSUME CampaignInv, NEW j \in Jobs, Work(j) \/ LoseVector(j)
    PROVE  CampaignInv'
<1> USE CampaignAssumption
<1>0. UNCHANGED <<cursor, receipts, pc, campaign, page, ids, reopened>>
  BY DEF Work, LoseVector, local
<1>1. /\ status' \in [Jobs -> States] /\ attempts' \in [Jobs -> 0..MaxAttempts]
      /\ \A i \in Jobs \ {j} : status'[i] = status[i] /\ attempts'[i] = attempts[i]
      /\ status'[j] # "missing" \/ j \in LossyJobs
      /\ status'[j] = "open" => status[j] = "open"
  <2>1. CASE Work(j)
    <3>1. attempts[j] + 1 \in 0..MaxAttempts
      BY <2>1 DEF Work, CampaignInv, TypeOK
    <3>2. PICK s \in {"healthy", "failed", "cancelled", "open"} : status' = [status EXCEPT ![j] = s]
      BY <2>1 DEF Work
    <3>3. attempts' = [attempts EXCEPT ![j] = @ + 1] /\ status[j] = "open"
      BY <2>1 DEF Work
    <3> QED
      BY <3>1, <3>2, <3>3 DEF CampaignInv, TypeOK, States
  <2>2. CASE LoseVector(j)
    BY <2>2 DEF LoseVector, CampaignInv, TypeOK, States
  <2> QED
    BY <2>1, <2>2
<1>2. TypeOK' /\ Exclusive' /\ ReceiptsBehind'
  BY <1>0, <1>1 DEF CampaignInv, TypeOK, Exclusive, ReceiptsBehind
<1>3. PageFollowsCursor'
  BY <1>0 DEF CampaignInv, PageFollowsCursor, InScope
<1>4. Open' \in SUBSET Open /\ Open \in SUBSET Jobs
  BY <1>1 DEF Open
<1>5. (Cardinality(Open) <= HighWater)'
  <2>1. Cardinality(Open') <= Cardinality(Open) /\ Cardinality(Open') \in Nat /\ Cardinality(Open) \in Nat
    BY <1>4, JobSets
  <2> QED
    BY <2>1 DEF CampaignInv
<1>6. PageFits'
  <2> SUFFICES ASSUME NEW o \in Operators, pc[o] = "retry", ids[o] \union reopened[o] # {}
               PROVE  Cardinality(Open' \union ids[o] \union reopened[o]) + Reserve[campaign[o]] <= HighWater
    BY <1>0 DEF PageFits
  <2> DEFINE W == Open \union ids[o] \union reopened[o]
             V == Open' \union ids[o] \union reopened[o]
  <2>1. W \in SUBSET Jobs /\ V \in SUBSET W
    BY <1>4 DEF CampaignInv, TypeOK
  <2>2. Cardinality(V) <= Cardinality(W) /\ Cardinality(V) \in Nat /\ Cardinality(W) \in Nat
    BY <2>1, JobSets
  <2>3. Cardinality(W) + Reserve[campaign[o]] <= HighWater
    BY DEF CampaignInv, PageFits
  <2>4. Reserve[campaign[o]] \in Nat
    BY DEF CampaignInv, Exclusive
  <2> QED
    BY <2>2, <2>3, <2>4
<1>7. NothingOverlooked'
  <2> SUFFICES ASSUME NEW o \in Operators, pc[o] # "idle", Reviewed[campaign[o]] = 0,
                      NEW i \in page[o] \ LossyJobs, status'[i] = "missing", attempts'[i] < MaxAttempts
               PROVE  i \in ids[o] \union reopened[o]
    BY <1>0 DEF NothingOverlooked
  <2>1. i \in Jobs \ {j}
    <3>1. i \in Jobs
      BY DEF CampaignInv, TypeOK
    <3> QED
      BY <1>1, <3>1
  <2> QED
    BY <1>1, <2>1 DEF CampaignInv, NothingOverlooked
<1>8. NothingSkipped'
  <2> SUFFICES ASSUME NEW d \in Campaigns, NEW i \in (1..cursor[d]) \ LossyJobs, Reviewed[d] = 0, status'[i] = "missing"
               PROVE  attempts'[i] = MaxAttempts
    BY <1>0 DEF NothingSkipped
  <2>1. cursor[d] \in 0..Cutoff /\ i \in Jobs
    BY DEF CampaignInv, TypeOK, Jobs
  <2>2. i # j
    BY <1>1
  <2> QED
    BY <1>1, <2>1, <2>2 DEF CampaignInv, NothingSkipped
<1> QED
  BY <1>2, <1>3, <1>5, <1>6, <1>7, <1>8 DEF CampaignInv

LEMMA EnqueueStep ==
    ASSUME CampaignInv, NEW j \in Jobs, Enqueue(j)
    PROVE  CampaignInv'
<1> USE CampaignAssumption
<1>0. UNCHANGED <<cursor, receipts, pc, campaign, page, ids, reopened>>
  BY DEF Enqueue, local
<1>1. /\ status' \in [Jobs -> States] /\ attempts' \in [Jobs -> 0..MaxAttempts] /\ status'[j] = "open"
      /\ \A i \in Jobs \ {j} : status'[i] = status[i] /\ attempts'[i] = attempts[i]
  BY DEF Enqueue, CampaignInv, TypeOK, States
<1>2. TypeOK' /\ Exclusive' /\ ReceiptsBehind'
  BY <1>0, <1>1 DEF CampaignInv, TypeOK, Exclusive, ReceiptsBehind
<1>3. PageFollowsCursor'
  BY <1>0 DEF CampaignInv, PageFollowsCursor, InScope
<1>4. PageFits'
  BY <1>0 DEF Enqueue, PageFits
<1>5. (Cardinality(Open) <= HighWater)'
  <2>1. Open' = Open \union {j} /\ j \notin Open /\ Open \in SUBSET Jobs
    BY <1>1 DEF Open, Enqueue
  <2>2. IsFiniteSet(Open) /\ Cardinality(Open) \in Nat
    BY <2>1, JobSets
  <2>3. Cardinality(Open') = Cardinality(Open) + 1
    BY <2>1, <2>2, FS_AddElement
  <2> QED
    BY <2>2, <2>3 DEF Enqueue
<1>6. NothingOverlooked'
  <2> SUFFICES ASSUME NEW o \in Operators, pc[o] # "idle", Reviewed[campaign[o]] = 0,
                      NEW i \in page[o] \ LossyJobs, status'[i] = "missing", attempts'[i] < MaxAttempts
               PROVE  i \in ids[o] \union reopened[o]
    BY <1>0 DEF NothingOverlooked
  <2>1. i \in Jobs \ {j}
    <3>1. i \in Jobs
      BY DEF CampaignInv, TypeOK
    <3> QED
      BY <1>1, <3>1
  <2> QED
    BY <1>1, <2>1 DEF CampaignInv, NothingOverlooked
<1>7. NothingSkipped'
  <2> SUFFICES ASSUME NEW d \in Campaigns, NEW i \in (1..cursor[d]) \ LossyJobs, Reviewed[d] = 0, status'[i] = "missing"
               PROVE  attempts'[i] = MaxAttempts
    BY <1>0 DEF NothingSkipped
  <2>1. cursor[d] \in 0..Cutoff /\ i \in Jobs
    BY DEF CampaignInv, TypeOK, Jobs
  <2>2. i # j
    BY <1>1
  <2> QED
    BY <1>1, <2>1, <2>2 DEF CampaignInv, NothingSkipped
<1> QED
  BY <1>2, <1>3, <1>4, <1>5, <1>6, <1>7 DEF CampaignInv

LEMMA CampaignStep == CampaignInv /\ [Next]_vars => CampaignInv'
<1> SUFFICES ASSUME CampaignInv, [Next]_vars PROVE CampaignInv'
  OBVIOUS
<1>1. CASE UNCHANGED vars
  <2>1. UNCHANGED <<status, attempts, cursor, receipts, pc, campaign, page, ids, reopened>>
    BY <1>1 DEF vars, queue, local
  <2> QED
    <3>1. TypeOK' /\ Exclusive' /\ ReceiptsBehind'
      BY <2>1 DEF CampaignInv, TypeOK, Exclusive, ReceiptsBehind
    <3>2. PageFollowsCursor' /\ NothingOverlooked' /\ NothingSkipped'
      BY <2>1 DEF CampaignInv, PageFollowsCursor, InScope, NothingOverlooked, NothingSkipped
    <3>3. PageFits' /\ (Cardinality(Open) <= HighWater)'
      BY <2>1 DEF CampaignInv, PageFits, Open
    <3> QED
      BY <3>1, <3>2, <3>3 DEF CampaignInv
<1> QED
  BY <1>1, BeginStep, ScanStep, AdmitStep, RetryStep, CommitStep, AbortStep, WorkStep, EnqueueStep DEF Next

\* The inductive invariant: locks, pages under way and cursors agree with the rows.
THEOREM CampaignInvariant == Spec => []CampaignInv
<1> QED
  BY CampaignInit, CampaignStep, PTL DEF Spec

\* Every variable keeps its type: cursors stay inside the frozen scope and no job
\* is tried more often than its attempts allow.
THEOREM CampaignTypeOK == Spec => []TypeOK
<1>1. CampaignInv => TypeOK
  BY DEF CampaignInv
<1> QED
  BY <1>1, CampaignInvariant, PTL

\* The queue stays below its high water mark and a page that reopens jobs leaves
\* the reserve of its campaign free, for any number of concurrent invocations.
THEOREM HeadroomIsKept == Spec => []HeadroomKept
<1>1. CampaignInv => HeadroomKept
  <2> SUFFICES ASSUME CampaignInv, NEW o \in Operators, reopened[o] # {}
               PROVE  Cardinality(Open \union reopened[o]) + Reserve[campaign[o]] <= HighWater
    BY DEF CampaignInv, HeadroomKept
  <2> DEFINE W == Open \union ids[o] \union reopened[o]
             V == Open \union reopened[o]
  <2>1. pc[o] = "retry" /\ Reserve[campaign[o]] \in Nat
    BY CampaignAssumption DEF CampaignInv, Exclusive
  <2>2. Cardinality(W) + Reserve[campaign[o]] <= HighWater
    BY <2>1 DEF CampaignInv, PageFits
  <2>3. W \in SUBSET Jobs /\ V \in SUBSET W
    BY DEF CampaignInv, TypeOK, Open
  <2>4. Cardinality(V) <= Cardinality(W) /\ Cardinality(V) \in Nat /\ Cardinality(W) \in Nat
    BY <2>3, JobSets
  <2> QED
    BY <2>1, <2>2, <2>4, CampaignAssumption
<1> QED
  BY <1>1, CampaignInvariant, PTL

\* A campaign writes at most one receipt for a job and leaves no job without its
\* vector behind its cursor, whatever pages were given up, repeated or run at once.
THEOREM EachJobPassedOnce == Spec => []EachJobOnce
<1>1. CampaignInv => EachJobOnce
  BY DEF CampaignInv, ReceiptsBehind, EachJobOnce, OncePerCampaign
<1> QED
  BY <1>1, CampaignInvariant, PTL

====
