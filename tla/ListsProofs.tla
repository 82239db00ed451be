---- MODULE ListsProofs ----
(***************************************************************************)
(* Proofs about the ordered lists of the request handlers, for any rows,     *)
(* documents and sizes: a walk over the pages of a report shows every row    *)
(* that stayed once and in order, and a search ranks what its legs found and *)
(* says which legs they were.  With the invariants of the other handlers,    *)
(* all of them are well typed.                                              *)
(***************************************************************************)
EXTENDS ReportsProofs, RequestsProofs

----------------------------------------------------------------------------
(* The order of a report and the clause of its next page                    *)

PageRows == [id : Nat, pinned : BOOLEAN, ranked : BOOLEAN, seen : Nat, count : Nat]

\* The keys of the reports, written out.
EntityPrecedes(x, y) ==
    \/ Pages!Bit(x.pinned) > Pages!Bit(y.pinned)
    \/ /\ Pages!Bit(x.pinned) = Pages!Bit(y.pinned)
       /\ \/ Pages!Bit(x.ranked) > Pages!Bit(y.ranked)
          \/ /\ Pages!Bit(x.ranked) = Pages!Bit(y.ranked)
             /\ \/ x.seen = 0 /\ y.seen # 0
                \/ /\ (x.seen = 0) = (y.seen = 0)
                   /\ x.seen > y.seen \/ (x.seen = y.seen /\ x.id < y.id)

TablePrecedes(x, y) ==
    \/ x.seen = 0 /\ y.seen # 0
    \/ /\ (x.seen = 0) = (y.seen = 0)
       /\ x.seen > y.seen \/ (x.seen = y.seen /\ x.id < y.id)

LEMMA KeysOfTwo ==
    ASSUME NEW a \in Int, NEW b \in Int, NEW c \in Int, NEW d \in Int
    PROVE  (\E i \in DOMAIN <<a, b>> :
              <<a, b>>[i] < <<c, d>>[i] /\ \A j \in 1 .. i - 1 : <<a, b>>[j] = <<c, d>>[j])
             <=> a < c \/ (a = c /\ b < d)
<1> DEFINE k == <<a, b>>
           l == <<c, d>>
<1>1. k[1] = a /\ k[2] = b /\ l[1] = c /\ l[2] = d /\ DOMAIN k = 1..2
  OBVIOUS
<1> HIDE DEF k, l
<1>2. (\E i \in 1..2 : k[i] < l[i] /\ \A j \in 1 .. i - 1 : k[j] = l[j])
        <=> k[1] < l[1] \/ (k[1] = l[1] /\ k[2] < l[2])
  <2>1. ASSUME NEW i \in 1..2, k[i] < l[i], \A j \in 1 .. i - 1 : k[j] = l[j]
        PROVE  k[1] < l[1] \/ (k[1] = l[1] /\ k[2] < l[2])
    <3>1. i = 1 \/ i = 2
      OBVIOUS
    <3> QED
      BY <2>1, <3>1
  <2>2. 1 .. 1 - 1 = {} /\ 1 .. 2 - 1 = {1} /\ 1 \in 1..2 /\ 2 \in 1..2
    OBVIOUS
  <2> QED
    BY <2>1, <2>2, Zenon
<1>3. (\E i \in DOMAIN k : k[i] < l[i] /\ \A j \in 1 .. i - 1 : k[j] = l[j]) <=> a < c \/ (a = c /\ b < d)
  BY <1>1, <1>2
<1> QED
  BY <1>3 DEF k, l

LEMMA PrecedesByKey ==
    ASSUME NEW x \in PageRows, NEW y \in PageRows, NEW r
    PROVE  /\ r \in {"table", "list"} => (Pages!Precedes(r, x, y) <=> TablePrecedes(x, y))
           /\ r = "overview" =>
                (Pages!Precedes(r, x, y) <=> x.count > y.count \/ (x.count = y.count /\ x.id < y.id))
           /\ r = "entities" => (Pages!Precedes(r, x, y) <=> EntityPrecedes(x, y))
           /\ r \notin {"table", "list", "overview", "entities"} => (Pages!Precedes(r, x, y) <=> x.id < y.id)
<1>1. /\ x.id \in Nat /\ x.seen \in Nat /\ x.count \in Nat /\ x.pinned \in BOOLEAN /\ x.ranked \in BOOLEAN
      /\ y.id \in Nat /\ y.seen \in Nat /\ y.count \in Nat /\ y.pinned \in BOOLEAN /\ y.ranked \in BOOLEAN
  BY DEF PageRows
<1>2. CASE r \in {"table", "list"}
  <2> DEFINE a == Pages!Bit(x.seen # 0) b == -x.seen
             c == Pages!Bit(y.seen # 0) d == -y.seen
             u == x.id v == y.id
  <2>1. Pages!OrderKey(r, x) = <<a, b, u>> /\ Pages!OrderKey(r, y) = <<c, d, v>>
    BY <1>2 DEF Pages!OrderKey, Pages!Null
  <2>2. /\ a = IF x.seen = 0 THEN 0 ELSE 1
        /\ c = IF y.seen = 0 THEN 0 ELSE 1
    BY DEF Pages!Bit
  <2>3. a \in Int /\ b \in Int /\ c \in Int /\ d \in Int /\ u \in Int /\ v \in Int
    BY <1>1, <2>2
  <2> HIDE DEF a, b, c, d, u, v
  <2>4. Pages!Precedes(r, x, y) <=> a < c \/ (a = c /\ b < d) \/ (a = c /\ b = d /\ u < v)
    <3> DEFINE k == <<a, b, u>>
               l == <<c, d, v>>
    <3>1. k[1] = a /\ k[2] = b /\ k[3] = u /\ l[1] = c /\ l[2] = d /\ l[3] = v /\ DOMAIN k = 1..3
      OBVIOUS
    <3> HIDE DEF k, l
    <3>2. Pages!Precedes(r, x, y) <=> \E i \in 1..3 : k[i] < l[i] /\ \A j \in 1 .. i - 1 : k[j] = l[j]
      BY <2>1, <3>1 DEF Pages!Precedes, k, l
    <3>3. (\E i \in 1..3 : k[i] < l[i] /\ \A j \in 1 .. i - 1 : k[j] = l[j])
            <=> k[1] < l[1] \/ (k[1] = l[1] /\ k[2] < l[2]) \/ (k[1] = l[1] /\ k[2] = l[2] /\ k[3] < l[3])
      <4>1. ASSUME NEW i \in 1..3, k[i] < l[i], \A j \in 1 .. i - 1 : k[j] = l[j]
            PROVE  k[1] < l[1] \/ (k[1] = l[1] /\ k[2] < l[2]) \/ (k[1] = l[1] /\ k[2] = l[2] /\ k[3] < l[3])
        <5>1. i = 1 \/ i = 2 \/ i = 3
          OBVIOUS
        <5> QED
          BY <4>1, <5>1
      <4>2. /\ 1 .. 1 - 1 = {} /\ 1 .. 2 - 1 = {1} /\ 1 .. 3 - 1 = {1, 2}
            /\ 1 \in 1..3 /\ 2 \in 1..3 /\ 3 \in 1..3
        OBVIOUS
      <4> QED
        BY <4>1, <4>2, Zenon
    <3> QED
      BY <3>1, <3>2, <3>3
  <2>6. b = -x.seen /\ d = -y.seen /\ u = x.id /\ v = y.id
    BY DEF b, d, u, v
  <2>7. Pages!Precedes(r, x, y) <=> TablePrecedes(x, y)
    BY <1>1, <2>2, <2>4, <2>6 DEF TablePrecedes
  <2> QED
    BY <1>2, <2>7
<1>3. CASE r = "overview"
  <2>1. Pages!OrderKey(r, x) = <<-x.count, x.id>> /\ Pages!OrderKey(r, y) = <<-y.count, y.id>>
    BY <1>3 DEF Pages!OrderKey
  <2>2. Pages!Precedes(r, x, y) <=> -x.count < -y.count \/ (-x.count = -y.count /\ x.id < y.id)
    <3> DEFINE a == -x.count
               c == -y.count
    <3>1. a \in Int /\ c \in Int /\ x.id \in Int /\ y.id \in Int
      BY <1>1
    <3>2. Pages!OrderKey(r, x) = <<a, x.id>> /\ Pages!OrderKey(r, y) = <<c, y.id>>
      BY <2>1
    <3> HIDE DEF a, c
    <3>3. (\E i \in DOMAIN <<a, x.id>> :
             /\ <<a, x.id>>[i] < <<c, y.id>>[i]
             /\ \A j \in 1 .. i - 1 : <<a, x.id>>[j] = <<c, y.id>>[j])
            <=> a < c \/ (a = c /\ x.id < y.id)
      BY <3>1, KeysOfTwo
    <3>4. Pages!Precedes(r, x, y) <=> a < c \/ (a = c /\ x.id < y.id)
      BY <3>2, <3>3, Zenon DEF Pages!Precedes
    <3> QED
      BY <3>4 DEF a, c
  <2> QED
    BY <1>1, <1>3, <2>2
<1>4. CASE r = "entities"
  <2> DEFINE a == Pages!Bit(x.pinned) b == Pages!Bit(x.ranked) c == Pages!Bit(x.seen # 0)
             d == Pages!Bit(y.pinned) e == Pages!Bit(y.ranked) f == Pages!Bit(y.seen # 0)
  <2>1. /\ Pages!OrderKey(r, x) = <<-a, -b, c, -x.seen, x.id>>
        /\ Pages!OrderKey(r, y) = <<-d, -e, f, -y.seen, y.id>>
    BY <1>4 DEF Pages!OrderKey, Pages!Null
  <2>2. a \in {0, 1} /\ b \in {0, 1} /\ d \in {0, 1} /\ e \in {0, 1}
    BY DEF Pages!Bit
  <2>3. /\ c = IF x.seen = 0 THEN 0 ELSE 1
        /\ f = IF y.seen = 0 THEN 0 ELSE 1
    BY DEF Pages!Bit
  <2> HIDE DEF a, b, c, d, e, f
  <2>4. Pages!Precedes(r, x, y) <=>
          \/ -a < -d
          \/ -a = -d /\ -b < -e
          \/ -a = -d /\ -b = -e /\ c < f
          \/ -a = -d /\ -b = -e /\ c = f /\ -x.seen < -y.seen
          \/ -a = -d /\ -b = -e /\ c = f /\ -x.seen = -y.seen /\ x.id < y.id
    <3> DEFINE k == <<-a, -b, c, -x.seen, x.id>>
               l == <<-d, -e, f, -y.seen, y.id>>
    <3>1. /\ k[1] = -a /\ k[2] = -b /\ k[3] = c /\ k[4] = -x.seen /\ k[5] = x.id
          /\ l[1] = -d /\ l[2] = -e /\ l[3] = f /\ l[4] = -y.seen /\ l[5] = y.id
          /\ DOMAIN k = 1..5
      OBVIOUS
    <3> HIDE DEF k, l
    <3>2. Pages!Precedes(r, x, y) <=> \E i \in 1..5 : k[i] < l[i] /\ \A j \in 1 .. i - 1 : k[j] = l[j]
      BY <2>1, <3>1 DEF Pages!Precedes, k, l
    <3>3. (\E i \in 1..5 : k[i] < l[i] /\ \A j \in 1 .. i - 1 : k[j] = l[j]) <=>
             \/ k[1] < l[1]
             \/ k[1] = l[1] /\ k[2] < l[2]
             \/ k[1] = l[1] /\ k[2] = l[2] /\ k[3] < l[3]
             \/ k[1] = l[1] /\ k[2] = l[2] /\ k[3] = l[3] /\ k[4] < l[4]
             \/ k[1] = l[1] /\ k[2] = l[2] /\ k[3] = l[3] /\ k[4] = l[4] /\ k[5] < l[5]
      <4>1. ASSUME NEW i \in 1..5, k[i] < l[i], \A j \in 1 .. i - 1 : k[j] = l[j]
            PROVE  \/ k[1] < l[1]
                   \/ k[1] = l[1] /\ k[2] < l[2]
                   \/ k[1] = l[1] /\ k[2] = l[2] /\ k[3] < l[3]
                   \/ k[1] = l[1] /\ k[2] = l[2] /\ k[3] = l[3] /\ k[4] < l[4]
                   \/ k[1] = l[1] /\ k[2] = l[2] /\ k[3] = l[3] /\ k[4] = l[4] /\ k[5] < l[5]
        <5>1. i = 1 \/ i = 2 \/ i = 3 \/ i = 4 \/ i = 5
          OBVIOUS
        <5> QED
          BY <4>1, <5>1
      <4>2. /\ 1 .. 1 - 1 = {} /\ 1 .. 2 - 1 = {1} /\ 1 .. 3 - 1 = {1, 2}
            /\ 1 .. 4 - 1 = {1, 2, 3} /\ 1 .. 5 - 1 = {1, 2, 3, 4}
        OBVIOUS
      <4>3. 1 \in 1..5 /\ 2 \in 1..5 /\ 3 \in 1..5 /\ 4 \in 1..5 /\ 5 \in 1..5
        OBVIOUS
      <4> QED
        BY <4>1, <4>2, <4>3, Zenon
    <3> QED
      BY <3>1, <3>2, <3>3
  <2>5. EntityPrecedes(x, y) <=>
          \/ a > d
          \/ /\ a = d
             /\ \/ b > e
                \/ /\ b = e
                   /\ \/ x.seen = 0 /\ y.seen # 0
                      \/ /\ (x.seen = 0) = (y.seen = 0)
                         /\ x.seen > y.seen \/ (x.seen = y.seen /\ x.id < y.id)
    BY DEF EntityPrecedes, a, b, d, e
  <2> QED
    BY <1>1, <1>4, <2>2, <2>3, <2>4, <2>5
<1>5. CASE r \notin {"table", "list", "overview", "entities"}
  <2>1. Pages!OrderKey(r, x) = <<x.id>> /\ Pages!OrderKey(r, y) = <<y.id>>
    BY <1>5 DEF Pages!OrderKey
  <2>2. /\ DOMAIN <<x.id>> = {1} /\ <<x.id>>[1] = x.id /\ <<y.id>>[1] = y.id
        /\ 1 .. 1 - 1 = {}
    OBVIOUS
  <2>3. Pages!Precedes(r, x, y) <=> x.id < y.id
    BY <2>1, <2>2, Zenon DEF Pages!Precedes
  <2> QED
    BY <1>5, <2>3
<1> QED
  BY <1>2, <1>3, <1>4, <1>5

\* The order is strict, total on rows of different identifiers, and what does not come
\* after c comes before what does.
LEMMA ReportOrder ==
    ASSUME NEW r, NEW x \in PageRows, NEW y \in PageRows, NEW z \in PageRows
    PROVE  /\ ~Pages!Precedes(r, x, x)
           /\ x.id # y.id => Pages!Precedes(r, x, y) \/ Pages!Precedes(r, y, x)
           /\ Pages!Precedes(r, x, y) /\ Pages!Precedes(r, y, z) => Pages!Precedes(r, x, z)
           /\ ~Pages!Precedes(r, y, x) /\ Pages!Precedes(r, y, z) => Pages!Precedes(r, x, z)
<1> DEFINE P(u, v) == Pages!Precedes(r, u, v)
<1> DEFINE Goal == /\ ~P(x, x)
                   /\ x.id # y.id => P(x, y) \/ P(y, x)
                   /\ P(x, y) /\ P(y, z) => P(x, z)
                   /\ ~P(y, x) /\ P(y, z) => P(x, z)
<1>1. /\ x.id \in Nat /\ x.seen \in Nat /\ x.count \in Nat
      /\ y.id \in Nat /\ y.seen \in Nat /\ y.count \in Nat
      /\ z.id \in Nat /\ z.seen \in Nat /\ z.count \in Nat
  BY DEF PageRows
<1>2. CASE r \in {"table", "list"}
  <2>1. \A u, v \in PageRows : P(u, v) <=> TablePrecedes(u, v)
    BY <1>2, PrecedesByKey
  <2> HIDE DEF P
  <2> Goal
    BY <1>1, <2>1 DEF TablePrecedes
  <2> QED
    BY DEF P
<1>3. CASE r = "overview"
  <2>1. \A u, v \in PageRows : P(u, v) <=> u.count > v.count \/ (u.count = v.count /\ u.id < v.id)
    BY <1>3, PrecedesByKey
  <2> HIDE DEF P
  <2> Goal
    BY <1>1, <2>1
  <2> QED
    BY DEF P
<1>4. CASE r = "entities"
  <2>1. \A u, v \in PageRows : P(u, v) <=> EntityPrecedes(u, v)
    BY <1>4, PrecedesByKey
  <2>2. \A b : Pages!Bit(b) \in {0, 1}
    BY DEF Pages!Bit
  <2> HIDE DEF P
  <2> Goal
    BY <1>1, <2>1, <2>2 DEF EntityPrecedes
  <2> QED
    BY DEF P
<1>5. CASE r \notin {"table", "list", "overview", "entities"}
  <2>1. \A u, v \in PageRows : P(u, v) <=> u.id < v.id
    BY <1>5, PrecedesByKey
  <2> HIDE DEF P
  <2> Goal
    BY <1>1, <2>1
  <2> QED
    BY DEF P
<1> QED
  BY <1>2, <1>3, <1>4, <1>5

\* The clause that continues a report selects what follows the cursor in its order,
\* ties and missing times included.
LEMMA ClauseMatchesOrder ==
    ASSUME NEW r \in Pages!Reports \ {"list"}, NEW c \in PageRows, NEW x \in PageRows,
           r = "table" => c.seen # 0
    PROVE  Pages!After(r, c, x) <=> Pages!Precedes(r, c, x)
<1>1. /\ x.id \in Nat /\ x.seen \in Nat /\ x.count \in Nat /\ x.pinned \in BOOLEAN /\ x.ranked \in BOOLEAN
      /\ c.id \in Nat /\ c.seen \in Nat /\ c.count \in Nat /\ c.pinned \in BOOLEAN /\ c.ranked \in BOOLEAN
  BY DEF PageRows
<1>2. CASE r = "table"
  <2>1. Pages!After(r, c, x) <=> Pages!TableAfter(c, x)
    BY <1>2 DEF Pages!After
  <2>2. Pages!Precedes(r, c, x) <=> TablePrecedes(c, x)
    BY <1>2, PrecedesByKey
  <2> QED
    BY <1>1, <1>2, <2>1, <2>2 DEF Pages!TableAfter, TablePrecedes, Pages!Null
<1>3. CASE r = "overview"
  <2>1. Pages!After(r, c, x) <=> Pages!OverviewAfter(c, x)
    BY <1>3 DEF Pages!After
  <2>2. Pages!Precedes(r, c, x) <=> c.count > x.count \/ (c.count = x.count /\ c.id < x.id)
    BY <1>3, PrecedesByKey
  <2> QED
    BY <1>1, <2>1, <2>2 DEF Pages!OverviewAfter
<1>4. CASE r = "entities"
  <2>1. Pages!After(r, c, x) <=> Pages!EntityAfter(c, x)
    BY <1>4 DEF Pages!After
  <2>2. Pages!Precedes(r, c, x) <=> EntityPrecedes(c, x)
    BY <1>4, PrecedesByKey
  <2>3. /\ x.pinned = c.pinned <=> Pages!Bit(x.pinned) = Pages!Bit(c.pinned)
        /\ x.ranked = c.ranked <=> Pages!Bit(x.ranked) = Pages!Bit(c.ranked)
    BY <1>1 DEF Pages!Bit
  <2>4. \A b : Pages!Bit(b) \in {0, 1}
    BY DEF Pages!Bit
  <2> QED
    BY <1>1, <2>1, <2>2, <2>3, <2>4 DEF Pages!EntityAfter, EntityPrecedes, Pages!Null
<1>5. CASE r \notin {"table", "overview", "entities"}
  <2>1. Pages!After(r, c, x) <=> Pages!IdAfter(c, x)
    BY <1>5 DEF Pages!After
  <2>2. Pages!Precedes(r, c, x) <=> c.id < x.id
    BY <1>5, PrecedesByKey
  <2> QED
    BY <1>1, <2>1, <2>2 DEF Pages!IdAfter
<1> QED
  BY <1>2, <1>3, <1>4, <1>5

----------------------------------------------------------------------------
(* A walk over pages                                                        *)

ByIdentifier == {"inventory", "identifier", "roster"}
TableRows == [in : BOOLEAN, pinned : BOOLEAN, ranked : BOOLEAN, seen : Nat, count : Nat]
Attaching == {"attach", "attach_last"}
Responses == [rows : SUBSET RowIds, nodes : SUBSET RowIds]
PageWalks ==
    [report : Pages!Reports, scope : RowScopes, size : Sizes,
     at : {"first", "more", "list_attach", "done", "refused", "failed"} \union Attaching,
     cursor : {Pages!NoCursor} \union PageRows, page : SUBSET RowIds,
     given : Seq(RowIds), pairs : Seq(RowPairs), responses : Seq(Responses)]
PagesTyped ==
    /\ rows \in [RowIds -> TableRows] /\ changes \in 0 .. MaxChanges /\ steady \in SUBSET RowIds
    /\ walk \in PageWalks

\* Where a walk of each report may be, and what it has there.
WalkPlaces ==
    /\ walk.at = "first" =>
         /\ walk.cursor = Pages!NoCursor /\ walk.given = <<>> /\ walk.pairs = <<>> /\ walk.responses = <<>>
    /\ walk.at \in {"more", "attach"} =>
         walk.cursor \in PageRows /\ walk.cursor.id # 0 /\ (walk.report = "table" => walk.cursor.seen # 0)
    /\ walk.at \in Attaching => walk.report = "inventory"
    /\ walk.at = "list_attach" => walk.report = "list"
    /\ walk.report = "list" => walk.at \in {"first", "list_attach", "done"}

\* The table is ordered by a time that only becomes later.
SeenByNow ==
    walk.report = "table" =>
        /\ \A i \in RowIds : rows[i].seen <= Pages!Max(Times) + changes
        /\ walk.cursor \in PageRows => walk.cursor.seen <= Pages!Max(Times) + changes

\* Rows whose place does not move past the cursor: those that stayed, and all of a
\* report ordered by the identifier or by a time that only becomes later.
Settled(i) ==
    i \in steady \/ walk.report \in ByIdentifier \/ (walk.report = "table" /\ rows[i].in)
NotAgain ==
    walk.at \in {"more", "attach"} =>
        \A k \in DOMAIN walk.given :
            Settled(walk.given[k]) => ~Pages!Precedes(walk.report, walk.cursor, Pages!Row(walk.given[k]))

GivenInOrder ==
    walk.report # "list" =>
        \A k, l \in DOMAIN walk.given :
            k < l /\ walk.given[k] \in steady /\ walk.given[l] \in steady =>
                Pages!Precedes(walk.report, Pages!Row(walk.given[k]), Pages!Row(walk.given[l]))
GivenOnce == walk.report \in ByIdentifier \union {"table"} => Pages!IsInjective(walk.given)

\* A row that stayed has been given, or is after the cursor.
NothingSkipped ==
    \A i \in steady \intersect walk.scope : rows[i].in =>
        /\ walk.at \in {"more", "attach"} =>
             \/ i \in Pages!Range(walk.given)
             \/ Pages!Precedes(walk.report, walk.cursor, Pages!Row(i))
        /\ walk.at \in {"done", "attach_last"} /\ walk.report # "list" => i \in Pages!Range(walk.given)

\* The devices whose candidates have been read: those of the pages before the one at hand.
Attached ==
    IF walk.at \in Attaching THEN Pages!Range(walk.given) \ walk.page ELSE Pages!Range(walk.given)
PairsAttached ==
    walk.report = "inventory" =>
        /\ Pages!IsInjective(walk.pairs) /\ \A p \in Pages!Range(walk.pairs) : p[1] \in Attached
        /\ walk.at \in Attaching => walk.page \subseteq Pages!Range(walk.given)
        /\ walk.at \notin {"refused", "failed"} =>
             \A p \in Pages!Pending(walk.scope) :
                 {p[1], p[2]} \subseteq steady /\ p[1] \in Attached => p \in Pages!Range(walk.pairs)

\* What the responses of the inventory graph hold: the rows of one page after those of the
\* pages before it, and the larger devices of the candidates shown with them.
RowsAscend(rs) ==
    \A m, n \in DOMAIN rs : m < n => \A i \in rs[m].rows, j \in rs[n].rows : i < j
ResponsesKept ==
    walk.report = "inventory" =>
        /\ \A n \in DOMAIN walk.responses :
             /\ walk.responses[n].rows \subseteq Pages!Range(walk.given)
             /\ walk.responses[n].rows \subseteq walk.responses[n].nodes
             /\ \A i \in walk.responses[n].nodes \ walk.responses[n].rows :
                  \E p \in Pages!Range(walk.pairs) : p[1] \in walk.responses[n].rows /\ p[2] = i
        /\ RowsAscend(walk.responses)
        /\ walk.at \in Attaching =>
             Len(walk.responses) > 0 /\ walk.responses[Len(walk.responses)].rows = walk.page
        /\ \A p \in Pages!Range(walk.pairs) : \E n \in DOMAIN walk.responses :
             p[1] \in walk.responses[n].rows /\ {p[1], p[2]} \subseteq walk.responses[n].nodes

PagesInv ==
    /\ PagesTyped /\ WalkPlaces /\ SeenByNow /\ NotAgain
    /\ GivenInOrder /\ GivenOnce /\ NothingSkipped /\ PairsAttached /\ ResponsesKept

LEMMA PagesCardinality == \A S : Pages!Cardinality(S) = Cardinality(S)
  BY DEF Pages!Cardinality, Cardinality

LEMMA RowTyped ==
    ASSUME PagesTyped, NEW i \in RowIds
    PROVE  /\ Pages!Row(i) \in PageRows /\ Pages!Row(i).id = i /\ Pages!Row(i).seen = rows[i].seen
           /\ i \in Nat /\ i # 0
<1>1. rows[i] \in TableRows /\ i \in Nat /\ i # 0
  BY PageAssumption DEF PagesTyped
<1> QED
  BY <1>1 DEF Pages!Row, PageRows, TableRows

\* Rows of different identifiers, in the order of a report.
DistinctRows(S) == S \in SUBSET PageRows /\ IsFiniteSet(S) /\ \A x, y \in S : x.id = y.id => x = y
LEMMA RowsOrdered ==
    ASSUME NEW r, NEW S, DistinctRows(S)
    PROVE  Ordered(S, [x \in S |-> Pages!Before(r, S, x)])
<1> DEFINE B == [x \in S |-> Pages!Before(r, S, x)]
<1>1. \A x, y \in S : y \in B[x] <=> Pages!Precedes(r, y, x)
  BY DEF Pages!Before
<1>2. B \in [S -> SUBSET S]
  BY DEF Pages!Before
<1>3. S \in SUBSET PageRows /\ IsFiniteSet(S) /\ \A x, y \in S : x.id = y.id => x = y
  BY DEF DistinctRows
<1> HIDE DEF B
<1>4. ASSUME NEW x \in S, NEW y \in S
      PROVE  /\ x \notin B[x]
             /\ x = y \/ x \in B[y] \/ y \in B[x]
             /\ x \in B[y] => B[x] \subseteq B[y]
  <2>1. x \in PageRows /\ y \in PageRows
    BY <1>3
  <2>2. x \notin B[x]
    BY <1>1, <2>1, ReportOrder
  <2>3. x = y \/ x \in B[y] \/ y \in B[x]
    BY <1>1, <1>3, <2>1, ReportOrder
  <2>4. ASSUME x \in B[y], NEW z \in B[x] PROVE z \in B[y]
    <3>1. z \in S /\ z \in PageRows
      BY <1>2, <1>3
    <3> QED
      BY <1>1, <2>1, <2>4, <3>1, ReportOrder
  <2> QED
    BY <2>2, <2>3, <2>4
<1> QED
  BY <1>2, <1>3, <1>4 DEF Ordered, B

\* A page of rows: the first of those found, in order; the last one shown parts them
\* from the rest.
PageParts(r, S, n, page, list) ==
    /\ page \in SUBSET S /\ DistinctRows(page)
    /\ Cardinality(page) \in Nat /\ Pages!Cardinality(page) = Cardinality(page)
    /\ list \in [1 .. Cardinality(page) -> page] /\ Len(list) = Cardinality(page)
    /\ \A i, j \in 1 .. Cardinality(page) : Pages!Precedes(r, list[i], list[j]) <=> i < j
    /\ \A i, j \in 1 .. Cardinality(page) : list[i] = list[j] => i = j
    /\ \A x \in page : \E i \in 1 .. Cardinality(page) : list[i] = x
    /\ ~(Pages!Cardinality(S) > n) => page = S
    /\ Pages!Cardinality(S) > n =>
         /\ list[Len(list)] \in page
         /\ \A x \in page : ~Pages!Precedes(r, list[Len(list)], x)
         /\ \A x \in S \ page : Pages!Precedes(r, list[Len(list)], x)
LEMMA PageOfRows ==
    ASSUME NEW r, NEW S, DistinctRows(S), NEW n \in Nat, n > 0,
           NEW page, page = Pages!FirstRows(r, S, n),
           NEW list, list = Pages!InOrder(r, page)
    PROVE  PageParts(r, S, n, page, list)
<1> DEFINE B == [x \in S |-> Pages!Before(r, S, x)]
           C == [x \in page |-> Pages!Before(r, page, x)]
           m == Cardinality(page)
<1>1. Ordered(S, B)
  BY RowsOrdered
<1>2. page = Limited(S, B, n)
  BY PagesCardinality DEF Pages!FirstRows, Limited
<1>3. /\ page \in SUBSET S
      /\ \A x \in page : B[x] \subseteq page
      /\ Cardinality(S) <= n => page = S
      /\ Cardinality(S) > n => m = n
  <2> HIDE DEF B
  <2> QED
    BY <1>1, <1>2, LimitKeeps
<1>4. DistinctRows(page)
  BY <1>3, FS_Subset DEF DistinctRows
<1>5. Ordered(page, C)
  BY <1>4, RowsOrdered
<1>6. list = Listing(page, C)
  BY PagesCardinality DEF Pages!InOrder, Listing
<1>7. /\ m \in Nat /\ list \in [1..m -> page]
      /\ \A i, j \in 1..m : list[i] \in C[list[j]] <=> i < j
      /\ \A i, j \in 1..m : list[i] = list[j] => i = j
      /\ \A x \in page : \E i \in 1..m : list[i] = x
  <2> HIDE DEF C
  <2> QED
    BY <1>5, <1>6, ListingInOrder
<1>8. \A i, j \in 1..m : Pages!Precedes(r, list[i], list[j]) <=> i < j
  BY <1>7 DEF Pages!Before
<1>9. Len(list) = m
  BY <1>7
<1>10. Cardinality(S) \in Nat /\ Pages!Cardinality(S) = Cardinality(S) /\ Pages!Cardinality(page) = m
  BY FS_CardinalityType, PagesCardinality DEF DistinctRows
<1>11. ASSUME Cardinality(S) > n
       PROVE  /\ list[Len(list)] \in page
              /\ \A x \in page : ~Pages!Precedes(r, list[Len(list)], x)
              /\ \A x \in S \ page : Pages!Precedes(r, list[Len(list)], x)
  <2>1. m = n /\ m \in 1..m
    BY <1>3, <1>11
  <2> DEFINE c == list[m]
  <2>2. c \in page
    BY <1>7, <2>1
  <2>3. ASSUME NEW x \in page PROVE ~Pages!Precedes(r, c, x)
    <3>1. PICK i \in 1..m : list[i] = x
      BY <1>7
    <3>2. Pages!Precedes(r, list[m], list[i]) <=> m < i
      BY <1>8, <2>1
    <3>3. ~(m < i)
      BY <1>7
    <3> QED
      BY <3>1, <3>2, <3>3
  <2>4. ASSUME NEW x \in S \ page PROVE Pages!Precedes(r, c, x)
    <3>1. c \in PageRows /\ x \in PageRows /\ c \in S
      BY <1>3, <2>2 DEF DistinctRows
    <3>2. ~Pages!Precedes(r, x, c)
      BY <1>3, <2>2, <3>1 DEF Pages!Before
    <3>3. c.id # x.id
      BY <2>2, <3>1 DEF DistinctRows
    <3> QED
      BY <3>1, <3>2, <3>3, ReportOrder
  <2> QED
    BY <1>9, <2>2, <2>3, <2>4
<1>12. ~(Cardinality(S) > n) => Cardinality(S) <= n
  BY <1>10
<1> QED
  BY <1>3, <1>4, <1>7, <1>8, <1>9, <1>10, <1>11, <1>12 DEF PageParts

LEMMA LatestTime == Pages!Max(Times) \in Nat /\ \A t \in Times : t <= Pages!Max(Times)
<1>1. Pages!Max(Times) = Graphs!Max(Times)
  BY DEF Pages!Max, Graphs!Max
<1>2. Times \in SUBSET Nat /\ IsFiniteSet(Times) /\ Times # {}
  BY PageAssumption
<1> QED
  BY <1>1, <1>2, GreatestId

\* The rows a report may find.
LEMMA RowsKnown ==
    ASSUME NEW report \in Pages!Reports, NEW r \in {Pages!Absent} \union Pages!RowsOf(report)
    PROVE  r \in TableRows /\ (report = "table" => r.seen <= Pages!Max(Times))
<1>0. Pages!Max(Times) \in Nat /\ Times \subseteq Nat /\ Counts \subseteq Nat
  BY LatestTime, PageAssumption
<1>1. /\ Pages!Absent \in TableRows /\ Pages!Absent.seen = 0
      /\ Pages!Listed \in TableRows
  BY DEF Pages!Absent, Pages!Listed, Pages!Null, TableRows
<1>2. CASE r = Pages!Absent
  BY <1>0, <1>1, <1>2
<1>3. CASE r \in Pages!RowsOf(report) /\ report \in {"table", "list"}
  <2>1. Pages!RowsOf(report) = {[Pages!Listed EXCEPT !.seen = t] : t \in {0} \union Times}
    BY <1>3 DEF Pages!RowsOf, Pages!Null
  <2>2. PICK t \in {0} \union Times : r = [Pages!Listed EXCEPT !.seen = t]
    BY <1>3, <2>1
  <2>3. t \in Nat /\ t <= Pages!Max(Times)
    BY <1>0, LatestTime
  <2> QED
    BY <1>1, <2>2, <2>3 DEF TableRows
<1>4. CASE r \in Pages!RowsOf(report) /\ report = "overview"
  <2>1. Pages!RowsOf(report) = {[Pages!Listed EXCEPT !.count = c] : c \in Counts}
    BY <1>4 DEF Pages!RowsOf
  <2>2. PICK c \in Counts : r = [Pages!Listed EXCEPT !.count = c]
    BY <1>4, <2>1
  <2> QED
    BY <1>0, <1>1, <1>4, <2>2 DEF TableRows
<1>5. CASE r \in Pages!RowsOf(report) /\ report = "entities"
  <2>1. Pages!RowsOf(report) =
          [in : {TRUE}, pinned : BOOLEAN, ranked : BOOLEAN, seen : {Pages!Null} \union Times, count : {1}]
    BY <1>5 DEF Pages!RowsOf
  <2>2. {TRUE} \subseteq BOOLEAN /\ {Pages!Null} \union Times \subseteq Nat /\ {1} \subseteq Nat
    BY <1>0 DEF Pages!Null
  <2> DEFINE T == {TRUE}
  <2>a. Pages!RowsOf(report) =
          [in : T, pinned : BOOLEAN, ranked : BOOLEAN, seen : {Pages!Null} \union Times, count : {1}]
    BY <2>1
  <2>b. T \subseteq BOOLEAN
    BY <2>2
  <2> HIDE DEF T
  <2>3. /\ r = [in |-> r.in, pinned |-> r.pinned, ranked |-> r.ranked, seen |-> r.seen, count |-> r.count]
        /\ r.in \in T /\ r.pinned \in BOOLEAN /\ r.ranked \in BOOLEAN
        /\ r.seen \in {Pages!Null} \union Times /\ r.count \in {1}
    <3> DEFINE N == {Pages!Null} \union Times
               O == {1}
    <3>1. r \in [in : T, pinned : BOOLEAN, ranked : BOOLEAN, seen : N, count : O]
      BY <1>5, <2>a, Zenon
    <3> HIDE DEF N, O
    <3>2. /\ r = [in |-> r.in, pinned |-> r.pinned, ranked |-> r.ranked, seen |-> r.seen, count |-> r.count]
          /\ r.in \in T /\ r.seen \in N /\ r.count \in O /\ r.pinned \in BOOLEAN /\ r.ranked \in BOOLEAN
      BY <3>1
    <3> QED
      BY <3>2 DEF N, O
  <2>4. r \in TableRows
    <3>1. r.in \in BOOLEAN /\ r.seen \in Nat /\ r.count \in Nat
      BY <2>2, <2>3, <2>b, Zenon
    <3>2. [in |-> r.in, pinned |-> r.pinned, ranked |-> r.ranked, seen |-> r.seen, count |-> r.count] \in TableRows
      BY <2>3, <3>1, Zenon DEF TableRows
    <3> QED
      BY <2>3, <3>2, Zenon
  <2> QED
    BY <1>5, <2>4
<1>6. CASE r \in Pages!RowsOf(report) /\ report \notin {"table", "list", "overview", "entities"}
  <2>1. Pages!RowsOf(report) = {Pages!Listed}
    BY <1>6 DEF Pages!RowsOf
  <2> QED
    BY <1>1, <1>6, <2>1
<1> QED
  BY <1>2, <1>3, <1>4, <1>5, <1>6

LEMMA PagesBegin == Pages!Init => PagesInv
<1> SUFFICES ASSUME Pages!Init PROVE PagesInv
  OBVIOUS
<1>1. PICK report \in Pages!Reports, scope \in RowScopes, size \in Sizes :
        /\ rows \in [RowIds -> Pages!RowsOf(report)]
        /\ changes = 0 /\ steady = RowIds
        /\ walk = [report |-> report, scope |-> scope, size |-> size, at |-> "first",
                   cursor |-> Pages!NoCursor, page |-> {}, given |-> <<>>, pairs |-> <<>>, responses |-> <<>>]
  BY DEF Pages!Init
<1>2. walk.report = report /\ walk.at = "first" /\ walk.given = <<>> /\ walk.pairs = <<>>
      /\ walk.cursor = Pages!NoCursor /\ walk.responses = <<>>
  BY <1>1
<1>3. \A i \in RowIds : rows[i] \in TableRows /\ (report = "table" => rows[i].seen <= Pages!Max(Times))
  BY <1>1, RowsKnown
<1>4. PagesTyped
  <2>1. rows \in [RowIds -> TableRows]
    BY <1>1, <1>3
  <2>2. changes \in 0 .. MaxChanges
    <3>1. MaxChanges \in Nat
      BY PageAssumption
    <3> QED
      BY <1>1, <3>1
  <2>3. walk \in PageWalks
    <3>1. /\ "first" \in {"first", "more", "list_attach", "done", "refused", "failed"} \union Attaching
          /\ Pages!NoCursor \in {Pages!NoCursor} \union PageRows
          /\ {} \in SUBSET RowIds /\ <<>> \in Seq(RowIds) /\ <<>> \in Seq(RowPairs) /\ <<>> \in Seq(Responses)
      OBVIOUS
    <3> QED
      BY <1>1, <3>1, Zenon DEF PageWalks
  <2> QED
    BY <1>1, <2>1, <2>2, <2>3 DEF PagesTyped
<1>5. WalkPlaces
  BY <1>2 DEF WalkPlaces, Attaching
<1>6. SeenByNow
  <2>1. Pages!NoCursor \notin PageRows
    <3>1. DOMAIN Pages!NoCursor = {"id"}
      BY DEF Pages!NoCursor
    <3>2. \A x \in PageRows : "seen" \in DOMAIN x
      BY DEF PageRows
    <3> QED
      BY <3>1, <3>2
  <2>2. \A i \in RowIds : rows[i].seen \in Nat
    BY <1>3 DEF TableRows
  <2> QED
    BY <1>1, <1>2, <1>3, <2>1, <2>2, LatestTime DEF SeenByNow
<1>7. NotAgain /\ GivenInOrder /\ GivenOnce /\ NothingSkipped
  BY <1>2 DEF NotAgain, GivenInOrder, GivenOnce, NothingSkipped, Pages!IsInjective
<1>8. PairsAttached
  BY <1>2 DEF PairsAttached, Attached, Attaching, Pages!IsInjective, Pages!Range
<1>9. ResponsesKept
  BY <1>2 DEF ResponsesKept, RowsAscend, Attaching, Pages!Range
<1> QED
  BY <1>4, <1>5, <1>6, <1>7, <1>8, <1>9 DEF PagesInv

LEMMA PagesLists ==
    /\ \A s : Pages!IsInjective(s) <=> Graphs!IsInjective(s)
    /\ \A s : Pages!Range(s) = Graphs!Range(s)
    /\ \A S : Pages!SetToSeq(S) = Graphs!SetToSeq(S)
<1>1. \A s : Pages!IsInjective(s) <=> Graphs!IsInjective(s)
  BY DEF Pages!IsInjective, Graphs!IsInjective
<1>2. \A S : Pages!SetToSeq(S) = Graphs!SetToSeq(S)
  BY <1>1, PagesCardinality, GraphCardinality
  DEF Pages!SetToSeq, Graphs!SetToSeq, Pages!IsInjective, Graphs!IsInjective
<1> QED
  BY <1>1, <1>2 DEF Pages!Range, Graphs!Range

\* Where the elements of two lists joined are.
LEMMA JoinedPlaces ==
    ASSUME NEW Es, NEW s \in Seq(Es), NEW t \in Seq(Es)
    PROVE  /\ s \o t \in Seq(Es)
           /\ \A k \in DOMAIN (s \o t) :
                \/ k \in DOMAIN s /\ (s \o t)[k] = s[k]
                \/ k - Len(s) \in DOMAIN t /\ (s \o t)[k] = t[k - Len(s)] /\ \A j \in DOMAIN s : j < k
           /\ Pages!Range(s \o t) = Pages!Range(s) \union Pages!Range(t)
<1> DEFINE u == s \o t
<1>1. /\ Len(s) \in Nat /\ Len(t) \in Nat /\ DOMAIN s = 1..Len(s) /\ DOMAIN t = 1..Len(t)
      /\ u \in Seq(Es) /\ DOMAIN u = 1..(Len(s) + Len(t))
  OBVIOUS
<1>2. /\ \A i \in 1..Len(s) : u[i] = s[i]
      /\ \A i \in 1..(Len(s) + Len(t)) : i > Len(s) => i - Len(s) \in 1..Len(t) /\ u[i] = t[i - Len(s)]
  BY <1>1
<1> HIDE DEF u
<1>3. ASSUME NEW k \in DOMAIN u
      PROVE  \/ k \in DOMAIN s /\ u[k] = s[k]
             \/ k - Len(s) \in DOMAIN t /\ u[k] = t[k - Len(s)] /\ \A j \in DOMAIN s : j < k
  BY <1>1, <1>2
<1>4. ASSUME NEW k \in DOMAIN t PROVE k + Len(s) \in DOMAIN u /\ u[k + Len(s)] = t[k]
  <2>1. k + Len(s) \in 1..(Len(s) + Len(t)) /\ k + Len(s) > Len(s) /\ (k + Len(s)) - Len(s) = k
    BY <1>1
  <2> QED
    BY <1>1, <1>2, <2>1
<1>5. ASSUME NEW k \in DOMAIN s PROVE k \in DOMAIN u /\ u[k] = s[k]
  BY <1>1, <1>2
<1>6. Pages!Range(u) = Pages!Range(s) \union Pages!Range(t)
  BY <1>3, <1>4, <1>5 DEF Pages!Range
<1> QED
  BY <1>1, <1>3, <1>6 DEF u

\* The rows of a page: rows found, which come after the cursor once there is one.
LEMMA FoundRows ==
    ASSUME PagesInv, NEW scope \in RowScopes, walk.report # "list", walk.at \in {"first", "more"},
           Pages!Accepts(scope)
    PROVE  /\ DistinctRows(Pages!Found(scope))
           /\ \A x \in Pages!Found(scope) : x.id \in scope /\ x.id \in RowIds /\ rows[x.id].in /\ x = Pages!Row(x.id)
           /\ walk.at = "more" =>
                /\ scope = walk.scope /\ walk.cursor \in PageRows
                /\ \A x \in Pages!Found(scope) : Pages!Precedes(walk.report, walk.cursor, x)
                /\ \A i \in scope : rows[i].in /\ Pages!Precedes(walk.report, walk.cursor, Pages!Row(i))
                                      => Pages!Row(i) \in Pages!Found(scope)
           /\ walk.at = "first" => \A i \in scope : rows[i].in => Pages!Row(i) \in Pages!Found(scope)
<1> DEFINE F == Pages!Found(scope)
<1>1. PagesTyped /\ WalkPlaces
  BY DEF PagesInv
<1>2. scope \in SUBSET RowIds /\ IsFiniteSet(RowIds)
  BY PageAssumption
<1>3. walk.report \in Pages!Reports \ {"list"}
  BY <1>1 DEF PagesTyped, PageWalks
<1>4. \A x : x \in F <=> \E i \in scope : /\ rows[i].in /\ x = Pages!Row(i)
                                       /\ \/ walk.cursor = Pages!NoCursor
                                          \/ Pages!After(walk.report, walk.cursor, x)
  BY DEF Pages!Found, Pages!InScope
<1> HIDE DEF F
<1>5. ASSUME NEW x \in F
      PROVE  x.id \in scope /\ x.id \in RowIds /\ rows[x.id].in /\ x = Pages!Row(x.id) /\ x \in PageRows
  <2>1. PICK i \in scope : rows[i].in /\ x = Pages!Row(i)
    BY <1>4
  <2>2. i \in RowIds /\ Pages!Row(i).id = i /\ Pages!Row(i) \in PageRows
    BY <1>1, <1>2, RowTyped
  <2> QED
    BY <2>1, <2>2
<1>6. DistinctRows(F)
  <2> DEFINE f == [x \in F |-> x.id]
  <2>1. \A x, y \in F : x.id = y.id => x = y
    BY <1>5
  <2>2. f \in Injection(F, RowIds)
    BY <1>5, <2>1 DEF Injection, IsInjective
  <2>3. IsFiniteSet(F)
    BY <1>2, <2>2, FS_Injection
  <2> QED
    BY <1>5, <2>1, <2>3 DEF DistinctRows
<1>7. ASSUME walk.at = "more"
      PROVE  /\ scope = walk.scope /\ walk.cursor \in PageRows
             /\ \A x \in F : Pages!Precedes(walk.report, walk.cursor, x)
             /\ \A i \in scope : rows[i].in /\ Pages!Precedes(walk.report, walk.cursor, Pages!Row(i))
                                   => Pages!Row(i) \in F
  <2>1. walk.cursor \in PageRows /\ walk.cursor.id # 0 /\ (walk.report = "table" => walk.cursor.seen # 0)
    BY <1>1, <1>7 DEF WalkPlaces
  <2>2. walk.cursor # Pages!NoCursor
    BY <2>1 DEF Pages!NoCursor
  <2>3. scope = walk.scope
    BY <2>2 DEF Pages!Accepts
  <2>4. ASSUME NEW i \in scope
        PROVE  Pages!After(walk.report, walk.cursor, Pages!Row(i))
                 <=> Pages!Precedes(walk.report, walk.cursor, Pages!Row(i))
    BY <1>1, <1>2, <1>3, <2>1, RowTyped, ClauseMatchesOrder
  <2> QED
    BY <1>4, <2>1, <2>2, <2>3, <2>4
<1>8. ASSUME walk.at = "first", NEW i \in scope, rows[i].in PROVE Pages!Row(i) \in F
  BY <1>1, <1>4, <1>8 DEF WalkPlaces
<1> QED
  BY <1>5, <1>6, <1>7, <1>8 DEF F

LEMMA PagesPage ==
    ASSUME PagesInv, NEW scope \in RowScopes, Pages!Page(scope)
    PROVE  PagesInv'
<1> DEFINE r == walk.report
           c == walk.cursor
           found == Pages!Found(scope)
           page == Pages!FirstRows(r, found, walk.size)
           list == Pages!InOrder(r, page)
           more == Pages!Cardinality(found) > walk.size
           m == Cardinality(page)
           ids == [i \in 1 .. Pages!Cardinality(page) |-> list[i].id]
           new == [rows |-> {x.id : x \in page}, nodes |-> {x.id : x \in page}]
           P(x, y) == Pages!Precedes(r, x, y)
           R(i) == Pages!Row(i)
<1>1. PagesTyped /\ WalkPlaces /\ SeenByNow /\ NotAgain /\ GivenInOrder /\ GivenOnce /\ NothingSkipped /\ PairsAttached /\ ResponsesKept
  BY DEF PagesInv
<1>2. /\ r # "list" /\ walk.at \in {"first", "more"} /\ Pages!Accepts(scope)
      /\ UNCHANGED <<rows, changes, steady>>
      /\ ~(r = "table" /\ more /\ Pages!CursorOf(page).seen = 0)
  BY DEF Pages!Page, Pages!Untimed, Pages!PageFound, Pages!MoreFound, Pages!Null
<1>3. walk' = [walk EXCEPT
             !.scope = scope, !.page = {x.id : x \in page},
             !.at = CASE r = "inventory" -> IF more THEN "attach" ELSE "attach_last"
                      [] OTHER -> IF more THEN "more" ELSE "done",
             !.given = @ \o ids,
             !.responses = Append(@, new),
             !.cursor = IF more THEN Pages!CursorOf(page) ELSE @]
  BY DEF Pages!Page, Pages!PageFound, Pages!MoreFound, Pages!Response
<1>4. /\ walk \in PageWalks /\ r \in Pages!Reports /\ walk.size \in Nat /\ walk.size > 0
      /\ walk.given \in Seq(RowIds) /\ walk.pairs \in Seq(RowPairs) /\ walk.responses \in Seq(Responses)
  <2>1. walk \in PageWalks /\ r \in Pages!Reports /\ walk.size \in Sizes
        /\ walk.given \in Seq(RowIds) /\ walk.pairs \in Seq(RowPairs) /\ walk.responses \in Seq(Responses)
    BY <1>1 DEF PagesTyped, PageWalks
  <2>2. \A n \in Sizes : n \in Nat /\ n > 0
    BY PageAssumption
  <2> QED
    BY <2>1, <2>2
<1>5. Pages!CursorOf(page) = list[Len(list)]
  BY DEF Pages!CursorOf
<1>6. /\ DistinctRows(found)
      /\ \A x \in found : x.id \in scope /\ x.id \in RowIds /\ rows[x.id].in /\ x = R(x.id)
      /\ walk.at = "more" =>
           /\ scope = walk.scope /\ c \in PageRows
           /\ \A x \in found : P(c, x)
           /\ \A i \in scope : rows[i].in /\ P(c, R(i)) => R(i) \in found
      /\ walk.at = "first" => \A i \in scope : rows[i].in => R(i) \in found
  BY <1>2, FoundRows
<1>7. /\ page \in SUBSET found /\ DistinctRows(page)
      /\ m \in Nat /\ Pages!Cardinality(page) = m
      /\ list \in [1..m -> page] /\ Len(list) = m
      /\ \A i, j \in 1..m : P(list[i], list[j]) <=> i < j
      /\ \A i, j \in 1..m : list[i] = list[j] => i = j
      /\ \A x \in page : \E i \in 1..m : list[i] = x
      /\ ~more => page = found
      /\ more => /\ list[Len(list)] \in page
                 /\ \A x \in page : ~P(list[Len(list)], x)
                 /\ \A x \in found \ page : P(list[Len(list)], x)
  <2> HIDE DEF found
  <2>1. page = Pages!FirstRows(r, found, walk.size) /\ list = Pages!InOrder(r, page)
    OBVIOUS
  <2>2. DistinctRows(found) /\ walk.size \in Nat /\ walk.size > 0
    BY <1>4, <1>6
  <2> HIDE DEF page, list
  <2>3. PageParts(r, found, walk.size, page, list)
    BY <2>1, <2>2, PageOfRows
  <2> QED
    BY <2>3 DEF PageParts
<1> DEFINE g == walk.given \o ids
           d == list[Len(list)]
<1>8. ids = [i \in 1..m |-> list[i].id]
  BY <1>7
<1>9. walk'.report = r /\ walk'.scope = scope /\ walk'.size = walk.size /\ walk'.pairs = walk.pairs
      /\ walk'.given = g /\ walk'.page = {x.id : x \in page} /\ walk'.responses = Append(walk.responses, new)
      /\ walk'.cursor = (IF more THEN d ELSE c)
      /\ walk'.at = IF r = "inventory" THEN IF more THEN "attach" ELSE "attach_last"
                   ELSE IF more THEN "more" ELSE "done"
  BY <1>3, <1>4, <1>5 DEF PageWalks
<1> HIDE DEF found, page, list, more, m, d
<1>10. \A i \in 1..m : /\ list[i] \in page /\ list[i] \in found /\ ids[i] \in RowIds /\ ids[i] \in scope
                       /\ rows[ids[i]].in /\ list[i] = R(ids[i]) /\ ids[i] = list[i].id
  BY <1>6, <1>7, <1>8
<1>11. ids \in Seq(RowIds) /\ DOMAIN ids = 1..m /\ Len(ids) = m
  BY <1>7, <1>8, <1>10
<1> HIDE DEF ids
<1>12. /\ g \in Seq(RowIds) /\ Pages!Range(g) = Pages!Range(walk.given) \union Pages!Range(ids)
       /\ \A k \in DOMAIN g :
            \/ k \in DOMAIN walk.given /\ g[k] = walk.given[k]
            \/ k - Len(walk.given) \in 1..m /\ g[k] = ids[k - Len(walk.given)] /\ \A j \in DOMAIN walk.given : j < k
  BY <1>4, <1>11, JoinedPlaces
<1>13. \A k \in DOMAIN walk.given : walk.at = "more" /\ walk.given[k] \in RowIds
  BY <1>1, <1>2, <1>4 DEF WalkPlaces
<1>14. \A i \in RowIds : R(i) \in PageRows /\ R(i).id = i /\ R(i).seen = rows[i].seen /\ i # 0
  BY <1>1, RowTyped
<1>15. \A i : R(i)' = R(i)
  BY <1>2 DEF Pages!Row
<1>16. more => d \in page /\ d \in found /\ d \in PageRows /\ d.id \in RowIds /\ d = R(d.id)
  BY <1>6, <1>7, <1>14 DEF d
<1>17. /\ \A x \in page : ~more \/ ~P(d, x)
       /\ \A x \in found \ page : P(d, x)
  BY <1>7 DEF d
<1>18. /\ \A i : R(i) \in page => i \in Pages!Range(ids) \/ i \notin RowIds
       /\ {x.id : x \in page} = Pages!Range(ids)
  <2>1. \A x \in page : \E i \in 1..m : ids[i] = x.id
    BY <1>7, <1>10
  <2>2. \A i \in 1..m : ids[i] \in {x.id : x \in page}
    BY <1>10
  <2>3. Pages!Range(ids) = {ids[i] : i \in 1..m}
    BY <1>11 DEF Pages!Range
  <2>4. {x.id : x \in page} = Pages!Range(ids)
    BY ONLY <2>1, <2>2, <2>3
  <2>5. ASSUME NEW i \in RowIds, R(i) \in page PROVE i \in Pages!Range(ids)
    <3>1. R(i).id = i
      BY <1>14
    <3> QED
      BY ONLY <2>4, <2>5, <3>1
  <2> QED
    BY ONLY <2>4, <2>5
<1>19. new.rows = {x.id : x \in page} /\ new.nodes = {x.id : x \in page} /\ new \in Responses
  <2>1. \A x \in page : x.id \in RowIds
    BY <1>6, <1>7
  <2> QED
    BY <2>1 DEF Responses
<1> HIDE DEF R, P, g, new
<1>20. PagesTyped'
  <2>1. /\ walk'.at \in {"first", "more", "list_attach", "done", "refused", "failed"} \union Attaching
        /\ walk'.cursor \in {Pages!NoCursor} \union PageRows
        /\ walk'.page \in SUBSET RowIds
    <3>1. walk.cursor \in {Pages!NoCursor} \union PageRows
      BY <1>4 DEF PageWalks
    <3>2. \A x \in page : x.id \in RowIds
      BY <1>6, <1>7
    <3> QED
      BY <1>9, <1>16, <3>1, <3>2 DEF Attaching
  <2>2. walk' \in PageWalks
    <3>1. Append(walk.responses, new) \in Seq(Responses)
      BY <1>4, <1>19
    <3> QED
      BY <1>3, <1>4, <1>9, <1>12, <2>1, <3>1 DEF PageWalks
  <2> QED
    BY <1>1, <1>2, <2>2 DEF PagesTyped
<1>21. WalkPlaces'
  <2>1. more => d \in PageRows /\ d.id # 0 /\ (r = "table" => d.seen # 0)
    BY <1>2, <1>5, <1>14, <1>16 DEF d
  <2> QED
    BY <1>2, <1>9, <2>1 DEF WalkPlaces, Attaching
<1>22. SeenByNow'
  <2>1. r = "table" /\ more => d.seen <= Pages!Max(Times) + changes
    BY <1>1, <1>14, <1>16 DEF SeenByNow
  <2> QED
    BY <1>1, <1>2, <1>9, <2>1 DEF SeenByNow
<1>23. NotAgain'
  <2> SUFFICES ASSUME more, NEW k \in DOMAIN g, Settled(g[k]) PROVE ~P(d, R(g[k]))
    BY <1>2, <1>9 DEF NotAgain, Settled, P, R, Pages!Row
  <2>1. CASE k \in DOMAIN walk.given /\ g[k] = walk.given[k]
    <3>1. walk.at = "more" /\ g[k] \in RowIds
      BY <1>13, <2>1
    <3>2. ~P(c, R(g[k]))
      BY <1>1, <2>1, <3>1 DEF NotAgain, P, R
    <3>3. P(c, d) /\ c \in PageRows /\ d \in PageRows /\ R(g[k]) \in PageRows
      BY <1>6, <1>14, <1>16, <3>1
    <3> QED
      BY <3>2, <3>3, ReportOrder DEF P
  <2>2. CASE k - Len(walk.given) \in 1..m /\ g[k] = ids[k - Len(walk.given)]
    BY <1>10, <1>17, <2>2
  <2> QED
    BY <1>12, <2>1, <2>2
<1>24. GivenInOrder'
  <2> SUFFICES ASSUME NEW k \in DOMAIN g, NEW l \in DOMAIN g, k < l, g[k] \in steady, g[l] \in steady
               PROVE  P(R(g[k]), R(g[l]))
    BY <1>2, <1>9 DEF GivenInOrder, P, R, Pages!Row
  <2>1. CASE k \in DOMAIN walk.given /\ g[k] = walk.given[k] /\ l \in DOMAIN walk.given /\ g[l] = walk.given[l]
    BY <1>1, <1>2, <2>1 DEF GivenInOrder, P, R
  <2>2. CASE /\ k \in DOMAIN walk.given /\ g[k] = walk.given[k]
             /\ l - Len(walk.given) \in 1..m /\ g[l] = ids[l - Len(walk.given)]
    <3>1. walk.at = "more" /\ g[k] \in RowIds
      BY <1>13, <2>2
    <3>2. ~P(c, R(g[k]))
      BY <1>1, <2>2, <3>1 DEF NotAgain, P, R, Settled
    <3>3. P(c, R(g[l])) /\ c \in PageRows /\ R(g[k]) \in PageRows /\ R(g[l]) \in PageRows
      BY <1>6, <1>10, <1>14, <2>2, <3>1
    <3> QED
      BY <3>2, <3>3, ReportOrder DEF P
  <2>3. CASE /\ k - Len(walk.given) \in 1..m /\ g[k] = ids[k - Len(walk.given)]
             /\ l - Len(walk.given) \in 1..m /\ g[l] = ids[l - Len(walk.given)]
    <3>1. k - Len(walk.given) < l - Len(walk.given)
      BY <1>4, <1>12
    <3>2. P(list[k - Len(walk.given)], list[l - Len(walk.given)])
      BY <1>7, <2>3, <3>1
    <3> QED
      BY <1>10, <2>3, <3>2
  <2>4. ~(l \in DOMAIN walk.given /\ \A j \in DOMAIN walk.given : j < k)
    BY <1>4, <1>12
  <2> QED
    BY <1>12, <2>1, <2>2, <2>3, <2>4
<1>25. ASSUME r \in ByIdentifier \union {"table"} PROVE Pages!Range(walk.given) \intersect Pages!Range(ids) = {}
  <2> SUFFICES ASSUME NEW k \in DOMAIN walk.given, NEW i \in 1..m, walk.given[k] = ids[i] PROVE FALSE
    BY <1>11 DEF Pages!Range
  <2>1. walk.at = "more"
    BY <1>13
  <2>2. Settled(walk.given[k])
    BY <1>10, <1>25 DEF Settled
  <2>3. ~P(c, R(walk.given[k]))
    BY <1>1, <2>1, <2>2 DEF NotAgain, P, R
  <2>4. P(c, R(ids[i]))
    BY <1>6, <1>10, <2>1
  <2> QED
    BY <2>3, <2>4
<1>26. GivenOnce'
  <2> SUFFICES ASSUME r \in ByIdentifier \union {"table"} PROVE Pages!IsInjective(g)
    BY <1>9 DEF GivenOnce
  <2>1. Pages!IsInjective(walk.given)
    BY <1>1 DEF GivenOnce
  <2>2. Pages!IsInjective(ids)
    <3> SUFFICES ASSUME NEW i \in 1..m, NEW j \in 1..m, ids[i] = ids[j] PROVE i = j
      BY <1>11 DEF Pages!IsInjective
    <3>1. list[i] = list[j]
      BY <1>10
    <3> QED
      BY <1>7, <3>1
  <2> QED
    BY <1>4, <1>11, <1>25, <2>1, <2>2, ListsJoined, PagesLists DEF g
<1>27. NothingSkipped'
  <2> SUFFICES ASSUME NEW i \in steady \intersect scope, rows[i].in
               PROVE  /\ more => i \in Pages!Range(g) \/ P(d, R(i))
                      /\ ~more => i \in Pages!Range(g)
    BY <1>2, <1>9 DEF NothingSkipped, P, R, Pages!Row
  <2>1. i \in RowIds
    BY <1>1 DEF PagesTyped
  <2>2. CASE i \in Pages!Range(walk.given)
    BY <1>12, <2>2
  <2>3. CASE R(i) \in found
    BY <1>7, <1>12, <1>17, <1>18, <2>1, <2>3
  <2>4. CASE walk.at = "more" /\ i \notin Pages!Range(walk.given)
    <3>1. scope = walk.scope
      BY <1>6, <2>4
    <3>2. P(c, R(i))
      BY <1>1, <2>4, <3>1 DEF NothingSkipped, P, R
    <3>3. R(i) \in found
      BY <1>6, <2>4, <3>2
    <3> QED
      BY <2>3, <3>3
  <2>5. CASE walk.at = "first"
    BY <1>6, <2>3, <2>5
  <2> QED
    BY <1>2, <2>2, <2>4, <2>5
<1>28. PairsAttached'
  <2> SUFFICES ASSUME r = "inventory" PROVE PairsAttached'
    BY <1>9 DEF PairsAttached
  <2>1. Pages!Range(walk.given) \intersect Pages!Range(ids) = {}
    BY <1>25 DEF ByIdentifier
  <2>2. Attached' = Pages!Range(walk.given) /\ Attached = Pages!Range(walk.given)
    BY <1>2, <1>9, <1>12, <1>18, <2>1 DEF Attached, Attaching
  <2>3. walk.at = "first" => Pages!Range(walk.given) = {}
    BY <1>1 DEF WalkPlaces, Pages!Range
  <2>4. walk.at = "more" => Pages!Pending(scope)' = Pages!Pending(walk.scope)
    BY <1>2, <1>6 DEF Pages!Pending
  <2>5. ASSUME NEW p \in Pages!Pending(scope)', {p[1], p[2]} \subseteq steady, p[1] \in Attached
        PROVE  p \in Pages!Range(walk.pairs)
    BY <1>1, <1>2, <2>2, <2>3, <2>4, <2>5 DEF PairsAttached
  <2> QED
    BY <1>1, <1>2, <1>9, <1>12, <1>18, <2>2, <2>5 DEF PairsAttached
<1>29. ResponsesKept'
  <2> SUFFICES ASSUME r = "inventory" PROVE ResponsesKept'
    BY <1>9 DEF ResponsesKept
  <2> DEFINE rs == walk.responses
             us == Append(rs, new)
  <2>1. /\ Len(rs) \in Nat /\ DOMAIN rs = 1..Len(rs) /\ DOMAIN us = 1..(Len(rs) + 1) /\ Len(us) = Len(rs) + 1
        /\ us[Len(rs) + 1] = new /\ \A n \in DOMAIN rs : us[n] = rs[n] /\ n < Len(rs) + 1
    BY <1>4
  <2>2. \A n \in DOMAIN rs :
          /\ rs[n].rows \subseteq Pages!Range(walk.given) /\ rs[n].rows \subseteq rs[n].nodes
          /\ \A i \in rs[n].nodes \ rs[n].rows :
               \E p \in Pages!Range(walk.pairs) : p[1] \in rs[n].rows /\ p[2] = i
    BY <1>1 DEF ResponsesKept
  <2>3. ASSUME NEW n \in DOMAIN rs, NEW i \in rs[n].rows, NEW x \in page PROVE i < x.id
    <3>1. PICK k \in DOMAIN walk.given : walk.given[k] = i
      BY <2>2 DEF Pages!Range
    <3>2. walk.at = "more" /\ i \in RowIds
      BY <1>13, <3>1
    <3>3. ~P(c, R(i))
      BY <1>1, <3>1, <3>2 DEF NotAgain, P, R, Settled, ByIdentifier
    <3>4. P(c, x) /\ c \in PageRows /\ x \in PageRows /\ R(i) \in PageRows /\ R(i).id = i
      BY <1>6, <1>7, <1>14, <3>2 DEF DistinctRows
    <3>5. (P(c, x) <=> c.id < x.id) /\ (P(c, R(i)) <=> c.id < i)
      BY <3>4, PrecedesByKey DEF P
    <3>6. c.id \in Nat /\ x.id \in Nat /\ i \in Nat
      BY <3>4 DEF PageRows
    <3> QED
      BY <3>3, <3>4, <3>5, <3>6
  <2> HIDE DEF rs, us
  <2>4. ASSUME NEW n \in DOMAIN us
        PROVE  /\ us[n].rows \subseteq Pages!Range(g) /\ us[n].rows \subseteq us[n].nodes
               /\ \A i \in us[n].nodes \ us[n].rows :
                    \E p \in Pages!Range(walk.pairs) : p[1] \in us[n].rows /\ p[2] = i
    <3>1. CASE n \in DOMAIN rs
      BY <1>12, <2>1, <2>2, <3>1
    <3>2. CASE n = Len(rs) + 1
      BY <1>12, <1>18, <1>19, <2>1, <3>2
    <3> QED
      BY <2>1, <3>1, <3>2
  <2>5. RowsAscend(us)
    <3> SUFFICES ASSUME NEW m1 \in DOMAIN us, NEW n \in DOMAIN us, m1 < n, NEW i \in us[m1].rows, NEW j \in us[n].rows
                 PROVE  i < j
      BY DEF RowsAscend
    <3>1. m1 \in DOMAIN rs /\ us[m1] = rs[m1]
      BY <2>1
    <3>2. CASE n \in DOMAIN rs
      <4>1. RowsAscend(rs)
        BY <1>1 DEF ResponsesKept, rs
      <4> QED
        BY <2>1, <3>1, <3>2, <4>1 DEF RowsAscend
    <3>3. CASE n = Len(rs) + 1
      <4>1. PICK x \in page : j = x.id
        BY <1>19, <2>1, <3>3
      <4> QED
        BY <2>3, <3>1, <4>1
    <3> QED
      BY <2>1, <3>2, <3>3
  <2>6. Len(us) > 0 /\ us[Len(us)].rows = {x.id : x \in page}
    BY <1>19, <2>1
  <2>7. ASSUME NEW p \in Pages!Range(walk.pairs)
        PROVE  \E n \in DOMAIN us : p[1] \in us[n].rows /\ {p[1], p[2]} \subseteq us[n].nodes
    <3>1. PICK n \in DOMAIN rs : p[1] \in rs[n].rows /\ {p[1], p[2]} \subseteq rs[n].nodes
      BY <1>1 DEF ResponsesKept, rs
    <3>2. n \in DOMAIN us /\ us[n] = rs[n]
      BY <2>1
    <3> QED
      BY <3>1, <3>2
  <2>8. walk'.responses = us
    BY <1>9 DEF us, rs
  <2> QED
    BY <1>9, <2>4, <2>5, <2>6, <2>7, <2>8 DEF ResponsesKept
<1> QED
  BY <1>20, <1>21, <1>22, <1>23, <1>24, <1>26, <1>27, <1>28, <1>29 DEF PagesInv

\* A walk that ends early keeps what it has.
LEMMA PagesLeave ==
    ASSUME PagesInv, NEW a \in {"refused", "failed"}, walk.report # "list",
           walk.at \in {"first", "more", "attach", "attach_last"},
           walk' = [walk EXCEPT !.at = a], UNCHANGED <<rows, changes, steady>>
    PROVE  PagesInv'
<1>1. PagesTyped /\ WalkPlaces /\ SeenByNow /\ NotAgain /\ GivenInOrder /\ GivenOnce /\ NothingSkipped /\ PairsAttached /\ ResponsesKept
  BY DEF PagesInv
<1>2. walk \in PageWalks /\ walk.report # "list"
  BY <1>1 DEF PagesTyped
<1>3. /\ walk'.report = walk.report /\ walk'.scope = walk.scope /\ walk'.at = a /\ walk'.cursor = walk.cursor
      /\ walk'.page = walk.page /\ walk'.given = walk.given /\ walk'.pairs = walk.pairs
      /\ walk'.responses = walk.responses
  BY <1>2 DEF PageWalks
<1>4. walk' \in PageWalks
  BY <1>2 DEF PageWalks
<1>5. PagesTyped'
  BY <1>1, <1>4 DEF PagesTyped
<1>6. WalkPlaces' /\ SeenByNow' /\ NotAgain' /\ GivenOnce' /\ NothingSkipped'
  BY <1>1, <1>2, <1>3 DEF WalkPlaces, SeenByNow, NotAgain, GivenOnce, NothingSkipped, Attaching
<1>7. GivenInOrder'
  BY <1>1, <1>3 DEF GivenInOrder, Pages!Row
<1>8. PairsAttached'
  <2>1. Attached' = Pages!Range(walk.given) /\ Attached \subseteq Pages!Range(walk.given)
    BY <1>3 DEF Attached, Attaching
  <2> QED
    BY <1>1, <1>3, <2>1 DEF PairsAttached, Attaching
<1>9. ResponsesKept'
  BY <1>1, <1>3 DEF ResponsesKept, Attaching
<1> QED
  BY <1>5, <1>6, <1>7, <1>8, <1>9 DEF PagesInv

LEMMA PairsListed ==
    ASSUME NEW A, A \subseteq RowPairs
    PROVE  /\ Pages!SetToSeq(A) \in Seq(RowPairs) /\ Pages!IsInjective(Pages!SetToSeq(A))
           /\ Pages!Range(Pages!SetToSeq(A)) = A
<1>1. IsFiniteSet(RowIds \X RowIds) /\ A \in SUBSET (RowIds \X RowIds)
  BY PageAssumption, FS_Product
<1>2. IsFiniteSet(A)
  BY <1>1, FS_Subset
<1>3. Pages!SetToSeq(A) \in Seq(A) /\ Pages!IsInjective(Pages!SetToSeq(A)) /\ Pages!Range(Pages!SetToSeq(A)) = A
  BY <1>2, ListOfSet, PagesLists
<1>4. Pages!SetToSeq(A) \in Seq(RowPairs)
  BY <1>3
<1> QED
  BY <1>3, <1>4

\* The candidates of a page belong to no earlier one.
LEMMA PagesAttach == ASSUME PagesInv, Pages!Attach PROVE PagesInv'
<1> DEFINE A == {p \in Pages!Pending(walk.scope) : Pages!Anchored(p)}
           k == Len(walk.responses)
           nodes == walk.responses[k].nodes \union {p[2] : p \in A}
           t == Pages!SetToSeq({p \in A : {p[1], p[2]} \subseteq nodes})
           a == IF walk.at = "attach" THEN "more" ELSE "done"
<1>1. PagesTyped /\ WalkPlaces /\ SeenByNow /\ NotAgain /\ GivenInOrder /\ GivenOnce /\ NothingSkipped /\ PairsAttached /\ ResponsesKept
  BY DEF PagesInv
<1>2. /\ walk.at \in Attaching /\ UNCHANGED <<rows, changes, steady>>
      /\ walk' = [walk EXCEPT !.responses[k].nodes = nodes, !.pairs = @ \o t, !.at = a]
  BY DEF Pages!Attach, Attaching
<1>g. walk.at \in Attaching /\ UNCHANGED <<rows, changes, steady>>
  BY <1>2
<1>3. /\ walk \in PageWalks /\ walk.report = "inventory" /\ walk.pairs \in Seq(RowPairs)
      /\ walk.responses \in Seq(Responses)
  BY <1>1, <1>2 DEF PagesTyped, WalkPlaces, PageWalks
<1> DEFINE rs == walk.responses
           us == [rs EXCEPT ![k].nodes = nodes]
<1>4. /\ walk'.report = walk.report /\ walk'.scope = walk.scope /\ walk'.at = a /\ walk'.cursor = walk.cursor
      /\ walk'.page = walk.page /\ walk'.given = walk.given /\ walk'.pairs = walk.pairs \o t
      /\ walk'.responses = us
  BY <1>2, <1>3 DEF PageWalks
<1>5. \A p : p \in A <=> p \in Pages!Pending(walk.scope) /\ p[1] \in walk.page
  BY DEF Pages!Anchored
<1>6. A \subseteq RowPairs
  BY DEF Pages!Pending
<1>a. /\ k \in DOMAIN rs /\ rs[k] \in Responses /\ rs[k].rows = walk.page /\ rs[k].rows \subseteq rs[k].nodes
      /\ DOMAIN rs = 1..k /\ k \in Nat
  BY <1>1, <1>2, <1>3 DEF ResponsesKept
<1>b. {p \in A : {p[1], p[2]} \subseteq nodes} = A
  BY <1>5, <1>a
<1>c. t = Pages!SetToSeq(A)
  BY <1>b
<1>7. t \in Seq(RowPairs) /\ Pages!IsInjective(t) /\ Pages!Range(t) = A
  BY <1>6, <1>c, PairsListed
<1>d. /\ us \in Seq(Responses) /\ DOMAIN us = DOMAIN rs /\ Len(us) = k
      /\ us[k].rows = walk.page /\ us[k].nodes = nodes
      /\ \A n \in DOMAIN rs : us[n].rows = rs[n].rows /\ (n # k => us[n] = rs[n])
      /\ \A n \in DOMAIN rs : rs[n].nodes \subseteq us[n].nodes
  <2>1. nodes \in SUBSET RowIds
    <3>1. \A p \in A : p[2] \in RowIds
      BY <1>6, PageAssumption
    <3> QED
      BY <1>a, <3>1 DEF Responses
  <2>2. rs[k].nodes \subseteq nodes
    OBVIOUS
  <2> HIDE DEF nodes
  <2>3. [rs[k] EXCEPT !.nodes = nodes] \in Responses
        /\ [rs[k] EXCEPT !.nodes = nodes].rows = rs[k].rows /\ [rs[k] EXCEPT !.nodes = nodes].nodes = nodes
    BY <1>a, <2>1 DEF Responses
  <2>4. us = [rs EXCEPT ![k] = [rs[k] EXCEPT !.nodes = nodes]]
    BY <1>a
  <2> QED
    BY <1>3, <1>a, <2>2, <2>3, <2>4
<1>e. \A i \in nodes : i \in rs[k].nodes \/ \E p \in A : p[2] = i
  OBVIOUS
<1>f. \A p \in A : p[1] \in walk.page /\ p[2] \in nodes /\ p[1] \in nodes
  BY <1>5, <1>a
<1> HIDE DEF A, t, nodes, rs, us, k
<1>8. /\ Pages!IsInjective(walk.pairs) /\ \A p \in Pages!Range(walk.pairs) : p[1] \in Attached
      /\ walk.page \subseteq Pages!Range(walk.given)
      /\ \A p \in Pages!Pending(walk.scope) :
           {p[1], p[2]} \subseteq steady /\ p[1] \in Attached => p \in Pages!Range(walk.pairs)
  BY <1>1, <1>2, <1>3 DEF PairsAttached, Attaching
<1>9. Attached = Pages!Range(walk.given) \ walk.page /\ Attached' = Pages!Range(walk.given)
  BY <1>2, <1>4 DEF Attached, Attaching
<1>10. Pages!Range(walk.pairs) \intersect Pages!Range(t) = {}
  BY <1>5, <1>7, <1>8, <1>9
<1>11. /\ walk.pairs \o t \in Seq(RowPairs) /\ Pages!IsInjective(walk.pairs \o t)
       /\ Pages!Range(walk.pairs \o t) = Pages!Range(walk.pairs) \union A
  <2>1. /\ Graphs!IsInjective(walk.pairs) /\ Graphs!IsInjective(t)
        /\ Graphs!Range(walk.pairs) \intersect Graphs!Range(t) = {}
    BY <1>7, <1>8, <1>10, PagesLists
  <2>2. /\ walk.pairs \o t \in Seq(RowPairs) /\ Graphs!IsInjective(walk.pairs \o t)
        /\ Graphs!Range(walk.pairs \o t) = Graphs!Range(walk.pairs) \union Graphs!Range(t)
    BY <1>3, <1>7, <2>1, ListsJoined
  <2> QED
    BY <1>7, <2>2, PagesLists
<1>12. PagesTyped'
  <2>1. walk' \in PageWalks
    <3>1. walk' = [walk EXCEPT !.responses = us, !.pairs = @ \o t, !.at = a]
      BY <1>2 DEF us, rs
    <3> QED
      BY <1>3, <1>11, <1>d, <3>1 DEF PageWalks
  <2> QED
    BY <1>1, <1>2, <2>1 DEF PagesTyped
<1>13. WalkPlaces' /\ SeenByNow'
  BY <1>1, <1>3, <1>4, <1>g DEF WalkPlaces, SeenByNow, Attaching
<1>14. NotAgain' /\ GivenInOrder' /\ GivenOnce'
  <2>1. NotAgain'
    BY <1>1, <1>4, <1>g DEF NotAgain, Attaching, Settled, Pages!Row
  <2>2. GivenInOrder' /\ GivenOnce'
    BY <1>1, <1>4, <1>g DEF GivenInOrder, GivenOnce, Pages!Row
  <2> QED
    BY <2>1, <2>2
<1>15. NothingSkipped'
  BY <1>1, <1>4, <1>g DEF NothingSkipped, Attaching, Pages!Row
<1>16. PairsAttached'
  <2>1. Pages!Pending(walk.scope)' = Pages!Pending(walk.scope)
    BY <1>4, <1>g DEF Pages!Pending
  <2>2. ASSUME NEW p \in Pages!Pending(walk.scope), {p[1], p[2]} \subseteq steady, p[1] \in Pages!Range(walk.given)
        PROVE  p \in Pages!Range(walk.pairs \o t)
    BY <1>5, <1>8, <1>9, <1>11, <2>2
  <2>3. \A p \in Pages!Range(walk.pairs \o t) : p[1] \in Pages!Range(walk.given)
    BY <1>5, <1>8, <1>9, <1>11
  <2> QED
    BY <1>4, <1>g, <1>9, <1>11, <2>1, <2>2, <2>3 DEF PairsAttached, Attaching
<1>17. ResponsesKept'
  <2>1. /\ \A n \in DOMAIN rs :
             /\ rs[n].rows \subseteq Pages!Range(walk.given) /\ rs[n].rows \subseteq rs[n].nodes
             /\ \A i \in rs[n].nodes \ rs[n].rows :
                  \E p \in Pages!Range(walk.pairs) : p[1] \in rs[n].rows /\ p[2] = i
        /\ RowsAscend(rs)
        /\ \A p \in Pages!Range(walk.pairs) : \E n \in DOMAIN rs :
             p[1] \in rs[n].rows /\ {p[1], p[2]} \subseteq rs[n].nodes
    BY <1>1, <1>3 DEF ResponsesKept, rs
  <2>2. ASSUME NEW n \in DOMAIN us, NEW i \in us[n].nodes \ us[n].rows
        PROVE  \E p \in Pages!Range(walk.pairs \o t) : p[1] \in us[n].rows /\ p[2] = i
    <3>1. CASE i \in rs[n].nodes
      BY <1>11, <1>d, <2>1, <3>1
    <3>2. CASE n = k /\ \E p \in A : p[2] = i
      BY <1>11, <1>d, <1>f, <3>2
    <3> QED
      BY <1>d, <1>e, <3>1, <3>2
  <2>3. RowsAscend(us)
    BY <1>d, <2>1 DEF RowsAscend
  <2>4. ASSUME NEW p \in Pages!Range(walk.pairs \o t)
        PROVE  \E n \in DOMAIN us : p[1] \in us[n].rows /\ {p[1], p[2]} \subseteq us[n].nodes
    <3>1. CASE p \in Pages!Range(walk.pairs)
      <4>1. PICK n \in DOMAIN rs : p[1] \in rs[n].rows /\ {p[1], p[2]} \subseteq rs[n].nodes
        BY <2>1, <3>1
      <4>2. n \in DOMAIN us /\ us[n].rows = rs[n].rows /\ rs[n].nodes \subseteq us[n].nodes
        BY <1>d, <4>1
      <4>3. p[1] \in us[n].rows /\ {p[1], p[2]} \subseteq us[n].nodes
        BY <4>1, <4>2
      <4> QED
        BY <4>2, <4>3
    <3>2. CASE p \in A
      <4>1. k \in DOMAIN us /\ p[1] \in us[k].rows /\ {p[1], p[2]} \subseteq us[k].nodes
        BY <1>a, <1>d, <1>f, <3>2
      <4> QED
        BY <4>1
    <3> QED
      BY <1>11, <3>1, <3>2
  <2>5. \A n \in DOMAIN us : us[n].rows \subseteq Pages!Range(walk.given) /\ us[n].rows \subseteq us[n].nodes
    BY <1>d, <2>1
  <2>6. walk'.at \notin Attaching
    BY <1>4 DEF Attaching
  <2> QED
    BY <1>4, <2>2, <2>3, <2>4, <2>5, <2>6 DEF ResponsesKept
<1> QED
  BY <1>12, <1>13, <1>14, <1>15, <1>16, <1>17 DEF PagesInv

LEMMA ScopeRows ==
    ASSUME PagesTyped, NEW scope \in RowScopes
    PROVE  DistinctRows(Pages!InScope(scope)) /\ \A x \in Pages!InScope(scope) : x.id \in RowIds
<1> DEFINE F == Pages!InScope(scope)
           f == [x \in F |-> x.id]
<1>1. scope \in SUBSET RowIds /\ IsFiniteSet(RowIds)
  BY PageAssumption
<1>2. ASSUME NEW x \in F PROVE x \in PageRows /\ x.id \in RowIds /\ x = Pages!Row(x.id)
  <2>1. PICK i \in scope : x = Pages!Row(i)
    BY DEF Pages!InScope
  <2>2. i \in RowIds
    BY <1>1
  <2> QED
    BY <2>1, <2>2, RowTyped
<1> HIDE DEF F
<1>3. \A x, y \in F : x.id = y.id => x = y
  BY <1>2
<1>4. f \in Injection(F, RowIds)
  BY <1>2, <1>3 DEF Injection, IsInjective
<1>5. IsFiniteSet(F)
  BY <1>1, <1>4, FS_Injection
<1> QED
  BY <1>2, <1>3, <1>5 DEF DistinctRows, F

LEMMA PagesList == ASSUME PagesInv, Pages!List PROVE PagesInv'
<1> DEFINE page == Pages!FirstRows("list", Pages!InScope(walk.scope), walk.size)
           list == Pages!InOrder("list", page)
           ids == [i \in 1 .. Pages!Cardinality(page) |-> list[i].id]
<1>1. PagesTyped /\ WalkPlaces /\ SeenByNow /\ NotAgain /\ GivenInOrder /\ GivenOnce /\ NothingSkipped /\ PairsAttached /\ ResponsesKept
  BY DEF PagesInv
<1>2. /\ walk.report = "list" /\ walk.at = "first" /\ UNCHANGED <<rows, changes, steady>>
      /\ walk' = [walk EXCEPT !.at = "list_attach", !.page = {x.id : x \in page},
                              !.responses = <<Pages!Response(page)>>, !.given = ids]
  BY DEF Pages!List
<1>3. walk \in PageWalks /\ walk.scope \in RowScopes /\ walk.size \in Sizes
  BY <1>1 DEF PagesTyped, PageWalks
<1>4. walk.size \in Nat /\ walk.size > 0
  <2>1. \A n \in Sizes : n \in Nat /\ n > 0
    BY PageAssumption
  <2> QED
    BY <1>3, <2>1
<1>5. DistinctRows(Pages!InScope(walk.scope)) /\ \A x \in Pages!InScope(walk.scope) : x.id \in RowIds
  BY <1>1, <1>3, ScopeRows
<1>6. PageParts("list", Pages!InScope(walk.scope), walk.size, page, list)
  <2>1. page = Pages!FirstRows("list", Pages!InScope(walk.scope), walk.size) /\ list = Pages!InOrder("list", page)
    OBVIOUS
  <2> HIDE DEF page, list
  <2> QED
    BY <1>4, <1>5, <2>1, PageOfRows
<1>7. /\ \A x \in page : x.id \in RowIds
      /\ Pages!Cardinality(page) \in Nat /\ \A i \in 1 .. Pages!Cardinality(page) : list[i] \in page
  BY <1>5, <1>6 DEF PageParts
<1> HIDE DEF page, list
<1>8. ids \in Seq(RowIds) /\ {x.id : x \in page} \in SUBSET RowIds
  BY <1>7
<1> HIDE DEF ids
<1>a. <<Pages!Response(page)>> \in Seq(Responses)
  <2>1. Pages!Response(page) \in Responses
    BY <1>8 DEF Pages!Response, Responses
  <2> QED
    BY <2>1
<1>9. PagesTyped'
  <2>1. walk' \in PageWalks
    <3> DEFINE new == <<Pages!Response(page)>>
    <3> HIDE DEF new
    <3>1. new \in Seq(Responses)
      BY <1>a DEF new
    <3>2. walk' = [walk EXCEPT !.at = "list_attach", !.page = {x.id : x \in page}, !.responses = new, !.given = ids]
      BY <1>2 DEF new
    <3> QED
      BY <1>3, <1>8, <3>1, <3>2 DEF PageWalks
  <2> QED
    BY <1>1, <1>2, <2>1 DEF PagesTyped
<1>10. walk'.report = "list" /\ walk'.at = "list_attach"
  BY <1>2, <1>3 DEF PageWalks
<1>11. WalkPlaces' /\ SeenByNow' /\ NotAgain' /\ GivenInOrder' /\ GivenOnce' /\ NothingSkipped' /\ PairsAttached'
      /\ ResponsesKept'
  BY <1>10 DEF WalkPlaces, SeenByNow, NotAgain, GivenInOrder, GivenOnce, NothingSkipped, PairsAttached,
               ResponsesKept, Attaching, ByIdentifier
<1> QED
  BY <1>9, <1>11 DEF PagesInv

LEMMA PagesListAttach == ASSUME PagesInv, Pages!ListAttach PROVE PagesInv'
<1>1. PagesTyped /\ WalkPlaces
  BY DEF PagesInv
<1>2. PICK S \in SUBSET RowPairs :
        walk' = [walk EXCEPT !.at = "done",
                             !.pairs = Pages!SetToSeq({p \in S : {p[1], p[2]} \subseteq walk.page})]
  BY DEF Pages!ListAttach
<1>3. walk.at = "list_attach" /\ UNCHANGED <<rows, changes, steady>>
  BY DEF Pages!ListAttach
<1>4. walk \in PageWalks /\ walk.report = "list"
  BY <1>1, <1>3 DEF PagesTyped, WalkPlaces
<1>5. Pages!SetToSeq({p \in S : {p[1], p[2]} \subseteq walk.page}) \in Seq(RowPairs)
  BY PairsListed
<1>6. PagesTyped'
  <2>1. walk' \in PageWalks
    BY <1>2, <1>4, <1>5 DEF PageWalks
  <2> QED
    BY <1>1, <1>3, <2>1 DEF PagesTyped
<1>7. walk'.report = "list" /\ walk'.at = "done"
  BY <1>2, <1>4 DEF PageWalks
<1>8. WalkPlaces' /\ SeenByNow' /\ NotAgain' /\ GivenInOrder' /\ GivenOnce' /\ NothingSkipped' /\ PairsAttached'
      /\ ResponsesKept'
  BY <1>7 DEF WalkPlaces, SeenByNow, NotAgain, GivenInOrder, GivenOnce, NothingSkipped, PairsAttached,
              ResponsesKept, Attaching, ByIdentifier
<1> QED
  BY <1>6, <1>8 DEF PagesInv

\* Rows change behind and before the cursor; those that stayed keep their places, and in
\* the table a row that changes moves to the front.
LEMMA PagesChange == ASSUME PagesInv, NEW i \in RowIds, Pages!Change(i) PROVE PagesInv'
<1>1. PagesTyped /\ WalkPlaces /\ SeenByNow /\ NotAgain /\ GivenInOrder /\ GivenOnce /\ NothingSkipped /\ PairsAttached /\ ResponsesKept
  BY DEF PagesInv
<1>2. /\ walk.at \in {"more", "attach", "attach_last", "list_attach"} /\ changes < MaxChanges
      /\ changes' = changes + 1 /\ steady' = steady \ {i} /\ walk' = walk
  BY DEF Pages!Change
<1>3. PICK r \in {Pages!Absent} \union Pages!RowsOf(walk.report) :
        rows' = [rows EXCEPT ![i] = IF walk.report \in {"table", "list"} /\ r.in /\ ~(r.seen = 0 /\ ~rows[i].in)
                                    THEN [r EXCEPT !.seen = Pages!Now] ELSE r]
  BY DEF Pages!Change, Pages!Null
<1>4. /\ rows \in [RowIds -> TableRows] /\ changes \in Nat /\ walk \in PageWalks /\ steady \in SUBSET RowIds
      /\ changes' \in 0 .. MaxChanges /\ walk.report \in Pages!Reports
  BY <1>1, <1>2, PageAssumption DEF PagesTyped, PageWalks
<1>5. r \in TableRows /\ (walk.report = "table" => r.seen <= Pages!Max(Times))
  BY <1>3, <1>4, RowsKnown
<1>6. Pages!Max(Times) \in Nat /\ Pages!Now = Pages!Max(Times) + changes + 1
  BY LatestTime DEF Pages!Now
<1>7. /\ rows'[i] \in TableRows /\ \A j \in RowIds : j # i => rows'[j] = rows[j]
      /\ rows' \in [RowIds -> TableRows]
      /\ walk.report = "table" => /\ rows'[i].in => rows'[i].seen \in {0, Pages!Now}
                                 /\ rows'[i].seen <= Pages!Now
  <2>1. [r EXCEPT !.seen = Pages!Now] \in TableRows
    BY <1>4, <1>5, <1>6 DEF TableRows
  <2>2. rows'[i] = IF walk.report \in {"table", "list"} /\ r.in /\ ~(r.seen = 0 /\ ~rows[i].in) THEN [r EXCEPT !.seen = Pages!Now] ELSE r
    BY <1>3, <1>4
  <2>3. rows'[i] \in TableRows
    BY <1>5, <2>1, <2>2
  <2>4. r.seen \in Nat /\ [r EXCEPT !.seen = Pages!Now].seen = Pages!Now
    BY <1>5 DEF TableRows
  <2>5. walk.report = "table" => /\ rows'[i].in => rows'[i].seen \in {0, Pages!Now}
                                /\ rows'[i].seen <= Pages!Now
    BY <1>4, <1>5, <1>6, <2>2, <2>4
  <2> QED
    BY <1>3, <1>4, <2>3, <2>5
<1>8. \A j \in RowIds : j # i => Pages!Row(j)' = Pages!Row(j)
  BY <1>7 DEF Pages!Row
<1>9. PagesTyped'
  BY <1>2, <1>4, <1>7 DEF PagesTyped
<1>10. WalkPlaces' /\ GivenOnce'
  BY <1>1, <1>2 DEF WalkPlaces, GivenOnce
<1>11. SeenByNow'
  <2> SUFFICES ASSUME walk.report = "table" PROVE SeenByNow'
    BY <1>2 DEF SeenByNow
  <2>1. \A j \in RowIds : rows[j].seen \in Nat /\ rows'[j].seen \in Nat
    BY <1>4, <1>7 DEF TableRows
  <2>2. ASSUME NEW j \in RowIds PROVE rows'[j].seen <= Pages!Max(Times) + changes'
    BY <1>1, <1>2, <1>4, <1>6, <1>7, <2>1 DEF SeenByNow
  <2>3. ASSUME walk.cursor \in PageRows PROVE walk.cursor.seen <= Pages!Max(Times) + changes'
    <3>1. walk.cursor.seen \in Nat
      BY <2>3 DEF PageRows
    <3> QED
      BY <1>1, <1>2, <1>4, <1>6, <2>3, <3>1 DEF SeenByNow
  <2> QED
    BY <1>2, <2>2, <2>3 DEF SeenByNow
<1>12. NotAgain'
  <2> SUFFICES ASSUME walk.at \in {"more", "attach"}, NEW k \in DOMAIN walk.given, Settled(walk.given[k])'
               PROVE  ~Pages!Precedes(walk.report, walk.cursor, Pages!Row(walk.given[k])')
    BY <1>2 DEF NotAgain, Pages!Row
  <2>1. walk.given[k] \in RowIds
    BY <1>4 DEF PageWalks
  <2>2. CASE walk.given[k] # i
    <3>1. Settled(walk.given[k])
      BY <1>2, <1>7, <2>1, <2>2 DEF Settled
    <3>2. Pages!Row(walk.given[k])' = Pages!Row(walk.given[k])
      BY <1>2, <1>7, <2>1, <2>2 DEF Pages!Row
    <3> QED
      BY <1>1, <3>1, <3>2 DEF NotAgain
  <2>3. CASE walk.given[k] = i
    <3> DEFINE x == Pages!Row(i)
               y == Pages!Row(i)'
    <3>1. walk.cursor \in PageRows /\ x \in PageRows /\ x.id = i
      BY <1>1, RowTyped DEF WalkPlaces
    <3>2. y \in PageRows /\ y.id = i /\ y.seen = rows'[i].seen
      BY <1>7, PageAssumption DEF Pages!Row, PageRows, TableRows
    <3>3. Pages!Row(walk.given[k])' = y
      BY <1>2, <2>3 DEF Pages!Row
    <3>4. CASE walk.report \in ByIdentifier
      <4>1. ~Pages!Precedes(walk.report, walk.cursor, x)
        BY <1>1, <2>3, <3>4 DEF NotAgain, Settled
      <4>2. \A u, v \in PageRows : Pages!Precedes(walk.report, u, v) <=> u.id < v.id
        BY <3>4, PrecedesByKey DEF ByIdentifier
      <4> QED
        BY <3>1, <3>2, <3>3, <4>1, <4>2
    <3>5. CASE walk.report = "table"
      <4>1. rows'[i].in
        BY <1>2, <2>3, <3>5 DEF Settled, ByIdentifier
      <4>2. y.seen = 0 \/ y.seen = Pages!Max(Times) + changes + 1
        BY <1>6, <1>7, <3>2, <3>5, <4>1
      <4>3. walk.cursor.seen \in Nat \ {0} /\ walk.cursor.seen <= Pages!Max(Times) + changes
        BY <1>1, <3>1, <3>5 DEF SeenByNow, PageRows, WalkPlaces
      <4>4. Pages!Precedes(walk.report, walk.cursor, y) <=> TablePrecedes(walk.cursor, y)
        BY <3>1, <3>2, <3>5, PrecedesByKey
      <4> QED
        BY <1>4, <1>6, <3>3, <4>2, <4>3, <4>4 DEF TablePrecedes
    <3> QED
      BY <1>2, <2>3, <3>4, <3>5 DEF Settled
  <2> QED
    BY <2>2, <2>3
<1>13. GivenInOrder'
  <2> SUFFICES ASSUME walk.report # "list", NEW k \in DOMAIN walk.given, NEW l \in DOMAIN walk.given, k < l,
                      walk.given[k] \in steady \ {i}, walk.given[l] \in steady \ {i}
               PROVE  Pages!Precedes(walk.report, Pages!Row(walk.given[k])', Pages!Row(walk.given[l])')
    BY <1>2 DEF GivenInOrder, Pages!Row
  <2>1. /\ Pages!Row(walk.given[k])' = Pages!Row(walk.given[k])
        /\ Pages!Row(walk.given[l])' = Pages!Row(walk.given[l])
    BY <1>2, <1>4, <1>7 DEF Pages!Row
  <2> QED
    BY <1>1, <2>1 DEF GivenInOrder
<1>14. NothingSkipped'
  <2> SUFFICES ASSUME NEW j \in (steady \ {i}) \intersect walk.scope, rows'[j].in
               PROVE  /\ walk.at \in {"more", "attach"} =>
                           \/ j \in Pages!Range(walk.given)
                           \/ Pages!Precedes(walk.report, walk.cursor, Pages!Row(j)')
                      /\ walk.at \in {"done", "attach_last"} /\ walk.report # "list" => j \in Pages!Range(walk.given)
    BY <1>2 DEF NothingSkipped, Pages!Row
  <2>1. rows[j].in /\ Pages!Row(j)' = Pages!Row(j)
    BY <1>4, <1>7 DEF Pages!Row
  <2> QED
    BY <1>1, <2>1 DEF NothingSkipped
<1>15. PairsAttached'
  <2> SUFFICES ASSUME walk.report = "inventory" PROVE PairsAttached'
    BY <1>2 DEF PairsAttached
  <2>1. Attached' = Attached
    BY <1>2 DEF Attached
  <2>2. ASSUME NEW p \in Pages!Pending(walk.scope)', {p[1], p[2]} \subseteq steady \ {i}
        PROVE  p \in Pages!Pending(walk.scope)
    BY <1>2, <1>4, <1>7, <2>2 DEF Pages!Pending
  <2> QED
    BY <1>1, <1>2, <2>1, <2>2 DEF PairsAttached
<1>16. ResponsesKept'
  BY <1>1, <1>2 DEF ResponsesKept
<1> QED
  BY <1>9, <1>10, <1>11, <1>12, <1>13, <1>14, <1>15, <1>16 DEF PagesInv

LEMMA PagesSame == ASSUME PagesInv, UNCHANGED <<rows, changes, steady, walk>> PROVE PagesInv'
<1> USE DEF PagesInv
<1>1. PagesTyped' /\ WalkPlaces' /\ SeenByNow' /\ GivenOnce'
  BY DEF PagesTyped, WalkPlaces, SeenByNow, GivenOnce
<1>2. NotAgain' /\ GivenInOrder'
  BY DEF NotAgain, GivenInOrder, Settled, Pages!Row
<1>3. NothingSkipped'
  BY DEF NothingSkipped, Pages!Row
<1>4. PairsAttached' /\ ResponsesKept'
  BY DEF PairsAttached, Attached, Pages!Pending, ResponsesKept
<1> QED
  BY <1>1, <1>2, <1>3, <1>4

LEMMA PagesStep == ASSUME PagesInv, Pages!Next PROVE PagesInv'
<1>1. ASSUME NEW scope \in RowScopes, Pages!Page(scope) PROVE PagesInv'
  BY <1>1, PagesPage
<1>2. ASSUME NEW scope \in RowScopes, Pages!Refuse(scope) PROVE PagesInv'
  <2>1. walk.at = "more" /\ walk.report # "list"
    BY <1>2 DEF Pages!Refuse, PagesInv, WalkPlaces
  <2> QED
    BY <1>2, <2>1, PagesLeave DEF Pages!Refuse
<1>3. ASSUME Pages!Fail PROVE PagesInv'
  <2>1. walk.at \in Attaching /\ walk.report # "list"
    BY <1>3 DEF Pages!Fail, PagesInv, WalkPlaces, Attaching
  <2> QED
    BY <1>3, <2>1, PagesLeave DEF Pages!Fail, Attaching
<1>4. ASSUME NEW scope \in RowScopes, Pages!Panic(scope) PROVE PagesInv'
  <2>1. walk.at \in {"first", "more"} /\ walk.report = "table"
    BY <1>4 DEF Pages!Panic, Pages!Untimed
  <2> QED
    BY <1>4, <2>1, PagesLeave DEF Pages!Panic
<1> QED
  BY <1>1, <1>2, <1>3, <1>4, PagesAttach, PagesList, PagesListAttach, PagesChange DEF Pages!Next

\* An element is in a list once if it is there and at one place only.
LEMMA OncePlaced ==
    ASSUME NEW s, NEW x, x \in Pages!Range(s), \A k, l \in DOMAIN s : s[k] = x /\ s[l] = x => k = l
    PROVE  Pages!OnceIn(x, s)
<1>1. PICK k \in DOMAIN s : s[k] = x
  BY DEF Pages!Range
<1>2. {i \in DOMAIN s : s[i] = x} = {k}
  BY <1>1
<1> QED
  BY <1>2, FS_Singleton, PagesCardinality DEF Pages!OnceIn

LEMMA WalkDelivers == PagesInv => Pages!WalkComplete /\ Pages!ShownOnce
<1> SUFFICES ASSUME PagesInv PROVE Pages!WalkComplete /\ Pages!ShownOnce
  OBVIOUS
<1>1. PagesTyped /\ GivenInOrder /\ GivenOnce /\ NothingSkipped /\ PairsAttached /\ ResponsesKept
  BY DEF PagesInv
<1>2. /\ walk.given \in Seq(RowIds) /\ walk.scope \in SUBSET RowIds /\ steady \in SUBSET RowIds
      /\ \A k \in DOMAIN walk.given : k \in Int
  <2>1. walk.given \in Seq(RowIds) /\ walk.scope \in RowScopes /\ steady \in SUBSET RowIds
    BY <1>1 DEF PagesTyped, PageWalks
  <2>2. RowScopes \subseteq SUBSET RowIds
    BY PageAssumption
  <2> QED
    BY <2>1, <2>2
<1>3. ASSUME walk.report # "list", NEW k \in DOMAIN walk.given, NEW l \in DOMAIN walk.given,
             walk.given[k] \in steady, walk.given[k] = walk.given[l]
      PROVE  k = l
  <2>1. Pages!Row(walk.given[k]) \in PageRows
    BY <1>1, <1>2, <1>3, RowTyped
  <2>2. ~Pages!Precedes(walk.report, Pages!Row(walk.given[k]), Pages!Row(walk.given[k]))
    BY <2>1, ReportOrder
  <2>3. ~(k < l) /\ ~(l < k)
    BY <1>1, <1>3, <2>2 DEF GivenInOrder
  <2> QED
    BY <1>2, <2>3
<1>4. ASSUME NEW x \in Pages!InScope(walk.scope)
      PROVE  x.id \in walk.scope /\ rows[x.id].in /\ x = Pages!Row(x.id) /\ x \in PageRows
  <2>1. PICK i \in walk.scope : rows[i].in /\ x = Pages!Row(i)
    BY DEF Pages!InScope
  <2> QED
    BY <1>1, <1>2, <2>1, RowTyped
<1>5. ASSUME walk.at = "done", walk.report # "list"
      PROVE  LET stayed == {r \in Pages!InScope(walk.scope) : r.id \in steady}
             IN  /\ \A r \in stayed : Pages!OnceIn(r.id, walk.given)
                 /\ \A x, y \in stayed : Pages!Precedes(walk.report, x, y) =>
                      \A i, j \in DOMAIN walk.given :
                          walk.given[i] = x.id /\ walk.given[j] = y.id => i < j
  <2>1. ASSUME NEW x \in Pages!InScope(walk.scope), x.id \in steady PROVE Pages!OnceIn(x.id, walk.given)
    <3>1. x.id \in Pages!Range(walk.given)
      BY <1>1, <1>4, <1>5, <2>1 DEF NothingSkipped
    <3> QED
      BY <1>3, <1>5, <2>1, <3>1, OncePlaced
  <2>2. ASSUME NEW x \in Pages!InScope(walk.scope), x.id \in steady,
               NEW y \in Pages!InScope(walk.scope), y.id \in steady, Pages!Precedes(walk.report, x, y),
               NEW i \in DOMAIN walk.given, NEW j \in DOMAIN walk.given, walk.given[i] = x.id, walk.given[j] = y.id
        PROVE  i < j
    <3>1. x \in PageRows /\ y \in PageRows /\ x = Pages!Row(x.id) /\ y = Pages!Row(y.id)
      BY <1>4
    <3>2. ~Pages!Precedes(walk.report, y, x)
      BY <2>2, <3>1, ReportOrder
    <3>3. i # j
      BY <2>2, <3>1, ReportOrder
    <3>4. ~(j < i)
      BY <1>1, <1>5, <2>2, <3>1, <3>2 DEF GivenInOrder
    <3> QED
      BY <1>2, <3>3, <3>4
  <2> QED
    BY <2>1, <2>2
<1>6. Pages!WalkComplete
  BY <1>5 DEF Pages!WalkComplete
<1>7. ASSUME walk.report = "inventory", walk.at = "done", NEW p \in Pages!Pending(walk.scope), {p[1], p[2]} \subseteq steady
      PROVE  /\ Pages!OnceIn(p, walk.pairs)
             /\ \E n \in DOMAIN walk.responses :
                  p[1] \in walk.responses[n].rows /\ {p[1], p[2]} \subseteq walk.responses[n].nodes
  <2>1. p[1] \in walk.scope /\ rows[p[1]].in
    BY DEF Pages!Pending
  <2>2. p[1] \in Pages!Range(walk.given)
    BY <1>1, <1>7, <2>1 DEF NothingSkipped
  <2>3. p \in Pages!Range(walk.pairs) /\ Pages!IsInjective(walk.pairs)
    BY <1>1, <1>7, <2>2 DEF PairsAttached, Attached, Attaching
  <2>4. Pages!OnceIn(p, walk.pairs)
    BY <2>3, OncePlaced DEF Pages!IsInjective
  <2> QED
    BY <1>1, <1>7, <2>3, <2>4 DEF ResponsesKept
<1> DEFINE rs == walk.responses
<1>8. ASSUME walk.report = "inventory", NEW m \in DOMAIN rs, NEW n \in DOMAIN rs, m < n
      PROVE  rs[m].rows \intersect rs[n].nodes = {}
  <2> SUFFICES ASSUME NEW i \in rs[m].rows, i \in rs[n].nodes PROVE FALSE
    OBVIOUS
  <2>1. rs[m].rows \subseteq Pages!Range(walk.given) /\ rs[n].rows \subseteq Pages!Range(walk.given)
    BY <1>1, <1>8 DEF ResponsesKept
  <2>2. Pages!Range(walk.given) \subseteq RowIds /\ RowIds \subseteq Nat
    BY <1>2, PageAssumption DEF Pages!Range
  <2>3. \A j \in rs[n].rows : i < j
    BY <1>1, <1>8 DEF ResponsesKept, RowsAscend
  <2>4. CASE i \in rs[n].rows
    <3>1. i < i /\ i \in Nat
      BY <2>1, <2>2, <2>3, <2>4
    <3> QED
      BY <3>1
  <2>5. CASE i \notin rs[n].rows
    <3>1. PICK p \in Pages!Range(walk.pairs) : p[1] \in rs[n].rows /\ p[2] = i
      BY <1>1, <1>8, <2>5 DEF ResponsesKept
    <3>2. p \in RowPairs
      <4>1. walk.pairs \in Seq(RowPairs)
        BY <1>1 DEF PagesTyped, PageWalks
      <4> QED
        BY <3>1, <4>1 DEF Pages!Range
    <3>3. p[1] < p[2] /\ i < p[1]
      BY <2>3, <3>1, <3>2, PageAssumption
    <3>4. p[1] \in Nat /\ i \in Nat
      BY <2>1, <2>2, <3>1
    <3> QED
      BY <3>1, <3>3, <3>4
  <2> QED
    BY <2>4, <2>5
<1>9. ASSUME walk.report = "inventory", NEW n \in DOMAIN rs, NEW i \in rs[n].nodes \ rs[n].rows
      PROVE  \E p \in Pages!Range(walk.pairs) : p[1] \in rs[n].rows /\ p[2] = i
  BY <1>1, <1>9 DEF ResponsesKept
<1>10. Pages!ShownOnce
  BY <1>1, <1>7, <1>8, <1>9 DEF Pages!ShownOnce, GivenOnce, ByIdentifier
<1> QED
  BY <1>6, <1>10

----------------------------------------------------------------------------
(* The rows of a search and their orders                                    *)

SearchRows == [key : RowIds, score : Nat]
KeysApart(s) == \A i, j \in DOMAIN s : s[i].key = s[j].key => i = j
RowsApart(S) == S \in SUBSET SearchRows /\ IsFiniteSet(S) /\ \A x, y \in S : x.key = y.key => x = y

LEMMA SearchCardinality == \A S : Searches!Cardinality(S) = Cardinality(S)
  BY DEF Searches!Cardinality, Cardinality

\* The three orders are strict, and total on rows of different documents.
LEMMA SearchOrders ==
    ASSUME NEW x \in SearchRows, NEW y \in SearchRows, NEW z \in SearchRows
    PROVE  /\ ~Searches!ByScore(x, x) /\ ~Searches!ByRank(x, x) /\ ~Searches!BySql(x, x)
           /\ x.key # y.key => /\ Searches!ByScore(x, y) \/ Searches!ByScore(y, x)
                               /\ Searches!ByRank(x, y) \/ Searches!ByRank(y, x)
                               /\ Searches!BySql(x, y) \/ Searches!BySql(y, x)
           /\ Searches!ByScore(x, y) /\ Searches!ByScore(y, z) => Searches!ByScore(x, z)
           /\ Searches!ByRank(x, y) /\ Searches!ByRank(y, z) => Searches!ByRank(x, z)
           /\ Searches!BySql(x, y) /\ Searches!BySql(y, z) => Searches!BySql(x, z)
<1>1. /\ x.key \in Nat /\ x.score \in Nat /\ ObservedAt[x.key] \in Nat
      /\ y.key \in Nat /\ y.score \in Nat /\ ObservedAt[y.key] \in Nat
      /\ z.key \in Nat /\ z.score \in Nat /\ ObservedAt[z.key] \in Nat
  <2>1. RowIds \subseteq Nat /\ ObservedAt \in [RowIds -> Nat]
    BY PageAssumption, SearchAssumption
  <2> QED
    BY <2>1 DEF SearchRows
<1>2. /\ ~Searches!ByScore(x, x)
      /\ x.key # y.key => Searches!ByScore(x, y) \/ Searches!ByScore(y, x)
      /\ Searches!ByScore(x, y) /\ Searches!ByScore(y, z) => Searches!ByScore(x, z)
  BY <1>1 DEF Searches!ByScore
<1>3. /\ ~Searches!ByRank(x, x)
      /\ x.key # y.key => Searches!ByRank(x, y) \/ Searches!ByRank(y, x)
      /\ Searches!ByRank(x, y) /\ Searches!ByRank(y, z) => Searches!ByRank(x, z)
  BY <1>1 DEF Searches!ByRank
<1>4. /\ ~Searches!BySql(x, x)
      /\ x.key # y.key => Searches!BySql(x, y) \/ Searches!BySql(y, x)
      /\ Searches!BySql(x, y) /\ Searches!BySql(y, z) => Searches!BySql(x, z)
  BY <1>1 DEF Searches!BySql, Searches!SqlLater
<1> QED
  BY <1>2, <1>3, <1>4

\* A list that shows each row of a set once.
ListsOnce(l, S) ==
    l \in Seq(SearchRows) /\ KeysApart(l) /\ (\A i \in DOMAIN l : l[i] \in S) /\ \A x \in S : \E i \in DOMAIN l : l[i] = x

LEMMA ListingOnce ==
    ASSUME NEW S, RowsApart(S), NEW B, Ordered(S, B), NEW l, l = Listing(S, B)
    PROVE  ListsOnce(l, S) /\ \A i, j \in DOMAIN l : l[i] \in B[l[j]] <=> i < j
<1> DEFINE n == Cardinality(S)
<1>1. /\ n \in Nat /\ l \in [1..n -> S]
      /\ \A i, j \in 1..n : l[i] \in B[l[j]] <=> i < j
      /\ \A i, j \in 1..n : l[i] = l[j] => i = j
      /\ \A x \in S : \E i \in 1..n : l[i] = x
  BY ListingInOrder
<1>2. l \in Seq(SearchRows) /\ DOMAIN l = 1..n
  BY <1>1 DEF RowsApart
<1> QED
  BY <1>1, <1>2 DEF ListsOnce, RowsApart, KeysApart

LEMMA OrderedByScore ==
    ASSUME NEW S, RowsApart(S), NEW l, l = Searches!OrderBy(S, Searches!ByScore)
    PROVE  ListsOnce(l, S) /\ \A i, j \in DOMAIN l : Searches!ByScore(l[i], l[j]) <=> i < j
<1> DEFINE A(x) == {y \in S : Searches!ByScore(y, x)}
           B == [x \in S |-> A(x)]
<1>1. \A x, y \in S : y \in B[x] <=> Searches!ByScore(y, x)
  OBVIOUS
<1>2. B \in [S -> SUBSET S]
  OBVIOUS
<1>3. l = Listing(S, B)
  <2>1. l = [i \in 1 .. Searches!Cardinality(S) |-> CHOOSE x \in S : Searches!Cardinality(A(x)) = i - 1]
    BY DEF Searches!OrderBy
  <2> HIDE DEF A
  <2> QED
    BY <2>1, SearchCardinality DEF Listing
<1> HIDE DEF B
<1>4. Ordered(S, B)
  BY <1>1, <1>2, SearchOrders DEF Ordered, RowsApart
<1>5. ListsOnce(l, S) /\ \A i, j \in DOMAIN l : l[i] \in B[l[j]] <=> i < j
  BY <1>3, <1>4, ListingOnce
<1> QED
  BY <1>1, <1>5 DEF ListsOnce

LEMMA OrderedBySql ==
    ASSUME NEW S, RowsApart(S), NEW l, l = Searches!OrderBy(S, Searches!BySql)
    PROVE  ListsOnce(l, S)
<1> DEFINE A(x) == {y \in S : Searches!BySql(y, x)}
           B == [x \in S |-> A(x)]
<1>1. \A x, y \in S : y \in B[x] <=> Searches!BySql(y, x)
  OBVIOUS
<1>2. B \in [S -> SUBSET S]
  OBVIOUS
<1>3. l = Listing(S, B)
  <2>1. l = [i \in 1 .. Searches!Cardinality(S) |-> CHOOSE x \in S : Searches!Cardinality(A(x)) = i - 1]
    BY DEF Searches!OrderBy
  <2> HIDE DEF A
  <2> QED
    BY <2>1, SearchCardinality DEF Listing
<1> HIDE DEF B
<1>4. Ordered(S, B)
  BY <1>1, <1>2, SearchOrders DEF Ordered, RowsApart
<1> QED
  BY <1>3, <1>4, ListingOnce

\* A list sorted again: the same rows, each where its place among the others is.
Rearranged(t, s) ==
    /\ t \in Seq(SearchRows) /\ KeysApart(t) /\ Len(t) = Len(s)
    /\ \A i \in DOMAIN t : \E k \in DOMAIN s : t[i] = s[k]
    /\ \A k \in DOMAIN s : \E i \in DOMAIN t : t[i] = s[k]
Arranged(s, B) == [i \in DOMAIN s |-> s[CHOOSE k \in DOMAIN s : Cardinality(B[k]) = i - 1]]
Permuted(t, s, B) ==
    \E p \in [DOMAIN s -> DOMAIN s] : \A i, j \in DOMAIN s : t[i] = s[p[i]] /\ (p[i] \in B[p[j]] <=> i < j)
LEMMA PlacesRearranged ==
    ASSUME NEW s \in Seq(SearchRows), KeysApart(s), NEW B, Ordered(DOMAIN s, B),
           NEW t, t = Arranged(s, B)
    PROVE  Rearranged(t, s) /\ Permuted(t, s, B)
<1> DEFINE D == DOMAIN s
           p == Listing(D, B)
<1>1. D = 1..Len(s) /\ Len(s) \in Nat /\ Cardinality(D) = Len(s)
  <2>1. Len(s) \in Nat /\ D = 1..Len(s)
    OBVIOUS
  <2>2. Cardinality(1..Len(s)) = Len(s)
    BY <2>1, FS_Interval
  <2> QED
    BY <2>1, <2>2
<1>2. /\ p \in [D -> D]
      /\ \A i, j \in D : p[i] \in B[p[j]] <=> i < j
      /\ \A i, j \in D : p[i] = p[j] => i = j
      /\ \A x \in D : \E i \in D : p[i] = x
  <2> HIDE DEF D
  <2>1. /\ p \in [1 .. Cardinality(D) -> D]
        /\ \A i, j \in 1 .. Cardinality(D) : p[i] \in B[p[j]] <=> i < j
        /\ \A i, j \in 1 .. Cardinality(D) : p[i] = p[j] => i = j
        /\ \A x \in D : \E i \in 1 .. Cardinality(D) : p[i] = x
    <3>1. Ordered(D, B)
      BY DEF D
    <3> QED
      BY <3>1, ListingInOrder
  <2> HIDE DEF p
  <2> QED
    BY <1>1, <2>1
<1>3. t = [i \in D |-> s[p[i]]]
  BY <1>1 DEF Listing, Arranged
<1> HIDE DEF p
<1>4. DOMAIN t = D /\ \A i \in D : t[i] = s[p[i]] /\ t[i] \in SearchRows
  BY <1>1, <1>2, <1>3
<1>5. t \in Seq(SearchRows) /\ Len(t) = Len(s)
  <2>1. t \in [1 .. Len(s) -> SearchRows]
    BY <1>1, <1>3, <1>4
  <2> QED
    BY <1>1, <2>1
<1>6. KeysApart(t)
  <2> SUFFICES ASSUME NEW i \in D, NEW j \in D, t[i].key = t[j].key PROVE i = j
    BY <1>4 DEF KeysApart
  <2>1. p[i] \in D /\ p[j] \in D /\ s[p[i]].key = s[p[j]].key
    BY <1>1, <1>2, <1>4
  <2>2. p[i] = p[j]
    BY <2>1 DEF KeysApart
  <2> QED
    BY <1>1, <1>2, <2>2
<1>7. /\ \A i \in DOMAIN t : \E k \in D : t[i] = s[k]
      /\ \A k \in D : \E i \in DOMAIN t : t[i] = s[k]
  BY <1>1, <1>2, <1>4
<1> QED
  BY <1>1, <1>2, <1>4, <1>5, <1>6, <1>7 DEF Rearranged, Permuted

LEMMA SortedByScore ==
    ASSUME NEW s \in Seq(SearchRows), KeysApart(s), NEW t, t = Searches!SliceStable(s, Searches!ByScore)
    PROVE  Rearranged(t, s) /\ \A i, j \in DOMAIN t : Searches!ByScore(t[i], t[j]) <=> i < j
<1> DEFINE D == DOMAIN s
           A(k) == {j \in D : Searches!ByScore(s[j], s[k]) \/ (~Searches!ByScore(s[k], s[j]) /\ j < k)}
           B == [k \in D |-> A(k)]
<1>1. D = 1..Len(s) /\ Len(s) \in Nat /\ IsFiniteSet(D) /\ \A k \in D : s[k] \in SearchRows
  BY FS_Interval
<1>2. \A j, k \in D : j # k => s[j].key # s[k].key
  BY DEF KeysApart
<1>3. ASSUME NEW j \in D, NEW k \in D PROVE j \in B[k] <=> Searches!ByScore(s[j], s[k])
  <2>1. CASE j = k
    BY <1>1, <2>1, SearchOrders
  <2>2. CASE j # k
    <3>1. Searches!ByScore(s[j], s[k]) \/ Searches!ByScore(s[k], s[j])
      BY <1>1, <1>2, <2>2, SearchOrders
    <3> QED
      BY <3>1
  <2> QED
    BY <2>1, <2>2
<1>4. B \in [D -> SUBSET D]
  OBVIOUS
<1>5. t = Arranged(s, B)
  <2>1. t = [i \in D |-> s[CHOOSE k \in D : Searches!Cardinality(A(k)) = i - 1]]
    BY DEF Searches!SliceStable
  <2> HIDE DEF A
  <2> QED
    BY <2>1, SearchCardinality DEF Arranged
<1> HIDE DEF B
<1>6. Ordered(D, B)
  <2>1. \A x \in D : x \notin B[x]
    BY <1>1, <1>3, SearchOrders
  <2>2. \A x, y \in D : x = y \/ x \in B[y] \/ y \in B[x]
    BY <1>1, <1>2, <1>3, SearchOrders
  <2>3. \A x, y \in D : x \in B[y] => B[x] \subseteq B[y]
    BY <1>1, <1>3, <1>4, SearchOrders
  <2> QED
    BY <1>1, <1>4, <2>1, <2>2, <2>3 DEF Ordered
<1>7. Rearranged(t, s) /\ Permuted(t, s, B)
  BY <1>5, <1>6, PlacesRearranged
<1>8. DOMAIN t = D
  BY <1>1, <1>7 DEF Rearranged
<1>9. PICK p \in [D -> D] : \A i, j \in D : t[i] = s[p[i]] /\ (p[i] \in B[p[j]] <=> i < j)
  BY <1>7 DEF Permuted
<1>10. ASSUME NEW i \in D, NEW j \in D PROVE Searches!ByScore(t[i], t[j]) <=> i < j
  <2>1. p[i] \in D /\ p[j] \in D
    BY <1>9
  <2>2. p[i] \in B[p[j]] <=> Searches!ByScore(s[p[i]], s[p[j]])
    BY <1>3, <2>1
  <2>3. t[i] = s[p[i]] /\ t[j] = s[p[j]] /\ (p[i] \in B[p[j]] <=> i < j)
    BY <1>9
  <2> QED
    BY <2>2, <2>3, Zenon
<1> QED
  BY <1>7, <1>8, <1>10

LEMMA SortedByRank ==
    ASSUME NEW s \in Seq(SearchRows), KeysApart(s), NEW t, t = Searches!SliceStable(s, Searches!ByRank)
    PROVE  Rearranged(t, s)
<1> DEFINE D == DOMAIN s
           A(k) == {j \in D : Searches!ByRank(s[j], s[k]) \/ (~Searches!ByRank(s[k], s[j]) /\ j < k)}
           B == [k \in D |-> A(k)]
<1>1. D = 1..Len(s) /\ Len(s) \in Nat /\ IsFiniteSet(D) /\ \A k \in D : s[k] \in SearchRows
  BY FS_Interval
<1>2. \A j, k \in D : j # k => s[j].key # s[k].key
  BY DEF KeysApart
<1>3. ASSUME NEW j \in D, NEW k \in D PROVE j \in B[k] <=> Searches!ByRank(s[j], s[k])
  <2>1. CASE j = k
    BY <1>1, <2>1, SearchOrders
  <2>2. CASE j # k
    <3>1. Searches!ByRank(s[j], s[k]) \/ Searches!ByRank(s[k], s[j])
      BY <1>1, <1>2, <2>2, SearchOrders
    <3> QED
      BY <3>1
  <2> QED
    BY <2>1, <2>2
<1>4. B \in [D -> SUBSET D]
  OBVIOUS
<1>5. t = Arranged(s, B)
  <2>1. t = [i \in D |-> s[CHOOSE k \in D : Searches!Cardinality(A(k)) = i - 1]]
    BY DEF Searches!SliceStable
  <2> HIDE DEF A
  <2> QED
    BY <2>1, SearchCardinality DEF Arranged
<1> HIDE DEF B
<1>6. Ordered(D, B)
  <2>1. \A x \in D : x \notin B[x]
    BY <1>1, <1>3, SearchOrders
  <2>2. \A x, y \in D : x = y \/ x \in B[y] \/ y \in B[x]
    BY <1>1, <1>2, <1>3, SearchOrders
  <2>3. \A x, y \in D : x \in B[y] => B[x] \subseteq B[y]
    BY <1>1, <1>3, <1>4, SearchOrders
  <2> QED
    BY <1>1, <1>4, <2>1, <2>2, <2>3 DEF Ordered
<1> QED
  BY <1>5, <1>6, PlacesRearranged

----------------------------------------------------------------------------
(* A search                                                                 *)

Modes == {"dense", "sparse", "hybrid"}
ReadPoints == {"embed", "dense", "coverage", "sparse"}
Codes == {"none", "capacity_exhausted", "invalid_response", "backend_unavailable", "dense_query_failed",
          "no_embedding_coverage", "oversized", "deadline", "sparse_query_failed", "encode_report"}
SearchRecords ==
    [at : ReadPoints \union {"idle", "respond", "answered", "failed"}, mode : Modes \union {"none"},
     wildcard : BOOLEAN, kinds : Seq(STRING), scope : SUBSET RowIds, topK : Nat, minSim : Nat,
     todo : Seq(STRING), dense : Seq(SearchRows), sparse : Seq(SearchRows),
     modeUsed : Modes \union {"none"}, code : Codes, denseRan : BOOLEAN,
     results : Seq(SearchRows), error : Codes]
SearchTyped ==
    /\ corpus \in [RowIds -> [sim : Grades, rank : Grades, active : BOOLEAN]]
    /\ changes \in 0 .. MaxChanges /\ search \in SearchRecords
Asked ==
    search.at # "idle" =>
        /\ search.mode \in Modes /\ search.kinds \in KindSets
        /\ search.scope \in DocScopes /\ search.topK \in TopKs

\* A leg holds documents the request asked for, each once; while it is read, only those
\* of the kinds that have been.
LegOf(s) ==
    /\ KeysApart(s)
    /\ \A i \in DOMAIN s : s[i].key \in search.scope /\ KindOf[s[i].key] \in Searches!Range(search.kinds)
LegSoFar(s) == LegOf(s) /\ \A i \in DOMAIN s : KindOf[s[i].key] \notin Searches!Range(search.todo)
LegRead(s) == LegOf(s) /\ Len(s) <= Searches!Kept
NoTwice(ks) == \A i, j \in DOMAIN ks : ks[i] = ks[j] => i = j
ToRead ==
    search.todo # <<>> /\ NoTwice(search.todo) /\ Searches!Range(search.todo) \subseteq Searches!Range(search.kinds)
LegsInv ==
    /\ search.at \in ReadPoints => ToRead
    /\ search.at = "embed" => search.todo = search.kinds /\ search.dense = <<>>
    /\ search.at = "dense" => LegSoFar(search.dense)
    /\ search.at \in {"embed", "dense", "coverage"} => search.sparse = <<>>
    /\ search.at \in {"coverage", "sparse", "respond", "answered"} => LegRead(search.dense)
    /\ search.at = "sparse" => LegSoFar(search.sparse)
    /\ search.at \in {"respond", "answered"} => LegRead(search.sparse)

\* What a search says of itself at every point.
ModeInv ==
    search.at # "idle" =>
        /\ search.code # "none" <=> search.mode = "hybrid" /\ search.modeUsed = "sparse"
        /\ search.modeUsed # search.mode => search.mode = "hybrid" /\ search.modeUsed = "sparse"
        /\ search.at \in {"embed", "dense", "coverage"} => search.mode # "sparse" /\ search.modeUsed = search.mode
        /\ search.at = "coverage" => search.denseRan /\ search.mode = "hybrid"
        /\ search.at = "sparse" => search.mode # "dense"
        /\ search.at \in {"sparse", "respond", "answered"} => search.modeUsed = "sparse" \/ search.denseRan

SearchInv == SearchTyped /\ Asked /\ LegsInv /\ ModeInv /\ Searches!ResultsSound

LEMMA CutKeeps ==
    ASSUME NEW s \in Seq(SearchRows), NEW n \in Nat, NEW t, t = Searches!Cut(s, n)
    PROVE  /\ t \in Seq(SearchRows) /\ Len(t) <= n /\ Len(t) <= Len(s)
           /\ \A i \in DOMAIN t : i \in DOMAIN s /\ t[i] = s[i]
           /\ Len(t) = n \/ Len(t) = Len(s)
           /\ KeysApart(s) => KeysApart(t)
<1> DEFINE m == IF n < Len(s) THEN n ELSE Len(s)
<1>1. m \in Nat /\ m <= n /\ m <= Len(s) /\ (m = n \/ m = Len(s)) /\ t = SubSeq(s, 1, m)
  BY DEF Searches!Cut
<1> HIDE DEF m
<1>2. t \in Seq(SearchRows) /\ Len(t) = m /\ \A i \in 1..m : i \in DOMAIN s /\ t[i] = s[i]
  BY <1>1
<1> QED
  BY <1>1, <1>2 DEF KeysApart

\* The kinds still to read, without the first of them.
LEMMA KindsLeft ==
    ASSUME NEW ks \in Seq(STRING), ks # <<>>, NoTwice(ks)
    PROVE  /\ Head(ks) \in Searches!Range(ks) /\ Tail(ks) \in Seq(STRING) /\ NoTwice(Tail(ks))
           /\ Searches!Range(Tail(ks)) \subseteq Searches!Range(ks)
           /\ Head(ks) \notin Searches!Range(Tail(ks))
<1>1. /\ Len(ks) \in Nat \ {0} /\ Head(ks) = ks[1] /\ Tail(ks) \in Seq(STRING)
      /\ DOMAIN Tail(ks) = 1 .. (Len(ks) - 1) /\ DOMAIN ks = 1 .. Len(ks)
      /\ \A i \in 1 .. (Len(ks) - 1) : Tail(ks)[i] = ks[i + 1]
  OBVIOUS
<1>2. 1 \in DOMAIN ks /\ \A i \in DOMAIN Tail(ks) : i + 1 \in DOMAIN ks /\ Tail(ks)[i] = ks[i + 1] /\ i + 1 # 1
  BY <1>1
<1>3. \A i, j \in DOMAIN Tail(ks) : i + 1 = j + 1 => i = j
  BY <1>1
<1>4. NoTwice(Tail(ks))
  BY <1>2, <1>3 DEF NoTwice
<1>5. \A v \in Searches!Range(Tail(ks)) : \E i \in DOMAIN Tail(ks) : v = ks[i + 1]
  BY <1>2 DEF Searches!Range
<1> QED
  BY <1>1, <1>2, <1>4, <1>5 DEF Searches!Range, NoTwice

\* An empty list is a leg of which nothing was found.
LEMMA EmptyLeg == LegSoFar(<<>>) /\ (search.topK \in Nat => LegRead(<<>>)) /\ <<>> \in Seq(SearchRows)
<1>1. <<>> \in Seq(SearchRows) /\ DOMAIN <<>> = {} /\ Len(<<>>) = 0
  OBVIOUS
<1>2. search.topK \in Nat => Searches!Kept \in Nat
  BY SearchAssumption DEF Searches!Kept
<1> QED
  BY <1>1, <1>2 DEF LegSoFar, LegRead, LegOf, KeysApart

LEMMA KindSequences ==
    ASSUME NEW ks \in KindSets
    PROVE  ks \in Seq(STRING) /\ ks # <<>> /\ NoTwice(ks)
  BY SearchAssumption DEF NoTwice

LEMMA SearchBegins == Searches!Init => SearchInv
<1> SUFFICES ASSUME Searches!Init PROVE SearchInv
  OBVIOUS
<1>1. search = Searches!NoSearch /\ changes = 0
  BY DEF Searches!Init
<1>2. search \in SearchRecords
  <2>1. <<>> \in Seq(SearchRows) /\ <<>> \in Seq(STRING)
    OBVIOUS
  <2> DEFINE none == <<>>
  <2>2. search = [at |-> "idle", mode |-> "none", wildcard |-> FALSE, kinds |-> none, scope |-> {}, topK |-> 0,
                  minSim |-> 0, todo |-> none, dense |-> none, sparse |-> none, modeUsed |-> "none",
                  code |-> "none", denseRan |-> FALSE, results |-> none, error |-> "none"]
    BY <1>1 DEF Searches!NoSearch
  <2> HIDE DEF none
  <2>3. none \in Seq(SearchRows) /\ none \in Seq(STRING)
    BY <2>1 DEF none
  <2> QED
    BY <2>2, <2>3 DEF SearchRecords, Codes
<1>3. corpus \in [RowIds -> [sim : Grades, rank : Grades, active : BOOLEAN]]
  <2>1. [sim : Grades, rank : Grades, active : {TRUE}] \subseteq [sim : Grades, rank : Grades, active : BOOLEAN]
    OBVIOUS
  <2>2. [sim : Grades, rank : {0}, active : {FALSE}] \subseteq [sim : Grades, rank : Grades, active : BOOLEAN]
    BY SearchAssumption
  <2> DEFINE X == [sim : Grades, rank : Grades, active : {TRUE}]
             Y == [sim : Grades, rank : {0}, active : {FALSE}]
             Z == [sim : Grades, rank : Grades, active : BOOLEAN]
  <2>3. corpus \in [RowIds -> X \union Y]
    BY DEF Searches!Init
  <2> HIDE DEF X, Y, Z
  <2>4. corpus \in [RowIds -> Z]
    BY <2>1, <2>2, <2>3 DEF X, Y, Z
  <2> QED
    BY <2>4 DEF Z
<1>4. search.at = "idle"
  BY <1>1 DEF Searches!NoSearch
<1>5. MaxChanges \in Nat
  BY PageAssumption
<1> QED
  BY <1>1, <1>2, <1>3, <1>4, <1>5 DEF SearchInv, SearchTyped, Asked, LegsInv, ModeInv, Searches!ResultsSound, ReadPoints

\* A step before the answer leaves what is said of answers alone.
LEMMA NotAnswered == search.at # "answered" => Searches!ResultsSound
  BY DEF Searches!ResultsSound

LEMMA SearchReceive ==
    ASSUME SearchInv, NEW mode \in Modes, NEW w \in BOOLEAN, NEW ks \in KindSets, NEW scope \in DocScopes,
           NEW n \in TopKs, NEW m \in Grades \ {0}, Searches!Receive(mode, w, ks, scope, n, m)
    PROVE  SearchInv'
<1>1. n \in Nat /\ m \in Nat /\ scope \in SUBSET RowIds
  BY SearchAssumption
<1>2. ks \in Seq(STRING) /\ ks # <<>> /\ NoTwice(ks)
  BY KindSequences
<1>3. /\ search'.at = IF mode = "sparse" \/ w THEN "sparse" ELSE "embed"
      /\ search'.mode = IF w THEN "sparse" ELSE mode
      /\ search'.modeUsed = IF w THEN "sparse" ELSE mode
      /\ search'.wildcard = w /\ search'.kinds = ks /\ search'.todo = ks /\ search'.scope = scope
      /\ search'.topK = n /\ search'.minSim = m /\ search'.dense = <<>> /\ search'.sparse = <<>>
      /\ search'.code = "none" /\ search'.denseRan = FALSE /\ search'.results = <<>> /\ search'.error = "none"
  BY DEF Searches!Receive, Searches!NoSearch
<1>4. search' \in SearchRecords
  <2> DEFINE a == IF mode = "sparse" \/ w THEN "sparse" ELSE "embed"
             u == IF w THEN "sparse" ELSE mode
  <2>1. a \in ReadPoints /\ u \in Modes
    BY DEF Modes, ReadPoints
  <2> DEFINE none == <<>>
  <2>2. search' = [at |-> a, mode |-> u, wildcard |-> w, kinds |-> ks, scope |-> scope, topK |-> n,
                   minSim |-> m, todo |-> ks, dense |-> none, sparse |-> none, modeUsed |-> u, code |-> "none",
                   denseRan |-> FALSE, results |-> none, error |-> "none"]
    BY DEF Searches!Receive, Searches!NoSearch
  <2>3. none \in Seq(SearchRows)
    OBVIOUS
  <2> HIDE DEF a, u, none
  <2> QED
    BY <1>1, <1>2, <2>1, <2>2, <2>3 DEF SearchRecords, Codes
<1>5. SearchTyped' /\ Asked'
  BY <1>3, <1>4 DEF SearchInv, SearchTyped, Asked, Searches!Receive, Modes
<1>6. LegsInv'
  <2>1. ToRead'
    BY <1>2, <1>3 DEF ToRead, NoTwice
  <2>2. LegSoFar(<<>>)' /\ LegRead(<<>>)'
    <3>1. (LegSoFar(<<>>) /\ (search.topK \in Nat => LegRead(<<>>)) /\ <<>> \in Seq(SearchRows))'
      BY EmptyLeg, PTL
    <3> QED
      BY <1>1, <1>3, <3>1
  <2> QED
    BY <1>3, <2>1, <2>2 DEF LegsInv
<1>7. ModeInv'
  BY <1>3 DEF ModeInv, Modes
<1>8. Searches!ResultsSound'
  <2>1. (search.at # "answered" => Searches!ResultsSound)'
    BY NotAnswered, PTL
  <2> QED
    BY <1>3, <2>1
<1> QED
  BY <1>5, <1>6, <1>7, <1>8 DEF SearchInv

\* A search that fails.
LEMMA SearchFails ==
    ASSUME SearchInv, search.at \in ReadPoints \union {"respond"}, NEW e \in Codes, Searches!FailWith(e), UNCHANGED <<corpus, changes>>
    PROVE  SearchInv'
<1>1. search' = [search EXCEPT !.at = "failed", !.error = e] /\ search \in SearchRecords
  BY DEF Searches!FailWith, SearchInv, SearchTyped
<1>2. search' \in SearchRecords
  BY <1>1 DEF SearchRecords
<1>3. /\ search'.at = "failed" /\ search'.mode = search.mode /\ search'.modeUsed = search.modeUsed
      /\ search'.kinds = search.kinds /\ search'.scope = search.scope /\ search'.topK = search.topK
      /\ search'.code = search.code /\ search'.denseRan = search.denseRan
  BY <1>1 DEF SearchRecords
<1>4. SearchTyped' /\ Asked'
  BY <1>2, <1>3 DEF SearchInv, SearchTyped, Asked, ReadPoints
<1>5. LegsInv' /\ ModeInv' /\ Searches!ResultsSound'
  BY <1>3 DEF LegsInv, SearchInv, ModeInv, ReadPoints, Searches!ResultsSound
<1> QED
  BY <1>4, <1>5 DEF SearchInv

\* A hybrid search that goes on with keywords, and says why.
LEMMA SearchFallsBack ==
    ASSUME SearchInv, search.at \in {"embed", "dense", "coverage"}, search.mode # "dense",
           NEW c \in Codes \ {"none"}, Searches!FallBack(c), UNCHANGED <<corpus, changes>>
    PROVE  SearchInv'
<1> DEFINE none == <<>>
<1>1. /\ search' = [search EXCEPT !.at = "sparse", !.modeUsed = "sparse", !.code = c, !.todo = search.kinds, !.dense = none]
      /\ search \in SearchRecords
  BY DEF Searches!FallBack, SearchInv, SearchTyped
<1>2. /\ search.mode = "hybrid" /\ search.sparse = <<>> /\ search.kinds \in KindSets /\ search.topK \in TopKs
      /\ search.scope \in DocScopes
  BY DEF SearchInv, LegsInv, ModeInv, Asked, Modes
<1>3. search.kinds \in Seq(STRING) /\ search.kinds # <<>> /\ NoTwice(search.kinds) /\ search.topK \in Nat
  BY <1>2, KindSequences, SearchAssumption
<1>4. search' \in SearchRecords
  <2>1. none \in Seq(SearchRows)
    OBVIOUS
  <2> HIDE DEF none
  <2> QED
    BY <1>1, <1>3, <2>1 DEF SearchRecords, ReadPoints, Modes
<1>5. /\ search'.at = "sparse" /\ search'.mode = search.mode /\ search'.modeUsed = "sparse" /\ search'.code = c
      /\ search'.kinds = search.kinds /\ search'.scope = search.scope /\ search'.topK = search.topK
      /\ search'.todo = search.kinds /\ search'.dense = <<>> /\ search'.sparse = search.sparse
  BY <1>1 DEF SearchRecords
<1>6. SearchTyped' /\ Asked'
  BY <1>2, <1>4, <1>5 DEF SearchInv, SearchTyped, Asked, Modes
<1>7. (LegSoFar(<<>>) /\ (search.topK \in Nat => LegRead(<<>>)) /\ <<>> \in Seq(SearchRows))'
  BY EmptyLeg, PTL
<1>8. ToRead'
  BY <1>3, <1>5 DEF ToRead
<1>9. LegsInv' /\ ModeInv' /\ Searches!ResultsSound'
  BY <1>2, <1>3, <1>5, <1>7, <1>8 DEF LegsInv, ModeInv, Searches!ResultsSound
<1> QED
  BY <1>6, <1>9 DEF SearchInv

LEMMA SearchEmbedFails ==
    ASSUME SearchInv, NEW o \in Searches!Outcomes, Searches!EmbedFails(o)
    PROVE  SearchInv'
<1>1. Searches!PublicCode(o) \in Codes \ {"none"} /\ Searches!LegFailure(o) \in Codes
  BY DEF Searches!PublicCode, Searches!LegFailure, Searches!Outcomes, Codes
<1>2. search.at = "embed" /\ UNCHANGED <<corpus, changes>>
  BY DEF Searches!EmbedFails
<1>3. CASE search.mode = "dense"
  <2>1. Searches!FailWith(Searches!LegFailure(o))
    BY <1>3 DEF Searches!EmbedFails
  <2> QED
    BY <1>1, <1>2, <2>1, SearchFails DEF ReadPoints
<1>4. CASE search.mode # "dense"
  <2>1. Searches!FallBack(Searches!PublicCode(o))
    BY <1>4 DEF Searches!EmbedFails
  <2> QED
    BY <1>1, <1>2, <1>4, <2>1, SearchFallsBack
<1> QED
  BY <1>3, <1>4

LEMMA SearchDenseFails == ASSUME SearchInv, Searches!DenseFails PROVE SearchInv'
<1>1. search.at = "dense" /\ UNCHANGED <<corpus, changes>>
  BY DEF Searches!DenseFails
<1>2. "dense_query_failed" \in Codes \ {"none"}
  BY DEF Codes
<1>3. CASE search.mode = "dense"
  BY <1>1, <1>2, <1>3, SearchFails DEF Searches!DenseFails, ReadPoints
<1>4. CASE search.mode # "dense"
  BY <1>1, <1>2, <1>4, SearchFallsBack DEF Searches!DenseFails
<1> QED
  BY <1>3, <1>4

LEMMA SearchSparseFails == ASSUME SearchInv, Searches!SparseFails PROVE SearchInv'
  BY SearchFails DEF Searches!SparseFails, ReadPoints, Codes

LEMMA SearchReportFails == ASSUME SearchInv, Searches!ReportFails PROVE SearchInv'
  BY SearchFails DEF Searches!ReportFails, ReadPoints, Codes

\* A step to another point that changes what is left to read and no more.
GoesTo(at, todo) == search' = [search EXCEPT !.at = at, !.todo = todo] /\ UNCHANGED <<corpus, changes>>
LEMMA SearchGoes ==
    ASSUME SearchInv, NEW at \in ReadPoints, NEW todo \in Seq(STRING), GoesTo(at, todo)
    PROVE  /\ SearchTyped'
           /\ search'.at = at /\ search'.todo = todo /\ search'.mode = search.mode /\ search'.modeUsed = search.modeUsed
           /\ search'.kinds = search.kinds /\ search'.scope = search.scope /\ search'.topK = search.topK
           /\ search'.code = search.code /\ search'.denseRan = search.denseRan
           /\ search'.dense = search.dense /\ search'.sparse = search.sparse
<1>1. search' = [search EXCEPT !.at = at, !.todo = todo] /\ search \in SearchRecords
  BY DEF GoesTo, SearchInv, SearchTyped
<1> QED
  BY <1>1 DEF SearchRecords, SearchTyped, SearchInv, GoesTo

LEMMA SearchEmbedded == ASSUME SearchInv, Searches!Embedded PROVE SearchInv'
<1>1. search.at = "embed" /\ search.todo \in Seq(STRING) /\ search \in SearchRecords
  BY DEF Searches!Embedded, SearchInv, SearchTyped, SearchRecords
<1>2. GoesTo("dense", search.todo)
  BY <1>1 DEF Searches!Embedded, GoesTo, SearchRecords
<1>3. /\ SearchTyped'
      /\ search'.at = "dense" /\ search'.todo = search.todo /\ search'.mode = search.mode /\ search'.modeUsed = search.modeUsed
      /\ search'.kinds = search.kinds /\ search'.scope = search.scope /\ search'.topK = search.topK
      /\ search'.code = search.code /\ search'.denseRan = search.denseRan
      /\ search'.dense = search.dense /\ search'.sparse = search.sparse
  BY <1>1, <1>2, SearchGoes DEF ReadPoints
<1>4. (LegSoFar(<<>>) /\ (search.topK \in Nat => LegRead(<<>>)) /\ <<>> \in Seq(SearchRows))'
  BY EmptyLeg, PTL
<1>5. ToRead' /\ Asked'
  BY <1>1, <1>3 DEF SearchInv, LegsInv, ToRead, Asked, ReadPoints
<1>6. LegsInv' /\ ModeInv' /\ Searches!ResultsSound'
  BY <1>1, <1>3, <1>4, <1>5 DEF SearchInv, LegsInv, ModeInv, Searches!ResultsSound
<1> QED
  BY <1>3, <1>5, <1>6 DEF SearchInv

\* The sparse leg of a hybrid search begins.
LEMMA SparseBegins ==
    ASSUME SearchInv, search.at = "coverage", GoesTo("sparse", search.kinds)
    PROVE  SearchInv'
<1>1. search.kinds \in KindSets /\ search.sparse = <<>> /\ LegRead(search.dense)
  BY DEF SearchInv, Asked, LegsInv
<1>2. search.kinds \in Seq(STRING) /\ search.kinds # <<>> /\ NoTwice(search.kinds)
  BY <1>1, KindSequences
<1>3. /\ SearchTyped'
      /\ search'.at = "sparse" /\ search'.todo = search.kinds /\ search'.mode = search.mode /\ search'.modeUsed = search.modeUsed
      /\ search'.kinds = search.kinds /\ search'.scope = search.scope /\ search'.topK = search.topK
      /\ search'.code = search.code /\ search'.denseRan = search.denseRan
      /\ search'.dense = search.dense /\ search'.sparse = search.sparse
  BY <1>2, SearchGoes DEF ReadPoints
<1>4. (LegSoFar(<<>>) /\ (search.topK \in Nat => LegRead(<<>>)) /\ <<>> \in Seq(SearchRows))'
  BY EmptyLeg, PTL
<1>5. LegRead(search.dense)'
  BY <1>1, <1>3 DEF LegRead, LegOf, KeysApart, Searches!Kept
<1>6. ToRead' /\ Asked'
  BY <1>2, <1>3 DEF ToRead, Asked, SearchInv
<1>7. LegsInv' /\ ModeInv' /\ Searches!ResultsSound'
  BY <1>1, <1>3, <1>4, <1>5, <1>6 DEF SearchInv, LegsInv, ModeInv, Searches!ResultsSound
<1> QED
  BY <1>3, <1>6, <1>7 DEF SearchInv

LEMMA SearchCoverage ==
    ASSUME SearchInv, Searches!Coverage \/ Searches!CoverageFails
    PROVE  SearchInv'
<1>1. /\ search.at = "coverage" /\ UNCHANGED <<corpus, changes>> /\ search.todo \in Seq(STRING)
      /\ search.mode = "hybrid" /\ ToRead
  BY DEF Searches!Coverage, Searches!CoverageFails, SearchInv, SearchTyped, SearchRecords, ModeInv, LegsInv, ReadPoints
<1>2. CASE GoesTo("sparse", search.kinds)
  BY <1>1, <1>2, SparseBegins
<1>3. CASE Searches!FallBack("no_embedding_coverage")
  <2>1. "no_embedding_coverage" \in Codes \ {"none"}
    BY DEF Codes
  <2> QED
    BY <1>1, <1>3, <2>1, SearchFallsBack
<1>4. CASE Len(search.todo) > 1 /\ search' = [search EXCEPT !.todo = Tail(@)]
  <2> DEFINE rest == Tail(search.todo)
  <2>1. rest \in Seq(STRING) /\ NoTwice(rest) /\ Searches!Range(rest) \subseteq Searches!Range(search.todo) /\ rest # <<>>
    <3>1. search.todo # <<>> /\ NoTwice(search.todo)
      BY <1>1 DEF ToRead
    <3>2. rest \in Seq(STRING) /\ NoTwice(rest) /\ Searches!Range(rest) \subseteq Searches!Range(search.todo)
      BY <1>1, <3>1, KindsLeft
    <3>3. Len(rest) = Len(search.todo) - 1
      BY <1>1, <3>1
    <3>4. Len(rest) > 0 /\ Len(<<>>) = 0
      BY <1>1, <1>4, <3>3
    <3> HIDE DEF rest
    <3> QED
      BY <3>2, <3>4
  <2> HIDE DEF rest
  <2>2. GoesTo("coverage", rest)
    BY <1>1, <1>4 DEF GoesTo, rest, SearchInv, SearchTyped, SearchRecords
  <2>3. /\ SearchTyped'
        /\ search'.at = "coverage" /\ search'.todo = rest /\ search'.mode = search.mode /\ search'.modeUsed = search.modeUsed
        /\ search'.kinds = search.kinds /\ search'.scope = search.scope /\ search'.topK = search.topK
        /\ search'.code = search.code /\ search'.denseRan = search.denseRan
        /\ search'.dense = search.dense /\ search'.sparse = search.sparse
    BY <2>1, <2>2, SearchGoes DEF ReadPoints
  <2>4. LegRead(search.dense)'
    BY <1>1, <2>3 DEF SearchInv, LegsInv, LegRead, LegOf, KeysApart, Searches!Kept
  <2>5. ToRead' /\ Asked'
    BY <1>1, <2>1, <2>3 DEF ToRead, Asked, SearchInv
  <2>6. LegsInv' /\ ModeInv' /\ Searches!ResultsSound'
    BY <1>1, <2>3, <2>4, <2>5 DEF SearchInv, LegsInv, ModeInv, Searches!ResultsSound
  <2> QED
    BY <2>3, <2>5, <2>6 DEF SearchInv
<1> QED
  BY <1>1, <1>2, <1>3, <1>4 DEF Searches!Coverage, Searches!CoverageFails, GoesTo

----------------------------------------------------------------------------
(* The legs of a search                                                     *)

\* Rows of documents of one kind that the request asked for.
KindRows(l, k) ==
    /\ l \in Seq(SearchRows) /\ KeysApart(l)
    /\ \A i \in DOMAIN l : l[i].key \in search.scope /\ KindOf[l[i].key] = k

Scored(D, f) == {[key |-> d, score |-> f[d]] : d \in D}
LEMMA ScoredApart ==
    ASSUME NEW D \in SUBSET RowIds, NEW f \in [D -> Nat], NEW S, S = Scored(D, f)
    PROVE  RowsApart(S) /\ \A x \in S : x.key \in D /\ x.score = f[x.key]
<1>1. IsFiniteSet(D)
  BY PageAssumption, FS_Subset
<1>2. IsFiniteSet(S)
  <2> DEFINE g == [d \in D |-> [key |-> d, score |-> f[d]]]
  <2>1. S = {g[d] : d \in D} /\ DOMAIN g = D
    BY DEF Scored
  <2>2. g \in Surjection(D, S)
    BY <2>1 DEF Surjection
  <2> QED
    BY <1>1, <2>2, FS_Surjection
<1>3. \A x \in S : \E d \in D : x = [key |-> d, score |-> f[d]]
  BY DEF Scored
<1>4. S \in SUBSET SearchRows
  <2> SUFFICES ASSUME NEW x \in S PROVE x \in SearchRows
    OBVIOUS
  <2>1. PICK d \in D : x = [key |-> d, score |-> f[d]]
    BY <1>3
  <2> QED
    BY <2>1 DEF SearchRows
<1>5. \A x \in S : x.key \in D /\ x = [key |-> x.key, score |-> f[x.key]] /\ x.score = f[x.key]
  <2> SUFFICES ASSUME NEW x \in S
               PROVE  x.key \in D /\ x = [key |-> x.key, score |-> f[x.key]] /\ x.score = f[x.key]
    OBVIOUS
  <2>1. PICK d \in D : x = [key |-> d, score |-> f[d]]
    BY <1>3
  <2>2. x.key = d
    BY <2>1
  <2> QED
    BY <2>1, <2>2
<1>6. \A x, y \in S : x.key = y.key => x = y
  BY <1>5, Zenon
<1> QED
  BY <1>2, <1>4, <1>5, <1>6 DEF RowsApart

LEMMA RowsOfKind ==
    ASSUME SearchTyped, NEW k, NEW D, D \in SUBSET Searches!InScope(k), NEW f \in [D -> Nat],
           NEW S, S = Scored(D, f)
    PROVE  RowsApart(S) /\ \A x \in S : x.key \in search.scope /\ KindOf[x.key] = k
<1>1. D \in SUBSET RowIds /\ \A d \in D : d \in search.scope /\ KindOf[d] = k
  BY DEF Searches!InScope, SearchTyped, SearchRecords
<1> QED
  BY <1>1, ScoredApart

\* A list of them, cut.
LEMMA CutRows ==
    ASSUME NEW S, NEW k, \A x \in S : x.key \in search.scope /\ KindOf[x.key] = k,
           NEW l, ListsOnce(l, S), NEW n \in Nat, NEW t, t = Searches!Cut(l, n)
    PROVE  KindRows(t, k)
<1>1. /\ t \in Seq(SearchRows) /\ KeysApart(t)
      /\ \A i \in DOMAIN t : i \in DOMAIN l /\ t[i] = l[i]
  BY CutKeeps DEF ListsOnce
<1> QED
  BY <1>1 DEF KindRows, ListsOnce

LEMMA KeptTyped == SearchTyped => Searches!Kept \in Nat
  BY SearchAssumption DEF SearchTyped, SearchRecords, Searches!Kept

LEMMA DenseRowsOfKind ==
    ASSUME SearchTyped, NEW k, NEW near \in Searches!Nearest(k)
    PROVE  KindRows(Searches!DenseRows(near), k)
<1> DEFINE D == {e \in near : corpus[e].sim >= search.minSim}
           f == [d \in D |-> corpus[d].sim]
           S == Scored(D, f)
           l == Searches!OrderBy(S, Searches!ByScore)
<1>1. near \in SUBSET Searches!InScope(k)
  BY DEF Searches!Nearest
<1>2. D \in SUBSET Searches!InScope(k) /\ D \in SUBSET RowIds
  BY <1>1 DEF Searches!InScope, SearchTyped, SearchRecords
<1>3. f \in [D -> Nat]
  BY <1>2, SearchAssumption DEF SearchTyped
<1>4. S = {[key |-> d, score |-> corpus[d].sim] : d \in D}
  BY DEF Scored
<1>5. Searches!DenseRows(near) = Searches!Cut(l, Searches!Kept)
  <2> HIDE DEF S
  <2> QED
    BY <1>4 DEF Searches!DenseRows
<1> HIDE DEF D, f
<1>6. RowsApart(S) /\ \A x \in S : x.key \in search.scope /\ KindOf[x.key] = k
  BY <1>2, <1>3, RowsOfKind
<1> HIDE DEF S
<1>7. ListsOnce(l, S)
  BY <1>6, OrderedByScore
<1> HIDE DEF l
<1> QED
  BY <1>5, <1>6, <1>7, CutRows, KeptTyped

LEMMA SparseRowsOfKind ==
    ASSUME SearchTyped, NEW k
    PROVE  KindRows(Searches!SparseRows(k), k)
<1> DEFINE D == {e \in Searches!InScope(k) : search.wildcard \/ corpus[e].rank > 0}
           f == [d \in D |-> IF search.wildcard THEN 1 ELSE corpus[d].rank]
           S == Scored(D, f)
           l == Searches!OrderBy(S, Searches!BySql)
           limit == Searches!Asking(Searches!Kept)
<1>1. D \in SUBSET Searches!InScope(k) /\ D \in SUBSET RowIds
  BY DEF Searches!InScope, SearchTyped, SearchRecords
<1>2. f \in [D -> Nat]
  BY <1>1, SearchAssumption DEF SearchTyped
<1>3. S = {[key |-> d, score |-> IF search.wildcard THEN 1 ELSE corpus[d].rank] : d \in D}
  BY DEF Scored
<1>4. Searches!SparseRows(k) = Searches!Cut(Searches!Cut(l, limit), Searches!Kept)
  <2> HIDE DEF S
  <2> QED
    BY <1>3 DEF Searches!SparseRows
<1> HIDE DEF D, f
<1>5. RowsApart(S) /\ \A x \in S : x.key \in search.scope /\ KindOf[x.key] = k
  BY <1>1, <1>2, RowsOfKind
<1> HIDE DEF S
<1>6. ListsOnce(l, S)
  BY <1>5, OrderedBySql
<1>7. limit \in Nat
  <2> DEFINE a == Overfetch * search.topK
             b == Searches!Kept
  <2>1. a \in Nat /\ b \in Nat
    BY KeptTyped, SearchAssumption DEF SearchTyped, SearchRecords
  <2> HIDE DEF a, b
  <2>2. \E x \in {a, b} : \A y \in {a, b} : x >= y
    BY <2>1
  <2>3. Searches!Max({a, b}) \in {a, b}
    BY <2>2 DEF Searches!Max
  <2> DEFINE most == Searches!Max({a, b})
  <2>4. most \in Nat /\ MaxOverfetch \in Nat
    BY <2>1, <2>3, SearchAssumption
  <2>5. limit = Searches!Min({most, MaxOverfetch})
    BY DEF Searches!Asking, a, b
  <2> HIDE DEF most
  <2>6. \E x \in {most, MaxOverfetch} : \A y \in {most, MaxOverfetch} : x <= y
    BY <2>4
  <2>7. Searches!Min({most, MaxOverfetch}) \in {most, MaxOverfetch}
    BY <2>6 DEF Searches!Min
  <2> QED
    BY <2>4, <2>5, <2>7
<1> HIDE DEF l, limit
<1> DEFINE c == Searches!Cut(l, limit)
<1>8. KindRows(c, k)
  BY <1>5, <1>6, <1>7, CutRows
<1>9. Searches!SparseRows(k) = Searches!Cut(c, Searches!Kept) /\ Searches!Kept \in Nat
  BY <1>4, KeptTyped
<1> HIDE DEF c
<1> DEFINE r == Searches!Cut(c, Searches!Kept)
<1>10. r \in Seq(SearchRows) /\ KeysApart(r) /\ \A i \in DOMAIN r : i \in DOMAIN c /\ r[i] = c[i]
  BY <1>8, <1>9, CutKeeps DEF KindRows
<1> HIDE DEF r
<1>11. KindRows(r, k)
  BY <1>8, <1>10 DEF KindRows
<1> QED
  BY <1>9, <1>11 DEF r

\* A leg with the rows of the next kind: no document twice, for kinds are read once.
LEMMA LegGrows ==
    ASSUME SearchTyped, ToRead, NEW s \in Seq(SearchRows), LegSoFar(s),
           NEW l, KindRows(l, Head(search.todo)), NEW all, all = s \o l
    PROVE  /\ all \in Seq(SearchRows) /\ LegOf(all)
           /\ \A i \in DOMAIN all : KindOf[all[i].key] \notin Searches!Range(Tail(search.todo))
<1> DEFINE k == Head(search.todo)
<1>1. search.todo \in Seq(STRING) /\ search.todo # <<>> /\ NoTwice(search.todo)
  BY DEF SearchTyped, SearchRecords, ToRead
<1>2. /\ k \in Searches!Range(search.todo) /\ k \notin Searches!Range(Tail(search.todo))
      /\ Searches!Range(Tail(search.todo)) \subseteq Searches!Range(search.todo)
      /\ Searches!Range(search.todo) \subseteq Searches!Range(search.kinds)
  BY <1>1, KindsLeft DEF ToRead
<1> DEFINE todo == Searches!Range(search.todo)
           rest == Searches!Range(Tail(search.todo))
<1>3. /\ KeysApart(s) /\ KeysApart(l) /\ l \in Seq(SearchRows)
      /\ \A i \in DOMAIN s : /\ s[i].key \in search.scope /\ KindOf[s[i].key] \in Searches!Range(search.kinds)
                             /\ KindOf[s[i].key] \notin todo
      /\ \A i \in DOMAIN l : l[i].key \in search.scope /\ KindOf[l[i].key] = k
  BY DEF LegSoFar, LegOf, KindRows
<1> HIDE DEF k, todo, rest
<1>4. k \in todo /\ k \notin rest /\ rest \subseteq todo /\ todo \subseteq Searches!Range(search.kinds)
  BY <1>2 DEF k, todo, rest
<1>5. /\ all \in Seq(SearchRows)
      /\ \A i \in DOMAIN all : \/ i \in DOMAIN s /\ all[i] = s[i]
                               \/ i - Len(s) \in DOMAIN l /\ all[i] = l[i - Len(s)] /\ \A j \in DOMAIN s : j < i
  BY <1>3, JoinedPlaces
<1>6. \A i \in DOMAIN all : /\ all[i].key \in search.scope /\ KindOf[all[i].key] \in Searches!Range(search.kinds)
                            /\ KindOf[all[i].key] \notin rest
  BY <1>3, <1>4, <1>5
<1>7. KeysApart(all)
  <2> SUFFICES ASSUME NEW i \in DOMAIN all, NEW j \in DOMAIN all, all[i].key = all[j].key PROVE i = j
    BY DEF KeysApart
  <2>1. CASE i \in DOMAIN s /\ j \in DOMAIN s /\ all[i] = s[i] /\ all[j] = s[j]
    BY <1>3, <2>1 DEF KeysApart
  <2>2. CASE i - Len(s) \in DOMAIN l /\ all[i] = l[i - Len(s)] /\ j - Len(s) \in DOMAIN l /\ all[j] = l[j - Len(s)]
    <3>1. i - Len(s) = j - Len(s)
      BY <1>3, <2>2 DEF KeysApart
    <3>2. i \in Int /\ j \in Int /\ Len(s) \in Int
      BY <1>5
    <3> QED
      BY <3>1, <3>2
  <2>3. \A a \in DOMAIN s, b \in DOMAIN l : s[a].key # l[b].key
    BY <1>3, <1>4
  <2> QED
    BY <1>5, <2>1, <2>2, <2>3
<1> QED
  BY <1>5, <1>6, <1>7 DEF LegOf, rest

\* The same rows sorted and cut are the leg.
LEMMA LegEnds ==
    ASSUME SearchTyped, NEW all \in Seq(SearchRows), LegOf(all), NEW sorted, Rearranged(sorted, all),
           NEW leg, leg = Searches!Cut(sorted, Searches!Kept)
    PROVE  leg \in Seq(SearchRows) /\ LegRead(leg)
<1>1. sorted \in Seq(SearchRows) /\ KeysApart(sorted) /\ \A i \in DOMAIN sorted : \E k \in DOMAIN all : sorted[i] = all[k]
  BY DEF Rearranged
<1>2. Searches!Kept \in Nat
  BY KeptTyped
<1>3. leg \in Seq(SearchRows) /\ Len(leg) <= Searches!Kept /\ KeysApart(leg)
      /\ \A i \in DOMAIN leg : i \in DOMAIN sorted /\ leg[i] = sorted[i]
  BY <1>1, <1>2, CutKeeps
<1> QED
  BY <1>1, <1>3 DEF LegRead, LegOf

\* A leg that has been read stays one while the request stays.
SameRequest ==
    /\ search'.mode = search.mode /\ search'.kinds = search.kinds /\ search'.scope = search.scope
    /\ search'.topK = search.topK /\ search'.code = search.code /\ search'.modeUsed = search.modeUsed
    /\ UNCHANGED <<corpus, changes>>
LEMMA LegStays == ASSUME SameRequest, NEW s, LegOf(s) PROVE (search'.dense = s => LegOf(search.dense)') /\ (search'.sparse = s => LegOf(search.sparse)')
  BY DEF SameRequest, LegOf, KeysApart

LEMMA SearchDenseKind == ASSUME SearchInv, Searches!DenseKind PROVE SearchInv'
<1>1. /\ search.at = "dense" /\ search \in SearchRecords /\ SearchTyped /\ ToRead /\ LegSoFar(search.dense)
      /\ search.sparse = <<>> /\ search.dense \in Seq(SearchRows) /\ search.todo \in Seq(STRING)
      /\ UNCHANGED <<corpus, changes>> /\ search.mode # "sparse" /\ search.modeUsed = search.mode
      /\ search.kinds \in KindSets /\ search.mode \in Modes
  BY DEF Searches!DenseKind, SearchInv, SearchTyped, SearchRecords, LegsInv, ModeInv, Asked, ReadPoints
<1>2. PICK near \in Searches!Nearest(Head(search.todo)) :
         LET rest == Tail(search.todo)
             all == search.dense \o Searches!DenseRows(near)
             leg == Searches!Cut(Searches!SliceStable(all, Searches!ByScore), Searches!Kept)
         IN  search' = IF rest # <<>> THEN [search EXCEPT !.todo = rest, !.dense = all]
                       ELSE [search EXCEPT !.at = Searches!AfterDense(leg), !.todo = search.kinds,
                                           !.dense = leg, !.denseRan = TRUE]
  BY DEF Searches!DenseKind
<1> DEFINE rest == Tail(search.todo)
           all == search.dense \o Searches!DenseRows(near)
           sorted == Searches!SliceStable(all, Searches!ByScore)
           leg == Searches!Cut(sorted, Searches!Kept)
<1>3. KindRows(Searches!DenseRows(near), Head(search.todo))
  BY <1>1, DenseRowsOfKind
<1>4. /\ all \in Seq(SearchRows) /\ LegOf(all)
      /\ \A i \in DOMAIN all : KindOf[all[i].key] \notin Searches!Range(rest)
  BY <1>1, <1>3, LegGrows
<1>5. search.todo # <<>> /\ NoTwice(search.todo)
  BY <1>1 DEF ToRead
<1>6. rest \in Seq(STRING) /\ NoTwice(rest) /\ Searches!Range(rest) \subseteq Searches!Range(search.todo)
  BY <1>1, <1>5, KindsLeft
<1> HIDE DEF all
<1>7. Rearranged(sorted, all)
  BY <1>4, SortedByScore DEF LegOf
<1> HIDE DEF sorted
<1>8. leg \in Seq(SearchRows) /\ LegRead(leg)
  BY <1>1, <1>4, <1>7, LegEnds
<1>9. search' = IF rest # <<>> THEN [search EXCEPT !.todo = rest, !.dense = all]
                ELSE [search EXCEPT !.at = Searches!AfterDense(leg), !.todo = search.kinds,
                                    !.dense = leg, !.denseRan = TRUE]
  BY <1>2 DEF all, sorted
<1> HIDE DEF leg, rest
<1>10. CASE rest # <<>>
  <2>1. search' = [search EXCEPT !.todo = rest, !.dense = all]
    BY <1>9, <1>10
  <2>2. search' \in SearchRecords /\ SameRequest /\ search'.at = "dense" /\ search'.todo = rest /\ search'.dense = all
        /\ search'.sparse = <<>> /\ search'.denseRan = search.denseRan
    BY <1>1, <1>4, <1>6, <2>1 DEF SearchRecords, SameRequest
  <2>3. SearchTyped' /\ Asked'
    BY <1>1, <2>2 DEF SearchInv, SearchTyped, Asked, SameRequest
  <2>4. ToRead'
    BY <1>1, <1>6, <1>10, <2>2 DEF ToRead, SameRequest
  <2>5. LegSoFar(search.dense)'
    BY <1>4, <2>2, LegStays DEF LegSoFar
  <2>6. LegsInv' /\ ModeInv' /\ Searches!ResultsSound'
    BY <1>1, <2>2, <2>4, <2>5 DEF LegsInv, ModeInv, SearchInv, SameRequest, Searches!ResultsSound
  <2> QED
    BY <2>3, <2>6 DEF SearchInv
<1>11. CASE rest = <<>>
  <2> DEFINE at == Searches!AfterDense(leg)
  <2>1. search' = [search EXCEPT !.at = at, !.todo = search.kinds, !.dense = leg, !.denseRan = TRUE]
    BY <1>9, <1>11
  <2>2. \/ at = "respond" /\ search.mode = "dense"
        \/ at \in {"coverage", "sparse"} /\ search.mode = "hybrid"
    BY <1>1 DEF Searches!AfterDense, Modes
  <2> HIDE DEF at
  <2>3. search.kinds \in Seq(STRING) /\ search.kinds # <<>> /\ NoTwice(search.kinds) /\ search.topK \in Nat
    BY <1>1, KindSequences DEF SearchRecords
  <2>4. search' \in SearchRecords /\ SameRequest /\ search'.at = at /\ search'.todo = search.kinds /\ search'.dense = leg
        /\ search'.sparse = <<>> /\ search'.denseRan = TRUE
    BY <1>1, <1>8, <2>1, <2>2, <2>3 DEF SearchRecords, SameRequest, ReadPoints
  <2>5. SearchTyped' /\ Asked'
    BY <1>1, <2>4 DEF SearchInv, SearchTyped, Asked, SameRequest
  <2>6. ToRead'
    BY <2>3, <2>4 DEF ToRead, SameRequest
  <2>7. LegRead(search.dense)'
    BY <1>8, <2>4, LegStays DEF LegRead, SameRequest, Searches!Kept
  <2>8. (LegSoFar(<<>>) /\ (search.topK \in Nat => LegRead(<<>>)) /\ <<>> \in Seq(SearchRows))'
    BY EmptyLeg, PTL
  <2>9. LegsInv'
    BY <2>2, <2>3, <2>4, <2>6, <2>7, <2>8 DEF LegsInv, SameRequest
  <2>10. ModeInv' /\ Searches!ResultsSound'
    BY <1>1, <2>2, <2>4 DEF ModeInv, SearchInv, SameRequest, Searches!ResultsSound
  <2> QED
    BY <2>5, <2>9, <2>10 DEF SearchInv
<1> QED
  BY <1>10, <1>11

LEMMA SearchSparseKind == ASSUME SearchInv, Searches!SparseKind PROVE SearchInv'
<1>1. /\ search.at = "sparse" /\ search \in SearchRecords /\ SearchTyped /\ ToRead /\ LegSoFar(search.sparse)
      /\ LegRead(search.dense) /\ search.sparse \in Seq(SearchRows) /\ search.todo \in Seq(STRING)
      /\ UNCHANGED <<corpus, changes>> /\ search.kinds \in KindSets /\ search.mode \in Modes
  BY DEF Searches!SparseKind, SearchInv, SearchTyped, SearchRecords, LegsInv, ModeInv, Asked, ReadPoints
<1> DEFINE rest == Tail(search.todo)
           all == search.sparse \o Searches!SparseRows(Head(search.todo))
           sorted == Searches!SliceStable(all, Searches!ByRank)
           leg == Searches!Cut(sorted, Searches!Kept)
<1>2. search' = IF rest # <<>> THEN [search EXCEPT !.todo = rest, !.sparse = all]
                ELSE [search EXCEPT !.at = "respond", !.sparse = leg]
  BY DEF Searches!SparseKind
<1>3. KindRows(Searches!SparseRows(Head(search.todo)), Head(search.todo))
  BY <1>1, SparseRowsOfKind
<1>4. /\ all \in Seq(SearchRows) /\ LegOf(all)
      /\ \A i \in DOMAIN all : KindOf[all[i].key] \notin Searches!Range(rest)
  BY <1>1, <1>3, LegGrows
<1>5. search.todo # <<>> /\ NoTwice(search.todo)
  BY <1>1 DEF ToRead
<1>6. rest \in Seq(STRING) /\ NoTwice(rest) /\ Searches!Range(rest) \subseteq Searches!Range(search.todo)
  BY <1>1, <1>5, KindsLeft
<1> HIDE DEF all
<1>7. Rearranged(sorted, all)
  BY <1>4, SortedByRank DEF LegOf
<1> HIDE DEF sorted
<1>8. leg \in Seq(SearchRows) /\ LegRead(leg)
  BY <1>1, <1>4, <1>7, LegEnds
<1> HIDE DEF leg, rest
<1>9. CASE rest # <<>>
  <2>1. search' = [search EXCEPT !.todo = rest, !.sparse = all]
    BY <1>2, <1>9
  <2>2. search' \in SearchRecords /\ SameRequest /\ search'.at = "sparse" /\ search'.todo = rest /\ search'.sparse = all
        /\ search'.dense = search.dense /\ search'.denseRan = search.denseRan
    BY <1>1, <1>4, <1>6, <2>1 DEF SearchRecords, SameRequest
  <2>3. SearchTyped' /\ Asked'
    BY <1>1, <2>2 DEF SearchInv, SearchTyped, Asked, SameRequest
  <2>4. ToRead'
    BY <1>1, <1>6, <1>9, <2>2 DEF ToRead, SameRequest
  <2>5. LegSoFar(search.sparse)' /\ LegRead(search.dense)'
    BY <1>1, <1>4, <2>2, LegStays DEF LegSoFar, LegRead, SameRequest, Searches!Kept
  <2>6. LegsInv' /\ ModeInv' /\ Searches!ResultsSound'
    BY <1>1, <2>2, <2>4, <2>5 DEF LegsInv, ModeInv, SearchInv, SameRequest, Searches!ResultsSound
  <2> QED
    BY <2>3, <2>6 DEF SearchInv
<1>10. CASE rest = <<>>
  <2>1. search' = [search EXCEPT !.at = "respond", !.sparse = leg]
    BY <1>2, <1>10
  <2>2. search' \in SearchRecords /\ SameRequest /\ search'.at = "respond" /\ search'.sparse = leg
        /\ search'.dense = search.dense /\ search'.denseRan = search.denseRan
    BY <1>1, <1>8, <2>1 DEF SearchRecords, SameRequest
  <2>3. SearchTyped' /\ Asked'
    BY <1>1, <2>2 DEF SearchInv, SearchTyped, Asked, SameRequest
  <2>4. LegRead(search.sparse)' /\ LegRead(search.dense)'
    BY <1>1, <1>8, <2>2, LegStays DEF LegRead, SameRequest, Searches!Kept
  <2>5. LegsInv' /\ ModeInv' /\ Searches!ResultsSound'
    BY <1>1, <2>2, <2>4 DEF LegsInv, ModeInv, SearchInv, SameRequest, ReadPoints, Searches!ResultsSound
  <2> QED
    BY <2>3, <2>5 DEF SearchInv
<1> QED
  BY <1>9, <1>10

----------------------------------------------------------------------------
(* The answer of a search                                                   *)

LEMMA PlaceOfKey ==
    ASSUME NEW s \in Seq(SearchRows), KeysApart(s)
    PROVE  /\ \A i \in DOMAIN s : Searches!KeyPos(s, s[i].key) = i /\ Searches!Has(s, s[i].key) /\ s[i].key \in Searches!KeysOf(s)
           /\ \A d : d \in Searches!KeysOf(s) <=> Searches!Has(s, d)
           /\ \A d : Searches!Has(s, d) => Searches!KeyPos(s, d) \in DOMAIN s /\ s[Searches!KeyPos(s, d)].key = d
<1>1. \A d : d \in Searches!KeysOf(s) <=> Searches!Has(s, d)
  BY DEF Searches!KeysOf, Searches!Has
<1>2. ASSUME NEW d, Searches!Has(s, d) PROVE Searches!KeyPos(s, d) \in DOMAIN s /\ s[Searches!KeyPos(s, d)].key = d
  <2>1. \E i \in DOMAIN s : s[i].key = d
    BY <1>2 DEF Searches!Has
  <2> QED
    BY <2>1 DEF Searches!KeyPos
<1>3. ASSUME NEW i \in DOMAIN s
      PROVE  Searches!KeyPos(s, s[i].key) = i /\ Searches!Has(s, s[i].key)
  <2>1. Searches!Has(s, s[i].key)
    BY DEF Searches!Has
  <2> QED
    BY <1>2, <2>1 DEF KeysApart
<1> QED
  BY <1>1, <1>2, <1>3

\* What is ranked before a row of a page is on the page before it.
RankedBy(t) == \A i, j \in DOMAIN t : Searches!ByScore(t[i], t[j]) <=> i < j
LEMMA PageIsFirst ==
    ASSUME NEW t \in Seq(SearchRows), KeysApart(t), RankedBy(t), NEW n \in Nat, NEW r, r = Searches!Cut(t, n),
           NEW i \in DOMAIN t, NEW j \in DOMAIN r, Searches!ByScore(t[i], r[j])
    PROVE  t[i].key \in Searches!KeysOf(r) /\ Searches!KeyPos(r, t[i].key) < Searches!KeyPos(r, r[j].key)
<1>1. r \in Seq(SearchRows) /\ KeysApart(r) /\ \A k \in DOMAIN r : k \in DOMAIN t /\ r[k] = t[k]
  BY CutKeeps
<1>2. i < j
  BY <1>1 DEF RankedBy
<1>3. i \in DOMAIN r
  BY <1>1, <1>2
<1>4. r[i] = t[i]
  BY <1>1, <1>3
<1>5. Searches!KeyPos(r, r[i].key) = i /\ Searches!KeyPos(r, r[j].key) = j /\ r[i].key \in Searches!KeysOf(r)
  BY <1>1, <1>3, PlaceOfKey
<1> QED
  BY <1>2, <1>4, <1>5

\* One leg: a better score comes first.
LEMMA LegRanked ==
    ASSUME NEW s \in Seq(SearchRows), KeysApart(s), NEW t, t = Searches!SliceStable(s, Searches!ByScore),
           NEW n \in Nat, NEW r, r = Searches!Cut(t, n),
           NEW x \in Searches!KeysOf(s), NEW y \in Searches!KeysOf(r),
           Searches!Has(s, y) => s[Searches!KeyPos(s, x)].score > s[Searches!KeyPos(s, y)].score
    PROVE  x \in Searches!KeysOf(r) /\ Searches!KeyPos(r, x) < Searches!KeyPos(r, y)
<1>1. Rearranged(t, s) /\ RankedBy(t)
  BY SortedByScore DEF RankedBy
<1>2. t \in Seq(SearchRows) /\ KeysApart(t)
  BY <1>1 DEF Rearranged
<1>3. r \in Seq(SearchRows) /\ KeysApart(r) /\ \A k \in DOMAIN r : k \in DOMAIN t /\ r[k] = t[k]
  BY <1>2, CutKeeps
<1>4. PICK j \in DOMAIN r : r[j].key = y
  BY DEF Searches!KeysOf
<1>5. PICK b \in DOMAIN s : t[j] = s[b]
  BY <1>1, <1>3, <1>4 DEF Rearranged
<1>6. r[j] = s[b] /\ s[b].key = y
  BY <1>3, <1>4, <1>5
<1>7. Searches!KeyPos(s, y) = b /\ Searches!Has(s, y)
  BY <1>6, PlaceOfKey
<1>8. PICK a \in DOMAIN s : s[a].key = x
  BY DEF Searches!KeysOf
<1>9. Searches!KeyPos(s, x) = a
  BY <1>8, PlaceOfKey
<1>10. PICK i \in DOMAIN t : t[i] = s[a]
  BY <1>1 DEF Rearranged
<1>11. Searches!ByScore(t[i], r[j])
  BY <1>6, <1>7, <1>9, <1>10 DEF Searches!ByScore
<1> QED
  BY <1>1, <1>2, <1>4, <1>8, <1>10, <1>11, PageIsFirst

\* A place has some share.
LEMMA ShareOfPlace ==
    ASSUME NEW D \in Nat \ {0}, NEW m \in Nat \ {0}, D % m = 0
    PROVE  D \div m \in Nat /\ D \div m > 0
<1> DEFINE a == D \div m
<1>1. a \in Nat /\ D = m * a
  OBVIOUS
<1> HIDE DEF a
<1>2. a > 0
  BY <1>1
<1> QED
  BY <1>1, <1>2 DEF a

\* The share of a place is greater than that of a later one: both divide the denominator.
LEMMA SharesFall ==
    ASSUME NEW D \in Nat \ {0}, NEW m \in Nat \ {0}, NEW n \in Nat \ {0}, m < n, D % m = 0, D % n = 0
    PROVE  D \div m \in Nat /\ D \div n \in Nat /\ D \div m > D \div n /\ D \div n > 0
<1> DEFINE a == D \div m
           b == D \div n
<1>1. a \in Nat /\ b \in Nat /\ D = m * a /\ D = n * b
  OBVIOUS
<1> HIDE DEF a, b
<1>2. a > 0 /\ b > 0
  BY <1>1
<1>3. a > b
  <2> SUFFICES ASSUME a <= b PROVE FALSE
    BY <1>1
  <2>1. n * a <= n * b
    BY <1>1
  <2>2. m * a < n * a
    BY <1>1, <1>2
  <2>3. n * a \in Nat
    BY <1>1
  <2> QED
    BY <1>1, <2>1, <2>2, <2>3
<1> QED
  BY <1>1, <1>2, <1>3 DEF a, b

\* A leg as fusion counts it: a place is worth its share, and no place is worth none.
LEMMA LegShares ==
    ASSUME NEW n \in TopKs, NEW s \in Seq(SearchRows), KeysApart(s), Len(s) <= Candidates * n, NEW x, NEW y
    PROVE  /\ Searches!Share(s, x) \in Nat /\ Searches!Share(s, y) \in Nat
           /\ ~Searches!Has(s, y) => Searches!Share(s, y) = 0
           /\ Searches!Has(s, x) => Searches!Share(s, x) > 0
           /\ Searches!Has(s, x) /\ Searches!Has(s, y) /\ Searches!KeyPos(s, x) < Searches!KeyPos(s, y)
                => Searches!Share(s, x) > Searches!Share(s, y)
<1> DEFINE p == Searches!KeyPos(s, x)
           q == Searches!KeyPos(s, y)
<1>1. n \in Nat /\ Candidates \in Nat /\ Candidates * n \in Nat /\ Denominator \in Nat \ {0}
  BY SearchAssumption
<1>2. \A k \in 1 .. Candidates * n : Denominator % (60 + k) = 0
  BY SearchAssumption
<1>3. DOMAIN s = 1 .. Len(s) /\ Len(s) \in Nat
  OBVIOUS
<1>4. DOMAIN s \subseteq 1 .. Candidates * n
  BY <1>1, <1>3
<1>5. ASSUME NEW k \in DOMAIN s
      PROVE  60 + k \in Nat \ {0} /\ Denominator % (60 + k) = 0
  BY <1>1, <1>2, <1>3, <1>4
<1>6. ASSUME NEW k \in DOMAIN s
      PROVE  Denominator \div (60 + k) \in Nat /\ Denominator \div (60 + k) > 0
  <2>1. 60 + k \in Nat \ {0} /\ Denominator % (60 + k) = 0
    BY <1>5
  <2> DEFINE m == 60 + k
  <2>2. m \in Nat \ {0} /\ Denominator % m = 0
    BY <2>1
  <2> HIDE DEF m
  <2>3. Denominator \div m \in Nat /\ Denominator \div m > 0
    BY <1>1, <2>2, ShareOfPlace
  <2> QED
    BY <2>3 DEF m
<1>7. /\ Searches!Has(s, x) => p \in DOMAIN s
      /\ Searches!Has(s, y) => q \in DOMAIN s
  BY PlaceOfKey
<1> HIDE DEF p, q
<1>8. /\ Searches!Share(s, x) = IF Searches!Has(s, x) THEN Denominator \div (60 + p) ELSE 0
      /\ Searches!Share(s, y) = IF Searches!Has(s, y) THEN Denominator \div (60 + q) ELSE 0
  BY DEF Searches!Share, p, q
<1>9. ASSUME Searches!Has(s, x), Searches!Has(s, y), p < q
      PROVE  Denominator \div (60 + p) > Denominator \div (60 + q)
  <2>1. p \in DOMAIN s /\ q \in DOMAIN s
    BY <1>7, <1>9
  <2>2. 60 + p < 60 + q
    BY <1>3, <1>9, <2>1
  <2>3. /\ 60 + p \in Nat \ {0} /\ Denominator % (60 + p) = 0
        /\ 60 + q \in Nat \ {0} /\ Denominator % (60 + q) = 0
    BY <1>5, <2>1
  <2> QED
    BY <1>1, <2>2, <2>3, SharesFall
<1> QED
  BY <1>6, <1>7, <1>8, <1>9 DEF p, q

\* The legs that count.
Counted(dense, sparse) ==
    {s \in {dense, sparse} : \/ s = dense /\ Alpha > 0
                             \/ s = sparse /\ Alpha < 10}
BeatsByPlace(s, x, y) ==
    Searches!Has(s, x) /\ (Searches!Has(s, y) => Searches!KeyPos(s, x) < Searches!KeyPos(s, y))
FusedScore(dense, sparse, d) == Alpha * Searches!Share(dense, d) + (10 - Alpha) * Searches!Share(sparse, d)

LEMMA WeightedSums ==
    ASSUME NEW w \in Nat, NEW a \in Nat, NEW b \in Nat, w > 0 => a >= b
    PROVE  w * a \in Nat /\ w * b \in Nat /\ w * a >= w * b /\ (w > 0 /\ a > b => w * a > w * b)
<1>1. w * a \in Nat /\ w * b \in Nat
  OBVIOUS
<1>2. CASE w = 0
  BY <1>2
<1>3. CASE w > 0
  <2>1. w * a >= w * b
    BY <1>3
  <2>2. a > b => w * a > w * b
    BY <1>3
  <2> QED
    BY <1>1, <2>1, <2>2
<1> QED
  BY <1>2, <1>3

\* What beats another document in every leg that counts and found the other scores more.
LEMMA FusionRespectsLegs ==
    ASSUME NEW n \in TopKs, NEW dense \in Seq(SearchRows), KeysApart(dense), Len(dense) <= Candidates * n,
           NEW sparse \in Seq(SearchRows), KeysApart(sparse), Len(sparse) <= Candidates * n,
           NEW x, NEW y, \E s \in Counted(dense, sparse) : Searches!Has(s, x),
           \A s \in Counted(dense, sparse) : Searches!Has(s, y) => BeatsByPlace(s, x, y)
    PROVE  FusedScore(dense, sparse, x) > FusedScore(dense, sparse, y)
<1> DEFINE a == Searches!Share(dense, x)
           b == Searches!Share(dense, y)
           c == Searches!Share(sparse, x)
           d == Searches!Share(sparse, y)
           v == 10 - Alpha
<1>1. Alpha \in Nat /\ v \in Nat /\ v = 10 - Alpha
  BY SearchAssumption
<1>2. /\ a \in Nat /\ b \in Nat /\ (~Searches!Has(dense, y) => b = 0) /\ (Searches!Has(dense, x) => a > 0)
      /\ Searches!Has(dense, x) /\ Searches!Has(dense, y) /\ Searches!KeyPos(dense, x) < Searches!KeyPos(dense, y) => a > b
  BY LegShares
<1>3. /\ c \in Nat /\ d \in Nat /\ (~Searches!Has(sparse, y) => d = 0) /\ (Searches!Has(sparse, x) => c > 0)
      /\ Searches!Has(sparse, x) /\ Searches!Has(sparse, y) /\ Searches!KeyPos(sparse, x) < Searches!KeyPos(sparse, y) => c > d
  BY LegShares
<1>4. (Alpha > 0 => dense \in Counted(dense, sparse)) /\ (v > 0 => sparse \in Counted(dense, sparse))
  BY <1>1 DEF Counted
<1> HIDE DEF a, b, c, d, v
<1>5. Alpha > 0 => a >= b /\ (Searches!Has(dense, x) => a > b)
  BY <1>1, <1>2, <1>4 DEF BeatsByPlace
<1>6. v > 0 => c >= d /\ (Searches!Has(sparse, x) => c > d)
  BY <1>1, <1>3, <1>4 DEF BeatsByPlace
<1>7. (Alpha > 0 /\ a > b) \/ (v > 0 /\ c > d)
  <2>1. PICK s \in Counted(dense, sparse) : Searches!Has(s, x)
    OBVIOUS
  <2>2. (s = dense /\ Alpha > 0) \/ (s = sparse /\ v > 0)
    BY <1>1, <2>1 DEF Counted
  <2> QED
    BY <1>5, <1>6, <2>1, <2>2
<1>8. Alpha * a \in Nat /\ Alpha * b \in Nat /\ Alpha * a >= Alpha * b /\ (Alpha > 0 /\ a > b => Alpha * a > Alpha * b)
  BY <1>1, <1>2, <1>5, WeightedSums
<1>9. v * c \in Nat /\ v * d \in Nat /\ v * c >= v * d /\ (v > 0 /\ c > d => v * c > v * d)
  BY <1>1, <1>3, <1>6, WeightedSums
<1>10. FusedScore(dense, sparse, x) = Alpha * a + v * c /\ FusedScore(dense, sparse, y) = Alpha * b + v * d
  BY DEF FusedScore, a, b, c, d, v
<1> DEFINE aa == Alpha * a
           bb == Alpha * b
           cc == v * c
           dd == v * d
<1>11. aa \in Nat /\ bb \in Nat /\ cc \in Nat /\ dd \in Nat /\ aa >= bb /\ cc >= dd /\ (aa > bb \/ cc > dd)
  BY <1>7, <1>8, <1>9
<1> HIDE DEF aa, bb, cc, dd
<1>12. aa + cc > bb + dd
  BY <1>11
<1> QED
  BY <1>10, <1>12 DEF aa, bb, cc, dd

LEMMA SortRanks ==
    \A s, t : (s \in Seq(SearchRows) /\ KeysApart(s) /\ t = Searches!SliceStable(s, Searches!ByScore))
                => Rearranged(t, s) /\ RankedBy(t)
<1> SUFFICES ASSUME NEW s \in Seq(SearchRows), KeysApart(s), NEW t, t = Searches!SliceStable(s, Searches!ByScore)
             PROVE  Rearranged(t, s) /\ RankedBy(t)
  OBVIOUS
<1> QED
  BY SortedByScore DEF RankedBy

\* The fused list: every document of a leg once, by its fused score, cut.
FusedList(dense, sparse) ==
    Searches!OrderBy(Scored(Searches!KeysOf(dense) \union Searches!KeysOf(sparse),
                            [d \in Searches!KeysOf(dense) \union Searches!KeysOf(sparse) |-> FusedScore(dense, sparse, d)]),
                     Searches!ByScore)
LEMMA FuseCuts == \A dense, sparse : Searches!Fuse(dense, sparse) = Searches!Cut(FusedList(dense, sparse), Searches!Kept)
<1> SUFFICES ASSUME NEW dense, NEW sparse
             PROVE  Searches!Fuse(dense, sparse) = Searches!Cut(FusedList(dense, sparse), Searches!Kept)
  OBVIOUS
<1> DEFINE K == Searches!KeysOf(dense) \union Searches!KeysOf(sparse)
           A == {[key |-> d, score |-> Alpha * Searches!Share(dense, d) + (10 - Alpha) * Searches!Share(sparse, d)] : d \in K}
           B == Scored(K, [d \in K |-> FusedScore(dense, sparse, d)])
<1>1. A = B
  BY DEF Scored, FusedScore
<1>2. Searches!Fuse(dense, sparse) = Searches!Cut(Searches!OrderBy(A, Searches!ByScore), Searches!Kept)
  BY DEF Searches!Fuse
<1>3. FusedList(dense, sparse) = Searches!OrderBy(B, Searches!ByScore)
  BY DEF FusedList
<1> HIDE DEF A, B
<1> QED
  BY <1>1, <1>2, <1>3

RanksFused(dense, sparse, l) ==
    /\ l \in Seq(SearchRows) /\ KeysApart(l) /\ RankedBy(l)
    /\ \A i \in DOMAIN l : /\ l[i].score = FusedScore(dense, sparse, l[i].key)
                           /\ l[i].key \in Searches!KeysOf(dense) \union Searches!KeysOf(sparse)
    /\ \A x \in Searches!KeysOf(dense) \union Searches!KeysOf(sparse) : \E i \in DOMAIN l : l[i].key = x
LEMMA FusedListRanked ==
    ASSUME NEW n \in TopKs, NEW dense \in Seq(SearchRows), KeysApart(dense), Len(dense) <= Candidates * n,
           NEW sparse \in Seq(SearchRows), KeysApart(sparse), Len(sparse) <= Candidates * n,
           NEW l, l = FusedList(dense, sparse)
    PROVE  RanksFused(dense, sparse, l)
<1> DEFINE K == Searches!KeysOf(dense) \union Searches!KeysOf(sparse)
           f == [d \in K |-> FusedScore(dense, sparse, d)]
           S == Scored(K, f)
<1>1. K \in SUBSET RowIds
  <2>1. \A s \in Seq(SearchRows) : \A i \in DOMAIN s : s[i] \in SearchRows
    OBVIOUS
  <2> QED
    BY <2>1 DEF Searches!KeysOf, SearchRows
<1>2. ASSUME NEW d PROVE FusedScore(dense, sparse, d) \in Nat
  <2>1. Searches!Share(dense, d) \in Nat /\ Searches!Share(sparse, d) \in Nat
    BY LegShares
  <2>2. Alpha \in Nat /\ 10 - Alpha \in Nat
    BY SearchAssumption
  <2> QED
    BY <2>1, <2>2 DEF FusedScore
<1>3. f \in [K -> Nat] /\ \A d \in K : f[d] = FusedScore(dense, sparse, d)
  BY <1>2
<1>4. l = Searches!OrderBy(S, Searches!ByScore)
  BY DEF FusedList
<1>5. \A d \in K : \E x \in S : x.key = d
  <2>1. \A d \in K : [key |-> d, score |-> f[d]] \in S
    BY DEF Scored
  <2> HIDE DEF S, K, f
  <2>2. \A d \in K : [key |-> d, score |-> f[d]].key = d
    OBVIOUS
  <2> QED
    BY <2>1, <2>2
<1> HIDE DEF K, f
<1>6. RowsApart(S) /\ \A x \in S : x.key \in K /\ x.score = f[x.key]
  BY <1>1, <1>3, ScoredApart
<1> HIDE DEF S
<1>7. ListsOnce(l, S) /\ RankedBy(l)
  BY <1>4, <1>6, OrderedByScore DEF RankedBy
<1>8. /\ l \in Seq(SearchRows) /\ KeysApart(l) /\ \A i \in DOMAIN l : l[i] \in S
      /\ \A x \in S : \E i \in DOMAIN l : l[i] = x
  BY <1>7 DEF ListsOnce
<1>9. \A i \in DOMAIN l : l[i].score = FusedScore(dense, sparse, l[i].key) /\ l[i].key \in K
  BY <1>3, <1>6, <1>8
<1>10. \A x \in K : \E i \in DOMAIN l : l[i].key = x
  BY <1>5, <1>8
<1> QED
  BY <1>7, <1>8, <1>9, <1>10 DEF K, RanksFused

\* Both legs: what beats another in every leg that counts and found the other comes first.
LEMMA LegsRanked ==
    ASSUME NEW n \in TopKs, NEW dense \in Seq(SearchRows), KeysApart(dense), Len(dense) <= Candidates * n,
           NEW sparse \in Seq(SearchRows), KeysApart(sparse), Len(sparse) <= Candidates * n,
           NEW l, l = FusedList(dense, sparse), NEW c, c = Searches!Cut(l, Candidates * n),
           NEW t, t = Searches!SliceStable(c, Searches!ByScore), NEW r, r = Searches!Cut(t, n),
           NEW x, NEW y \in Searches!KeysOf(r), \E s \in Counted(dense, sparse) : Searches!Has(s, x),
           \A s \in Counted(dense, sparse) : Searches!Has(s, y) => BeatsByPlace(s, x, y)
    PROVE  x \in Searches!KeysOf(r) /\ Searches!KeyPos(r, x) < Searches!KeyPos(r, y)
<1>0. n \in Nat /\ Candidates * n \in Nat
  BY SearchAssumption
<1>1. /\ l \in Seq(SearchRows) /\ KeysApart(l) /\ RankedBy(l)
      /\ \A i \in DOMAIN l : l[i].score = FusedScore(dense, sparse, l[i].key)
      /\ \A d \in Searches!KeysOf(dense) \union Searches!KeysOf(sparse) : \E i \in DOMAIN l : l[i].key = d
  <2>1. RanksFused(dense, sparse, l)
    BY FusedListRanked
  <2> QED
    BY <2>1 DEF RanksFused
<1>2. /\ c \in Seq(SearchRows) /\ KeysApart(c) /\ \A i \in DOMAIN c : i \in DOMAIN l /\ c[i] = l[i]
  BY <1>0, <1>1, CutKeeps
<1>3. Rearranged(t, c) /\ RankedBy(t)
  BY <1>2, SortRanks
<1>4. t \in Seq(SearchRows) /\ KeysApart(t)
  BY <1>3 DEF Rearranged
<1>5. r \in Seq(SearchRows) /\ KeysApart(r) /\ \A k \in DOMAIN r : k \in DOMAIN t /\ r[k] = t[k]
  BY <1>0, <1>4, CutKeeps
<1>6. PICK j \in DOMAIN r : r[j].key = y
  BY DEF Searches!KeysOf
<1>7. PICK b \in DOMAIN c : t[j] = c[b]
  BY <1>3, <1>5, <1>6 DEF Rearranged
<1>8. b \in DOMAIN l /\ r[j] = l[b] /\ l[b].key = y
  BY <1>2, <1>5, <1>6, <1>7
<1>9. PICK a \in DOMAIN l : l[a].key = x
  <2>1. \E s \in {dense, sparse} : Searches!Has(s, x)
    BY DEF Counted
  <2>2. x \in Searches!KeysOf(dense) \union Searches!KeysOf(sparse)
    BY <2>1 DEF Searches!KeysOf, Searches!Has
  <2> QED
    BY <1>1, <2>2
<1>10. FusedScore(dense, sparse, x) > FusedScore(dense, sparse, y)
  BY FusionRespectsLegs
<1>11. l[a].score > l[b].score
  BY <1>1, <1>8, <1>9, <1>10
<1>12. Searches!ByScore(l[a], l[b])
  BY <1>11 DEF Searches!ByScore
<1>13. a < b
  BY <1>1, <1>8, <1>9, <1>12 DEF RankedBy
<1>14. a \in DOMAIN c /\ c[a] = l[a]
  BY <1>1, <1>2, <1>7, <1>9, <1>13
<1>15. PICK i \in DOMAIN t : t[i] = c[a]
  BY <1>3, <1>14 DEF Rearranged
<1>16. Searches!ByScore(t[i], r[j]) /\ t[i].key = x
  BY <1>8, <1>9, <1>12, <1>14, <1>15
<1> QED
  BY <1>0, <1>3, <1>4, <1>6, <1>15, <1>16, PageIsFirst

\* What ResultsSound says, of a list, the mode it was made in and its legs.
LegsFor(m, dense, sparse) ==
    CASE m = "dense" -> {dense} [] m = "sparse" -> {sparse} [] OTHER -> Counted(dense, sparse)
BeatsIn(m, s, x, y) ==
    /\ Searches!Has(s, x)
    /\ Searches!Has(s, y) => IF m = "hybrid" THEN Searches!KeyPos(s, x) < Searches!KeyPos(s, y)
                             ELSE s[Searches!KeyPos(s, x)].score > s[Searches!KeyPos(s, y)].score
Respects(m, legs, r) ==
    \A y \in Searches!KeysOf(r) : \A x : \A leg \in legs :
      (x \in Searches!KeysOf(leg) /\ x # y /\ \A s \in legs : Searches!Has(s, y) => BeatsIn(m, s, x, y))
        => x \in Searches!KeysOf(r) /\ Searches!KeyPos(r, x) < Searches!KeyPos(r, y)
LEMMA SoundAnswer ==
    /\ LegOf(search.results) /\ Len(search.results) <= search.topK
    /\ Respects(search.modeUsed, LegsFor(search.modeUsed, search.dense, search.sparse), search.results)
    => Searches!ResultsSound
<1> SUFFICES ASSUME LegOf(search.results), Len(search.results) <= search.topK,
                    Respects(search.modeUsed, LegsFor(search.modeUsed, search.dense, search.sparse), search.results)
             PROVE  Searches!ResultsSound
  OBVIOUS
<1> DEFINE m == search.modeUsed
           r == search.results
           legs == LegsFor(m, search.dense, search.sparse)
           legs2 == CASE search.modeUsed = "dense" -> {search.dense}
                      [] search.modeUsed = "sparse" -> {search.sparse}
                      [] OTHER -> {s \in {search.dense, search.sparse} :
                                      \/ s = search.dense /\ Alpha > 0
                                      \/ s = search.sparse /\ Alpha < 10}
<1>1. legs2 = legs
  BY DEF LegsFor, Counted
<1>2. \A s, x, y : Searches!Beats(s, x, y) <=> BeatsIn(m, s, x, y)
  BY DEF Searches!Beats, BeatsIn
<1>3. /\ \A i \in DOMAIN r : r[i].key \in search.scope /\ KindOf[r[i].key] \in Searches!Range(search.kinds)
      /\ \A i, j \in DOMAIN r : r[i].key = r[j].key => i = j
  BY DEF LegOf, KeysApart
<1> HIDE DEF legs, legs2, m
<1>4. ASSUME NEW y \in Searches!KeysOf(r), NEW x \in UNION {Searches!KeysOf(s) : s \in legs},
             x # y, \A s \in legs : Searches!Has(s, y) => Searches!Beats(s, x, y)
      PROVE  x \in Searches!KeysOf(r) /\ Searches!KeyPos(r, x) < Searches!KeyPos(r, y)
  <2>1. PICK leg \in legs : x \in Searches!KeysOf(leg)
    BY <1>4
  <2>2. Respects(m, legs, r)
    BY DEF m, legs
  <2> QED
    BY <1>2, <1>4, <2>1, <2>2 DEF Respects
<1>5. /\ Len(r) <= search.topK
      /\ \A i \in DOMAIN r : /\ r[i].key \in search.scope
                             /\ KindOf[r[i].key] \in Searches!Range(search.kinds)
      /\ \A i, j \in DOMAIN r : r[i].key = r[j].key => i = j
      /\ \A y \in Searches!KeysOf(r), x \in UNION {Searches!KeysOf(s) : s \in legs2} :
           (x # y /\ \A s \in legs2 : Searches!Has(s, y) => Searches!Beats(s, x, y))
             => x \in Searches!KeysOf(r) /\ Searches!KeyPos(r, x) < Searches!KeyPos(r, y)
  BY <1>1, <1>3, <1>4
<1> QED
  BY <1>5 DEF Searches!ResultsSound, legs2

\* An answer of one leg, and one of both.
LEMMA OneLegAnswer ==
    ASSUME NEW s \in Seq(SearchRows), KeysApart(s), NEW t, t = Searches!SliceStable(s, Searches!ByScore),
           NEW n \in Nat, NEW r, r = Searches!Cut(t, n), NEW m, m # "hybrid"
    PROVE  Respects(m, {s}, r)
<1> SUFFICES ASSUME NEW y \in Searches!KeysOf(r), NEW x \in Searches!KeysOf(s),
                    Searches!Has(s, y) => BeatsIn(m, s, x, y)
             PROVE  x \in Searches!KeysOf(r) /\ Searches!KeyPos(r, x) < Searches!KeyPos(r, y)
  BY DEF Respects
<1>1. Searches!Has(s, y) => s[Searches!KeyPos(s, x)].score > s[Searches!KeyPos(s, y)].score
  BY DEF BeatsIn
<1> QED
  BY <1>1, LegRanked

LEMMA FusedAnswer ==
    ASSUME NEW n \in TopKs, NEW dense \in Seq(SearchRows), KeysApart(dense), Len(dense) <= Candidates * n,
           NEW sparse \in Seq(SearchRows), KeysApart(sparse), Len(sparse) <= Candidates * n,
           NEW l, l = FusedList(dense, sparse), NEW c, c = Searches!Cut(l, Candidates * n),
           NEW t, t = Searches!SliceStable(c, Searches!ByScore), NEW r, r = Searches!Cut(t, n)
    PROVE  Respects("hybrid", Counted(dense, sparse), r)
<1> SUFFICES ASSUME NEW y \in Searches!KeysOf(r), NEW x, NEW leg \in Counted(dense, sparse), x \in Searches!KeysOf(leg),
                    \A s \in Counted(dense, sparse) : Searches!Has(s, y) => BeatsIn("hybrid", s, x, y)
             PROVE  x \in Searches!KeysOf(r) /\ Searches!KeyPos(r, x) < Searches!KeyPos(r, y)
  BY DEF Respects
<1>1. \E s \in Counted(dense, sparse) : Searches!Has(s, x)
  BY DEF Searches!Has, Searches!KeysOf
<1>2. \A s \in Counted(dense, sparse) : Searches!Has(s, y) => BeatsByPlace(s, x, y)
  BY DEF BeatsIn, BeatsByPlace
<1> QED
  BY <1>1, <1>2, LegsRanked

\* The fused rows are of the documents of the legs.
LEMMA FusedLeg ==
    ASSUME SearchTyped, search.topK \in TopKs, LegRead(search.dense), LegRead(search.sparse),
           NEW f, f = Searches!Fuse(search.dense, search.sparse)
    PROVE  f \in Seq(SearchRows) /\ LegOf(f)
<1> DEFINE l == FusedList(search.dense, search.sparse)
<1>1. /\ search.dense \in Seq(SearchRows) /\ KeysApart(search.dense) /\ Len(search.dense) <= Candidates * search.topK
      /\ search.sparse \in Seq(SearchRows) /\ KeysApart(search.sparse) /\ Len(search.sparse) <= Candidates * search.topK
  BY DEF SearchTyped, SearchRecords, LegRead, LegOf, Searches!Kept
<1>2. RanksFused(search.dense, search.sparse, l)
  BY <1>1, FusedListRanked
<1>3. Searches!Kept \in Nat /\ f = Searches!Cut(l, Searches!Kept)
  BY KeptTyped, FuseCuts
<1> HIDE DEF l
<1>4. /\ l \in Seq(SearchRows) /\ KeysApart(l)
      /\ \A i \in DOMAIN l : l[i].key \in Searches!KeysOf(search.dense) \union Searches!KeysOf(search.sparse)
  BY <1>2 DEF RanksFused
<1>5. /\ f \in Seq(SearchRows) /\ KeysApart(f) /\ \A i \in DOMAIN f : i \in DOMAIN l /\ f[i] = l[i]
  BY <1>3, <1>4, CutKeeps
<1>6. \A d \in Searches!KeysOf(search.dense) \union Searches!KeysOf(search.sparse) :
         d \in search.scope /\ KindOf[d] \in Searches!Range(search.kinds)
  BY DEF LegRead, LegOf, Searches!KeysOf
<1> QED
  BY <1>4, <1>5, <1>6 DEF LegOf

LEMMA SearchRespond == ASSUME SearchInv, Searches!Respond PROVE SearchInv'
<1>1. /\ search.at = "respond" /\ search \in SearchRecords /\ SearchTyped /\ LegRead(search.dense) /\ LegRead(search.sparse)
      /\ search.dense \in Seq(SearchRows) /\ search.sparse \in Seq(SearchRows)
      /\ search.topK \in TopKs /\ search.topK \in Nat /\ search.mode \in Modes
      /\ UNCHANGED <<corpus, changes>>
  BY DEF Searches!Respond, SearchInv, SearchTyped, SearchRecords, LegsInv, Asked
<1>2. search.modeUsed \in Modes
  BY <1>1 DEF SearchInv, ModeInv, Modes
<1> DEFINE fused == CASE search.modeUsed = "dense" -> search.dense
                      [] search.modeUsed = "sparse" -> search.sparse
                      [] OTHER -> Searches!Fuse(search.dense, search.sparse)
           t == Searches!SliceStable(fused, Searches!ByScore)
           r == Searches!Cut(t, search.topK)
           legs == LegsFor(search.modeUsed, search.dense, search.sparse)
<1>3. search' = [search EXCEPT !.at = "answered", !.results = r]
  BY DEF Searches!Respond
<1>4. fused \in Seq(SearchRows) /\ LegOf(fused)
  <2>1. LegOf(search.dense) /\ LegOf(search.sparse)
    BY <1>1 DEF LegRead
  <2>2. Searches!Fuse(search.dense, search.sparse) \in Seq(SearchRows) /\ LegOf(Searches!Fuse(search.dense, search.sparse))
    BY <1>1, FusedLeg
  <2>3. CASE search.modeUsed = "dense"
    <3>1. fused = search.dense
      BY <2>3
    <3> HIDE DEF fused
    <3> QED
      BY <1>1, <2>1, <3>1
  <2>4. CASE search.modeUsed = "sparse"
    <3>1. fused = search.sparse
      BY <2>4
    <3> HIDE DEF fused
    <3> QED
      BY <1>1, <2>1, <3>1
  <2>5. CASE search.modeUsed = "hybrid"
    <3>1. fused = Searches!Fuse(search.dense, search.sparse)
      BY <2>5
    <3> HIDE DEF fused
    <3> QED
      BY <2>2, <3>1
  <2> HIDE DEF fused
  <2> QED
    BY <1>2, <2>3, <2>4, <2>5 DEF Modes
<1>5. Respects(search.modeUsed, legs, r)
  <2>0. KeysApart(search.dense) /\ KeysApart(search.sparse)
    BY <1>1 DEF LegRead, LegOf
  <2>1. CASE search.modeUsed = "dense"
    <3>1. fused = search.dense /\ legs = {search.dense}
      BY <2>1 DEF LegsFor
    <3> HIDE DEF fused, legs
    <3>2. Respects("dense", {search.dense}, r)
      BY <1>1, <2>0, <3>1, OneLegAnswer
    <3> QED
      BY <2>1, <3>1, <3>2
  <2>2. CASE search.modeUsed = "sparse"
    <3>1. fused = search.sparse /\ legs = {search.sparse}
      BY <2>2 DEF LegsFor
    <3> HIDE DEF fused, legs
    <3>2. Respects("sparse", {search.sparse}, r)
      BY <1>1, <2>0, <3>1, OneLegAnswer
    <3> QED
      BY <2>2, <3>1, <3>2
  <2>3. CASE search.modeUsed = "hybrid"
    <3> DEFINE l == FusedList(search.dense, search.sparse)
    <3>1. fused = Searches!Cut(l, Candidates * search.topK) /\ legs = Counted(search.dense, search.sparse)
      BY <2>3, FuseCuts DEF LegsFor, Searches!Kept
    <3> HIDE DEF fused, legs
    <3>2. Len(search.dense) <= Candidates * search.topK /\ Len(search.sparse) <= Candidates * search.topK
      BY <1>1 DEF LegRead, Searches!Kept
    <3>3. Respects("hybrid", Counted(search.dense, search.sparse), r)
      BY <1>1, <2>0, <3>1, <3>2, FusedAnswer
    <3> QED
      BY <2>3, <3>1, <3>3
  <2> QED
    BY <1>2, <2>1, <2>2, <2>3 DEF Modes
<1> HIDE DEF fused
<1>6. Rearranged(t, fused)
  BY <1>4, SortRanks DEF LegOf
<1> HIDE DEF t
<1>7. t \in Seq(SearchRows) /\ KeysApart(t) /\ \A i \in DOMAIN t : \E k \in DOMAIN fused : t[i] = fused[k]
  BY <1>6 DEF Rearranged
<1>8. /\ r \in Seq(SearchRows) /\ KeysApart(r) /\ Len(r) <= search.topK
      /\ \A i \in DOMAIN r : i \in DOMAIN t /\ r[i] = t[i]
  BY <1>1, <1>7, CutKeeps
<1> HIDE DEF r
<1>9. LegOf(r)
  BY <1>4, <1>7, <1>8 DEF LegOf
<1>10. /\ search' \in SearchRecords /\ SameRequest /\ search'.at = "answered" /\ search'.results = r
       /\ search'.dense = search.dense /\ search'.sparse = search.sparse /\ search'.denseRan = search.denseRan
  BY <1>1, <1>3, <1>8 DEF SearchRecords, SameRequest
<1>11. SearchTyped' /\ Asked'
  BY <1>1, <1>10 DEF SearchInv, SearchTyped, Asked, SameRequest
<1>12. LegsInv'
  <2>1. LegRead(search.dense)' /\ LegRead(search.sparse)'
    BY <1>1, <1>10, LegStays DEF LegRead, SameRequest, Searches!Kept
  <2> QED
    BY <1>10, <2>1 DEF LegsInv, ReadPoints
<1>13. ModeInv'
  BY <1>1, <1>10 DEF ModeInv, SearchInv, SameRequest
<1>14. Searches!ResultsSound'
  <2>1. (/\ LegOf(search.results) /\ Len(search.results) <= search.topK
         /\ Respects(search.modeUsed, LegsFor(search.modeUsed, search.dense, search.sparse), search.results)
         => Searches!ResultsSound)'
    BY SoundAnswer, PTL
  <2>2. LegOf(search.results)' /\ (Len(search.results) <= search.topK)'
    BY <1>8, <1>9, <1>10 DEF LegOf, KeysApart, SameRequest
  <2>3. Respects(search.modeUsed, LegsFor(search.modeUsed, search.dense, search.sparse), search.results)'
    BY <1>5, <1>10 DEF SameRequest
  <2> QED
    BY <2>1, <2>2, <2>3
<1> QED
  BY <1>11, <1>12, <1>13, <1>14 DEF SearchInv

LEMMA SearchChange ==
    ASSUME SearchInv, NEW d \in RowIds, NEW new \in [sim : Grades, rank : Grades, active : BOOLEAN],
           Searches!Change(d, new)
    PROVE  SearchInv'
<1>1. search' = search /\ search.at # "answered" /\ changes' = changes + 1 /\ changes < MaxChanges
  BY DEF Searches!Change
<1>2. SearchTyped'
  BY <1>1, PageAssumption DEF SearchInv, SearchTyped, Searches!Change
<1>3. Asked' /\ ModeInv'
  BY <1>1 DEF SearchInv, Asked, ModeInv
<1>4. LegsInv'
  BY <1>1 DEF SearchInv, LegsInv, LegSoFar, LegRead, LegOf, KeysApart, ToRead, NoTwice, Searches!Kept, Searches!Range
<1>5. Searches!ResultsSound'
  BY <1>1 DEF Searches!ResultsSound
<1> QED
  BY <1>2, <1>3, <1>4, <1>5 DEF SearchInv

LEMMA SearchSame == ASSUME SearchInv, UNCHANGED <<corpus, search, changes>> PROVE SearchInv'
<1>1. search' = search /\ corpus' = corpus /\ changes' = changes
  OBVIOUS
<1>2. SearchTyped' /\ Asked' /\ ModeInv'
  BY <1>1 DEF SearchInv, SearchTyped, Asked, ModeInv
<1>3. LegsInv'
  <2>1. ToRead' <=> ToRead
    BY <1>1 DEF ToRead, NoTwice, Searches!Range
  <2>2. (LegOf(search.dense)' <=> LegOf(search.dense)) /\ (LegOf(search.sparse)' <=> LegOf(search.sparse))
    BY <1>1 DEF LegOf, KeysApart, Searches!Range
  <2>3. (LegSoFar(search.dense)' <=> LegSoFar(search.dense)) /\ (LegSoFar(search.sparse)' <=> LegSoFar(search.sparse))
    BY <1>1, <2>2 DEF LegSoFar, Searches!Range
  <2>4. (LegRead(search.dense)' <=> LegRead(search.dense)) /\ (LegRead(search.sparse)' <=> LegRead(search.sparse))
    BY <1>1, <2>2 DEF LegRead, Searches!Kept
  <2> QED
    BY <1>1, <2>1, <2>3, <2>4 DEF SearchInv, LegsInv
<1>4. Searches!ResultsSound'
  BY <1>1 DEF SearchInv, Searches!ResultsSound, Searches!Beats
<1> QED
  BY <1>2, <1>3, <1>4 DEF SearchInv

LEMMA SearchStep == ASSUME SearchInv, Searches!Next PROVE SearchInv'
<1>1. ASSUME NEW d \in RowIds, Searches!Change(d, Searches!Unread) PROVE SearchInv'
  <2>1. Searches!Unread \in [sim : Grades, rank : Grades, active : BOOLEAN]
    BY SearchAssumption DEF Searches!Unread
  <2> QED
    BY <1>1, <2>1, SearchChange
<1>2. ASSUME NEW d \in RowIds, NEW g \in Grades \ {0}, Searches!Change(d, [sim |-> g, rank |-> g, active |-> TRUE])
      PROVE  SearchInv'
  <2>1. [sim |-> g, rank |-> g, active |-> TRUE] \in [sim : Grades, rank : Grades, active : BOOLEAN]
    OBVIOUS
  <2> QED
    BY <1>2, <2>1, SearchChange
<1>3. ASSUME NEW mode \in {"dense", "sparse", "hybrid"}, NEW w \in BOOLEAN, NEW ks \in KindSets,
             NEW scope \in DocScopes, NEW n \in TopKs, NEW m \in Grades \ {0},
             Searches!Receive(mode, w, ks, scope, n, m)
      PROVE  SearchInv'
  BY <1>3, SearchReceive DEF Modes
<1>4. CASE Searches!Embedded \/ Searches!DenseKind \/ Searches!DenseFails \/ Searches!Coverage \/ Searches!CoverageFails
  BY <1>4, SearchEmbedded, SearchDenseKind, SearchDenseFails, SearchCoverage
<1>5. CASE Searches!SparseKind \/ Searches!SparseFails \/ Searches!Respond \/ Searches!ReportFails
  BY <1>5, SearchSparseKind, SearchSparseFails, SearchRespond, SearchReportFails
<1>6. ASSUME NEW o \in Searches!Outcomes, Searches!EmbedFails(o) PROVE SearchInv'
  BY <1>6, SearchEmbedFails
<1> QED
  BY <1>1, <1>2, <1>3, <1>4, <1>5, <1>6 DEF Searches!Next

----------------------------------------------------------------------------

ListsInv == (part = "pages" => PagesInv) /\ (part = "search" => SearchInv)

\* The walk over the pages of a report keeps what it has shown apart from what is ahead, and
\* a search keeps its legs to the documents asked for, each once.
THEOREM ListsInvariant == RequestsSpec => []ListsInv
<1>1. RequestsInit => ListsInv
  BY PagesBegin, SearchBegins DEF RequestsInit, ListsInv
<1>2. ASSUME ListsInv, [RequestsNext]_<<part, keyVars, viewVars, reviewVars, searchVars, pageVars, readerVars, changes>>
      PROVE  ListsInv'
  <2>1. part' = part
    BY <1>2 DEF RequestsNext
  <2>2. ASSUME part = "pages" PROVE PagesInv'
    <3>1. PagesInv
      BY <1>2, <2>2 DEF ListsInv
    <3>2. CASE Pages!Next
      BY <3>1, <3>2, PagesStep
    <3>3. CASE UNCHANGED <<rows, changes, steady, walk>>
      BY <3>1, <3>3, PagesSame
    <3> QED
      BY <1>2, <2>2, <3>2, <3>3 DEF RequestsNext, pageVars
  <2>3. ASSUME part = "search" PROVE SearchInv'
    <3>1. SearchInv
      BY <1>2, <2>3 DEF ListsInv
    <3>2. CASE Searches!Next
      BY <3>1, <3>2, SearchStep
    <3>3. CASE UNCHANGED <<corpus, search, changes>>
      BY <3>1, <3>3, SearchSame
    <3> QED
      BY <1>2, <2>3, <3>2, <3>3 DEF RequestsNext, searchVars
  <2> QED
    BY <2>1, <2>2, <2>3 DEF ListsInv
<1> QED
  BY <1>1, <1>2, PTL DEF RequestsSpec

\* A client that walks a report to its end has been shown every row that stayed once and
\* in order, and reports ordered by identifier or last observation have no row twice,
\* whatever changes between the pages (inventory_assembly.go, inventory_table.go, network.go,
\* entities.go).  A device that joins a response of the inventory graph as the other one of
\* a candidate does so before its own page and never after it, and each candidate of two
\* devices that stayed is shown once, in a response with both.
THEOREM PagesAreSound == RequestsSpec => []PagesSound
<1>1. ListsInv => PagesSound
  BY WalkDelivers DEF ListsInv, PagesSound
<1> QED
  BY <1>1, ListsInvariant, PTL

\* An answer says which legs it came from and why one is missing, holds no more than was
\* asked for, each document once, and ranks a document that beats another in every leg that
\* counts and found the other before it, whatever is indexed, embedded or retired between
\* the queries of the legs (service.go, dense.go, sparse.go).
THEOREM SearchIsSound == RequestsSpec => []SearchSound
<1>1. SearchInv => Searches!FallbackHonest
  BY DEF SearchInv, ModeInv, Searches!FallbackHonest
<1>2. ListsInv => SearchSound
  BY <1>1 DEF ListsInv, SearchSound, SearchInv
<1> QED
  BY <1>2, ListsInvariant, PTL

\* Every handler is well typed, whatever its requests do: the invariants of the handlers
\* together.
THEOREM RequestsWellTyped == RequestsSpec => []RequestsTypeOK
<1>1. ASSUME RequestsInv, ReportsInv, ListsInv,
             part \in {"keys", "views", "reviews", "search", "investigation", "pages", "graph"}
      PROVE  RequestsTypeOK
  <2>1. ASSUME part = "search" PROVE Searches!TypeOK
    <3>1. SearchTyped
      BY <1>1, <2>1 DEF ListsInv, SearchInv
    <3>2. search.dense \in Seq(SearchRows) /\ search.sparse \in Seq(SearchRows) /\ search.results \in Seq(SearchRows)
      BY <3>1 DEF SearchTyped, SearchRecords
    <3> DEFINE s == search.dense \o search.sparse \o search.results
    <3>3. s \in Seq(SearchRows)
      BY <3>2
    <3> HIDE DEF s
    <3>4. Searches!KeysOf(s) \subseteq RowIds
      <4>1. ASSUME NEW i \in DOMAIN s PROVE s[i].key \in RowIds
        <5>1. s[i] \in SearchRows
          BY <3>3
        <5> QED
          BY <5>1 DEF SearchRows
      <4> QED
        BY <4>1 DEF Searches!KeysOf
    <3>5. /\ corpus \in [RowIds -> [sim : Grades, rank : Grades, active : BOOLEAN]] /\ changes \in 0..MaxChanges
          /\ search.at \in {"idle", "embed", "dense", "coverage", "sparse", "respond", "answered", "failed"}
          /\ search.mode \in {"none", "dense", "sparse", "hybrid"}
      BY <3>1 DEF SearchTyped, SearchRecords, ReadPoints, Modes
    <3> QED
      BY <3>4, <3>5 DEF Searches!TypeOK, s
  <2>2. ASSUME part = "pages" PROVE Pages!TypeOK
    BY <1>1, <2>2 DEF ListsInv, PagesInv, PagesTyped, PageWalks, Responses, TableRows, Pages!TypeOK
  <2>3. ASSUME part = "investigation" PROVE Investigations!TypeOK
    <3>1. AnswerTyped
      BY <1>1, <2>3 DEF ReportsInv, InvestigationInv
    <3> QED
      BY <3>1 DEF AnswerTyped, Databases, Signals, Readers, Points, Investigations!TypeOK
  <2>4. ASSUME part = "graph" PROVE Graphs!TypeOK
    BY <1>1, <2>4 DEF ReportsInv, GraphInv, ReaderTyped, Tables, Graphs!TypeOK
  <2>5. /\ part = "keys" => Keys!TypeOK
        /\ part = "views" => Views!TypeOK
        /\ part = "reviews" => Reviews!TypeOK
    BY <1>1 DEF RequestsInv, KeysInv, ViewsInv, ReviewsInv
  <2> QED
    BY <1>1, <2>1, <2>2, <2>3, <2>4, <2>5 DEF RequestsTypeOK
<1> DEFINE Parts == part \in {"keys", "views", "reviews", "search", "investigation", "pages", "graph"}
<1>2. RequestsInit => Parts
  BY DEF RequestsInit
<1>3. Parts /\ [RequestsNext]_<<part, keyVars, viewVars, reviewVars, searchVars, pageVars, readerVars, changes>> => Parts'
  BY DEF RequestsNext
<1>4. RequestsInv /\ ReportsInv /\ ListsInv /\ Parts => RequestsTypeOK
  BY <1>1
<1> HIDE DEF Parts
<1> QED
  BY <1>2, <1>3, <1>4, RequestsInvariant, ReportsInvariant, ListsInvariant, PTL DEF RequestsSpec

====
