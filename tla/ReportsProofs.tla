---- MODULE ReportsProofs ----
(***************************************************************************)
(* Proofs about the reports that are served while their tables change.  The  *)
(* graph: pages of nodes and edges with cursors of their own, the cut graph, *)
(* the presentation tree and the neighbourhood of an access point, for any   *)
(* graph, filters, sizes of pages and limits.  Investigations and record     *)
(* contexts: ordered and limited lists, sums, and the parts of an answer     *)
(* that is read from one snapshot.                                          *)
(***************************************************************************)
EXTENDS MCRequests, FiniteSetTheorems, WellFoundedInduction, TLAPS

----------------------------------------------------------------------------
(* Sets of ids and the lists made of them                                   *)

\* The instance counts and compares as this module does.
LEMMA GraphCardinality == \A S : Graphs!Cardinality(S) = Cardinality(S)
  BY DEF Graphs!Cardinality, Cardinality

\* A set of natural numbers that is not empty has a least element.
LEMMA LeastNat == ASSUME NEW T \in SUBSET Nat, T # {} PROVE \E x \in T : \A y \in T : x <= y
<1> DEFINE R == {ss \in Nat \X Nat : ss[1] < ss[2]}
<1>1. IsWellFoundedOn(R, Nat)
  BY NatLessThanWellFounded DEF OpToRel
<1>2. PICK x \in T : \A y \in T : ~(<<y, x>> \in R)
  BY <1>1, WFMin
<1>3. ASSUME NEW y \in T PROVE x <= y
  <2>1. x \in Nat /\ y \in Nat /\ <<y, x>> \in Nat \X Nat
    OBVIOUS
  <2>2. <<y, x>>[1] = y /\ <<y, x>>[2] = x
    OBVIOUS
  <2>3. ~(<<y, x>>[1] < <<y, x>>[2])
    BY <1>2, <2>1
  <2> QED
    BY <2>1, <2>2, <2>3
<1> QED
  BY <1>3

\* A finite set of ids has a greatest one: the one with the fewest above it.
LEMMA GreatestId ==
    ASSUME NEW S \in SUBSET Nat, IsFiniteSet(S), S # {}
    PROVE  Graphs!Max(S) \in S /\ \A y \in S : y <= Graphs!Max(S)
<1> DEFINE Above(x) == {y \in S : y > x}
           T == {Cardinality(Above(x)) : x \in S}
<1>1. \A x \in S : IsFiniteSet(Above(x)) /\ Cardinality(Above(x)) \in Nat
  <2> TAKE x \in S
  <2>1. Above(x) \in SUBSET S
    OBVIOUS
  <2> QED
    BY <2>1, FS_Subset, FS_CardinalityType
<1>2. PICK m \in T : \A y \in T : m <= y
  <2>1. T \in SUBSET Nat /\ T # {}
    BY <1>1
  <2> QED
    BY <2>1, LeastNat
<1>3. PICK x \in S : m = Cardinality(Above(x))
  OBVIOUS
<1>4. ASSUME NEW y \in S, y > x PROVE FALSE
  <2>1. Above(y) \in SUBSET Above(x) /\ y \in Above(x) /\ y \notin Above(y)
    <3>1. x \in Nat /\ y \in Nat /\ \A z \in S : z \in Nat
      OBVIOUS
    <3>2. ASSUME NEW z \in Above(y) PROVE z \in Above(x)
      BY <1>4, <3>1, <3>2
    <3>3. y \in Above(x) /\ y \notin Above(y)
      BY <1>4, <3>1
    <3> QED
      BY <3>2, <3>3
  <2>2. Cardinality(Above(y)) <= Cardinality(Above(x)) /\ Cardinality(Above(y)) # Cardinality(Above(x))
    BY <1>1, <2>1, FS_Subset
  <2>3. Cardinality(Above(x)) <= Cardinality(Above(y))
    BY <1>2, <1>3, <1>4
  <2>4. Cardinality(Above(x)) \in Nat /\ Cardinality(Above(y)) \in Nat
    BY <1>1
  <2> HIDE DEF Above
  <2> QED
    BY <2>2, <2>3, <2>4
<1>5. \A y \in S : x >= y
  BY <1>4
<1>6. Graphs!Max(S) \in S /\ \A y \in S : Graphs!Max(S) >= y
  BY <1>5 DEF Graphs!Max
<1> QED
  BY <1>6

\* LIMIT n in the order of ids: nothing before a row that is kept is left out, all
\* is kept when there is room, and never more than n.
LEMMA LeastKept ==
    ASSUME NEW S \in SUBSET Nat, IsFiniteSet(S), NEW n \in Nat
    PROVE  /\ Graphs!LeastOf(S, n) \subseteq S /\ IsFiniteSet(Graphs!LeastOf(S, n))
           /\ \A x \in Graphs!LeastOf(S, n), y \in S : y <= x => y \in Graphs!LeastOf(S, n)
           /\ Cardinality(S) <= n => Graphs!LeastOf(S, n) = S
           /\ Cardinality(Graphs!LeastOf(S, n)) <= n
<1> DEFINE Below(x) == {y \in S : y < x}
           L == {x \in S : Cardinality(Below(x)) < n}
<1>0. Graphs!LeastOf(S, n) = L
  BY GraphCardinality DEF Graphs!LeastOf
<1>1. \A x \in S : IsFiniteSet(Below(x)) /\ Cardinality(Below(x)) \in Nat
  <2> TAKE x \in S
  <2>1. Below(x) \in SUBSET S
    OBVIOUS
  <2> QED
    BY <2>1, FS_Subset, FS_CardinalityType
<1>2. L \subseteq S /\ IsFiniteSet(L)
  BY FS_Subset
<1>3. ASSUME NEW x \in L, NEW y \in S, y <= x PROVE y \in L
  <2>1. Below(y) \in SUBSET Below(x)
    <3>1. x \in Nat /\ y \in Nat /\ \A z \in S : z \in Nat
      OBVIOUS
    <3>2. ASSUME NEW z \in Below(y) PROVE z \in Below(x)
      BY <1>3, <3>1, <3>2
    <3> QED
      BY <3>2
  <2>2. Cardinality(Below(y)) <= Cardinality(Below(x))
    BY <1>1, <2>1, FS_Subset
  <2> QED
    BY <1>1, <1>3, <2>2
<1>4. ASSUME Cardinality(S) <= n PROVE L = S
  <2> SUFFICES ASSUME NEW x \in S PROVE Cardinality(Below(x)) < n
    OBVIOUS
  <2>1. Below(x) \in SUBSET S /\ x \notin Below(x) /\ Cardinality(S) \in Nat
    BY FS_CardinalityType
  <2>2. Cardinality(Below(x)) <= Cardinality(S) /\ Cardinality(Below(x)) # Cardinality(S)
    BY <2>1, FS_Subset
  <2> QED
    BY <1>1, <1>4, <2>1, <2>2
<1>5. Cardinality(L) <= n
  <2>1. CASE L = {}
    <3>1. Cardinality(L) = 0
      BY <2>1, FS_EmptySet
    <3> QED
      BY <3>1
  <2>2. CASE L # {}
    <3> DEFINE m == Graphs!Max(L)
    <3>0. L \in SUBSET Nat
      OBVIOUS
    <3>1. m \in L /\ \A y \in L : y <= m
      BY <1>2, <2>2, <3>0, GreatestId
    <3> HIDE DEF m
    <3>2. L \in SUBSET (Below(m) \union {m})
      <4>1. m \in Nat /\ \A z \in L : z \in S /\ z \in Nat
        BY <3>1
      <4>2. ASSUME NEW z \in L PROVE z \in Below(m) \union {m}
        <5>1. z \in S /\ z \in Nat /\ z <= m
          BY <3>1, <4>1
        <5>2. z < m \/ z = m
          BY <4>1, <5>1
        <5> QED
          BY <5>1, <5>2
      <4> QED
        BY <4>2
    <3>3. IsFiniteSet(Below(m) \union {m}) /\ Cardinality(Below(m) \union {m}) = Cardinality(Below(m)) + 1
      <4>1. m \notin Below(m)
        BY <3>1
      <4> QED
        BY <1>1, <3>1, <4>1, FS_AddElement
    <3>4. Cardinality(L) <= Cardinality(Below(m) \union {m})
      BY <3>2, <3>3, FS_Subset
    <3>5. Cardinality(L) \in Nat
      BY <1>2, FS_CardinalityType
    <3> QED
      BY <1>1, <3>1, <3>3, <3>4, <3>5
  <2> QED
    BY <2>1, <2>2
<1> QED
  BY <1>0, <1>2, <1>3, <1>4, <1>5

\* A finite set as a list: each element once.
LEMMA ListOfSet ==
    ASSUME NEW S, IsFiniteSet(S)
    PROVE  /\ Graphs!SetToSeq(S) \in Seq(S) /\ Graphs!IsInjective(Graphs!SetToSeq(S))
           /\ Graphs!Range(Graphs!SetToSeq(S)) = S
<1> DEFINE n == Cardinality(S)
           f == Graphs!SetToSeq(S)
<1>1. n \in Nat /\ ExistsBijection(1..n, S)
  BY FS_CardinalityType
<1>2. PICK b \in Bijection(1..n, S) : TRUE
  BY <1>1 DEF ExistsBijection
<1>3. b \in [1..n -> S] /\ \A i, j \in 1..n : b[i] = b[j] => i = j
  BY <1>2 DEF Bijection, Injection, IsInjective
<1>4. DOMAIN b = 1..n /\ Graphs!IsInjective(b)
  BY <1>3 DEF Graphs!IsInjective
<1>5. f \in [1..n -> S] /\ Graphs!IsInjective(f)
  BY <1>3, <1>4, GraphCardinality DEF Graphs!SetToSeq
<1> HIDE DEF f
<1>6. f \in Injection(1..n, S)
  BY <1>5 DEF Injection, IsInjective, Graphs!IsInjective
<1>7. f \in Surjection(1..n, S)
  <2>1. Cardinality(1..n) = n
    BY <1>1, FS_Interval
  <2> QED
    BY <1>6, <2>1, FS_Injection
<1>8. Graphs!Range(f) = S
  BY <1>5, <1>7 DEF Surjection, Graphs!Range
<1>9. f \in Seq(S)
  BY <1>1, <1>5
<1> QED
  BY <1>5, <1>8, <1>9 DEF f

\* Two lists without repetitions that share nothing make one.
LEMMA ListsJoined ==
    ASSUME NEW Es, NEW s \in Seq(Es), NEW t \in Seq(Es),
           Graphs!IsInjective(s), Graphs!IsInjective(t), Graphs!Range(s) \intersect Graphs!Range(t) = {}
    PROVE  /\ s \o t \in Seq(Es) /\ Graphs!IsInjective(s \o t)
           /\ Graphs!Range(s \o t) = Graphs!Range(s) \union Graphs!Range(t)
<1> DEFINE u == s \o t
<1>1. /\ Len(s) \in Nat /\ Len(t) \in Nat /\ DOMAIN s = 1..Len(s) /\ DOMAIN t = 1..Len(t)
      /\ u \in Seq(Es) /\ DOMAIN u = 1..(Len(s) + Len(t))
  OBVIOUS
<1>2. /\ \A i \in 1..Len(s) : u[i] = s[i]
      /\ \A i \in 1..(Len(s) + Len(t)) : i > Len(s) => i - Len(s) \in 1..Len(t) /\ u[i] = t[i - Len(s)]
  BY <1>1
<1> HIDE DEF u
<1>3. ASSUME NEW i \in DOMAIN u, NEW j \in DOMAIN u, u[i] = u[j] PROVE i = j
  <2>0. i \in Nat /\ j \in Nat
    BY <1>1
  <2>1. CASE i <= Len(s) /\ j <= Len(s)
    <3>1. i \in DOMAIN s /\ j \in DOMAIN s /\ s[i] = s[j]
      BY <1>1, <1>2, <1>3, <2>1
    <3> QED
      BY <3>1 DEF Graphs!IsInjective
  <2>2. CASE i > Len(s) /\ j > Len(s)
    <3>1. i - Len(s) \in DOMAIN t /\ j - Len(s) \in DOMAIN t /\ t[i - Len(s)] = t[j - Len(s)]
      BY <1>1, <1>2, <1>3, <2>2
    <3>2. i - Len(s) = j - Len(s)
      BY <3>1 DEF Graphs!IsInjective
    <3> QED
      BY <1>1, <2>0, <3>2
  <2>3. CASE i <= Len(s) /\ j > Len(s)
    <3>1. s[i] \in Graphs!Range(s) /\ t[j - Len(s)] \in Graphs!Range(t) /\ s[i] = t[j - Len(s)]
      BY <1>1, <1>2, <1>3, <2>3 DEF Graphs!Range
    <3> QED
      BY <3>1
  <2>4. CASE i > Len(s) /\ j <= Len(s)
    <3>1. s[j] \in Graphs!Range(s) /\ t[i - Len(s)] \in Graphs!Range(t) /\ s[j] = t[i - Len(s)]
      BY <1>1, <1>2, <1>3, <2>4 DEF Graphs!Range
    <3> QED
      BY <3>1
  <2> QED
    BY <1>1, <2>0, <2>1, <2>2, <2>3, <2>4
<1>4. Graphs!Range(u) = Graphs!Range(s) \union Graphs!Range(t)
  <2>1. ASSUME NEW x \in Graphs!Range(u) PROVE x \in Graphs!Range(s) \union Graphs!Range(t)
    <3>1. PICK i \in DOMAIN u : x = u[i]
      BY DEF Graphs!Range
    <3>2. CASE i <= Len(s)
      <4>1. i \in DOMAIN s /\ x = s[i]
        BY <1>1, <1>2, <3>1, <3>2
      <4> QED
        BY <4>1 DEF Graphs!Range
    <3>3. CASE i > Len(s)
      <4>1. i - Len(s) \in DOMAIN t /\ x = t[i - Len(s)]
        BY <1>1, <1>2, <3>1, <3>3
      <4> QED
        BY <4>1 DEF Graphs!Range
    <3> QED
      BY <1>1, <3>2, <3>3
  <2>2. ASSUME NEW i \in DOMAIN s PROVE s[i] \in Graphs!Range(u)
    <3>1. i \in DOMAIN u /\ u[i] = s[i]
      BY <1>1, <1>2
    <3> QED
      BY <3>1 DEF Graphs!Range
  <2>3. ASSUME NEW i \in DOMAIN t PROVE t[i] \in Graphs!Range(u)
    <3>1. i + Len(s) \in DOMAIN u /\ i + Len(s) > Len(s) /\ (i + Len(s)) - Len(s) = i
      BY <1>1
    <3>2. u[i + Len(s)] = t[i]
      BY <1>1, <1>2, <3>1
    <3> QED
      BY <3>1, <3>2 DEF Graphs!Range
  <2>4. Graphs!Range(s) \subseteq Graphs!Range(u)
    BY <2>2 DEF Graphs!Range
  <2>5. Graphs!Range(t) \subseteq Graphs!Range(u)
    BY <2>3 DEF Graphs!Range
  <2> QED
    BY <2>1, <2>4, <2>5
<1>5. Graphs!IsInjective(u)
  BY <1>3 DEF Graphs!IsInjective
<1> QED
  BY <1>1, <1>4, <1>5 DEF u

----------------------------------------------------------------------------
(* The invariant                                                            *)

Tables == [nodes : SUBSET Nodes, edges : SUBSET Graphs!Edges]
Cursors == [node : Nat, edge : Nat, nodesDone : BOOLEAN, edgesDone : BOOLEAN]

\* Each of the four ways the graph is served has points of its own.
WalkPoints == {"next", "focus", "nodes", "edges", "endpoints", "done"}
GraphPoints ==
    \/ reader.op = "none" /\ reader.at = "idle"
    \/ reader.op = "walk" /\ reader.at \in WalkPoints
    \/ reader.op = "tree" /\ reader.at \in {"root", "rootless", "treenodes", "treeedges", "plant", "planted"}
    \/ reader.op = "overview" /\ reader.at \in {"cut", "cutdone"}
    \/ reader.op = "network" /\ reader.at \in {"hints", "clusters", "hinted"}

\* Types.  The fields of a reader are those of an idle one.
ReaderTyped ==
    /\ DOMAIN reader = DOMAIN Graphs!Idle
    /\ reader.snap \in Tables /\ reader.cursor \in Cursors /\ reader.size \in Nat
    /\ reader.nodes \in SUBSET Nodes /\ reader.edges \in SUBSET Graphs!Edges
    /\ reader.nodesMore \in BOOLEAN /\ reader.edgesMore \in BOOLEAN
    /\ reader.gotNodes \in SUBSET Nodes /\ reader.gotEdges \in Seq(Graphs!Edges)
    /\ reader.everNodes \in SUBSET Nodes /\ reader.everEdges \in SUBSET Graphs!Edges
    /\ reader.root \in Nodes \union {0}

\* What the cursors have passed has been delivered, and edges came in their order.
Behind ==
    /\ \A n \in reader.everNodes :
         n <= reader.cursor.node \/ reader.cursor.nodesDone => n \in reader.gotNodes
    /\ \A e \in reader.everEdges :
         e <= reader.cursor.edge \/ reader.cursor.edgesDone => e \in Graphs!Range(reader.gotEdges)
    /\ \A e \in Graphs!Range(reader.gotEdges) : e <= reader.cursor.edge
    /\ Graphs!IsInjective(reader.gotEdges)

\* What the statements of a page were to find, and have found.
NodesAhead == IF reader.cursor.nodesDone THEN {} ELSE {n \in Graphs!InFocus : n > reader.cursor.node}
EdgesAhead == IF reader.cursor.edgesDone THEN {} ELSE {e \in Graphs!EdgesInFocus : e > reader.cursor.edge}
NodesRead ==
    /\ reader.nodes = Graphs!LeastOf(NodesAhead, reader.size)
    /\ reader.nodesMore = (Cardinality(NodesAhead) > reader.size)
EdgesRead ==
    /\ reader.edges = Graphs!LeastOf(EdgesAhead, reader.size)
    /\ reader.edgesMore = (Cardinality(EdgesAhead) > reader.size)
Closed == \A e \in reader.edges : Graphs!Within(e, reader.nodes)

WalkInv ==
    /\ reader.at \in {"focus", "nodes"} => reader.edges = {}
    /\ reader.at \in {"edges", "endpoints"} => NodesRead
    /\ reader.at = "endpoints" => EdgesRead
    /\ reader.at \in {"next", "done"} => Closed

\* The budget of a neighbourhood.
NetworkInv == reader.op = "network" => Cardinality(reader.nodes) <= Budget

GraphInv ==
    /\ db \in Tables /\ changes \in 0..MaxChanges
    /\ GraphPoints /\ ReaderTyped /\ Behind /\ NetworkInv
    /\ reader.op = "walk" => WalkInv
    /\ reader.at = "treenodes" => reader.root \in Nodes
    /\ reader.at \in {"plant", "planted", "cutdone", "hinted"} => Closed
    /\ reader.at = "done" => /\ reader.everNodes \subseteq reader.gotNodes
                             /\ reader.everEdges \subseteq Graphs!Range(reader.gotEdges)

----------------------------------------------------------------------------
(* Facts about the state of a request                                       *)

LEMMA GraphConstants ==
    /\ Nodes \subseteq Nat /\ 0 \notin Nodes /\ IsFiniteSet(Nodes)
    /\ Graphs!Edges \subseteq Nat /\ 0 \notin Graphs!Edges /\ IsFiniteSet(Graphs!Edges)
    /\ \A e \in Graphs!Edges : Graphs!Ends(e) \subseteq Nodes
<1>1. Len(EdgeAt) \in Nat /\ DOMAIN EdgeAt = 1..Len(EdgeAt)
  BY GraphAssumption
<1>2. IsFiniteSet(1..Len(EdgeAt))
  BY <1>1, FS_Interval
<1>3. \A e \in DOMAIN EdgeAt : EdgeAt[e] \in [from : Nodes, to : Nodes, kind : STRING]
  <2> DEFINE R == [from : Nodes, to : Nodes, kind : STRING]
  <2>1. EdgeAt \in Seq(R)
    BY GraphAssumption
  <2> HIDE DEF R
  <2>2. \A e \in 1..Len(EdgeAt) : EdgeAt[e] \in R
    BY <2>1
  <2> QED
    BY <1>1, <2>2 DEF R
<1> QED
  BY <1>1, <1>2, <1>3, GraphAssumption DEF Graphs!Edges, Graphs!Ends

\* Sets of ids are finite.
LEMMA GraphFinite ==
    /\ \A S \in SUBSET Nodes : S \in SUBSET Nat /\ IsFiniteSet(S)
    /\ \A S \in SUBSET Graphs!Edges : S \in SUBSET Nat /\ IsFiniteSet(S)
  BY GraphConstants, FS_Subset

LEMMA GraphIdle ==
    /\ Graphs!Idle.op = "none" /\ Graphs!Idle.at = "idle" /\ Graphs!Idle.snap \in Tables
    /\ Graphs!Idle.cursor = [node |-> 0, edge |-> 0, nodesDone |-> FALSE, edgesDone |-> FALSE]
    /\ Graphs!Idle.size = 0 /\ Graphs!Idle.nodes = {} /\ Graphs!Idle.edges = {}
    /\ Graphs!Idle.nodesMore = FALSE /\ Graphs!Idle.edgesMore = FALSE
    /\ Graphs!Idle.gotNodes = {} /\ Graphs!Idle.gotEdges = <<>>
    /\ Graphs!Idle.everNodes = {} /\ Graphs!Idle.everEdges = {} /\ Graphs!Idle.root = 0
    /\ DOMAIN Graphs!Idle =
         {"op", "at", "snap", "base", "match", "anchor", "hops", "size", "focus", "cursor", "nodes",
          "edges", "nodesMore", "edgesMore", "gotNodes", "gotEdges", "everNodes", "everEdges", "root",
          "total", "missing", "forest"}
  BY DEF Graphs!Idle, Graphs!NoCursor, Tables

LEMMA IdleTyped ==
    /\ Graphs!Idle.snap \in Tables /\ Graphs!Idle.cursor \in Cursors /\ Graphs!Idle.size \in Nat
    /\ {} \in SUBSET Nodes /\ {} \in SUBSET Graphs!Edges /\ <<>> \in Seq(Graphs!Edges)
    /\ FALSE \in BOOLEAN /\ 0 \in Nodes \union {0}
<1>1. Graphs!Idle.cursor \in Cursors
  BY GraphIdle DEF Cursors
<1>2. <<>> \in Seq(Graphs!Edges)
  OBVIOUS
<1> QED
  BY <1>1, <1>2, GraphIdle

\* The focus is a part of the snapshot.
LEMMA FocusSeen ==
    ASSUME ReaderTyped
    PROVE  /\ Graphs!InFocus \subseteq reader.snap.nodes /\ Graphs!InFocus \subseteq Nodes
           /\ Graphs!EdgesInFocus \subseteq Graphs!Edges
           /\ \A e \in Graphs!EdgesInFocus : Graphs!Within(e, Graphs!InFocus)
           /\ NodesAhead \subseteq Graphs!InFocus /\ EdgesAhead \subseteq Graphs!EdgesInFocus
<1>1. reader.snap.nodes \subseteq Nodes /\ reader.snap.edges \subseteq Graphs!Edges
  BY DEF ReaderTyped, Tables
<1>2. Graphs!InFocus \subseteq reader.snap.nodes
  BY DEF Graphs!InFocus, Graphs!Filtered, Graphs!Seen
<1>3. Graphs!EdgesInFocus \subseteq reader.snap.edges /\ \A e \in Graphs!EdgesInFocus : Graphs!Within(e, Graphs!InFocus)
  BY DEF Graphs!EdgesInFocus, Graphs!Seen
<1> QED
  BY <1>1, <1>2, <1>3 DEF NodesAhead, EdgesAhead

----------------------------------------------------------------------------
(* What is reached along edges                                              *)

Grown(Es, P) == P \union UNION {Graphs!Ends(e) : e \in {e \in Es : Graphs!Ends(e) \intersect P # {}}}
Hopped(g, S, Es, n) == g = [i \in 0..n |-> IF i = 0 THEN S ELSE Grown(Es, g[i - 1])]

LEMMA HopsExist == ASSUME NEW S, NEW Es PROVE \A n \in Nat : \E g : Hopped(g, S, Es, n)
<1> DEFINE T == {n \in Nat : ~\E g : Hopped(g, S, Es, n)}
<1> SUFFICES ASSUME T # {} PROVE FALSE
  OBVIOUS
<1>1. PICK n \in T : \A m \in T : n <= m
  BY LeastNat
<1>2. CASE n = 0
  <2> DEFINE g == [i \in 0..0 |-> S]
  <2>1. g = [i \in 0..0 |-> IF i = 0 THEN S ELSE Grown(Es, g[i - 1])]
    OBVIOUS
  <2>2. Hopped(g, S, Es, n)
    BY <1>2, <2>1 DEF Hopped
  <2> QED
    BY <2>2
<1>3. CASE n > 0
  <2>1. n - 1 \in Nat /\ n - 1 \notin T
    BY <1>1, <1>3
  <2>2. PICK g : Hopped(g, S, Es, n - 1)
    BY <2>1
  <2> DEFINE h == [i \in 0..n |-> IF i = n THEN Grown(Es, g[n - 1]) ELSE g[i]]
  <2>3. \A i \in 0..(n - 1) : g[i] = IF i = 0 THEN S ELSE Grown(Es, g[i - 1])
    BY <2>2 DEF Hopped
  <2>4. \A i \in 0..n : h[i] = IF i = 0 THEN S ELSE Grown(Es, h[i - 1])
    <3> SUFFICES ASSUME NEW i \in 0..n PROVE h[i] = IF i = 0 THEN S ELSE Grown(Es, h[i - 1])
      OBVIOUS
    <3>1. CASE i = n
      BY <1>3, <3>1
    <3>2. CASE i = 0
      BY <1>3, <2>3, <3>2
    <3>3. CASE i # n /\ i # 0
      <4>1. i \in 0..(n - 1) /\ i - 1 \in 0..n /\ i - 1 # n
        BY <3>3
      <4> QED
        BY <2>3, <3>3, <4>1
    <3> QED
      BY <3>1, <3>2, <3>3
  <2>5. h = [i \in 0..n |-> IF i = 0 THEN S ELSE Grown(Es, h[i - 1])]
    <3> HIDE DEF h
    <3>1. h = [i \in 0..n |-> h[i]]
      BY DEF h
    <3> QED
      BY <2>4, <3>1
  <2> HIDE DEF h
  <2>6. Hopped(h, S, Es, n)
    BY <2>5 DEF Hopped
  <2> QED
    BY <2>6
<1> QED
  BY <1>1, <1>2, <1>3

\* Edges lead to nodes only.
LEMMA SpreadWithin ==
    ASSUME NEW S \in SUBSET Nodes, NEW Es \in SUBSET Graphs!Edges, NEW k \in Nat
    PROVE  Graphs!Spread(S, Es, k) \in SUBSET Nodes
<1> DEFINE near == CHOOSE g : Hopped(g, S, Es, k)
<1>1. Graphs!Spread(S, Es, k) = near[k]
  BY DEF Graphs!Spread, Hopped, Grown
<1>2. Hopped(near, S, Es, k)
  BY HopsExist
<1> HIDE DEF near
<1>3. \A i \in 0..k : near[i] = IF i = 0 THEN S ELSE Grown(Es, near[i - 1])
  BY <1>2 DEF Hopped
<1> DEFINE T == {i \in Nat : i <= k /\ ~(near[i] \in SUBSET Nodes)}
<1>4. ASSUME T # {} PROVE FALSE
  <2>1. PICK i \in T : \A j \in T : i <= j
    BY <1>4, LeastNat
  <2>2. i # 0
    BY <1>3
  <2>3. i - 1 \in Nat /\ i - 1 \notin T /\ i \in 0..k
    BY <2>1, <2>2
  <2>4. near[i - 1] \in SUBSET Nodes
    BY <2>3
  <2>5. near[i] = Grown(Es, near[i - 1])
    BY <1>3, <2>2, <2>3
  <2>6. Grown(Es, near[i - 1]) \in SUBSET Nodes
    BY <2>4, GraphConstants DEF Grown
  <2> QED
    BY <2>5, <2>6
<1> QED
  BY <1>1, <1>4

----------------------------------------------------------------------------
(* Steps                                                                    *)

\* The focus depends on the snapshot and the request, what is ahead on the cursor too.
LEMMA FocusSame ==
    ASSUME reader'.snap = reader.snap, reader'.match = reader.match,
           reader'.anchor = reader.anchor, reader'.focus = reader.focus
    PROVE  /\ Graphs!InFocus' = Graphs!InFocus /\ Graphs!EdgesInFocus' = Graphs!EdgesInFocus
           /\ reader'.cursor = reader.cursor => NodesAhead' = NodesAhead /\ EdgesAhead' = EdgesAhead
<1>1. Graphs!InFocus' = Graphs!InFocus
  BY DEF Graphs!InFocus, Graphs!Filtered, Graphs!Seen
<1>2. Graphs!EdgesInFocus' = Graphs!EdgesInFocus
  BY <1>1 DEF Graphs!EdgesInFocus, Graphs!Seen
<1> QED
  BY <1>1, <1>2 DEF NodesAhead, EdgesAhead

LEMMA BehindSame ==
    ASSUME Behind, reader'.cursor = reader.cursor,
           reader'.gotNodes = reader.gotNodes, reader'.gotEdges = reader.gotEdges,
           reader'.everNodes \subseteq reader.everNodes, reader'.everEdges \subseteq reader.everEdges
    PROVE  Behind'
  BY DEF Behind

\* A request that has just come in has delivered nothing.
LEMMA BehindFirst ==
    ASSUME reader'.cursor = [node |-> 0, edge |-> 0, nodesDone |-> FALSE, edgesDone |-> FALSE],
           reader'.gotNodes = {}, reader'.gotEdges = <<>>,
           reader'.everNodes \subseteq Nodes, reader'.everEdges \subseteq Graphs!Edges
    PROVE  Behind'
<1>1. /\ reader'.cursor.node = 0 /\ reader'.cursor.edge = 0
      /\ reader'.cursor.nodesDone = FALSE /\ reader'.cursor.edgesDone = FALSE
  OBVIOUS
<1>2. /\ \A n \in reader'.everNodes : ~(n <= 0)
      /\ \A e \in reader'.everEdges : ~(e <= 0)
  <2>1. \A n \in Nat : n # 0 => ~(n <= 0)
    OBVIOUS
  <2>2. /\ \A n \in reader'.everNodes : n \in Nat /\ n # 0
        /\ \A e \in reader'.everEdges : e \in Nat /\ e # 0
    BY GraphConstants
  <2> QED
    BY <2>1, <2>2
<1>3. DOMAIN reader'.gotEdges = {}
  OBVIOUS
<1>4. Graphs!Range(reader'.gotEdges) = {} /\ Graphs!IsInjective(reader'.gotEdges)
  BY <1>3 DEF Graphs!Range, Graphs!IsInjective
<1> QED
  BY <1>1, <1>2, <1>4 DEF Behind

LEMMA GraphBegins ==
    ASSUME Graphs!Init PROVE GraphInv
<1>1. db \in Tables /\ changes \in 0..MaxChanges /\ reader = Graphs!Idle
  BY GraphAssumption DEF Graphs!Init, Tables, Graphs!Edges
<1>2. GraphPoints /\ ReaderTyped /\ NetworkInv
  <2>1. GraphPoints /\ NetworkInv
    BY <1>1, GraphIdle DEF GraphPoints, NetworkInv
  <2>2. ReaderTyped
    BY <1>1, GraphIdle, IdleTyped DEF ReaderTyped
  <2> QED
    BY <2>1, <2>2
<1>3. DOMAIN reader.gotEdges = {}
  BY <1>1, GraphIdle
<1>4. Graphs!Range(reader.gotEdges) = {} /\ Graphs!IsInjective(reader.gotEdges)
  BY <1>3 DEF Graphs!Range, Graphs!IsInjective
<1>5. Behind
  BY <1>1, <1>4, GraphIdle DEF Behind
<1> QED
  BY <1>1, <1>2, <1>5, GraphIdle DEF GraphInv

LEMMA GraphWalk ==
    ASSUME GraphInv, NEW f \in Filters, NEW a \in Anchors, NEW h \in Hops, NEW s \in Sizes,
           Graphs!Walk(f, a, h, s)
    PROVE  GraphInv'
<1>1. /\ reader'.op = "walk" /\ reader'.at = "next" /\ reader'.snap = Graphs!Idle.snap
      /\ reader'.cursor = Graphs!Idle.cursor /\ reader'.size = s /\ reader'.nodes = {} /\ reader'.edges = {}
      /\ reader'.nodesMore = FALSE /\ reader'.edgesMore = FALSE
      /\ reader'.gotNodes = {} /\ reader'.gotEdges = <<>>
      /\ reader'.everNodes = Nodes /\ reader'.everEdges = Graphs!Edges /\ reader'.root = 0
      /\ DOMAIN reader' = DOMAIN Graphs!Idle
  BY GraphIdle DEF Graphs!Walk
<1>2. db' = db /\ changes' = changes
  BY DEF Graphs!Walk
<1>3. GraphPoints' /\ ReaderTyped' /\ NetworkInv'
  <2>1. GraphPoints' /\ NetworkInv'
    BY <1>1 DEF GraphPoints, WalkPoints, NetworkInv
  <2>2. s \in Nat
    BY GraphAssumption
  <2>3. ReaderTyped'
    BY <1>1, <2>2, IdleTyped DEF ReaderTyped
  <2> QED
    BY <2>1, <2>3
<1>4. Behind'
  BY <1>1, GraphIdle, BehindFirst
<1> QED
  BY <1>1, <1>2, <1>3, <1>4 DEF GraphInv, WalkInv, Closed

LEMMA GraphHierarchy ==
    ASSUME GraphInv, NEW f \in Filters, NEW a \in Anchors, NEW l \in Limits, Graphs!Hierarchy(f, a, l)
    PROVE  GraphInv'
<1>1. /\ reader'.op = "tree" /\ reader'.at = "root" /\ reader'.snap = db
      /\ reader'.cursor = Graphs!Idle.cursor /\ reader'.size = l /\ reader'.nodes = {} /\ reader'.edges = {}
      /\ reader'.nodesMore = FALSE /\ reader'.edgesMore = FALSE
      /\ reader'.gotNodes = {} /\ reader'.gotEdges = <<>>
      /\ reader'.everNodes = {} /\ reader'.everEdges = {} /\ reader'.root = 0
      /\ DOMAIN reader' = DOMAIN Graphs!Idle
  BY GraphIdle DEF Graphs!Hierarchy
<1>2. db' = db /\ changes' = changes /\ db \in Tables
  BY DEF Graphs!Hierarchy, GraphInv
<1>3. GraphPoints' /\ ReaderTyped' /\ NetworkInv'
  <2>1. GraphPoints' /\ NetworkInv'
    BY <1>1 DEF GraphPoints, NetworkInv
  <2>2. l \in Nat
    BY GraphAssumption
  <2>3. ReaderTyped'
    BY <1>1, <1>2, <2>2, IdleTyped DEF ReaderTyped
  <2> QED
    BY <2>1, <2>3
<1>4. Behind'
  BY <1>1, GraphIdle, BehindFirst
<1> QED
  BY <1>1, <1>2, <1>3, <1>4 DEF GraphInv

LEMMA GraphOverview ==
    ASSUME GraphInv, NEW f \in Filters, NEW l \in Limits, Graphs!Overview(f, l)
    PROVE  GraphInv'
<1>1. /\ reader'.op = "overview" /\ reader'.at = "cut" /\ reader'.snap = Graphs!Idle.snap
      /\ reader'.cursor = Graphs!Idle.cursor /\ reader'.size = l /\ reader'.edges = {}
      /\ reader'.nodes = Graphs!LeastOf(db.nodes \intersect f[2], l)
      /\ reader'.nodesMore = FALSE /\ reader'.edgesMore = FALSE
      /\ reader'.gotNodes = {} /\ reader'.gotEdges = <<>>
      /\ reader'.everNodes = {} /\ reader'.everEdges = {} /\ reader'.root = 0
      /\ DOMAIN reader' = DOMAIN Graphs!Idle
  BY GraphIdle DEF Graphs!Overview
<1>2. db' = db /\ changes' = changes /\ db \in Tables
  BY DEF Graphs!Overview, GraphInv
<1>3. reader'.nodes \in SUBSET Nodes
  <2>1. db.nodes \intersect f[2] \in SUBSET Nodes
    BY <1>2 DEF Tables
  <2>2. l \in Nat
    BY GraphAssumption
  <2>3. Graphs!LeastOf(db.nodes \intersect f[2], l) \subseteq db.nodes \intersect f[2]
    <3> DEFINE S == db.nodes \intersect f[2]
    <3>1. S \in SUBSET Nat /\ IsFiniteSet(S)
      BY <2>1, GraphFinite
    <3> HIDE DEF S
    <3>2. Graphs!LeastOf(S, l) \subseteq S
      BY <2>2, <3>1, LeastKept
    <3> QED
      BY <3>2 DEF S
  <2> QED
    BY <1>1, <2>1, <2>3
<1>4. GraphPoints' /\ ReaderTyped' /\ NetworkInv'
  <2>1. GraphPoints' /\ NetworkInv'
    BY <1>1 DEF GraphPoints, NetworkInv
  <2>2. l \in Nat
    BY GraphAssumption
  <2>3. ReaderTyped'
    BY <1>1, <1>3, <2>2, IdleTyped DEF ReaderTyped
  <2> QED
    BY <2>1, <2>3
<1>5. Behind'
  BY <1>1, GraphIdle, BehindFirst
<1> QED
  BY <1>1, <1>2, <1>4, <1>5 DEF GraphInv

LEMMA GraphNeighbourhood ==
    ASSUME GraphInv, NEW ap \in Nodes, NEW r \in SUBSET Nodes, Graphs!Neighbourhood(ap, r)
    PROVE  GraphInv'
<1>1. /\ reader'.op = "network" /\ reader'.at = "hints" /\ reader'.snap = db
      /\ reader'.cursor = Graphs!Idle.cursor /\ reader'.size = 0 /\ reader'.edges = {}
      /\ reader'.nodes = {ap} \union r
      /\ reader'.nodesMore = FALSE /\ reader'.edgesMore = FALSE
      /\ reader'.gotNodes = {} /\ reader'.gotEdges = <<>>
      /\ reader'.everNodes = {} /\ reader'.everEdges = {} /\ reader'.root = 0
      /\ DOMAIN reader' = DOMAIN Graphs!Idle
  BY GraphIdle DEF Graphs!Neighbourhood
<1>2. db' = db /\ changes' = changes /\ db \in Tables /\ Cardinality(r) < Budget
  BY GraphCardinality DEF Graphs!Neighbourhood, GraphInv
<1>3. Cardinality(reader'.nodes) <= Budget
  <2>1. IsFiniteSet(r) /\ Cardinality(r) \in Nat
    BY GraphFinite, FS_CardinalityType
  <2>2. Cardinality(r \union {ap}) <= Cardinality(r) + 1
    <3>1. Cardinality(r \union {ap}) = IF ap \in r THEN Cardinality(r) ELSE Cardinality(r) + 1
      BY <2>1, FS_AddElement
    <3> QED
      BY <2>1, <3>1
  <2>3. {ap} \union r = r \union {ap}
    OBVIOUS
  <2>4. Cardinality(r \union {ap}) \in Nat
    BY <2>1, FS_AddElement, FS_CardinalityType
  <2>5. Budget \in Nat
    BY GraphAssumption
  <2>6. Cardinality(r \union {ap}) <= Budget
    BY <1>2, <2>1, <2>2, <2>4, <2>5
  <2> QED
    BY <1>1, <2>3, <2>6
<1>4. GraphPoints' /\ ReaderTyped' /\ NetworkInv'
  <2>1. GraphPoints' /\ NetworkInv'
    BY <1>1, <1>3 DEF GraphPoints, NetworkInv
  <2>2. reader'.nodes \in SUBSET Nodes /\ 0 \in Nat
    BY <1>1
  <2>3. ReaderTyped'
    BY <1>1, <1>2, <2>2, IdleTyped DEF ReaderTyped
  <2> QED
    BY <2>1, <2>3
<1>5. Behind'
  BY <1>1, GraphIdle, BehindFirst
<1> QED
  BY <1>1, <1>2, <1>4, <1>5 DEF GraphInv

\* Steps of a request that deliver nothing: what is behind its cursor stays.
Undelivered ==
    /\ UNCHANGED <<db, changes>>
    /\ DOMAIN reader' = DOMAIN reader /\ reader'.op = reader.op
    /\ reader'.cursor = reader.cursor /\ reader'.size = reader.size
    /\ reader'.gotNodes = reader.gotNodes /\ reader'.gotEdges = reader.gotEdges
    /\ reader'.everNodes \subseteq reader.everNodes /\ reader'.everEdges \subseteq reader.everEdges
    /\ reader'.nodesMore \in BOOLEAN /\ reader'.edgesMore \in BOOLEAN

LEMMA UndeliveredKeeps ==
    ASSUME GraphInv, Undelivered,
           reader'.snap \in Tables, reader'.root \in Nodes \union {0},
           reader'.nodes \in SUBSET Nodes, reader'.edges \in SUBSET Graphs!Edges,
           GraphPoints', NetworkInv', (reader.op = "walk" => WalkInv)',
           (reader.at = "treenodes" => reader.root \in Nodes)',
           (reader.at \in {"plant", "planted", "cutdone", "hinted"} => Closed)',
           (reader.at = "done" => /\ reader.everNodes \subseteq reader.gotNodes
                                  /\ reader.everEdges \subseteq Graphs!Range(reader.gotEdges))'
    PROVE  GraphInv'
<1>1. ReaderTyped'
  BY DEF GraphInv, ReaderTyped, Undelivered
<1>2. Behind'
  BY BehindSame DEF GraphInv, Undelivered
<1> QED
  BY <1>1, <1>2 DEF GraphInv, Undelivered

LEMMA GraphBeginPage == ASSUME GraphInv, Graphs!BeginPage PROVE GraphInv'
<1>1. /\ reader'.at = "focus" /\ reader'.snap = db /\ reader'.nodes = {} /\ reader'.edges = {}
      /\ reader'.root = reader.root /\ Undelivered /\ reader.op = "walk"
  BY GraphIdle DEF Graphs!BeginPage, GraphInv, ReaderTyped, GraphPoints, Undelivered
<1>2. GraphPoints' /\ NetworkInv' /\ WalkInv'
  BY <1>1 DEF GraphPoints, WalkPoints, NetworkInv, WalkInv, Undelivered
<1> QED
  BY <1>1, <1>2, UndeliveredKeeps DEF GraphInv, ReaderTyped

LEMMA GraphFailPage == ASSUME GraphInv, Graphs!FailPage PROVE GraphInv'
<1>1. /\ reader'.at = "next" /\ reader'.snap = reader.snap /\ reader'.nodes = {} /\ reader'.edges = {}
      /\ reader'.root = reader.root /\ Undelivered /\ reader.op = "walk"
  BY GraphIdle DEF Graphs!FailPage, GraphInv, ReaderTyped, Undelivered
<1>2. GraphPoints' /\ NetworkInv' /\ WalkInv'
  BY <1>1 DEF GraphPoints, WalkPoints, NetworkInv, WalkInv, Undelivered, Closed
<1> QED
  BY <1>1, <1>2, UndeliveredKeeps DEF GraphInv, ReaderTyped

LEMMA GraphFocus == ASSUME GraphInv, Graphs!Focus PROVE GraphInv'
<1>0. reader.at = "focus" /\ reader.op = "walk" /\ reader.edges = {}
  BY DEF Graphs!Focus, GraphInv, GraphPoints, WalkInv
<1>1. /\ reader'.snap = reader.snap /\ reader'.nodes = reader.nodes /\ reader'.edges = {}
      /\ reader'.root = reader.root /\ Undelivered
      /\ \/ reader'.at = "nodes"
         \/ reader'.at = "done" /\ reader'.everNodes = {} /\ reader'.everEdges = {}
  BY <1>0, GraphIdle DEF Graphs!Focus, GraphInv, ReaderTyped, Undelivered
<1>2. GraphPoints' /\ NetworkInv' /\ WalkInv'
  BY <1>0, <1>1 DEF GraphPoints, WalkPoints, NetworkInv, WalkInv, Undelivered, Closed
<1> QED
  BY <1>0, <1>1, <1>2, UndeliveredKeeps DEF GraphInv, ReaderTyped

LEMMA GraphNodesPage == ASSUME GraphInv, Graphs!NodesPage PROVE GraphInv'
<1>0. reader.at = "nodes" /\ reader.op = "walk" /\ ReaderTyped
  BY DEF Graphs!NodesPage, GraphInv, GraphPoints
<1>1. /\ reader'.snap = reader.snap /\ reader'.edges = reader.edges /\ reader'.root = reader.root
      /\ reader'.at = "edges" /\ Undelivered
      /\ reader'.nodes = Graphs!LeastOf(NodesAhead, reader.size)
      /\ reader'.nodesMore = (Cardinality(NodesAhead) > reader.size)
      /\ reader'.match = reader.match /\ reader'.anchor = reader.anchor /\ reader'.focus = reader.focus
  BY <1>0, GraphIdle, GraphCardinality DEF Graphs!NodesPage, ReaderTyped, Undelivered, NodesAhead
<1>2. NodesRead'
  <2>1. NodesAhead' = NodesAhead
    BY <1>1, FocusSame DEF Undelivered
  <2> QED
    BY <1>1, <2>1 DEF NodesRead, Undelivered
<1>3. reader'.nodes \in SUBSET Nodes
  <2>1. NodesAhead \in SUBSET Nodes
    BY <1>0, FocusSeen
  <2>2. NodesAhead \in SUBSET Nat /\ IsFiniteSet(NodesAhead) /\ reader.size \in Nat
    BY <1>0, <2>1, GraphFinite DEF ReaderTyped
  <2>3. Graphs!LeastOf(NodesAhead, reader.size) \subseteq NodesAhead
    BY <2>2, LeastKept
  <2> QED
    BY <1>1, <2>1, <2>3
<1>4. GraphPoints' /\ NetworkInv' /\ WalkInv'
  BY <1>0, <1>1, <1>2 DEF GraphPoints, WalkPoints, NetworkInv, WalkInv, Undelivered
<1> QED
  BY <1>0, <1>1, <1>3, <1>4, UndeliveredKeeps DEF ReaderTyped

LEMMA GraphEdgesPage == ASSUME GraphInv, Graphs!EdgesPage PROVE GraphInv'
<1>0. reader.at = "edges" /\ reader.op = "walk" /\ ReaderTyped /\ NodesRead
  BY DEF Graphs!EdgesPage, GraphInv, GraphPoints, WalkInv
<1>1. /\ reader'.snap = reader.snap /\ reader'.nodes = reader.nodes /\ reader'.root = reader.root
      /\ reader'.nodesMore = reader.nodesMore
      /\ reader'.at = "endpoints" /\ Undelivered
      /\ reader'.edges = Graphs!LeastOf(EdgesAhead, reader.size)
      /\ reader'.edgesMore = (Cardinality(EdgesAhead) > reader.size)
      /\ reader'.match = reader.match /\ reader'.anchor = reader.anchor /\ reader'.focus = reader.focus
  BY <1>0, GraphIdle, GraphCardinality DEF Graphs!EdgesPage, ReaderTyped, Undelivered, EdgesAhead
<1>2. NodesRead' /\ EdgesRead'
  <2>1. NodesAhead' = NodesAhead /\ EdgesAhead' = EdgesAhead
    BY <1>1, FocusSame DEF Undelivered
  <2> QED
    BY <1>0, <1>1, <2>1 DEF NodesRead, EdgesRead, Undelivered
<1>3. reader'.edges \in SUBSET Graphs!Edges
  <2>1. EdgesAhead \in SUBSET Graphs!Edges
    BY <1>0, FocusSeen
  <2>2. EdgesAhead \in SUBSET Nat /\ IsFiniteSet(EdgesAhead) /\ reader.size \in Nat
    BY <1>0, <2>1, GraphFinite DEF ReaderTyped
  <2>3. Graphs!LeastOf(EdgesAhead, reader.size) \subseteq EdgesAhead
    BY <2>2, LeastKept
  <2> QED
    BY <1>1, <2>1, <2>3
<1>4. GraphPoints' /\ NetworkInv' /\ WalkInv'
  BY <1>0, <1>1, <1>2 DEF GraphPoints, WalkPoints, NetworkInv, WalkInv, Undelivered
<1> QED
  BY <1>0, <1>1, <1>3, <1>4, UndeliveredKeeps DEF ReaderTyped

\* A page of ids after a cursor: the next cursor passes what it shows and nothing else,
\* and the last page shows all that was ahead.
LEMMA PageAhead ==
    ASSUME NEW S \in SUBSET Nat, IsFiniteSet(S), NEW c \in Nat, NEW size \in Nat, \A x \in S : x > c,
           NEW P, P = Graphs!LeastOf(S, size), NEW d, P = {} => d = c, P # {} => d = Graphs!Max(P)
    PROVE  /\ P \subseteq S /\ IsFiniteSet(P) /\ d \in Nat /\ d >= c /\ \A x \in P : x <= d
           /\ \A x \in S : x <= d \/ ~(Cardinality(S) > size) => x \in P
<1>1. /\ P \subseteq S /\ IsFiniteSet(P) /\ \A x \in P, y \in S : y <= x => y \in P
      /\ Cardinality(S) <= size => P = S
  BY LeastKept
<1>2. Cardinality(S) \in Nat
  BY FS_CardinalityType
<1>3. ~(Cardinality(S) > size) => P = S
  BY <1>1, <1>2
<1>4. CASE P = {}
  <2>1. d = c
    BY <1>4
  <2>2. \A x \in S : ~(x <= d)
    <3> SUFFICES ASSUME NEW x \in S PROVE ~(x <= c)
      BY <2>1
    <3>1. x \in Nat /\ x > c
      OBVIOUS
    <3> QED
      BY <3>1
  <2> QED
    BY <1>1, <1>3, <1>4, <2>1, <2>2
<1>5. CASE P # {}
  <2>1. d = Graphs!Max(P) /\ P \in SUBSET Nat
    BY <1>1, <1>5
  <2>2. d \in P /\ \A y \in P : y <= d
    BY <1>1, <1>5, <2>1, GreatestId
  <2>3. d \in Nat /\ d > c
    BY <1>1, <2>2
  <2>4. d >= c
    BY <2>3
  <2>5. \A x \in S : x <= d => x \in P
    BY <1>1, <2>2
  <2> QED
    BY <1>1, <1>3, <2>2, <2>3, <2>4, <2>5
<1> QED
  BY <1>4, <1>5

LEMMA GraphDeliver == ASSUME GraphInv, Graphs!Deliver PROVE GraphInv'
<1>0. /\ reader.at = "endpoints" /\ reader.op = "walk" /\ ReaderTyped /\ Behind /\ NodesRead /\ EdgesRead
      /\ UNCHANGED <<db, changes>>
  BY DEF Graphs!Deliver, GraphInv, GraphPoints, WalkInv
<1> DEFINE next == Graphs!NextCursor
<1>1. /\ reader'.at = (IF reader.nodesMore \/ reader.edgesMore THEN "next" ELSE "done")
      /\ DOMAIN reader' = DOMAIN reader /\ reader'.op = "walk" /\ reader'.snap = reader.snap
      /\ reader'.size = reader.size /\ reader'.root = reader.root
      /\ reader'.nodes = Graphs!Completed /\ reader'.edges = reader.edges
      /\ reader'.nodesMore = reader.nodesMore /\ reader'.edgesMore = reader.edgesMore
      /\ reader'.cursor = next
      /\ reader'.gotNodes = reader.gotNodes \union Graphs!Completed
      /\ reader'.gotEdges = reader.gotEdges \o Graphs!SetToSeq(reader.edges)
      /\ reader'.everNodes = reader.everNodes \intersect Graphs!InFocus
      /\ reader'.everEdges = reader.everEdges \intersect Graphs!EdgesInFocus
  BY <1>0, GraphIdle DEF Graphs!Deliver, ReaderTyped
<1>2. /\ next.node = IF reader.nodes = {} THEN reader.cursor.node ELSE Graphs!Max(reader.nodes)
      /\ next.edge = IF reader.edges = {} THEN reader.cursor.edge ELSE Graphs!Max(reader.edges)
      /\ next.nodesDone = ~reader.nodesMore /\ next.edgesDone = ~reader.edgesMore
      /\ next = [node |-> next.node, edge |-> next.edge, nodesDone |-> ~reader.nodesMore, edgesDone |-> ~reader.edgesMore]
  BY DEF Graphs!NextCursor
<1> HIDE DEF next
<1>3. /\ reader.cursor.node \in Nat /\ reader.cursor.edge \in Nat /\ reader.size \in Nat
      /\ reader.cursor.nodesDone \in BOOLEAN /\ reader.cursor.edgesDone \in BOOLEAN
  BY <1>0 DEF ReaderTyped, Cursors
<1>4. /\ NodesAhead \in SUBSET Nodes /\ NodesAhead \in SUBSET Nat /\ IsFiniteSet(NodesAhead)
      /\ EdgesAhead \in SUBSET Graphs!Edges /\ EdgesAhead \in SUBSET Nat /\ IsFiniteSet(EdgesAhead)
  <2>1. NodesAhead \in SUBSET Nodes /\ EdgesAhead \in SUBSET Graphs!Edges
    BY <1>0, FocusSeen
  <2> QED
    BY <2>1, GraphFinite
<1>5. /\ reader.nodes \subseteq NodesAhead /\ next.node \in Nat
      /\ \A n \in NodesAhead : n <= next.node \/ ~reader.nodesMore => n \in reader.nodes
  <2>1. \A n \in NodesAhead : n > reader.cursor.node
    BY DEF NodesAhead
  <2>2. reader.nodes = Graphs!LeastOf(NodesAhead, reader.size) /\ reader.nodesMore = (Cardinality(NodesAhead) > reader.size)
    BY <1>0 DEF NodesRead
  <2> PICK S, c, size, P, d :
        /\ S = NodesAhead /\ c = reader.cursor.node /\ size = reader.size
        /\ P = reader.nodes /\ d = next.node
    OBVIOUS
  <2>3. /\ S \in SUBSET Nat /\ IsFiniteSet(S) /\ c \in Nat /\ size \in Nat /\ \A x \in S : x > c
        /\ P = Graphs!LeastOf(S, size) /\ (P = {} => d = c) /\ (P # {} => d = Graphs!Max(P))
    BY <1>2, <1>3, <1>4, <2>1, <2>2
  <2>4. /\ P \subseteq S /\ IsFiniteSet(P) /\ d \in Nat /\ d >= c /\ \A x \in P : x <= d
        /\ \A x \in S : x <= d \/ ~(Cardinality(S) > size) => x \in P
    BY ONLY SMTT(30), <2>3, PageAhead
  <2> QED
    BY <2>2, <2>4
<1>6. /\ reader.edges \subseteq EdgesAhead /\ IsFiniteSet(reader.edges) /\ next.edge \in Nat
      /\ next.edge >= reader.cursor.edge /\ \A e \in reader.edges : e <= next.edge
      /\ \A e \in EdgesAhead : e <= next.edge \/ ~reader.edgesMore => e \in reader.edges
  <2>1. \A e \in EdgesAhead : e > reader.cursor.edge
    BY DEF EdgesAhead
  <2>2. reader.edges = Graphs!LeastOf(EdgesAhead, reader.size) /\ reader.edgesMore = (Cardinality(EdgesAhead) > reader.size)
    BY <1>0 DEF EdgesRead
  <2> PICK S, c, size, P, d :
        /\ S = EdgesAhead /\ c = reader.cursor.edge /\ size = reader.size
        /\ P = reader.edges /\ d = next.edge
    OBVIOUS
  <2>3. /\ S \in SUBSET Nat /\ IsFiniteSet(S) /\ c \in Nat /\ size \in Nat /\ \A x \in S : x > c
        /\ P = Graphs!LeastOf(S, size) /\ (P = {} => d = c) /\ (P # {} => d = Graphs!Max(P))
    BY <1>2, <1>3, <1>4, <2>1, <2>2
  <2>4. /\ P \subseteq S /\ IsFiniteSet(P) /\ d \in Nat /\ d >= c /\ \A x \in P : x <= d
        /\ \A x \in S : x <= d \/ ~(Cardinality(S) > size) => x \in P
    BY ONLY SMTT(30), <2>3, PageAhead
  <2> QED
    BY <2>2, <2>4
<1>7. /\ Graphs!InFocus \subseteq reader.snap.nodes /\ reader.snap.nodes \subseteq Nodes
      /\ Graphs!EdgesInFocus \subseteq Graphs!Edges /\ EdgesAhead \subseteq Graphs!EdgesInFocus
      /\ \A e \in Graphs!EdgesInFocus : Graphs!Within(e, Graphs!InFocus)
  BY <1>0, FocusSeen DEF ReaderTyped, Tables
<1>8. /\ reader.nodes \subseteq Graphs!Completed /\ Graphs!Completed \in SUBSET Nodes
      /\ \A e \in reader.edges : Graphs!Within(e, Graphs!Completed)
  <2>1. reader.nodes \subseteq Graphs!Completed /\ Graphs!Completed \in SUBSET Nodes
    BY <1>0, <1>7 DEF Graphs!Completed, Graphs!Seen, ReaderTyped
  <2>2. ASSUME NEW e \in reader.edges PROVE Graphs!Within(e, Graphs!Completed)
    <3>1. Graphs!Ends(e) \subseteq reader.snap.nodes
      BY <1>6, <1>7 DEF Graphs!Within
    <3>2. Graphs!Ends(e) \subseteq UNION {Graphs!Ends(d) : d \in reader.edges}
      OBVIOUS
    <3> QED
      BY <3>1, <3>2 DEF Graphs!Within, Graphs!Completed, Graphs!Seen
  <2> QED
    BY <2>1, <2>2
<1>9. /\ reader'.gotEdges \in Seq(Graphs!Edges) /\ Graphs!IsInjective(reader'.gotEdges)
      /\ Graphs!Range(reader'.gotEdges) = Graphs!Range(reader.gotEdges) \union reader.edges
  <2> PICK t : t = Graphs!SetToSeq(reader.edges)
    OBVIOUS
  <2>1. t \in Seq(reader.edges) /\ Graphs!IsInjective(t) /\ Graphs!Range(t) = reader.edges
    BY <1>6, ListOfSet
  <2>2. t \in Seq(Graphs!Edges)
    BY <1>0, <2>1 DEF ReaderTyped
  <2>3. Graphs!Range(reader.gotEdges) \intersect Graphs!Range(t) = {}
    <3> SUFFICES ASSUME NEW e, e \in Graphs!Range(reader.gotEdges), e \in reader.edges PROVE FALSE
      BY <2>1
    <3>1. e <= reader.cursor.edge
      BY <1>0 DEF Behind
    <3>2. e > reader.cursor.edge /\ e \in Nat
      BY <1>4, <1>6 DEF EdgesAhead
    <3> QED
      BY <1>3, <3>1, <3>2
  <2>4. reader.gotEdges \in Seq(Graphs!Edges) /\ Graphs!IsInjective(reader.gotEdges)
    BY <1>0 DEF ReaderTyped, Behind
  <2>5. reader'.gotEdges = reader.gotEdges \o t
    BY <1>1
  <2> QED
    BY <2>1, <2>2, <2>3, <2>4, <2>5, ListsJoined
<1>10. ASSUME NEW n \in reader'.everNodes, n <= next.node \/ ~reader.nodesMore
       PROVE  n \in reader'.gotNodes
  <2>1. n \in reader.everNodes /\ n \in Graphs!InFocus /\ n \in Nat
    BY <1>0, <1>1, GraphConstants DEF ReaderTyped
  <2>2. CASE n <= reader.cursor.node \/ reader.cursor.nodesDone
    BY <1>0, <1>1, <2>1, <2>2 DEF Behind
  <2>3. CASE ~(n <= reader.cursor.node) /\ ~reader.cursor.nodesDone
    <3>1. n > reader.cursor.node
      BY <1>3, <2>1, <2>3
    <3>2. n \in NodesAhead
      BY <2>1, <2>3, <3>1 DEF NodesAhead
    <3> QED
      BY <1>1, <1>5, <1>8, <1>10, <3>2
  <2> QED
    BY <2>2, <2>3
<1>11. ASSUME NEW e \in reader'.everEdges, e <= next.edge \/ ~reader.edgesMore
       PROVE  e \in Graphs!Range(reader'.gotEdges)
  <2>1. e \in reader.everEdges /\ e \in Graphs!EdgesInFocus /\ e \in Nat
    BY <1>0, <1>1, GraphConstants DEF ReaderTyped
  <2>2. CASE e <= reader.cursor.edge \/ reader.cursor.edgesDone
    BY <1>0, <1>9, <2>1, <2>2 DEF Behind
  <2>3. CASE ~(e <= reader.cursor.edge) /\ ~reader.cursor.edgesDone
    <3>1. e > reader.cursor.edge
      BY <1>3, <2>1, <2>3
    <3>2. e \in EdgesAhead
      BY <2>1, <2>3, <3>1 DEF EdgesAhead
    <3> QED
      BY <1>6, <1>9, <1>11, <3>2
  <2> QED
    BY <2>2, <2>3
<1>12. \A e \in Graphs!Range(reader'.gotEdges) : e <= next.edge
  <2> SUFFICES ASSUME NEW e \in Graphs!Range(reader.gotEdges) PROVE e <= next.edge
    BY <1>6, <1>9
  <2>1. e <= reader.cursor.edge /\ e \in Nat
    <3>1. e \in Graphs!Edges
      BY <1>0 DEF ReaderTyped, Graphs!Range
    <3> QED
      BY <1>0, <3>1, GraphConstants DEF Behind
  <2> QED
    BY <1>3, <1>6, <2>1
<1>13. Behind'
  BY <1>1, <1>2, <1>9, <1>10, <1>11, <1>12 DEF Behind
<1>14. ReaderTyped'
  <2>1. next \in Cursors
    BY <1>0, <1>2, <1>5, <1>6 DEF Cursors, ReaderTyped
  <2> QED
    BY <1>0, <1>1, <1>8, <1>9, <2>1 DEF ReaderTyped
<1>15. GraphPoints' /\ NetworkInv' /\ WalkInv'
  BY <1>1, <1>8 DEF GraphPoints, WalkPoints, NetworkInv, WalkInv, Closed
<1>16. reader'.at = "done" => /\ reader'.everNodes \subseteq reader'.gotNodes
                              /\ reader'.everEdges \subseteq Graphs!Range(reader'.gotEdges)
  BY <1>1, <1>10, <1>11
<1> QED
  BY <1>0, <1>1, <1>13, <1>14, <1>15, <1>16 DEF GraphInv

----------------------------------------------------------------------------
(* The tree, the cut graph and the neighbourhood                            *)

\* Steps of the tree and of the cut graph have no cursor and no budget.
LEMMA GraphResolveRoot == ASSUME GraphInv, Graphs!ResolveRoot PROVE GraphInv'
<1>0. reader.at = "root" /\ reader.op = "tree" /\ ReaderTyped
  BY DEF Graphs!ResolveRoot, GraphInv, GraphPoints, WalkPoints
<1>1. /\ reader'.snap = reader.snap /\ reader'.nodes = reader.nodes /\ reader'.edges = reader.edges
      /\ Undelivered
      /\ \/ reader'.at = "rootless" /\ reader'.root = reader.root
         \/ reader'.at = "treenodes" /\ Graphs!RootCandidates # {} /\ reader'.root = Graphs!Min(Graphs!RootCandidates)
  BY <1>0, GraphIdle DEF Graphs!ResolveRoot, ReaderTyped, Undelivered
<1>2. ASSUME Graphs!RootCandidates # {} PROVE Graphs!Min(Graphs!RootCandidates) \in Nodes
  <2>1. Graphs!RootCandidates \in SUBSET Nodes
    BY <1>0 DEF Graphs!RootCandidates, Graphs!Seen, ReaderTyped, Tables
  <2>2. Graphs!RootCandidates \in SUBSET Nat
    BY <2>1, GraphFinite
  <2>3. \E x \in Graphs!RootCandidates : \A y \in Graphs!RootCandidates : x <= y
    BY <1>2, <2>2, LeastNat
  <2>4. Graphs!Min(Graphs!RootCandidates) \in Graphs!RootCandidates
    BY <2>3 DEF Graphs!Min
  <2> QED
    BY <2>1, <2>4
<1>3. /\ GraphPoints' /\ NetworkInv' /\ reader'.root \in Nodes \union {0}
      /\ reader'.at = "treenodes" => reader'.root \in Nodes
  BY <1>0, <1>1, <1>2 DEF GraphPoints, NetworkInv, Undelivered, ReaderTyped
<1> QED
  BY <1>0, <1>1, <1>3, UndeliveredKeeps DEF ReaderTyped, Undelivered

LEMMA GraphLoadTreeNodes == ASSUME GraphInv, Graphs!LoadTreeNodes PROVE GraphInv'
<1>0. reader.at = "treenodes" /\ reader.op = "tree" /\ ReaderTyped /\ reader.root \in Nodes
  BY DEF Graphs!LoadTreeNodes, GraphInv, GraphPoints, WalkPoints
<1>1. /\ reader'.snap = reader.snap /\ reader'.nodes = Graphs!TreeNodes /\ reader'.edges = reader.edges
      /\ reader'.root = reader.root /\ reader'.at = "treeedges" /\ Undelivered
  BY <1>0, GraphIdle DEF Graphs!LoadTreeNodes, ReaderTyped, Undelivered
<1>2. Graphs!TreeNodes \in SUBSET Graphs!Selected
  BY DEF Graphs!TreeNodes
<1>3. GraphPoints' /\ NetworkInv'
  BY <1>0, <1>1 DEF GraphPoints, NetworkInv, Undelivered
<1>4. Graphs!Selected \in SUBSET Nodes
  <2>1. Graphs!TreeScope \in SUBSET Nodes /\ Graphs!Associations \in SUBSET Graphs!Edges
    BY <1>0 DEF Graphs!TreeScope, Graphs!Associations, Graphs!Seen, ReaderTyped, Tables
  <2>2. Cardinality(Nodes) \in Nat /\ {reader.root} \in SUBSET Nodes
    BY <1>0, GraphConstants, FS_CardinalityType
  <2>3. Graphs!Spread({reader.root}, Graphs!Associations, Cardinality(Nodes)) \in SUBSET Nodes
    BY <2>1, <2>2, SpreadWithin
  <2>4. Graphs!Component \in SUBSET Nodes
    BY <2>3, GraphCardinality DEF Graphs!Component
  <2> QED
    BY <2>1, <2>4 DEF Graphs!Selected
<1> QED
  BY <1>0, <1>1, <1>2, <1>3, <1>4, UndeliveredKeeps DEF ReaderTyped, Undelivered

LEMMA GraphLoadTreeEdges == ASSUME GraphInv, Graphs!LoadTreeEdges PROVE GraphInv'
<1>0. reader.at = "treeedges" /\ reader.op = "tree" /\ ReaderTyped
  BY DEF Graphs!LoadTreeEdges, GraphInv, GraphPoints, WalkPoints
<1>1. /\ reader'.snap = reader.snap /\ reader'.nodes = reader.nodes
      /\ reader'.edges = {e \in reader.snap.edges : Graphs!Within(e, reader.nodes)}
      /\ reader'.root = reader.root /\ reader'.at = "plant" /\ Undelivered
  BY <1>0, GraphIdle DEF Graphs!LoadTreeEdges, ReaderTyped, Undelivered, Graphs!Seen
<1>2. GraphPoints' /\ NetworkInv' /\ Closed' /\ reader'.edges \in SUBSET Graphs!Edges
  BY <1>0, <1>1 DEF GraphPoints, NetworkInv, Closed, Undelivered, ReaderTyped, Tables
<1> QED
  BY <1>0, <1>1, <1>2, UndeliveredKeeps DEF ReaderTyped, Undelivered

\* The forest is made of what has been read.
LEMMA GraphForest ==
    ASSUME GraphInv, Graphs!VisitRoot \/ Graphs!Discover \/ Graphs!Explored \/ Graphs!Plant
    PROVE  GraphInv'
<1>0. reader.at = "plant" /\ reader.op = "tree" /\ ReaderTyped
  BY DEF Graphs!VisitRoot, Graphs!Discover, Graphs!Explored, Graphs!Plant, GraphInv, GraphPoints, WalkPoints
<1>1. /\ reader'.snap = reader.snap /\ reader'.nodes = reader.nodes /\ reader'.edges = reader.edges
      /\ reader'.root = reader.root /\ reader'.at \in {"plant", "planted"} /\ Undelivered
  <2>1. CASE Graphs!VisitRoot
    BY <1>0, <2>1, GraphIdle DEF Graphs!VisitRoot, ReaderTyped, Undelivered
  <2>2. CASE Graphs!Discover
    BY <1>0, <2>2, GraphIdle DEF Graphs!Discover, ReaderTyped, Undelivered
  <2>3. CASE Graphs!Explored
    BY <1>0, <2>3, GraphIdle DEF Graphs!Explored, ReaderTyped, Undelivered
  <2>4. CASE Graphs!Plant
    BY <1>0, <2>4, GraphIdle DEF Graphs!Plant, ReaderTyped, Undelivered
  <2> QED
    BY <2>1, <2>2, <2>3, <2>4
<1>2. Closed
  BY <1>0 DEF GraphInv
<1>3. GraphPoints' /\ NetworkInv' /\ Closed'
  BY <1>0, <1>1, <1>2 DEF GraphPoints, NetworkInv, Closed, Undelivered
<1> QED
  BY <1>0, <1>1, <1>3, UndeliveredKeeps DEF ReaderTyped, Undelivered

LEMMA GraphCutEdges == ASSUME GraphInv, Graphs!CutEdges PROVE GraphInv'
<1>0. reader.at = "cut" /\ reader.op = "overview" /\ ReaderTyped /\ db \in Tables
  BY DEF Graphs!CutEdges, GraphInv, GraphPoints, WalkPoints
<1> PICK S : S = {e \in db.edges : Graphs!Within(e, reader.nodes)}
  OBVIOUS
<1>1. /\ reader'.snap = reader.snap /\ reader'.nodes = reader.nodes
      /\ reader'.edges = Graphs!LeastOf(S, reader.size)
      /\ reader'.root = reader.root /\ reader'.at = "cutdone" /\ Undelivered
  BY <1>0, GraphIdle DEF Graphs!CutEdges, ReaderTyped, Undelivered
<1>2. Graphs!LeastOf(S, reader.size) \subseteq S /\ S \in SUBSET Graphs!Edges
  <2>1. S \in SUBSET Graphs!Edges /\ reader.size \in Nat
    BY <1>0 DEF Tables, ReaderTyped
  <2>2. S \in SUBSET Nat /\ IsFiniteSet(S)
    BY <2>1, GraphFinite
  <2> QED
    BY <2>1, <2>2, LeastKept
<1>3. GraphPoints' /\ NetworkInv' /\ Closed'
  BY <1>0, <1>1, <1>2 DEF GraphPoints, NetworkInv, Closed, Undelivered
<1>4. reader'.edges \in SUBSET Graphs!Edges
  BY <1>1, <1>2
<1> QED
  BY <1>0, <1>1, <1>3, <1>4, UndeliveredKeeps DEF ReaderTyped, Undelivered

LEMMA GraphLoadHints == ASSUME GraphInv, Graphs!LoadHints PROVE GraphInv'
<1>0. reader.at = "hints" /\ reader.op = "network" /\ ReaderTyped /\ Cardinality(reader.nodes) <= Budget
  BY DEF Graphs!LoadHints, GraphInv, GraphPoints, WalkPoints, NetworkInv
<1> PICK S : S = {e \in reader.snap.edges : Graphs!IsHint(e) /\ Graphs!Ends(e) \intersect reader.nodes # {}}
  OBVIOUS
<1>1. /\ reader'.snap = reader.snap /\ reader'.nodes = reader.nodes
      /\ reader'.edges = Graphs!LeastOf(S, Budget)
      /\ reader'.root = reader.root /\ reader'.at = "clusters" /\ Undelivered
  BY <1>0, GraphIdle DEF Graphs!LoadHints, ReaderTyped, Undelivered, Graphs!Seen
<1>2. Graphs!LeastOf(S, Budget) \subseteq S /\ S \in SUBSET Graphs!Edges
  <2>1. S \in SUBSET Graphs!Edges /\ Budget \in Nat
    BY <1>0, GraphAssumption DEF Tables, ReaderTyped
  <2>2. S \in SUBSET Nat /\ IsFiniteSet(S)
    BY <2>1, GraphFinite
  <2> QED
    BY <2>1, <2>2, LeastKept
<1>3. GraphPoints' /\ NetworkInv'
  BY <1>0, <1>1 DEF GraphPoints, NetworkInv, Undelivered
<1>4. reader'.edges \in SUBSET Graphs!Edges
  BY <1>1, <1>2
<1> QED
  BY <1>0, <1>1, <1>3, <1>4, UndeliveredKeeps DEF ReaderTyped, Undelivered

\* Clusters fill what the budget has left.
LEMMA GraphLoadClusters == ASSUME GraphInv, Graphs!LoadClusters PROVE GraphInv'
<1>0. reader.at = "clusters" /\ reader.op = "network" /\ ReaderTyped /\ Cardinality(reader.nodes) <= Budget
  BY DEF Graphs!LoadClusters, GraphInv, GraphPoints, WalkPoints, NetworkInv
<1> PICK C : C = Graphs!Clusters
  OBVIOUS
<1>1. /\ reader'.snap = reader.snap /\ reader'.nodes = reader.nodes \union C
      /\ reader'.edges = {e \in reader.edges : Graphs!Within(e, reader.nodes \union C)}
      /\ reader'.root = reader.root /\ reader'.at = "hinted" /\ Undelivered
  BY <1>0, GraphIdle DEF Graphs!LoadClusters, Graphs!KeptHints, ReaderTyped, Undelivered
<1>2. /\ IsFiniteSet(reader.nodes) /\ Cardinality(reader.nodes) \in Nat /\ Budget \in Nat
      /\ Budget - Cardinality(reader.nodes) \in Nat
  <2>1. IsFiniteSet(reader.nodes)
    BY <1>0, GraphFinite DEF ReaderTyped
  <2>2. Cardinality(reader.nodes) \in Nat /\ Budget \in Nat
    BY <2>1, FS_CardinalityType, GraphAssumption
  <2> QED
    BY <1>0, <2>1, <2>2
<1>3. C \in SUBSET Nodes /\ IsFiniteSet(C) /\ Cardinality(C) <= Budget - Cardinality(reader.nodes)
  <2> PICK S, n :
        /\ S = {k \in reader.snap.nodes : Kind[k] = "cluster" /\ k \notin reader.nodes
                  /\ \E e \in reader.edges : EdgeAt[e].kind = "cluster_member" /\ EdgeAt[e].to = k}
        /\ n = Budget - Cardinality(reader.nodes)
    OBVIOUS
  <2>1. C = Graphs!LeastOf(S, n)
    BY GraphCardinality DEF Graphs!Clusters, Graphs!Seen
  <2>2. S \in SUBSET Nodes /\ n \in Nat
    BY <1>0, <1>2 DEF Tables, ReaderTyped
  <2>3. S \in SUBSET Nat /\ IsFiniteSet(S)
    BY <2>2, GraphFinite
  <2>4. C \subseteq S /\ IsFiniteSet(C) /\ Cardinality(C) <= n
    BY ONLY <2>1, <2>2, <2>3, LeastKept
  <2> QED
    BY <2>2, <2>4
<1>4. Cardinality(reader.nodes \union C) <= Budget
  <2>1. Cardinality(C) \in Nat /\ Cardinality(reader.nodes \intersect C) \in Nat
    BY <1>2, <1>3, FS_CardinalityType, FS_Intersection
  <2>2. Cardinality(reader.nodes \union C) =
          Cardinality(reader.nodes) + Cardinality(C) - Cardinality(reader.nodes \intersect C)
    BY <1>2, <1>3, FS_Union
  <2> QED
    BY <1>2, <1>3, <2>1, <2>2
<1>5. GraphPoints' /\ NetworkInv' /\ Closed'
  BY <1>0, <1>1, <1>4 DEF GraphPoints, NetworkInv, Closed, Undelivered
<1>6. reader'.nodes \in SUBSET Nodes /\ reader'.edges \in SUBSET Graphs!Edges
  BY <1>0, <1>1, <1>3 DEF ReaderTyped
<1> QED
  BY <1>0, <1>1, <1>5, <1>6, UndeliveredKeeps DEF ReaderTyped, Undelivered

----------------------------------------------------------------------------
(* The projection, and all steps                                            *)

LEMMA GraphProject == ASSUME GraphInv, Graphs!Project PROVE GraphInv'
<1>1. reader' = reader /\ changes < MaxChanges /\ changes' = changes + 1 /\ changes \in 0..MaxChanges
  BY DEF Graphs!Project, GraphInv
<1>2. changes' \in 0..MaxChanges
  BY <1>1, GraphAssumption
<1>3. db' \in Tables
  <2>1. db \in Tables
    BY DEF GraphInv
  <2>2. ASSUME NEW n \in Nodes, db' = [db EXCEPT !.nodes = IF n \in @ THEN @ \ {n} ELSE @ \union {n}]
        PROVE  db' \in Tables
    BY <2>1, <2>2 DEF Tables
  <2>3. ASSUME NEW e \in Graphs!Edges, db' = [db EXCEPT !.edges = IF e \in @ THEN @ \ {e} ELSE @ \union {e}]
        PROVE  db' \in Tables
    BY <2>1, <2>3 DEF Tables
  <2> QED
    BY <2>2, <2>3 DEF Graphs!Project
<1>4. Graphs!InFocus' = Graphs!InFocus /\ Graphs!EdgesInFocus' = Graphs!EdgesInFocus
  BY <1>1, FocusSame
<1>5. GraphPoints' /\ ReaderTyped' /\ Behind' /\ NetworkInv' /\ WalkInv' = WalkInv /\ Closed' = Closed
  BY <1>1, <1>4 DEF GraphInv, GraphPoints, ReaderTyped, Behind, NetworkInv, WalkInv, Closed,
                    NodesRead, EdgesRead, NodesAhead, EdgesAhead
<1> QED
  BY <1>1, <1>2, <1>3, <1>5 DEF GraphInv

LEMMA GraphSame == ASSUME GraphInv, UNCHANGED <<db, reader, changes>> PROVE GraphInv'
<1>1. Graphs!InFocus' = Graphs!InFocus /\ Graphs!EdgesInFocus' = Graphs!EdgesInFocus
  BY FocusSame
<1>2. GraphPoints' /\ ReaderTyped' /\ Behind' /\ NetworkInv' /\ WalkInv' = WalkInv /\ Closed' = Closed
  BY <1>1 DEF GraphInv, GraphPoints, ReaderTyped, Behind, NetworkInv, WalkInv, Closed,
              NodesRead, EdgesRead, NodesAhead, EdgesAhead
<1> QED
  BY <1>2 DEF GraphInv

LEMMA GraphStep == ASSUME GraphInv, Graphs!Next PROVE GraphInv'
<1>1. ASSUME NEW ap \in {n \in Nodes : Kind[n] = "ap"}, NEW r \in SUBSET {n \in Nodes : Kind[n] = "device"},
             Graphs!Neighbourhood(ap, r)
      PROVE  GraphInv'
  <2>1. ap \in Nodes /\ r \in SUBSET Nodes
    OBVIOUS
  <2> QED
    BY <1>1, <2>1, GraphNeighbourhood
<1> QED
  BY <1>1, GraphWalk, GraphBeginPage, GraphFocus, GraphNodesPage, GraphEdgesPage, GraphDeliver, GraphFailPage,
     GraphHierarchy, GraphResolveRoot, GraphLoadTreeNodes, GraphLoadTreeEdges, GraphForest,
     GraphOverview, GraphCutEdges, GraphLoadHints, GraphLoadClusters, GraphProject
     DEF Graphs!Next

----------------------------------------------------------------------------
(* Distances along edges                                                    *)

\* Two walks agree as far as both go.
LEMMA HopsAgree ==
    ASSUME NEW S, NEW Es, NEW k \in Nat, NEW m \in Nat, NEW g, NEW h, Hopped(g, S, Es, k), Hopped(h, S, Es, m)
    PROVE  \A i \in Nat : i <= k /\ i <= m => g[i] = h[i]
<1> DEFINE T == {i \in Nat : i <= k /\ i <= m /\ g[i] # h[i]}
<1>1. /\ \A i \in 0..k : g[i] = IF i = 0 THEN S ELSE Grown(Es, g[i - 1])
      /\ \A i \in 0..m : h[i] = IF i = 0 THEN S ELSE Grown(Es, h[i - 1])
  BY DEF Hopped
<1>2. ASSUME T # {} PROVE FALSE
  <2>1. PICK i \in T : \A j \in T : i <= j
    BY <1>2, LeastNat
  <2>2. i \in 0..k /\ i \in 0..m /\ i # 0
    BY <1>1
  <2>3. i - 1 \in Nat /\ i - 1 \notin T /\ i - 1 <= k /\ i - 1 <= m
    BY <2>1, <2>2
  <2>4. g[i - 1] = h[i - 1]
    BY <2>3
  <2> QED
    BY <1>1, <2>2, <2>4
<1> QED
  BY <1>2

\* One step more is what the edges at the nodes reached lead to.
LEMMA SpreadSteps ==
    ASSUME NEW S, NEW Es
    PROVE  /\ Graphs!Spread(S, Es, 0) = S
           /\ \A k \in Nat : Graphs!Spread(S, Es, k + 1) = Grown(Es, Graphs!Spread(S, Es, k))
<1> DEFINE near(k) == CHOOSE g : Hopped(g, S, Es, k)
<1>1. ASSUME NEW k \in Nat PROVE Graphs!Spread(S, Es, k) = near(k)[k] /\ Hopped(near(k), S, Es, k)
  <2>1. Graphs!Spread(S, Es, k) = near(k)[k]
    BY DEF Graphs!Spread, Hopped, Grown
  <2>2. Hopped(near(k), S, Es, k)
    BY HopsExist
  <2> QED
    BY <2>1, <2>2
<1> HIDE DEF near
<1>2. Graphs!Spread(S, Es, 0) = S
  <2>1. Hopped(near(0), S, Es, 0) /\ Graphs!Spread(S, Es, 0) = near(0)[0]
    BY <1>1
  <2>2. near(0)[0] = S
    BY <2>1 DEF Hopped
  <2> QED
    BY <2>1, <2>2
<1>3. ASSUME NEW k \in Nat PROVE Graphs!Spread(S, Es, k + 1) = Grown(Es, Graphs!Spread(S, Es, k))
  <2> PICK g, h : g = near(k) /\ h = near(k + 1)
    OBVIOUS
  <2>0. k + 1 \in Nat
    OBVIOUS
  <2>1. /\ Hopped(g, S, Es, k) /\ Graphs!Spread(S, Es, k) = g[k]
        /\ Hopped(h, S, Es, k + 1) /\ Graphs!Spread(S, Es, k + 1) = h[k + 1]
    BY <1>1, <2>0
  <2>2. g[k] = h[k]
    BY <2>0, <2>1, HopsAgree
  <2>3. h[k + 1] = Grown(Es, h[k])
    BY <2>1 DEF Hopped
  <2> QED
    BY <2>1, <2>2, <2>3
<1> QED
  BY <1>2, <1>3

\* Whoever takes more steps gets as far at least.
LEMMA SpreadFurther ==
    ASSUME NEW S, NEW Es, NEW k \in Nat
    PROVE  \A m \in Nat : Graphs!Spread(S, Es, k) \subseteq Graphs!Spread(S, Es, k + m)
<1> DEFINE near(i) == Graphs!Spread(S, Es, i)
           T == {m \in Nat : ~(near(k) \subseteq near(k + m))}
<1>1. \A i \in Nat : near(i) \subseteq near(i + 1)
  BY SpreadSteps DEF Grown
<1> HIDE DEF near
<1>2. ASSUME T # {} PROVE FALSE
  <2>1. PICK m \in T : \A j \in T : m <= j
    BY <1>2, LeastNat
  <2>2. m # 0
    BY k + 0 = k
  <2>3. m - 1 \in Nat /\ m - 1 \notin T /\ k + m = (k + (m - 1)) + 1 /\ k + (m - 1) \in Nat
    BY <2>1, <2>2
  <2>4. near(k) \subseteq near(k + (m - 1)) /\ near(k + (m - 1)) \subseteq near(k + m)
    BY <1>1, <2>3
  <2> QED
    BY <2>4
<1> QED
  BY <1>2 DEF near

\* A set that no edge leaves is not left.
LEMMA SpreadInside ==
    ASSUME NEW S, NEW Es, NEW C, S \subseteq C,
           \A e \in Es : Graphs!Ends(e) \intersect C # {} => Graphs!Ends(e) \subseteq C
    PROVE  \A k \in Nat : Graphs!Spread(S, Es, k) \subseteq C
<1> DEFINE near(i) == Graphs!Spread(S, Es, i)
           T == {m \in Nat : ~(near(m) \subseteq C)}
<1>1. near(0) = S /\ \A i \in Nat : near(i + 1) = Grown(Es, near(i))
  BY SpreadSteps
<1> HIDE DEF near
<1>2. ASSUME T # {} PROVE FALSE
  <2>1. PICK m \in T : \A j \in T : m <= j
    BY <1>2, LeastNat
  <2>2. m # 0
    BY <1>1
  <2>3. m - 1 \in Nat /\ m - 1 \notin T /\ m = (m - 1) + 1
    BY <2>1, <2>2
  <2>4. near(m - 1) \subseteq C /\ near(m) = Grown(Es, near(m - 1))
    BY <1>1, <2>3
  <2>5. Grown(Es, near(m - 1)) \subseteq C
    BY <2>4 DEF Grown
  <2> QED
    BY <2>4, <2>5
<1> QED
  BY <1>2 DEF near

----------------------------------------------------------------------------
(* The forest of a graph with nodes N and edges Es around the root r        *)

Forests(N, Es) ==
    [depth : [N -> Nat \union {-1}], parent : [N -> Nat], tree : SUBSET Es, roots : Seq(N), queue : Seq(N)]
Placed(t, N) == {n \in N : t.depth[n] # -1}
Linked(Es, u, v) == \E e \in Es : Graphs!IsAssociation(e) /\ u \in Graphs!Ends(e) /\ v \in Graphs!Ends(e)
Reached(t, n) == \E i \in DOMAIN t.queue : t.queue[i] = n

\* The chosen root is first, and every root is one once.
RootsListed(t, N, r) ==
    /\ t.roots = <<>> => Placed(t, N) = {}
    /\ t.roots # <<>> => t.roots[1] = r
    /\ \A i \in DOMAIN t.roots : t.depth[t.roots[i]] = 0
    /\ \A i, j \in DOMAIN t.roots : t.roots[i] = t.roots[j] => i = j
    /\ \A n \in N : t.depth[n] = 0 => \E i \in DOMAIN t.roots : t.roots[i] = n

\* The others hang by an edge from a node one step nearer.
HangsBelow(t, n) ==
    /\ t.depth[t.parent[n]] = t.depth[n] - 1
    /\ \E e \in t.tree : Graphs!Ends(e) = {n, t.parent[n]}
Hanging(t, N) == \A n \in Placed(t, N) : t.depth[n] # 0 => t.parent[n] \in Placed(t, N) /\ HangsBelow(t, n)

\* There is one association in the tree for each of them, and depths are less than the nodes placed.
EdgesCounted(t, N) ==
    /\ \A e \in t.tree : Graphs!IsAssociation(e) /\ Graphs!Ends(e) \subseteq Placed(t, N)
    /\ Cardinality(t.tree) + Len(t.roots) = Cardinality(Placed(t, N))
    /\ \A n \in Placed(t, N) : t.depth[n] < Cardinality(Placed(t, N))

\* The queue holds nodes of one level and then of the next.
QueueLevel(t, N) ==
    /\ \A i \in DOMAIN t.queue : t.queue[i] \in Placed(t, N) /\ t.depth[t.queue[i]] <= t.depth[t.queue[1]] + 1
    /\ \A i, j \in DOMAIN t.queue : i <= j => t.depth[t.queue[i]] <= t.depth[t.queue[j]]

\* A node that has left the queue has its neighbours at most one level below it, and
\* those that wait not above it.
LeftComplete(t, N, Es) ==
    \A u \in Placed(t, N), v \in N :
        Linked(Es, u, v) /\ ~Reached(t, u) =>
            /\ v \in Placed(t, N) /\ t.depth[v] <= t.depth[u] + 1
            /\ Reached(t, v) => t.depth[u] <= t.depth[v]

\* Roots are apart: some set that no association leaves has one and not the other.
Sealed(C, N, Es) == \A u \in C, v \in N : Linked(Es, u, v) => v \in C
RootsApart(t, N, Es) ==
    \A i, j \in DOMAIN t.roots : i # j =>
        \E C \in SUBSET N : t.roots[i] \in C /\ t.roots[j] \notin C /\ Sealed(C, N, Es)

ForestOk(t, N, Es, r) ==
    /\ t \in Forests(N, Es)
    /\ RootsListed(t, N, r) /\ Hanging(t, N) /\ EdgesCounted(t, N)
    /\ QueueLevel(t, N) /\ LeftComplete(t, N, Es) /\ RootsApart(t, N, Es)

\* A finite set with one element more.
LEMMA OneMore ==
    ASSUME NEW S, IsFiniteSet(S), NEW x, x \notin S
    PROVE  Cardinality(S) \in Nat /\ Cardinality(S \union {x}) = Cardinality(S) + 1
<1>1. Cardinality(S) \in Nat
  BY FS_CardinalityType
<1>2. Cardinality(S \union {x}) = IF x \in S THEN Cardinality(S) ELSE Cardinality(S) + 1
  BY FS_AddElement
<1> QED
  BY <1>1, <1>2

\* Nothing has a place yet.
LEMMA BareForest ==
    ASSUME NEW N, NEW Es, NEW r,
           NEW t, t = [depth |-> [n \in N |-> -1], parent |-> [n \in N |-> 0],
                       tree |-> {}, roots |-> <<>>, queue |-> <<>>]
    PROVE  ForestOk(t, N, Es, r)
<1>1. /\ t \in Forests(N, Es) /\ t.roots = <<>> /\ t.queue = <<>> /\ t.tree = {}
      /\ \A n \in N : t.depth[n] = -1 /\ t.depth[n] # 0
  BY DEF Forests
<1>2. Placed(t, N) = {} /\ DOMAIN t.roots = {} /\ DOMAIN t.queue = {}
  BY <1>1 DEF Placed
<1>3. Cardinality(t.tree) = 0 /\ Cardinality(Placed(t, N)) = 0 /\ Len(t.roots) = 0
  BY <1>1, <1>2, FS_EmptySet
<1>4. RootsListed(t, N, r)
  BY ONLY <1>1, <1>2 DEF RootsListed
<1>5. EdgesCounted(t, N)
  BY ONLY <1>1, <1>2, <1>3 DEF EdgesCounted
<1> QED
  BY <1>1, <1>2, <1>4, <1>5 DEF ForestOk, Hanging, QueueLevel, LeftComplete, RootsApart

\* The next root: nothing waits, so what has been placed is sealed.
LEMMA RootKeeps ==
    ASSUME NEW N, IsFiniteSet(N), NEW Es, IsFiniteSet(Es), NEW r \in N, NEW t, ForestOk(t, N, Es, r), t.queue = <<>>,
           NEW n \in N, t.depth[n] = -1, t.roots = <<>> => n = r
    PROVE  ForestOk(Graphs!Rooted(t, n), N, Es, r)
<1> PICK u : u = Graphs!Rooted(t, n)
  OBVIOUS
<1>0. t \in Forests(N, Es)
  BY DEF ForestOk
<1>1. /\ u = [depth |-> [t.depth EXCEPT ![n] = 0], parent |-> t.parent, tree |-> t.tree,
              roots |-> Append(t.roots, n), queue |-> <<n>>]
  BY <1>0 DEF Graphs!Rooted, Forests
<1>2. /\ t.roots \in Seq(N) /\ t.depth \in [N -> Nat \union {-1}] /\ t.parent \in [N -> Nat]
      /\ t.tree \in SUBSET Es /\ Len(t.roots) \in Nat
  BY <1>0 DEF Forests
<1>3. /\ u.roots \in Seq(N) /\ Len(u.roots) = Len(t.roots) + 1 /\ DOMAIN u.roots = 1..(Len(t.roots) + 1)
      /\ DOMAIN t.roots = 1..Len(t.roots)
      /\ u.roots[Len(t.roots) + 1] = n /\ \A i \in DOMAIN t.roots : u.roots[i] = t.roots[i]
  BY <1>1, <1>2
<1>4. /\ u.depth \in [N -> Nat \union {-1}] /\ u.depth[n] = 0 /\ \A m \in N : m # n => u.depth[m] = t.depth[m]
      /\ u.parent = t.parent /\ u.tree = t.tree
      /\ u.queue \in Seq(N) /\ DOMAIN u.queue = {1} /\ u.queue[1] = n
  BY <1>1, <1>2
<1>5. u \in Forests(N, Es)
  BY <1>1, <1>2, <1>3, <1>4 DEF Forests
<1>6. Placed(u, N) = Placed(t, N) \union {n} /\ n \notin Placed(t, N) /\ Placed(t, N) \in SUBSET N
  BY <1>4 DEF Placed
<1>7. IsFiniteSet(Placed(t, N)) /\ Cardinality(Placed(t, N)) \in Nat
      /\ Cardinality(Placed(u, N)) = Cardinality(Placed(t, N)) + 1
  <2>1. IsFiniteSet(Placed(t, N))
    BY <1>6, FS_Subset
  <2> QED
    BY ONLY <1>6, <2>1, OneMore
<1>8. RootsListed(u, N, r)
  <2>0. RootsListed(t, N, r)
    BY DEF ForestOk
  <2>1. ASSUME NEW i \in DOMAIN t.roots PROVE t.roots[i] \in N /\ t.roots[i] # n /\ u.depth[t.roots[i]] = 0
    <3>1. t.roots[i] \in N /\ t.depth[t.roots[i]] = 0
      BY <1>2, <2>0 DEF RootsListed
    <3>2. t.roots[i] # n
      BY <3>1
    <3> QED
      BY ONLY <1>4, <3>1, <3>2
  <2>2. u.roots # <<>> /\ u.roots[1] = r
    <3>1. CASE t.roots = <<>>
      BY <1>3, <3>1
    <3>2. CASE t.roots # <<>>
      <4>1. 1 \in DOMAIN t.roots
        BY <1>2, <3>2
      <4> QED
        BY <1>3, <2>0, <3>2, <4>1 DEF RootsListed
    <3> QED
      BY <3>1, <3>2
  <2>3. ASSUME NEW i \in DOMAIN u.roots
        PROVE  u.depth[u.roots[i]] = 0 /\ (i \in DOMAIN t.roots \/ i = Len(t.roots) + 1)
    <3>1. i \in DOMAIN t.roots \/ i = Len(t.roots) + 1
      BY <1>2, <1>3
    <3> QED
      BY <1>3, <1>4, <2>1, <3>1
  <2>4. ASSUME NEW i \in DOMAIN u.roots, NEW j \in DOMAIN u.roots, u.roots[i] = u.roots[j] PROVE i = j
    BY <1>3, <2>0, <2>1, <2>3, <2>4 DEF RootsListed
  <2>5. ASSUME NEW m \in N, u.depth[m] = 0 PROVE \E i \in DOMAIN u.roots : u.roots[i] = m
    <3>1. CASE m = n
      <4>1. Len(t.roots) + 1 \in DOMAIN u.roots
        BY <1>2, <1>3
      <4> QED
        BY <1>3, <3>1, <4>1
    <3>2. CASE m # n
      <4>1. PICK i \in DOMAIN t.roots : t.roots[i] = m
        BY <1>4, <2>0, <2>5, <3>2 DEF RootsListed
      <4>2. i \in DOMAIN u.roots
        BY <1>2, <1>3
      <4> QED
        BY <1>3, <4>1, <4>2
    <3> QED
      BY <3>1, <3>2
  <2> QED
    BY <2>2, <2>3, <2>4, <2>5 DEF RootsListed
<1>9. Hanging(u, N)
  <2> SUFFICES ASSUME NEW m \in Placed(u, N), u.depth[m] # 0
               PROVE  u.parent[m] \in Placed(u, N) /\ HangsBelow(u, m)
    BY DEF Hanging
  <2>1. m # n /\ m \in Placed(t, N) /\ u.depth[m] = t.depth[m]
    BY <1>4, <1>6 DEF Placed
  <2>2. t.parent[m] \in Placed(t, N) /\ HangsBelow(t, m)
    BY <1>4, <2>1 DEF ForestOk, Hanging
  <2>3. u.depth[t.parent[m]] = t.depth[t.parent[m]] /\ u.parent[m] = t.parent[m]
    BY <1>4, <1>6, <2>2 DEF Placed
  <2> QED
    BY <1>4, <1>6, <2>1, <2>2, <2>3 DEF HangsBelow
<1>10. EdgesCounted(u, N)
  <2>0. EdgesCounted(t, N)
    BY DEF ForestOk
  <2>1. \A e \in u.tree : Graphs!IsAssociation(e) /\ Graphs!Ends(e) \subseteq Placed(u, N)
    BY <1>4, <1>6, <2>0 DEF EdgesCounted
  <2>2. Cardinality(u.tree) + Len(u.roots) = Cardinality(Placed(u, N))
    <3>1. Cardinality(t.tree) \in Nat
      BY <1>2, FS_Subset, FS_CardinalityType
    <3> QED
      BY <1>2, <3>1, <1>3, <1>4, <1>7, <2>0 DEF EdgesCounted
  <2>3. ASSUME NEW m \in Placed(u, N) PROVE u.depth[m] < Cardinality(Placed(u, N))
    <3>1. CASE m = n
      BY <1>4, <1>7, <3>1
    <3>2. CASE m # n
      <4>1. m \in Placed(t, N) /\ u.depth[m] = t.depth[m] /\ t.depth[m] \in Int
        BY <1>2, <1>4, <1>6, <3>2 DEF Placed
      <4>2. t.depth[m] < Cardinality(Placed(t, N))
        BY <2>0, <4>1 DEF EdgesCounted
      <4> QED
        BY <1>7, <4>1, <4>2
    <3> QED
      BY <3>1, <3>2
  <2> QED
    BY <2>1, <2>2, <2>3 DEF EdgesCounted
<1>11. QueueLevel(u, N)
  BY <1>4, <1>6 DEF QueueLevel
<1>12. Sealed(Placed(t, N), N, Es)
  <2> SUFFICES ASSUME NEW v \in Placed(t, N), NEW w \in N, Linked(Es, v, w) PROVE w \in Placed(t, N)
    BY DEF Sealed
  <2>1. ~Reached(t, v)
    BY DEF Reached
  <2> QED
    BY <2>1 DEF ForestOk, LeftComplete
<1>13. Sealed(N \ Placed(t, N), N, Es)
  BY <1>12 DEF Sealed, Linked
<1>14. LeftComplete(u, N, Es)
  <2> SUFFICES ASSUME NEW v \in Placed(u, N), NEW w \in N, Linked(Es, v, w), ~Reached(u, v)
               PROVE  /\ w \in Placed(u, N) /\ u.depth[w] <= u.depth[v] + 1
                      /\ Reached(u, w) => u.depth[v] <= u.depth[w]
    BY DEF LeftComplete
  <2>1. v # n /\ v \in Placed(t, N) /\ ~Reached(t, v)
    BY <1>4, <1>6 DEF Reached
  <2>2. w \in Placed(t, N) /\ t.depth[w] <= t.depth[v] + 1
    BY <2>1 DEF ForestOk, LeftComplete
  <2>3. w # n /\ ~Reached(u, w)
    BY <1>4, <1>6, <2>2 DEF Reached
  <2> QED
    BY <1>4, <1>6, <2>1, <2>2, <2>3
<1>15. RootsApart(u, N, Es)
  <2> SUFFICES ASSUME NEW i \in DOMAIN u.roots, NEW j \in DOMAIN u.roots, i # j
               PROVE  \E C \in SUBSET N : u.roots[i] \in C /\ u.roots[j] \notin C /\ Sealed(C, N, Es)
    BY DEF RootsApart
  <2>0. /\ i \in DOMAIN t.roots \/ i = Len(t.roots) + 1
        /\ j \in DOMAIN t.roots \/ j = Len(t.roots) + 1
    BY <1>2, <1>3
  <2>1. \A k \in DOMAIN t.roots : t.roots[k] \in Placed(t, N)
    BY <1>2 DEF ForestOk, RootsListed, Placed
  <2>2. CASE i \in DOMAIN t.roots /\ j \in DOMAIN t.roots
    <3>1. PICK C \in SUBSET N : t.roots[i] \in C /\ t.roots[j] \notin C /\ Sealed(C, N, Es)
      BY <2>2 DEF ForestOk, RootsApart
    <3> QED
      BY <1>3, <2>2, <3>1
  <2>3. CASE i \in DOMAIN t.roots /\ j = Len(t.roots) + 1
    BY <1>3, <1>6, <1>12, <2>1, <2>3
  <2>4. CASE i = Len(t.roots) + 1 /\ j \in DOMAIN t.roots
    <3>1. u.roots[i] \in N \ Placed(t, N) /\ u.roots[j] \notin N \ Placed(t, N) /\ N \ Placed(t, N) \in SUBSET N
      BY <1>3, <1>6, <2>1, <2>4
    <3> QED
      BY <1>13, <3>1
  <2> QED
    BY <2>0, <2>2, <2>3, <2>4
<1> QED
  BY <1>5, <1>8, <1>9, <1>10, <1>11, <1>14, <1>15 DEF ForestOk

\* A node found from the head of the queue joins its end, one level below the head.
LEMMA DiscoverKeeps ==
    ASSUME NEW N, N \subseteq Nat, IsFiniteSet(N), NEW Es, IsFiniteSet(Es), NEW r, NEW t, ForestOk(t, N, Es, r),
           t.queue # <<>>, NEW p, p = Head(t.queue), NEW e \in Es, Graphs!IsAssociation(e), p \in Graphs!Ends(e),
           NEW c \in N, c = Graphs!Across(e, p), t.depth[c] = -1
    PROVE  ForestOk(Graphs!Discovered(t, p, e), N, Es, r)
<1> PICK u : u = Graphs!Discovered(t, p, e)
  OBVIOUS
<1>0. t \in Forests(N, Es)
  BY DEF ForestOk
<1>1. u = [depth |-> [t.depth EXCEPT ![c] = t.depth[p] + 1], parent |-> [t.parent EXCEPT ![c] = p],
           tree |-> t.tree \union {e}, roots |-> t.roots, queue |-> Append(t.queue, c)]
  BY <1>0 DEF Graphs!Discovered, Forests
<1>2. /\ t.roots \in Seq(N) /\ t.queue \in Seq(N) /\ t.depth \in [N -> Nat \union {-1}] /\ t.parent \in [N -> Nat]
      /\ t.tree \in SUBSET Es /\ Len(t.roots) \in Nat /\ Len(t.queue) \in Nat /\ DOMAIN t.queue = 1..Len(t.queue)
  BY <1>0 DEF Forests
<1>3. /\ 1 \in DOMAIN t.queue /\ p = t.queue[1] /\ p \in Placed(t, N) /\ p \in N /\ t.depth[p] \in Nat /\ p # c
      /\ p \in Nat
  <2>1. 1 \in DOMAIN t.queue /\ p = t.queue[1]
    BY <1>2
  <2>2. p \in Placed(t, N)
    BY <2>1 DEF ForestOk, QueueLevel
  <2> QED
    BY <1>2, <2>1, <2>2 DEF Placed
<1>4. Graphs!Ends(e) = {p, c}
  BY DEF Graphs!Ends, Graphs!Across
<1>5. /\ u.depth \in [N -> Nat \union {-1}] /\ u.depth[c] = t.depth[p] + 1
      /\ \A m \in N : m # c => u.depth[m] = t.depth[m] /\ u.parent[m] = t.parent[m]
      /\ u.parent \in [N -> Nat] /\ u.parent[c] = p /\ u.tree = t.tree \union {e} /\ u.roots = t.roots
  <2>1. /\ u.depth = [t.depth EXCEPT ![c] = t.depth[p] + 1] /\ u.parent = [t.parent EXCEPT ![c] = p]
        /\ u.tree = t.tree \union {e} /\ u.roots = t.roots
    BY ONLY <1>1
  <2>2. t.depth[p] + 1 \in Nat
    BY <1>3
  <2> QED
    BY ONLY <1>2, <1>3, <2>1, <2>2, c \in N
<1>6. /\ u.queue \in Seq(N) /\ DOMAIN u.queue = 1..(Len(t.queue) + 1) /\ u.queue[Len(t.queue) + 1] = c
      /\ \A i \in DOMAIN t.queue : i \in DOMAIN u.queue /\ u.queue[i] = t.queue[i]
      /\ \A i \in DOMAIN u.queue : i \in DOMAIN t.queue \/ i = Len(t.queue) + 1
  <2> PICK q : q = t.queue
    OBVIOUS
  <2>1. u.queue = Append(q, c) /\ q \in Seq(N) /\ c \in N
    BY <1>1, <1>2
  <2>2. Append(q, c) \in Seq(N) /\ Len(Append(q, c)) = Len(q) + 1 /\ Len(q) \in Nat
    BY ONLY <2>1
  <2>3. \A i \in 1..Len(q) : Append(q, c)[i] = q[i]
    BY ONLY <2>1
  <2>4. Append(q, c)[Len(q) + 1] = c
    BY ONLY <2>1
  <2>5. DOMAIN q = 1..Len(q) /\ DOMAIN Append(q, c) = 1..(Len(q) + 1)
    BY ONLY <2>1, <2>2
  <2> QED
    BY ONLY <2>1, <2>2, <2>3, <2>4, <2>5, q = t.queue
<1>7. u \in Forests(N, Es)
  BY <1>1, <1>2, <1>5, <1>6 DEF Forests
<1>8. /\ Placed(u, N) = Placed(t, N) \union {c} /\ c \notin Placed(t, N) /\ Placed(t, N) \in SUBSET N
      /\ \A m \in Placed(t, N) : m # c /\ u.depth[m] = t.depth[m] /\ u.parent[m] = t.parent[m]
      /\ \A m \in Placed(t, N) : t.depth[m] \in Nat
  <2>1. u.depth[c] # -1
    BY <1>3, <1>5
  <2> QED
    BY <1>2, <1>5, <2>1 DEF Placed
<1>9. IsFiniteSet(Placed(t, N)) /\ Cardinality(Placed(t, N)) \in Nat
      /\ Cardinality(Placed(u, N)) = Cardinality(Placed(t, N)) + 1
  <2>1. IsFiniteSet(Placed(t, N))
    BY <1>8, FS_Subset
  <2> QED
    BY ONLY <1>8, <2>1, OneMore
<1>10. RootsListed(u, N, r)
  <2>0. RootsListed(t, N, r)
    BY DEF ForestOk
  <2>1. t.roots # <<>>
    BY <1>3, <2>0 DEF RootsListed
  <2>2. ASSUME NEW i \in DOMAIN t.roots PROVE u.depth[t.roots[i]] = 0
    <3>1. t.roots[i] \in N /\ t.depth[t.roots[i]] = 0
      BY <1>2, <2>0 DEF RootsListed
    <3>2. t.roots[i] # c
      BY <3>1
    <3> QED
      BY <1>5, <3>1, <3>2
  <2>3. ASSUME NEW m \in N, u.depth[m] = 0 PROVE t.depth[m] = 0
    BY <1>3, <1>5, <2>3
  <2> QED
    BY <1>5, <2>0, <2>1, <2>2, <2>3 DEF RootsListed
<1>11. Hanging(u, N)
  <2> SUFFICES ASSUME NEW m \in Placed(u, N), u.depth[m] # 0
               PROVE  u.parent[m] \in Placed(u, N) /\ HangsBelow(u, m)
    BY DEF Hanging
  <2>1. CASE m = c
    <3>1. u.parent[c] = p /\ u.depth[p] = t.depth[p] /\ u.depth[c] = t.depth[p] + 1 /\ t.depth[p] \in Nat
      BY ONLY <1>3, <1>5
    <3>2. u.depth[p] = u.depth[c] - 1
      BY ONLY <3>1
    <3>3. e \in u.tree /\ Graphs!Ends(e) = {c, u.parent[c]}
      BY ONLY <1>4, <1>5, <3>1
    <3>4. u.parent[c] \in Placed(u, N)
      BY ONLY <1>3, <1>8, <3>1
    <3>5. HangsBelow(u, c)
      BY ONLY <3>1, <3>2, <3>3 DEF HangsBelow
    <3> QED
      BY ONLY <2>1, <3>4, <3>5
  <2>2. CASE m # c
    <3>1. m \in Placed(t, N) /\ u.depth[m] = t.depth[m] /\ u.parent[m] = t.parent[m]
      BY <1>8, <2>2
    <3>2. t.parent[m] \in Placed(t, N) /\ HangsBelow(t, m)
      BY <3>1 DEF ForestOk, Hanging
    <3> QED
      BY <1>5, <1>8, <3>1, <3>2 DEF HangsBelow
  <2> QED
    BY <2>1, <2>2
<1>12. EdgesCounted(u, N)
  <2>0. EdgesCounted(t, N)
    BY DEF ForestOk
  <2>1. \A d \in u.tree : Graphs!IsAssociation(d) /\ Graphs!Ends(d) \subseteq Placed(u, N)
    BY <1>3, <1>4, <1>5, <1>8, <2>0 DEF EdgesCounted
  <2>2. Cardinality(u.tree) = Cardinality(t.tree) + 1 /\ Cardinality(t.tree) \in Nat
    <3>1. e \notin t.tree
      BY <1>4, <1>8, <2>0 DEF EdgesCounted
    <3>2. IsFiniteSet(t.tree)
      BY <1>2, FS_Subset
    <3>3. u.tree = t.tree \union {e}
      BY ONLY <1>5
    <3> QED
      BY ONLY <3>1, <3>2, <3>3, OneMore
  <2>3. Cardinality(u.tree) + Len(u.roots) = Cardinality(Placed(u, N))
    <3>1. Cardinality(t.tree) + Len(t.roots) = Cardinality(Placed(t, N))
      BY ONLY <2>0 DEF EdgesCounted
    <3>2. Len(u.roots) = Len(t.roots) /\ Len(t.roots) \in Nat
      BY ONLY <1>2, <1>5
    <3> QED
      BY ONLY <1>9, <2>2, <3>1, <3>2
  <2>4. ASSUME NEW m \in Placed(u, N) PROVE u.depth[m] < Cardinality(Placed(u, N))
    <3>1. \A l \in Placed(t, N) : t.depth[l] < Cardinality(Placed(t, N))
      BY <2>0 DEF EdgesCounted
    <3>2. CASE m = c
      BY <1>3, <1>5, <1>9, <3>1, <3>2
    <3>3. CASE m # c
      <4>1. m \in Placed(t, N) /\ u.depth[m] = t.depth[m] /\ t.depth[m] \in Nat
        BY <1>8, <3>3
      <4> QED
        BY <1>9, <3>1, <4>1
    <3> QED
      BY <3>2, <3>3
  <2> QED
    BY <2>1, <2>3, <2>4 DEF EdgesCounted
<1>13. QueueLevel(u, N)
  <2>0. QueueLevel(t, N)
    BY DEF ForestOk
  <2>1. ASSUME NEW i \in DOMAIN t.queue
        PROVE  /\ t.queue[i] \in Placed(t, N) /\ u.depth[u.queue[i]] = t.depth[t.queue[i]]
               /\ t.depth[t.queue[i]] \in Nat
               /\ t.depth[t.queue[i]] <= t.depth[p] + 1
    BY <1>3, <1>6, <1>8, <2>0 DEF QueueLevel
  <2>2. u.queue[1] = p /\ u.depth[p] = t.depth[p]
    BY <1>3, <1>6, <1>8
  <2>3. ASSUME NEW i \in DOMAIN u.queue
        PROVE  u.queue[i] \in Placed(u, N) /\ u.depth[u.queue[i]] <= u.depth[u.queue[1]] + 1
    <3>1. CASE i \in DOMAIN t.queue
      BY <1>6, <1>8, <2>1, <2>2, <3>1
    <3>2. CASE i = Len(t.queue) + 1
      BY <1>3, <1>5, <1>6, <1>8, <2>2, <3>2
    <3> QED
      BY <1>6, <3>1, <3>2
  <2>4. ASSUME NEW i \in DOMAIN u.queue, NEW j \in DOMAIN u.queue, i <= j
        PROVE  u.depth[u.queue[i]] <= u.depth[u.queue[j]]
    <3>1. CASE i \in DOMAIN t.queue /\ j \in DOMAIN t.queue
      BY <2>0, <2>1, <2>4, <3>1 DEF QueueLevel
    <3>2. CASE i \in DOMAIN t.queue /\ j = Len(t.queue) + 1
      BY <1>3, <1>5, <1>6, <2>1, <3>2
    <3>3. CASE i = Len(t.queue) + 1
      <4>1. j = i
        BY <1>2, <1>6, <2>4, <3>3
      <4> QED
        BY <1>3, <1>5, <1>6, <3>3, <4>1
    <3> QED
      BY <1>6, <3>1, <3>2, <3>3
  <2> QED
    BY <2>3, <2>4 DEF QueueLevel
<1>14. LeftComplete(u, N, Es)
  <2> SUFFICES ASSUME NEW v \in Placed(u, N), NEW w \in N, Linked(Es, v, w), ~Reached(u, v)
               PROVE  /\ w \in Placed(u, N) /\ u.depth[w] <= u.depth[v] + 1
                      /\ Reached(u, w) => u.depth[v] <= u.depth[w]
    BY DEF LeftComplete
  <2>1. v # c
    BY <1>2, <1>6 DEF Reached
  <2>2. v \in Placed(t, N) /\ ~Reached(t, v)
    BY <1>6, <1>8, <2>1 DEF Reached
  <2>3. /\ w \in Placed(t, N) /\ t.depth[w] <= t.depth[v] + 1
        /\ Reached(t, w) => t.depth[v] <= t.depth[w]
    BY <2>2 DEF ForestOk, LeftComplete
  <2>4. Reached(u, w) => Reached(t, w)
    BY <1>6, <1>8, <2>3 DEF Reached
  <2> QED
    BY <1>8, <2>2, <2>3, <2>4
<1>15. RootsApart(u, N, Es)
  BY <1>5 DEF ForestOk, RootsApart
<1> QED
  BY <1>7, <1>10, <1>11, <1>12, <1>13, <1>14, <1>15 DEF ForestOk

\* A head whose neighbours have all been placed leaves the queue.
LEMMA ExploredKeeps ==
    ASSUME NEW N, NEW Es, NEW r, NEW t, ForestOk(t, N, Es, r), t.queue # <<>>, NEW p, p = Head(t.queue),
           \A w \in N : Linked(Es, p, w) => w \in Placed(t, N)
    PROVE  ForestOk([t EXCEPT !.queue = Tail(t.queue)], N, Es, r)
<1> PICK u : u = [t EXCEPT !.queue = Tail(t.queue)]
  OBVIOUS
<1>0. t \in Forests(N, Es)
  BY DEF ForestOk
<1>1. /\ u.depth = t.depth /\ u.parent = t.parent /\ u.tree = t.tree /\ u.roots = t.roots
      /\ u.queue = Tail(t.queue) /\ u \in Forests(N, Es) /\ t.depth \in [N -> Nat \union {-1}]
  <2>1. t.queue \in Seq(N)
    BY <1>0 DEF Forests
  <2>2. Tail(t.queue) \in Seq(N)
    BY <2>1
  <2> QED
    BY <1>0, <2>2 DEF Forests
<1>2. /\ DOMAIN t.queue = 1..Len(t.queue) /\ Len(t.queue) \in Nat /\ 1 \in DOMAIN t.queue /\ p = t.queue[1]
      /\ DOMAIN u.queue = 1..(Len(t.queue) - 1)
      /\ \A i \in DOMAIN u.queue : i + 1 \in DOMAIN t.queue /\ u.queue[i] = t.queue[i + 1]
  <2>1. t.queue \in Seq(N)
    BY <1>0 DEF Forests
  <2> QED
    BY <1>1, <2>1
<1>3. Placed(u, N) = Placed(t, N) /\ \A m \in Placed(t, N) : t.depth[m] \in Nat
  BY <1>1 DEF Placed
<1>4. QueueLevel(t, N) /\ LeftComplete(t, N, Es)
  BY DEF ForestOk
<1>5. \A i \in DOMAIN t.queue :
        /\ t.queue[i] \in Placed(t, N) /\ t.depth[t.queue[i]] \in Nat
        /\ t.depth[p] <= t.depth[t.queue[i]] /\ t.depth[t.queue[i]] <= t.depth[p] + 1
  BY <1>2, <1>3, <1>4 DEF QueueLevel
<1>6. \A v : (Reached(u, v) => Reached(t, v)) /\ (Reached(t, v) => Reached(u, v) \/ v = p)
  <2>1. ASSUME NEW i \in DOMAIN t.queue, i # 1 PROVE i - 1 \in DOMAIN u.queue /\ u.queue[i - 1] = t.queue[i]
    <3>1. Len(t.queue) \in Nat /\ i \in 1..Len(t.queue)
      BY ONLY <1>2
    <3>2. i - 1 \in 1..(Len(t.queue) - 1) /\ (i - 1) + 1 = i
      BY ONLY <2>1, <3>1
    <3>3. i - 1 \in DOMAIN u.queue
      BY ONLY <1>2, <3>2
    <3>4. u.queue[i - 1] = t.queue[(i - 1) + 1]
      BY ONLY <1>2, <3>3
    <3> QED
      BY ONLY <3>2, <3>3, <3>4
  <2>2. ASSUME NEW v, Reached(u, v) PROVE Reached(t, v)
    BY ONLY <1>2, <2>2 DEF Reached
  <2>3. ASSUME NEW v, Reached(t, v), v # p PROVE Reached(u, v)
    <3>1. PICK i \in DOMAIN t.queue : t.queue[i] = v
      BY <2>3 DEF Reached
    <3>2. i # 1
      BY <1>2, <2>3, <3>1
    <3> QED
      BY ONLY <2>1, <3>1, <3>2 DEF Reached
  <2> QED
    BY <2>2, <2>3
<1>7. QueueLevel(u, N)
  <2>1. ASSUME NEW i \in DOMAIN u.queue
        PROVE  u.queue[i] \in Placed(t, N) /\ t.depth[u.queue[i]] <= t.depth[u.queue[1]] + 1
    <3>1. 1 \in DOMAIN u.queue
      BY <1>2
    <3> HIDE <1>1
    <3>2. u.queue[i] = t.queue[i + 1] /\ i + 1 \in DOMAIN t.queue /\ u.queue[1] = t.queue[1 + 1] /\ 1 + 1 \in DOMAIN t.queue
      BY <1>2, <3>1
    <3>3. t.depth[p] \in Nat
      BY <1>2, <1>5
    <3>4. /\ u.queue[i] \in Placed(t, N) /\ t.depth[u.queue[i]] \in Nat /\ t.depth[u.queue[1]] \in Nat
          /\ t.depth[u.queue[i]] <= t.depth[p] + 1 /\ t.depth[p] <= t.depth[u.queue[1]]
      BY ONLY <1>5, <3>2
    <3> QED
      BY ONLY <3>3, <3>4
  <2>2. ASSUME NEW i \in DOMAIN u.queue, NEW j \in DOMAIN u.queue, i <= j
        PROVE  t.depth[u.queue[i]] <= t.depth[u.queue[j]]
    BY SMTT(30), <1>2, <1>4, <2>2 DEF QueueLevel
  <2> QED
    BY <1>1, <1>3, <2>1, <2>2 DEF QueueLevel
<1>8. LeftComplete(u, N, Es)
  <2> SUFFICES ASSUME NEW v \in Placed(t, N), NEW w \in N, Linked(Es, v, w), ~Reached(u, v)
               PROVE  /\ w \in Placed(t, N) /\ t.depth[w] <= t.depth[v] + 1
                      /\ Reached(u, w) => t.depth[v] <= t.depth[w]
    BY <1>1, <1>3 DEF LeftComplete
  <2>1. CASE ~Reached(t, v)
    BY <1>4, <1>6, <2>1 DEF LeftComplete
  <2>2. CASE v = p
    <3>1. w \in Placed(t, N)
      BY <2>2
    <3>2. Reached(t, w) => t.depth[p] <= t.depth[w] /\ t.depth[w] <= t.depth[p] + 1
      BY <1>5 DEF Reached
    <3>3. ~Reached(t, w) => t.depth[w] <= t.depth[p]
      <4>1. Linked(Es, w, p) /\ Reached(t, p) /\ p \in N
        BY <1>2, <2>2, <1>3 DEF Linked, Reached, Placed
      <4> QED
        BY <1>4, <3>1, <4>1 DEF LeftComplete
    <3>4. t.depth[w] \in Nat /\ t.depth[p] \in Nat
      BY <1>3, <2>2, <3>1
    <3>5. t.depth[w] <= t.depth[p] + 1
      BY ONLY <3>2, <3>3, <3>4
    <3>6. Reached(u, w) => t.depth[p] <= t.depth[w]
      BY ONLY <1>6, <3>2
    <3> QED
      BY ONLY <2>2, <3>1, <3>5, <3>6
  <2> QED
    BY <1>6, <2>1, <2>2
<1>9. RootsListed(u, N, r) /\ EdgesCounted(u, N) /\ RootsApart(u, N, Es)
  <2>1. RootsListed(u, N, r) /\ RootsApart(u, N, Es)
    BY <1>1, <1>3 DEF ForestOk, RootsListed, RootsApart
  <2>2. EdgesCounted(t, N)
    BY DEF ForestOk
  <2>3. EdgesCounted(u, N)
    BY ONLY <1>1, <1>3, <2>2 DEF EdgesCounted
  <2> QED
    BY <2>1, <2>3
<1>10. Hanging(u, N)
  BY <1>1, <1>3 DEF ForestOk, Hanging, HangsBelow
<1> QED
  BY <1>1, <1>7, <1>8, <1>9, <1>10 DEF ForestOk

----------------------------------------------------------------------------
(* The presentation tree                                                    *)

\* A tree has read nodes selected around its root and all edges between them, and what
\* it has made of them so far is a forest; in the end no node waits or is left out.
TreeRead ==
    /\ reader.root \in reader.nodes /\ reader.nodes \subseteq Graphs!Selected
    /\ reader.total = Cardinality(Graphs!Selected)
TreeGrown ==
    /\ reader.edges = {e \in reader.snap.edges : Graphs!Within(e, reader.nodes)}
    /\ ForestOk(reader.forest, reader.nodes, reader.edges, reader.root)
TreeInv ==
    /\ reader.op = "tree" => reader.size # 0
    /\ reader.at \in {"treeedges", "plant", "planted"} => TreeRead
    /\ reader.at \in {"plant", "planted"} => TreeGrown
    /\ reader.at = "planted" => reader.forest.queue = <<>> /\ Placed(reader.forest, reader.nodes) = reader.nodes

LEMMA SelectedSame ==
    ASSUME reader'.snap = reader.snap, reader'.root = reader.root, reader'.match = reader.match,
           reader'.anchor = reader.anchor
    PROVE  Graphs!Selected' = Graphs!Selected
<1>1. Graphs!TreeScope' = Graphs!TreeScope
  BY DEF Graphs!TreeScope, Graphs!Seen
<1>2. Graphs!Associations' = Graphs!Associations
  BY <1>1 DEF Graphs!Associations, Graphs!Seen
<1>3. Graphs!Component' = Graphs!Component
  BY <1>2 DEF Graphs!Component
<1> QED
  BY <1>1, <1>3 DEF Graphs!Selected

LEMMA TreeSame == ASSUME TreeInv, reader' = reader PROVE TreeInv'
<1>1. Graphs!Selected' = Graphs!Selected
  BY SelectedSame
<1> QED
  BY <1>1 DEF TreeInv, TreeRead, TreeGrown

\* The other requests have points of their own.
LEMMA TreeElsewhere == ASSUME GraphPoints', reader'.op # "tree" PROVE TreeInv'
  BY DEF GraphPoints, WalkPoints, TreeInv

LEMMA LeastTaken == ASSUME NEW S \in SUBSET Nat, S # {} PROVE Graphs!Min(S) \in S
<1>1. \E x \in S : \A y \in S : x <= y
  BY LeastNat
<1> QED
  BY <1>1 DEF Graphs!Min

LEMMA TreeHierarchy ==
    ASSUME GraphInv, NEW f \in Filters, NEW a \in Anchors, NEW l \in Limits, Graphs!Hierarchy(f, a, l)
    PROVE  TreeInv'
<1>1. reader'.at = "root" /\ reader'.size = l /\ l # 0
  BY GraphIdle, GraphAssumption DEF Graphs!Hierarchy
<1> QED
  BY <1>1 DEF TreeInv

LEMMA TreeResolveRoot == ASSUME GraphInv, TreeInv, Graphs!ResolveRoot PROVE TreeInv'
<1>1. reader.op = "tree" /\ DOMAIN reader = DOMAIN Graphs!Idle
  BY DEF GraphInv, ReaderTyped, GraphPoints, WalkPoints, Graphs!ResolveRoot
<1>2. reader'.at \in {"rootless", "treenodes"} /\ reader'.size = reader.size
  BY <1>1, GraphIdle DEF Graphs!ResolveRoot
<1> QED
  BY <1>1, <1>2 DEF TreeInv

\* The limit is not zero, so the root, the first in the order, is among the nodes.
LEMMA TreeLoadTreeNodes == ASSUME GraphInv, TreeInv, Graphs!LoadTreeNodes PROVE TreeInv'
<1>0. reader.op = "tree" /\ ReaderTyped /\ reader.root \in Nodes /\ reader.size # 0
  BY DEF GraphInv, GraphPoints, WalkPoints, Graphs!LoadTreeNodes, TreeInv
<1>1. /\ reader'.at = "treeedges" /\ reader'.nodes = Graphs!TreeNodes /\ reader'.total = Cardinality(Graphs!Selected)
      /\ reader'.snap = reader.snap /\ reader'.root = reader.root /\ reader'.match = reader.match
      /\ reader'.anchor = reader.anchor /\ reader'.size = reader.size
  BY <1>0, GraphIdle, GraphCardinality DEF Graphs!LoadTreeNodes, ReaderTyped
<1>2. Graphs!Selected' = Graphs!Selected
  BY <1>1, SelectedSame
<1>3. reader.root \in Graphs!Selected
  <2>1. Cardinality(Nodes) \in Nat
    BY GraphConstants, FS_CardinalityType
  <2> PICK A, k : A = Graphs!Associations /\ k = Cardinality(Nodes)
    OBVIOUS
  <2>2. {reader.root} \subseteq Graphs!Spread({reader.root}, A, 0 + k)
    <3>1. Graphs!Spread({reader.root}, A, 0) = {reader.root}
      BY SpreadSteps
    <3> QED
      BY <2>1, <3>1, SpreadFurther
  <2>3. 0 + k = k
    BY <2>1
  <2>4. reader.root \in Graphs!Component
    BY <2>2, <2>3, GraphCardinality DEF Graphs!Component
  <2> QED
    BY <2>4 DEF Graphs!Selected
<1>4. reader.root \in Graphs!TreeNodes
  <2> PICK rank :
        rank = [n \in Graphs!Selected |-> IF n = reader.root THEN 0
                                          ELSE IF n \in Graphs!Spread({reader.root}, Graphs!Associations, 1) THEN 1
                                          ELSE IF n \in Graphs!Component THEN 2 ELSE 3]
    OBVIOUS
  <2> DEFINE before(n) == {m \in Graphs!Selected : rank[m] < rank[n] \/ (rank[m] = rank[n] /\ m < n)}
  <2>1. Graphs!TreeNodes = {n \in Graphs!Selected : Cardinality(before(n)) < reader.size}
    BY GraphCardinality DEF Graphs!TreeNodes
  <2>2. before(reader.root) = {}
    <3> SUFFICES ASSUME NEW m \in Graphs!Selected, rank[m] < rank[reader.root] \/ (rank[m] = rank[reader.root] /\ m < reader.root)
                 PROVE  FALSE
      OBVIOUS
    <3>1. rank[reader.root] = 0 /\ rank[m] \in 0..3 /\ (rank[m] = 0 => m = reader.root)
      BY <1>3
    <3>2. reader.root \in Nat
      BY <1>0, GraphConstants
    <3> QED
      BY <3>1, <3>2
  <2>3. Cardinality(before(reader.root)) = 0
    BY <2>2, FS_EmptySet
  <2>4. reader.size \in Nat
    BY <1>0 DEF ReaderTyped
  <2>5. 0 < reader.size
    BY <1>0, <2>4
  <2> QED
    BY <1>3, <2>1, <2>3, <2>5
<1>5. Graphs!TreeNodes \subseteq Graphs!Selected
  BY DEF Graphs!TreeNodes
<1>6. Cardinality(Graphs!Selected)' = Cardinality(Graphs!Selected)
  BY <1>2
<1> QED
  BY <1>0, <1>1, <1>2, <1>4, <1>5, <1>6 DEF TreeInv, TreeRead

LEMMA TreeLoadTreeEdges == ASSUME GraphInv, TreeInv, Graphs!LoadTreeEdges PROVE TreeInv'
<1>0. reader.op = "tree" /\ ReaderTyped /\ reader.size # 0 /\ TreeRead
  BY DEF GraphInv, GraphPoints, WalkPoints, Graphs!LoadTreeEdges, TreeInv
<1>1. /\ reader'.at = "plant" /\ reader'.nodes = reader.nodes /\ reader'.total = reader.total
      /\ reader'.snap = reader.snap /\ reader'.root = reader.root /\ reader'.match = reader.match
      /\ reader'.anchor = reader.anchor /\ reader'.size = reader.size
      /\ reader'.edges = {e \in reader.snap.edges : Graphs!Within(e, reader.nodes)}
      /\ reader'.forest = Graphs!Bare
  BY <1>0, GraphIdle DEF Graphs!LoadTreeEdges, ReaderTyped, Graphs!Seen
<1>2. Graphs!Selected' = Graphs!Selected
  BY <1>1, SelectedSame
<1>3. Graphs!Bare = [depth |-> [n \in reader.nodes |-> -1], parent |-> [n \in reader.nodes |-> 0],
                     tree |-> {}, roots |-> <<>>, queue |-> <<>>]
  <2> PICK d, q, z : d = [n \in reader.nodes |-> -1] /\ q = [n \in reader.nodes |-> 0] /\ z = <<>>
    OBVIOUS
  <2>1. Graphs!NoTree = [depth |-> z, parent |-> z, tree |-> {}, roots |-> z, queue |-> z]
    BY DEF Graphs!NoTree
  <2>2. Graphs!Bare = [Graphs!NoTree EXCEPT !.depth = d, !.parent = q]
    BY DEF Graphs!Bare, Graphs!Unvisited
  <2>3. Graphs!Bare = [depth |-> d, parent |-> q, tree |-> {}, roots |-> z, queue |-> z]
    BY ONLY <2>1, <2>2
  <2> QED
    BY <2>3
<1>4. ForestOk(Graphs!Bare, reader.nodes, reader'.edges, reader.root)
  BY <1>3, BareForest
<1> QED
  BY <1>0, <1>1, <1>2, <1>4 DEF TreeInv, TreeRead, TreeGrown

\* What a step of the forest leaves alone.
LEMMA ForestStep ==
    ASSUME GraphInv, TreeInv, reader.at = "plant", reader'.at \in {"plant", "planted"},
           \A f \in DOMAIN reader \ {"at", "forest"} : reader'[f] = reader[f],
           ForestOk(reader'.forest, reader.nodes, reader.edges, reader.root),
           reader'.at = "planted" => reader'.forest.queue = <<>> /\ Placed(reader'.forest, reader.nodes) = reader.nodes
    PROVE  TreeInv'
<1>0. reader.op = "tree" /\ DOMAIN reader = DOMAIN Graphs!Idle /\ reader.size # 0 /\ TreeRead /\ TreeGrown
  BY DEF GraphInv, ReaderTyped, GraphPoints, WalkPoints, TreeInv
<1>1. /\ reader'.nodes = reader.nodes /\ reader'.edges = reader.edges /\ reader'.total = reader.total
      /\ reader'.snap = reader.snap /\ reader'.root = reader.root /\ reader'.match = reader.match
      /\ reader'.anchor = reader.anchor /\ reader'.size = reader.size
  BY <1>0, GraphIdle
<1>2. Graphs!Selected' = Graphs!Selected
  BY <1>1, SelectedSame
<1> QED
  BY <1>0, <1>1, <1>2 DEF TreeInv, TreeRead, TreeGrown

\* The state while the forest grows.
LEMMA Growing ==
    ASSUME GraphInv, TreeInv, reader.at = "plant"
    PROVE  /\ ForestOk(reader.forest, reader.nodes, reader.edges, reader.root)
           /\ reader.forest \in Forests(reader.nodes, reader.edges)
           /\ reader.nodes \subseteq Nat /\ IsFiniteSet(reader.nodes) /\ IsFiniteSet(reader.edges)
           /\ reader.edges \in SUBSET Nat /\ reader.root \in reader.nodes
           /\ reader.edges \in SUBSET Graphs!Edges
           /\ \A e \in reader.edges : Graphs!Ends(e) \subseteq reader.nodes
           /\ Graphs!Unplaced = reader.nodes \ Placed(reader.forest, reader.nodes)
           /\ DOMAIN reader = DOMAIN Graphs!Idle
<1>1. TreeRead /\ TreeGrown /\ ReaderTyped /\ Closed
  BY DEF TreeInv, GraphInv
<1>2. /\ reader.nodes \in SUBSET Nat /\ IsFiniteSet(reader.nodes)
      /\ reader.edges \in SUBSET Nat /\ IsFiniteSet(reader.edges)
  BY <1>1, GraphFinite DEF ReaderTyped
<1>3. Graphs!Unplaced = reader.nodes \ Placed(reader.forest, reader.nodes)
  BY DEF Graphs!Unplaced, Graphs!Unvisited, Placed
<1> QED
  BY <1>1, <1>2, <1>3 DEF TreeRead, TreeGrown, ForestOk, ReaderTyped, Closed, Graphs!Within

LEMMA TreeVisitRoot == ASSUME GraphInv, TreeInv, Graphs!VisitRoot PROVE TreeInv'
<1>0. reader.at = "plant" /\ reader.forest.queue = <<>> /\ Graphs!Unplaced # {}
  BY DEF Graphs!VisitRoot
<1> PICK t, N, Es, r, n :
      t = reader.forest /\ N = reader.nodes /\ Es = reader.edges /\ r = reader.root /\ n = Graphs!NextRoot
  OBVIOUS
<1>1. /\ ForestOk(t, N, Es, r) /\ IsFiniteSet(N) /\ IsFiniteSet(Es) /\ r \in N /\ N \subseteq Nat
      /\ Graphs!Unplaced = N \ Placed(t, N)
  BY <1>0, Growing
<1>2. n \in Graphs!Unplaced /\ (r \in Graphs!Unplaced => n = r)
  <2>1. ASSUME NEW S \in SUBSET Graphs!Unplaced, S # {} PROVE Graphs!Min(S) \in Graphs!Unplaced
    BY <1>1, <2>1, LeastTaken
  <2>2. {m \in Graphs!Unplaced : Kind[m] = "ap"} \in SUBSET Graphs!Unplaced /\ Graphs!Unplaced \in SUBSET Graphs!Unplaced
    OBVIOUS
  <2> QED
    BY <1>0, <2>1, <2>2 DEF Graphs!NextRoot
<1>3. t.roots = <<>> => n = r
  BY <1>1, <1>2 DEF ForestOk, RootsListed
<1>4. n \in N /\ t.depth[n] = -1 /\ t.queue = <<>>
  BY <1>0, <1>1, <1>2 DEF Placed
<1>5. ForestOk(Graphs!Rooted(t, n), N, Es, r)
  BY ONLY <1>1, <1>3, <1>4, RootKeeps
<1>6. /\ reader'.forest = Graphs!Rooted(t, n) /\ reader'.at = "plant"
      /\ \A f \in DOMAIN reader \ {"at", "forest"} : reader'[f] = reader[f]
  <2>1. DOMAIN reader = DOMAIN Graphs!Idle
    BY <1>0, Growing
  <2> QED
    BY <1>0, <2>1, GraphIdle DEF Graphs!VisitRoot
<1> QED
  BY <1>0, <1>5, <1>6, ForestStep

LEMMA TreeDiscover == ASSUME GraphInv, TreeInv, Graphs!Discover PROVE TreeInv'
<1>0. reader.at = "plant" /\ reader.forest.queue # <<>> /\ Graphs!Fresh(Head(reader.forest.queue)) # {}
  BY DEF Graphs!Discover
<1> PICK t, N, Es, r, p, e :
      /\ t = reader.forest /\ N = reader.nodes /\ Es = reader.edges /\ r = reader.root
      /\ p = Head(reader.forest.queue) /\ e = Graphs!Min(Graphs!Fresh(p))
  OBVIOUS
<1>1. /\ ForestOk(t, N, Es, r) /\ IsFiniteSet(N) /\ IsFiniteSet(Es) /\ N \subseteq Nat /\ Es \in SUBSET Nat
      /\ Graphs!Unplaced = N \ Placed(t, N)
  BY <1>0, Growing
<1>2. e \in Graphs!Fresh(p)
  <2>1. Graphs!Fresh(p) \in SUBSET Nat
    BY <1>1 DEF Graphs!Fresh
  <2> QED
    BY <1>0, <2>1, LeastTaken
<1>3. e \in Es /\ Graphs!IsAssociation(e) /\ p \in Graphs!Ends(e) /\ Graphs!Across(e, p) \in Graphs!Unplaced
  BY <1>2 DEF Graphs!Fresh
<1> PICK c : c = Graphs!Across(e, p)
  OBVIOUS
<1>4. c \in N /\ t.depth[c] = -1
  BY <1>1, <1>3 DEF Placed
<1>5. t.queue # <<>> /\ p = Head(t.queue) /\ c = Graphs!Across(e, p)
  BY <1>0
<1>6. ForestOk(Graphs!Discovered(t, p, e), N, Es, r)
  BY ONLY <1>1, <1>3, <1>4, <1>5, DiscoverKeeps
<1>7. /\ reader'.forest = Graphs!Discovered(t, p, e) /\ reader'.at = "plant"
      /\ \A f \in DOMAIN reader \ {"at", "forest"} : reader'[f] = reader[f]
  <2>1. DOMAIN reader = DOMAIN Graphs!Idle
    BY <1>0, Growing
  <2> QED
    BY <1>0, <2>1, GraphIdle DEF Graphs!Discover
<1> QED
  BY <1>0, <1>6, <1>7, ForestStep

LEMMA TreeExplored == ASSUME GraphInv, TreeInv, Graphs!Explored PROVE TreeInv'
<1>0. reader.at = "plant" /\ reader.forest.queue # <<>> /\ Graphs!Fresh(Head(reader.forest.queue)) = {}
  BY DEF Graphs!Explored
<1> PICK t, N, Es, r, p :
      /\ t = reader.forest /\ N = reader.nodes /\ Es = reader.edges /\ r = reader.root
      /\ p = Head(reader.forest.queue)
  OBVIOUS
<1>1. /\ ForestOk(t, N, Es, r) /\ t \in Forests(N, Es) /\ Graphs!Unplaced = N \ Placed(t, N)
      /\ \A e \in Es : Graphs!Ends(e) \subseteq N
  BY <1>0, Growing
<1>2. p \in Placed(t, N)
  <2>1. t.queue \in Seq(N) /\ t.queue # <<>> /\ p = Head(t.queue)
    BY <1>0, <1>1 DEF Forests
  <2>2. 1 \in DOMAIN t.queue /\ p = t.queue[1]
    BY ONLY <2>1
  <2> QED
    BY <1>1, <2>2 DEF ForestOk, QueueLevel
<1>3. ASSUME NEW w \in N, Linked(Es, p, w) PROVE w \in Placed(t, N)
  <2>1. PICK e \in Es : Graphs!IsAssociation(e) /\ p \in Graphs!Ends(e) /\ w \in Graphs!Ends(e)
    BY <1>3 DEF Linked
  <2>2. CASE w = p
    BY <1>2, <2>2
  <2>3. CASE w # p
    <3>1. Graphs!Across(e, p) = w
      BY <2>1, <2>3 DEF Graphs!Across, Graphs!Ends
    <3>2. w \notin Graphs!Unplaced
      BY <1>0, <2>1, <3>1 DEF Graphs!Fresh
    <3> QED
      BY <1>1, <3>2
  <2> QED
    BY <2>2, <2>3
<1>4. ForestOk([t EXCEPT !.queue = Tail(t.queue)], N, Es, r)
  <2>1. t.queue # <<>> /\ p = Head(t.queue)
    BY <1>0
  <2> QED
    BY ONLY <1>1, <1>3, <2>1, ExploredKeeps
<1>5. /\ reader'.forest = [t EXCEPT !.queue = Tail(t.queue)] /\ reader'.at = "plant"
      /\ \A f \in DOMAIN reader \ {"at", "forest"} : reader'[f] = reader[f]
  <2>1. DOMAIN reader = DOMAIN Graphs!Idle
    BY <1>0, Growing
  <2> QED
    BY <1>0, <2>1, GraphIdle DEF Graphs!Explored
<1> QED
  BY <1>0, <1>4, <1>5, ForestStep

LEMMA TreePlant == ASSUME GraphInv, TreeInv, Graphs!Plant PROVE TreeInv'
<1>0. reader.at = "plant" /\ reader.forest.queue = <<>> /\ Graphs!Unplaced = {}
  BY DEF Graphs!Plant
<1>1. /\ ForestOk(reader.forest, reader.nodes, reader.edges, reader.root) /\ DOMAIN reader = DOMAIN Graphs!Idle
      /\ Graphs!Unplaced = reader.nodes \ Placed(reader.forest, reader.nodes)
  BY <1>0, Growing
<1>2. /\ reader'.forest = reader.forest /\ reader'.at = "planted"
      /\ \A f \in DOMAIN reader \ {"at", "forest"} : reader'[f] = reader[f]
  BY <1>0, <1>1, GraphIdle DEF Graphs!Plant
<1>3. Placed(reader.forest, reader.nodes) = reader.nodes
  BY <1>0, <1>1 DEF Placed
<1> QED
  BY <1>0, <1>1, <1>2, <1>3, ForestStep

LEMMA TreeBegins == ASSUME Graphs!Init PROVE TreeInv
  BY GraphIdle DEF Graphs!Init, TreeInv

LEMMA TreeStep == ASSUME GraphInv, TreeInv, Graphs!Next PROVE TreeInv'
<1>0. GraphInv'
  BY GraphStep
<1>1. GraphPoints' /\ GraphPoints /\ DOMAIN reader = DOMAIN Graphs!Idle
  BY <1>0 DEF GraphInv, ReaderTyped
<1>2. ASSUME \/ Graphs!BeginPage \/ Graphs!Focus \/ Graphs!NodesPage \/ Graphs!EdgesPage \/ Graphs!Deliver
             \/ Graphs!FailPage \/ Graphs!CutEdges \/ Graphs!LoadHints \/ Graphs!LoadClusters
      PROVE  TreeInv'
  <2>1. reader.op # "tree"
    BY <1>1, <1>2 DEF GraphPoints, WalkPoints, Graphs!BeginPage, Graphs!Focus, Graphs!NodesPage, Graphs!EdgesPage,
                      Graphs!Deliver, Graphs!FailPage, Graphs!CutEdges, Graphs!LoadHints, Graphs!LoadClusters
  <2>2. reader'.op = reader.op
    <3>1. CASE Graphs!BeginPage \/ Graphs!FailPage
      BY <1>1, <3>1, GraphIdle DEF Graphs!BeginPage, Graphs!FailPage
    <3>2. CASE Graphs!Focus
      BY <1>1, <3>2, GraphIdle DEF Graphs!Focus
    <3>3. CASE Graphs!NodesPage \/ Graphs!EdgesPage
      BY ZenonT(30), <1>1, <3>3, GraphIdle DEF Graphs!NodesPage, Graphs!EdgesPage
    <3>4. CASE Graphs!Deliver
      BY <1>1, <3>4, GraphIdle DEF Graphs!Deliver
    <3>5. CASE Graphs!CutEdges \/ Graphs!LoadHints \/ Graphs!LoadClusters
      BY <1>1, <3>5, GraphIdle DEF Graphs!CutEdges, Graphs!LoadHints, Graphs!LoadClusters
    <3> QED
      BY <1>2, <3>1, <3>2, <3>3, <3>4, <3>5
  <2> QED
    BY <1>1, <2>1, <2>2, TreeElsewhere
<1>3. ASSUME NEW f \in Filters, NEW a \in Anchors, NEW h \in Hops, NEW s \in Sizes, Graphs!Walk(f, a, h, s)
      PROVE  TreeInv'
  <2>1. reader'.op = "walk"
    BY <1>3, GraphIdle DEF Graphs!Walk
  <2> QED
    BY <1>1, <2>1, TreeElsewhere
<1>4. ASSUME NEW f \in Filters, NEW l \in Limits, Graphs!Overview(f, l) PROVE TreeInv'
  <2>1. reader'.op = "overview"
    BY <1>4, GraphIdle DEF Graphs!Overview
  <2> QED
    BY <1>1, <2>1, TreeElsewhere
<1>5. ASSUME NEW ap, NEW r, Graphs!Neighbourhood(ap, r) PROVE TreeInv'
  <2>1. reader'.op = "network"
    BY <1>5, GraphIdle DEF Graphs!Neighbourhood
  <2> QED
    BY <1>1, <2>1, TreeElsewhere
<1>6. ASSUME Graphs!Project PROVE TreeInv'
  BY <1>6, TreeSame DEF Graphs!Project
<1> QED
  BY <1>2, <1>3, <1>4, <1>5, <1>6, TreeHierarchy, TreeResolveRoot, TreeLoadTreeNodes, TreeLoadTreeEdges,
     TreeVisitRoot, TreeDiscover, TreeExplored, TreePlant DEF Graphs!Next

----------------------------------------------------------------------------
(* What the forest shows                                                    *)

AssociationsOf(Es) == {e \in Es : Graphs!IsAssociation(e)}
Level(t, N, k) == {n \in N : t.depth[n] <= k}

\* In a forest that is complete the depth of a node is its distance from the roots:
\* links lead one level down at most, and everything hangs from the level above.
LEMMA DepthIsDistance ==
    ASSUME NEW N, NEW Es, NEW r, NEW t, ForestOk(t, N, Es, r), t.queue = <<>>, Placed(t, N) = N,
           \A e \in Es : Graphs!Ends(e) \subseteq N,
           NEW R \in SUBSET N, \A n \in N : n \in R <=> t.depth[n] = 0
    PROVE  \A k \in Nat : Graphs!Spread(R, AssociationsOf(Es), k) = Level(t, N, k)
<1>0. /\ t \in Forests(N, Es) /\ Hanging(t, N) /\ EdgesCounted(t, N) /\ LeftComplete(t, N, Es)
  BY DEF ForestOk
<1>1. \A n \in N : t.depth[n] \in Nat
  BY <1>0 DEF Forests, Placed
<1>2. \A u, v \in N : Linked(Es, u, v) => t.depth[v] <= t.depth[u] + 1
  <2>1. \A u : ~Reached(t, u)
    BY DEF Reached
  <2> QED
    BY <1>0, <2>1 DEF LeftComplete
<1>3. ASSUME NEW n \in N, t.depth[n] # 0
      PROVE  \E e \in AssociationsOf(Es), m \in N : Graphs!Ends(e) = {n, m} /\ t.depth[m] = t.depth[n] - 1
  <2>1. t.parent[n] \in N /\ HangsBelow(t, n)
    BY <1>0, <1>3 DEF Hanging
  <2>2. PICK e \in t.tree : Graphs!Ends(e) = {n, t.parent[n]}
    BY <2>1 DEF HangsBelow
  <2>3. e \in AssociationsOf(Es)
    BY <1>0, <2>2 DEF AssociationsOf, EdgesCounted, Forests
  <2> QED
    BY <2>1, <2>2, <2>3 DEF HangsBelow
<1> DEFINE near(k) == Graphs!Spread(R, AssociationsOf(Es), k)
           level(k) == {n \in N : t.depth[n] <= k}
           T == {k \in Nat : near(k) # level(k)}
<1>4. near(0) = R /\ \A k \in Nat : near(k + 1) = Grown(AssociationsOf(Es), near(k))
  BY ONLY SpreadSteps
<1> HIDE DEF near
<1>5. near(0) = level(0)
  BY <1>1, <1>4
<1>6. ASSUME NEW k \in Nat PROVE Grown(AssociationsOf(Es), level(k)) = level(k + 1)
  <2>1. ASSUME NEW x \in Grown(AssociationsOf(Es), level(k)) PROVE x \in level(k + 1)
    <3>1. CASE x \in level(k)
      BY <1>1, <3>1
    <3>2. CASE x \notin level(k)
      <4>1. PICK e \in AssociationsOf(Es) : x \in Graphs!Ends(e) /\ Graphs!Ends(e) \intersect level(k) # {}
        BY <2>1, <3>2 DEF Grown
      <4>2. PICK u \in level(k) : u \in Graphs!Ends(e)
        BY <4>1
      <4>3. x \in N /\ u \in N /\ Linked(Es, u, x)
        BY <4>1, <4>2 DEF AssociationsOf, Linked
      <4>4. t.depth[x] <= t.depth[u] + 1 /\ t.depth[u] <= k /\ t.depth[x] \in Nat /\ t.depth[u] \in Nat
        BY <1>1, <1>2, <4>2, <4>3
      <4> QED
        BY <4>3, <4>4
    <3> QED
      BY <3>1, <3>2
  <2>2. ASSUME NEW n \in level(k + 1) PROVE n \in Grown(AssociationsOf(Es), level(k))
    <3>1. CASE n \in level(k)
      BY <3>1 DEF Grown
    <3>2. CASE n \notin level(k)
      <4>1. n \in N /\ t.depth[n] = k + 1 /\ t.depth[n] # 0
        BY <1>1, <3>2
      <4>2. PICK e \in AssociationsOf(Es), m \in N : Graphs!Ends(e) = {n, m} /\ t.depth[m] = t.depth[n] - 1
        BY <1>3, <4>1
      <4>3. m \in level(k)
        BY <1>1, <4>1, <4>2
      <4> HIDE DEF level
      <4>4. e \in {d \in AssociationsOf(Es) : Graphs!Ends(d) \intersect level(k) # {}} /\ n \in Graphs!Ends(e)
        BY <4>2, <4>3
      <4> QED
        BY <4>4 DEF Grown
    <3> QED
      BY <3>1, <3>2
  <2> QED
    BY <2>1, <2>2
<1> HIDE DEF level
<1>7. ASSUME T # {} PROVE FALSE
  <2>1. PICK k \in T : \A j \in T : k <= j
    BY <1>7, LeastNat
  <2>2. k # 0
    BY <1>5
  <2>3. k - 1 \in Nat /\ k - 1 \notin T /\ k = (k - 1) + 1
    BY <2>1, <2>2
  <2>4. near(k - 1) = level(k - 1) /\ near(k) = Grown(AssociationsOf(Es), near(k - 1))
    BY <1>4, <2>3
  <2> QED
    BY <1>6, <2>3, <2>4
<1> QED
  BY <1>7 DEF near, level, Level

\* Nothing leads from one root to another.
LEMMA RootsNotReached ==
    ASSUME NEW N, NEW Es, NEW r, NEW t, ForestOk(t, N, Es, r), \A e \in Es : Graphs!Ends(e) \subseteq N,
           NEW i \in DOMAIN t.roots, NEW j \in DOMAIN t.roots, i # j, NEW k \in Nat
    PROVE  t.roots[j] \notin Graphs!Spread({t.roots[i]}, AssociationsOf(Es), k)
<1>1. PICK C \in SUBSET N : t.roots[i] \in C /\ t.roots[j] \notin C /\ Sealed(C, N, Es)
  BY DEF ForestOk, RootsApart
<1>2. ASSUME NEW e \in AssociationsOf(Es), Graphs!Ends(e) \intersect C # {} PROVE Graphs!Ends(e) \subseteq C
  <2>1. PICK u \in C : u \in Graphs!Ends(e)
    BY <1>2
  <2>2. \A v \in Graphs!Ends(e) : v \in N /\ Linked(Es, u, v)
    BY <2>1 DEF AssociationsOf, Linked
  <2> QED
    BY <1>1, <2>2 DEF Sealed
<1>3. Graphs!Spread({t.roots[i]}, AssociationsOf(Es), k) \subseteq C
  <2>1. {t.roots[i]} \subseteq C
    BY <1>1
  <2> QED
    BY <1>2, <2>1, SpreadInside
<1> QED
  BY <1>1, <1>3

\* When all nodes reached are kept, so is every association on the way.
LEMMA NothingMissed ==
    ASSUME NEW S, NEW As, NEW Ls, NEW K \in Nat,
           \A e \in As : Graphs!Ends(e) \subseteq Graphs!Spread(S, As, K) => e \in Ls
    PROVE  Graphs!Spread(S, As, K) \subseteq Graphs!Spread(S, Ls, K)
<1> DEFINE near(k) == Graphs!Spread(S, As, k)
           seen(k) == Graphs!Spread(S, Ls, k)
           T == {k \in Nat : k <= K /\ ~(near(k) \subseteq seen(k))}
<1>1. near(0) = S /\ \A k \in Nat : near(k + 1) = Grown(As, near(k))
  BY SpreadSteps
<1>2. seen(0) = S /\ \A k \in Nat : seen(k + 1) = Grown(Ls, seen(k))
  BY SpreadSteps
<1>3. \A k \in Nat : k <= K => near(k) \subseteq near(K)
  <2> SUFFICES ASSUME NEW k \in Nat, k <= K PROVE near(k) \subseteq near(K)
    OBVIOUS
  <2>1. K - k \in Nat /\ k + (K - k) = K
    OBVIOUS
  <2>2. near(k) \subseteq near(k + (K - k))
    BY <2>1, SpreadFurther
  <2> QED
    BY <2>1, <2>2
<1>4. \A e \in As : Graphs!Ends(e) \subseteq near(K) => e \in Ls
  OBVIOUS
<1> HIDE DEF near, seen
<1>5. ASSUME T # {} PROVE FALSE
  <2>1. PICK k \in T : \A j \in T : k <= j
    BY <1>5, LeastNat
  <2>2. k # 0
    BY <1>1, <1>2
  <2>3. k - 1 \in Nat /\ k - 1 \notin T /\ k - 1 <= K /\ k = (k - 1) + 1
    BY <2>1, <2>2
  <2>4. near(k - 1) \subseteq seen(k - 1) /\ near(k) = Grown(As, near(k - 1)) /\ seen(k) = Grown(Ls, seen(k - 1))
    BY <1>1, <1>2, <2>3
  <2>5. near(k) \subseteq near(K)
    BY <1>3, <2>1
  <2>6. ASSUME NEW x \in near(k), x \notin near(k - 1) PROVE x \in seen(k)
    <3>1. PICK e \in As : x \in Graphs!Ends(e) /\ Graphs!Ends(e) \intersect near(k - 1) # {}
      BY <2>4, <2>6 DEF Grown
    <3>2. Graphs!Ends(e) \subseteq near(k)
      BY <2>4, <3>1 DEF Grown
    <3>3. e \in Ls
      BY <1>4, <2>5, <3>2
    <3>4. e \in {d \in Ls : Graphs!Ends(d) \intersect seen(k - 1) # {}}
      BY <2>4, <3>1, <3>3
    <3> QED
      BY <2>4, <3>1, <3>4 DEF Grown
  <2>7. near(k - 1) \subseteq seen(k)
    BY <2>4 DEF Grown
  <2> QED
    BY <2>6, <2>7
<1> QED
  BY <1>5 DEF near, seen

\* What Distance(S) returns.
LEMMA DistanceReads ==
    ASSUME NEW S, NEW K, K = Cardinality(Nodes), K \in Nat
    PROVE  /\ DOMAIN Graphs!Distance(S) = Graphs!Spread(S, AssociationsOf(reader.edges), K)
           /\ \A n \in DOMAIN Graphs!Distance(S) :
                Graphs!Distance(S)[n] = Graphs!Min({k \in 0..K : n \in Graphs!Spread(S, AssociationsOf(reader.edges), k)})
           /\ Graphs!Distance(S) = [n \in DOMAIN Graphs!Distance(S) |-> Graphs!Distance(S)[n]]
<1> DEFINE near == [k \in 0..K |-> Graphs!Spread(S, AssociationsOf(reader.edges), k)]
<1>1. Graphs!Distance(S) = [n \in near[K] |-> Graphs!Min({k \in 0..K : n \in near[k]})]
  BY GraphCardinality DEF Graphs!Distance, AssociationsOf
<1>2. near[K] = Graphs!Spread(S, AssociationsOf(reader.edges), K)
  OBVIOUS
<1>3. \A k \in 0..K : near[k] = Graphs!Spread(S, AssociationsOf(reader.edges), k)
  OBVIOUS
<1>4. \A n : {k \in 0..K : n \in near[k]} = {k \in 0..K : n \in Graphs!Spread(S, AssociationsOf(reader.edges), k)}
  BY <1>3
<1> HIDE DEF near
<1> QED
  BY <1>1, <1>2, <1>4

LEMMA LeastReach == ASSUME NEW d \in Nat, NEW K \in Nat, d <= K PROVE Graphs!Min({k \in 0..K : d <= k}) = d
<1> DEFINE S == {k \in 0..K : d <= k}
<1>1. d \in S /\ \A k \in S : d <= k /\ k \in Nat
  OBVIOUS
<1> HIDE DEF S
<1>2. \E x \in S : \A y \in S : x <= y
  BY <1>1
<1>3. Graphs!Min(S) \in S /\ \A y \in S : Graphs!Min(S) <= y
  BY <1>2 DEF Graphs!Min
<1>4. Graphs!Min(S) = d
  <2> PICK m : m = Graphs!Min(S)
    OBVIOUS
  <2>1. m \in Nat /\ d <= m /\ m <= d
    BY <1>1, <1>3
  <2> QED
    BY <2>1
<1> QED
  BY <1>4 DEF S

LEMMA TreeIsRight == ASSUME GraphInv, TreeInv PROVE Graphs!TreeSound
<1> SUFFICES ASSUME reader.at = "planted"
             PROVE  /\ reader.forest.roots[1] = reader.root /\ Graphs!IsInjective(reader.forest.roots)
                    /\ DOMAIN Graphs!Distance(Graphs!Range(reader.forest.roots)) = reader.nodes
                    /\ reader.forest.depth = Graphs!Distance(Graphs!Range(reader.forest.roots))
                    /\ \A r, s \in Graphs!Range(reader.forest.roots) :
                         r # s => s \notin DOMAIN Graphs!Distance({r})
                    /\ Cardinality(reader.forest.tree) = Cardinality(reader.nodes) - Len(reader.forest.roots)
                    /\ \A n \in reader.nodes \ Graphs!Range(reader.forest.roots) :
                         \E e \in reader.forest.tree :
                           /\ Graphs!Ends(e) = {n, reader.forest.parent[n]}
                           /\ reader.forest.depth[reader.forest.parent[n]] = reader.forest.depth[n] - 1
                    /\ ~Graphs!Truncated => Graphs!Component \subseteq DOMAIN Graphs!Distance({reader.root})
  BY GraphCardinality DEF Graphs!TreeSound
<1> PICK t, N, Es, r, R, K :
      /\ t = reader.forest /\ N = reader.nodes /\ Es = reader.edges /\ r = reader.root
      /\ R = Graphs!Range(t.roots) /\ K = Cardinality(Nodes)
  OBVIOUS
<1>1. /\ ReaderTyped /\ Closed /\ TreeRead /\ ForestOk(t, N, Es, r) /\ t.queue = <<>> /\ Placed(t, N) = N
      /\ Es = {e \in reader.snap.edges : Graphs!Within(e, N)}
  BY DEF GraphInv, TreeInv, TreeGrown
<1>2. /\ N \in SUBSET Nodes /\ IsFiniteSet(N) /\ IsFiniteSet(Es) /\ r \in N /\ K \in Nat
      /\ Cardinality(N) \in Nat /\ Cardinality(N) <= K
      /\ \A e \in Es : Graphs!Ends(e) \subseteq N
  <2>1. N \in SUBSET Nodes /\ IsFiniteSet(N) /\ IsFiniteSet(Es) /\ r \in N
    BY <1>1, GraphFinite DEF ReaderTyped, TreeRead
  <2>2. K \in Nat /\ Cardinality(N) \in Nat /\ Cardinality(N) <= K
    BY <2>1, GraphConstants, FS_CardinalityType, FS_Subset
  <2> QED
    BY <1>1, <2>1, <2>2 DEF Graphs!Within
<1>3. /\ t \in Forests(N, Es) /\ RootsListed(t, N, r) /\ Hanging(t, N) /\ EdgesCounted(t, N)
      /\ t.roots \in Seq(N) /\ t.depth \in [N -> Nat \union {-1}]
  BY <1>1 DEF ForestOk, Forests
<1>4. t.roots # <<>> /\ t.roots[1] = r
  BY <1>1, <1>2, <1>3 DEF RootsListed
<1>5. R = {n \in N : t.depth[n] = 0}
  <2>1. \A i \in DOMAIN t.roots : t.roots[i] \in N /\ t.depth[t.roots[i]] = 0
    BY <1>3 DEF RootsListed
  <2> QED
    BY <1>3, <2>1 DEF RootsListed, Graphs!Range
<1>6. Graphs!IsInjective(t.roots)
  BY <1>3 DEF RootsListed, Graphs!IsInjective
<1>7. \A k \in Nat : Graphs!Spread(R, AssociationsOf(Es), k) = {n \in N : t.depth[n] <= k}
  <2>1. R \in SUBSET N /\ \A n \in N : n \in R <=> t.depth[n] = 0
    BY ONLY <1>5
  <2>2. \A k \in Nat : Graphs!Spread(R, AssociationsOf(Es), k) = Level(t, N, k)
    BY ONLY <1>1, <1>2, <2>1, DepthIsDistance
  <2> QED
    BY ONLY <2>2 DEF Level
<1>8. \A n \in N : t.depth[n] \in Nat /\ t.depth[n] <= K
  <2>1. \A n \in N : t.depth[n] \in Nat
    BY <1>1, <1>3 DEF Placed
  <2>2. \A n \in N : t.depth[n] < Cardinality(N)
    BY <1>1, <1>3 DEF EdgesCounted
  <2> QED
    BY <1>2, <2>1, <2>2
<1>9. DOMAIN Graphs!Distance(R) = N /\ t.depth = Graphs!Distance(R)
  <2>1. DOMAIN Graphs!Distance(R) = Graphs!Spread(R, AssociationsOf(Es), K)
    BY <1>2, DistanceReads
  <2>2. Graphs!Spread(R, AssociationsOf(Es), K) = N
    BY <1>2, <1>7, <1>8
  <2>3. ASSUME NEW n \in N PROVE Graphs!Distance(R)[n] = t.depth[n]
    <3>1. Graphs!Distance(R)[n] = Graphs!Min({k \in 0..K : n \in Graphs!Spread(R, AssociationsOf(Es), k)})
      BY <1>2, <2>1, <2>2, DistanceReads
    <3>2. {k \in 0..K : n \in Graphs!Spread(R, AssociationsOf(Es), k)} = {k \in 0..K : t.depth[n] <= k}
      BY <1>2, <1>7
    <3>3. Graphs!Min({k \in 0..K : t.depth[n] <= k}) = t.depth[n]
      BY <1>2, <1>8, LeastReach
    <3> QED
      BY <3>1, <3>2, <3>3
  <2>4. Graphs!Distance(R) = [n \in N |-> Graphs!Distance(R)[n]] /\ t.depth = [n \in N |-> t.depth[n]]
    BY <1>2, <1>3, <2>1, <2>2, DistanceReads
  <2> QED
    BY <2>1, <2>2, <2>3, <2>4
<1>10. ASSUME NEW p \in R, NEW q \in R, p # q PROVE q \notin DOMAIN Graphs!Distance({p})
  <2>1. PICK i \in DOMAIN t.roots, j \in DOMAIN t.roots : t.roots[i] = p /\ t.roots[j] = q
    BY DEF Graphs!Range
  <2>2. i # j
    BY <1>10, <2>1
  <2>3. q \notin Graphs!Spread({p}, AssociationsOf(Es), K)
    BY <1>1, <1>2, <2>1, <2>2, RootsNotReached
  <2>4. DOMAIN Graphs!Distance({p}) = Graphs!Spread({p}, AssociationsOf(Es), K)
    BY <1>2, DistanceReads
  <2> QED
    BY <2>3, <2>4
<1>11. Cardinality(t.tree) = Cardinality(N) - Len(t.roots)
  <2>1. Cardinality(t.tree) + Len(t.roots) = Cardinality(N)
    BY <1>1, <1>3 DEF EdgesCounted
  <2>2. Len(t.roots) \in Nat
    BY <1>3
  <2>3. Cardinality(t.tree) \in Nat
    <3>1. t.tree \in SUBSET Es
      BY <1>3 DEF Forests
    <3> QED
      BY <1>2, <3>1, FS_Subset, FS_CardinalityType
  <2> QED
    BY <1>2, <2>1, <2>2, <2>3
<1>12. ASSUME NEW n \in N \ R
       PROVE  \E e \in t.tree : Graphs!Ends(e) = {n, t.parent[n]} /\ t.depth[t.parent[n]] = t.depth[n] - 1
  <2>1. n \in Placed(t, N) /\ t.depth[n] # 0
    BY <1>1, <1>5
  <2> QED
    BY <1>3, <2>1 DEF Hanging, HangsBelow
<1>13. ASSUME ~Graphs!Truncated PROVE Graphs!Component \subseteq DOMAIN Graphs!Distance({r})
  <2> PICK As : As = Graphs!Associations
    OBVIOUS
  <2>1. /\ As \in SUBSET Graphs!Edges /\ As \subseteq reader.snap.edges /\ \A e \in As : Graphs!IsAssociation(e)
        /\ Graphs!TreeScope \in SUBSET Nodes
    BY <1>1, <1>2 DEF Graphs!Associations, Graphs!TreeScope, Graphs!Seen, ReaderTyped, Tables
  <2>2. Graphs!Component = Graphs!Spread({r}, As, K)
    BY GraphCardinality DEF Graphs!Component
  <2>3. Graphs!Selected \in SUBSET Nodes /\ Graphs!Component \subseteq Graphs!Selected
    <3>1. Graphs!Component \in SUBSET Nodes
      BY <1>2, <2>1, <2>2, SpreadWithin
    <3> QED
      BY <2>1, <3>1 DEF Graphs!Selected
  <2>4. Graphs!Selected = N
    <3>1. IsFiniteSet(Graphs!Selected) /\ Cardinality(Graphs!Selected) \in Nat
      BY <2>3, GraphFinite, FS_CardinalityType
    <3>2. ~(Cardinality(Graphs!Selected) > Cardinality(N)) /\ N \subseteq Graphs!Selected
      BY <1>1, <1>13, GraphCardinality DEF Graphs!Truncated, TreeRead
    <3>3. Cardinality(N) <= Cardinality(Graphs!Selected) /\ (Cardinality(N) = Cardinality(Graphs!Selected) => N = Graphs!Selected)
      BY <3>1, <3>2, FS_Subset
    <3> QED
      BY <1>2, <3>1, <3>2, <3>3
  <2>5. ASSUME NEW e \in As, Graphs!Ends(e) \subseteq Graphs!Spread({r}, As, K) PROVE e \in AssociationsOf(Es)
    <3>1. Graphs!Within(e, N)
      BY <2>2, <2>3, <2>4, <2>5 DEF Graphs!Within
    <3> QED
      BY <1>1, <2>1, <3>1 DEF AssociationsOf
  <2>6. Graphs!Spread({r}, As, K) \subseteq Graphs!Spread({r}, AssociationsOf(Es), K)
    BY <1>2, <2>5, NothingMissed
  <2>7. DOMAIN Graphs!Distance({r}) = Graphs!Spread({r}, AssociationsOf(Es), K)
    BY <1>2, DistanceReads
  <2> QED
    BY <2>2, <2>6, <2>7
<1> QED
  BY <1>4, <1>6, <1>9, <1>10, <1>11, <1>12, <1>13

----------------------------------------------------------------------------
(* Ordered lists of finite sets                                             *)

\* B gives the elements before each element of S, in a strict total order.
Ordered(S, B) ==
    /\ IsFiniteSet(S) /\ B \in [S -> SUBSET S]
    /\ \A x \in S : x \notin B[x]
    /\ \A x, y \in S : x = y \/ x \in B[y] \/ y \in B[x]
    /\ \A x, y \in S : x \in B[y] => B[x] \subseteq B[y]

\* How many come before an element tells its place, and every place is taken.
LEMMA PlacesTaken ==
    ASSUME NEW S, NEW B, Ordered(S, B)
    PROVE  /\ Cardinality(S) \in Nat
           /\ \A x \in S : Cardinality(B[x]) \in 0 .. (Cardinality(S) - 1)
           /\ \A x, y \in S : x \in B[y] <=> Cardinality(B[x]) < Cardinality(B[y])
           /\ \A x, y \in S : Cardinality(B[x]) = Cardinality(B[y]) => x = y
           /\ \A i \in 1 .. Cardinality(S) : \E x \in S : Cardinality(B[x]) = i - 1
<1> USE DEF Ordered
<1> DEFINE n == Cardinality(S)
           f == [x \in S |-> Cardinality(B[x]) + 1]
<1>1. n \in Nat
  BY FS_CardinalityType
<1>2. ASSUME NEW x \in S PROVE IsFiniteSet(B[x]) /\ Cardinality(B[x]) \in 0 .. (n - 1)
  <2>1. B[x] \in SUBSET S /\ B[x] # S
    OBVIOUS
  <2>2. IsFiniteSet(B[x]) /\ Cardinality(B[x]) <= n /\ Cardinality(B[x]) # n
    BY <2>1, FS_Subset
  <2> QED
    BY <1>1, <2>2, FS_CardinalityType
<1>3. ASSUME NEW x \in S, NEW y \in S, x \in B[y] PROVE Cardinality(B[x]) < Cardinality(B[y])
  <2>1. B[x] \in SUBSET B[y] /\ B[x] # B[y]
    BY <1>3
  <2>2. Cardinality(B[x]) <= Cardinality(B[y]) /\ Cardinality(B[x]) # Cardinality(B[y])
    BY <1>2, <2>1, FS_Subset
  <2> QED
    BY <1>1, <1>2, <2>2
<1>4. ASSUME NEW x \in S, NEW y \in S, Cardinality(B[x]) < Cardinality(B[y]) PROVE x \in B[y]
  <2>1. Cardinality(B[x]) \in Int /\ Cardinality(B[y]) \in Int
    BY <1>1, <1>2
  <2>2. x # y /\ y \notin B[x]
    BY <1>3, <1>4, <2>1
  <2> QED
    BY <2>2
<1>5. ASSUME NEW x \in S, NEW y \in S, Cardinality(B[x]) = Cardinality(B[y]) PROVE x = y
  <2>1. Cardinality(B[x]) \in Int /\ Cardinality(B[y]) \in Int
    BY <1>1, <1>2
  <2> QED
    BY <1>3, <1>5, <2>1
<1>6. f \in Injection(S, 1..n)
  <2>1. f \in [S -> 1..n]
    BY <1>1, <1>2
  <2>2. ASSUME NEW x \in S, NEW y \in S, f[x] = f[y] PROVE x = y
    BY <1>1, <1>2, <1>5, <2>2
  <2> QED
    BY <2>1, <2>2 DEF Injection, IsInjective
<1>7. f \in Surjection(S, 1..n)
  <2>1. IsFiniteSet(1..n) /\ Cardinality(1..n) = n
    BY <1>1, FS_Interval
  <2> QED
    BY <1>6, <2>1, FS_Injection
<1>8. ASSUME NEW i \in 1..n PROVE \E x \in S : Cardinality(B[x]) = i - 1
  <2>1. PICK x \in S : f[x] = i
    BY <1>7 DEF Surjection
  <2> QED
    BY <1>1, <1>2, <2>1
<1> QED
  BY <1>1, <1>2, <1>3, <1>4, <1>5, <1>8

\* The list of a set in an order, and where its elements are.
Listing(S, B) == [i \in 1 .. Cardinality(S) |-> CHOOSE x \in S : Cardinality(B[x]) = i - 1]
LEMMA ListingInOrder ==
    ASSUME NEW S, NEW B, Ordered(S, B)
    PROVE  /\ Cardinality(S) \in Nat /\ Listing(S, B) \in [1 .. Cardinality(S) -> S]
           /\ \A i, j \in 1 .. Cardinality(S) : Listing(S, B)[i] \in B[Listing(S, B)[j]] <=> i < j
           /\ \A i, j \in 1 .. Cardinality(S) : Listing(S, B)[i] = Listing(S, B)[j] => i = j
           /\ \A x \in S : \E i \in 1 .. Cardinality(S) : Listing(S, B)[i] = x
<1> DEFINE n == Cardinality(S)
           l == Listing(S, B)
<1>1. /\ n \in Nat
      /\ \A x \in S : Cardinality(B[x]) \in 0 .. (n - 1)
      /\ \A x, y \in S : x \in B[y] <=> Cardinality(B[x]) < Cardinality(B[y])
      /\ \A x, y \in S : Cardinality(B[x]) = Cardinality(B[y]) => x = y
      /\ \A i \in 1..n : \E x \in S : Cardinality(B[x]) = i - 1
  BY PlacesTaken
<1>2. l \in [1..n -> S] /\ \A i \in 1..n : Cardinality(B[l[i]]) = i - 1
  BY <1>1 DEF Listing
<1> HIDE DEF l
<1>3. ASSUME NEW x \in S PROVE \E i \in 1..n : l[i] = x
  <2>1. Cardinality(B[x]) + 1 \in 1..n
    BY <1>1
  <2>2. Cardinality(B[l[Cardinality(B[x]) + 1]]) = Cardinality(B[x])
    BY <1>1, <1>2, <2>1
  <2> QED
    BY <1>1, <1>2, <2>1, <2>2
<1>4. ASSUME NEW i \in 1..n, NEW j \in 1..n PROVE l[i] \in B[l[j]] <=> i < j
  BY SMTT(30), <1>1, <1>2
<1>5. ASSUME NEW i \in 1..n, NEW j \in 1..n, l[i] = l[j] PROVE i = j
  BY <1>1, <1>2, <1>5
<1> QED
  BY <1>1, <1>2, <1>3, <1>4, <1>5 DEF l

\* What a LIMIT keeps: everything, or that many, and all that comes before what is kept.
Limited(S, B, n) == {x \in S : Cardinality(B[x]) < n}
LEMMA LimitKeeps ==
    ASSUME NEW S, NEW B, Ordered(S, B), NEW n \in Nat
    PROVE  /\ Limited(S, B, n) \in SUBSET S
           /\ \A x \in Limited(S, B, n) : B[x] \subseteq Limited(S, B, n)
           /\ Cardinality(S) <= n => Limited(S, B, n) = S
           /\ Cardinality(S) > n => Cardinality(Limited(S, B, n)) = n
           /\ Cardinality(Limited(S, B, n)) <= n
<1> DEFINE m == Cardinality(S)
           K == Limited(S, B, n)
           f == [x \in K |-> Cardinality(B[x]) + 1]
<1>1. /\ m \in Nat
      /\ \A x \in S : Cardinality(B[x]) \in 0 .. (m - 1)
      /\ \A x, y \in S : x \in B[y] <=> Cardinality(B[x]) < Cardinality(B[y])
      /\ \A x, y \in S : Cardinality(B[x]) = Cardinality(B[y]) => x = y
      /\ \A i \in 1..m : \E x \in S : Cardinality(B[x]) = i - 1
  BY PlacesTaken
<1>2. K \in SUBSET S /\ IsFiniteSet(K)
  BY FS_Subset DEF Limited, Ordered
<1>3. ASSUME NEW x \in K, NEW y \in B[x] PROVE y \in K
  <2>1. x \in S /\ y \in S /\ Cardinality(B[y]) < Cardinality(B[x]) /\ Cardinality(B[x]) < n
    BY <1>1 DEF Limited, Ordered
  <2>2. Cardinality(B[y]) \in Int /\ Cardinality(B[x]) \in Int
    BY <1>1, <2>1
  <2> QED
    BY <2>1, <2>2 DEF Limited
<1>4. ASSUME m <= n PROVE K = S
  <2>1. ASSUME NEW x \in S PROVE Cardinality(B[x]) < n
    BY <1>1, <1>4
  <2> QED
    BY <2>1 DEF Limited
<1>5. ASSUME m > n PROVE Cardinality(K) = n
  <2>1. f \in [K -> 1..n] /\ \A x \in K : f[x] = Cardinality(B[x]) + 1
    <3>1. ASSUME NEW x \in K PROVE Cardinality(B[x]) + 1 \in 1..n
      BY <1>1 DEF Limited
    <3> QED
      BY <3>1
  <2> HIDE DEF f
  <2>2. ASSUME NEW x \in K, NEW y \in K, f[x] = f[y] PROVE x = y
    <3>1. x \in S /\ y \in S /\ Cardinality(B[x]) \in Int /\ Cardinality(B[y]) \in Int
      BY <1>1, <1>2
    <3>2. Cardinality(B[x]) = Cardinality(B[y])
      BY <2>1, <2>2, <3>1
    <3> QED
      BY <1>1, <3>1, <3>2
  <2>3. ASSUME NEW i \in 1..n PROVE \E x \in K : f[x] = i
    <3>1. i \in 1..m
      BY <1>1, <1>5
    <3>2. PICK x \in S : Cardinality(B[x]) = i - 1
      BY <1>1, <3>1
    <3>3. x \in K
      BY <3>2 DEF Limited
    <3> QED
      BY <2>1, <3>2, <3>3
  <2>4. f \in Bijection(K, 1..n)
    BY <2>1, <2>2, <2>3 DEF Bijection, Injection, Surjection, IsInjective
  <2>5. Cardinality(1..n) = n
    BY FS_Interval
  <2> QED
    BY <1>2, <2>4, <2>5, FS_Bijection DEF ExistsBijection
<1> QED
  BY <1>1, <1>2, <1>3, <1>4, <1>5

----------------------------------------------------------------------------
(* Sums                                                                     *)

\* What the elements of S have together, when each x has n[x].
Items(S, n) == UNION {{x} \X (1 .. n[x]) : x \in S}
LEMMA InvestigationCardinality == \A S : Investigations!Cardinality(S) = Cardinality(S)
  BY DEF Investigations!Cardinality, Cardinality

LEMMA SumsItems == \A S, n : Investigations!SumOver(S, n) = Cardinality(Items(S, n))
  BY InvestigationCardinality DEF Investigations!SumOver, Items

LEMMA ItemsOf ==
    ASSUME NEW S, NEW n, NEW i
    PROVE  i \in Items(S, n) <=> \E x \in S : \E k \in 1 .. n[x] : i = <<x, k>>
  BY DEF Items

LEMMA ItemsFinite ==
    ASSUME NEW S, IsFiniteSet(S), NEW n \in [S -> Nat]
    PROVE  IsFiniteSet(Items(S, n)) /\ Cardinality(Items(S, n)) \in Nat
<1> DEFINE f == [x \in S |-> {x} \X (1 .. n[x])]
           T == {f[x] : x \in S}
<1>1. IsFiniteSet(T)
  <2>1. f \in Surjection(S, T)
    BY DEF Surjection
  <2> QED
    BY <2>1, FS_Surjection
<1>2. ASSUME NEW t \in T PROVE IsFiniteSet(t)
  <2>1. PICK x \in S : t = {x} \X (1 .. n[x])
    OBVIOUS
  <2>2. IsFiniteSet({x})
    BY FS_Singleton
  <2>3. 1 \in Int /\ n[x] \in Int
    OBVIOUS
  <2>4. IsFiniteSet(1 .. n[x])
    BY <2>3, FS_Interval
  <2> QED
    BY <2>1, <2>2, <2>4, FS_Product
<1>3. Items(S, n) = UNION T
  BY DEF Items
<1> HIDE DEF T
<1>4. IsFiniteSet(UNION T)
  BY <1>1, <1>2, FS_UNION
<1> QED
  BY <1>3, <1>4, FS_CardinalityType

\* A sum is that of its groups: every group x of the elements t with g[t] = x has n[x].
GroupOf(T, g, x) == {t \in T : g[t] = x}
LEMMA SumOfGroups ==
    ASSUME NEW T, IsFiniteSet(T), NEW m \in [T -> Nat], NEW S, IsFiniteSet(S), NEW n \in [S -> Nat],
           NEW g \in [T -> S], \A x \in S : n[x] = Cardinality(Items(GroupOf(T, g, x), m))
    PROVE  Cardinality(Items(S, n)) = Cardinality(Items(T, m))
<1> DEFINE I(x) == Items(GroupOf(T, g, x), m)
           h == [x \in S |-> CHOOSE f : f \in Bijection(1 .. n[x], I(x))]
<1>1. ASSUME NEW x \in S PROVE IsFiniteSet(I(x))
  <2> DEFINE G == GroupOf(T, g, x)
             mg == [t \in G |-> m[t]]
  <2>1. G \in SUBSET T
    BY DEF GroupOf
  <2>2. IsFiniteSet(G)
    BY <2>1, FS_Subset
  <2> HIDE DEF G
  <2>3. mg \in [G -> Nat]
    BY <2>1
  <2>4. IsFiniteSet(Items(G, mg))
    BY <2>2, <2>3, ItemsFinite
  <2>5. Items(G, mg) = Items(G, m)
    BY DEF Items
  <2> QED
    BY <2>4, <2>5 DEF G
<1>2. ASSUME NEW x \in S PROVE h[x] \in Bijection(1 .. n[x], I(x))
  <2>1. n[x] \in Nat /\ n[x] = Cardinality(I(x))
    OBVIOUS
  <2> HIDE DEF I
  <2>2. ExistsBijection(1 .. n[x], I(x))
    BY <1>1, <2>1, FS_NatBijection, FS_CardinalityType
  <2>3. \E f : f \in Bijection(1 .. n[x], I(x))
    BY <2>2 DEF ExistsBijection
  <2> QED
    BY <2>3
<1> HIDE DEF h
<1>3. ASSUME NEW x \in S
      PROVE  /\ \A k \in 1 .. n[x] : h[x][k] \in I(x)
             /\ \A k, l \in 1 .. n[x] : h[x][k] = h[x][l] => k = l
             /\ \A i \in I(x) : \E k \in 1 .. n[x] : h[x][k] = i
  <2> HIDE DEF I
  <2> QED
    BY <1>2 DEF Bijection, Injection, Surjection, IsInjective
<1>4. ASSUME NEW x \in S, NEW i \in I(x)
      PROVE  \E t \in T : \E k \in 1 .. m[t] : g[t] = x /\ i = <<t, k>>
  BY <1>4, ItemsOf DEF GroupOf
<1>5. ASSUME NEW t \in T, NEW k \in 1 .. m[t]
      PROVE  <<t, k>> \in I(g[t])
  <2>1. t \in GroupOf(T, g, g[t])
    BY DEF GroupOf
  <2> QED
    BY <2>1, ItemsOf
<1> HIDE DEF I
<1> DEFINE F == [i \in Items(S, n) |-> h[i[1]][i[2]]]
<1>6. ASSUME NEW i \in Items(S, n)
      PROVE  i[1] \in S /\ i[2] \in 1 .. n[i[1]] /\ i = <<i[1], i[2]>> /\ F[i] \in I(i[1])
  <2>1. PICK x \in S : \E k \in 1 .. n[x] : i = <<x, k>>
    BY ItemsOf
  <2>2. PICK k \in 1 .. n[x] : i = <<x, k>>
    BY <2>1
  <2>3. i[1] = x /\ i[2] = k /\ F[i] = h[i[1]][i[2]]
    BY <2>2
  <2> QED
    BY <1>3, <2>2, <2>3
<1> HIDE DEF F
<1>7. ASSUME NEW i \in Items(S, n) PROVE F[i] \in Items(T, m)
  <2>1. i[1] \in S /\ F[i] \in I(i[1])
    BY <1>6
  <2>2. PICK t \in T : \E k \in 1 .. m[t] : F[i] = <<t, k>>
    BY <1>4, <2>1
  <2> QED
    BY <2>2, ItemsOf
<1>8. ASSUME NEW i \in Items(S, n), NEW j \in Items(S, n), F[i] = F[j] PROVE i = j
  <2>1. /\ i[1] \in S /\ i[2] \in 1 .. n[i[1]] /\ i = <<i[1], i[2]>> /\ F[i] \in I(i[1])
        /\ j[1] \in S /\ j[2] \in 1 .. n[j[1]] /\ j = <<j[1], j[2]>> /\ F[j] \in I(j[1])
    BY <1>6
  <2>2. PICK t \in T : \E k \in 1 .. m[t] : g[t] = i[1] /\ F[i] = <<t, k>>
    BY <1>4, <2>1
  <2>3. PICK u \in T : \E k \in 1 .. m[u] : g[u] = j[1] /\ F[j] = <<u, k>>
    BY <1>4, <2>1
  <2>4. i[1] = j[1]
    <3>1. g[t] = i[1] /\ F[i][1] = t
      BY <2>2
    <3>2. g[u] = j[1] /\ F[j][1] = u
      BY <2>3
    <3> QED
      BY <1>8, <3>1, <3>2
  <2>5. h[i[1]][i[2]] = h[i[1]][j[2]]
    BY <1>8, <2>4 DEF F
  <2>6. i[2] = j[2]
    BY <1>3, <2>1, <2>4, <2>5
  <2> QED
    BY <2>1, <2>4, <2>6
<1>9. ASSUME NEW e \in Items(T, m) PROVE \E i \in Items(S, n) : F[i] = e
  <2>1. PICK t \in T : \E k \in 1 .. m[t] : e = <<t, k>>
    BY ItemsOf
  <2>2. e \in I(g[t]) /\ g[t] \in S
    BY <1>5, <2>1
  <2>3. PICK k \in 1 .. n[g[t]] : h[g[t]][k] = e
    BY <1>3, <2>2
  <2>4. <<g[t], k>> \in Items(S, n)
    BY <2>2, ItemsOf
  <2> QED
    BY <2>3, <2>4 DEF F
<1>10. F \in Bijection(Items(S, n), Items(T, m))
  <2>1. F \in [Items(S, n) -> Items(T, m)]
    BY <1>7 DEF F
  <2> QED
    BY <1>8, <1>9, <2>1 DEF Bijection, Injection, Surjection, IsInjective
<1> QED
  BY <1>10, ItemsFinite, FS_Bijection DEF ExistsBijection

\* A sum over fewer is no more.
LEMMA SumWithin ==
    ASSUME NEW S, IsFiniteSet(S), NEW n \in [S -> Nat], NEW T \in SUBSET S
    PROVE  Cardinality(Items(T, n)) \in Nat /\ Cardinality(Items(T, n)) <= Cardinality(Items(S, n))
<1>1. Items(T, n) \in SUBSET Items(S, n)
  BY DEF Items
<1>2. IsFiniteSet(Items(S, n))
  BY ItemsFinite
<1> QED
  BY <1>1, <1>2, FS_Subset, FS_CardinalityType

----------------------------------------------------------------------------
(* Investigations and record contexts: what a reader gathers                *)

\* The rows of the database and what a reader has gathered.
Signals == [mac : Macs, ap : Aps, sensor : Sensors, window : Windows]
Documents == [live : BOOLEAN, mac : Nat, ap : Nat, observed : Nat, text : 0..2]
Databases == [signals : SUBSET Signals, doc : Documents, vectors : SUBSET {1, 2}]
LinkKinds == {"observed", "association", "identity", "similar"}
Links == LinkKinds \X Macs \X (Macs \union Aps)
Points == {"idle", "roster", "evidence", "association", "typed", "similarity", "begin",
           "activity", "totals", "neighbours", "embedding", "done", "failed"}
Buckets == [start : Int, frames : Nat, sensors : Nat]
Readers ==
    [op : {"none", "investigate", "record"}, at : Points, snap : Databases, device : Nat, ap : Nat,
     from : Int, to : Int, nodeLimit : Nat, edgeLimit : Nat, page : Nat, record : Documents,
     roster : SUBSET ((Nat \X Nat) \X Nat), nodes : SUBSET ({"ap", "device"} \X Nat),
     links : SUBSET Links, proximity : {"unknown", "inferred"}, total : Nat,
     evidence : SUBSET Signals, activity : SUBSET Buckets,
     left : SUBSET Buckets, peak : [rate : Nat, start : SUBSET Int], neighbours : SUBSET Nat, current : SUBSET {1, 2}]
AnswerTyped ==
    /\ db \in Databases /\ IsFiniteSet(db.signals) /\ db.doc.text # 0 /\ changes \in 0 .. MaxChanges
    /\ reader \in Readers /\ IsFiniteSet(reader.snap.signals)

\* What the statements give, all of the one snapshot.
AllScoped == Investigations!Scoped(TRUE)
RosterRows == Investigations!FirstRows(Investigations!Pairs, reader.nodeLimit, Investigations!RosterBefore)
RosterOf == {<<p, Investigations!FrameSum(Investigations!SignalsOf(p))>> : p \in RosterRows}
NodesOf == {<<"ap", p[1]>> : p \in RosterRows} \union {<<"device", p[2]>> : p \in RosterRows}
BucketOf(b) == {s \in AllScoped : Investigations!Bucket(s.window) = b}
BucketStarts == {Investigations!Bucket(s.window) : s \in AllScoped}
ActivityRow(b) ==
    [start |-> b, frames |-> Investigations!FrameSum(BucketOf(b)), sensors |-> Investigations!SensorCount(BucketOf(b))]
ActivityOf == {ActivityRow(b) : b \in BucketStarts}

\* A record without an anchor has no rows to read.
Anchored == reader.op = "investigate" \/ Investigations!Anchor # "none"
PastRoster == {"evidence", "association", "typed", "similarity", "neighbours"}
OpsKnown ==
    /\ reader.at \in {"begin", "activity", "totals", "neighbours", "embedding"} => reader.op = "record"
    /\ reader.at = "evidence" => reader.op = "investigate"
    /\ reader.at \notin {"idle", "failed"} => reader.op # "none"
RosterLoaded ==
    /\ reader.at \in PastRoster \union {"roster", "activity", "totals"} => Anchored
    /\ reader.at \in PastRoster \union {"embedding", "done"} /\ Anchored =>
         reader.roster = RosterOf /\ reader.nodes = NodesOf
EvidenceLoaded ==
    reader.op = "investigate" /\ reader.at \in {"association", "typed", "similarity", "done"} =>
        reader.total = Cardinality(AllScoped) /\ reader.evidence \subseteq AllScoped
LinksEnd == reader.op = "investigate" => \A l \in reader.links : Investigations!Node(l) \subseteq reader.nodes

Similar == {l \in reader.links : l[1] = "similar"}
Corroborated(l) ==
    \E s, t \in Investigations!Shared(Investigations!Scoped(FALSE), <<l[2], l[3]>>) :
        \E u, v \in Investigations!Shared(Investigations!Scoped(FALSE), <<l[2], l[3]>>) :
            s.sensor # t.sensor /\ u.window # v.window
ProximityShown ==
    /\ reader.proximity = "inferred" <=> Similar # {}
    /\ \A l \in Similar : Corroborated(l)
    /\ reader.at \in {"idle", "begin", "activity", "totals", "roster"} => reader.links = {}
NoneMissed ==
    reader.at = "done" /\ reader.op = "investigate" /\ reader.proximity = "unknown"
      /\ Cardinality(Investigations!Overlapping) <= Investigations!Remaining
    => \A p \in Investigations!Overlapping :
         ~Investigations!Qualifies(Investigations!Shared(Investigations!Scoped(FALSE), p))

ActivityLoaded ==
    reader.op = "record" =>
        /\ reader.at \in {"begin", "activity"} \/ ~Anchored => reader.activity = {} /\ reader.neighbours = {}
        /\ reader.at \in PastRoster \union {"totals", "roster", "embedding", "done"} /\ Anchored => reader.activity = ActivityOf
        /\ reader.neighbours # {} => AllScoped # {}
InvestigationInv ==
    /\ AnswerTyped /\ OpsKnown /\ RosterLoaded /\ EvidenceLoaded /\ LinksEnd
    /\ ProximityShown /\ NoneMissed /\ ActivityLoaded

LEMMA ScopedKnown ==
    ASSUME AnswerTyped, NEW b \in BOOLEAN
    PROVE  /\ Investigations!Scoped(b) \in SUBSET Signals /\ IsFiniteSet(Investigations!Scoped(b))
           /\ Investigations!Scoped(b) \subseteq reader.snap.signals
           /\ AllScoped \subseteq Investigations!Scoped(b)
<1>1. reader.snap.signals \in SUBSET Signals /\ IsFiniteSet(reader.snap.signals)
  BY DEF AnswerTyped, Readers, Databases
<1>2. Investigations!Scoped(b) \in SUBSET reader.snap.signals
  BY DEF Investigations!Scoped, Investigations!Seen
<1>3. AllScoped \subseteq Investigations!Scoped(b)
  BY DEF AllScoped, Investigations!Scoped
<1> QED
  BY <1>1, <1>2, <1>3, FS_Subset

LEMMA SignalsKnown ==
    ASSUME NEW s \in Signals
    PROVE  s.mac \in Macs /\ s.ap \in Aps /\ s.sensor \in Sensors /\ s.window \in Nat
           /\ s.mac \in Nat /\ s.ap \in Nat /\ Frames[s.sensor] \in Nat
  BY InvestigationAssumption DEF Signals

\* The last time a set of signals was heard.
LEMMA LastSeenKnown ==
    ASSUME NEW S \in SUBSET Signals, IsFiniteSet(S), S # {}
    PROVE  Investigations!LastSeen(S) \in Nat
<1> DEFINE W == {s.window : s \in S}
<1>1. W \in SUBSET Nat /\ W # {}
  BY SignalsKnown
<1>2. IsFiniteSet(W)
  <2>1. W \in SUBSET Windows
    BY DEF Signals
  <2> QED
    BY <2>1, FS_Subset, InvestigationAssumption
<1>3. Investigations!Max(W) = Graphs!Max(W)
  BY DEF Investigations!Max, Graphs!Max
<1>4. Graphs!Max(W) \in W
  BY <1>1, <1>2, GreatestId
<1> QED
  BY <1>1, <1>3, <1>4 DEF Investigations!LastSeen

LEMMA PairsKnown ==
    ASSUME AnswerTyped
    PROVE  /\ IsFiniteSet(Investigations!Pairs) /\ Cardinality(Investigations!Pairs) <= Cardinality(AllScoped)
           /\ Cardinality(Investigations!Pairs) \in Nat /\ Cardinality(AllScoped) \in Nat
           /\ \A p \in Investigations!Pairs :
                /\ p \in Nat \X Nat /\ p[1] \in Aps /\ p[2] \in Macs
                /\ Investigations!LastSeen(Investigations!SignalsOf(p)) \in Nat
                /\ Investigations!SignalsOf(p) # {}
           /\ \A s \in AllScoped : <<s.ap, s.mac>> \in Investigations!Pairs
<1> DEFINE f == [s \in AllScoped |-> <<s.ap, s.mac>>]
<1>1. AllScoped \in SUBSET Signals /\ IsFiniteSet(AllScoped)
  BY ScopedKnown DEF AllScoped
<1>2. Investigations!Pairs = {f[s] : s \in AllScoped}
  BY DEF Investigations!Pairs, AllScoped
<1>3. f \in Surjection(AllScoped, Investigations!Pairs)
  BY <1>2 DEF Surjection
<1>4. ASSUME NEW p \in Investigations!Pairs
      PROVE  /\ p \in Nat \X Nat /\ p[1] \in Aps /\ p[2] \in Macs
             /\ Investigations!LastSeen(Investigations!SignalsOf(p)) \in Nat
             /\ Investigations!SignalsOf(p) # {}
  <2>1. PICK s \in AllScoped : p = <<s.ap, s.mac>>
    BY <1>2
  <2>2. p \in Nat \X Nat /\ p[1] \in Aps /\ p[2] \in Macs
    BY <1>1, <2>1, SignalsKnown
  <2>3. s \in Investigations!SignalsOf(p)
    BY <2>1 DEF Investigations!SignalsOf, AllScoped
  <2>4. Investigations!SignalsOf(p) \in SUBSET AllScoped
    BY DEF Investigations!SignalsOf, AllScoped
  <2>5. IsFiniteSet(Investigations!SignalsOf(p))
    BY <1>1, <2>4, FS_Subset
  <2> QED
    BY <1>1, <2>2, <2>3, <2>4, <2>5, LastSeenKnown
<1>5. \A s \in AllScoped : <<s.ap, s.mac>> \in Investigations!Pairs
  BY <1>2
<1> QED
  BY <1>1, <1>3, <1>4, <1>5, FS_Surjection, FS_CardinalityType

LEMMA RosterOrder ==
    ASSUME AnswerTyped, NEW p \in Investigations!Pairs, NEW q \in Investigations!Pairs, NEW r \in Investigations!Pairs
    PROVE  /\ ~Investigations!RosterBefore(p, p)
           /\ p # q => Investigations!RosterBefore(p, q) \/ Investigations!RosterBefore(q, p)
           /\ Investigations!RosterBefore(p, q) /\ Investigations!RosterBefore(q, r) => Investigations!RosterBefore(p, r)
<1> DEFINE w(x) == IF x[2] \in Pinned THEN 1 ELSE 0
           l(x) == Investigations!LastSeen(Investigations!SignalsOf(x))
<1>1. /\ p[1] \in Nat /\ p[2] \in Nat /\ p = <<p[1], p[2]>> /\ l(p) \in Nat /\ w(p) \in Nat
      /\ q[1] \in Nat /\ q[2] \in Nat /\ q = <<q[1], q[2]>> /\ l(q) \in Nat /\ w(q) \in Nat
      /\ r[1] \in Nat /\ r[2] \in Nat /\ r = <<r[1], r[2]>> /\ l(r) \in Nat /\ w(r) \in Nat
  BY PairsKnown
<1>2. \A x, y : Investigations!RosterBefore(x, y) <=>
          w(x) > w(y) \/ (w(x) = w(y) /\ (l(x) > l(y) \/ (l(x) = l(y) /\ Investigations!ByPair(x, y))))
  BY DEF Investigations!RosterBefore
<1> HIDE DEF w, l
<1>3. p # q => p[1] # q[1] \/ p[2] # q[2]
  BY <1>1
<1> QED
  BY <1>1, <1>2, <1>3 DEF Investigations!ByPair

\* The roster is all pairs, or as many as its limit.
LEMMA RosterRowsKnown ==
    ASSUME AnswerTyped
    PROVE  /\ RosterRows \in SUBSET Investigations!Pairs /\ IsFiniteSet(RosterRows) /\ Cardinality(RosterRows) \in Nat
           /\ RosterRows = Investigations!Pairs \/ Cardinality(RosterRows) = reader.nodeLimit
<1> DEFINE S == Investigations!Pairs
           A(x) == {y \in S : Investigations!RosterBefore(y, x)}
           B == [x \in S |-> A(x)]
           n == reader.nodeLimit
<1>1. RosterRows = Limited(S, B, n)
  <2>1. RosterRows = {x \in S : Investigations!Cardinality(A(x)) < n}
    BY DEF RosterRows, Investigations!FirstRows
  <2> HIDE DEF A
  <2> QED
    BY <2>1, InvestigationCardinality DEF Limited
<1>2. n \in Nat /\ IsFiniteSet(S)
  BY PairsKnown DEF AnswerTyped, Readers
<1>3. B \in [S -> SUBSET S] /\ \A x, y \in S : y \in B[x] <=> Investigations!RosterBefore(y, x)
  OBVIOUS
<1> HIDE DEF B, S
<1>4. Ordered(S, B)
  <2>1. \A x \in S : x \notin B[x]
    BY <1>3, RosterOrder DEF S
  <2>2. \A x, y \in S : x = y \/ x \in B[y] \/ y \in B[x]
    BY <1>3, RosterOrder DEF S
  <2>3. \A x, y \in S : x \in B[y] => B[x] \subseteq B[y]
    <3> SUFFICES ASSUME NEW x \in S, NEW y \in S, x \in B[y], NEW z \in B[x] PROVE z \in B[y]
      OBVIOUS
    <3>1. z \in S
      BY <1>3
    <3> QED
      BY <1>3, <3>1, RosterOrder DEF S
  <2> QED
    BY <1>2, <1>3, <2>1, <2>2, <2>3 DEF Ordered
<1>5. /\ Limited(S, B, n) \in SUBSET S
      /\ Cardinality(S) <= n => Limited(S, B, n) = S
      /\ Cardinality(S) > n => Cardinality(Limited(S, B, n)) = n
  BY <1>2, <1>4, LimitKeeps
<1>6. Cardinality(S) \in Nat
  BY <1>2, FS_CardinalityType
<1> HIDE DEF n
<1>7. RosterRows = S \/ Cardinality(RosterRows) = n
  BY <1>1, <1>2, <1>5, <1>6
<1> QED
  BY <1>1, <1>2, <1>5, <1>7, FS_Subset, FS_CardinalityType DEF S, n

\* A step within the transaction sees the same rows.
SameRead ==
    /\ reader'.op = reader.op /\ reader'.snap = reader.snap /\ reader'.device = reader.device /\ reader'.ap = reader.ap
    /\ reader'.from = reader.from /\ reader'.to = reader.to /\ reader'.nodeLimit = reader.nodeLimit
    /\ reader'.record = reader.record
LEMMA ScopedSame ==
    ASSUME SameRead
    PROVE  /\ \A b : Investigations!Scoped(b)' = Investigations!Scoped(b)
           /\ AllScoped' = AllScoped /\ Investigations!Pairs' = Investigations!Pairs
           /\ \A p : Investigations!SignalsOf(p)' = Investigations!SignalsOf(p)
           /\ \A S, p : Investigations!Shared(S, p)' = Investigations!Shared(S, p)
           /\ Anchored' <=> Anchored
<1>1. \A b : Investigations!Scoped(b)' = Investigations!Scoped(b)
  BY DEF SameRead, Investigations!Scoped, Investigations!Seen
<1>2. AllScoped' = AllScoped
  BY <1>1 DEF AllScoped
<1>3. Investigations!Pairs' = Investigations!Pairs
  BY <1>1 DEF Investigations!Pairs
<1>4. \A p : Investigations!SignalsOf(p)' = Investigations!SignalsOf(p)
  BY <1>1 DEF Investigations!SignalsOf
<1>5. \A S, p : Investigations!Shared(S, p)' = Investigations!Shared(S, p)
  BY DEF SameRead, Investigations!Shared, Investigations!Seen
<1>6. Anchored' <=> Anchored
  BY DEF SameRead, Anchored, Investigations!Anchor
<1> QED
  BY <1>1, <1>2, <1>3, <1>4, <1>5, <1>6

LEMMA RosterSame ==
    ASSUME SameRead
    PROVE  RosterRows' = RosterRows /\ RosterOf' = RosterOf /\ NodesOf' = NodesOf
<1>1. /\ Investigations!Pairs' = Investigations!Pairs
      /\ \A p : Investigations!SignalsOf(p)' = Investigations!SignalsOf(p)
  BY ScopedSame
<1>2. \A p, q : Investigations!RosterBefore(p, q)' <=> Investigations!RosterBefore(p, q)
  BY <1>1 DEF Investigations!RosterBefore
<1>3. RosterRows' = RosterRows
  <2> DEFINE S == Investigations!Pairs
             A(x) == {y \in S : Investigations!RosterBefore(y, x)}
             C(x) == {y \in S' : Investigations!RosterBefore(y, x)'}
  <2>1. \A x : C(x) = A(x)
    BY <1>1, <1>2
  <2>2. RosterRows = {x \in S : Investigations!Cardinality(A(x)) < reader.nodeLimit}
    BY DEF RosterRows, Investigations!FirstRows
  <2>3. RosterRows' = {x \in S' : Investigations!Cardinality(C(x)) < reader'.nodeLimit}
    BY DEF RosterRows, Investigations!FirstRows
  <2> HIDE DEF A, C, S
  <2>4. S' = S
    BY <1>1 DEF S
  <2> QED
    BY <2>1, <2>2, <2>3, <2>4 DEF SameRead
<1>4. RosterOf' = RosterOf
  BY <1>1, <1>3 DEF RosterOf
<1>5. NodesOf' = NodesOf
  BY <1>3 DEF NodesOf
<1> QED
  BY <1>3, <1>4, <1>5

LEMMA ActivitySame == ASSUME SameRead PROVE ActivityOf' = ActivityOf
<1>1. AllScoped' = AllScoped
  BY ScopedSame
<1>2. BucketStarts' = BucketStarts /\ \A b : BucketOf(b)' = BucketOf(b)
  BY <1>1 DEF BucketStarts, BucketOf
<1>3. \A b : ActivityRow(b)' = ActivityRow(b)
  BY <1>2 DEF ActivityRow
<1> QED
  BY <1>2, <1>3 DEF ActivityOf

LEMMA CorroboratedSame == ASSUME SameRead, NEW l PROVE Corroborated(l)' <=> Corroborated(l)
<1>1. /\ \A b : Investigations!Scoped(b)' = Investigations!Scoped(b)
      /\ \A S, p : Investigations!Shared(S, p)' = Investigations!Shared(S, p)
  BY ScopedSame
<1> DEFINE X == Investigations!Shared(Investigations!Scoped(FALSE), <<l[2], l[3]>>)
<1>2. X' = X
  BY <1>1
<1>3. Corroborated(l) <=> \E s, t \in X : \E u, v \in X : s.sensor # t.sensor /\ u.window # v.window
  BY DEF Corroborated
<1>4. Corroborated(l)' <=> \E s, t \in X' : \E u, v \in X' : s.sensor # t.sensor /\ u.window # v.window
  BY DEF Corroborated
<1> HIDE DEF X
<1> QED
  BY <1>2, <1>3, <1>4

\* What a step leaves of the reader, and what it gathers.
LEMMA InvestigationKeeps ==
    ASSUME InvestigationInv, SameRead
    PROVE  /\ reader.roster = RosterOf /\ reader.nodes = NodesOf /\ reader'.roster = reader.roster /\ reader'.nodes = reader.nodes
                => reader'.roster = RosterOf' /\ reader'.nodes = NodesOf'
           /\ reader.activity = ActivityOf /\ reader'.activity = reader.activity => reader'.activity = ActivityOf'
           /\ reader'.links = reader.links /\ reader'.proximity = reader.proximity
                /\ reader'.at \notin {"idle", "begin", "activity", "totals", "roster"} => ProximityShown'
           /\ reader'.links = reader.links /\ reader'.nodes = reader.nodes => LinksEnd'
           /\ reader.total = Cardinality(AllScoped) /\ reader.evidence \subseteq AllScoped /\ reader'.total = reader.total
                /\ reader'.evidence = reader.evidence
                => reader'.total = Cardinality(AllScoped') /\ reader'.evidence \subseteq AllScoped'
           /\ reader'.neighbours = reader.neighbours /\ (reader.neighbours # {} => AllScoped # {})
                => (reader'.neighbours # {} => AllScoped' # {})
<1>1. AllScoped' = AllScoped /\ RosterOf' = RosterOf /\ NodesOf' = NodesOf /\ ActivityOf' = ActivityOf
  BY ScopedSame, RosterSame, ActivitySame
<1>2. ASSUME reader'.links = reader.links, reader'.proximity = reader.proximity,
             reader'.at \notin {"idle", "begin", "activity", "totals", "roster"}
      PROVE  ProximityShown'
  <2>1. Similar' = Similar
    BY <1>2 DEF Similar
  <2>2. \A l \in Similar : Corroborated(l)'
    BY CorroboratedSame DEF InvestigationInv, ProximityShown
  <2> QED
    BY <1>2, <2>1, <2>2 DEF InvestigationInv, ProximityShown
<1>3. ASSUME reader'.links = reader.links, reader'.nodes = reader.nodes PROVE LinksEnd'
  BY <1>3 DEF InvestigationInv, LinksEnd, SameRead, Investigations!Node
<1> QED
  BY <1>1, <1>2, <1>3

LEMMA InvestigationBegins == Investigations!Init => InvestigationInv
<1> SUFFICES ASSUME Investigations!Init PROVE InvestigationInv
  OBVIOUS
<1> DEFINE none == [signals |-> {}, doc |-> Investigations!NoDoc, vectors |-> {}]
<1>1. PICK a \in {<<0, 0>>, <<0, 1>>, <<1, 1>>} :
         db = [Investigations!Empty EXCEPT !.doc = [live |-> TRUE, mac |-> a[1], ap |-> a[2],
                                     observed |-> Investigations!Max(Windows), text |-> 1]]
  BY DEF Investigations!Init
<1>2. Investigations!Max(Windows) \in Nat
  <2>1. Investigations!Max(Windows) = Graphs!Max(Windows)
    BY DEF Investigations!Max, Graphs!Max
  <2> QED
    BY <2>1, GreatestId, InvestigationAssumption
<1>3. a[1] \in Nat /\ a[2] \in Nat
  BY <1>1
<1>4. Investigations!NoDoc \in Documents
  BY DEF Investigations!NoDoc, Documents
<1>5. Investigations!Empty \in Databases /\ Investigations!Empty.signals = {}
  BY <1>4 DEF Investigations!Empty, Databases
<1>6. db \in Databases /\ db.signals = {} /\ db.doc.text = 1
  <2> DEFINE d == [live |-> TRUE, mac |-> a[1], ap |-> a[2], observed |-> Investigations!Max(Windows), text |-> 1]
  <2>1. d \in Documents /\ d.text = 1
    BY <1>2, <1>3 DEF Documents
  <2>2. db = [Investigations!Empty EXCEPT !.doc = d]
    BY <1>1
  <2> HIDE DEF d
  <2> QED
    BY <1>5, <2>1, <2>2 DEF Databases
<1>7. reader = Investigations!NoRequest /\ changes = 0
  BY DEF Investigations!Init
<1>8. reader \in Readers
  BY <1>4, <1>5, <1>7 DEF Investigations!NoRequest, Investigations!NoPeak, Readers, Points
<1>9. /\ reader.at = "idle" /\ reader.op = "none" /\ reader.links = {} /\ reader.proximity = "unknown"
      /\ reader.snap = Investigations!Empty
  BY <1>7 DEF Investigations!NoRequest
<1>10. IsFiniteSet({}) /\ MaxChanges \in Nat
  BY FS_EmptySet, InvestigationAssumption
<1>11. AnswerTyped
  BY <1>5, <1>6, <1>7, <1>8, <1>9, <1>10 DEF AnswerTyped
<1>12. Similar = {}
  BY <1>9 DEF Similar
<1> QED
  BY <1>9, <1>11, <1>12 DEF InvestigationInv, OpsKnown, RosterLoaded, PastRoster, EvidenceLoaded, LinksEnd, ProximityShown, NoneMissed,
     ActivityLoaded

\* Requests that have read nothing yet.
LEMMA NothingRead ==
    ASSUME AnswerTyped', reader'.at \in {"idle", "roster", "begin", "done", "failed"},
           reader'.links = {}, reader'.proximity = "unknown", reader'.neighbours = {}, reader'.activity = {},
           reader'.at = "roster" => reader'.op = "investigate",
           reader'.at = "done" => reader'.op = "record" /\ ~Anchored', reader'.at = "begin" => reader'.op = "record"
    PROVE  InvestigationInv'
<1>1. Similar' = {}
  BY DEF Similar
<1>2. OpsKnown' /\ RosterLoaded' /\ EvidenceLoaded' /\ LinksEnd' /\ NoneMissed' /\ ActivityLoaded'
  BY DEF OpsKnown, RosterLoaded, PastRoster, EvidenceLoaded, LinksEnd, NoneMissed, ActivityLoaded, Anchored
<1>3. ProximityShown'
  BY <1>1 DEF ProximityShown
<1> QED
  BY <1>2, <1>3 DEF InvestigationInv

LEMMA NoRequestKnown == Investigations!NoRequest \in Readers /\ IsFiniteSet(Investigations!NoRequest.snap.signals)
<1>1. Investigations!NoDoc \in Documents
  BY DEF Investigations!NoDoc, Documents
<1>2. Investigations!Empty \in Databases /\ Investigations!Empty.signals = {}
  BY <1>1 DEF Investigations!Empty, Databases
<1>3. Investigations!NoRequest \in Readers /\ Investigations!NoRequest.snap = Investigations!Empty
  BY <1>1, <1>2 DEF Investigations!NoRequest, Investigations!NoPeak, Readers, Points
<1> QED
  BY <1>2, <1>3, FS_EmptySet

LEMMA InvestigationFail == ASSUME InvestigationInv, Investigations!Fail PROVE InvestigationInv'
<1>1. reader' = [Investigations!NoRequest EXCEPT !.at = "failed"] /\ UNCHANGED <<db, changes>>
  BY DEF Investigations!Fail
<1>2. reader' \in Readers /\ reader'.at = "failed" /\ reader'.links = {} /\ reader'.proximity = "unknown"
      /\ reader'.neighbours = {} /\ reader'.activity = {} /\ reader'.snap = Investigations!NoRequest.snap
  <2>1. reader' \in Readers /\ reader'.at = "failed" /\ reader'.snap = Investigations!NoRequest.snap
    BY <1>1, NoRequestKnown DEF Readers, Points
  <2>2. reader'.links = {} /\ reader'.proximity = "unknown" /\ reader'.neighbours = {} /\ reader'.activity = {}
    BY <1>1 DEF Investigations!NoRequest
  <2> QED
    BY <2>1, <2>2
<1>3. AnswerTyped'
  BY <1>1, <1>2, NoRequestKnown DEF InvestigationInv, AnswerTyped
<1> QED
  BY <1>2, <1>3, NothingRead

LEMMA InvestigationAsked ==
    ASSUME InvestigationInv, NEW m \in Macs \union {0}, NEW a \in Aps \union {0}, NEW r \in Ranges,
           NEW n \in NodeLimits, NEW e \in EdgeLimits, NEW p \in PageSizes,
           Investigations!Investigate(m, a, r, n, e, p)
    PROVE  InvestigationInv'
<1>1. /\ reader' = [Investigations!NoRequest EXCEPT !.op = "investigate", !.at = "roster", !.snap = db,
                                   !.device = m, !.ap = a, !.from = r[1], !.to = r[2],
                                   !.nodeLimit = n, !.edgeLimit = e, !.page = p]
      /\ UNCHANGED <<db, changes>>
  BY DEF Investigations!Investigate
<1>2. m \in Nat /\ a \in Nat /\ r[1] \in Int /\ r[2] \in Int /\ n \in Nat /\ e \in Nat /\ p \in Nat
  BY InvestigationAssumption
<1>3. db \in Databases /\ IsFiniteSet(db.signals)
  BY DEF InvestigationInv, AnswerTyped
<1>4. reader' \in Readers /\ reader'.at = "roster" /\ reader'.op = "investigate" /\ reader'.snap = db
  BY ZenonT(30), <1>1, <1>2, <1>3, NoRequestKnown DEF Readers, Points
<1>5. reader'.links = {} /\ reader'.proximity = "unknown" /\ reader'.neighbours = {} /\ reader'.activity = {}
  BY <1>1 DEF Investigations!NoRequest
<1>6. AnswerTyped'
  BY <1>1, <1>3, <1>4 DEF InvestigationInv, AnswerTyped
<1> QED
  BY <1>4, <1>5, <1>6, NothingRead

LEMMA InvestigationResolve ==
    ASSUME InvestigationInv, NEW span \in Spans, Investigations!Resolve(span)
    PROVE  InvestigationInv'
<1> DEFINE to == db.doc.observed + 1
<1>1. db \in Databases /\ db.doc \in Documents /\ to \in Int /\ to - span \in Int /\ UNCHANGED <<db, changes>>
  BY InvestigationAssumption DEF InvestigationInv, AnswerTyped, Databases, Documents, Investigations!Resolve
<1>2. CASE ~db.doc.live
  <2>1. reader' = [Investigations!NoRequest EXCEPT !.op = "record", !.at = "done"]
    BY <1>2 DEF Investigations!Resolve
  <2>2. reader' \in Readers /\ reader'.at = "done" /\ reader'.op = "record" /\ reader'.snap = Investigations!NoRequest.snap
    BY ZenonT(30), <2>1, NoRequestKnown DEF Readers, Points
  <2>3. reader'.links = {} /\ reader'.proximity = "unknown" /\ reader'.neighbours = {} /\ reader'.activity = {}
        /\ reader'.record = Investigations!NoDoc
    BY <2>1 DEF Investigations!NoRequest
  <2>4. AnswerTyped'
    BY <1>1, <2>2, NoRequestKnown DEF InvestigationInv, AnswerTyped
  <2>5. ~Anchored'
    BY <2>2, <2>3 DEF Anchored, Investigations!Anchor, Investigations!NoDoc
  <2> QED
    BY <2>2, <2>3, <2>4, <2>5, NothingRead
<1>3. CASE db.doc.live
  <2>1. reader' = [Investigations!NoRequest EXCEPT !.op = "record", !.at = "begin", !.record = db.doc,
                                            !.from = to - span, !.to = to]
    BY <1>3 DEF Investigations!Resolve
  <2> HIDE DEF to
  <2>2. reader' \in Readers /\ reader'.at = "begin" /\ reader'.op = "record" /\ reader'.snap = Investigations!NoRequest.snap
    BY ZenonT(30), <1>1, <2>1, NoRequestKnown DEF Readers, Points
  <2>3. reader'.links = {} /\ reader'.proximity = "unknown" /\ reader'.neighbours = {} /\ reader'.activity = {}
    BY <2>1 DEF Investigations!NoRequest
  <2>4. AnswerTyped'
    BY <1>1, <2>2, NoRequestKnown DEF InvestigationInv, AnswerTyped
  <2> QED
    BY <2>2, <2>3, <2>4, NothingRead
<1> QED
  BY <1>2, <1>3

LEMMA InvestigationBegin ==
    ASSUME InvestigationInv, NEW n \in NodeLimits, NEW e \in EdgeLimits, Investigations!Begin(n, e)
    PROVE  InvestigationInv'
<1> DEFINE at == IF Investigations!Anchor = "none" THEN "embedding" ELSE "activity"
           d == IF Investigations!Anchor = "device" THEN reader.record.mac ELSE 0
           a == IF Investigations!Anchor = "ap" THEN reader.record.ap ELSE 0
<1>1. /\ reader.at = "begin" /\ UNCHANGED <<db, changes>>
      /\ reader' = [reader EXCEPT !.snap = db, !.nodeLimit = n, !.edgeLimit = e, !.at = at, !.device = d, !.ap = a]
  BY DEF Investigations!Begin
<1>2. reader \in Readers /\ db \in Databases /\ IsFiniteSet(db.signals) /\ n \in Nat /\ e \in Nat
  BY InvestigationAssumption DEF InvestigationInv, AnswerTyped
<1>3. d \in Nat /\ a \in Nat /\ at \in {"embedding", "activity"}
  BY <1>2 DEF Readers, Documents
<1>4. (at = "embedding") <=> Investigations!Anchor = "none"
  OBVIOUS
<1> HIDE DEF at, d, a
<1>5. /\ reader' \in Readers /\ reader'.at = at /\ reader'.snap = db /\ reader'.op = reader.op /\ reader'.record = reader.record
      /\ reader'.links = reader.links /\ reader'.proximity = reader.proximity /\ reader'.activity = reader.activity
      /\ reader'.neighbours = reader.neighbours
  BY ZenonT(30), <1>1, <1>2, <1>3 DEF Readers, Points
<1>6. AnswerTyped'
  BY <1>1, <1>2, <1>5 DEF InvestigationInv, AnswerTyped
<1>7. reader.links = {} /\ reader.proximity = "unknown"
  <2>1. reader.links = {}
    BY <1>1 DEF InvestigationInv, ProximityShown
  <2>2. Similar = {}
    BY <2>1 DEF Similar
  <2> QED
    BY <1>2, <2>1, <2>2 DEF InvestigationInv, ProximityShown, Readers
<1>8. (Anchored' <=> Anchored) /\ (Investigations!Anchor' = Investigations!Anchor)
  BY <1>5 DEF Anchored, Investigations!Anchor
<1>9. reader.op = "record" /\ reader.activity = {} /\ reader.neighbours = {}
  BY <1>1 DEF InvestigationInv, ActivityLoaded, OpsKnown
<1>10. (at = "activity" => Anchored) /\ (at = "embedding" => ~Anchored)
  BY <1>3, <1>4, <1>9 DEF Anchored
<1>11. OpsKnown' /\ RosterLoaded' /\ EvidenceLoaded' /\ LinksEnd' /\ NoneMissed' /\ ActivityLoaded'
  BY <1>3, <1>5, <1>8, <1>9, <1>10 DEF OpsKnown, RosterLoaded, PastRoster, EvidenceLoaded, LinksEnd, NoneMissed, ActivityLoaded
<1>12. Similar' = {}
  BY <1>5, <1>7 DEF Similar
<1>13. ProximityShown'
  BY <1>5, <1>7, <1>12 DEF ProximityShown
<1> QED
  BY <1>6, <1>11, <1>13 DEF InvestigationInv
\* Counts and sums of signals are numbers.
LEMMA FrameSumKnown ==
    ASSUME NEW S \in SUBSET Signals, IsFiniteSet(S)
    PROVE  /\ Investigations!FrameSum(S) \in Nat
           /\ Investigations!FrameSum(S) = Cardinality(Items(S, [s \in S |-> Frames[s.sensor]]))
<1> DEFINE n == [s \in S |-> Frames[s.sensor]]
<1>1. n \in [S -> Nat]
  BY SignalsKnown
<1>2. Investigations!FrameSum(S) = Cardinality(Items(S, n))
  BY SumsItems DEF Investigations!FrameSum
<1> HIDE DEF n
<1>3. Cardinality(Items(S, n)) \in Nat
  BY <1>1, ItemsFinite
<1> QED
  BY <1>2, <1>3 DEF n

LEMMA CountsKnown ==
    ASSUME NEW S \in SUBSET Signals, IsFiniteSet(S)
    PROVE  /\ IsFiniteSet({s.sensor : s \in S}) /\ Investigations!SensorCount(S) = Cardinality({s.sensor : s \in S})
           /\ IsFiniteSet({s.window : s \in S}) /\ Investigations!WindowCount(S) = Cardinality({s.window : s \in S})
           /\ Investigations!SensorCount(S) \in Nat /\ Investigations!WindowCount(S) \in Nat
<1> DEFINE f == [s \in S |-> s.sensor]
           g == [s \in S |-> s.window]
<1>1. f \in Surjection(S, {s.sensor : s \in S}) /\ g \in Surjection(S, {s.window : s \in S})
  BY DEF Surjection
<1>2. IsFiniteSet({s.sensor : s \in S}) /\ IsFiniteSet({s.window : s \in S})
  BY <1>1, FS_Surjection
<1> QED
  BY <1>2, FS_CardinalityType, InvestigationCardinality DEF Investigations!SensorCount, Investigations!WindowCount

\* Two or more values are two different ones.
LEMMA TwoDiffer ==
    ASSUME NEW S, IsFiniteSet(S), Cardinality(S) >= 2
    PROVE  \E x, y \in S : x # y
<1>1. S # {}
  BY FS_EmptySet
<1>2. PICK x \in S : TRUE
  BY <1>1
<1>3. S # {x}
  BY FS_Singleton
<1> QED
  BY <1>2, <1>3

LEMMA SharedKnown ==
    ASSUME AnswerTyped, NEW b \in BOOLEAN, NEW p
    PROVE  /\ Investigations!Shared(Investigations!Scoped(b), p) \in SUBSET Signals
           /\ IsFiniteSet(Investigations!Shared(Investigations!Scoped(b), p))
           /\ Investigations!Shared(Investigations!Scoped(b), p) \subseteq Investigations!Scoped(b)
<1>1. Investigations!Shared(Investigations!Scoped(b), p) \in SUBSET Investigations!Scoped(b)
  BY DEF Investigations!Shared
<1> QED
  BY <1>1, ScopedKnown, FS_Subset

\* What qualifies is corroborated.
LEMMA QualifiedDiffer ==
    ASSUME NEW S \in SUBSET Signals, IsFiniteSet(S), Investigations!Qualifies(S)
    PROVE  \E s, t \in S : \E u, v \in S : s.sensor # t.sensor /\ u.window # v.window
<1> DEFINE A == {s.sensor : s \in S}
           B == {s.window : s \in S}
<1>1. IsFiniteSet(A) /\ Cardinality(A) >= 2 /\ IsFiniteSet(B) /\ Cardinality(B) >= 2
  BY CountsKnown DEF Investigations!Qualifies
<1> HIDE DEF A, B
<1>2. (\E x, y \in A : x # y) /\ (\E x, y \in B : x # y)
  BY <1>1, TwoDiffer
<1> QED
  BY <1>2 DEF A, B

LEMMA RosterTyped ==
    ASSUME AnswerTyped
    PROVE  /\ RosterOf \in SUBSET ((Nat \X Nat) \X Nat) /\ NodesOf \in SUBSET ({"ap", "device"} \X Nat)
           /\ {<<"observed", p[2], p[1]>> : p \in RosterRows} \in SUBSET Links
<1>1. ASSUME NEW p \in RosterRows
      PROVE  p \in Nat \X Nat /\ p[1] \in Aps /\ p[2] \in Macs /\ Investigations!FrameSum(Investigations!SignalsOf(p)) \in Nat
  <2>1. p \in Nat \X Nat /\ p[1] \in Aps /\ p[2] \in Macs
    BY RosterRowsKnown, PairsKnown
  <2>2. Investigations!SignalsOf(p) \in SUBSET AllScoped
    BY DEF Investigations!SignalsOf, AllScoped
  <2>3. Investigations!SignalsOf(p) \in SUBSET Signals /\ IsFiniteSet(Investigations!SignalsOf(p))
    BY <2>2, ScopedKnown, FS_Subset DEF AllScoped
  <2> QED
    BY <2>1, <2>3, FrameSumKnown
<1>2. RosterOf \in SUBSET ((Nat \X Nat) \X Nat)
  BY <1>1 DEF RosterOf
<1>3. NodesOf \in SUBSET ({"ap", "device"} \X Nat)
  BY <1>1 DEF NodesOf
<1>4. {<<"observed", p[2], p[1]>> : p \in RosterRows} \in SUBSET Links
  BY <1>1 DEF Links, LinkKinds
<1> QED
  BY <1>2, <1>3, <1>4

LEMMA InvestigationLoadRoster == ASSUME InvestigationInv, Investigations!LoadRoster PROVE InvestigationInv'
<1> DEFINE at == IF reader.op = "record" THEN "association" ELSE "evidence"
           links == {<<"observed", p[2], p[1]>> : p \in RosterRows}
<1>1. reader.at = "roster" /\ UNCHANGED <<db, changes>>
  BY DEF Investigations!LoadRoster
<1>2. Investigations!Roster = [reader EXCEPT !.roster = RosterOf, !.nodes = NodesOf, !.links = links]
  BY DEF Investigations!Roster, RosterOf, NodesOf, RosterRows
<1>3. reader' = [Investigations!Roster EXCEPT !.at = at]
  BY DEF Investigations!LoadRoster
<1>4. AnswerTyped /\ reader \in Readers /\ at \in {"association", "evidence"}
      /\ RosterOf \in SUBSET ((Nat \X Nat) \X Nat) /\ NodesOf \in SUBSET ({"ap", "device"} \X Nat)
      /\ links \in SUBSET Links
  BY RosterTyped DEF InvestigationInv, AnswerTyped
<1>5. /\ (at = "association" => reader.op = "record") /\ (at = "evidence" => reader.op = "investigate")
      /\ reader.op # "none" /\ Anchored
  BY <1>1, <1>4 DEF InvestigationInv, OpsKnown, RosterLoaded, Readers
<1>6. \A l \in links : l[1] # "similar" /\ Investigations!Node(l) \subseteq NodesOf
  <2>1. ASSUME NEW p \in RosterRows PROVE Investigations!Node(<<"observed", p[2], p[1]>>) \subseteq NodesOf
    BY DEF NodesOf, Investigations!Node
  <2> QED
    BY <2>1
<1> HIDE DEF at, links
<1>7. /\ reader' \in Readers /\ SameRead /\ reader'.at = at /\ reader'.roster = RosterOf /\ reader'.nodes = NodesOf
      /\ reader'.links = links /\ reader'.proximity = reader.proximity /\ reader'.activity = reader.activity
      /\ reader'.neighbours = reader.neighbours
  <2> DEFINE ro == RosterOf
             no == NodesOf
  <2>1. ro \in SUBSET ((Nat \X Nat) \X Nat) /\ no \in SUBSET ({"ap", "device"} \X Nat) /\ at \in Points
    BY <1>4 DEF Points
  <2> HIDE DEF ro, no
  <2>2. reader' = [[reader EXCEPT !.roster = ro, !.nodes = no, !.links = links] EXCEPT !.at = at]
    BY <1>2, <1>3 DEF ro, no
  <2>3. reader' \in Readers
    BY <1>4, <2>1, <2>2 DEF Readers
  <2>4. SameRead
    BY <1>4, <2>2 DEF Readers, SameRead
  <2>5. /\ reader'.at = at /\ reader'.roster = ro /\ reader'.nodes = no
        /\ reader'.links = links /\ reader'.proximity = reader.proximity /\ reader'.activity = reader.activity
        /\ reader'.neighbours = reader.neighbours
    BY <1>4, <2>2 DEF Readers
  <2> QED
    BY <2>3, <2>4, <2>5 DEF ro, no
<1>8. AnswerTyped'
  BY <1>1, <1>4, <1>7 DEF InvestigationInv, AnswerTyped, SameRead
<1>9. AllScoped' = AllScoped /\ RosterOf' = RosterOf /\ NodesOf' = NodesOf /\ ActivityOf' = ActivityOf
      /\ (Anchored' <=> Anchored)
  BY <1>7, ScopedSame, RosterSame, ActivitySame
<1>10. reader.op = "record" => reader.activity = ActivityOf /\ (reader.neighbours # {} => AllScoped # {})
  BY <1>1, <1>5 DEF InvestigationInv, ActivityLoaded
<1>11. Similar' = {}
  BY <1>6, <1>7 DEF Similar
<1>12. reader.proximity = "unknown"
  <2>1. reader.links = {}
    BY <1>1 DEF InvestigationInv, ProximityShown
  <2>2. Similar = {}
    BY <2>1 DEF Similar
  <2> QED
    BY <1>4, <2>2 DEF InvestigationInv, ProximityShown, Readers
<1>13. ProximityShown'
  BY <1>4, <1>7, <1>11, <1>12 DEF ProximityShown
<1>14. LinksEnd'
  BY <1>6, <1>7 DEF LinksEnd, Investigations!Node
<1>15. OpsKnown' /\ RosterLoaded' /\ EvidenceLoaded' /\ NoneMissed' /\ ActivityLoaded'
  BY <1>4, <1>5, <1>7, <1>9, <1>10 DEF SameRead, OpsKnown, RosterLoaded, PastRoster, EvidenceLoaded, NoneMissed, ActivityLoaded
<1> QED
  BY <1>8, <1>13, <1>14, <1>15 DEF InvestigationInv
LEMMA InvestigationLoadEvidence == ASSUME InvestigationInv, Investigations!LoadEvidence PROVE InvestigationInv'
<1> DEFINE found == Investigations!FirstRows(AllScoped, reader.page, Investigations!EvidenceBefore)
           count == Cardinality(AllScoped)
<1>1. reader.at = "evidence" /\ UNCHANGED <<db, changes>>
      /\ reader' = [reader EXCEPT !.at = "association", !.total = count, !.evidence = found]
  BY InvestigationCardinality DEF Investigations!LoadEvidence, AllScoped
<1>2. AnswerTyped /\ reader \in Readers /\ reader.op = "investigate" /\ Anchored
      /\ reader.roster = RosterOf /\ reader.nodes = NodesOf
  BY <1>1 DEF InvestigationInv, AnswerTyped, OpsKnown, RosterLoaded, PastRoster
<1>3. found \in SUBSET AllScoped
  BY DEF Investigations!FirstRows
<1>4. count \in Nat /\ found \in SUBSET Signals
  BY <1>2, <1>3, PairsKnown, ScopedKnown DEF AllScoped
<1>5. count = Cardinality(AllScoped)
  OBVIOUS
<1> HIDE DEF found, count
<1>6. reader' \in Readers /\ SameRead
  <2>1. reader' \in Readers
    BY ZenonT(30), <1>1, <1>2, <1>4 DEF Readers, Points
  <2>2. SameRead
    BY <1>1, <1>2 DEF Readers, SameRead
  <2> QED
    BY <2>1, <2>2
<1>7. /\ reader'.at = "association" /\ reader'.total = count /\ reader'.evidence = found
      /\ reader'.roster = reader.roster /\ reader'.nodes = reader.nodes /\ reader'.links = reader.links
      /\ reader'.proximity = reader.proximity /\ reader'.op = "investigate"
  BY <1>1, <1>2 DEF Readers
<1>8. AnswerTyped'
  BY <1>1, <1>2, <1>6 DEF AnswerTyped, SameRead
<1>9. AllScoped' = AllScoped /\ RosterOf' = RosterOf /\ NodesOf' = NodesOf /\ (Anchored' <=> Anchored)
  BY <1>6, ScopedSame, RosterSame
<1>10. ProximityShown' /\ LinksEnd'
  BY <1>6, <1>7, InvestigationKeeps
<1>11. EvidenceLoaded'
  BY <1>3, <1>5, <1>7, <1>9 DEF EvidenceLoaded
<1>12. OpsKnown' /\ RosterLoaded' /\ NoneMissed' /\ ActivityLoaded'
  BY <1>2, <1>7, <1>9 DEF OpsKnown, RosterLoaded, PastRoster, NoneMissed, ActivityLoaded
<1> QED
  BY <1>8, <1>10, <1>11, <1>12 DEF InvestigationInv

\* Statements that add links between nodes of the roster.
LEMMA LinksGathered ==
    ASSUME InvestigationInv, UNCHANGED <<db, changes>>, reader.at \in {"association", "typed"},
           NEW at \in {"typed", "similarity", "neighbours"}, at = "neighbours" => reader.op = "record",
           NEW new \in SUBSET ({"association", "identity"} \X Macs \X (Macs \union Aps)),
           \A l \in new : Investigations!Node(l) \subseteq reader.nodes,
           reader' = [reader EXCEPT !.at = at, !.links = reader.links \union new]
    PROVE  InvestigationInv'
<1>1. AnswerTyped /\ reader \in Readers /\ reader.op \in {"investigate", "record"} /\ Anchored
      /\ reader.roster = RosterOf /\ reader.nodes = NodesOf
  BY DEF InvestigationInv, AnswerTyped, OpsKnown, RosterLoaded, PastRoster, Readers
<1>2. new \in SUBSET Links /\ \A l \in new : l[1] # "similar"
  BY DEF Links, LinkKinds
<1> DEFINE links == reader.links \union new
<1>3. links \in SUBSET Links
  BY <1>1, <1>2 DEF Readers
<1>4. reader' = [reader EXCEPT !.at = at, !.links = links]
  OBVIOUS
<1>5. {l \in links : l[1] = "similar"} = Similar
  BY <1>2 DEF Similar
<1>6. LinksEnd => (reader.op = "investigate" => \A l \in links : Investigations!Node(l) \subseteq reader.nodes)
  BY DEF LinksEnd
<1> HIDE DEF links
<1>7. reader' \in Readers /\ SameRead
  <2> DEFINE to == at
  <2>1. to \in Points
    BY DEF Points
  <2>2. reader' = [reader EXCEPT !.at = to, !.links = links]
    BY <1>4
  <2> HIDE DEF to
  <2>3. reader' \in Readers
    BY ZenonT(30), <1>1, <1>3, <2>1, <2>2 DEF Readers
  <2>4. SameRead
    BY <1>1, <1>4 DEF Readers, SameRead
  <2> QED
    BY <2>3, <2>4
<1>8. /\ reader'.at = at /\ reader'.links = links /\ reader'.op = reader.op /\ reader'.total = reader.total
      /\ reader'.evidence = reader.evidence /\ reader'.roster = reader.roster /\ reader'.nodes = reader.nodes
      /\ reader'.proximity = reader.proximity /\ reader'.activity = reader.activity
      /\ reader'.neighbours = reader.neighbours
  BY <1>1, <1>4 DEF Readers
<1>9. AnswerTyped'
  BY <1>1, <1>7 DEF AnswerTyped, SameRead
<1>10. AllScoped' = AllScoped /\ RosterOf' = RosterOf /\ NodesOf' = NodesOf /\ ActivityOf' = ActivityOf
       /\ (Anchored' <=> Anchored)
  BY <1>7, ScopedSame, RosterSame, ActivitySame
<1>11. Similar' = Similar
  BY <1>5, <1>8 DEF Similar
<1>12. ProximityShown'
  <2>1. \A l \in Similar : Corroborated(l)'
    BY <1>7, CorroboratedSame DEF InvestigationInv, ProximityShown
  <2> QED
    BY <1>8, <1>11, <2>1 DEF InvestigationInv, ProximityShown
<1>13. LinksEnd'
  BY <1>6, <1>8 DEF InvestigationInv, LinksEnd, Investigations!Node
<1>14. EvidenceLoaded'
  BY <1>8, <1>10 DEF InvestigationInv, EvidenceLoaded
<1>15. OpsKnown' /\ RosterLoaded' /\ NoneMissed'
  BY <1>1, <1>8, <1>10 DEF OpsKnown, RosterLoaded, PastRoster, NoneMissed
<1>16. ActivityLoaded'
  BY <1>1, <1>8, <1>10 DEF InvestigationInv, ActivityLoaded, PastRoster
<1> QED
  BY <1>9, <1>12, <1>13, <1>14, <1>15, <1>16 DEF InvestigationInv

LEMMA InvestigationLoadAssociations == ASSUME InvestigationInv, Investigations!LoadAssociations PROVE InvestigationInv'
<1> DEFINE found == {p \in Joined : p[1] \in Investigations!Devices /\ <<"ap", p[2]>> \in reader.nodes}
           kept == Investigations!FirstRows(found, Investigations!Remaining, Investigations!ByPair)
           new == {<<"association", p[1], p[2]>> : p \in kept}
<1>1. /\ reader.at = "association" /\ UNCHANGED <<db, changes>>
      /\ reader' = [reader EXCEPT !.at = "typed", !.links = @ \union new]
  BY DEF Investigations!LoadAssociations
<1>2. kept \in SUBSET found
  BY DEF Investigations!FirstRows
<1>3. ASSUME NEW p \in kept
      PROVE  p[1] \in Macs /\ p[2] \in Aps /\ Investigations!Node(<<"association", p[1], p[2]>>) \subseteq reader.nodes
  <2>1. p \in Joined /\ <<"device", p[1]>> \in reader.nodes /\ <<"ap", p[2]>> \in reader.nodes
    BY <1>2 DEF Investigations!Devices
  <2>2. p[1] \in Macs /\ p[2] \in Aps
    BY <2>1, InvestigationAssumption
  <2> QED
    BY <2>1, <2>2 DEF Investigations!Node
<1> HIDE DEF kept
<1>4. new \in SUBSET ({"association", "identity"} \X Macs \X (Macs \union Aps))
      /\ \A l \in new : Investigations!Node(l) \subseteq reader.nodes
  BY <1>3
<1> HIDE DEF new
<1>5. reader' = [reader EXCEPT !.at = "typed", !.links = reader.links \union new]
  BY <1>1
<1> QED
  BY <1>1, <1>4, <1>5, LinksGathered

LEMMA InvestigationLoadTyped == ASSUME InvestigationInv, Investigations!LoadTyped PROVE InvestigationInv'
<1> DEFINE found == {p \in Same : p[1] \in Investigations!Devices /\ p[2] \in Investigations!Devices}
           kept == Investigations!FirstRows(found, Investigations!Remaining, Investigations!ByPair)
           new == {<<"identity", p[1], p[2]>> : p \in kept}
           at == IF reader.op = "record" /\ reader.device # 0 THEN "neighbours" ELSE "similarity"
<1>1. /\ reader.at = "typed" /\ UNCHANGED <<db, changes>>
      /\ reader' = [reader EXCEPT !.at = at, !.links = @ \union new]
  BY DEF Investigations!LoadTyped
<1>2. kept \in SUBSET found
  BY DEF Investigations!FirstRows
<1>3. ASSUME NEW p \in kept
      PROVE  p[1] \in Macs /\ p[2] \in Macs /\ Investigations!Node(<<"identity", p[1], p[2]>>) \subseteq reader.nodes
  <2>1. p \in Same /\ <<"device", p[1]>> \in reader.nodes /\ <<"device", p[2]>> \in reader.nodes
    BY <1>2 DEF Investigations!Devices
  <2>2. p[1] \in Macs /\ p[2] \in Macs
    BY <2>1, InvestigationAssumption
  <2> QED
    BY <2>1, <2>2 DEF Investigations!Node
<1> HIDE DEF kept
<1>4. new \in SUBSET ({"association", "identity"} \X Macs \X (Macs \union Aps))
      /\ \A l \in new : Investigations!Node(l) \subseteq reader.nodes
  BY <1>3
<1>5. at \in {"typed", "similarity", "neighbours"} /\ (at = "neighbours" => reader.op = "record")
  OBVIOUS
<1> HIDE DEF new, at
<1>6. reader' = [reader EXCEPT !.at = at, !.links = reader.links \union new]
  BY <1>1
<1> QED
  BY <1>1, <1>4, <1>5, <1>6, LinksGathered
LEMMA ReaderGathers ==
    ASSUME NEW r \in Readers, NEW at \in Points, NEW near \in SUBSET Nat, NEW prox \in {"unknown", "inferred"},
           NEW links \in SUBSET Links
    PROVE  [r EXCEPT !.at = at, !.neighbours = near, !.proximity = prox, !.links = links] \in Readers
  BY DEF Readers

\* The statements that compare devices add only links they can corroborate.
LEMMA SimilarGathered ==
    ASSUME InvestigationInv, UNCHANGED <<db, changes>>, reader.at \in {"similarity", "neighbours"},
           NEW at \in {"embedding", "done"}, at = IF reader.op = "record" THEN "embedding" ELSE "done",
           NEW near \in SUBSET Nat, near # {} => reader.op = "investigate" \/ AllScoped # {},
           NEW new \in SUBSET ({"similar"} \X Macs \X (Macs \union Aps)),
           \A l \in new : Corroborated(l),
           reader.op = "investigate" => \A l \in new : Investigations!Node(l) \subseteq reader.nodes,
           reader' = [reader EXCEPT !.at = at, !.neighbours = near,
                                    !.proximity = IF new # {} THEN "inferred" ELSE reader.proximity,
                                    !.links = reader.links \union new],
           NoneMissed'
    PROVE  InvestigationInv'
<1>1. AnswerTyped /\ reader \in Readers /\ reader.op \in {"investigate", "record"} /\ Anchored
      /\ reader.roster = RosterOf /\ reader.nodes = NodesOf
  BY DEF InvestigationInv, AnswerTyped, OpsKnown, RosterLoaded, PastRoster, Readers
<1> DEFINE links == reader.links \union new
           prox == IF new # {} THEN "inferred" ELSE reader.proximity
           to == at
<1>2. links \in SUBSET Links /\ prox \in {"unknown", "inferred"} /\ to \in Points
  BY <1>1 DEF Readers, Links, LinkKinds, Points
<1>3. reader' = [reader EXCEPT !.at = to, !.neighbours = near, !.proximity = prox, !.links = links]
  OBVIOUS
<1>4. {l \in links : l[1] = "similar"} = Similar \union new
  BY DEF Similar
<1>5. LinksEnd => (reader.op = "investigate" => \A l \in links : Investigations!Node(l) \subseteq reader.nodes)
  BY DEF LinksEnd
<1>6. prox = "inferred" <=> Similar \union new # {}
  BY DEF InvestigationInv, ProximityShown
<1>7. (to = "embedding" <=> reader.op = "record") /\ (to = "done" <=> reader.op = "investigate") /\ to \in {"embedding", "done"}
  BY <1>1
<1> HIDE DEF links, prox, to
<1>8. reader' \in Readers /\ SameRead
  <2>1. reader' \in Readers
    <3> DEFINE got == [reader EXCEPT !.at = to, !.neighbours = near, !.proximity = prox, !.links = links]
    <3>1. reader \in Readers /\ to \in Points /\ near \in SUBSET Nat /\ prox \in {"unknown", "inferred"}
          /\ links \in SUBSET Links
      BY <1>1, <1>2
    <3>2. got \in Readers
      BY ONLY <3>1, ReaderGathers
    <3> QED
      BY <1>3, <3>2
  <2>2. SameRead
    BY <1>1, <1>3 DEF Readers, SameRead
  <2> QED
    BY <2>1, <2>2
<1>9. /\ reader'.at = to /\ reader'.links = links /\ reader'.op = reader.op /\ reader'.total = reader.total
      /\ reader'.evidence = reader.evidence /\ reader'.roster = reader.roster /\ reader'.nodes = reader.nodes
      /\ reader'.proximity = prox /\ reader'.activity = reader.activity /\ reader'.neighbours = near
  BY <1>1, <1>3 DEF Readers
<1>10. AnswerTyped'
  BY <1>1, <1>8 DEF AnswerTyped, SameRead
<1>11. AllScoped' = AllScoped /\ RosterOf' = RosterOf /\ NodesOf' = NodesOf /\ ActivityOf' = ActivityOf
       /\ (Anchored' <=> Anchored)
  BY <1>8, ScopedSame, RosterSame, ActivitySame
<1>12. Similar' = Similar \union new
  BY <1>4, <1>9 DEF Similar
<1>13. ProximityShown'
  <2>1. \A l \in Similar \union new : Corroborated(l)'
    <3> SUFFICES ASSUME NEW l \in Similar \union new PROVE Corroborated(l)'
      OBVIOUS
    <3>1. Corroborated(l)
      BY DEF InvestigationInv, ProximityShown
    <3> QED
      BY <1>8, <3>1, CorroboratedSame
  <2>2. reader'.at \notin {"idle", "begin", "activity", "totals", "roster"}
    BY <1>7, <1>9
  <2> QED
    BY <1>6, <1>9, <1>12, <2>1, <2>2 DEF ProximityShown
<1>14. LinksEnd'
  BY <1>5, <1>9 DEF InvestigationInv, LinksEnd, Investigations!Node
<1>15. EvidenceLoaded'
  <2>1. reader.op = "investigate" => reader.at = "similarity"
    BY DEF InvestigationInv, OpsKnown
  <2> QED
    BY <1>9, <1>11, <2>1 DEF InvestigationInv, EvidenceLoaded
<1>16. OpsKnown' /\ RosterLoaded'
  BY <1>1, <1>7, <1>9, <1>11 DEF OpsKnown, RosterLoaded, PastRoster
<1>17. ActivityLoaded'
  <2>1. reader.op = "record" => reader.activity = ActivityOf
    BY <1>1 DEF InvestigationInv, ActivityLoaded, PastRoster
  <2> QED
    BY <1>1, <1>7, <1>9, <1>11, <2>1 DEF ActivityLoaded
<1> QED
  BY <1>10, <1>13, <1>14, <1>15, <1>16, <1>17 DEF InvestigationInv
\* A limit no smaller than the set cuts nothing.
LEMMA NoneCut ==
    ASSUME NEW S, IsFiniteSet(S), NEW B \in [S -> SUBSET S], \A x \in S : x \notin B[x], NEW n \in Nat, Cardinality(S) <= n
    PROVE  Limited(S, B, n) = S
<1>1. ASSUME NEW x \in S PROVE Cardinality(B[x]) < n
  <2>1. B[x] \in SUBSET S /\ B[x] # S
    OBVIOUS
  <2>2. IsFiniteSet(B[x]) /\ Cardinality(B[x]) <= Cardinality(S) /\ Cardinality(B[x]) # Cardinality(S)
    BY <2>1, FS_Subset
  <2>3. Cardinality(B[x]) \in Nat /\ Cardinality(S) \in Nat
    BY <2>2, FS_CardinalityType
  <2> QED
    BY <2>2, <2>3
<1> QED
  BY <1>1 DEF Limited

LEMMA OverlappingKnown ==
    ASSUME AnswerTyped
    PROVE  /\ IsFiniteSet(Investigations!Overlapping)
           /\ \A p \in Investigations!Overlapping :
                /\ p = <<p[1], p[2]>> /\ p[1] \in Nat /\ p[2] \in Nat
                /\ <<"device", p[1]>> \in reader.nodes /\ <<"device", p[2]>> \in reader.nodes
                /\ ~Investigations!OverlapBefore(p, p)
<1>1. Investigations!Devices \in SUBSET Macs
  BY DEF Investigations!Devices
<1>2. IsFiniteSet(Investigations!Devices)
  BY <1>1, InvestigationAssumption, FS_Subset
<1>3. Investigations!Overlapping \in SUBSET (Investigations!Devices \X Investigations!Devices)
  BY DEF Investigations!Overlapping
<1>4. IsFiniteSet(Investigations!Overlapping)
  BY <1>2, <1>3, FS_Product, FS_Subset
<1>5. ASSUME NEW p \in Investigations!Overlapping
      PROVE  /\ p = <<p[1], p[2]>> /\ p[1] \in Nat /\ p[2] \in Nat
             /\ <<"device", p[1]>> \in reader.nodes /\ <<"device", p[2]>> \in reader.nodes
  <2>1. p = <<p[1], p[2]>> /\ p[1] \in Investigations!Devices /\ p[2] \in Investigations!Devices
    BY <1>3
  <2>2. p[1] \in Nat /\ p[2] \in Nat
    BY <1>1, <2>1, InvestigationAssumption
  <2> QED
    BY <2>1, <2>2 DEF Investigations!Devices
<1>6. ASSUME NEW p \in Investigations!Overlapping PROVE ~Investigations!OverlapBefore(p, p)
  <2> DEFINE a == Investigations!Shared(Investigations!Scoped(FALSE), p)
  <2>1. Investigations!SensorCount(a) \in Nat /\ Investigations!WindowCount(a) \in Nat
    BY SharedKnown, CountsKnown
  <2>2. ~Investigations!ByPair(p, p)
    <3>1. p[1] \in Nat /\ p[2] \in Nat
      BY <1>5
    <3> QED
      BY <3>1 DEF Investigations!ByPair
  <2> DEFINE sc == Investigations!SensorCount(a)
             wc == Investigations!WindowCount(a)
  <2>3. Investigations!OverlapBefore(p, p) <=> (sc > sc \/ (sc = sc /\ wc > wc) \/ (sc = sc /\ wc = wc /\ Investigations!ByPair(p, p)))
    BY DEF Investigations!OverlapBefore
  <2> HIDE DEF a
  <2>4. sc \in Nat /\ wc \in Nat
    BY <2>1
  <2> HIDE DEF sc, wc
  <2> QED
    BY <2>2, <2>3, <2>4
<1> QED
  BY <1>4, <1>5, <1>6

LEMMA OverlappingSame ==
    ASSUME SameRead, reader'.nodes = reader.nodes PROVE Investigations!Overlapping' = Investigations!Overlapping
<1> DEFINE X(p) == Investigations!Shared(Investigations!Scoped(FALSE), p)
<1>1. \A p : X(p)' = X(p)
  BY ScopedSame
<1>2. Investigations!Devices' = Investigations!Devices
  BY DEF Investigations!Devices
<1>3. Investigations!Overlapping =
         {p \in Investigations!Devices \X Investigations!Devices :
            p[1] < p[2] /\ (reader.device # 0 => reader.device \in {p[1], p[2]}) /\ X(p) # {}}
  BY DEF Investigations!Overlapping
<1>4. Investigations!Overlapping' =
         {p \in Investigations!Devices' \X Investigations!Devices' :
            p[1] < p[2] /\ (reader'.device # 0 => reader'.device \in {p[1], p[2]}) /\ X(p)' # {}}
  BY DEF Investigations!Overlapping
<1> HIDE DEF X
<1> QED
  BY <1>1, <1>2, <1>3, <1>4 DEF SameRead

LEMMA RemainingKnown ==
    ASSUME AnswerTyped PROVE Investigations!Remaining \in Nat
<1>1. IsFiniteSet(LinkKinds)
  <2>1. IsFiniteSet({"observed"}) /\ IsFiniteSet({"association"}) /\ IsFiniteSet({"identity"}) /\ IsFiniteSet({"similar"})
    BY FS_Singleton
  <2>2. IsFiniteSet({"observed"} \union {"association"}) /\ IsFiniteSet({"identity"} \union {"similar"})
    BY <2>1, FS_Union
  <2>3. LinkKinds = ({"observed"} \union {"association"}) \union ({"identity"} \union {"similar"})
    BY DEF LinkKinds
  <2> QED
    BY <2>2, <2>3, FS_Union
<1>2. IsFiniteSet(Macs \union Aps) /\ IsFiniteSet(Macs)
  BY InvestigationAssumption, FS_Union
<1>3. IsFiniteSet(reader.links)
  <2> DEFINE f == [l \in Links |-> <<l[1], <<l[2], l[3]>>>>]
  <2>1. IsFiniteSet(LinkKinds \X (Macs \X (Macs \union Aps)))
    BY <1>1, <1>2, FS_Product
  <2>2. f \in Injection(Links, LinkKinds \X (Macs \X (Macs \union Aps)))
    BY DEF Links, Injection, IsInjective
  <2>3. IsFiniteSet(Links)
    BY <2>1, <2>2, FS_Injection
  <2>4. reader.links \in SUBSET Links
    BY DEF AnswerTyped, Readers
  <2> QED
    BY <2>3, <2>4, FS_Subset
<1>4. Cardinality(reader.links) \in Nat /\ reader.edgeLimit \in Nat
  BY <1>3, FS_CardinalityType DEF AnswerTyped, Readers
<1> QED
  BY <1>4, InvestigationCardinality DEF Investigations!Remaining
LEMMA CorroboratedBy ==
    ASSUME NEW a, NEW b, NEW S \in SUBSET Investigations!Shared(Investigations!Scoped(FALSE), <<a, b>>),
           \E s, t \in S : \E u, v \in S : s.sensor # t.sensor /\ u.window # v.window
    PROVE  Corroborated(<<"similar", a, b>>)
<1> DEFINE D == Investigations!Shared(Investigations!Scoped(FALSE), <<a, b>>)
           l == <<"similar", a, b>>
<1>1. l[2] = a /\ l[3] = b
  OBVIOUS
<1> HIDE DEF l
<1>2. Corroborated(l) <=> \E s, t \in D : \E u, v \in D : s.sensor # t.sensor /\ u.window # v.window
  BY <1>1 DEF Corroborated
<1>3. S \in SUBSET D
  OBVIOUS
<1> HIDE DEF D
<1>4. Corroborated(l)
  BY <1>2, <1>3
<1> QED
  BY <1>4 DEF l

LEMMA InvestigationLoadSimilarity == ASSUME InvestigationInv, Investigations!LoadSimilarity PROVE InvestigationInv'
<1> DEFINE X(p) == Investigations!Shared(Investigations!Scoped(FALSE), p)
           O == Investigations!Overlapping
           kept == Investigations!FirstRows(O, Investigations!Remaining, Investigations!OverlapBefore)
           inferred == {p \in kept : Investigations!Qualifies(X(p))}
           at == IF reader.op = "record" THEN "embedding" ELSE "done"
           near == IF reader.op = "record" THEN {r[1][2] : r \in reader.roster} ELSE reader.neighbours
           new == {<<"similar", p[1], p[2]>> : p \in inferred}
<1>1. /\ reader.at = "similarity" /\ UNCHANGED <<db, changes>>
      /\ reader' = [reader EXCEPT !.at = at, !.neighbours = near,
                                  !.proximity = IF inferred # {} THEN "inferred" ELSE reader.proximity,
                                  !.links = reader.links \union new]
  BY DEF Investigations!LoadSimilarity
<1>2. AnswerTyped /\ reader \in Readers /\ Anchored /\ reader.roster = RosterOf
  BY <1>1 DEF InvestigationInv, AnswerTyped, RosterLoaded, PastRoster
<1>3. kept \in SUBSET O /\ inferred \in SUBSET O
  BY DEF Investigations!FirstRows
<1>4. near \in SUBSET Nat
  BY <1>2 DEF Readers
<1>5. near # {} => reader.op = "investigate" \/ AllScoped # {}
  <2> SUFFICES ASSUME near # {}, reader.op # "investigate" PROVE AllScoped # {}
    OBVIOUS
  <2>1. reader.op = "record"
    BY <1>1, <1>2 DEF InvestigationInv, OpsKnown, Readers
  <2>2. RosterOf # {}
    BY <1>2, <2>1
  <2>3. RosterRows # {}
    BY <2>2 DEF RosterOf
  <2>4. Investigations!Pairs # {}
    BY <1>2, <2>3, RosterRowsKnown
  <2> QED
    BY <2>4 DEF Investigations!Pairs, AllScoped
<1>6. ASSUME NEW p \in inferred
      PROVE  /\ <<"similar", p[1], p[2]>> \in {"similar"} \X Macs \X (Macs \union Aps)
             /\ Corroborated(<<"similar", p[1], p[2]>>)
             /\ Investigations!Node(<<"similar", p[1], p[2]>>) \subseteq reader.nodes
  <2>1. p \in O /\ p = <<p[1], p[2]>> /\ <<"device", p[1]>> \in reader.nodes /\ <<"device", p[2]>> \in reader.nodes
    BY <1>2, <1>3, OverlappingKnown
  <2>2. p[1] \in Macs /\ p[2] \in Macs
    BY <2>1 DEF Investigations!Overlapping, Investigations!Devices
  <2>3. X(p) \in SUBSET Signals /\ IsFiniteSet(X(p)) /\ Investigations!Qualifies(X(p))
    BY <1>2, SharedKnown
  <2>4. X(p) = X(<<p[1], p[2]>>)
    BY <2>1
  <2> HIDE DEF X
  <2>5. \E s, t \in X(p) : \E u, v \in X(p) : s.sensor # t.sensor /\ u.window # v.window
    BY <2>3, QualifiedDiffer
  <2>6. Corroborated(<<"similar", p[1], p[2]>>)
    BY <2>4, <2>5, CorroboratedBy DEF X
  <2>7. Investigations!Node(<<"similar", p[1], p[2]>>) \subseteq reader.nodes
    BY <2>1 DEF Investigations!Node
  <2> QED
    BY <2>2, <2>6, <2>7
<1>7. new # {} <=> inferred # {}
  OBVIOUS
<1> HIDE DEF inferred
<1>8. /\ new \in SUBSET ({"similar"} \X Macs \X (Macs \union Aps))
      /\ \A l \in new : Corroborated(l)
      /\ \A l \in new : Investigations!Node(l) \subseteq reader.nodes
  BY <1>6
<1> HIDE DEF new, near
<1>9. at \in {"embedding", "done"} /\ at = IF reader.op = "record" THEN "embedding" ELSE "done"
  OBVIOUS
<1> HIDE DEF at
<1>10. /\ reader' = [reader EXCEPT !.at = at, !.neighbours = near,
                                  !.proximity = IF new # {} THEN "inferred" ELSE reader.proximity,
                                  !.links = reader.links \union new]
  BY <1>1, <1>7
<1>11. NoneMissed'
  <2> SUFFICES ASSUME reader'.proximity = "unknown", Cardinality(Investigations!Overlapping') <= Investigations!Remaining',
                      NEW p \in Investigations!Overlapping'
               PROVE  ~Investigations!Qualifies(Investigations!Shared(Investigations!Scoped(FALSE), p))'
    BY DEF NoneMissed
  <2>1. reader'.nodes = reader.nodes /\ SameRead /\ reader'.edgeLimit = reader.edgeLimit
        /\ reader'.links = reader.links \union new
        /\ reader'.proximity = IF new # {} THEN "inferred" ELSE reader.proximity
    BY <1>2, <1>10 DEF Readers, SameRead
  <2>2. new = {} /\ inferred = {} /\ reader'.links = reader.links
    BY <1>7, <2>1
  <2>3. O' = O /\ Investigations!Remaining' = Investigations!Remaining
    BY <2>1, <2>2, OverlappingSame DEF Investigations!Remaining
  <2>4. X(p)' = X(p)
    BY <2>1, ScopedSame
  <2>5. Investigations!Remaining \in Nat /\ IsFiniteSet(O) /\ \A x \in O : ~Investigations!OverlapBefore(x, x)
    BY <1>2, RemainingKnown, OverlappingKnown
  <2>6. kept = O
    <3> DEFINE n == Investigations!Remaining
               A(x) == {y \in O : Investigations!OverlapBefore(y, x)}
               B == [x \in O |-> A(x)]
    <3>1. kept = {x \in O : Investigations!Cardinality(A(x)) < n}
      BY DEF Investigations!FirstRows
    <3>2. \A x \in O : A(x) \in SUBSET O /\ x \notin A(x)
      BY <2>5
    <3> HIDE DEF A, kept
    <3>3. kept = Limited(O, B, n)
      BY <3>1, InvestigationCardinality DEF Limited
    <3>4. B \in [O -> SUBSET O] /\ \A x \in O : x \notin B[x]
      BY <3>2
    <3>5. Cardinality(O) <= n /\ n \in Nat /\ IsFiniteSet(O)
      BY <2>3, <2>5
    <3> HIDE DEF B, O, n
    <3> QED
      BY <3>3, <3>4, <3>5, NoneCut
  <2>7. p \in kept
    BY <2>3, <2>6
  <2>8. ~Investigations!Qualifies(X(p))
    BY <2>2, <2>7 DEF inferred
  <2> HIDE DEF X
  <2>9. ~Investigations!Qualifies(X(p)')
    BY <2>4, <2>8
  <2> QED
    BY <2>9 DEF X, Investigations!Qualifies, Investigations!SensorCount, Investigations!WindowCount
<1> HIDE DEF X, O, kept
<1> QED
  BY <1>1, <1>4, <1>5, <1>8, <1>9, <1>10, <1>11, SimilarGathered

LEMMA InvestigationLoadNeighbours == ASSUME InvestigationInv, Investigations!LoadNeighbours PROVE InvestigationInv'
<1> DEFINE m == reader.device
           X(q) == Investigations!Shared(Investigations!Scoped(TRUE), <<m, q>>)
           peers == Investigations!FirstRows(Investigations!PeersOf(m), NeighbourLimit, Investigations!PeerBefore)
           near == {q \in peers : Investigations!Qualifies(X(q))}
           new == {<<"similar", m, q>> : q \in near}
           at == "embedding"
<1>1. /\ reader.at = "neighbours" /\ UNCHANGED <<db, changes>>
      /\ reader' = [reader EXCEPT !.at = at, !.neighbours = peers,
                                  !.proximity = IF near # {} THEN "inferred" ELSE reader.proximity,
                                  !.links = reader.links \union new]
  BY DEF Investigations!LoadNeighbours
<1>2. AnswerTyped /\ reader \in Readers /\ reader.op = "record"
  BY <1>1 DEF InvestigationInv, AnswerTyped, OpsKnown
<1>3. peers \in SUBSET Investigations!PeersOf(m)
  BY DEF Investigations!FirstRows
<1>4. \A q \in peers : q \in Macs /\ X(q) # {}
  BY <1>3 DEF Investigations!PeersOf
<1>5. peers \in SUBSET Nat
  BY <1>4, InvestigationAssumption
<1>6. \A q : X(q) \in SUBSET Signals /\ IsFiniteSet(X(q)) /\ X(q) \subseteq AllScoped
  BY <1>2, SharedKnown DEF AllScoped
<1>7. peers # {} => reader.op = "investigate" \/ AllScoped # {}
  BY <1>4, <1>6
<1>8. ASSUME NEW q \in near
      PROVE  <<"similar", m, q>> \in {"similar"} \X Macs \X (Macs \union Aps) /\ Corroborated(<<"similar", m, q>>)
  <2>1. q \in Macs /\ X(q) # {} /\ Investigations!Qualifies(X(q))
    BY <1>4
  <2>2. PICK s \in X(q) : TRUE
    BY <2>1
  <2>3. s \in Signals /\ s.mac = m
    BY <1>6, <2>2 DEF Investigations!Shared
  <2>4. m \in Macs
    BY <2>3, SignalsKnown
  <2>5. X(q) \subseteq Investigations!Shared(Investigations!Scoped(FALSE), <<m, q>>)
    BY <1>2, ScopedKnown DEF Investigations!Shared, AllScoped
  <2> HIDE DEF X
  <2>6. \E s1, t \in X(q) : \E u, v \in X(q) : s1.sensor # t.sensor /\ u.window # v.window
    BY <1>6, <2>1, QualifiedDiffer
  <2>7. Corroborated(<<"similar", m, q>>)
    BY <2>5, <2>6, CorroboratedBy
  <2> QED
    BY <2>1, <2>4, <2>7
<1>9. (new # {} <=> near # {}) /\ (at \in {"embedding", "done"}) /\ at = IF reader.op = "record" THEN "embedding" ELSE "done"
  BY <1>2
<1> HIDE DEF near
<1>10. new \in SUBSET ({"similar"} \X Macs \X (Macs \union Aps)) /\ \A l \in new : Corroborated(l)
  BY <1>8
<1> HIDE DEF new, peers, at, X, m
<1>11. reader' = [reader EXCEPT !.at = at, !.neighbours = peers,
                                  !.proximity = IF new # {} THEN "inferred" ELSE reader.proximity,
                                  !.links = reader.links \union new]
  BY <1>1, <1>9
<1>12. NoneMissed'
  <2>1. reader'.op = "record"
    BY <1>2, <1>11 DEF Readers
  <2> QED
    BY <2>1 DEF NoneMissed
<1>13. reader.op # "investigate"
  BY <1>2
<1> QED
  BY <1>1, <1>5, <1>7, <1>9, <1>10, <1>11, <1>12, <1>13, SimilarGathered
\* Rounded rates are numbers, and as close to the frames as rounding allows.
LEMMA RatesKnown ==
    ASSUME NEW a \in Nat
    PROVE  /\ Investigations!Rate(a) \in Nat
           /\ (2 * BucketMinutes) * Investigations!Rate(a) <= 200 * a + BucketMinutes
           /\ 200 * a + BucketMinutes < (2 * BucketMinutes) * Investigations!Rate(a) + 2 * BucketMinutes
<1> DEFINE m == 2 * BucketMinutes
           w == 200 * a + BucketMinutes
           q == w \div m
<1>1. m \in Nat \ {0} /\ w \in Nat
  BY InvestigationAssumption
<1>2. Investigations!Rate(a) = q
  BY DEF Investigations!Rate
<1> HIDE DEF m, w
<1>3. q \in Nat /\ q * m <= w /\ w < q * m + m
  BY <1>1
<1> HIDE DEF q
<1>4. m * q = q * m
  BY <1>1, <1>3
<1>5. q \in Nat /\ m * q <= w /\ w < m * q + m
  BY <1>1, <1>3, <1>4
<1> QED
  BY <1>2, <1>5 DEF m, w

LEMMA RatesClose ==
    ASSUME NEW a \in Nat, NEW b \in Nat, Investigations!Rate(a) <= Investigations!Rate(b)
    PROVE  100 * (a - b) < BucketMinutes
<1> DEFINE m == 2 * BucketMinutes
           p == Investigations!Rate(a)
           q == Investigations!Rate(b)
<1>1. BucketMinutes \in Nat \ {0} /\ m \in Nat /\ m = 2 * BucketMinutes
  BY InvestigationAssumption
<1>2. /\ p \in Nat /\ q \in Nat /\ p <= q
      /\ 200 * a + BucketMinutes < m * p + m /\ m * q <= 200 * b + BucketMinutes
  BY RatesKnown
<1> HIDE DEF m, p, q
<1>3. m * p <= m * q
  <2>1. PICK d \in Nat : q = p + d
    <3>1. q - p \in Nat /\ q = p + (q - p)
      BY <1>2
    <3> QED
      BY <3>1
  <2>2. m * q = m * p + m * d /\ m * d \in Nat /\ m * p \in Nat
    BY <1>1, <1>2, <2>1
  <2> QED
    BY <2>2
<1>4. m * p \in Nat /\ m * q \in Nat
  BY <1>1, <1>2
<1> QED
  BY <1>1, <1>2, <1>3, <1>4

LEMMA RateZero ==
    ASSUME NEW a \in Nat, Investigations!Rate(a) = 0
    PROVE  200 * a < BucketMinutes
<1>1. BucketMinutes \in Nat \ {0} /\ (2 * BucketMinutes) * 0 = 0
  BY InvestigationAssumption
<1>2. 200 * a + BucketMinutes < 0 + 2 * BucketMinutes
  BY <1>1, RatesKnown
<1> QED
  BY <1>1, <1>2

LEMMA ActivityTyped ==
    ASSUME AnswerTyped
    PROVE  /\ ActivityOf \in SUBSET Buckets
           /\ \A b : /\ BucketOf(b) \in SUBSET Signals /\ IsFiniteSet(BucketOf(b)) /\ BucketOf(b) \subseteq AllScoped
                     /\ ActivityRow(b).start = b /\ ActivityRow(b).frames = Investigations!FrameSum(BucketOf(b))
                     /\ ActivityRow(b).frames \in Nat
           /\ BucketStarts \in SUBSET Int
<1>1. AllScoped \in SUBSET Signals /\ IsFiniteSet(AllScoped)
  BY ScopedKnown DEF AllScoped
<1>2. ASSUME NEW b
      PROVE  /\ BucketOf(b) \in SUBSET Signals /\ IsFiniteSet(BucketOf(b)) /\ BucketOf(b) \subseteq AllScoped
             /\ ActivityRow(b).start = b /\ ActivityRow(b).frames = Investigations!FrameSum(BucketOf(b))
             /\ ActivityRow(b).frames \in Nat /\ Investigations!SensorCount(BucketOf(b)) \in Nat
  <2>1. BucketOf(b) \in SUBSET AllScoped
    BY DEF BucketOf
  <2>2. BucketOf(b) \in SUBSET Signals /\ IsFiniteSet(BucketOf(b))
    BY <1>1, <2>1, FS_Subset
  <2>3. Investigations!FrameSum(BucketOf(b)) \in Nat /\ Investigations!SensorCount(BucketOf(b)) \in Nat
    BY <2>2, FrameSumKnown, CountsKnown
  <2>4. ActivityRow(b).start = b /\ ActivityRow(b).frames = Investigations!FrameSum(BucketOf(b))
    BY DEF ActivityRow
  <2> QED
    BY <2>1, <2>2, <2>3, <2>4
<1>3. BucketStarts \in SUBSET Int
  <2>1. ASSUME NEW w \in Nat PROVE Investigations!Bucket(w) \in Int
    BY InvestigationAssumption DEF Investigations!Bucket
  <2> QED
    BY <1>1, <2>1, SignalsKnown DEF BucketStarts
<1>4. ASSUME NEW b \in Int PROVE ActivityRow(b) \in Buckets
  <2>1. Investigations!FrameSum(BucketOf(b)) \in Nat /\ Investigations!SensorCount(BucketOf(b)) \in Nat
    BY <1>2, FrameSumKnown
  <2> QED
    BY <2>1 DEF ActivityRow, Buckets
<1>5. ActivityOf \in SUBSET Buckets
  BY <1>3, <1>4 DEF ActivityOf
<1> QED
  BY <1>2, <1>3, <1>5

LEMMA InvestigationLoadActivity == ASSUME InvestigationInv, Investigations!LoadActivity PROVE InvestigationInv'
<1> DEFINE act == ActivityOf
           at == IF act = {} THEN "roster" ELSE "totals"
<1>1. /\ reader.at = "activity" /\ UNCHANGED <<db, changes>>
      /\ reader' = [reader EXCEPT !.at = at, !.activity = act, !.left = act]
  BY DEF Investigations!LoadActivity, ActivityOf, ActivityRow, BucketOf, BucketStarts, AllScoped
<1>2. AnswerTyped /\ reader \in Readers /\ reader.op = "record" /\ Anchored
      /\ reader.links = {} /\ reader.neighbours = {}
  BY <1>1 DEF InvestigationInv, AnswerTyped, OpsKnown, RosterLoaded, ProximityShown, ActivityLoaded
<1>3. act \in SUBSET Buckets /\ at \in {"roster", "totals"}
  BY <1>2, ActivityTyped
<1>4. act = ActivityOf
  OBVIOUS
<1> HIDE DEF act, at
<1>5. reader' \in Readers
  BY ZenonT(30), <1>1, <1>2, <1>3 DEF Readers, Points
<1>6. SameRead
  BY <1>1, <1>2 DEF Readers, SameRead
<1>7. /\ reader'.at \in {"roster", "totals"} /\ reader'.activity = act /\ reader'.links = reader.links /\ reader'.op = "record"
      /\ reader'.proximity = reader.proximity /\ reader'.neighbours = reader.neighbours
  BY <1>1, <1>2, <1>3 DEF Readers
<1>8. AnswerTyped'
  BY <1>1, <1>2, <1>5, <1>6 DEF AnswerTyped, SameRead
<1>9. ActivityOf' = ActivityOf /\ (Anchored' <=> Anchored)
  BY <1>6, ScopedSame, ActivitySame
<1>10. Similar = {} /\ Similar' = {}
  BY <1>2, <1>7 DEF Similar
<1>11. ProximityShown'
  BY <1>2, <1>7, <1>10 DEF InvestigationInv, ProximityShown
<1>12. OpsKnown' /\ RosterLoaded' /\ EvidenceLoaded' /\ LinksEnd' /\ NoneMissed' /\ ActivityLoaded'
  BY <1>2, <1>4, <1>7, <1>9
     DEF OpsKnown, RosterLoaded, PastRoster, EvidenceLoaded, LinksEnd, NoneMissed, ActivityLoaded
<1> QED
  BY <1>8, <1>11, <1>12 DEF InvestigationInv

LEMMA InvestigationSumBucket == ASSUME InvestigationInv, Investigations!SumBucket PROVE InvestigationInv'
<1>1. PICK b \in reader.left :
        reader' = [reader EXCEPT !.at = IF reader.left = {b} THEN "roster" ELSE @, !.left = @ \ {b},
                     !.peak = IF Investigations!Rate(b.frames) > @.rate
                              THEN [rate |-> Investigations!Rate(b.frames), start |-> {b.start}] ELSE @]
  BY DEF Investigations!SumBucket
<1> DEFINE at == IF reader.left = {b} THEN "roster" ELSE reader.at
           peak == IF Investigations!Rate(b.frames) > reader.peak.rate
                   THEN [rate |-> Investigations!Rate(b.frames), start |-> {b.start}] ELSE reader.peak
           left == reader.left \ {b}
<1>2. reader' = [reader EXCEPT !.at = at, !.left = left, !.peak = peak] /\ UNCHANGED <<db, changes>>
  BY <1>1 DEF Investigations!SumBucket
<1>3. AnswerTyped /\ reader \in Readers /\ reader.at = "totals" /\ reader.op = "record" /\ Anchored
      /\ reader.links = {} /\ reader.activity = ActivityOf
  BY DEF InvestigationInv, AnswerTyped, OpsKnown, RosterLoaded, ProximityShown, ActivityLoaded, Investigations!SumBucket
<1>4. at \in {"roster", "totals"} /\ left \in SUBSET Buckets /\ peak \in [rate : Nat, start : SUBSET Int]
  <2>1. b.frames \in Nat /\ b.start \in Int
    BY <1>1, <1>3 DEF Readers, Buckets
  <2>2. Investigations!Rate(b.frames) \in Nat
    BY <2>1, RatesKnown
  <2> QED
    BY <1>3, <2>1, <2>2 DEF Readers
<1> HIDE DEF at, left, peak
<1>5. reader' \in Readers
  BY ZenonT(30), <1>2, <1>3, <1>4 DEF Readers, Points
<1>6. SameRead
  BY <1>2, <1>3 DEF Readers, SameRead
<1>7. /\ reader'.at \in {"roster", "totals"} /\ reader'.activity = reader.activity /\ reader'.links = reader.links
      /\ reader'.op = "record" /\ reader'.proximity = reader.proximity /\ reader'.neighbours = reader.neighbours
  BY <1>2, <1>3, <1>4 DEF Readers
<1>8. AnswerTyped'
  BY <1>2, <1>3, <1>5, <1>6 DEF AnswerTyped, SameRead
<1>9. ActivityOf' = ActivityOf /\ (Anchored' <=> Anchored) /\ AllScoped' = AllScoped
  BY <1>6, ScopedSame, ActivitySame
<1>10. Similar = {} /\ Similar' = {}
  BY <1>3, <1>7 DEF Similar
<1>11. ProximityShown'
  BY <1>3, <1>7, <1>10 DEF InvestigationInv, ProximityShown
<1>12. OpsKnown' /\ RosterLoaded' /\ EvidenceLoaded' /\ LinksEnd' /\ NoneMissed' /\ ActivityLoaded'
  BY <1>3, <1>7, <1>9
     DEF InvestigationInv, OpsKnown, RosterLoaded, PastRoster, EvidenceLoaded, LinksEnd, NoneMissed, ActivityLoaded
<1> QED
  BY <1>8, <1>11, <1>12 DEF InvestigationInv

LEMMA InvestigationLoadEmbedding == ASSUME InvestigationInv, Investigations!LoadEmbedding PROVE InvestigationInv'
<1> DEFINE cur == {v \in Investigations!Seen.vectors : Investigations!Seen.doc.live /\ v = Investigations!Seen.doc.text}
<1>1. reader.at = "embedding" /\ UNCHANGED <<db, changes>> /\ reader' = [reader EXCEPT !.at = "done", !.current = cur]
  BY DEF Investigations!LoadEmbedding
<1>2. AnswerTyped /\ reader \in Readers /\ reader.op = "record"
  BY <1>1 DEF InvestigationInv, AnswerTyped, OpsKnown
<1>3. cur \in SUBSET {1, 2}
  BY <1>2 DEF Readers, Databases, Investigations!Seen
<1> HIDE DEF cur
<1>4. reader' \in Readers
  BY ZenonT(30), <1>1, <1>2, <1>3 DEF Readers, Points
<1>5. SameRead
  BY <1>1, <1>2 DEF Readers, SameRead
<1>6. /\ reader'.at = "done" /\ reader'.activity = reader.activity /\ reader'.links = reader.links /\ reader'.op = "record"
      /\ reader'.proximity = reader.proximity /\ reader'.neighbours = reader.neighbours
      /\ reader'.roster = reader.roster /\ reader'.nodes = reader.nodes
  BY <1>1, <1>2 DEF Readers
<1>7. AnswerTyped'
  BY <1>1, <1>2, <1>4, <1>5 DEF AnswerTyped, SameRead
<1>8. AllScoped' = AllScoped /\ RosterOf' = RosterOf /\ NodesOf' = NodesOf /\ ActivityOf' = ActivityOf
       /\ (Anchored' <=> Anchored)
  BY <1>5, ScopedSame, RosterSame, ActivitySame
<1>9. ProximityShown' /\ LinksEnd'
  BY <1>5, <1>6, InvestigationKeeps
<1>10. OpsKnown' /\ EvidenceLoaded' /\ NoneMissed'
  BY <1>6 DEF OpsKnown, EvidenceLoaded, NoneMissed
<1>11. RosterLoaded'
  BY <1>1, <1>6, <1>8 DEF InvestigationInv, RosterLoaded, PastRoster
<1>12. ActivityLoaded'
  BY <1>1, <1>2, <1>6, <1>8 DEF InvestigationInv, ActivityLoaded, PastRoster
<1> QED
  BY <1>7, <1>9, <1>10, <1>11, <1>12 DEF InvestigationInv

\* What others do is not seen within the transaction.
LEMMA ReaderSame ==
    ASSUME InvestigationInv, UNCHANGED reader, db' \in Databases, IsFiniteSet(db'.signals), db'.doc.text # 0,
           changes' \in 0 .. MaxChanges
    PROVE  InvestigationInv'
<1>1. AnswerTyped'
  BY DEF InvestigationInv, AnswerTyped
<1>2. SameRead
  BY DEF SameRead
<1>3. AllScoped' = AllScoped /\ RosterOf' = RosterOf /\ NodesOf' = NodesOf /\ ActivityOf' = ActivityOf
       /\ (Anchored' <=> Anchored) /\ Investigations!Overlapping' = Investigations!Overlapping
  BY <1>2, ScopedSame, RosterSame, ActivitySame, OverlappingSame
<1>4. OpsKnown' /\ RosterLoaded'
  BY <1>3 DEF InvestigationInv, OpsKnown, RosterLoaded
<1>5. EvidenceLoaded' /\ LinksEnd'
  BY <1>3 DEF InvestigationInv, EvidenceLoaded, LinksEnd, Investigations!Node
<1>6. ActivityLoaded'
  BY <1>3 DEF InvestigationInv, ActivityLoaded
<1>7. ProximityShown'
  <2>1. Similar' = Similar /\ \A l \in Similar : Corroborated(l)'
    BY <1>2, CorroboratedSame DEF InvestigationInv, ProximityShown, Similar
  <2> QED
    BY <2>1 DEF InvestigationInv, ProximityShown
<1>8. NoneMissed'
  <2> DEFINE Q(p) == Investigations!Qualifies(Investigations!Shared(Investigations!Scoped(FALSE), p))
  <2>1. \A p : Q(p)' <=> Q(p)
    BY <1>2, ScopedSame DEF Investigations!Qualifies, Investigations!SensorCount, Investigations!WindowCount
  <2>2. Investigations!Remaining' = Investigations!Remaining
    BY DEF Investigations!Remaining
  <2>3. NoneMissed <=> (reader.at = "done" /\ reader.op = "investigate" /\ reader.proximity = "unknown"
                          /\ Cardinality(Investigations!Overlapping) <= Investigations!Remaining
                        => \A p \in Investigations!Overlapping : ~Q(p))
    BY DEF NoneMissed
  <2>4. NoneMissed' <=> (reader'.at = "done" /\ reader'.op = "investigate" /\ reader'.proximity = "unknown"
                          /\ Cardinality(Investigations!Overlapping') <= Investigations!Remaining'
                        => \A p \in Investigations!Overlapping' : ~Q(p)')
    BY DEF NoneMissed
  <2> HIDE DEF Q
  <2> QED
    BY <1>3, <2>1, <2>2, <2>3, <2>4 DEF InvestigationInv
<1> QED
  BY <1>1, <1>4, <1>5, <1>6, <1>7, <1>8 DEF InvestigationInv

LEMMA InvestigationChanged ==
    ASSUME InvestigationInv, NEW new \in Databases, IsFiniteSet(new.signals), new.doc.text # 0, Investigations!Changed(new)
    PROVE  InvestigationInv'
<1>1. db' = new /\ UNCHANGED reader /\ (reader.at # "idle" => changes < MaxChanges)
      /\ changes' = IF reader.at = "idle" THEN changes ELSE changes + 1
  BY DEF Investigations!Changed
<1>2. changes' \in 0 .. MaxChanges
  BY <1>1, InvestigationAssumption DEF InvestigationInv, AnswerTyped
<1> QED
  BY <1>1, <1>2, ReaderSame

LEMMA InvestigationIngest ==
    ASSUME InvestigationInv, NEW s \in Summaries, Investigations!Ingest(s) \/ Investigations!Expire(s) PROVE InvestigationInv'
<1>1. db \in Databases /\ IsFiniteSet(db.signals) /\ db.doc.text # 0 /\ s \in Signals
  BY InvestigationAssumption DEF InvestigationInv, AnswerTyped, Signals
<1>2. CASE Investigations!Ingest(s)
  <2> DEFINE sig == db.signals \union {s}
             new == [db EXCEPT !.signals = sig]
  <2>1. Investigations!Changed(new)
    BY <1>2 DEF Investigations!Ingest
  <2>2. sig \in SUBSET Signals /\ IsFiniteSet(sig)
    BY <1>1, FS_AddElement DEF Databases
  <2> HIDE DEF sig
  <2>3. new \in Databases /\ new.signals = sig /\ new.doc = db.doc
    BY <1>1, <2>2 DEF Databases
  <2> HIDE DEF new
  <2> QED
    BY <1>1, <2>1, <2>2, <2>3, InvestigationChanged
<1>3. CASE Investigations!Expire(s)
  <2> DEFINE sig == db.signals \ {s}
             new == [db EXCEPT !.signals = sig]
  <2>1. Investigations!Changed(new)
    BY <1>3 DEF Investigations!Expire
  <2>2. sig \in SUBSET Signals /\ IsFiniteSet(sig)
    BY <1>1, FS_RemoveElement DEF Databases
  <2> HIDE DEF sig
  <2>3. new \in Databases /\ new.signals = sig /\ new.doc = db.doc
    BY <1>1, <2>2 DEF Databases
  <2> HIDE DEF new
  <2> QED
    BY <1>1, <2>1, <2>2, <2>3, InvestigationChanged
<1> QED
  BY <1>2, <1>3

LEMMA InvestigationDocument ==
    ASSUME InvestigationInv, Investigations!Reindex \/ Investigations!Retire \/ Investigations!Embed PROVE InvestigationInv'
<1>1. db \in Databases /\ IsFiniteSet(db.signals) /\ db.doc.text # 0 /\ db.doc \in Documents /\ db.doc.text \in {1, 2}
  BY DEF InvestigationInv, AnswerTyped, Databases, Documents
<1>2. CASE Investigations!Reindex
  <2> DEFINE new == [db EXCEPT !.doc.text = 2]
  <2>1. Investigations!Changed(new)
    BY <1>2 DEF Investigations!Reindex
  <2>2. new \in Databases /\ new.signals = db.signals /\ new.doc.text = 2
    BY <1>1 DEF Databases, Documents
  <2> HIDE DEF new
  <2> QED
    BY <1>1, <2>1, <2>2, InvestigationChanged
<1>3. CASE Investigations!Retire
  <2> DEFINE new == [db EXCEPT !.doc.live = FALSE]
  <2>1. Investigations!Changed(new)
    BY <1>3 DEF Investigations!Retire
  <2>2. new \in Databases /\ new.signals = db.signals /\ new.doc.text = db.doc.text
    BY <1>1 DEF Databases, Documents
  <2> HIDE DEF new
  <2> QED
    BY <1>1, <2>1, <2>2, InvestigationChanged
<1>4. CASE Investigations!Embed
  <2> DEFINE vs == db.vectors \union {db.doc.text}
             new == [db EXCEPT !.vectors = vs]
  <2>1. Investigations!Changed(new)
    BY <1>4 DEF Investigations!Embed
  <2>2. vs \in SUBSET {1, 2}
    BY <1>1 DEF Databases
  <2> HIDE DEF vs
  <2>3. new \in Databases /\ new.signals = db.signals /\ new.doc = db.doc
    BY <1>1, <2>2 DEF Databases
  <2> HIDE DEF new
  <2> QED
    BY <1>1, <2>1, <2>3, InvestigationChanged
<1> QED
  BY <1>2, <1>3, <1>4

LEMMA InvestigationStep == ASSUME InvestigationInv, Investigations!Next PROVE InvestigationInv'
  BY InvestigationAsked, InvestigationResolve, InvestigationBegin, InvestigationLoadRoster, InvestigationLoadEvidence,
     InvestigationLoadAssociations, InvestigationLoadTyped, InvestigationLoadSimilarity, InvestigationLoadActivity,
     InvestigationSumBucket,
     InvestigationLoadNeighbours, InvestigationLoadEmbedding, InvestigationFail, InvestigationIngest, InvestigationDocument
     DEF Investigations!Next

LEMMA InvestigationStutter == ASSUME InvestigationInv, UNCHANGED <<db, reader, changes>> PROVE InvestigationInv'
<1>1. db \in Databases /\ IsFiniteSet(db.signals) /\ db.doc.text # 0 /\ changes \in 0 .. MaxChanges
  BY DEF InvestigationInv, AnswerTyped
<1>2. db' = db /\ reader' = reader /\ changes' = changes
  OBVIOUS
<1>3. db' \in Databases /\ IsFiniteSet(db'.signals) /\ db'.doc.text # 0 /\ changes' \in 0 .. MaxChanges
  BY <1>1, <1>2
<1> QED
  BY <1>2, <1>3, ReaderSame
----------------------------------------------------------------------------
(* What the invariant of a reader gives for its answer                      *)

\* A bucket of size n covers just the numbers from its start to the next start.
LEMMA BucketCovers ==
    ASSUME NEW n \in Nat \ {0}, NEW v \in Nat, NEW w \in Nat
    PROVE  /\ (w \div n) * n \in Nat /\ ((w \div n) * n) % n = 0
           /\ (w \div n) * n <= w /\ w < (w \div n) * n + n
           /\ (v \div n) * n = (w \div n) * n <=> v \in ((w \div n) * n) .. ((w \div n) * n + n - 1)
<1> DEFINE a == w \div n
           b == v \div n
<1>1. a \in Nat /\ b \in Nat
  OBVIOUS
<1>2. a * n <= w /\ w < a * n + n /\ b * n <= v /\ v < b * n + n
  OBVIOUS
<1> HIDE DEF a, b
<1>3. a * n \in Nat /\ b * n \in Nat
  BY <1>1
<1>4. (a * n) % n = 0
  BY <1>1
<1>5. ASSUME v \in (a * n) .. (a * n + n - 1) PROVE b * n = a * n
  <2>1. b * n < a * n + n /\ a * n < b * n + n
    BY <1>2, <1>3, <1>5
  <2>2. (a + 1) * n = a * n + n /\ (b + 1) * n = b * n + n
    BY <1>1
  <2>3. ~(b >= a + 1)
    <3> SUFFICES ASSUME b >= a + 1 PROVE FALSE
      OBVIOUS
    <3>1. PICK d \in Nat : b = a + 1 + d
      <4>1. b - (a + 1) \in Nat /\ b = a + 1 + (b - (a + 1))
        BY <1>1
      <4> QED
        BY <4>1
    <3>2. b * n = a * n + n + d * n /\ d * n \in Nat
      BY <1>1, <3>1
    <3> QED
      BY <1>3, <2>1, <3>2
  <2>4. ~(a >= b + 1)
    <3> SUFFICES ASSUME a >= b + 1 PROVE FALSE
      OBVIOUS
    <3>1. PICK d \in Nat : a = b + 1 + d
      <4>1. a - (b + 1) \in Nat /\ a = b + 1 + (a - (b + 1))
        BY <1>1
      <4> QED
        BY <4>1
    <3>2. a * n = b * n + n + d * n /\ d * n \in Nat
      BY <1>1, <3>1
    <3> QED
      BY <1>3, <2>1, <3>2
  <2>5. a = b
    BY <1>1, <2>3, <2>4
  <2> QED
    BY <2>5
<1>6. ASSUME b * n = a * n PROVE v \in (a * n) .. (a * n + n - 1)
  BY <1>2, <1>3, <1>6
<1> QED
  BY <1>2, <1>3, <1>4, <1>5, <1>6 DEF a, b

\* Sums depend on the numbers of their elements only.
LEMMA ItemsAgree ==
    ASSUME NEW S, NEW m, NEW n, \A x \in S : m[x] = n[x]
    PROVE  Items(S, m) = Items(S, n)
  BY DEF Items

LEMMA RosterListed ==
    ASSUME AnswerTyped
    PROVE  Cardinality(RosterOf) = Cardinality(RosterRows) /\ IsFiniteSet(RosterOf)
<1> DEFINE f == [p \in RosterRows |-> <<p, Investigations!FrameSum(Investigations!SignalsOf(p))>>]
<1>1. f \in Bijection(RosterRows, RosterOf)
  <2>1. f \in [RosterRows -> RosterOf] /\ \A y \in RosterOf : \E x \in RosterRows : f[x] = y
    BY DEF RosterOf
  <2>2. ASSUME NEW x \in RosterRows, NEW y \in RosterRows, f[x] = f[y] PROVE x = y
    BY <2>2
  <2> QED
    BY <2>1, <2>2 DEF Bijection, Injection, Surjection, IsInjective
<1>2. IsFiniteSet(RosterRows)
  BY RosterRowsKnown
<1> QED
  BY <1>1, <1>2, FS_Bijection DEF ExistsBijection

\* The frames of the signals in scope, and of those the roster lists.
AllFrames == [s \in AllScoped |-> Frames[s.sensor]]
Listed == {s \in AllScoped : <<s.ap, s.mac>> \in RosterRows}
LEMMA ActivitySum ==
    ASSUME AnswerTyped, reader.activity = ActivityOf
    PROVE  /\ Investigations!TotalFrames = Cardinality(Items(AllScoped, AllFrames))
           /\ Investigations!TotalFrames = Investigations!FrameSum(AllScoped)
<1> DEFINE S == ActivityOf
           T == AllScoped
           n == [b \in S |-> b.frames]
           g == [s \in T |-> ActivityRow(Investigations!Bucket(s.window))]
<1>1. T \in SUBSET Signals /\ IsFiniteSet(T) /\ AllFrames \in [T -> Nat]
  BY ScopedKnown, SignalsKnown DEF AllScoped, AllFrames
<1>2. g \in [T -> S] /\ \A x \in S : \E s \in T : g[s] = x
  BY DEF ActivityOf, BucketStarts
<1>3. IsFiniteSet(S)
  <2>1. g \in Surjection(T, S)
    BY <1>2 DEF Surjection
  <2> QED
    BY <1>1, <2>1, FS_Surjection
<1>4. n \in [S -> Nat]
  BY ActivityTyped DEF Buckets
<1>5. ASSUME NEW x \in S PROVE n[x] = Cardinality(Items(GroupOf(T, g, x), AllFrames))
  <2>1. PICK b \in BucketStarts : x = ActivityRow(b)
    BY DEF ActivityOf
  <2>2. \A s \in T : g[s] = x <=> Investigations!Bucket(s.window) = b
    <3>1. \A c, d : ActivityRow(c) = ActivityRow(d) => c = d
      BY ActivityTyped
    <3> QED
      BY <2>1, <3>1
  <2>3. GroupOf(T, g, x) = BucketOf(b)
    BY <2>2 DEF GroupOf, BucketOf
  <2>4. BucketOf(b) \in SUBSET Signals /\ IsFiniteSet(BucketOf(b)) /\ BucketOf(b) \subseteq AllScoped
        /\ x.frames = Investigations!FrameSum(BucketOf(b))
    BY <2>1, ActivityTyped
  <2>5. x.frames = Cardinality(Items(BucketOf(b), [s \in BucketOf(b) |-> Frames[s.sensor]]))
    BY <2>4, FrameSumKnown
  <2>6. Items(BucketOf(b), [s \in BucketOf(b) |-> Frames[s.sensor]]) = Items(BucketOf(b), AllFrames)
    <3> DEFINE k == [s \in BucketOf(b) |-> Frames[s.sensor]]
    <3>1. \A s \in BucketOf(b) : k[s] = AllFrames[s]
      BY <2>4 DEF AllFrames
    <3> HIDE DEF k
    <3>2. Items(BucketOf(b), k) = Items(BucketOf(b), AllFrames)
      BY <3>1, ItemsAgree
    <3> QED
      BY <3>2 DEF k
  <2>7. n[x] = x.frames
    OBVIOUS
  <2> QED
    BY <2>3, <2>5, <2>6, <2>7
<1> HIDE DEF g
<1>6. Investigations!TotalFrames = Cardinality(Items(S, n))
  BY SumsItems DEF Investigations!TotalFrames
<1> HIDE DEF n, S, T
<1>7. Cardinality(Items(S, n)) = Cardinality(Items(T, AllFrames))
  BY <1>1, <1>2, <1>3, <1>4, <1>5, SumOfGroups
<1>8. Investigations!FrameSum(AllScoped) = Cardinality(Items(AllScoped, AllFrames))
  BY <1>1, FrameSumKnown DEF T, AllFrames
<1> QED
  BY <1>6, <1>7, <1>8 DEF T

LEMMA RosterSum ==
    ASSUME AnswerTyped, reader.roster = RosterOf
    PROVE  Investigations!RosterFrames = Cardinality(Items(Listed, AllFrames))
<1> DEFINE S == RosterOf
           T == Listed
           m == [s \in T |-> Frames[s.sensor]]
           n == [r \in S |-> r[2]]
           Row(p) == <<p, Investigations!FrameSum(Investigations!SignalsOf(p))>>
           g == [s \in T |-> Row(<<s.ap, s.mac>>)]
<1>1. T \in SUBSET AllScoped /\ T \in SUBSET Signals /\ IsFiniteSet(T)
  <2>1. T \in SUBSET AllScoped
    BY DEF Listed
  <2> QED
    BY <2>1, ScopedKnown, FS_Subset DEF AllScoped
<1>2. m \in [T -> Nat]
  BY <1>1, SignalsKnown
<1>3. g \in [T -> S]
  BY DEF Listed, RosterOf
<1>4. IsFiniteSet(S) /\ n \in [S -> Nat]
  BY RosterListed, RosterTyped
<1>5. ASSUME NEW x \in S PROVE n[x] = Cardinality(Items(GroupOf(T, g, x), m))
  <2>1. PICK p \in RosterRows : x = Row(p)
    BY DEF RosterOf
  <2>2. p = <<p[1], p[2]>>
    BY RosterRowsKnown, PairsKnown
  <2>3. \A s \in T : g[s] = x <=> s.ap = p[1] /\ s.mac = p[2]
    <3>1. \A a, b : Row(a) = Row(b) => a = b
      OBVIOUS
    <3>2. \A s \in T : g[s] = Row(<<s.ap, s.mac>>)
      OBVIOUS
    <3> HIDE DEF Row, g
    <3> QED
      BY <2>1, <2>2, <3>1, <3>2
  <2>4. GroupOf(T, g, x) = Investigations!SignalsOf(p)
    <3>1. \A s \in Investigations!SignalsOf(p) : s \in T
      BY <2>2 DEF Investigations!SignalsOf, Listed, AllScoped
    <3> QED
      BY <1>1, <2>3, <3>1 DEF GroupOf, Investigations!SignalsOf, AllScoped
  <2> DEFINE Q == Investigations!SignalsOf(p)
             k == [s \in Q |-> Frames[s.sensor]]
  <2>5. Q \in SUBSET T
    BY <2>4 DEF GroupOf
  <2>6. Q \in SUBSET Signals /\ IsFiniteSet(Q)
    BY <1>1, <2>5, FS_Subset
  <2>7. Investigations!FrameSum(Q) = Cardinality(Items(Q, k))
    BY <2>6, FrameSumKnown
  <2>8. \A s \in Q : k[s] = m[s]
    BY <2>5
  <2>9. n[x] = Investigations!FrameSum(Q)
    BY <2>1
  <2> HIDE DEF k, Q
  <2>10. Items(Q, k) = Items(Q, m)
    BY <2>8, ItemsAgree
  <2> QED
    BY <2>4, <2>7, <2>9, <2>10 DEF Q
<1>6. Investigations!RosterFrames = Cardinality(Items(S, n))
  BY SumsItems DEF Investigations!RosterFrames
<1>7. \A s \in T : m[s] = AllFrames[s]
  BY <1>1 DEF AllFrames
<1> HIDE DEF m, n, g, S, T
<1>8. Cardinality(Items(S, n)) = Cardinality(Items(T, m))
  BY <1>1, <1>2, <1>3, <1>4, <1>5, SumOfGroups
<1>9. Items(T, m) = Items(T, AllFrames)
  BY <1>7, ItemsAgree
<1> QED
  BY <1>6, <1>8, <1>9 DEF T
LEMMA PartsDoAgree == ASSUME InvestigationInv PROVE Investigations!PartsAgree
<1>1. AnswerTyped
  BY DEF InvestigationInv
<1>2. ASSUME Investigations!Answered("investigate")
      PROVE  /\ Cardinality(reader.roster) <= reader.total
             /\ \A l \in reader.links : Investigations!Node(l) \subseteq reader.nodes
             /\ \A s \in reader.evidence : <<"ap", s.ap>> \in reader.nodes \/ Cardinality(reader.roster) = reader.nodeLimit
  <2>1. reader.at = "done" /\ reader.op = "investigate" /\ Anchored
    BY <1>2 DEF Investigations!Answered, Anchored
  <2>2. reader.roster = RosterOf /\ reader.nodes = NodesOf /\ reader.total = Cardinality(AllScoped)
        /\ reader.evidence \subseteq AllScoped
    BY <2>1 DEF InvestigationInv, RosterLoaded, EvidenceLoaded
  <2>3. \A l \in reader.links : Investigations!Node(l) \subseteq reader.nodes
    BY <2>1 DEF InvestigationInv, LinksEnd
  <2>4. /\ Cardinality(RosterOf) = Cardinality(RosterRows) /\ RosterRows \in SUBSET Investigations!Pairs
        /\ Cardinality(RosterRows) \in Nat /\ (RosterRows = Investigations!Pairs \/ Cardinality(RosterRows) = reader.nodeLimit)
    BY <1>1, RosterListed, RosterRowsKnown
  <2>5. /\ IsFiniteSet(Investigations!Pairs) /\ Cardinality(Investigations!Pairs) <= Cardinality(AllScoped)
        /\ Cardinality(Investigations!Pairs) \in Nat /\ Cardinality(AllScoped) \in Nat
    BY <1>1, PairsKnown
  <2>6. Cardinality(RosterRows) <= Cardinality(Investigations!Pairs)
    BY <2>4, <2>5, FS_Subset
  <2>7. Cardinality(reader.roster) <= reader.total
    BY <2>2, <2>4, <2>5, <2>6
  <2>8. ASSUME NEW s \in reader.evidence, Cardinality(reader.roster) # reader.nodeLimit
        PROVE  <<"ap", s.ap>> \in reader.nodes
    <3>1. RosterRows = Investigations!Pairs /\ s \in AllScoped
      BY <2>2, <2>4, <2>8
    <3>2. <<s.ap, s.mac>> \in RosterRows
      BY <1>1, <3>1, PairsKnown
    <3> QED
      BY <2>2, <3>2 DEF NodesOf
  <2> QED
    BY <2>3, <2>7, <2>8
<1>3. ASSUME Investigations!Answered("record"), Investigations!Anchor # "none"
      PROVE  /\ Investigations!RosterFrames <= Investigations!TotalFrames
             /\ Cardinality(reader.roster) < reader.nodeLimit => Investigations!RosterFrames = Investigations!TotalFrames
             /\ reader.neighbours # {} => reader.activity # {}
  <2>1. reader.at = "done" /\ reader.op = "record" /\ Anchored
    BY <1>3 DEF Investigations!Answered, Anchored
  <2>2. reader.roster = RosterOf /\ reader.activity = ActivityOf /\ (reader.neighbours # {} => AllScoped # {})
    BY <2>1 DEF InvestigationInv, RosterLoaded, ActivityLoaded
  <2>3. Investigations!TotalFrames = Cardinality(Items(AllScoped, AllFrames))
        /\ Investigations!RosterFrames = Cardinality(Items(Listed, AllFrames))
    BY <1>1, <2>2, ActivitySum, RosterSum
  <2>4. IsFiniteSet(AllScoped) /\ AllFrames \in [AllScoped -> Nat]
    BY <1>1, ScopedKnown, SignalsKnown DEF AllScoped, AllFrames
  <2>5. Listed \in SUBSET AllScoped
    BY DEF Listed
  <2>6. Investigations!RosterFrames <= Investigations!TotalFrames
    BY <2>3, <2>4, <2>5, SumWithin
  <2>7. ASSUME Cardinality(reader.roster) < reader.nodeLimit PROVE Listed = AllScoped
    <3>1. Cardinality(RosterRows) < reader.nodeLimit /\ Cardinality(RosterRows) \in Nat /\ reader.nodeLimit \in Nat
      BY <1>1, <2>2, <2>7, RosterListed, RosterRowsKnown DEF AnswerTyped, Readers
    <3>2. RosterRows = Investigations!Pairs
      BY <1>1, <3>1, RosterRowsKnown
    <3> QED
      BY <1>1, <3>2, PairsKnown DEF Listed
  <2>8. AllScoped # {} => ActivityOf # {}
    BY DEF ActivityOf, BucketStarts
  <2> QED
    BY <2>2, <2>3, <2>6, <2>7, <2>8
<1> QED
  BY <1>2, <1>3, InvestigationCardinality DEF Investigations!PartsAgree

LEMMA ProximityIsCorroborated == ASSUME InvestigationInv PROVE Investigations!ProximityCorroborated
<1>1. (reader.proximity = "inferred" <=> Similar # {}) /\ \A l \in Similar : Corroborated(l)
  BY DEF InvestigationInv, ProximityShown
<1>2. ASSUME Investigations!Answered("investigate"), reader.proximity = "unknown",
             Investigations!Cardinality(Investigations!Overlapping) <= Investigations!Remaining
      PROVE  \A p \in Investigations!Overlapping :
               ~Investigations!Qualifies(Investigations!Shared(Investigations!Scoped(FALSE), p))
  BY <1>2, InvestigationCardinality DEF InvestigationInv, NoneMissed, Investigations!Answered
<1> QED
  BY <1>1, <1>2 DEF Investigations!ProximityCorroborated, Similar, Corroborated

\* Buckets are summed in their order; the peak is the first of the highest rates of
\* those summed, if one of them is not 0.00.
PeakIs(S) ==
    /\ reader.peak.start = {} => reader.peak.rate = 0 /\ \A b \in S : Investigations!Rate(b.frames) = 0
    /\ reader.peak.start # {} =>
         \E p \in S :
             /\ reader.peak = [rate |-> Investigations!Rate(p.frames), start |-> {p.start}]
             /\ Investigations!Rate(p.frames) > 0
             /\ \A b \in S : /\ Investigations!Rate(b.frames) <= Investigations!Rate(p.frames)
                             /\ b.start < p.start => Investigations!Rate(b.frames) < Investigations!Rate(p.frames)
PeakFound ==
    /\ reader.left \subseteq reader.activity /\ (reader.at # "totals" => reader.left = {})
    /\ reader.at \in {"idle", "begin", "activity"} => reader.activity = {} /\ reader.peak = Investigations!NoPeak
    /\ \A b \in reader.activity \ reader.left, c \in reader.left : b.start <= c.start
    /\ PeakIs(reader.activity \ reader.left)

LEMMA PeakNothing ==
    ASSUME reader'.left = {}, reader'.activity = {}, reader'.peak = Investigations!NoPeak
    PROVE  PeakFound'
  BY DEF PeakFound, PeakIs, Investigations!NoPeak

LEMMA PeakKept ==
    ASSUME PeakFound, reader'.left = reader.left, reader'.activity = reader.activity, reader'.peak = reader.peak,
           reader.at # "totals", reader'.at \notin {"totals", "idle", "begin"},
           reader'.at = "activity" => reader.at = "begin"
    PROVE  PeakFound'
<1>1. PeakIs(reader.activity \ reader.left)' <=> PeakIs(reader.activity \ reader.left)
  BY DEF PeakIs
<1> QED
  BY <1>1 DEF PeakFound

LEMMA PeakSumBucket ==
    ASSUME InvestigationInv, PeakFound, Investigations!SumBucket
    PROVE  PeakFound'
<1>1. PICK b \in reader.left :
        /\ \A c \in reader.left : b.start <= c.start
        /\ reader' = [reader EXCEPT !.at = IF reader.left = {b} THEN "roster" ELSE @, !.left = @ \ {b},
                     !.peak = IF Investigations!Rate(b.frames) > @.rate
                              THEN [rate |-> Investigations!Rate(b.frames), start |-> {b.start}] ELSE @]
  BY DEF Investigations!SumBucket
<1> DEFINE r == Investigations!Rate(b.frames)
           S == reader.activity \ reader.left
           T == reader.activity \ (reader.left \ {b})
<1>2. reader \in Readers /\ reader.at = "totals"
  BY DEF InvestigationInv, AnswerTyped, Investigations!SumBucket
<1>3. /\ reader'.at = IF reader.left = {b} THEN "roster" ELSE "totals"
      /\ reader'.left = reader.left \ {b} /\ reader'.activity = reader.activity
      /\ reader'.peak = IF r > reader.peak.rate THEN [rate |-> r, start |-> {b.start}] ELSE reader.peak
  BY <1>1, <1>2 DEF Readers
<1>4. T = S \union {b} /\ b \in reader.activity /\ \A c \in S : c.start <= b.start
  BY DEF PeakFound
<1>5. \A c \in reader.activity : c.start \in Int /\ c.frames \in Nat /\ Investigations!Rate(c.frames) \in Nat
  BY <1>2, RatesKnown DEF Readers, Buckets
<1>6. reader.peak.rate \in Nat /\ r \in Nat /\ \A c \in S : Investigations!Rate(c.frames) <= reader.peak.rate
  <2>1. reader.peak.rate \in Nat /\ r \in Nat
    BY <1>2, <1>4, <1>5 DEF Readers
  <2>2. CASE reader.peak.start = {}
    BY <2>1, <2>2 DEF PeakFound, PeakIs
  <2>3. CASE reader.peak.start # {}
    <3>1. PICK p \in S : /\ reader.peak = [rate |-> Investigations!Rate(p.frames), start |-> {p.start}]
                         /\ \A c \in S : Investigations!Rate(c.frames) <= Investigations!Rate(p.frames)
      BY <2>3 DEF PeakFound, PeakIs
    <3> QED
      BY <2>1, <3>1
  <2> QED
    BY <2>1, <2>2, <2>3
<1>7. PeakIs(reader.activity \ reader.left)'
  <2>1. (reader.activity \ reader.left)' = T
    BY <1>3
  <2>2. CASE r > reader.peak.rate
    <3>1. reader'.peak = [rate |-> r, start |-> {b.start}] /\ r > 0 /\ b \in T
      BY <1>3, <1>4, <1>6, <2>2
    <3>2. \A c \in T : Investigations!Rate(c.frames) <= r /\ (c.start < b.start => Investigations!Rate(c.frames) < r)
      BY <1>4, <1>5, <1>6, <2>2
    <3>3. reader'.peak.start # {}
      BY <3>1
    <3> HIDE DEF T
    <3> QED
      BY <2>1, <3>1, <3>2, <3>3 DEF PeakIs
  <2>3. CASE ~(r > reader.peak.rate) /\ reader.peak.start = {}
    <3>1. reader'.peak = reader.peak /\ reader.peak.rate = 0 /\ \A c \in S : Investigations!Rate(c.frames) = 0
      BY <1>3, <2>3 DEF PeakFound, PeakIs
    <3>2. \A c \in T : Investigations!Rate(c.frames) = 0
      BY <1>4, <1>6, <2>3, <3>1
    <3> HIDE DEF S, T
    <3> QED
      BY <2>1, <2>3, <3>1, <3>2 DEF PeakIs
  <2>4. CASE ~(r > reader.peak.rate) /\ reader.peak.start # {}
    <3>1. PICK p \in S :
             /\ reader.peak = [rate |-> Investigations!Rate(p.frames), start |-> {p.start}]
             /\ Investigations!Rate(p.frames) > 0
             /\ \A c \in S : /\ Investigations!Rate(c.frames) <= Investigations!Rate(p.frames)
                             /\ c.start < p.start => Investigations!Rate(c.frames) < Investigations!Rate(p.frames)
      BY <2>4 DEF PeakFound, PeakIs
    <3>2. reader'.peak = reader.peak /\ reader.peak.rate = Investigations!Rate(p.frames) /\ p \in T /\ p.start <= b.start
      BY <1>3, <1>4, <2>4, <3>1
    <3>3. \A c \in T : /\ Investigations!Rate(c.frames) <= Investigations!Rate(p.frames)
                       /\ c.start < p.start => Investigations!Rate(c.frames) < Investigations!Rate(p.frames)
      BY <1>4, <1>5, <1>6, <2>4, <3>1, <3>2
    <3> HIDE DEF S, T
    <3> QED
      BY <2>1, <2>4, <3>1, <3>2, <3>3 DEF PeakIs
  <2> QED
    BY <2>2, <2>3, <2>4
<1>8. \A c \in T, d \in reader.left \ {b} : c.start <= d.start
  BY <1>1, <1>4 DEF PeakFound
<1>9. reader'.at # "totals" => reader'.left = {}
  BY <1>3
<1> QED
  BY <1>3, <1>7, <1>8, <1>9 DEF PeakFound

LEMMA PeakStep == ASSUME InvestigationInv, PeakFound, Investigations!Next PROVE PeakFound'
<1>0. reader \in Readers
  BY DEF InvestigationInv, AnswerTyped
<1>1. CASE \/ Investigations!Fail
           \/ \E m \in Macs \union {0}, a \in Aps \union {0}, r \in Ranges, n \in NodeLimits,
                 e \in EdgeLimits, p \in PageSizes : Investigations!Investigate(m, a, r, n, e, p)
           \/ \E span \in Spans : Investigations!Resolve(span)
  <2>1. reader'.left = {} /\ reader'.activity = {} /\ reader'.peak = Investigations!NoPeak
    <3>1. CASE Investigations!Fail
      BY <3>1 DEF Investigations!Fail, Investigations!NoRequest
    <3>2. CASE \E m \in Macs \union {0}, a \in Aps \union {0}, r \in Ranges, n \in NodeLimits,
                 e \in EdgeLimits, p \in PageSizes : Investigations!Investigate(m, a, r, n, e, p)
      BY <3>2 DEF Investigations!Investigate, Investigations!NoRequest
    <3>3. CASE \E span \in Spans : Investigations!Resolve(span)
      <4>1. PICK span \in Spans : Investigations!Resolve(span)
        BY <3>3
      <4> DEFINE to == db.doc.observed + 1
                 from == to - span
                 doc == db.doc
      <4>2. \/ reader' = [Investigations!NoRequest EXCEPT !.op = "record", !.at = "done"]
            \/ reader' = [Investigations!NoRequest EXCEPT !.op = "record", !.at = "begin", !.record = doc,
                                            !.from = from, !.to = to]
        BY <4>1 DEF Investigations!Resolve
      <4> HIDE DEF to, from, doc
      <4> QED
        BY <4>2 DEF Investigations!NoRequest
    <3> QED
      BY <1>1, <3>1, <3>2, <3>3
  <2> QED
    BY <2>1, PeakNothing
<1>2. CASE \E n \in NodeLimits, e \in EdgeLimits : Investigations!Begin(n, e)
  <2>1. /\ reader.at = "begin" /\ reader'.at \in {"embedding", "activity"}
        /\ reader'.left = reader.left /\ reader'.activity = reader.activity /\ reader'.peak = reader.peak
    BY <1>0, <1>2 DEF Investigations!Begin, Readers
  <2> QED
    BY <2>1, PeakKept
<1>3. CASE Investigations!LoadRoster
  <2>1. /\ reader.at = "roster" /\ reader'.at \in {"association", "evidence"}
        /\ reader'.left = reader.left /\ reader'.activity = reader.activity /\ reader'.peak = reader.peak
    BY <1>0, <1>3 DEF Investigations!LoadRoster, Investigations!Roster, Readers
  <2> QED
    BY <2>1, PeakKept
<1>4. CASE Investigations!LoadEvidence \/ Investigations!LoadAssociations \/ Investigations!LoadTyped
           \/ Investigations!LoadSimilarity \/ Investigations!LoadNeighbours \/ Investigations!LoadEmbedding
  <2>1. /\ reader.at \in {"evidence", "association", "typed", "similarity", "neighbours", "embedding"}
        /\ reader'.at \in {"association", "typed", "similarity", "neighbours", "embedding", "done"}
        /\ reader'.left = reader.left /\ reader'.activity = reader.activity /\ reader'.peak = reader.peak
    <3>1. CASE Investigations!LoadEvidence
      BY <1>0, <3>1 DEF Investigations!LoadEvidence, Readers
    <3>2. CASE Investigations!LoadAssociations
      BY <1>0, <3>2 DEF Investigations!LoadAssociations, Readers
    <3>3. CASE Investigations!LoadTyped
      BY <1>0, <3>3 DEF Investigations!LoadTyped, Readers
    <3>4. CASE Investigations!LoadSimilarity
      BY <1>0, <3>4 DEF Investigations!LoadSimilarity, Readers
    <3>5. CASE Investigations!LoadNeighbours
      BY <1>0, <3>5 DEF Investigations!LoadNeighbours, Readers
    <3>6. CASE Investigations!LoadEmbedding
      BY <1>0, <3>6 DEF Investigations!LoadEmbedding, Readers
    <3> QED
      BY <1>4, <3>1, <3>2, <3>3, <3>4, <3>5, <3>6
  <2> QED
    BY <2>1, PeakKept
<1>5. CASE Investigations!LoadActivity
  <2>1. /\ reader.at = "activity" /\ reader'.left = reader'.activity /\ reader'.peak = reader.peak
        /\ reader'.at = IF reader'.activity = {} THEN "roster" ELSE "totals"
    BY <1>0, <1>5 DEF Investigations!LoadActivity, Readers
  <2>2. reader.peak = Investigations!NoPeak
    BY <2>1 DEF PeakFound
  <2> QED
    BY <2>1, <2>2 DEF PeakFound, PeakIs, Investigations!NoPeak
<1>6. CASE \/ \E s \in Summaries : Investigations!Ingest(s) \/ Investigations!Expire(s)
           \/ Investigations!Reindex \/ Investigations!Retire \/ Investigations!Embed
  <2>1. reader' = reader
    BY <1>6 DEF Investigations!Ingest, Investigations!Expire, Investigations!Reindex, Investigations!Retire,
       Investigations!Embed, Investigations!Changed
  <2> QED
    BY <2>1 DEF PeakFound, PeakIs
<1> QED
  BY <1>1, <1>2, <1>3, <1>4, <1>5, <1>6, PeakSumBucket DEF Investigations!Next

LEMMA ActivityIsExact == ASSUME InvestigationInv, PeakFound PROVE Investigations!ActivityExact
<1>0. ASSUME Investigations!Answered("record")
      PROVE  /\ reader.peak.start = {} => \A b \in reader.activity : 200 * b.frames < BucketMinutes
             /\ reader.peak.start # {} =>
                  \E p \in reader.activity :
                    /\ reader.peak = [rate |-> Investigations!Rate(p.frames), start |-> {p.start}]
                    /\ Investigations!Rate(p.frames) > 0
                    /\ \A b \in reader.activity :
                         /\ 100 * (b.frames - p.frames) < BucketMinutes
                         /\ b.start < p.start => Investigations!Rate(b.frames) < Investigations!Rate(p.frames)
  <2>1. /\ reader.left = {} /\ reader.activity \ reader.left = reader.activity
        /\ \A b \in reader.activity : b.frames \in Nat /\ Investigations!Rate(b.frames) \in Nat
    <3>1. reader.left = {}
      BY <1>0 DEF PeakFound, Investigations!Answered
    <3>2. \A b \in reader.activity : b.frames \in Nat
      BY DEF InvestigationInv, AnswerTyped, Readers, Buckets
    <3> QED
      BY <3>1, <3>2, RatesKnown
  <2>2. PeakIs(reader.activity)
    BY <2>1 DEF PeakFound
  <2>3. reader.peak.start = {} => \A b \in reader.activity : 200 * b.frames < BucketMinutes
    BY <2>1, <2>2, RateZero DEF PeakIs
  <2>4. reader.peak.start # {} =>
          \E p \in reader.activity :
            /\ reader.peak = [rate |-> Investigations!Rate(p.frames), start |-> {p.start}]
            /\ Investigations!Rate(p.frames) > 0
            /\ \A b \in reader.activity :
                 /\ 100 * (b.frames - p.frames) < BucketMinutes
                 /\ b.start < p.start => Investigations!Rate(b.frames) < Investigations!Rate(p.frames)
    BY <2>1, <2>2, RatesClose DEF PeakIs
  <2> QED
    BY <2>3, <2>4
<1> SUFFICES ASSUME Investigations!Answered("record")
             PROVE  /\ \A b \in reader.activity :
                         /\ b.start % BucketSize = 0 /\ b.start + BucketSize > reader.from /\ b.start < reader.to
                         /\ b.frames = Investigations!FrameSum({s \in AllScoped :
                                           s.window \in b.start..(b.start + BucketSize - 1)})
                    /\ \A b, c \in reader.activity : b.start = c.start => b = c
                    /\ Investigations!Anchor # "none" => Investigations!TotalFrames = Investigations!FrameSum(AllScoped)
  BY <1>0 DEF Investigations!ActivityExact, AllScoped
<1>1. AnswerTyped /\ reader.at = "done" /\ reader.op = "record" /\ (Anchored <=> Investigations!Anchor # "none")
  BY DEF InvestigationInv, Investigations!Answered, Anchored
<1>2. CASE ~Anchored
  <2>1. reader.activity = {}
    BY <1>1, <1>2 DEF InvestigationInv, ActivityLoaded
  <2> QED
    BY <1>1, <1>2, <2>1
<1>3. CASE Anchored
  <2>1. reader.activity = ActivityOf
    BY <1>1, <1>3 DEF InvestigationInv, ActivityLoaded
  <2>2. AllScoped \in SUBSET Signals /\ IsFiniteSet(AllScoped)
    BY <1>1, ScopedKnown DEF AllScoped
  <2>3. ASSUME NEW b \in ActivityOf
        PROVE  /\ b.start % BucketSize = 0 /\ b.start + BucketSize > reader.from /\ b.start < reader.to
               /\ b.frames = Investigations!FrameSum({s \in AllScoped : s.window \in b.start..(b.start + BucketSize - 1)})
               /\ b.start \in Nat /\ b.frames \in Nat
    <3>1. PICK s \in AllScoped : b = ActivityRow(Investigations!Bucket(s.window))
      BY DEF ActivityOf, BucketStarts
    <3> DEFINE n == BucketSize
               w == s.window
               c == (w \div n) * n
    <3>2. w \in Nat /\ n \in Nat \ {0} /\ reader.from <= w /\ w < reader.to /\ reader.from \in Int /\ reader.to \in Int
      BY <1>1, <2>2, SignalsKnown, InvestigationAssumption DEF AllScoped, Investigations!Scoped, AnswerTyped, Readers
    <3>3. b.start = c /\ b.frames = Investigations!FrameSum(BucketOf(c)) /\ b.frames \in Nat
      BY <1>1, <3>1, ActivityTyped DEF Investigations!Bucket
    <3>4. c \in Nat /\ c % n = 0 /\ c <= w /\ w < c + n
      BY <3>2, BucketCovers
    <3>5. BucketOf(c) = {t \in AllScoped : t.window \in c..(c + n - 1)}
      <4>1. ASSUME NEW t \in AllScoped PROVE Investigations!Bucket(t.window) = c <=> t.window \in c..(c + n - 1)
        <5>1. t.window \in Nat
          BY <2>2, SignalsKnown
        <5> QED
          BY <3>2, <5>1, BucketCovers DEF Investigations!Bucket
      <4> QED
        BY <4>1 DEF BucketOf
    <3>6. c + n > reader.from /\ c < reader.to
      <4> HIDE DEF c, w, n
      <4> QED
        BY <3>2, <3>4
    <3> HIDE DEF c
    <3> QED
      BY <3>3, <3>4, <3>5, <3>6
  <2>4. \A b, c \in ActivityOf : b.start = c.start => b = c
    <3>1. \A b \in ActivityOf : b = ActivityRow(b.start)
      BY <1>1, ActivityTyped DEF ActivityOf
    <3> QED
      BY <3>1
  <2>5. Investigations!TotalFrames = Investigations!FrameSum(AllScoped)
    BY <1>1, <2>1, ActivitySum
  <2> QED
    BY <2>1, <2>3, <2>4, <2>5
<1> QED
  BY <1>2, <1>3

----------------------------------------------------------------------------

ReportsInv == (part = "graph" => GraphInv /\ TreeInv) /\ (part = "investigation" => InvestigationInv /\ PeakFound)
reportVars == <<part, keyVars, viewVars, reviewVars, searchVars, pageVars, readerVars, changes>>

\* The invariant of the report at hand: the graph, or an investigation or record context.
THEOREM ReportsInvariant == RequestsSpec => []ReportsInv
<1>1. RequestsInit => ReportsInv
  <2>1. Investigations!Init => PeakFound
    BY DEF Investigations!Init, Investigations!NoRequest, Investigations!NoPeak, PeakFound, PeakIs
  <2> QED
    BY <2>1, GraphBegins, TreeBegins, InvestigationBegins DEF RequestsInit, ReportsInv
<1>2. ReportsInv /\ [RequestsNext]_reportVars => ReportsInv'
  <2> SUFFICES ASSUME ReportsInv, [RequestsNext]_reportVars PROVE ReportsInv'
    OBVIOUS
  <2>1. part' = part
    BY DEF RequestsNext, reportVars
  <2>2. CASE part = "graph"
    <3>1. Graphs!Next \/ UNCHANGED <<db, reader, changes>>
      BY <2>2 DEF RequestsNext, reportVars, readerVars
    <3>2. GraphInv' /\ TreeInv'
      BY <2>2, <3>1, GraphStep, GraphSame, TreeStep, TreeSame DEF ReportsInv
    <3> QED
      BY <2>1, <2>2, <3>2 DEF ReportsInv
  <2>3. CASE part = "investigation"
    <3>1. Investigations!Next \/ UNCHANGED <<db, reader, changes>>
      BY <2>3 DEF RequestsNext, reportVars, readerVars
    <3>2. InvestigationInv'
      BY <2>3, <3>1, InvestigationStep, InvestigationStutter DEF ReportsInv
    <3>3. PeakFound'
      <4>1. UNCHANGED reader => PeakFound'
        BY <2>3 DEF ReportsInv, PeakFound, PeakIs
      <4> QED
        BY <2>3, <3>1, <4>1, PeakStep DEF ReportsInv
    <3> QED
      BY <2>1, <2>3, <3>2, <3>3 DEF ReportsInv
  <2> QED
    BY <2>1, <2>2, <2>3 DEF ReportsInv
<1> QED
  BY <1>1, <1>2, PTL DEF RequestsSpec, reportVars

\* Whatever is projected while its statements run, a response with a part of the
\* graph names no node it does not carry and keeps its budget, and a walk that ends
\* has delivered what stayed in focus, and no edge twice.
THEOREM GraphIsSound == RequestsSpec => []GraphSound
<1>1. ReportsInv => GraphSound
  <2> SUFFICES ASSUME part = "graph", GraphInv
               PROVE  Graphs!ResponsesClosed /\ Graphs!GraphDelivered
    BY DEF ReportsInv, GraphSound
  <2>1. Graphs!ResponsesClosed
    <3>1. ASSUME reader.at \in {"planted", "cutdone", "hinted"}
                 \/ (reader.op = "walk" /\ reader.at \in {"next", "done"})
          PROVE  Closed
      BY <3>1 DEF GraphInv, WalkInv
    <3> QED
      BY <3>1, GraphCardinality DEF Graphs!ResponsesClosed, Closed, GraphInv, NetworkInv
  <2>2. Graphs!GraphDelivered
    BY DEF Graphs!GraphDelivered, GraphInv, Behind
  <2> QED
    BY <2>1, <2>2
<1> QED
  BY <1>1, ReportsInvariant, PTL

\* The presentation tree of any graph is a forest of shortest paths: breadth-first
\* search places every node once, at its distance from the root of its component, and
\* an answer that does not say it is truncated shows all that the root reaches.
THEOREM TreeIsSound == RequestsSpec => []TreeSound
<1>1. ReportsInv => TreeSound
  BY TreeIsRight DEF ReportsInv, TreeSound
<1> QED
  BY <1>1, ReportsInvariant, PTL

\* Whatever is ingested, expires or is indexed while its statements run, an answer of
\* an investigation or a record context agrees with itself: rosters rest on evidence,
\* links end in nodes, proximity is corroborated, the activity counts every frame
\* once, and its peak is the first bucket with the highest rounded rate.
THEOREM AnswersAreConsistent == RequestsSpec => []AnswersConsistent
<1>1. ReportsInv => AnswersConsistent
  BY PartsDoAgree, ProximityIsCorroborated, ActivityIsExact DEF ReportsInv, AnswersConsistent
<1> QED
  BY <1>1, ReportsInvariant, PTL
====
