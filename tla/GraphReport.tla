---- MODULE GraphReport ----
(***************************************************************************)
(* The relationship graph (reporting/graph_*.go) and the neighbourhood of an *)
(* access point (reporting/network.go): pages of nodes and edges with        *)
(* independent cursors, the presentation tree around a root, the graph cut   *)
(* at a limit, and the hints of a roster page.  A request is several          *)
(* statements of one read-only transaction while the projection adds and      *)
(* removes nodes and edges; an edge may outlive its nodes.  Nodes and edges   *)
(* are numbers in the order of their ids; an edge is a constant record, only  *)
(* its presence varies, and a filter on kinds of edges is a table without the *)
(* others.  Definitions marked "wrong" are seeded defects no action uses.     *)
(***************************************************************************)
EXTENDS Integers, FiniteSets, Sequences, FiniteSetsExt, SequencesExt

CONSTANTS
    Nodes,       \* node ids
    Kind,        \* their kinds: "ap", "device" or "cluster"
    EdgeAt,      \* sequence of edges: [from, to, kind]
    Filters,     \* pairs <<base, match>>: nodes the filters select before and after kinds and threats
    Anchors,     \* focus of a paged request, 0 for none
    Hops, Sizes, Limits,  \* what requests ask for, normalised
    Budget,      \* most nodes, and most hints, of an access point's neighbourhood
    Starts,      \* tables at the start: pairs of nodes and edges
    MaxChanges   \* bound: changes while a request or a walk is under way

Edges == DOMAIN EdgeAt
Ends(e) == {EdgeAt[e].from, EdgeAt[e].to}

\* isGraphAssociation
IsAssociation(e) == EdgeAt[e].kind = "association"

VARIABLES
    db,       \* the projected nodes and edges
    changes,
    reader    \* the request, its snapshot and what the client has gathered

vars == <<db, changes, reader>>

NoCursor == [node |-> 0, edge |-> 0, nodesDone |-> FALSE, edgesDone |-> FALSE]
NoTree == [depth |-> <<>>, parent |-> <<>>, tree |-> {}, roots |-> <<>>, queue |-> <<>>]

Idle ==
    [op |-> "none", at |-> "idle", snap |-> [nodes |-> {}, edges |-> {}], base |-> {}, match |-> {},
     anchor |-> 0, hops |-> 0, size |-> 0, focus |-> {}, cursor |-> NoCursor,
     nodes |-> {}, edges |-> {}, nodesMore |-> FALSE, edgesMore |-> FALSE,
     gotNodes |-> {}, gotEdges |-> <<>>, everNodes |-> {}, everEdges |-> {},
     root |-> 0, total |-> 0, missing |-> 0, forest |-> NoTree]

Init ==
    /\ \E s \in Starts : db = [nodes |-> s[1], edges |-> s[2]]
    /\ changes = 0
    /\ reader = Idle

\* What the statements of a REPEATABLE READ transaction see.
Seen == reader.snap

LeastOf(S, n) == {x \in S : Cardinality({y \in S : y < x}) < n}
Within(e, S) == Ends(e) \subseteq S
Across(e, n) == IF EdgeAt[e].from = n THEN EdgeAt[e].to ELSE EdgeAt[e].from

\* The nodes at most k steps along edges of E from S.
Spread(S, E, k) ==
    LET near[i \in 0 .. k] ==
            IF i = 0 THEN S
            ELSE LET prev == near[i - 1]
                 IN  prev \union UNION {Ends(e) : e \in {e \in E : Ends(e) \intersect prev # {}}}
    IN  near[k]

----------------------------------------------------------------------------
(* Pages of scope "all".                                                    *)

\* graphNodePageWhere
Filtered == Seen.nodes \intersect reader.match

\* graphFocusNodeIDs, hop by hop within the filtered graph
Near(hops) ==
    LET filtered == Filtered
    IN  Spread({reader.anchor} \intersect filtered, {e \in Seen.edges : Within(e, filtered)}, hops)

InFocus == IF reader.anchor = 0 THEN Filtered ELSE Filtered \intersect reader.focus
EdgesInFocus == LET nodes == InFocus IN {e \in Seen.edges : Within(e, nodes)}

Walk(f, anchor, hops, size) ==
    /\ reader.at = "idle"
    /\ reader' = [Idle EXCEPT !.op = "walk", !.at = "next", !.base = f[1], !.match = f[2],
                              !.anchor = anchor, !.hops = hops, !.size = size,
                              !.everNodes = Nodes, !.everEdges = Edges]
    /\ UNCHANGED <<db, changes>>

\* graphPage: the transaction begins.
BeginPage ==
    /\ reader.at = "next"
    /\ reader' = [reader EXCEPT !.at = "focus", !.snap = db, !.nodes = {}, !.edges = {}]
    /\ UNCHANGED <<db, changes>>

\* An anchor that is not in the graph answers with an empty page, the last.
Focus ==
    /\ reader.at = "focus"
    /\ reader' = IF reader.anchor # 0 /\ reader.anchor \notin Filtered
                 THEN [reader EXCEPT !.at = "done", !.everNodes = {}, !.everEdges = {}]
                 ELSE [reader EXCEPT !.at = "nodes", !.focus = Near(reader.hops)]
    /\ UNCHANGED <<db, changes>>

NodesPage ==
    /\ reader.at = "nodes"
    /\ LET found == IF reader.cursor.nodesDone THEN {} ELSE {n \in InFocus : n > reader.cursor.node}
       IN  reader' = [reader EXCEPT !.at = "edges", !.nodes = LeastOf(found, reader.size),
                                    !.nodesMore = Cardinality(found) > reader.size]
    /\ UNCHANGED <<db, changes>>

\* fetchGraphEdgePage
EdgesPage ==
    /\ reader.at = "edges"
    /\ LET found == IF reader.cursor.edgesDone THEN {} ELSE {e \in EdgesInFocus : e > reader.cursor.edge}
       IN  reader' = [reader EXCEPT !.at = "endpoints", !.edges = LeastOf(found, reader.size),
                                    !.edgesMore = Cardinality(found) > reader.size]
    /\ UNCHANGED <<db, changes>>

\* completeGraphEdgeEndpoints
Completed == reader.nodes \union (Seen.nodes \intersect UNION {Ends(e) : e \in reader.edges})

\* Wrong: the node cursor is taken once the endpoints have been added.
NextCursorAfterEndpoints ==
    [node |-> IF Completed = {} THEN reader.cursor.node ELSE Max(Completed),
     edge |-> IF reader.edges = {} THEN reader.cursor.edge ELSE Max(reader.edges),
     nodesDone |-> ~reader.nodesMore, edgesDone |-> ~reader.edgesMore]

\* The position of the node page is kept from before its endpoints are added.
NextCursor ==
    [node |-> IF reader.nodes = {} THEN reader.cursor.node ELSE Max(reader.nodes),
     edge |-> IF reader.edges = {} THEN reader.cursor.edge ELSE Max(reader.edges),
     nodesDone |-> ~reader.nodesMore, edgesDone |-> ~reader.edgesMore]

\* The page is closed, committed and handed to the client, which merges by id.
Deliver ==
    /\ reader.at = "endpoints"
    /\ reader' = [reader EXCEPT
         !.at = IF reader.nodesMore \/ reader.edgesMore THEN "next" ELSE "done",
         !.nodes = Completed, !.cursor = NextCursor,
         !.gotNodes = @ \union Completed, !.gotEdges = @ \o SetToSeq(reader.edges),
         !.everNodes = @ \intersect InFocus, !.everEdges = @ \intersect EdgesInFocus]
    /\ UNCHANGED <<db, changes>>

\* A statement or the commit fails: the client asks again with the cursor it has.
FailPage ==
    /\ reader.op = "walk" /\ reader.at \in {"focus", "nodes", "edges", "endpoints"}
    /\ reader' = [reader EXCEPT !.at = "next", !.nodes = {}, !.edges = {}]
    /\ UNCHANGED <<db, changes>>

----------------------------------------------------------------------------
(* graphHierarchy: the tree around a root.                                  *)

Hierarchy(f, root, limit) ==
    /\ reader.at = "idle"
    /\ reader' = [Idle EXCEPT !.op = "tree", !.at = "root", !.snap = db, !.base = f[1],
                              !.match = f[2], !.anchor = root, !.size = limit]
    /\ UNCHANGED <<db, changes>>

\* resolveGraphRoot: kinds and threats do not restrict a root; without a choice
\* an access point is preferred.
RootCandidates ==
    LET base == Seen.nodes \intersect reader.base
        aps == {n \in base : Kind[n] = "ap"}
    IN  IF reader.anchor # 0 THEN base \intersect {reader.anchor}
        ELSE IF aps # {} THEN aps ELSE base

ResolveRoot ==
    /\ reader.at = "root"
    /\ reader' = IF RootCandidates = {} THEN [reader EXCEPT !.at = "rootless"]
                 ELSE [reader EXCEPT !.at = "treenodes", !.root = Min(RootCandidates)]
    /\ UNCHANGED <<db, changes>>

\* fetchGraphHierarchyNodes: what associations reach from the root and, without
\* a choice of root, everything else the filters select.
TreeScope == (Seen.nodes \intersect reader.match) \union {reader.root}
Associations == LET scope == TreeScope IN {e \in Seen.edges : IsAssociation(e) /\ Within(e, scope)}
Component == Spread({reader.root}, Associations, Cardinality(Nodes))
Selected == IF reader.anchor = 0 THEN Component \union TreeScope ELSE Component

\* The first of the selected: the root, its neighbours, what it reaches, the rest.
TreeNodes ==
    LET component == Component
        selected == Selected
        beside == Spread({reader.root}, Associations, 1)
        rank == [n \in selected |-> IF n = reader.root THEN 0
                                    ELSE IF n \in beside THEN 1
                                    ELSE IF n \in component THEN 2 ELSE 3]
    IN  {n \in selected :
            Cardinality({m \in selected : rank[m] < rank[n] \/ (rank[m] = rank[n] /\ m < n)}) < reader.size}

\* Associations of a selected node with a node that is not projected.
Missing ==
    LET selected == Selected
    IN  {e \in Seen.edges : IsAssociation(e) /\ Ends(e) \intersect selected # {} /\ ~Within(e, Seen.nodes)}

LoadTreeNodes ==
    /\ reader.at = "treenodes"
    /\ reader' = [reader EXCEPT !.at = "treeedges", !.nodes = TreeNodes,
                                !.total = Cardinality(Selected), !.missing = Cardinality(Missing)]
    /\ UNCHANGED <<db, changes>>

\* fetchGraphHierarchyEdges: every edge between the nodes returned.  No node has a
\* place in the forest yet.
Unvisited == -1
Bare ==
    [NoTree EXCEPT !.depth = [n \in reader.nodes |-> Unvisited],
                   !.parent = [n \in reader.nodes |-> 0]]

LoadTreeEdges ==
    /\ reader.at = "treeedges"
    /\ reader' = [reader EXCEPT !.at = "plant", !.forest = Bare,
                                !.edges = {e \in Seen.edges : Within(e, reader.nodes)}]
    /\ UNCHANGED <<db, changes>>

\* buildPresentationTree, a tree at a time: the root's, then those of the other
\* access points, then of the rest, in the order of ids.
Unplaced == {n \in reader.nodes : reader.forest.depth[n] = Unvisited}
NextRoot ==
    LET aps == {n \in Unplaced : Kind[n] = "ap"}
    IN  IF reader.root \in Unplaced THEN reader.root
        ELSE IF aps # {} THEN Min(aps) ELSE Min(Unplaced)

Rooted(t, n) == [t EXCEPT !.depth[n] = 0, !.roots = Append(@, n), !.queue = <<n>>]

VisitRoot ==
    /\ reader.at = "plant" /\ reader.forest.queue = <<>> /\ Unplaced # {}
    /\ reader' = [reader EXCEPT !.forest = Rooted(@, NextRoot)]
    /\ UNCHANGED <<db, changes>>

\* The edges of a node, in the order of their ids; one whose other end has been
\* visited is passed over.
Fresh(parent) ==
    {e \in reader.edges : IsAssociation(e) /\ parent \in Ends(e) /\ Across(e, parent) \in Unplaced}

\* Wrong: the node found last is explored first.
DiscoveredDeep(t, parent, e) ==
    LET child == Across(e, parent)
    IN  [t EXCEPT !.depth[child] = t.depth[parent] + 1, !.parent[child] = parent,
                  !.tree = @ \union {e}, !.queue = <<child>> \o @]

Discovered(t, parent, e) ==
    LET child == Across(e, parent)
    IN  [t EXCEPT !.depth[child] = t.depth[parent] + 1, !.parent[child] = parent,
                  !.tree = @ \union {e}, !.queue = Append(@, child)]

Discover ==
    /\ reader.at = "plant" /\ reader.forest.queue # <<>>
    /\ LET parent == Head(reader.forest.queue)
       IN  /\ Fresh(parent) # {}
           /\ reader' = [reader EXCEPT !.forest = Discovered(@, parent, Min(Fresh(parent)))]
    /\ UNCHANGED <<db, changes>>

\* The head of the queue has no more edges to follow.
Explored ==
    /\ reader.at = "plant" /\ reader.forest.queue # <<>>
    /\ Fresh(Head(reader.forest.queue)) = {}
    /\ reader' = [reader EXCEPT !.forest.queue = Tail(@)]
    /\ UNCHANGED <<db, changes>>

Plant ==
    /\ reader.at = "plant" /\ reader.forest.queue = <<>> /\ Unplaced = {}
    /\ reader' = [reader EXCEPT !.at = "planted"]
    /\ UNCHANGED <<db, changes>>

Truncated == reader.total > Cardinality(reader.nodes) \/ reader.missing > 0

----------------------------------------------------------------------------
(* Graph without pages, READ COMMITTED: nodes, and then edges between them. *)

Overview(f, limit) ==
    /\ reader.at = "idle"
    /\ reader' = [Idle EXCEPT !.op = "overview", !.at = "cut", !.base = f[1], !.match = f[2], !.size = limit,
                              !.nodes = LeastOf(db.nodes \intersect f[2], limit)]
    /\ UNCHANGED <<db, changes>>

CutEdges ==
    /\ reader.at = "cut"
    /\ reader' = [reader EXCEPT !.at = "cutdone",
                                !.edges = LeastOf({e \in db.edges : Within(e, reader.nodes)}, reader.size)]
    /\ UNCHANGED <<db, changes>>

----------------------------------------------------------------------------
(* Network with hints: a page of the roster of an access point, whose nodes  *)
(* come from searchable records, and the graph's edges that touch it.        *)

IsHint(e) == ~IsAssociation(e)

Neighbourhood(ap, roster) ==
    /\ reader.at = "idle"
    /\ Cardinality(roster) < Budget
    /\ reader' = [Idle EXCEPT !.op = "network", !.at = "hints", !.snap = db,
                              !.nodes = {ap} \union roster]
    /\ UNCHANGED <<db, changes>>

\* fetchGraphEdges with either endpoint.
LoadHints ==
    /\ reader.at = "hints"
    /\ reader' = [reader EXCEPT !.at = "clusters",
                                !.edges = LeastOf({e \in Seen.edges : IsHint(e) /\ Ends(e) \intersect reader.nodes # {}}, Budget)]
    /\ UNCHANGED <<db, changes>>

\* Clusters the hints mention are added while the budget lasts.
Clusters ==
    LeastOf({n \in Seen.nodes : Kind[n] = "cluster" /\ n \notin reader.nodes
                 /\ \E e \in reader.edges : EdgeAt[e].kind = "cluster_member" /\ EdgeAt[e].to = n},
            Budget - Cardinality(reader.nodes))

\* Only hints between nodes of the response remain.
KeptHints(nodes) == {e \in reader.edges : Within(e, nodes)}

LoadClusters ==
    /\ reader.at = "clusters"
    /\ LET nodes == reader.nodes \union Clusters
       IN  reader' = [reader EXCEPT !.at = "hinted", !.nodes = nodes, !.edges = KeptHints(nodes)]
    /\ UNCHANGED <<db, changes>>

----------------------------------------------------------------------------
(* External: the projection.  After its last statement a request sees none   *)
(* of it.                                                                   *)

Project ==
    /\ reader.at \notin {"idle", "done", "rootless", "plant", "planted", "cutdone", "hinted"}
    /\ changes < MaxChanges
    /\ changes' = changes + 1
    /\ \/ \E n \in Nodes : db' = [db EXCEPT !.nodes = IF n \in @ THEN @ \ {n} ELSE @ \union {n}]
       \/ \E e \in Edges : db' = [db EXCEPT !.edges = IF e \in @ THEN @ \ {e} ELSE @ \union {e}]
    /\ UNCHANGED reader

Next ==
    \/ \E f \in Filters, a \in Anchors, h \in Hops, s \in Sizes : Walk(f, a, h, s)
    \/ BeginPage \/ Focus \/ NodesPage \/ EdgesPage \/ Deliver \/ FailPage
    \/ \E f \in Filters, a \in Anchors, l \in Limits : Hierarchy(f, a, l)
    \/ ResolveRoot \/ LoadTreeNodes \/ LoadTreeEdges
    \/ VisitRoot \/ Discover \/ Explored \/ Plant
    \/ \E f \in Filters, l \in Limits : Overview(f, l)
    \/ CutEdges
    \/ \E ap \in {n \in Nodes : Kind[n] = "ap"}, r \in SUBSET {n \in Nodes : Kind[n] = "device"} :
         Neighbourhood(ap, r)
    \/ LoadHints \/ LoadClusters
    \/ Project

Spec == Init /\ [][Next]_vars

----------------------------------------------------------------------------

TypeOK ==
    /\ db \in [nodes : SUBSET Nodes, edges : SUBSET Edges]
    /\ changes \in 0 .. MaxChanges
    /\ reader.nodes \in SUBSET Nodes /\ reader.edges \in SUBSET Edges
    /\ reader.gotNodes \in SUBSET Nodes /\ reader.gotEdges \in Seq(Edges)
    /\ reader.root \in Nodes \union {0}

(* Every response is closed: an edge never names a node the response does not *)
(* carry, though projection removes nodes while the statements run, pages cut *)
(* nodes and edges apart and the budget of a neighbourhood leaves nodes out;   *)
(* and that budget holds.                                                     *)
ResponsesClosed ==
    /\ \/ reader.at \in {"planted", "cutdone", "hinted"}
       \/ reader.op = "walk" /\ reader.at \in {"next", "done"}
       => \A e \in reader.edges : Within(e, reader.nodes)
    /\ reader.op = "network" => Cardinality(reader.nodes) <= Budget

(* A walk over the pages that ends has delivered every node and every edge    *)
(* that was in focus on each of its pages, and an edge never twice, although   *)
(* nodes and edges advance with cursors of their own, pages bring nodes ahead  *)
(* of the node cursor, and a page that failed is asked for again.             *)
GraphDelivered ==
    /\ IsInjective(reader.gotEdges)
    /\ reader.at = "done" => /\ reader.everNodes \subseteq reader.gotNodes
                             /\ reader.everEdges \subseteq Range(reader.gotEdges)

\* How far each node is from S along the associations returned.
Distance(S) ==
    LET links == {e \in reader.edges : IsAssociation(e)}
        steps == 0 .. Cardinality(Nodes)
        near == [k \in steps |-> Spread(S, links, k)]
    IN  [n \in near[Cardinality(Nodes)] |-> Min({k \in steps : n \in near[k]})]

(* The presentation tree is a spanning forest of shortest paths: every node    *)
(* is placed once, below a parent one step nearer to the one root of its       *)
(* component, with one tree edge for each node that is not a root, the chosen  *)
(* root first.  A forest that does not say it is truncated shows all that      *)
(* associations reach from the root, joined to it.                            *)
TreeSound ==
    reader.at = "planted" =>
        LET t == reader.forest
            d == Distance(Range(t.roots))
        IN  /\ t.roots[1] = reader.root /\ IsInjective(t.roots)
            /\ DOMAIN d = reader.nodes /\ t.depth = d
            /\ \A r, s \in Range(t.roots) : r # s => s \notin DOMAIN Distance({r})
            /\ Cardinality(t.tree) = Cardinality(reader.nodes) - Len(t.roots)
            /\ \A n \in reader.nodes \ Range(t.roots) :
                 \E e \in t.tree : Ends(e) = {n, t.parent[n]} /\ t.depth[t.parent[n]] = t.depth[n] - 1
            /\ ~Truncated => Component \subseteq DOMAIN Distance({reader.root})

====
