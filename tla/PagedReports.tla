---- MODULE PagedReports ----
(***************************************************************************)
(* The reports a client reads page by page, each page a request of its own: *)
(* the inventory graph and table (reporting/inventory_*.go), the access     *)
(* point overview and roster (reporting/network.go) and the entity choices  *)
(* (assets/entities.go).  A cursor carries the key of the last row shown and *)
(* the WHERE clause of the next page is written apart from the ORDER BY; rows *)
(* change between pages.  Also the inventory without pages, which truncates. *)
(* A row is a device or an access point: its id stands for the MAC or BSSID, *)
(* in their order, a time of 0 for NULL, and a scope for what the filters    *)
(* select.  Definitions marked "wrong" are seeded defects no action uses.    *)
(***************************************************************************)
EXTENDS Integers, FiniteSets, Sequences, FiniteSetsExt, SequencesExt

CONSTANTS
    Ids,         \* rows, as numbers in the order of their identifiers
    Pairs,       \* pending merge candidates: pairs of rows, the smaller first
    Scopes,      \* what filters select: sets of rows
    Sizes,       \* page sizes and limits, normalised
    Times,       \* last_seen of a row at the start
    Counts,      \* identifiers of an access point
    MaxChanges   \* bound: changes between the pages of a walk

Reports == {"inventory", "table", "identifier", "overview", "roster", "entities", "list"}

Null == 0
Absent == [in |-> FALSE, pinned |-> FALSE, ranked |-> FALSE, seen |-> Null, count |-> 0]
Listed == [Absent EXCEPT !.in = TRUE, !.seen = 1, !.count = 1]

\* The rows a report may find, the columns it does not read left alone.
RowsOf(report) ==
    CASE report \in {"table", "list"} -> {[Listed EXCEPT !.seen = t] : t \in {Null} \union Times}
      [] report = "overview" -> {[Listed EXCEPT !.count = c] : c \in Counts}
      [] report = "entities" ->
           [in : {TRUE}, pinned : BOOLEAN, ranked : BOOLEAN, seen : {Null} \union Times, count : {1}]
      [] OTHER -> {Listed}

VARIABLES
    rows,     \* the table
    changes,  \* changes since the walk began
    steady,   \* history: rows that have not changed since
    walk      \* the client's walk

vars == <<rows, changes, steady, walk>>

NoCursor == [id |-> 0]

Init ==
    \E report \in Reports, scope \in Scopes, size \in Sizes :
        /\ rows \in [Ids -> RowsOf(report)]
        /\ changes = 0 /\ steady = Ids
        /\ walk = [report |-> report, scope |-> scope, size |-> size, at |-> "first",
                   cursor |-> NoCursor, page |-> {}, given |-> <<>>, pairs |-> <<>>,
                   responses |-> <<>>]

Row(i) ==
    [id |-> i, pinned |-> rows[i].pinned, ranked |-> rows[i].ranked,
     seen |-> rows[i].seen, count |-> rows[i].count]
InScope(scope) == {Row(i) : i \in {i \in scope : rows[i].in}}

----------------------------------------------------------------------------
(* The ORDER BY of each report, as a key compared from the left.            *)

Bit(b) == IF b THEN 1 ELSE 0

OrderKey(report, r) ==
    CASE report \in {"table", "list"} ->  \* DESC puts NULL first
           <<Bit(r.seen # Null), -r.seen, r.id>>
      [] report = "overview" -> <<-r.count, r.id>>
      [] report = "entities" ->
           <<-Bit(r.pinned), -Bit(r.ranked), Bit(r.seen # Null), -r.seen, r.id>>
      [] OTHER -> <<r.id>>

Precedes(report, x, y) ==
    LET k == OrderKey(report, x)
        l == OrderKey(report, y)
    IN  \E i \in DOMAIN k : k[i] < l[i] /\ \A j \in 1 .. i - 1 : k[j] = l[j]

\* The rows of a result before x; the LIMIT keeps those with fewer than n before them.
Before(report, S, x) == {y \in S : Precedes(report, y, x)}
FirstRows(report, S, n) == {x \in S : Cardinality(Before(report, S, x)) < n}
InOrder(report, S) ==
    [i \in 1 .. Cardinality(S) |-> CHOOSE x \in S : Cardinality(Before(report, S, x)) = i - 1]

----------------------------------------------------------------------------
(* The WHERE clause of a page that continues after a cursor.                *)

IdAfter(c, r) == r.id > c.id

\* Wrong: rows seen at the time of the last one shown are taken as shown.
TableAfterTime(c, r) == Null \notin {r.seen, c.seen} /\ r.seen < c.seen

\* inventoryTablePage, sorted by the last observation; no comparison with NULL holds.
TableAfter(c, r) ==
    /\ Null \notin {r.seen, c.seen}
    /\ r.seen < c.seen \/ (r.seen = c.seen /\ r.id > c.id)

\* The HAVING clause of the overview.
OverviewAfter(c, r) == r.count < c.count \/ (r.count = c.count /\ r.id > c.id)

\* entityAfterSQL
EntityAfter(c, r) ==
    \/ Bit(r.pinned) < Bit(c.pinned)
    \/ /\ r.pinned = c.pinned
       /\ Bit(r.ranked) < Bit(c.ranked)
    \/ /\ r.pinned = c.pinned /\ r.ranked = c.ranked
       /\ \/ c.seen = Null /\ r.seen # Null
          \/ Null \notin {r.seen, c.seen} /\ r.seen < c.seen
    \/ /\ r.pinned = c.pinned /\ r.ranked = c.ranked
       /\ r.seen = c.seen /\ r.id > c.id

After(report, c, r) ==
    CASE report = "table" -> TableAfter(c, r)
      [] report = "overview" -> OverviewAfter(c, r)
      [] report = "entities" -> EntityAfter(c, r)
      [] OTHER -> IdAfter(c, r)

----------------------------------------------------------------------------

\* decodePageCursor and the check of Entities: a cursor continues only the
\* report and the filters it was made for.
Accepts(scope) == walk.cursor = NoCursor \/ scope = walk.scope

Found(scope) ==
    {r \in InScope(scope) : walk.cursor = NoCursor \/ After(walk.report, walk.cursor, r)}

\* The last row shown.
CursorOf(page) == LET s == InOrder(walk.report, page) IN s[Len(s)]

Response(page) == [rows |-> {r.id : r \in page}, nodes |-> {r.id : r \in page}]

PageFound(scope) == FirstRows(walk.report, Found(scope), walk.size)
MoreFound(scope) == Cardinality(Found(scope)) > walk.size

\* The table's cursor takes the time of the last row without asking for one.
Untimed(scope) ==
    walk.report = "table" /\ MoreFound(scope) /\ CursorOf(PageFound(scope)).seen = Null

\* A page: one row more than its size is read, to know whether another follows.
\* The inventory graph goes on to the candidates of the page's devices.
Page(scope) ==
    LET page == PageFound(scope)
        more == MoreFound(scope)
    IN  /\ walk.report # "list" /\ walk.at \in {"first", "more"}
        /\ Accepts(scope) /\ ~Untimed(scope)
        /\ walk' = [walk EXCEPT
             !.scope = scope, !.page = {r.id : r \in page},
             !.at = CASE walk.report = "inventory" -> IF more THEN "attach" ELSE "attach_last"
                      [] OTHER -> IF more THEN "more" ELSE "done",
             !.given = @ \o [i \in 1 .. Cardinality(page) |-> InOrder(walk.report, page)[i].id],
             !.responses = Append(@, Response(page)),
             !.cursor = IF more THEN CursorOf(page) ELSE @]
        /\ UNCHANGED <<rows, changes, steady>>

\* The nil time is dereferenced, and the request ends in a panic.
Panic(scope) ==
    /\ walk.at \in {"first", "more"} /\ Accepts(scope) /\ Untimed(scope)
    /\ walk' = [walk EXCEPT !.at = "failed"]
    /\ UNCHANGED <<rows, changes, steady>>

Refuse(scope) ==
    /\ walk.at = "more" /\ ~Accepts(scope)
    /\ walk' = [walk EXCEPT !.at = "refused"]
    /\ UNCHANGED <<rows, changes, steady>>

Pending(scope) == {p \in Pairs : \A i \in {p[1], p[2]} : i \in scope /\ rows[i].in}

\* A pair belongs to the page of its smaller device.
Anchored(p) == p[1] \in walk.page

\* attachSimilarityInventoryPage: the larger device of a pair joins the nodes of the
\* response, to have its own page later, and a pair is shown when the response has both.
\* A later statement than the page's, and READ COMMITTED.
Attach ==
    LET found == {p \in Pending(walk.scope) : Anchored(p)}
        last == Len(walk.responses)
        nodes == walk.responses[last].nodes \union {p[2] : p \in found}
    IN  /\ walk.at \in {"attach", "attach_last"}
        /\ walk' = [walk EXCEPT
             !.responses[last].nodes = nodes,
             !.pairs = @ \o SetToSeq({p \in found : {p[1], p[2]} \subseteq nodes}),
             !.at = IF @ = "attach" THEN "more" ELSE "done"]
        /\ UNCHANGED <<rows, changes, steady>>

\* Inventory without pages: as many devices as the limit, the latest first.
List ==
    /\ walk.report = "list" /\ walk.at = "first"
    /\ LET page == FirstRows("list", InScope(walk.scope), walk.size)
       IN  walk' = [walk EXCEPT !.at = "list_attach", !.page = {r.id : r \in page},
                                !.responses = <<Response(page)>>,
                                !.given = [i \in 1 .. Cardinality(page) |-> InOrder("list", page)[i].id]]
    /\ UNCHANGED <<rows, changes, steady>>

\* attachSimilarityInventory: as many candidates as the limit, and those of them
\* whose devices were both loaded.
ListAttach ==
    /\ walk.at = "list_attach"
    /\ \E S \in SUBSET Pairs :
         /\ Cardinality(S) = Min({Cardinality(Pairs), walk.size})
         /\ walk' = [walk EXCEPT !.at = "done",
                                 !.pairs = SetToSeq({p \in S : {p[1], p[2]} \subseteq walk.page})]
    /\ UNCHANGED <<rows, changes, steady>>

\* A later statement or the commit fails, and the client ends its walk.
Fail ==
    /\ walk.at \in {"attach", "attach_last"}
    /\ walk' = [walk EXCEPT !.at = "failed"]
    /\ UNCHANGED <<rows, changes, steady>>

----------------------------------------------------------------------------
(* External: the projections rewrite the tables while a client walks.  The   *)
(* last observation of a device only ever becomes later, and a new device     *)
(* may have none yet.                                                       *)

Now == Max(Times) + changes + 1

Change(i) ==
    /\ walk.at \in {"more", "attach", "attach_last", "list_attach"}
    /\ changes < MaxChanges
    /\ \E r \in {Absent} \union RowsOf(walk.report) :
         rows' = [rows EXCEPT ![i] =
                    IF walk.report \in {"table", "list"} /\ r.in /\ ~(r.seen = Null /\ ~rows[i].in)
                    THEN [r EXCEPT !.seen = Now] ELSE r]
    /\ rows' # rows
    /\ changes' = changes + 1
    /\ steady' = steady \ {i}
    /\ UNCHANGED walk

Next ==
    \/ \E scope \in Scopes : Page(scope) \/ Panic(scope) \/ Refuse(scope)
    \/ Attach \/ List \/ ListAttach \/ Fail
    \/ \E i \in Ids : Change(i)

Spec == Init /\ [][Next]_vars

----------------------------------------------------------------------------

TypeOK ==
    /\ rows \in [Ids -> [in : BOOLEAN, pinned : BOOLEAN, ranked : BOOLEAN, seen : Nat, count : Nat]]
    /\ changes \in 0 .. MaxChanges /\ steady \in SUBSET Ids
    /\ walk.report \in Reports /\ walk.scope \in Scopes /\ walk.size \in Sizes
    /\ walk.given \in Seq(Ids) /\ walk.pairs \in Seq(Pairs)
    /\ walk.responses \in Seq([rows : SUBSET Ids, nodes : SUBSET Ids])

OnceIn(x, s) == Cardinality({i \in DOMAIN s : s[i] = x}) = 1

(* A walk that ends has shown every row that stayed as it was, exactly once  *)
(* as a row of its page and in the order of the report, whatever the other   *)
(* rows did in between: no tie at a page boundary, no NULL and no cursor of   *)
(* other filters makes one fall between two pages.  (A walk of the table ends *)
(* early, failed, when a page but the last would end in a row without a time: *)
(* the NULLs come first and none of them is skipped in silence.)              *)
WalkComplete ==
    walk.at = "done" /\ walk.report # "list" =>
        LET stayed == {r \in InScope(walk.scope) : r.id \in steady}
        IN  /\ \A r \in stayed : OnceIn(r.id, walk.given)
            /\ \A x, y \in stayed : Precedes(walk.report, x, y) =>
                 \A i, j \in DOMAIN walk.given :
                     walk.given[i] = x.id /\ walk.given[j] = y.id => i < j

(* Reports ordered by identifier or by the last observation never have a row *)
(* twice, even when it changes in the middle of the walk.  A response of the   *)
(* inventory graph holds other devices too, each the larger one of a candidate *)
(* whose smaller device is a row there; so a device may come before its own    *)
(* page, and never again after it.  The candidate of two devices that stayed  *)
(* is shown once, in a response with both.                                   *)
ShownOnce ==
    /\ walk.report \in {"inventory", "identifier", "table", "roster"} => IsInjective(walk.given)
    /\ walk.report = "inventory" =>
         /\ \A m, n \in DOMAIN walk.responses :
              m < n => walk.responses[m].rows \intersect walk.responses[n].nodes = {}
         /\ \A n \in DOMAIN walk.responses :
              \A i \in walk.responses[n].nodes \ walk.responses[n].rows :
                  \E p \in Range(walk.pairs) : p[1] \in walk.responses[n].rows /\ p[2] = i
    /\ walk.report = "inventory" /\ walk.at = "done" =>
         \A p \in Pending(walk.scope) : {p[1], p[2]} \subseteq steady =>
             /\ OnceIn(p, walk.pairs)
             /\ \E n \in DOMAIN walk.responses :
                  p[1] \in walk.responses[n].rows /\ {p[1], p[2]} \subseteq walk.responses[n].nodes

====
