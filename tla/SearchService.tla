---- MODULE SearchService ----
(***************************************************************************)
(* One search of atheros-search/internal/search: Search in service.go, the  *)
(* dense and the sparse leg, their fusion and the fallbacks.  Every SQL      *)
(* query is one action, so documents may be retired, indexed or embedded     *)
(* between the legs.  A document is its source key; a row of a leg is a key  *)
(* with the score it had when it was read.  Fused scores are kept as exact   *)
(* integers over a common denominator.  Definitions marked "wrong" are       *)
(* seeded defects no action uses.                                           *)
(***************************************************************************)
EXTENDS Integers, Sequences, FiniteSets, FiniteSetsExt, SequencesExt

CONSTANTS
    Docs,         \* source keys, numbers in the order of the keys
    KindOf,       \* the source kind of a document
    ObservedAt,   \* its event time; 0 is NULL
    Grades,       \* similarities and keyword ranks; 0 is no vector, no match
    KindSets,     \* sequences of kinds a request may ask for (requestKinds)
    Scopes,       \* sets of documents a request's filters may let through
    TopKs,        \* page sizes asked for, after ClampTopK
    Candidates,   \* rows a leg keeps per result; 4 in the code
    Overfetch,    \* DenseOverfetchFactor
    MaxOverfetch, \* rows a query of a leg asks for at most; 5000 in the code
    Alpha,        \* HybridAlpha in tenths
    Denominator,  \* of the exact scores: a multiple of 60 + r for every rank r in use
    MaxChanges    \* bound: changes of the documents during a search

VARIABLES corpus, changes, search

vars == <<corpus, changes, search>>

NoSearch ==
    [at |-> "idle", mode |-> "none", wildcard |-> FALSE, kinds |-> <<>>, scope |-> {}, topK |-> 0,
     minSim |-> 0, todo |-> <<>>, dense |-> <<>>, sparse |-> <<>>, modeUsed |-> "none", code |-> "none",
     denseRan |-> FALSE, results |-> <<>>, error |-> "none"]

Unread == [sim |-> 0, rank |-> 0, active |-> FALSE]

Init ==
    /\ corpus \in [Docs -> [sim : Grades, rank : Grades, active : {TRUE}]
                           \union [sim : Grades, rank : {0}, active : {FALSE}]]
    /\ changes = 0
    /\ search = NoSearch

\* embeddingKindForSourceKind
EmbeddingKind(k) ==
    CASE k \in {"proxy_event", "proxy_blocked_host_window"} -> "event"
      [] k \in {"device_profile", "ap_profile", "identity_summary"} -> "device"
      [] k = "observation_window" -> "behaviour"
      [] OTHER -> k

Cut(s, n) == SubSeq(s, 1, IF n < Len(s) THEN n ELSE Len(s))
KeyPos(s, d) == CHOOSE i \in DOMAIN s : s[i].key = d
Has(s, d) == \E i \in DOMAIN s : s[i].key = d

\* The order of Dense and of the last sort of Search.
ByScore(x, y) == x.score > y.score \/ (x.score = y.score /\ x.key < y.key)

\* The order of Sparse: a row without a time comes last, the key decides ties.
ByRank(x, y) ==
    \/ x.score > y.score
    \/ x.score = y.score /\ ObservedAt[x.key] > ObservedAt[y.key]
    \/ x.score = y.score /\ ObservedAt[x.key] = ObservedAt[y.key] /\ x.key < y.key

\* The order of the SQL of the sparse leg, where NULL comes first.
SqlLater(d, e) ==
    \/ ObservedAt[d] = 0 /\ ObservedAt[e] # 0
    \/ 0 \notin {ObservedAt[d], ObservedAt[e]} /\ ObservedAt[d] > ObservedAt[e]
BySql(x, y) ==
    \/ x.score > y.score
    \/ x.score = y.score /\ SqlLater(x.key, y.key)
    \/ x.score = y.score /\ ObservedAt[x.key] = ObservedAt[y.key] /\ x.key < y.key

\* A list of the rows S in an order, and a list sorted again: equal rows keep their places.
OrderBy(S, Less(_, _)) ==
    [i \in 1 .. Cardinality(S) |-> CHOOSE x \in S : Cardinality({y \in S : Less(y, x)}) = i - 1]
SliceStable(s, Less(_, _)) ==
    LET Ahead(k) == {j \in DOMAIN s : Less(s[j], s[k]) \/ (~Less(s[k], s[j]) /\ j < k)}
    IN  [i \in DOMAIN s |-> s[CHOOSE k \in DOMAIN s : Cardinality(Ahead(k)) = i - 1]]

\* filterResults and the LIMITs: what a leg keeps.
Kept == Candidates * search.topK

\* The rows a query of a leg asks for: at least so many, and at most the cap.
Asking(least) == Min({Max({Overfetch * search.topK, least}), MaxOverfetch})

InScope(k) == {d \in search.scope : KindOf[d] = k /\ corpus[d].active}

----------------------------------------------------------------------------
(* Search, up to its first leg                                              *)

\* A wildcard query has no meaning to compare: it runs as sparse.
Receive(mode, wildcard, ks, scope, n, m) ==
    /\ search.at = "idle"
    /\ search' =
         [NoSearch EXCEPT !.at = IF mode = "sparse" \/ wildcard THEN "sparse" ELSE "embed",
                          !.mode = IF wildcard THEN "sparse" ELSE mode,
                          !.modeUsed = IF wildcard THEN "sparse" ELSE mode,
                          !.wildcard = wildcard, !.kinds = ks, !.todo = ks, !.scope = scope,
                          !.topK = n, !.minSim = m]
    /\ UNCHANGED <<corpus, changes>>

\* What Embed may come back with; "empty" is no vector and no error.
Outcomes == {"capacity", "invalid_response", "unavailable", "empty", "oversized", "deadline"}

\* Unavailable: the public code of a failure of the semantic leg.
PublicCode(o) ==
    CASE o = "capacity" -> "capacity_exhausted"
      [] o \in {"invalid_response", "empty"} -> "invalid_response"
      [] OTHER -> "backend_unavailable"

\* searchLegFailure: the caller's own faults are not outages.
LegFailure(o) == IF o \in {"oversized", "deadline"} THEN o ELSE PublicCode(o)

Embedded ==
    /\ search.at = "embed"
    /\ search' = [search EXCEPT !.at = "dense"]
    /\ UNCHANGED <<corpus, changes>>

FailWith(e) == search' = [search EXCEPT !.at = "failed", !.error = e]

\* A hybrid search goes on with keywords, and says why.
FallBack(code) ==
    search' = [search EXCEPT !.at = "sparse", !.modeUsed = "sparse", !.code = code,
                             !.todo = search.kinds, !.dense = <<>>]

EmbedFails(o) ==
    /\ search.at = "embed"
    /\ IF search.mode = "dense" THEN FailWith(LegFailure(o)) ELSE FallBack(PublicCode(o))
    /\ UNCHANGED <<corpus, changes>>

----------------------------------------------------------------------------
(* Dense                                                                    *)

\* denseKindQuery: the LIMIT keeps the nearest, and any of several as near.
Nearest(k) ==
    LET found == {d \in InScope(k) : corpus[d].sim > 0}
        limit == Min({Asking(search.topK), Cardinality(found)})
    IN  {s \in SUBSET found : /\ Cardinality(s) = limit
                              /\ \A x \in s, y \in found \ s : corpus[x].sim >= corpus[y].sim}

\* What denseKind keeps of them.
DenseRows(near) ==
    LET rows == {[key |-> d, score |-> corpus[d].sim] :
                    d \in {e \in near : corpus[e].sim >= search.minSim}}
    IN  Cut(OrderBy(rows, ByScore), Kept)

\* Where a search goes after the last kind of its dense leg.
AfterDense(found) ==
    CASE search.mode = "dense" -> "respond"
      [] search.mode = "hybrid" /\ found = <<>> -> "coverage"
      [] OTHER -> "sparse"

DenseKind ==
    /\ search.at = "dense"
    /\ \E near \in Nearest(Head(search.todo)) :
         LET rest == Tail(search.todo)
             all == search.dense \o DenseRows(near)
             leg == Cut(SliceStable(all, ByScore), Kept)
         IN  search' = IF rest # <<>> THEN [search EXCEPT !.todo = rest, !.dense = all]
                       ELSE [search EXCEPT !.at = AfterDense(leg), !.todo = search.kinds,
                                           !.dense = leg, !.denseRan = TRUE]
    /\ UNCHANGED <<corpus, changes>>

\* Wrong: a failed dense query is an empty one.
DenseFailsQuietly ==
    /\ search.at = "dense"
    /\ IF search.mode = "dense" THEN FailWith("dense_query_failed")
       ELSE search' = [search EXCEPT !.at = "sparse", !.todo = search.kinds, !.dense = <<>>]
    /\ UNCHANGED <<corpus, changes>>

DenseFails ==
    /\ search.at = "dense"
    /\ IF search.mode = "dense" THEN FailWith("dense_query_failed")
       ELSE FallBack("dense_query_failed")
    /\ UNCHANGED <<corpus, changes>>

\* noEmbeddingCoverageReason, one kind at a time; a failed count ends it.
Coverage ==
    /\ search.at = "coverage"
    /\ LET k == EmbeddingKind(Head(search.todo))
           covered == \E d \in Docs : EmbeddingKind(KindOf[d]) = k /\ corpus[d].sim > 0
       IN  CASE covered -> search' = [search EXCEPT !.at = "sparse", !.todo = search.kinds]
             [] ~covered /\ Len(search.todo) > 1 -> search' = [search EXCEPT !.todo = Tail(@)]
             [] OTHER -> FallBack("no_embedding_coverage")
    /\ UNCHANGED <<corpus, changes>>

CoverageFails ==
    /\ search.at = "coverage"
    /\ search' = [search EXCEPT !.at = "sparse", !.todo = search.kinds]
    /\ UNCHANGED <<corpus, changes>>

----------------------------------------------------------------------------
(* Sparse                                                                   *)

\* sparseKind and sparseWildcard, which gives every document the same rank.
SparseRows(k) ==
    LET rows == {[key |-> d, score |-> IF search.wildcard THEN 1 ELSE corpus[d].rank] :
                    d \in {e \in InScope(k) : search.wildcard \/ corpus[e].rank > 0}}
    IN  Cut(Cut(OrderBy(rows, BySql), Asking(Kept)), Kept)

SparseKind ==
    /\ search.at = "sparse"
    /\ LET rest == Tail(search.todo)
           all == search.sparse \o SparseRows(Head(search.todo))
       IN  search' = IF rest # <<>> THEN [search EXCEPT !.todo = rest, !.sparse = all]
                     ELSE [search EXCEPT !.at = "respond", !.sparse = Cut(SliceStable(all, ByRank), Kept)]
    /\ UNCHANGED <<corpus, changes>>

SparseFails ==
    /\ search.at = "sparse"
    /\ FailWith("sparse_query_failed")
    /\ UNCHANGED <<corpus, changes>>

----------------------------------------------------------------------------
(* Fuse and the answer                                                      *)

\* The share of a row at a rank, 1 / (60 + rank), as an integer.
Share(s, d) == IF Has(s, d) THEN Denominator \div (60 + KeyPos(s, d)) ELSE 0
KeysOf(s) == {s[i].key : i \in DOMAIN s}

Fuse(dense, sparse) ==
    LET rows == {[key |-> d, score |-> Alpha * Share(dense, d) + (10 - Alpha) * Share(sparse, d)] :
                    d \in KeysOf(dense) \union KeysOf(sparse)}
    IN  Cut(OrderBy(rows, ByScore), Kept)

\* The rest of Search; LogQuery may fail and changes nothing of the answer.
Respond ==
    /\ search.at = "respond"
    /\ LET fused == CASE search.modeUsed = "dense" -> search.dense
                      [] search.modeUsed = "sparse" -> search.sparse
                      [] OTHER -> Fuse(search.dense, search.sparse)
       IN  search' = [search EXCEPT !.at = "answered",
                                    !.results = Cut(SliceStable(fused, ByScore), search.topK)]
    /\ UNCHANGED <<corpus, changes>>

\* The report of the answer cannot be encoded, and there is no answer.
ReportFails ==
    /\ search.at = "respond"
    /\ FailWith("encode_report")
    /\ UNCHANGED <<corpus, changes>>

----------------------------------------------------------------------------

\* Elsewhere a document is indexed again, retired, embedded or loses its vector.
Change(d, new) ==
    /\ search.at \in {"embed", "dense", "coverage", "sparse"} /\ changes < MaxChanges
    /\ corpus' = [corpus EXCEPT ![d] = new] /\ changes' = changes + 1
    /\ UNCHANGED search

\* A threshold of 0 selects what one of 1 does.
Next ==
    \/ \E mode \in {"dense", "sparse", "hybrid"}, w \in BOOLEAN, ks \in KindSets,
          scope \in Scopes, n \in TopKs, m \in Grades \ {0} : Receive(mode, w, ks, scope, n, m)
    \/ \E o \in Outcomes : EmbedFails(o)
    \/ Embedded \/ DenseKind \/ DenseFails \/ Coverage \/ CoverageFails
    \/ SparseKind \/ SparseFails \/ Respond \/ ReportFails
    \/ \E d \in Docs : Change(d, Unread)
    \/ \E d \in Docs, g \in Grades \ {0} : Change(d, [sim |-> g, rank |-> g, active |-> TRUE])

Spec == Init /\ [][Next]_vars

----------------------------------------------------------------------------

\* Types of the documents and of the search.
TypeOK ==
    /\ corpus \in [Docs -> [sim : Grades, rank : Grades, active : BOOLEAN]]
    /\ changes \in 0..MaxChanges
    /\ search.at \in {"idle", "embed", "dense", "coverage", "sparse", "respond", "answered", "failed"}
    /\ search.mode \in {"none", "dense", "sparse", "hybrid"}
    /\ KeysOf(search.dense \o search.sparse \o search.results) \subseteq Docs

\* A search that lost its semantic leg says so, and one that says nothing had it:
\* a code is there exactly when a hybrid search was answered by keywords, an answer
\* called dense or hybrid had its dense leg run to the end over all its kinds, and a
\* dense search is never answered by keywords.
FallbackHonest ==
    search.at = "answered" =>
        /\ search.code # "none" <=> search.mode = "hybrid" /\ search.modeUsed = "sparse"
        /\ search.modeUsed # "sparse" => search.denseRan
        /\ search.mode = "dense" => search.modeUsed = "dense"

\* x beats y in a leg: fusion goes by the place, a single leg by the score.
Beats(s, x, y) ==
    /\ Has(s, x)
    /\ Has(s, y) => IF search.modeUsed = "hybrid" THEN KeyPos(s, x) < KeyPos(s, y)
                    ELSE s[KeyPos(s, x)].score > s[KeyPos(s, y)].score

\* What is returned is within the budget, the kinds and the filters of the request,
\* names no document twice, and respects the legs: a document that beats another
\* in every leg that counts and found the other is returned before it.
ResultsSound ==
    search.at = "answered" =>
        LET legs == CASE search.modeUsed = "dense" -> {search.dense}
                      [] search.modeUsed = "sparse" -> {search.sparse}
                      [] OTHER -> {s \in {search.dense, search.sparse} :
                                      \/ s = search.dense /\ Alpha > 0
                                      \/ s = search.sparse /\ Alpha < 10}
            r == search.results
        IN  /\ Len(r) <= search.topK
            /\ \A i \in DOMAIN r : /\ r[i].key \in search.scope
                                   /\ KindOf[r[i].key] \in Range(search.kinds)
            /\ \A i, j \in DOMAIN r : r[i].key = r[j].key => i = j
            /\ \A y \in KeysOf(r), x \in UNION {KeysOf(s) : s \in legs} :
                 (x # y /\ \A s \in legs : Has(s, y) => Beats(s, x, y))
                   => x \in KeysOf(r) /\ KeyPos(r, x) < KeyPos(r, y)

====
