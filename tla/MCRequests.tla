---- MODULE MCRequests ----
(***************************************************************************)
(* The request handlers: authentication, saved views, reviews of assets,     *)
(* search, investigations, paged lists and the graph.  A behaviour is one of *)
(* the part chosen at the start, so the run visits the sum of their state    *)
(* spaces.  A variable of several parts is that of the part at hand, and one *)
(* of other parts only is Off.                                              *)
(***************************************************************************)
EXTENDS Integers, Sequences, FiniteSets

CONSTANTS
    Clients, KeyIds, RoleSets, Cooldown, Lifetime, MaxMissing, Horizon,
    Requests, Owners, Names, MaxPerUser, MaxIds, MaxRevision,
    Reviewers, Assets, MergePairs, Roles, MaxRevs,
    Grades, TopKs, Overfetch, MaxOverfetch, Alpha, Candidates, Denominator, KindOf, ObservedAt, KindSets, DocScopes,
    Macs, Aps, Sensors, Windows, Pinned, NodeLimits, EdgeLimits, PageSizes, Spans,
    BucketSize, BucketMinutes, NeighbourLimit, MaxSummaries, Summaries, Frames, Ranges, Joined, Same,
    RowIds, Times, Counts, Sizes, RowPairs, RowScopes,
    Nodes, Kind, EdgeAt, Filters, Starts, Anchors, Hops, Limits, Budget,
    MaxChanges

\* Keys are fresh for five minutes and fetched again after 30 seconds at the earliest.
ASSUME KeyAssumption ==
    /\ Cooldown \in Nat /\ Lifetime \in Nat \ {0} /\ Cooldown <= Lifetime
    /\ MaxMissing \in Nat \ {0}
    /\ Horizon \in Nat /\ Cooldown < Horizon
    /\ "nobody" \notin Clients

ASSUME ViewAssumption ==
    /\ MaxPerUser \in Nat /\ MaxIds \in Nat /\ MaxRevision \in Nat \ {0}
    /\ "nobody" \notin Requests

ASSUME ReviewAssumption == MaxRevs \in Nat /\ "none" \notin Reviewers

\* Rows have identifiers, pages at least one row, and a candidate names two devices.
ASSUME PageAssumption ==
    /\ RowIds \subseteq Nat \ {0} /\ IsFiniteSet(RowIds)
    /\ RowPairs \subseteq RowIds \X RowIds /\ (\A p \in RowPairs : p[1] < p[2]) /\ RowScopes \subseteq SUBSET RowIds
    /\ Times \subseteq Nat \ {0} /\ IsFiniteSet(Times) /\ Times # {}
    /\ Counts \subseteq Nat /\ Sizes \subseteq Nat \ {0} /\ MaxChanges \in Nat

\* A search asks for some kinds, each once; ranks are exact over the denominator.
ASSUME SearchAssumption ==
    /\ KindOf \in [RowIds -> STRING] /\ ObservedAt \in [RowIds -> Nat] /\ Grades \subseteq Nat /\ 0 \in Grades
    /\ \A ks \in KindSets : ks \in Seq(STRING) /\ ks # <<>> /\ \A i, j \in DOMAIN ks : ks[i] = ks[j] => i = j
    /\ DocScopes \subseteq SUBSET RowIds /\ TopKs \subseteq Nat
    /\ Candidates \in Nat \ {0} /\ Overfetch \in Nat \ {0} /\ MaxOverfetch \in Nat /\ Alpha \in 0..10
    /\ Denominator \in Nat \ {0}
    /\ \A n \in TopKs : \A r \in 1 .. Candidates * n : Denominator % (60 + r) = 0

\* An empty MAC or BSSID is none; windows, times and counts of frames are numbers.
ASSUME InvestigationAssumption ==
    /\ Macs \subseteq Nat \ {0} /\ Aps \subseteq Nat \ {0} /\ Sensors \subseteq Nat /\ Windows \subseteq Nat
    /\ IsFiniteSet(Macs) /\ IsFiniteSet(Aps) /\ IsFiniteSet(Windows) /\ Windows # {}
    /\ Summaries \subseteq [mac : Macs, ap : Aps, sensor : Sensors, window : Windows]
    /\ Frames \in [Sensors -> Nat] /\ Ranges \subseteq Nat \X Nat
    /\ Joined \subseteq Macs \X Aps /\ Same \subseteq Macs \X Macs
    /\ NodeLimits \subseteq Nat /\ EdgeLimits \subseteq Nat /\ PageSizes \subseteq Nat /\ Spans \subseteq Nat
    /\ BucketSize \in Nat \ {0} /\ BucketMinutes \in Nat \ {0} /\ NeighbourLimit \in Nat /\ MaxSummaries \in Nat /\ MaxChanges \in Nat

\* Ids of nodes are not empty; an edge has the ids of its ends, projected or not.
ASSUME GraphAssumption ==
    /\ Nodes \subseteq Nat \ {0} /\ IsFiniteSet(Nodes)
    /\ EdgeAt \in Seq([from : Nodes, to : Nodes, kind : STRING])
    /\ Starts \subseteq (SUBSET Nodes) \X (SUBSET DOMAIN EdgeAt)
    /\ Sizes \subseteq Nat /\ Limits \subseteq Nat \ {0} /\ Budget \in Nat /\ MaxChanges \in Nat

VARIABLES
    part,
    clock, published, keys, expiry, lastRefresh, missing, refreshing, served, client,
    views, created, limitLock, rowLock, req,
    auditKey, annotations, audit, candidateStatus, decisions, locks, work,
    corpus, search,
    rows, steady, walk,
    db, reader, changes

----------------------------------------------------------------------------
(* Two requests meet keys that rotate and expire.                           *)

Keys == INSTANCE KeyStore

\* Two requests of one owner create and rename up to a limit of two views.
Views == INSTANCE SavedViews

\* Two reviewers write one annotation and decide one candidate.
Reviews == INSTANCE AssetReviews WITH Candidates <- MergePairs

\* Three documents of two kinds, the first without a time; a leg keeps two rows a result.
MCKindOf == <<"event", "proxy_event", "event">>
MCObservedAt == <<0, 1, 2>>
MCKindSets == {<<"event", "proxy_event">>}
MCDocScopes == {RowIds}
Searches == INSTANCE SearchService WITH Docs <- RowIds, Scopes <- DocScopes

\* Two devices at an access point, one of them also at another; they may meet at two
\* sensors in two windows, each a bucket of a day.  A day of 7 frames rounds to 0.00 a
\* minute, 8, 14 and 15 to 0.01, 22 to 0.02.
MCSummaries ==
    [mac : {1}, ap : {1}, sensor : Sensors, window : Windows]
      \union {[mac |-> 2, ap |-> 1, sensor |-> i, window |-> i] : i \in Sensors}
      \union {[mac |-> 1, ap |-> 2, sensor |-> 1, window |-> 2]}
MCFrames == <<7, 8>>
MCRanges == {<<1, 3>>, <<2, 3>>}
MCJoined == {<<1, 1>>, <<2, 1>>}
MCSame == {<<1, 2>>}
Investigations == INSTANCE Investigation

\* Three rows that tie in every column, every pair of them a candidate.
MCRowPairs == {<<1, 2>>, <<1, 3>>, <<2, 3>>}
MCRowScopes == {{1, 2, 3}, {1, 3}}
Pages == INSTANCE PagedReports WITH Ids <- RowIds, Pairs <- RowPairs, Scopes <- RowScopes

\* Two access points and two devices on a cycle of associations, and a cluster.
E(f, t, k) == [from |-> f, to |-> t, kind |-> k]
MCNodes == 1..5
MCKind == <<"ap", "device", "device", "ap", "cluster">>
MCEdges ==
    <<E(2, 1, "association"), E(3, 4, "association"), E(2, 4, "association"),
      E(3, 1, "association"), E(2, 5, "cluster_member"), E(2, 3, "rf")>>
MCFilters == {<<1..5, 1..5>>, <<1..4, {2, 3}>>}
MCStarts == {<<1..5, s>> : s \in SUBSET (1..6)} \union {<<{1, 3, 5}, 1..6>>, <<{2, 3}, 1..6>>}
Graphs == INSTANCE GraphReport

----------------------------------------------------------------------------

keyVars == <<clock, published, keys, expiry, lastRefresh, missing, refreshing, served, client>>
viewVars == <<views, created, limitLock, rowLock, req>>
reviewVars == <<auditKey, annotations, audit, candidateStatus, decisions, locks, work>>
searchVars == <<corpus, search>>
pageVars == <<rows, steady, walk>>
readerVars == <<db, reader>>

Off == "off"
KeysOff ==
    /\ clock = Off /\ published = Off /\ keys = Off
    /\ expiry = Off /\ lastRefresh = Off /\ missing = Off
    /\ refreshing = Off /\ served = Off /\ client = Off
ViewsOff ==
    /\ views = Off /\ created = Off /\ limitLock = Off
    /\ rowLock = Off /\ req = Off
ReviewsOff ==
    /\ auditKey = Off /\ annotations = Off /\ audit = Off
    /\ candidateStatus = Off /\ decisions = Off /\ locks = Off
    /\ work = Off
SearchesOff == corpus = Off /\ search = Off
PagesOff == rows = Off /\ steady = Off /\ walk = Off
ReadersOff == db = Off /\ reader = Off

RequestsInit ==
    /\ part \in {"keys", "views", "reviews", "search", "investigation", "pages", "graph"}
    /\ IF part = "keys" THEN Keys!Init ELSE KeysOff
    /\ IF part = "views" THEN Views!Init ELSE ViewsOff
    /\ IF part = "reviews" THEN Reviews!Init ELSE ReviewsOff
    /\ IF part = "search" THEN Searches!Init ELSE SearchesOff
    /\ IF part = "pages" THEN Pages!Init ELSE PagesOff
    /\ CASE part = "investigation" -> Investigations!Init
         [] part = "graph" -> Graphs!Init
         [] OTHER -> ReadersOff
    /\ part \in {"keys", "views", "reviews"} => changes = 0

RequestsNext ==
    /\ \/ /\ part = "keys" /\ Keys!Next
          /\ UNCHANGED <<viewVars, reviewVars, searchVars, pageVars, readerVars, changes>>
       \/ /\ part = "views" /\ Views!Next
          /\ UNCHANGED <<keyVars, reviewVars, searchVars, pageVars, readerVars, changes>>
       \/ /\ part = "reviews" /\ Reviews!Next
          /\ UNCHANGED <<keyVars, viewVars, searchVars, pageVars, readerVars, changes>>
       \/ /\ part = "search" /\ Searches!Next
          /\ UNCHANGED <<keyVars, viewVars, reviewVars, pageVars, readerVars>>
       \/ /\ part = "investigation" /\ Investigations!Next
          /\ UNCHANGED <<keyVars, viewVars, reviewVars, searchVars, pageVars>>
       \/ /\ part = "pages" /\ Pages!Next
          /\ UNCHANGED <<keyVars, viewVars, reviewVars, searchVars, readerVars>>
       \/ /\ part = "graph" /\ Graphs!Next
          /\ UNCHANGED <<keyVars, viewVars, reviewVars, searchVars, pageVars>>
    /\ UNCHANGED part

RequestsSpec ==
    RequestsInit /\ [][RequestsNext]_<<part, keyVars, viewVars, reviewVars, searchVars, pageVars,
                                       readerVars, changes>>

----------------------------------------------------------------------------

\* The part at hand is well typed.
RequestsTypeOK ==
    CASE part = "keys" -> Keys!TypeOK
      [] part = "views" -> Views!TypeOK
      [] part = "reviews" -> Reviews!TypeOK
      [] part = "search" -> Searches!TypeOK
      [] part = "investigation" -> Investigations!TypeOK
      [] part = "pages" -> Pages!TypeOK
      [] part = "graph" -> Graphs!TypeOK

\* A request is served only under a key the provider vouched for recently.
HandledKeyRecent == part = "keys" => Keys!HandledKeyRecent

\* Overlapping misses do not multiply the successful fetches of the provider's keys, and
\* no two fetches overlap; a provider that fails is asked by each who waits, in turn.
FetchesApart == [][part = "keys" => Keys!FetchApart]_keyVars

\* Overlapping creates and renames keep the limit of views and the uniqueness of names.
WithinLimit == part = "views" => Views!WithinLimit

\* Optimistic concurrency, in both tables that have it: what a committed update of a
\* saved view or of an annotation replaces is the revision its author expected.
NoLostUpdate ==
    [][/\ part = "views" => Views!UpdateExpected
       /\ part = "reviews" => Reviews!AnnotationExpected]_<<viewVars, reviewVars>>

\* A candidate is decided once.
DecisionsFinal == part = "reviews" => Reviews!DecisionsFinal

\* An answer names the leg it came from, and ranks what its legs found.
SearchSound == part = "search" => Searches!FallbackHonest /\ Searches!ResultsSound

\* The statements of one answer agree with each other and claim no more than the rows show.
AnswersConsistent ==
    part = "investigation" =>
        Investigations!PartsAgree /\ Investigations!ProximityCorroborated /\ Investigations!ActivityExact

\* A walk over pages shows every row that stayed, none twice as a row of a page, and a
\* device of the inventory graph never again after its own page.
PagesSound == part = "pages" => Pages!WalkComplete /\ Pages!ShownOnce

\* Responses with a part of the graph are closed, and a walk delivers all of it.
GraphSound == part = "graph" => Graphs!ResponsesClosed /\ Graphs!GraphDelivered

\* The presentation tree is a forest of shortest paths.
TreeSound == part = "graph" => Graphs!TreeSound

====
