---- MODULE Investigation ----
(***************************************************************************)
(* The two readers of retained wireless evidence: Investigation             *)
(* (atheros-search/internal/reporting/investigation_*.go) and the record    *)
(* context (internal/search/record_context.go, reporting/record_evidence.go).*)
(* Each runs several statements in one read-only REPEATABLE READ            *)
(* transaction while summaries are ingested and expire and documents are    *)
(* indexed; the record context resolves its document before that            *)
(* transaction.  MACs and BSSIDs are numbers, in their order; times are     *)
(* windows of the summary grain.  Definitions marked "wrong" are seeded      *)
(* defects no action uses.                                                   *)
(***************************************************************************)
EXTENDS Integers, FiniteSets, FiniteSetsExt

CONSTANTS
    Macs, Aps, Sensors, Windows,
    Summaries,   \* the rows that may be ingested, among these
    Joined,      \* pairs of a MAC and a BSSID with association frames
    Same,        \* pairs of MACs with a same_device edge
    Ranges,      \* windows an investigation may ask for
    Frames,      \* frame_count of a summary of a sensor
    Pinned,      \* MACs with a pinned annotation
    NodeLimits, EdgeLimits, PageSizes,  \* what requests ask for, normalised
    Spans,       \* windows of a record context
    BucketSize,  \* bucket_minutes, in windows of the model
    BucketMinutes,  \* bucket_minutes
    NeighbourLimit,
    MaxSummaries, MaxChanges  \* bounds: summaries retained, changes while a reader is at work

VARIABLES
    db,       \* the committed rows
    changes,  \* changes made while the reader is at work
    reader    \* the request, its snapshot and what it has gathered

vars == <<db, changes, reader>>

NoDoc == [live |-> FALSE, mac |-> 0, ap |-> 0, observed |-> 0, text |-> 0]
Empty == [signals |-> {}, doc |-> NoDoc, vectors |-> {}]

\* PeakFrameRate, in hundredths, and PeakWindow, which is nil at first.
NoPeak == [rate |-> 0, start |-> {}]

NoRequest ==
    [op |-> "none", at |-> "idle", snap |-> Empty, device |-> 0, ap |-> 0, from |-> 0, to |-> 0,
     nodeLimit |-> 0, edgeLimit |-> 0, page |-> 0, record |-> NoDoc,
     roster |-> {}, nodes |-> {}, links |-> {}, proximity |-> "unknown", total |-> 0,
     evidence |-> {}, activity |-> {}, left |-> {}, peak |-> NoPeak, neighbours |-> {}, current |-> {}]

Init ==
    /\ \E a \in {<<0, 0>>, <<0, 1>>, <<1, 1>>} :
         db = [Empty EXCEPT !.doc = [live |-> TRUE, mac |-> a[1], ap |-> a[2],
                                     observed |-> Max(Windows), text |-> 1]]
    /\ changes = 0
    /\ reader = NoRequest

\* The first n of a set of rows, in an order given as a set of keys.
FirstRows(S, n, Before(_, _)) == {x \in S : Cardinality({y \in S : Before(y, x)}) < n}
ByPair(x, y) == x[1] < y[1] \/ (x[1] = y[1] /\ x[2] < y[2])

\* Wrong: every statement sees what is committed when it runs.
SeenNow == db

\* What the statements of a REPEATABLE READ transaction see.
Seen == reader.snap

\* investigationScopeWith
Scoped(anchored) ==
    {s \in Seen.signals :
        /\ reader.from <= s.window /\ s.window < reader.to
        /\ reader.ap # 0 => s.ap = reader.ap
        /\ anchored /\ reader.device # 0 => s.mac = reader.device}

\* SUM over the rows S of a number each row has: how many things they have together.
SumOver(S, n) == Cardinality(UNION {{x} \X (1 .. n[x]) : x \in S})
FrameSum(S) == SumOver(S, [s \in S |-> Frames[s.sensor]])
LastSeen(S) == Max({s.window : s \in S})

\* Both commands: a statement fails and the request with it.
Fail ==
    /\ reader.at \notin {"idle", "totals", "done", "failed"}
    /\ reader' = [NoRequest EXCEPT !.at = "failed"]
    /\ UNCHANGED <<db, changes>>

----------------------------------------------------------------------------
(* Investigation                                                            *)

\* NormalizeInvestigationRequest: at most one anchor, a window that is not empty.
Investigate(device, ap, range, n, e, p) ==
    /\ reader.at = "idle"
    /\ device = 0 \/ ap = 0
    /\ range[1] < range[2]
    /\ reader' = [NoRequest EXCEPT !.op = "investigate", !.at = "roster", !.snap = db,
                                   !.device = device, !.ap = ap, !.from = range[1], !.to = range[2],
                                   !.nodeLimit = n, !.edgeLimit = e, !.page = p]
    /\ UNCHANGED <<db, changes>>

\* investigationRoster: pairs of a device and an AP, pinned ones and the latest
\* first; every row brings a link and the nodes at its ends.
Pairs == {<<s.ap, s.mac>> : s \in Scoped(TRUE)}
SignalsOf(p) == {s \in Scoped(TRUE) : s.ap = p[1] /\ s.mac = p[2]}
RosterBefore(p, q) ==
    LET pp == IF p[2] \in Pinned THEN 1 ELSE 0
        qp == IF q[2] \in Pinned THEN 1 ELSE 0
        pl == LastSeen(SignalsOf(p))
        ql == LastSeen(SignalsOf(q))
    IN  pp > qp \/ (pp = qp /\ (pl > ql \/ (pl = ql /\ ByPair(p, q))))

Roster ==
    LET rows == FirstRows(Pairs, reader.nodeLimit, RosterBefore)
    IN  [reader EXCEPT !.roster = {<<p, FrameSum(SignalsOf(p))>> : p \in rows},
                       !.nodes = {<<"ap", p[1]>> : p \in rows} \union {<<"device", p[2]>> : p \in rows},
                       !.links = {<<"observed", p[2], p[1]>> : p \in rows}]

LoadRoster ==
    /\ reader.at = "roster"
    /\ reader' = [Roster EXCEPT !.at = IF reader.op = "record" THEN "association" ELSE "evidence"]
    /\ UNCHANGED <<db, changes>>

\* investigationEvidence, its first page: newest windows first.
EvidenceBefore(s, t) ==
    \/ s.window > t.window
    \/ s.window = t.window /\ s.sensor < t.sensor
    \/ s.window = t.window /\ s.sensor = t.sensor /\ ByPair(<<s.ap, s.mac>>, <<t.ap, t.mac>>)

LoadEvidence ==
    /\ reader.at = "evidence"
    /\ reader' = [reader EXCEPT !.at = "association", !.total = Cardinality(Scoped(TRUE)),
                                !.evidence = FirstRows(Scoped(TRUE), reader.page, EvidenceBefore)]
    /\ UNCHANGED <<db, changes>>

\* nodeIdentifiers: follow-up queries know only what the roster brought.
Devices == {m \in Macs : <<"device", m>> \in reader.nodes}
Remaining == IF reader.edgeLimit > Cardinality(reader.links)
             THEN reader.edgeLimit - Cardinality(reader.links) ELSE 0

\* investigationAssociationLinks
LoadAssociations ==
    /\ reader.at = "association"
    /\ LET found == {p \in Joined : p[1] \in Devices /\ <<"ap", p[2]>> \in reader.nodes}
       IN  reader' = [reader EXCEPT !.at = "typed", !.links = @ \union
             {<<"association", p[1], p[2]>> : p \in FirstRows(found, Remaining, ByPair)}]
    /\ UNCHANGED <<db, changes>>

\* investigationTypedLinks, and where the two commands part: the record context
\* compares devices only around an AP.
LoadTyped ==
    /\ reader.at = "typed"
    /\ LET found == {p \in Same : p[1] \in Devices /\ p[2] \in Devices}
       IN  reader' = [reader EXCEPT
             !.at = IF reader.op = "record" /\ reader.device # 0 THEN "neighbours" ELSE "similarity",
             !.links = @ \union {<<"identity", p[1], p[2]>> : p \in FirstRows(found, Remaining, ByPair)}]
    /\ UNCHANGED <<db, changes>>

\* Where two devices were seen together, and QualifiesRFOverlap.
Shared(S, p) ==
    {s \in S : s.mac = p[1] /\ [s EXCEPT !.mac = p[2]] \in Seen.signals}
SensorCount(S) == Cardinality({s.sensor : s \in S})
WindowCount(S) == Cardinality({s.window : s \in S})

Qualifies(S) == SensorCount(S) >= 2 /\ WindowCount(S) >= 2

OverlapBefore(p, q) ==
    LET a == Shared(Scoped(FALSE), p)
        b == Shared(Scoped(FALSE), q)
    IN  \/ SensorCount(a) > SensorCount(b)
        \/ SensorCount(a) = SensorCount(b) /\ WindowCount(a) > WindowCount(b)
        \/ SensorCount(a) = SensorCount(b) /\ WindowCount(a) = WindowCount(b) /\ ByPair(p, q)

\* investigationRFSimilarityLinks: the pairs of two rostered devices.  The record
\* context of an AP names the roster as its neighbours.
Overlapping ==
    {p \in Devices \X Devices :
        /\ p[1] < p[2] /\ (reader.device # 0 => reader.device \in {p[1], p[2]})
        /\ Shared(Scoped(FALSE), p) # {}}

LoadSimilarity ==
    /\ reader.at = "similarity"
    /\ LET rows == FirstRows(Overlapping, Remaining, OverlapBefore)
           inferred == {p \in rows : Qualifies(Shared(Scoped(FALSE), p))}
       IN  reader' = [reader EXCEPT
             !.at = IF reader.op = "record" THEN "embedding" ELSE "done",
             !.neighbours = IF reader.op = "record" THEN {r[1][2] : r \in reader.roster} ELSE @,
             !.proximity = IF inferred # {} THEN "inferred" ELSE @,
             !.links = @ \union {<<"similar", p[1], p[2]>> : p \in inferred}]
    /\ UNCHANGED <<db, changes>>

----------------------------------------------------------------------------
(* RecordContext                                                            *)

\* resolveDocument, before the transaction begins.
Resolve(span) ==
    /\ reader.at = "idle"
    /\ LET to == db.doc.observed + 1
       IN  reader' = IF ~db.doc.live THEN [NoRequest EXCEPT !.op = "record", !.at = "done"]
                     ELSE [NoRequest EXCEPT !.op = "record", !.at = "begin", !.record = db.doc,
                                            !.from = to - span, !.to = to]
    /\ UNCHANGED <<db, changes>>

\* anchor: the device of the record, or else its AP.  Without either there is
\* nothing to report but the embedding.
Anchor == IF reader.record.mac # 0 THEN "device" ELSE IF reader.record.ap # 0 THEN "ap" ELSE "none"

\* The transaction and its snapshot begin with the first statement.
Begin(n, e) ==
    /\ reader.at = "begin"
    /\ reader' = [reader EXCEPT !.snap = db, !.nodeLimit = n, !.edgeLimit = e,
                                !.at = IF Anchor = "none" THEN "embedding" ELSE "activity",
                                !.device = IF Anchor = "device" THEN reader.record.mac ELSE 0,
                                !.ap = IF Anchor = "ap" THEN reader.record.ap ELSE 0]
    /\ UNCHANGED <<db, changes>>

Bucket(w) == (w \div BucketSize) * BucketSize

\* loadRecordActivity: frames, sensors and APs of every bucket that has any.
LoadActivity ==
    /\ reader.at = "activity"
    /\ LET S == Scoped(TRUE)
           buckets == {[start |-> b,
                        frames |-> FrameSum({s \in S : Bucket(s.window) = b}),
                        sensors |-> SensorCount({s \in S : Bucket(s.window) = b})] :
                         b \in {Bucket(s.window) : s \in S}}
       IN  reader' = [reader EXCEPT !.at = IF buckets = {} THEN "roster" ELSE "totals",
                                    !.activity = buckets, !.left = buckets]
    /\ UNCHANGED <<db, changes>>

\* FramesPerMin in hundredths: round2 of the frames over the minutes.
Rate(frames) == (200 * frames + BucketMinutes) \div (2 * BucketMinutes)

\* Wrong: a later bucket of the same rate takes the peak over.
SumBucketLast ==
    /\ reader.at = "totals"
    /\ \E b \in reader.left :
         /\ \A c \in reader.left : b.start <= c.start
         /\ reader' = [reader EXCEPT
              !.at = IF reader.left = {b} THEN "roster" ELSE @, !.left = @ \ {b},
              !.peak = IF Rate(b.frames) >= @.rate THEN [rate |-> Rate(b.frames), start |-> {b.start}] ELSE @]
    /\ UNCHANGED <<db, changes>>

\* A round of the loop over the buckets, in their order: one whose rounded rate is above
\* all before it becomes the peak.
SumBucket ==
    /\ reader.at = "totals"
    /\ \E b \in reader.left :
         /\ \A c \in reader.left : b.start <= c.start
         /\ reader' = [reader EXCEPT
              !.at = IF reader.left = {b} THEN "roster" ELSE @, !.left = @ \ {b},
              !.peak = IF Rate(b.frames) > @.rate THEN [rate |-> Rate(b.frames), start |-> {b.start}] ELSE @]
    /\ UNCHANGED <<db, changes>>

\* totals.FrameCount
TotalFrames == SumOver(reader.activity, [b \in reader.activity |-> b.frames])

\* loadRecordNeighbours: the peers of a device; the ones with enough overlap
\* become links.
PeersOf(m) == {q \in Macs \ {m} : Shared(Scoped(TRUE), <<m, q>>) # {}}
PeerBefore(p, q) ==
    LET a == Shared(Scoped(TRUE), <<reader.device, p>>)
        b == Shared(Scoped(TRUE), <<reader.device, q>>)
    IN  \/ WindowCount(a) > WindowCount(b)
        \/ WindowCount(a) = WindowCount(b) /\ SensorCount(a) > SensorCount(b)
        \/ WindowCount(a) = WindowCount(b) /\ SensorCount(a) = SensorCount(b) /\ FrameSum(a) > FrameSum(b)
        \/ /\ WindowCount(a) = WindowCount(b) /\ SensorCount(a) = SensorCount(b) /\ FrameSum(a) = FrameSum(b)
           /\ p < q

LoadNeighbours ==
    /\ reader.at = "neighbours"
    /\ LET m == reader.device
           peers == FirstRows(PeersOf(m), NeighbourLimit, PeerBefore)
           near == {q \in peers : Qualifies(Shared(Scoped(TRUE), <<m, q>>))}
       IN  reader' = [reader EXCEPT
             !.at = "embedding", !.neighbours = peers,
             !.proximity = IF near # {} THEN "inferred" ELSE @,
             !.links = @ \union {<<"similar", m, q>> : q \in near}]
    /\ UNCHANGED <<db, changes>>

\* loadRecordEmbedding: the vectors that match the text of the live document.
LoadEmbedding ==
    /\ reader.at = "embedding"
    /\ reader' = [reader EXCEPT !.at = "done",
                    !.current = {v \in Seen.vectors : Seen.doc.live /\ v = Seen.doc.text}]
    /\ UNCHANGED <<db, changes>>

----------------------------------------------------------------------------
(* What others do to the rows                                               *)

Changed(new) ==
    /\ db' = new
    /\ changes' = IF reader.at = "idle" THEN changes ELSE changes + 1
    /\ reader.at \notin {"done", "failed"} /\ (reader.at # "idle" => changes < MaxChanges)
    /\ UNCHANGED reader

Ingest(s) ==
    /\ s \notin db.signals /\ Cardinality(db.signals) < MaxSummaries
    /\ Changed([db EXCEPT !.signals = @ \union {s}])
Expire(s) == s \in db.signals /\ reader.at # "idle" /\ Changed([db EXCEPT !.signals = @ \ {s}])
Reindex == reader.at # "idle" /\ db.doc.live /\ db.doc.text = 1 /\ Changed([db EXCEPT !.doc.text = 2])
Retire == reader.at # "idle" /\ db.doc.live /\ Changed([db EXCEPT !.doc.live = FALSE])
Embed == reader.at # "idle" /\ db.doc.text \notin db.vectors /\ Changed([db EXCEPT !.vectors = @ \union {db.doc.text}])

Next ==
    \/ \E m \in Macs \union {0}, a \in Aps \union {0}, r \in Ranges, n \in NodeLimits,
          e \in EdgeLimits, p \in PageSizes : Investigate(m, a, r, n, e, p)
    \/ \E span \in Spans : Resolve(span)
    \/ \E n \in NodeLimits, e \in EdgeLimits : Begin(n, e)
    \/ LoadRoster \/ LoadEvidence \/ LoadAssociations \/ LoadTyped \/ LoadSimilarity
    \/ LoadActivity \/ SumBucket \/ LoadNeighbours \/ LoadEmbedding \/ Fail
    \/ \E s \in Summaries : Ingest(s) \/ Expire(s)
    \/ Reindex \/ Retire \/ Embed

Spec == Init /\ [][Next]_vars

----------------------------------------------------------------------------

\* Types of the rows and of the answer.
TypeOK ==
    /\ db.signals \subseteq [mac : Macs, ap : Aps, sensor : Sensors, window : Windows]
    /\ db.vectors \subseteq {1, 2}
    /\ changes \in 0..MaxChanges
    /\ reader.at \in {"idle", "roster", "evidence", "association", "typed", "similarity", "begin",
                      "activity", "totals", "neighbours", "embedding", "done", "failed"}
    /\ reader.proximity \in {"unknown", "inferred"}

RosterFrames == SumOver(reader.roster, [r \in reader.roster |-> r[2]])
Answered(op) == reader.at = "done" /\ reader.op = op
Node(l) == {IF l[1] \in {"observed", "association"} THEN <<"ap", l[3]>> ELSE <<"device", l[3]>>,
            <<"device", l[2]>>}

\* The parts of an answer agree although they come from separate statements while
\* rows arrive and expire: every rostered pair has evidence behind it, every link of
\* an investigation ends in nodes of the answer, and the activity of a record's
\* anchor counts just the frames of the roster unless the roster was cut.
PartsAgree ==
    /\ Answered("investigate") =>
         /\ Cardinality(reader.roster) <= reader.total
         /\ \A l \in reader.links : Node(l) \subseteq reader.nodes
         /\ \A s \in reader.evidence : <<"ap", s.ap>> \in reader.nodes
                                       \/ Cardinality(reader.roster) = reader.nodeLimit
    /\ Answered("record") /\ reader.record.live /\ Anchor # "none" =>
         /\ RosterFrames <= TotalFrames
         /\ Cardinality(reader.roster) < reader.nodeLimit => RosterFrames = TotalFrames
         /\ reader.neighbours # {} => reader.activity # {}

\* Proximity is claimed just when a link shows it, and every such link rests on two
\* sensors and two windows the devices shared; an investigation that looked at all
\* pairs misses none that qualifies.
ProximityCorroborated ==
    reader.at = "done" =>
        LET similar == {l \in reader.links : l[1] = "similar"}
        IN  /\ reader.proximity = "inferred" <=> similar # {}
            /\ \A l \in similar :
                 \E s, t \in Shared(Scoped(FALSE), <<l[2], l[3]>>) :
                     \E u, v \in Shared(Scoped(FALSE), <<l[2], l[3]>>) :
                         s.sensor # t.sensor /\ u.window # v.window
            /\ Answered("investigate") /\ reader.proximity = "unknown"
                 /\ Cardinality(Overlapping) <= Remaining
               => \A p \in Overlapping : ~Qualifies(Shared(Scoped(FALSE), p))

\* The rate over time is exact: buckets do not overlap, begin at multiples of their
\* size, cover the window and nothing else.  The peak is the first of the buckets with the
\* highest rate, as rounded; no bucket has more frames than it by a hundredth a minute,
\* and there is none just when every bucket rounds to 0.00.
ActivityExact ==
    Answered("record") =>
        /\ \A b \in reader.activity :
             /\ b.start % BucketSize = 0 /\ b.start + BucketSize > reader.from /\ b.start < reader.to
             /\ b.frames = FrameSum({s \in Scoped(TRUE) :
                               s.window \in b.start..(b.start + BucketSize - 1)})
        /\ \A b, c \in reader.activity : b.start = c.start => b = c
        /\ Anchor # "none" => TotalFrames = FrameSum(Scoped(TRUE))
        /\ reader.peak.start = {} => \A b \in reader.activity : 200 * b.frames < BucketMinutes
        /\ reader.peak.start # {} =>
             \E p \in reader.activity :
                 /\ reader.peak = [rate |-> Rate(p.frames), start |-> {p.start}] /\ Rate(p.frames) > 0
                 /\ \A b \in reader.activity :
                      /\ 100 * (b.frames - p.frames) < BucketMinutes
                      /\ b.start < p.start => Rate(b.frames) < Rate(p.frames)

\* The comment of nodeIdentifiers: "Link queries never grow the node set, so the
\* 200-node budget stays authoritative."
NodeBudget ==
    reader.at = "done" => Cardinality(reader.nodes) <= reader.nodeLimit

====
