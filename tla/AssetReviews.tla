---- MODULE AssetReviews ----
(***************************************************************************)
(* What analysts decide about assets: annotations                           *)
(* (atheros-search/internal/assets/annotations.go) and merge decisions      *)
(* (merge.go).  Requests overlap; every SQL statement is one action at READ *)
(* COMMITTED.  SELECT ... FOR UPDATE locks the row it finds, and nothing    *)
(* when there is none.  A transaction may roll back between any two          *)
(* statements.  Definitions marked "wrong" are seeded defects no action uses. *)
(***************************************************************************)
EXTENDS Integers, FiniteSets

CONSTANTS
    Reviewers,   \* requests at work, one at a time
    Assets,      \* annotated assets
    Candidates,  \* merge candidates
    Roles,       \* values a role may have, besides none
    MaxRevs      \* bound: revisions of an annotation

VARIABLES
    auditKey,    \* does the audit table refuse a second row of one revision
    annotations, \* committed rows; revision 0 is no row
    audit,       \* committed audit rows: asset, revision, actor
    candidateStatus, \* committed status of a candidate; "none" is no row
    decisions,   \* committed decisions of a candidate, with the actor
    locks,       \* who holds the lock of an asset's or a candidate's row
    work         \* what each request wants, has read and where it stands

vars == <<auditKey, annotations, audit, candidateStatus, decisions, locks, work>>
stored == <<annotations, audit, candidateStatus, decisions>>

None == "none"
Empty == [role |-> None, pinned |-> FALSE, revision |-> 0, by |-> None]
Idle == [op |-> "idle", at |-> None, row |-> None, new |-> Empty, expected |-> 0, decision |-> None]
Rows == Assets \union Candidates
Decisions == {"merge", "not_match", "needs_more_data"}

Init ==
    /\ auditKey \in BOOLEAN
    /\ annotations = [a \in Assets |-> Empty] /\ audit = {}
    /\ candidateStatus = [c \in Candidates |-> None]
    /\ decisions = [c \in Candidates |-> {}]
    /\ locks = [x \in Rows |-> None]
    /\ work = [r \in Reviewers |-> Idle]

At(r, op, here) == work[r].op = op /\ work[r].at = here
Goto(r, there) == work' = [work EXCEPT ![r].at = there]

\* Commit and rollback release the locks of the request.
Release(r) ==
    /\ locks' = [x \in Rows |-> IF locks[x] = r THEN None ELSE locks[x]]
    /\ work' = [work EXCEPT ![r] = Idle]
    /\ UNCHANGED auditKey
Rollback(r) == Release(r) /\ UNCHANGED stored

----------------------------------------------------------------------------
(* UpdateAssetAnnotation                                                    *)

\* The fields a valid update names; a field it leaves out keeps its value.
Updates == [role : Roles \union {None, "keep"}, pinned : {"keep", "yes", "no"}]
          \ {[role |-> "keep", pinned |-> "keep"]}

Annotate(r, a, u, e) ==
    /\ work[r] = Idle
    /\ work' = [work EXCEPT ![r] = [op |-> "annotate", at |-> "select", row |-> a, new |-> u,
                                    expected |-> e, decision |-> None]]
    /\ UNCHANGED <<auditKey, stored, locks>>

Merged(r, u) ==
    LET now == annotations[work[r].row]
    IN  [role |-> IF u.role = "keep" THEN now.role ELSE u.role,
         pinned |-> IF u.pinned = "keep" THEN now.pinned ELSE u.pinned = "yes",
         revision |-> now.revision + 1, by |-> r]

\* Wrong: the row is read without FOR UPDATE.
SelectAnnotationUnlocked(r) ==
    LET row == annotations[work[r].row]
        new == Merged(r, work[r].new)
    IN  /\ At(r, "annotate", "select") /\ row.revision < MaxRevs
        /\ IF row.revision # work[r].expected \/ (new.role = None /\ ~new.pinned)
           THEN Rollback(r)
           ELSE /\ work' = [work EXCEPT ![r].at = "write", ![r].new = new]
                /\ UNCHANGED <<auditKey, stored, locks>>

\* The SELECT, the revision check and the merge of the fields: nothing is locked
\* when there is no row yet.
SelectAnnotation(r) ==
    LET row == annotations[work[r].row]
        new == Merged(r, work[r].new)
    IN  /\ At(r, "annotate", "select") /\ row.revision < MaxRevs
        /\ row # Empty => locks[work[r].row] = None
        /\ IF row.revision # work[r].expected \/ (new.role = None /\ ~new.pinned)
           THEN Rollback(r)
           ELSE /\ work' = [work EXCEPT ![r].at = "write", ![r].new = new]
                /\ locks' = IF row = Empty THEN locks ELSE [locks EXCEPT ![work[r].row] = r]
                /\ UNCHANGED <<auditKey, stored>>

\* INSERT ... ON CONFLICT DO UPDATE waits for whoever has written or locked the
\* row, then takes every column from EXCLUDED.
WriteAnnotation(r) ==
    /\ At(r, "annotate", "write") /\ locks[work[r].row] \in {None, r}
    /\ locks' = [locks EXCEPT ![work[r].row] = r]
    /\ Goto(r, "audit")
    /\ UNCHANGED <<auditKey, stored>>

\* The audit insert and the commit that publishes both rows.
AuditRow(r) == [asset |-> work[r].row, revision |-> work[r].new.revision, by |-> r]
AuditTaken(r) ==
    \E x \in audit : x.asset = work[r].row /\ x.revision = work[r].new.revision

CommitAnnotation(r) ==
    /\ At(r, "annotate", "audit")
    /\ IF auditKey /\ AuditTaken(r)
       THEN Rollback(r)
       ELSE /\ annotations' = [annotations EXCEPT ![work[r].row] = work[r].new]
            /\ audit' = audit \union {AuditRow(r)}
            /\ Release(r)
            /\ UNCHANGED <<candidateStatus, decisions>>

----------------------------------------------------------------------------
(* MergeDecision                                                            *)

\* The pipeline proposes a pair of assets.
Propose(c) ==
    /\ candidateStatus[c] = None
    /\ candidateStatus' = [candidateStatus EXCEPT ![c] = "pending"]
    /\ UNCHANGED <<auditKey, annotations, audit, decisions, locks, work>>

Decide(r, c, d) ==
    /\ work[r] = Idle
    /\ work' = [work EXCEPT ![r] = [op |-> "decide", at |-> "select", row |-> c, new |-> Empty,
                                    expected |-> 0, decision |-> d]]
    /\ UNCHANGED <<auditKey, stored, locks>>

\* Wrong: the candidate is read without FOR UPDATE.
SelectCandidateUnlocked(r) ==
    /\ At(r, "decide", "select")
    /\ IF candidateStatus[work[r].row] = None
       THEN Rollback(r)
       ELSE Goto(r, "existing") /\ UNCHANGED <<auditKey, stored, locks>>

\* No candidate: not found.
SelectCandidate(r) ==
    LET c == work[r].row
    IN  /\ At(r, "decide", "select") /\ locks[c] = None
        /\ IF candidateStatus[c] = None
           THEN Rollback(r)
           ELSE /\ locks' = [locks EXCEPT ![c] = r]
                /\ Goto(r, "existing") /\ UNCHANGED <<auditKey, stored>>

\* Already decided: conflict.
CheckDecision(r) ==
    /\ At(r, "decide", "existing")
    /\ IF decisions[work[r].row] # {}
       THEN Rollback(r)
       ELSE Goto(r, "commit") /\ UNCHANGED <<auditKey, stored, locks>>

NewStatus(d) ==
    CASE d = "merge" -> "approved"
      [] d = "not_match" -> "rejected"
      [] d = "needs_more_data" -> "deferred"

CommitDecision(r) ==
    LET c == work[r].row
    IN  /\ At(r, "decide", "commit") /\ locks[c] \in {None, r}
        /\ decisions' = [decisions EXCEPT ![c] =
                           @ \union {[decision |-> work[r].decision, by |-> r]}]
        /\ candidateStatus' = [candidateStatus EXCEPT ![c] = NewStatus(work[r].decision)]
        /\ Release(r)
        /\ UNCHANGED <<annotations, audit>>

----------------------------------------------------------------------------

Fail(r) == work[r] # Idle /\ Rollback(r)

Next ==
    \/ \E r \in Reviewers :
        \/ \E a \in Assets, u \in Updates, e \in 0..(MaxRevs - 1) : Annotate(r, a, u, e)
        \/ \E c \in Candidates, d \in Decisions : Decide(r, c, d)
        \/ SelectAnnotation(r) \/ WriteAnnotation(r) \/ CommitAnnotation(r)
        \/ SelectCandidate(r) \/ CheckDecision(r) \/ CommitDecision(r)
        \/ Fail(r)
    \/ \E c \in Candidates : Propose(c)

Spec == Init /\ [][Next]_vars

----------------------------------------------------------------------------

\* Types of the rows and of the requests.
TypeOK ==
    /\ annotations \in [Assets -> [role : Roles \union {None}, pinned : BOOLEAN,
                                   revision : 0..MaxRevs, by : Reviewers \union {None}]]
    /\ candidateStatus \in [Candidates -> {None, "pending", "approved", "rejected", "deferred"}]
    /\ locks \in [Rows -> Reviewers \union {None}]
    /\ \A r \in Reviewers : work[r].at \in {None, "select", "write", "audit", "existing", "commit"}

\* No lost update, and the audit trail accounts for it: a committed annotation
\* replaces the revision its author saw, and the row in force is the last one
\* audited under its revision.  Two first writes both see no row and lock nothing;
\* for them it rests on the key of the audit table alone.
AnnotationExpected ==
    \A a \in Assets : annotations'[a] # annotations[a] =>
        \E r \in Reviewers :
           /\ work[r].op = "annotate" /\ work[r].row = a /\ work'[r] = Idle
           /\ annotations'[a].by = r
           /\ \/ work[r].expected = annotations[a].revision
              \/ ~auditKey /\ work[r].expected = 0 /\ annotations'[a].revision = 1

\* "Decisions are final": one decision per candidate whoever decides at the same
\* time, and the candidate's status is the one that decision stands for.
DecisionsFinal ==
    \A c \in Candidates :
        /\ Cardinality(decisions[c]) <= 1
        /\ \A d \in decisions[c] : candidateStatus[c] = NewStatus(d.decision)

====
