---- MODULE SavedViews ----
(***************************************************************************)
(* Personal saved views (atheros-search/internal/savedviews/savedviews.go   *)
(* and its handlers in transport/httpapi/savedviews.go).  Requests overlap; *)
(* every SQL statement is one action, run at READ COMMITTED: it sees the    *)
(* committed rows and waits for row locks, the advisory lock and unique     *)
(* keys other transactions hold.  Names are compared without case, so a     *)
(* name here is its lower-case form.  A transaction may roll back between   *)
(* any two statements.  Definitions marked "wrong" are seeded defects no    *)
(* action uses.                                                             *)
(***************************************************************************)
EXTENDS Integers, FiniteSets

CONSTANTS
    Requests,     \* handlers at work, one request at a time
    Owners,       \* signed-in subjects
    Names,        \* lower-case names
    MaxPerUser,   \* SavedViewMaxPerUser
    MaxIds,       \* bound: views created in a behaviour
    MaxRevision   \* bound: revisions of a view

VARIABLES
    views,     \* committed rows by id; a row that is not there is NoView
    created,   \* ids given out so far
    limitLock, \* who holds the advisory lock of an owner
    rowLock,   \* who holds the row lock of a view
    req        \* what each request wants and where it stands

vars == <<views, created, limitLock, rowLock, req>>

Ids == 1..MaxIds
Nobody == "nobody"
NoView == [owner |-> Nobody, name |-> "none", revision |-> 0]
Idle == [op |-> "idle", at |-> "none", owner |-> Nobody, id |-> 0, name |-> "none", expected |-> 0]

Live == {i \in Ids : views[i] # NoView}
OwnedBy(o) == {i \in Live : views[i].owner = o}

Init ==
    /\ views = [i \in Ids |-> NoView] /\ created = 0
    /\ limitLock = [o \in Owners |-> Nobody]
    /\ rowLock = [i \in Ids |-> Nobody]
    /\ req = [r \in Requests |-> Idle]

At(r, op, here) == req[r].op = op /\ req[r].at = here
Goto(r, there) == req' = [req EXCEPT ![r].at = there]

\* The request is over: commit and rollback release what it holds.
Release(r) ==
    /\ limitLock' = [o \in Owners |-> IF limitLock[o] = r THEN Nobody ELSE limitLock[o]]
    /\ rowLock' = [i \in Ids |-> IF rowLock[i] = r THEN Nobody ELSE rowLock[i]]
    /\ req' = [req EXCEPT ![r] = Idle]
Rollback(r) == Release(r) /\ UNCHANGED <<views, created>>

\* Between its write and its commit a request holds the key of its new name, and
\* of the old name of the row it changes.
Keys(r) ==
    {req[r].name} \union (IF req[r].op = "update" THEN {views[req[r].id].name} ELSE {})
KeyHeld(r) ==
    \E q \in Requests \ {r} :
        req[q].at = "commit" /\ req[q].owner = req[r].owner /\ req[r].name \in Keys(q)

\* requireSavedViewNameFree, and the unique index the last write relies on.
NameTaken(r) == \E i \in OwnedBy(req[r].owner) \ {req[r].id} : views[i].name = req[r].name

----------------------------------------------------------------------------
(* CreateSavedView                                                          *)

\* The owner comes from the token, name and state have been validated.
Create(r, o, n) ==
    /\ req[r] = Idle
    /\ req' = [req EXCEPT ![r] = [op |-> "create", at |-> "lock", owner |-> o, id |-> 0,
                                  name |-> n, expected |-> 0]]
    /\ UNCHANGED <<views, created, limitLock, rowLock>>

\* Wrong: creates of one owner are not serialised.
LockLimitNot(r) ==
    /\ At(r, "create", "lock")
    /\ Goto(r, "count")
    /\ UNCHANGED <<views, created, limitLock, rowLock>>

LockLimit(r) ==
    /\ At(r, "create", "lock") /\ limitLock[req[r].owner] = Nobody
    /\ limitLock' = [limitLock EXCEPT ![req[r].owner] = r]
    /\ Goto(r, "count")
    /\ UNCHANGED <<views, created, rowLock>>

CountViews(r) ==
    /\ At(r, "create", "count")
    /\ IF Cardinality(OwnedBy(req[r].owner)) >= MaxPerUser
       THEN Rollback(r)
       ELSE Goto(r, "name") /\ UNCHANGED <<views, created, limitLock, rowLock>>

\* Create and Update: is the name free in what is committed now?
CheckName(r) ==
    /\ req[r].at = "name"
    /\ IF NameTaken(r)
       THEN Rollback(r)
       ELSE Goto(r, "write") /\ UNCHANGED <<views, created, limitLock, rowLock>>

\* The INSERT or UPDATE: it waits for keys, and fails if the name has been taken.
Write(r) ==
    /\ req[r].at = "write" /\ ~KeyHeld(r)
    /\ IF NameTaken(r)
       THEN Rollback(r)
       ELSE Goto(r, "commit") /\ UNCHANGED <<views, created, limitLock, rowLock>>

CommitCreate(r) ==
    /\ At(r, "create", "commit") /\ created < MaxIds
    /\ created' = created + 1
    /\ views' = [views EXCEPT ![created + 1] =
                   [owner |-> req[r].owner, name |-> req[r].name, revision |-> 1]]
    /\ Release(r)

----------------------------------------------------------------------------
(* UpdateSavedView                                                          *)

Update(r, o, i, n, e) ==
    /\ req[r] = Idle
    /\ req' = [req EXCEPT ![r] = [op |-> "update", at |-> "lock", owner |-> o, id |-> i,
                                  name |-> n, expected |-> e]]
    /\ UNCHANGED <<views, created, limitLock, rowLock>>

\* What the SELECT of the row decides: not found, stale, or on with the rename.
Selected(r) ==
    LET v == views[req[r].id]
    IN  IF v.owner # req[r].owner \/ v.revision # req[r].expected THEN "reject"
        ELSE IF v.name # req[r].name THEN "name" ELSE "write"

SelectView(r) ==
    /\ At(r, "update", "lock") /\ rowLock[req[r].id] = Nobody
    /\ IF Selected(r) = "reject"
       THEN Rollback(r)
       ELSE /\ Goto(r, Selected(r))
            /\ rowLock' = [rowLock EXCEPT ![req[r].id] = r]
            /\ UNCHANGED <<views, created, limitLock>>

CommitUpdate(r) ==
    /\ At(r, "update", "commit") /\ views[req[r].id].revision < MaxRevision
    /\ views' = [views EXCEPT ![req[r].id].name = req[r].name, ![req[r].id].revision = @ + 1]
    /\ Release(r)
    /\ UNCHANGED created

----------------------------------------------------------------------------

\* Any statement may fail, or the client go away: the transaction is rolled back.
Fail(r) == req[r] # Idle /\ Rollback(r)

\* DeleteSavedView: one statement, which waits for the row's lock.
Delete(o, i) ==
    /\ i \in OwnedBy(o) /\ rowLock[i] = Nobody
    /\ views' = [views EXCEPT ![i] = NoView]
    /\ UNCHANGED <<created, limitLock, rowLock, req>>

Step(r) ==
    \/ LockLimit(r) \/ CountViews(r) \/ CheckName(r) \/ Write(r) \/ CommitCreate(r)
    \/ SelectView(r) \/ CommitUpdate(r)

Next ==
    \/ \E r \in Requests :
        \/ \E o \in Owners, n \in Names : Create(r, o, n)
        \/ \E o \in Owners, i \in 1..created, n \in Names, e \in 1..MaxRevision :
             Update(r, o, i, n, e)
        \/ Step(r) \/ Fail(r)
    \/ \E o \in Owners, i \in Ids : Delete(o, i)

Spec == Init /\ [][Next]_vars

----------------------------------------------------------------------------

\* Types of the rows, the locks and the requests.
TypeOK ==
    /\ views \in [Ids -> [owner : Owners \union {Nobody}, name : Names \union {"none"},
                          revision : 0..MaxRevision]]
    /\ created \in 0..MaxIds
    /\ limitLock \in [Owners -> Requests \union {Nobody}]
    /\ rowLock \in [Ids -> Requests \union {Nobody}]
    /\ \A r \in Requests :
         /\ req[r].op \in {"idle", "create", "update"}
         /\ req[r].at \in {"none", "lock", "count", "name", "write", "commit"}

\* The limit of CreateSavedView holds although the count and the insert are two
\* statements ("two concurrent requests can both observe a count below the
\* limit"), and so does the uniqueness of names, which creates and renames check
\* under different locks.
WithinLimit ==
    \A o \in Owners :
        /\ Cardinality(OwnedBy(o)) <= MaxPerUser
        /\ \A i, j \in OwnedBy(o) : views[i].name = views[j].name => i = j

\* No lost update: what a committed update replaces is the revision its client
\* expected, however the updates of one view overlap; and only its owner's
\* requests change a view.
UpdateExpected ==
    \A i \in Ids : views[i] # NoView /\ views'[i] # NoView /\ views'[i] # views[i] =>
        \E r \in Requests :
           /\ req[r].op = "update" /\ req[r].id = i /\ req'[r] = Idle
           /\ req[r].expected = views[i].revision /\ req[r].owner = views[i].owner
           /\ views'[i].revision = views[i].revision + 1

====
