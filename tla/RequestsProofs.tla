---- MODULE RequestsProofs ----
(***************************************************************************)
(* Proofs about the request handlers, for any number of requests, keys,      *)
(* views, assets and candidates: keys are recent and fetched apart, saved     *)
(* views keep their limit and their names, no update is lost and decisions    *)
(* are final.                                                               *)
(***************************************************************************)
EXTENDS MCRequests, FiniteSets, FiniteSetTheorems, TLAPS

\* A request that is over, and one under way, which knows its key id, its token
\* and its time.
Over == {Keys!Done(d) : d \in {"idle", "forbidden", "rejected"}}
UnderWay ==
    [at : {"lookup", "miss", "refresh", "fetch", "store", "reread", "handled"},
     kid : KeyIds, token : Keys!Tokens, now : 1..clock, got : SUBSET KeyIds]
ClientsTyped == client \in [Clients -> Over \union UnderWay]

\* Cached keys were all served by the last fetch, and are fresh from then.
CacheServed ==
    /\ served \in [KeyIds -> 0..clock] /\ lastRefresh <= clock
    /\ \A k \in keys : served[k] = lastRefresh /\ lastRefresh > 0 /\ expiry = lastRefresh + Lifetime
    /\ IsFiniteSet({k \in KeyIds : missing[k] # 0})

\* Who reads the cache again does so within the lifetime of what is in it, and
\* who fetches is alone and a cooldown away from the last fetch.
RefreshSerial ==
    \A c \in Clients :
        /\ client[c].at = "reread" => client[c].now < lastRefresh + Lifetime
        /\ client[c].at \in {"fetch", "store"} => refreshing = c /\ clock - lastRefresh >= Cooldown

KeysInv ==
    /\ Keys!TypeOK /\ ClientsTyped /\ CacheServed /\ RefreshSerial /\ Keys!HandledKeyRecent

----------------------------------------------------------------------------

\* What a request for a view knows.
ViewRequests ==
    [op : {"idle", "create", "update"}, at : {"none", "lock", "count", "name", "write", "commit"},
     owner : Owners \union {"nobody"}, id : 0..MaxIds, name : Names \union {"none"},
     expected : 0..MaxRevision]
ViewRequestTyped(r) ==
    \/ req[r] = Views!Idle
    \/ /\ req[r].op = "create" /\ req[r].at # "none" /\ req[r].id = 0
       /\ req[r].owner \in Owners /\ req[r].name \in Names
    \/ /\ req[r].op = "update" /\ req[r].at \in {"lock", "name", "write", "commit"}
       /\ req[r].id \in 1..created /\ req[r].expected >= 1
       /\ req[r].owner \in Owners /\ req[r].name \in Names

\* A create past its first step holds its owner's lock, and past the count there
\* is room; an update past its first step holds its row at the expected revision.
ViewLocked(r) ==
    /\ req[r].op = "create" /\ req[r].at # "lock" => limitLock[req[r].owner] = r
    /\ req[r].op = "create" /\ req[r].at \in {"name", "write", "commit"} =>
          Cardinality(Views!OwnedBy(req[r].owner)) < MaxPerUser
    /\ req[r].op = "update" /\ req[r].at # "lock" =>
          /\ rowLock[req[r].id] = r
          /\ views[req[r].id].owner = req[r].owner /\ views[req[r].id].revision = req[r].expected

\* A written name is free among the committed ones, and no other request that is
\* about to commit for the same owner has written it.
NameReserved(r) ==
    req[r].at = "commit" =>
        /\ ~Views!NameTaken(r)
        /\ \A q \in Requests \ {r} :
              req[q].at = "commit" /\ req[q].owner = req[r].owner => req[q].name # req[r].name

\* Ids not yet given out have no view.
ViewIds ==
    \A i \in Views!Ids : /\ i > created => views[i] = Views!NoView
                         /\ views[i] = Views!NoView \/ views[i].owner \in Owners

ViewsInv ==
    /\ Views!TypeOK /\ ViewIds /\ Views!WithinLimit
    /\ req \in [Requests -> ViewRequests]
    /\ \A r \in Requests : ViewRequestTyped(r) /\ ViewLocked(r) /\ NameReserved(r)

----------------------------------------------------------------------------

\* What a review knows: an annotation past its SELECT has its merged fields, a
\* revision after the expected one; a decision is about a candidate.
ReviewTyped(r) ==
    \/ work[r] = Reviews!Idle
    \/ /\ work[r].op = "annotate" /\ work[r].at = "select" /\ work[r].row \in Assets
       /\ work[r].new \in Reviews!Updates /\ work[r].expected \in 0..(MaxRevs - 1)
    \/ /\ work[r].op = "annotate" /\ work[r].at \in {"write", "audit"} /\ work[r].row \in Assets
       /\ work[r].expected \in 0..(MaxRevs - 1)
       /\ work[r].new \in [role : Roles \union {"none"}, pinned : BOOLEAN,
                           revision : {work[r].expected + 1}, by : {r}]
    \/ /\ work[r].op = "decide" /\ work[r].at \in {"select", "existing", "commit"}
       /\ work[r].row \in MergePairs /\ work[r].decision \in Reviews!Decisions

\* Past its SELECT an update of a row that exists holds it at the expected
\* revision, one that inserts holds it from its write on; a decision holds its
\* candidate.
ReviewLocked(r) ==
    /\ work[r].op = "annotate" /\ work[r].at = "write" /\ work[r].expected > 0 =>
          locks[work[r].row] = r
    /\ work[r].op = "annotate" /\ work[r].at = "audit" => locks[work[r].row] = r
    /\ work[r].op = "annotate" /\ work[r].at \in {"write", "audit"} /\ work[r].expected > 0 =>
          annotations[work[r].row].revision = work[r].expected
    /\ work[r].op = "decide" /\ work[r].at \in {"existing", "commit"} =>
          locks[work[r].row] = r /\ candidateStatus[work[r].row] # "none"
    /\ work[r].op = "decide" /\ work[r].at = "commit" => decisions[work[r].row] = {}

\* The first revision of every annotation is in the audit table.
FirstAudited ==
    \A a \in Assets :
        /\ annotations[a].revision = 0 => annotations[a] = Reviews!Empty
        /\ annotations[a].revision > 0 => \E x \in audit : x.asset = a /\ x.revision = 1

\* A candidate has no decision, or one that its status stands for.
DecidedOnce ==
    \A c \in MergePairs :
        \/ decisions[c] = {}
        \/ \E d \in [decision : Reviews!Decisions, by : Reviewers] :
              decisions[c] = {d} /\ candidateStatus[c] = Reviews!NewStatus(d.decision)

ReviewsInv ==
    /\ Reviews!TypeOK /\ DOMAIN work = Reviewers /\ DOMAIN decisions = MergePairs
    /\ \A r \in Reviewers : ReviewTyped(r) /\ ReviewLocked(r)
    /\ FirstAudited /\ DecidedOnce

RequestsInv ==
    /\ part = "keys" => KeysInv
    /\ part = "views" => ViewsInv
    /\ part = "reviews" => ReviewsInv

----------------------------------------------------------------------------
(* The keys of the identity provider                                        *)

\* KeyStore counts with the Cardinality of its own instance.
LEMMA KeysCardinality == \A S : Keys!Cardinality(S) = Cardinality(S)
<1> TAKE S
<1> QED
  BY DEF Keys!Cardinality, Cardinality

LEMMA KeysInit == Keys!Init => KeysInv
<1> SUFFICES ASSUME Keys!Init PROVE KeysInv
  OBVIOUS
<1> USE KeyAssumption
<1>1. {k \in KeyIds : missing[k] # 0} = {}
  BY DEF Keys!Init
<1>2. Cardinality({k \in KeyIds : missing[k] # 0}) = 0 /\ IsFiniteSet({k \in KeyIds : missing[k] # 0})
  BY <1>1, FS_EmptySet
<1>3. clock = Cooldown + 1 /\ clock \in Nat
  BY DEF Keys!Init, Keys!Start
<1>4. \A c \in Clients : client[c] = Keys!Done("idle") /\ client[c].at = "idle"
  BY DEF Keys!Init, Keys!Done
<1>5. Keys!TypeOK
  BY <1>2, <1>3, <1>4, KeysCardinality DEF Keys!Init, Keys!TypeOK, Keys!Start, Keys!Nobody
<1>6. ClientsTyped
  BY DEF Keys!Init, ClientsTyped, Over
<1>7. CacheServed
  BY <1>2, <1>3 DEF Keys!Init, CacheServed
<1>8. RefreshSerial /\ Keys!HandledKeyRecent
  BY <1>4 DEF RefreshSerial, Keys!HandledKeyRecent
<1> QED
  BY <1>5, <1>6, <1>7, <1>8 DEF KeysInv

\* Where Goto leads: the request keeps what it knows, or leaves nothing behind.
LEMMA KeysGoto ==
    ASSUME KeysInv, UNCHANGED clock, NEW c \in Clients, client[c].at \in {"lookup", "miss", "refresh", "fetch", "store", "reread"},
           NEW there \in {"miss", "refresh", "fetch", "reread", "handled", "rejected", "forbidden"},
           Keys!Goto(c, there)
    PROVE  /\ ClientsTyped' /\ client'[c].at = there
           /\ client[c] \in UnderWay
           /\ \A d \in Clients \ {c} : client'[d] = client[d]
           /\ there \notin {"rejected", "forbidden"} =>
                 /\ client'[c].kid = client[c].kid /\ client'[c].token = client[c].token
                 /\ client'[c].now = client[c].now
<1>0. client \in [Clients -> Over \union UnderWay]
  BY DEF KeysInv, ClientsTyped
<1>1. client[c] \in UnderWay
  BY <1>0 DEF Over, Keys!Done
<1>2. UnderWay' = UnderWay /\ Over' = Over
  BY DEF UnderWay, Over
<1>3. CASE there \in {"rejected", "forbidden"}
  <2>1. client' = [client EXCEPT ![c] = Keys!Done(there)]
    BY <1>3 DEF Keys!Goto
  <2>2. Keys!Done(there) \in Over /\ Keys!Done(there).at = there
    BY <1>3 DEF Over, Keys!Done
  <2> QED
    BY <1>0, <1>1, <1>2, <1>3, <2>1, <2>2 DEF ClientsTyped
<1>4. CASE there \notin {"rejected", "forbidden"}
  <2>1. client' = [client EXCEPT ![c] = [client[c] EXCEPT !.at = there, !.got = {}]]
    BY <1>4 DEF Keys!Goto
  <2>2. [client[c] EXCEPT !.at = there, !.got = {}] \in UnderWay
    BY <1>1, <1>4 DEF UnderWay
  <2>3. client'[c] = [client[c] EXCEPT !.at = there, !.got = {}] /\ \A d \in Clients \ {c} : client'[d] = client[d]
    BY <1>0, <2>1
  <2>4. ClientsTyped'
    BY <1>0, <1>2, <2>1, <2>2 DEF ClientsTyped
  <2>5. /\ client'[c].at = there /\ client'[c].kid = client[c].kid /\ client'[c].token = client[c].token
        /\ client'[c].now = client[c].now
    BY <1>1, <2>3 DEF UnderWay
  <2> QED
    BY <1>1, <2>3, <2>4, <2>5
<1> QED
  BY <1>3, <1>4

\* What every request knows of the time and of its token.
LEMMA KeysKnown ==
    ASSUME KeysInv, NEW c \in Clients, client[c].at \in {"lookup", "miss", "refresh", "fetch", "store", "reread", "handled"}
    PROVE  /\ client[c].kid \in KeyIds /\ client[c].token \in Keys!Tokens /\ client[c].now \in 1..clock
           /\ client[c].got \subseteq KeyIds
<1>1. client[c] \in Over \union UnderWay
  BY DEF KeysInv, ClientsTyped
<1>2. client[c] \in UnderWay
  BY <1>1 DEF Over, Keys!Done
<1> QED
  BY <1>2 DEF UnderWay

\* Numbers of the cache.
LEMMA KeysNumbers ==
    ASSUME KeysInv
    PROVE  /\ clock \in Nat /\ clock > 0 /\ lastRefresh \in Nat /\ expiry \in Nat /\ lastRefresh <= clock
           /\ Cooldown \in Nat /\ Lifetime \in Nat /\ Horizon \in Nat /\ Lifetime > 0 /\ Cooldown <= Lifetime
           /\ \A k \in KeyIds : served[k] \in Nat /\ served[k] <= clock /\ missing[k] \in Nat
  BY KeyAssumption DEF KeysInv, Keys!TypeOK, CacheServed, Keys!Start

\* A step that leaves the cache and the clock alone and moves one request keeps the
\* invariant if the request may be where it goes.
LEMMA KeysMove ==
    ASSUME KeysInv, UNCHANGED <<clock, keys, expiry, lastRefresh, missing, served>>,
           published' = published, refreshing' \in Clients \union {"nobody"},
           NEW c \in Clients, client[c].at \in {"lookup", "miss", "refresh", "fetch", "store", "reread"},
           NEW there \in {"miss", "refresh", "fetch", "reread", "handled", "rejected", "forbidden"},
           Keys!Goto(c, there),
           there = "reread" => client[c].now < lastRefresh + Lifetime,
           there = "fetch" => refreshing' = c /\ clock - lastRefresh >= Cooldown,
           there = "handled" =>
               /\ client[c].token.sound
               /\ client[c].token.roles \intersect client[c].token.allowed # {}
               /\ served[client[c].kid] # 0 /\ client[c].now < served[client[c].kid] + Lifetime,
           \A d \in Clients \ {c} : client[d].at \in {"fetch", "store"} => refreshing' = d
    PROVE  KeysInv'
<1>1. /\ ClientsTyped' /\ client'[c].at = there
      /\ \A d \in Clients \ {c} : client'[d] = client[d]
      /\ there \notin {"rejected", "forbidden"} =>
            /\ client'[c].kid = client[c].kid /\ client'[c].token = client[c].token
            /\ client'[c].now = client[c].now
  BY KeysGoto
<1>2. Keys!TypeOK'
  BY <1>1 DEF KeysInv, Keys!TypeOK, Keys!Start, Keys!Nobody
<1>3. CacheServed'
  BY DEF KeysInv, CacheServed
<1>4. RefreshSerial'
  BY <1>1 DEF KeysInv, RefreshSerial
<1>5. Keys!HandledKeyRecent'
  BY <1>1 DEF KeysInv, Keys!HandledKeyRecent
<1> QED
  BY <1>1, <1>2, <1>3, <1>4, <1>5 DEF KeysInv

\* A cached key lets a request through that came within its lifetime.
LEMMA KeysDecided ==
    ASSUME KeysInv, NEW c \in Clients, client[c].at \in {"lookup", "reread"},
           client[c].kid \in keys, client[c].now < lastRefresh + Lifetime
    PROVE  /\ Keys!Decided(c) \in {"rejected", "forbidden", "handled"}
           /\ Keys!Decided(c) = "handled" =>
               /\ client[c].token.sound
               /\ client[c].token.roles \intersect client[c].token.allowed # {}
               /\ served[client[c].kid] # 0 /\ client[c].now < served[client[c].kid] + Lifetime
<1>1. served[client[c].kid] = lastRefresh /\ lastRefresh > 0
  BY DEF KeysInv, CacheServed
<1>2. lastRefresh \in Nat
  BY KeysNumbers
<1> QED
  BY <1>1, <1>2 DEF Keys!Decided

LEMMA KeysArrive ==
    ASSUME KeysInv, NEW c \in Clients, NEW k \in KeyIds, NEW t \in Keys!Tokens, Keys!Arrive(c, k, t)
    PROVE  KeysInv'
<1> DEFINE new == [at |-> "lookup", kid |-> k, token |-> t, now |-> clock, got |-> {}]
<1>0. UNCHANGED <<clock, published, keys, expiry, lastRefresh, missing, refreshing, served>>
  BY DEF Keys!Arrive, Keys!store
<1>1. client \in [Clients -> Over \union UnderWay] /\ client' = [client EXCEPT ![c] = new]
  BY DEF Keys!Arrive, KeysInv, ClientsTyped
<1>2. new \in UnderWay
  <2>1. clock \in 1..clock
    BY KeysNumbers
  <2> QED
    BY <2>1 DEF UnderWay
<1>3. ClientsTyped'
  BY <1>0, <1>1, <1>2 DEF ClientsTyped, Over, UnderWay
<1>4. client'[c].at = "lookup" /\ \A d \in Clients \ {c} : client'[d] = client[d]
  BY <1>1
<1>5. Keys!TypeOK' /\ CacheServed'
  BY <1>0, <1>4 DEF KeysInv, Keys!TypeOK, Keys!Start, CacheServed
<1>6. RefreshSerial' /\ Keys!HandledKeyRecent'
  BY <1>0, <1>4 DEF KeysInv, RefreshSerial, Keys!HandledKeyRecent
<1> QED
  BY <1>3, <1>5, <1>6 DEF KeysInv

LEMMA KeysLookUp ==
    ASSUME KeysInv, NEW c \in Clients, Keys!LookUp(c)
    PROVE  KeysInv'
<1>0. /\ UNCHANGED <<clock, keys, expiry, lastRefresh, missing, served>>
      /\ published' = published /\ refreshing' = refreshing /\ client[c].at = "lookup"
  BY DEF Keys!LookUp, Keys!store
<1>1. refreshing' \in Clients \union {"nobody"} /\ \A d \in Clients \ {c} : client[d].at \in {"fetch", "store"} => refreshing' = d
  BY <1>0 DEF KeysInv, Keys!TypeOK, Keys!Nobody, RefreshSerial
<1>2. CASE Keys!Lookup(c) = "decide"
  <2>1. Keys!Goto(c, Keys!Decided(c))
    BY <1>2 DEF Keys!LookUp
  <2>2. client[c].kid \in keys /\ client[c].now < lastRefresh + Lifetime
    <3>1. client[c].kid \in keys /\ (client[c].now < expiry \/ client[c].now - lastRefresh < Cooldown)
      BY <1>2 DEF Keys!Lookup
    <3>2. expiry = lastRefresh + Lifetime
      BY <3>1 DEF KeysInv, CacheServed
    <3>3. client[c].now \in Nat
      BY <1>0, KeysKnown, KeysNumbers
    <3> QED
      BY <3>1, <3>2, <3>3, KeysNumbers
  <2>3. /\ Keys!Decided(c) \in {"rejected", "forbidden", "handled"}
        /\ Keys!Decided(c) = "handled" =>
             /\ client[c].token.sound
             /\ client[c].token.roles \intersect client[c].token.allowed # {}
             /\ served[client[c].kid] # 0 /\ client[c].now < served[client[c].kid] + Lifetime
    BY <1>0, <2>2, KeysDecided
  <2> QED
    BY <1>0, <1>1, <2>1, <2>3, KeysMove
<1>3. CASE Keys!Lookup(c) # "decide"
  <2>1. PICK there \in {"rejected", "miss", "refresh"} : Keys!Goto(c, there)
    BY <1>3 DEF Keys!LookUp, Keys!Lookup
  <2> QED
    BY <1>0, <1>1, <2>1, KeysMove
<1> QED
  BY <1>2, <1>3

\* The list of unknown key ids keeps its bound.
LEMMA KeysRecord ==
    ASSUME KeysInv, NEW c \in Clients, Keys!RecordMissing(c)
    PROVE  KeysInv'
<1> DEFINE k == client[c].kid
           now == client[c].now
           kept == {x \in KeyIds : missing[x] # 0 /\ now - missing[x] < Cooldown}
           oldest == {x \in kept : \A y \in kept : missing[x] <= missing[y]}
           old == {x \in KeyIds : missing[x] # 0}
           new == {x \in KeyIds : missing'[x] # 0}
<1>0. /\ UNCHANGED <<clock, keys, expiry, lastRefresh, served>>
      /\ published' = published /\ refreshing' = refreshing /\ client[c].at = "miss" /\ Keys!Goto(c, "rejected")
  BY DEF Keys!RecordMissing
<1>1. k \in KeyIds /\ now \in 1..clock /\ clock \in Nat /\ clock <= Horizon /\ Horizon \in Nat
  BY <1>0, KeysKnown, KeysNumbers DEF KeysInv, Keys!TypeOK
<1>2. PICK drop \in IF Cardinality(kept) >= MaxMissing THEN {{x} : x \in oldest} ELSE {{}} :
        missing' = [x \in KeyIds |-> IF x = k THEN now ELSE IF x \in kept \ drop THEN missing[x] ELSE 0]
  <2>1. Keys!Cardinality(kept) = Cardinality(kept)
    BY KeysCardinality
  <2> HIDE DEF kept, oldest
  <2>2. missing' \in Keys!Recorded(k, now)
    BY DEF Keys!RecordMissing
  <2> QED
    BY <2>1, <2>2 DEF Keys!Recorded, kept, oldest
<1>3. missing' \in [KeyIds -> 0..Horizon]
  BY <1>1, <1>2 DEF KeysInv, Keys!TypeOK
<1>4. new = (kept \ drop) \union {k}
  BY <1>1, <1>2
<1>5. IsFiniteSet(old) /\ Cardinality(old) \in Nat /\ Cardinality(old) <= MaxMissing /\ kept \subseteq old
  <2>1. IsFiniteSet(old) /\ Keys!Cardinality(old) <= MaxMissing
    BY DEF KeysInv, CacheServed, Keys!TypeOK
  <2>2. Keys!Cardinality(old) = Cardinality(old) /\ Cardinality(old) \in Nat
    BY <2>1, KeysCardinality, FS_CardinalityType
  <2> QED
    BY <2>1, <2>2
<1>6. IsFiniteSet(kept) /\ Cardinality(kept) \in Nat /\ Cardinality(kept) <= Cardinality(old)
  BY <1>5, FS_Subset, FS_CardinalityType
<1>7. /\ IsFiniteSet(kept \ drop) /\ Cardinality(kept \ drop) \in Nat /\ Cardinality(kept \ drop) < MaxMissing
  <2>1. CASE Cardinality(kept) >= MaxMissing
    <3>1. PICK x \in kept : drop = {x}
      BY <1>2, <2>1
    <3>2. IsFiniteSet(kept \ {x}) /\ Cardinality(kept \ {x}) = Cardinality(kept) - 1
      BY <1>6, <3>1, FS_RemoveElement
    <3>3. Cardinality(kept \ {x}) \in Nat
      BY <3>2, FS_CardinalityType
    <3> QED
      BY <1>5, <1>6, <3>1, <3>2, <3>3, KeyAssumption
  <2>2. CASE ~(Cardinality(kept) >= MaxMissing)
    <3>1. drop = {} /\ kept \ drop = kept
      BY <1>2, <2>2
    <3> QED
      BY <1>6, <2>2, <3>1, KeyAssumption
  <2> QED
    BY <2>1, <2>2
<1>8. IsFiniteSet(new) /\ Cardinality(new) <= MaxMissing
  <2>1. IsFiniteSet((kept \ drop) \union {k})
        /\ Cardinality((kept \ drop) \union {k}) = IF k \in kept \ drop THEN Cardinality(kept \ drop) ELSE Cardinality(kept \ drop) + 1
    BY <1>7, FS_AddElement
  <2>2. Cardinality((kept \ drop) \union {k}) <= MaxMissing
    BY <1>7, <2>1, KeyAssumption
  <2> QED
    BY <1>4, <2>1, <2>2
<1>9. /\ ClientsTyped' /\ client'[c].at = "rejected" /\ \A d \in Clients \ {c} : client'[d] = client[d]
  BY <1>0, KeysGoto
<1>10. Keys!TypeOK'
  <2>1. Keys!Cardinality(new) <= MaxMissing
    BY <1>8, KeysCardinality
  <2> QED
    BY <1>0, <1>3, <1>9, <2>1 DEF KeysInv, Keys!TypeOK, Keys!Start, Keys!Nobody
<1>11. CacheServed'
  BY <1>0, <1>8 DEF KeysInv, CacheServed
<1>12. RefreshSerial' /\ Keys!HandledKeyRecent'
  BY <1>0, <1>9 DEF KeysInv, RefreshSerial, Keys!HandledKeyRecent
<1> QED
  BY <1>9, <1>10, <1>11, <1>12 DEF KeysInv

LEMMA KeysBegin ==
    ASSUME KeysInv, NEW c \in Clients, Keys!BeginRefresh(c)
    PROVE  KeysInv'
<1>0. /\ UNCHANGED <<clock, keys, expiry, lastRefresh, missing, served>>
      /\ published' = published /\ client[c].at = "refresh" /\ refreshing = "nobody"
  BY DEF Keys!BeginRefresh, Keys!store, Keys!Nobody
<1>1. \A d \in Clients : client[d].at \notin {"fetch", "store"}
  BY <1>0, KeyAssumption DEF KeysInv, RefreshSerial
<1>2. client[c].now \in Nat /\ client[c].now <= clock
  BY <1>0, KeysKnown, KeysNumbers
<1>3. CASE clock - lastRefresh < Cooldown
  <2>1. Keys!Goto(c, "reread") /\ refreshing' = refreshing
    BY <1>3 DEF Keys!BeginRefresh
  <2>2. client[c].now < lastRefresh + Lifetime
    BY <1>2, <1>3, KeysNumbers
  <2> QED
    BY <1>0, <1>1, <2>1, <2>2, KeysMove
<1>4. CASE ~(clock - lastRefresh < Cooldown)
  <2>1. Keys!Goto(c, "fetch") /\ refreshing' = c
    BY <1>4 DEF Keys!BeginRefresh
  <2>2. clock - lastRefresh >= Cooldown
    BY <1>4, KeysNumbers
  <2> QED
    BY <1>0, <1>1, <2>1, <2>2, KeysMove
<1> QED
  BY <1>3, <1>4

LEMMA KeysAnswered ==
    ASSUME KeysInv, NEW c \in Clients, Keys!Answered(c)
    PROVE  KeysInv'
<1> DEFINE new == [client[c] EXCEPT !.at = "store", !.got = published]
<1>0. /\ UNCHANGED <<clock, published, keys, expiry, lastRefresh, missing, refreshing, served>>
      /\ client[c].at = "fetch" /\ client' = [client EXCEPT ![c] = new]
  BY DEF Keys!Answered, Keys!store
<1>1. client \in [Clients -> Over \union UnderWay] /\ published \subseteq KeyIds
  BY DEF KeysInv, ClientsTyped, Keys!TypeOK
<1>2. client[c] \in UnderWay
  BY <1>0, <1>1 DEF Over, Keys!Done
<1>3. new \in UnderWay
  BY <1>1, <1>2 DEF UnderWay
<1>4. ClientsTyped'
  BY <1>0, <1>1, <1>3 DEF ClientsTyped, Over, UnderWay
<1>5. client'[c].at = "store" /\ \A d \in Clients \ {c} : client'[d] = client[d]
  BY <1>0, <1>1, <1>2 DEF UnderWay
<1>6. Keys!TypeOK' /\ CacheServed'
  BY <1>0, <1>5 DEF KeysInv, Keys!TypeOK, Keys!Start, CacheServed
<1>7. RefreshSerial' /\ Keys!HandledKeyRecent'
  BY <1>0, <1>5 DEF KeysInv, RefreshSerial, Keys!HandledKeyRecent
<1> QED
  BY <1>4, <1>6, <1>7 DEF KeysInv

LEMMA KeysFetched ==
    ASSUME KeysInv, NEW c \in Clients, Keys!Fetched(c)
    PROVE  KeysInv' /\ clock - lastRefresh >= Cooldown
<1>0. /\ UNCHANGED <<clock, missing>> /\ published' = published /\ client[c].at = "store"
      /\ keys' = client[c].got /\ expiry' = clock + Lifetime /\ lastRefresh' = clock
      /\ served' = [k \in KeyIds |-> IF k \in client[c].got THEN clock ELSE served[k]]
      /\ refreshing' = "nobody" /\ Keys!Goto(c, "reread")
  BY DEF Keys!Fetched, Keys!Nobody
<1>1. \A d \in Clients \ {c} : client[d].at \notin {"fetch", "store"}
  BY <1>0 DEF KeysInv, RefreshSerial
<1>2. /\ ClientsTyped' /\ client'[c].at = "reread" /\ \A d \in Clients \ {c} : client'[d] = client[d]
      /\ client'[c].now = client[c].now
  BY <1>0, KeysGoto
<1>3. Keys!TypeOK'
  BY <1>0, <1>2, KeysKnown, KeysNumbers DEF KeysInv, Keys!TypeOK, Keys!Start, Keys!Nobody
<1>4. CacheServed'
  BY <1>0, KeysKnown, KeysNumbers DEF KeysInv, Keys!TypeOK, CacheServed
<1>5. RefreshSerial'
  <2> SUFFICES ASSUME NEW d \in Clients
               PROVE  /\ client'[d].at = "reread" => client'[d].now < clock + Lifetime
                      /\ client'[d].at \notin {"fetch", "store"}
    BY <1>0 DEF RefreshSerial
  <2>1. client'[d].at \notin {"fetch", "store"}
    BY <1>1, <1>2
  <2>2. CASE d = c
    <3>1. client[c].now \in Nat /\ client[c].now <= clock
      BY <1>0, KeysKnown, KeysNumbers
    <3> QED
      BY <1>2, <2>1, <2>2, <3>1, KeysNumbers
  <2>3. CASE d # c /\ client[d].at = "reread"
    <3>1. client[d].now \in Nat /\ client[d].now < lastRefresh + Lifetime
      BY <2>3, KeysKnown, KeysNumbers DEF KeysInv, RefreshSerial
    <3> QED
      BY <1>2, <2>1, <2>3, <3>1, KeysNumbers
  <2> QED
    BY <1>2, <2>1, <2>2, <2>3
<1>6. Keys!HandledKeyRecent'
  <2> SUFFICES ASSUME NEW d \in Clients, client'[d].at = "handled"
               PROVE  /\ client'[d].token.sound
                      /\ client'[d].token.roles \intersect client'[d].token.allowed # {}
                      /\ served'[client'[d].kid] # 0 /\ client'[d].now < served'[client'[d].kid] + Lifetime
    BY DEF Keys!HandledKeyRecent
  <2>1. d # c /\ client'[d] = client[d] /\ client[d].at = "handled"
    BY <1>2
  <2>2. /\ client[d].token.sound
        /\ client[d].token.roles \intersect client[d].token.allowed # {}
        /\ served[client[d].kid] # 0 /\ client[d].now < served[client[d].kid] + Lifetime
    BY <2>1 DEF KeysInv, Keys!HandledKeyRecent
  <2>3. client[d].kid \in KeyIds /\ client[d].now \in Nat
    BY <2>1, KeysKnown, KeysNumbers
  <2>4. served'[client[d].kid] \in {clock, served[client[d].kid]}
    BY <1>0, <2>3
  <2> QED
    BY <2>1, <2>2, <2>3, <2>4, KeysNumbers
<1>7. clock - lastRefresh >= Cooldown
  BY <1>0 DEF KeysInv, RefreshSerial
<1> QED
  BY <1>2, <1>3, <1>4, <1>5, <1>6, <1>7 DEF KeysInv

LEMMA KeysRest ==
    ASSUME KeysInv, NEW c \in Clients, Keys!FetchFailed(c) \/ Keys!Reread(c)
    PROVE  KeysInv'
<1>0. /\ UNCHANGED <<clock, keys, expiry, lastRefresh, missing, served>> /\ published' = published
  BY DEF Keys!FetchFailed, Keys!Reread, Keys!store
<1>1. CASE Keys!FetchFailed(c)
  <2>1. client[c].at = "fetch" /\ refreshing' = "nobody" /\ Keys!Goto(c, "rejected")
    BY <1>1 DEF Keys!FetchFailed, Keys!Nobody
  <2>2. \A d \in Clients \ {c} : client[d].at \notin {"fetch", "store"}
    BY <2>1 DEF KeysInv, RefreshSerial
  <2> QED
    BY <1>0, <2>1, <2>2, KeysMove
<1>2. CASE Keys!Reread(c)
  <2>1. client[c].at = "reread" /\ refreshing' = refreshing
    BY <1>2 DEF Keys!Reread
  <2>2. refreshing' \in Clients \union {"nobody"} /\ \A d \in Clients \ {c} : client[d].at \in {"fetch", "store"} => refreshing' = d
    BY <2>1 DEF KeysInv, Keys!TypeOK, Keys!Nobody, RefreshSerial
  <2>3. client[c].now < lastRefresh + Lifetime
    BY <2>1 DEF KeysInv, RefreshSerial
  <2>4. CASE client[c].kid \in keys
    <3>1. Keys!Goto(c, Keys!Decided(c))
      BY <1>2, <2>4 DEF Keys!Reread
    <3>2. /\ Keys!Decided(c) \in {"rejected", "forbidden", "handled"}
          /\ Keys!Decided(c) = "handled" =>
               /\ client[c].token.sound
               /\ client[c].token.roles \intersect client[c].token.allowed # {}
               /\ served[client[c].kid] # 0 /\ client[c].now < served[client[c].kid] + Lifetime
      BY <2>1, <2>3, <2>4, KeysDecided
    <3> QED
      BY <1>0, <2>1, <2>2, <3>1, <3>2, KeysMove
  <2>5. CASE client[c].kid \notin keys
    <3>1. Keys!Goto(c, "miss")
      BY <1>2, <2>5 DEF Keys!Reread
    <3> QED
      BY <1>0, <2>1, <2>2, <3>1, KeysMove
  <2> QED
    BY <2>4, <2>5
<1> QED
  BY <1>1, <1>2

LEMMA KeysEnvironment ==
    ASSUME KeysInv, Keys!Tick \/ \E ks \in SUBSET KeyIds : Keys!Rotate(ks)
    PROVE  KeysInv'
<1>0. UNCHANGED <<keys, expiry, lastRefresh, missing, refreshing, served, client>>
  BY DEF Keys!Tick, Keys!Rotate, Keys!store
<1>1. clock' \in Nat /\ clock' >= clock /\ clock' <= Horizon /\ published' \subseteq KeyIds
  BY KeysNumbers DEF Keys!Tick, Keys!Rotate, KeysInv, Keys!TypeOK
<1>2. Keys!TypeOK' /\ CacheServed'
  BY <1>0, <1>1, KeysNumbers, KeyAssumption DEF KeysInv, Keys!TypeOK, Keys!Start, CacheServed
<1>3. ClientsTyped'
  <2>1. 1..clock \subseteq 1..clock'
    BY <1>1, KeysNumbers
  <2>2. UnderWay \subseteq UnderWay' /\ Over' = Over
    BY <2>1 DEF UnderWay, Over
  <2> QED
    BY <1>0, <2>2 DEF KeysInv, ClientsTyped
<1>4. RefreshSerial' /\ Keys!HandledKeyRecent'
  BY <1>0, <1>1, KeysNumbers DEF KeysInv, RefreshSerial, Keys!HandledKeyRecent
<1> QED
  BY <1>2, <1>3, <1>4 DEF KeysInv

LEMMA KeysStep ==
    ASSUME KeysInv, Keys!Next
    PROVE  KeysInv' /\ Keys!FetchApart
<1>1. KeysInv'
  BY KeysArrive, KeysLookUp, KeysRecord, KeysBegin, KeysAnswered, KeysFetched, KeysRest, KeysEnvironment
  DEF Keys!Next
<1>2. \A c \in Clients : client[c].at = "store" => clock - lastRefresh >= Cooldown
  BY DEF KeysInv, RefreshSerial
<1>3. \A c, d \in Clients : {client'[c].at, client'[d].at} \subseteq {"fetch", "store"} => c = d
  BY <1>1 DEF KeysInv, RefreshSerial
<1> QED
  BY <1>1, <1>2, <1>3 DEF Keys!FetchApart

----------------------------------------------------------------------------
(* Saved views                                                              *)

LEMMA ViewsCardinality == \A S : Views!Cardinality(S) = Cardinality(S)
<1> TAKE S
<1> QED
  BY DEF Views!Cardinality, Cardinality

\* The views of an owner are finitely many.
LEMMA OwnedFinite ==
    ASSUME NEW o
    PROVE  /\ Views!OwnedBy(o) \in SUBSET Views!Ids
           /\ IsFiniteSet(Views!OwnedBy(o)) /\ Cardinality(Views!OwnedBy(o)) \in Nat
<1>1. Views!OwnedBy(o) \in SUBSET Views!Ids
  BY DEF Views!OwnedBy, Views!Live
<1>2. IsFiniteSet(Views!Ids)
  BY FS_Interval, ViewAssumption DEF Views!Ids
<1> QED
  BY <1>1, <1>2, FS_Subset, FS_CardinalityType

LEMMA ViewsInit == Views!Init => ViewsInv
<1> SUFFICES ASSUME Views!Init PROVE ViewsInv
  OBVIOUS
<1> USE ViewAssumption
<1>1. Views!Idle \in ViewRequests
  BY DEF ViewRequests, Views!Idle, Views!Nobody
<1>2. \A r \in Requests : req[r] = Views!Idle
  BY DEF Views!Init
<1>3. req \in [Requests -> ViewRequests]
  BY <1>1 DEF Views!Init
<1>4. Views!NoView \in [owner : Owners \union {"nobody"}, name : Names \union {"none"}, revision : 0..MaxRevision]
  BY DEF Views!NoView, Views!Nobody
<1>5. Views!TypeOK
  <2>1. \A r \in Requests : req[r].op = "idle" /\ req[r].at = "none"
    BY <1>2 DEF Views!Idle
  <2> QED
    BY <1>4, <2>1 DEF Views!Init, Views!TypeOK, Views!Nobody
<1>6. \A o : Views!OwnedBy(o) = {}
  BY DEF Views!Init, Views!OwnedBy, Views!Live
<1>7. Views!WithinLimit
  <2>1. Views!Cardinality({}) = 0
    BY ViewsCardinality, FS_EmptySet
  <2> QED
    BY <1>6, <2>1 DEF Views!WithinLimit
<1>8. \A r \in Requests : ViewRequestTyped(r) /\ ViewLocked(r) /\ NameReserved(r)
  BY <1>2 DEF ViewRequestTyped, ViewLocked, NameReserved, Views!Idle
<1>9. ViewIds
  BY DEF ViewIds, Views!Init
<1> QED
  BY <1>3, <1>5, <1>7, <1>8, <1>9 DEF ViewsInv

\* A step of one request that commits nothing and takes no lock from another keeps
\* the invariant, and it only has to be shown of that request.
LEMMA ViewsMove ==
    ASSUME ViewsInv, UNCHANGED <<views, created>>, NEW r \in Requests,
           limitLock' \in [Owners -> Requests \union {"nobody"}],
           rowLock' \in [Views!Ids -> Requests \union {"nobody"}],
           NEW x \in ViewRequests, req' = [req EXCEPT ![r] = x],
           \A q \in Requests \ {r} : \A o \in Owners : limitLock[o] = q => limitLock'[o] = q,
           \A q \in Requests \ {r} : \A i \in Views!Ids : rowLock[i] = q => rowLock'[i] = q,
           ViewRequestTyped(r)', ViewLocked(r)', NameReserved(r)'
    PROVE  ViewsInv'
<1>1. req' \in [Requests -> ViewRequests] /\ req'[r] = x /\ \A q \in Requests \ {r} : req'[q] = req[q]
  BY DEF ViewsInv
<1>2. \A o : Views!OwnedBy(o)' = Views!OwnedBy(o)
  BY DEF Views!OwnedBy, Views!Live, Views!NoView
<1>3. Views!TypeOK'
  BY <1>1 DEF ViewsInv, Views!TypeOK, Views!Nobody, ViewRequests
<1>4. ViewIds' /\ Views!WithinLimit'
  BY <1>2 DEF ViewsInv, ViewIds, Views!WithinLimit
<1>5. ASSUME NEW q \in Requests, q # r PROVE ViewRequestTyped(q)' /\ ViewLocked(q)' /\ NameReserved(q)'
  <2>0. ViewRequestTyped(q) /\ ViewLocked(q) /\ NameReserved(q) /\ req'[q] = req[q] /\ req[q] \in ViewRequests
    BY <1>1, <1>5 DEF ViewsInv
  <2>1. ViewRequestTyped(q)'
    BY <2>0 DEF ViewRequestTyped
  <2>2. ViewLocked(q)'
    <3>1. CASE req[q].op = "create"
      <4>1. req[q].owner \in Owners /\ req[q].op # "update"
        BY <2>0, <3>1 DEF ViewRequestTyped, Views!Idle
      <4> QED
        BY <1>2, <1>5, <2>0, <3>1, <4>1 DEF ViewLocked
    <3>2. CASE req[q].op = "update"
      <4>1. req[q].id \in Views!Ids /\ req[q].op # "create"
        BY <2>0, <3>2 DEF ViewRequestTyped, Views!Idle, Views!Ids, ViewRequests
      <4> QED
        BY <1>5, <2>0, <3>2, <4>1 DEF ViewLocked
    <3> QED
      BY <2>0, <3>1, <3>2 DEF ViewLocked
  <2>3. NameReserved(q)'
    <3> SUFFICES ASSUME req[q].at = "commit"
                 PROVE  /\ ~Views!NameTaken(q)'
                        /\ \A p \in Requests \ {q} :
                              req'[p].at = "commit" /\ req'[p].owner = req[q].owner => req'[p].name # req[q].name
      BY <2>0 DEF NameReserved
    <3>1. ~Views!NameTaken(q)'
      BY <1>2, <2>0 DEF NameReserved, Views!NameTaken
    <3>2. ASSUME NEW p \in Requests \ {q}, req'[p].at = "commit", req'[p].owner = req[q].owner
          PROVE  req'[p].name # req[q].name
      <4>1. CASE p = r
        BY <1>5, <2>0, <3>2, <4>1 DEF NameReserved
      <4>2. CASE p # r
        BY <1>1, <2>0, <3>2, <4>2 DEF NameReserved
      <4> QED
        BY <4>1, <4>2
    <3> QED
      BY <3>1, <3>2
  <2> QED
    BY <2>1, <2>2, <2>3
<1> QED
  BY <1>1, <1>3, <1>4, <1>5 DEF ViewsInv

LEMMA ViewsRollback ==
    ASSUME ViewsInv, NEW r \in Requests, Views!Rollback(r)
    PROVE  ViewsInv'
<1>0. UNCHANGED <<views, created>> /\ Views!Idle \in ViewRequests
  BY ViewAssumption DEF Views!Rollback, ViewRequests, Views!Idle, Views!Nobody
<1>1. req' = [req EXCEPT ![r] = Views!Idle] /\ req'[r] = Views!Idle
  BY DEF Views!Rollback, Views!Release, ViewsInv
<1>2. /\ limitLock' = [o \in Owners |-> IF limitLock[o] = r THEN "nobody" ELSE limitLock[o]]
      /\ rowLock' = [i \in Views!Ids |-> IF rowLock[i] = r THEN "nobody" ELSE rowLock[i]]
  BY DEF Views!Rollback, Views!Release, Views!Nobody
<1>3. limitLock' \in [Owners -> Requests \union {"nobody"}] /\ rowLock' \in [Views!Ids -> Requests \union {"nobody"}]
  BY <1>2 DEF ViewsInv, Views!TypeOK, Views!Nobody
<1>4. /\ \A q \in Requests \ {r} : \A o \in Owners : limitLock[o] = q => limitLock'[o] = q
      /\ \A q \in Requests \ {r} : \A i \in Views!Ids : rowLock[i] = q => rowLock'[i] = q
  BY <1>2
<1>5. ViewRequestTyped(r)' /\ ViewLocked(r)' /\ NameReserved(r)'
  BY <1>1 DEF ViewRequestTyped, ViewLocked, NameReserved, Views!Idle
<1> QED
  BY <1>0, <1>1, <1>3, <1>4, <1>5, ViewsMove

\* A new request.
LEMMA ViewsBegin ==
    ASSUME ViewsInv, NEW r \in Requests, NEW o \in Owners, NEW n \in Names,
           \/ Views!Create(r, o, n)
           \/ \E i \in 1..created, e \in 1..MaxRevision : Views!Update(r, o, i, n, e)
    PROVE  ViewsInv'
<1> USE ViewAssumption
<1>0. UNCHANGED <<views, created, limitLock, rowLock>> /\ created \in 0..MaxIds
  BY DEF Views!Create, Views!Update, ViewsInv, Views!TypeOK
<1>1. limitLock' \in [Owners -> Requests \union {"nobody"}] /\ rowLock' \in [Views!Ids -> Requests \union {"nobody"}]
  BY <1>0 DEF ViewsInv, Views!TypeOK, Views!Nobody
<1>2. PICK x \in ViewRequests :
        /\ req' = [req EXCEPT ![r] = x] /\ x.at = "lock" /\ x.owner \in Owners /\ x.name \in Names
        /\ \/ x.op = "create" /\ x.id = 0
           \/ x.op = "update" /\ x.id \in 1..created /\ x.expected >= 1
  <2>1. CASE Views!Create(r, o, n)
    <3> DEFINE y == [op |-> "create", at |-> "lock", owner |-> o, id |-> 0, name |-> n, expected |-> 0]
    <3>2. req' = [req EXCEPT ![r] = y]
      BY <2>1 DEF Views!Create
    <3>3. y \in ViewRequests
      BY DEF ViewRequests
    <3> QED
      BY <3>2, <3>3
  <2>2. CASE \E i \in 1..created, e \in 1..MaxRevision : Views!Update(r, o, i, n, e)
    <3>1. PICK i \in 1..created, e \in 1..MaxRevision : Views!Update(r, o, i, n, e)
      BY <2>2
    <3> DEFINE y == [op |-> "update", at |-> "lock", owner |-> o, id |-> i, name |-> n, expected |-> e]
    <3>2. req' = [req EXCEPT ![r] = y]
      BY <3>1 DEF Views!Update
    <3>3. i \in 0..MaxIds /\ e \in 0..MaxRevision /\ e >= 1
      BY <1>0
    <3>4. y \in ViewRequests
      BY <3>3 DEF ViewRequests
    <3> QED
      BY <3>2, <3>3, <3>4
  <2> QED
    BY <2>1, <2>2
<1>3. req'[r] = x
  BY <1>2 DEF ViewsInv
<1>4. ViewRequestTyped(r)'
  BY <1>0, <1>2, <1>3 DEF ViewRequestTyped
<1>5. ViewLocked(r)' /\ NameReserved(r)'
  BY <1>2, <1>3 DEF ViewLocked, NameReserved
<1>6. /\ \A q \in Requests \ {r} : \A p \in Owners : limitLock[p] = q => limitLock'[p] = q
      /\ \A q \in Requests \ {r} : \A i \in Views!Ids : rowLock[i] = q => rowLock'[i] = q
  BY <1>0
<1> QED
  BY <1>0, <1>1, <1>2, <1>4, <1>5, <1>6, ViewsMove

\* A request that goes on to its next statement.
LEMMA ViewsGoto ==
    ASSUME ViewsInv, NEW r \in Requests, UNCHANGED <<views, created>>,
           NEW there \in {"count", "name", "write", "commit"}, Views!Goto(r, there),
           req[r].op \in {"create", "update"}, req[r].op = "update" => there # "count",
           limitLock' \in [Owners -> Requests \union {"nobody"}],
           rowLock' \in [Views!Ids -> Requests \union {"nobody"}],
           \A q \in Requests \ {r} : \A o \in Owners : limitLock[o] = q => limitLock'[o] = q,
           \A q \in Requests \ {r} : \A i \in Views!Ids : rowLock[i] = q => rowLock'[i] = q,
           req[r].op = "create" =>
               /\ limitLock'[req[r].owner] = r
               /\ there # "count" => Cardinality(Views!OwnedBy(req[r].owner)) < MaxPerUser,
           req[r].op = "update" =>
               /\ rowLock'[req[r].id] = r
               /\ views[req[r].id].owner = req[r].owner /\ views[req[r].id].revision = req[r].expected,
           there = "commit" => ~Views!NameTaken(r) /\ ~Views!KeyHeld(r)
    PROVE  ViewsInv'
<1> DEFINE x == [req[r] EXCEPT !.at = there]
<1>0. req[r] \in ViewRequests /\ ViewRequestTyped(r) /\ req \in [Requests -> ViewRequests]
  BY DEF ViewsInv
<1>1. x \in ViewRequests /\ x.at = there /\ x.op = req[r].op /\ x.owner = req[r].owner /\ x.id = req[r].id
      /\ x.name = req[r].name /\ x.expected = req[r].expected
  BY <1>0 DEF ViewRequests
<1>2. req' = [req EXCEPT ![r] = x]
  BY <1>0 DEF Views!Goto
<1>3. req'[r] = x /\ \A q \in Requests \ {r} : req'[q] = req[q]
  BY <1>0, <1>2
<1>4. \A o : Views!OwnedBy(o)' = Views!OwnedBy(o)
  BY DEF Views!OwnedBy, Views!Live, Views!NoView
<1>5. ViewRequestTyped(r)'
  BY <1>0, <1>1, <1>3 DEF ViewRequestTyped, Views!Idle
<1>6. ViewLocked(r)'
  <2>1. CASE req[r].op = "create"
    BY <1>1, <1>3, <1>4, <2>1 DEF ViewLocked
  <2>2. CASE req[r].op = "update"
    BY <1>1, <1>3, <2>2 DEF ViewLocked
  <2> QED
    BY <2>1, <2>2
<1>7. NameReserved(r)'
  <2> SUFFICES ASSUME there = "commit"
               PROVE  /\ ~Views!NameTaken(r)'
                      /\ \A q \in Requests \ {r} :
                            req[q].at = "commit" /\ req[q].owner = req[r].owner => req[q].name # req[r].name
    BY <1>1, <1>3 DEF NameReserved
  <2>1. ~Views!NameTaken(r)'
    BY <1>1, <1>3, <1>4 DEF Views!NameTaken
  <2>2. \A q \in Requests \ {r} :
          req[q].at = "commit" /\ req[q].owner = req[r].owner => req[q].name # req[r].name
    BY DEF Views!KeyHeld, Views!Keys
  <2> QED
    BY <2>1, <2>2
<1> HIDE DEF x
<1> QED
  BY <1>1, <1>2, <1>5, <1>6, <1>7, ViewsMove

LEMMA ViewsAdvance ==
    ASSUME ViewsInv, NEW r \in Requests,
           \/ Views!LockLimit(r) \/ Views!CountViews(r) \/ Views!CheckName(r) \/ Views!Write(r)
           \/ Views!SelectView(r)
    PROVE  ViewsInv'
<1>0. /\ ViewRequestTyped(r) /\ ViewLocked(r) /\ req[r] \in ViewRequests
      /\ limitLock \in [Owners -> Requests \union {"nobody"}] /\ rowLock \in [Views!Ids -> Requests \union {"nobody"}]
  BY DEF ViewsInv, Views!TypeOK, Views!Nobody
<1>1. req[r].op = "create" => req[r].owner \in Owners
  BY <1>0 DEF ViewRequestTyped, Views!Idle
<1>2. req[r].op = "update" => req[r].id \in Views!Ids /\ req[r].expected >= 1 /\ req[r].at # "count"
  BY <1>0 DEF ViewRequestTyped, Views!Idle, Views!Ids, ViewRequests, ViewsInv, Views!TypeOK
<1>3. CASE Views!LockLimit(r)
  <2>1. /\ UNCHANGED <<views, created>> /\ Views!Goto(r, "count") /\ req[r].op = "create"
        /\ limitLock' = [limitLock EXCEPT ![req[r].owner] = r] /\ rowLock' = rowLock
        /\ limitLock[req[r].owner] = "nobody"
    BY <1>3 DEF Views!LockLimit, Views!At, Views!Nobody
  <2>2. limitLock' \in [Owners -> Requests \union {"nobody"}] /\ limitLock'[req[r].owner] = r
    BY <1>0, <1>1, <2>1
  <2>3. \A q \in Requests \ {r} : \A o \in Owners : limitLock[o] = q => limitLock'[o] = q
    BY <1>0, <2>1, ViewAssumption
  <2> QED
    BY <1>0, <2>1, <2>2, <2>3, ViewsGoto
<1>4. CASE Views!CountViews(r)
  <2>1. CASE Views!Rollback(r)
    BY <2>1, ViewsRollback
  <2>2. CASE ~Views!Rollback(r)
    <3>1. /\ UNCHANGED <<views, created, limitLock, rowLock>> /\ Views!Goto(r, "name")
          /\ req[r].op = "create" /\ req[r].at = "count"
          /\ ~(Views!Cardinality(Views!OwnedBy(req[r].owner)) >= MaxPerUser)
      BY <1>4, <2>2 DEF Views!CountViews, Views!At
    <3>2. Cardinality(Views!OwnedBy(req[r].owner)) < MaxPerUser
      <4>1. Cardinality(Views!OwnedBy(req[r].owner)) \in Nat
        BY OwnedFinite
      <4>2. Views!Cardinality(Views!OwnedBy(req[r].owner)) = Cardinality(Views!OwnedBy(req[r].owner))
        BY ViewsCardinality
      <4> QED
        BY <3>1, <4>1, <4>2, ViewAssumption
    <3>3. limitLock[req[r].owner] = r
      BY <1>0, <3>1 DEF ViewLocked
    <3> QED
      BY <1>0, <3>1, <3>2, <3>3, ViewsGoto
  <2> QED
    BY <2>1, <2>2
<1>5. CASE Views!CheckName(r) \/ Views!Write(r)
  <2>1. CASE Views!Rollback(r)
    BY <2>1, ViewsRollback
  <2>2. CASE ~Views!Rollback(r)
    <3>1. PICK there \in {"write", "commit"} :
            /\ UNCHANGED <<views, created, limitLock, rowLock>> /\ Views!Goto(r, there)
            /\ req[r].at \in {"name", "write"}
            /\ there = "commit" => ~Views!NameTaken(r) /\ ~Views!KeyHeld(r)
      BY <1>5, <2>2 DEF Views!CheckName, Views!Write
    <3>2. req[r].op \in {"create", "update"}
      BY <1>0, <3>1 DEF ViewRequestTyped, Views!Idle
    <3>3. /\ req[r].op = "create" =>
               limitLock[req[r].owner] = r /\ Cardinality(Views!OwnedBy(req[r].owner)) < MaxPerUser
          /\ req[r].op = "update" =>
               /\ rowLock[req[r].id] = r
               /\ views[req[r].id].owner = req[r].owner /\ views[req[r].id].revision = req[r].expected
      BY <1>0, <3>1 DEF ViewLocked
    <3> QED
      BY <1>0, <3>1, <3>2, <3>3, ViewsGoto
  <2> QED
    BY <2>1, <2>2
<1>6. CASE Views!SelectView(r)
  <2>1. CASE Views!Rollback(r)
    BY <2>1, ViewsRollback
  <2>2. CASE ~Views!Rollback(r)
    <3>1. /\ UNCHANGED <<views, created, limitLock>> /\ req[r].op = "update"
          /\ rowLock' = [rowLock EXCEPT ![req[r].id] = r] /\ rowLock[req[r].id] = "nobody"
          /\ Views!Goto(r, Views!Selected(r)) /\ Views!Selected(r) # "reject"
      BY <1>6, <2>2 DEF Views!SelectView, Views!At, Views!Nobody
    <3>2. /\ Views!Selected(r) \in {"name", "write"}
          /\ views[req[r].id].owner = req[r].owner /\ views[req[r].id].revision = req[r].expected
      BY <3>1 DEF Views!Selected
    <3>3. rowLock' \in [Views!Ids -> Requests \union {"nobody"}] /\ rowLock'[req[r].id] = r
      BY <1>0, <1>2, <3>1
    <3>4. \A q \in Requests \ {r} : \A i \in Views!Ids : rowLock[i] = q => rowLock'[i] = q
      BY <1>0, <3>1, ViewAssumption
    <3> QED
      BY <1>0, <3>1, <3>2, <3>3, <3>4, ViewsGoto
  <2> QED
    BY <2>1, <2>2
<1> QED
  BY <1>3, <1>4, <1>5, <1>6

\* What a commit or a rollback leaves: the request is gone and no other one lost a
\* lock.
LEMMA ViewsRelease ==
    ASSUME ViewsInv, NEW r \in Requests, Views!Release(r)
    PROVE  /\ limitLock' \in [Owners -> Requests \union {"nobody"}]
           /\ rowLock' \in [Views!Ids -> Requests \union {"nobody"}]
           /\ req' \in [Requests -> ViewRequests]
           /\ req'[r] = Views!Idle /\ \A q \in Requests \ {r} : req'[q] = req[q]
           /\ \A q \in Requests \ {r} : \A o \in Owners : limitLock[o] = q => limitLock'[o] = q
           /\ \A q \in Requests \ {r} : \A i \in Views!Ids : rowLock[i] = q => rowLock'[i] = q
<1>0. Views!Idle \in ViewRequests
  BY ViewAssumption DEF ViewRequests, Views!Idle, Views!Nobody
<1>1. /\ limitLock' = [o \in Owners |-> IF limitLock[o] = r THEN "nobody" ELSE limitLock[o]]
      /\ rowLock' = [i \in Views!Ids |-> IF rowLock[i] = r THEN "nobody" ELSE rowLock[i]]
      /\ req' = [req EXCEPT ![r] = Views!Idle]
  BY DEF Views!Release, Views!Nobody
<1>2. limitLock' \in [Owners -> Requests \union {"nobody"}] /\ rowLock' \in [Views!Ids -> Requests \union {"nobody"}]
  BY <1>1 DEF ViewsInv, Views!TypeOK, Views!Nobody
<1>3. /\ req' \in [Requests -> ViewRequests]
      /\ req'[r] = Views!Idle /\ \A q \in Requests \ {r} : req'[q] = req[q]
  BY <1>0, <1>1 DEF ViewsInv
<1> QED
  BY <1>1, <1>2, <1>3

\* What every request that is not idle knows.
LEMMA ViewsKnown ==
    ASSUME ViewsInv, NEW r \in Requests
    PROVE  /\ req[r].op = "create" => req[r].owner \in Owners /\ req[r].name \in Names /\ req[r].id = 0
           /\ req[r].op = "update" =>
                /\ req[r].owner \in Owners /\ req[r].name \in Names
                /\ req[r].id \in Views!Ids /\ req[r].id <= created /\ req[r].expected >= 1
           /\ req[r].at = "commit" => req[r].op \in {"create", "update"}
           /\ req[r] \in ViewRequests /\ created \in 0..MaxIds
<1>1. req[r] \in ViewRequests /\ created \in 0..MaxIds /\ ViewRequestTyped(r)
  BY DEF ViewsInv, Views!TypeOK
<1> QED
  BY <1>1, ViewAssumption DEF ViewRequestTyped, Views!Idle, Views!Ids, ViewRequests

LEMMA ViewsCommitCreate ==
    ASSUME ViewsInv, NEW r \in Requests, Views!CommitCreate(r)
    PROVE  ViewsInv' /\ Views!UpdateExpected
<1> USE ViewAssumption
<1> PICK o : o = req[r].owner
  OBVIOUS
<1> DEFINE i == created + 1
           new == [owner |-> o, name |-> req[r].name, revision |-> 1]
<1>0. /\ req[r].op = "create" /\ req[r].at = "commit" /\ created < MaxIds /\ created' = created + 1
      /\ views' = [views EXCEPT ![i] = new] /\ Views!Release(r)
  BY DEF Views!CommitCreate, Views!At
<1>1. /\ o \in Owners /\ req[r].name \in Names /\ req[r].id = 0 /\ created \in Nat /\ i \in Views!Ids
      /\ ViewLocked(r) /\ NameReserved(r)
  BY <1>0, ViewsKnown DEF ViewsInv, Views!Ids
<1>2. views[i] = Views!NoView
  BY <1>1 DEF ViewsInv, ViewIds
<1>3. new # Views!NoView
  BY DEF Views!NoView
<1>4. /\ views' \in [Views!Ids -> [owner : Owners \union {"nobody"}, name : Names \union {"none"}, revision : 0..MaxRevision]]
      /\ views'[i] = new /\ \A j \in Views!Ids \ {i} : views'[j] = views[j]
  BY <1>0, <1>1 DEF ViewsInv, Views!TypeOK, Views!Nobody
<1>5. Views!OwnedBy(o)' = Views!OwnedBy(o) \union {i} /\ i \notin Views!OwnedBy(o)
  BY <1>1, <1>2, <1>3, <1>4 DEF Views!OwnedBy, Views!Live
<1>6. \A p : p # o => Views!OwnedBy(p)' = Views!OwnedBy(p)
  BY <1>1, <1>2, <1>4 DEF Views!OwnedBy, Views!Live
<1>7. Views!TypeOK'
  <2>1. created' \in 0..MaxIds
    BY <1>0, <1>1
  <2>2. \A q \in Requests : req'[q] \in ViewRequests
    BY <1>0, ViewsRelease
  <2> QED
    BY <1>0, <1>4, <2>1, <2>2, ViewsRelease DEF Views!TypeOK, Views!Nobody, ViewRequests
<1>8. ViewIds'
  BY <1>0, <1>1, <1>4 DEF ViewsInv, ViewIds, Views!Ids
<1>9. Views!WithinLimit'
  <2> SUFFICES ASSUME NEW p \in Owners
               PROVE  /\ Views!Cardinality(Views!OwnedBy(p)') <= MaxPerUser
                      /\ \A j, k \in Views!OwnedBy(p)' : views'[j].name = views'[k].name => j = k
    BY DEF Views!WithinLimit
  <2>0. /\ Views!Cardinality(Views!OwnedBy(p)) <= MaxPerUser
        /\ \A j, k \in Views!OwnedBy(p) : views[j].name = views[k].name => j = k
    BY DEF ViewsInv, Views!WithinLimit
  <2>1. \A j \in Views!OwnedBy(p) : views'[j] = views[j]
    BY <1>2, <1>4, OwnedFinite DEF Views!OwnedBy, Views!Live
  <2>2. CASE p # o
    BY <1>6, <2>0, <2>1, <2>2
  <2>3. CASE p = o
    <3>1. Cardinality(Views!OwnedBy(o)) < MaxPerUser
      BY <1>0, <1>1 DEF ViewLocked
    <3>2. Cardinality(Views!OwnedBy(o) \union {i}) = Cardinality(Views!OwnedBy(o)) + 1 /\ Cardinality(Views!OwnedBy(o)) \in Nat
      BY <1>5, OwnedFinite, FS_AddElement
    <3>3. Views!Cardinality(Views!OwnedBy(o) \union {i}) <= MaxPerUser
      BY <3>1, <3>2, ViewsCardinality
    <3>4. \A j \in Views!OwnedBy(o) : views[j].name # req[r].name
      <4>1. ~Views!NameTaken(r)
        BY <1>0, <1>1 DEF NameReserved
      <4>2. \A j \in Views!OwnedBy(o) : j # req[r].id
        BY <1>1, OwnedFinite DEF Views!Ids
      <4> QED
        BY <4>1, <4>2 DEF Views!NameTaken
    <3>5. Views!OwnedBy(p)' = Views!OwnedBy(o) \union {i}
      BY <1>5, <2>3
    <3>6. \A j \in Views!OwnedBy(o) : views'[j].name # views'[i].name
      BY <1>4, <2>1, <2>3, <3>4
    <3>7. \A j, k \in Views!OwnedBy(o) \union {i} : views'[j].name = views'[k].name => j = k
      BY <2>0, <2>1, <2>3, <3>6
    <3> QED
      BY <3>3, <3>5, <3>7
  <2> QED
    BY <2>2, <2>3
<1>10. ASSUME NEW q \in Requests PROVE ViewRequestTyped(q)' /\ ViewLocked(q)' /\ NameReserved(q)'
  <2>1. CASE q = r
    <3>1. req'[q] = Views!Idle
      BY <1>0, <2>1, ViewsRelease
    <3> QED
      BY <3>1 DEF ViewRequestTyped, ViewLocked, NameReserved, Views!Idle
  <2>2. CASE q # r
    <3>0. /\ req'[q] = req[q] /\ req[q] \in ViewRequests /\ ViewRequestTyped(q) /\ ViewLocked(q) /\ NameReserved(q)
          /\ \A p \in Owners : limitLock[p] = q => limitLock'[p] = q
          /\ \A j \in Views!Ids : rowLock[j] = q => rowLock'[j] = q
      BY <1>0, <2>2, ViewsRelease DEF ViewsInv
    <3>1. ViewRequestTyped(q)'
      BY <1>0, <1>1, <3>0 DEF ViewRequestTyped, ViewRequests
    <3>2. ViewLocked(q)'
      <4>1. CASE req[q].op = "create" /\ req[q].at # "lock"
        <5>1. req[q].owner \in Owners /\ limitLock[req[q].owner] = q
          BY <3>0, <4>1, ViewsKnown DEF ViewLocked
        <5>2. req[q].owner # o
          BY <1>0, <1>1, <2>2, <5>1 DEF ViewLocked
        <5> QED
          BY <1>6, <3>0, <4>1, <5>1, <5>2 DEF ViewLocked
      <4>2. CASE req[q].op = "update" /\ req[q].at # "lock"
        <5>1. req[q].id \in Views!Ids /\ req[q].id # i
          BY <1>1, <4>2, ViewsKnown DEF Views!Ids
        <5> QED
          BY <1>4, <3>0, <4>2, <5>1 DEF ViewLocked
      <4> QED
        BY <3>0, <4>1, <4>2 DEF ViewLocked
    <3>3. NameReserved(q)'
      <4> SUFFICES ASSUME req[q].at = "commit"
                   PROVE  /\ ~Views!NameTaken(q)'
                          /\ \A p \in Requests \ {q} :
                                req'[p].at = "commit" /\ req'[p].owner = req[q].owner => req'[p].name # req[q].name
        BY <3>0 DEF NameReserved
      <4>1. ~Views!NameTaken(q)'
        <5> SUFFICES ASSUME NEW j \in Views!OwnedBy(req[q].owner)', j # req[q].id, views'[j].name = req[q].name
                     PROVE  FALSE
          BY <3>0 DEF Views!NameTaken
        <5>1. CASE j = i
          <6>1. req[q].owner = o
            BY <1>4, <3>0, <5>1 DEF Views!OwnedBy, Views!Live
          <6>2. req[q].name # req[r].name
            BY <1>0, <2>2, <3>0, <6>1 DEF NameReserved
          <6> QED
            BY <1>4, <5>1, <6>2
        <5>2. CASE j # i
          <6>1. j \in Views!OwnedBy(req[q].owner) /\ views'[j] = views[j]
            BY <1>4, <3>0, <5>2 DEF Views!OwnedBy, Views!Live
          <6> QED
            BY <3>0, <6>1 DEF NameReserved, Views!NameTaken
        <5> QED
          BY <5>1, <5>2
      <4>2. \A p \in Requests \ {r} : req'[p] = req[p]
        BY <1>0, ViewsRelease
      <4>3. req'[r].at # "commit"
        BY <1>0, ViewsRelease DEF Views!Idle
      <4> QED
        BY <3>0, <4>1, <4>2, <4>3 DEF NameReserved
    <3> QED
      BY <3>1, <3>2, <3>3
  <2> QED
    BY <2>1, <2>2
<1>11. Views!UpdateExpected
  BY <1>2, <1>4 DEF Views!UpdateExpected
<1> QED
  BY <1>0, <1>7, <1>8, <1>9, <1>10, <1>11, ViewsRelease DEF ViewsInv

LEMMA ViewsCommitUpdate ==
    ASSUME ViewsInv, NEW r \in Requests, Views!CommitUpdate(r)
    PROVE  ViewsInv' /\ Views!UpdateExpected
<1> USE ViewAssumption
<1> DEFINE i == req[r].id
           o == req[r].owner
<1>0. /\ req[r].op = "update" /\ req[r].at = "commit" /\ created' = created /\ Views!Release(r)
      /\ views[i].revision < MaxRevision
      /\ views' = [views EXCEPT ![i].name = req[r].name, ![i].revision = @ + 1]
  BY DEF Views!CommitUpdate, Views!At
<1>1. /\ o \in Owners /\ req[r].name \in Names /\ i \in Views!Ids /\ i <= created /\ req[r].expected >= 1
      /\ ViewLocked(r) /\ NameReserved(r) /\ req[r].expected \in Nat
  BY <1>0, ViewsKnown DEF ViewsInv, ViewRequests
<1>2. rowLock[i] = r /\ views[i].owner = o /\ views[i].revision = req[r].expected
  BY <1>0, <1>1 DEF ViewLocked
<1>3. views \in [Views!Ids -> [owner : Owners \union {"nobody"}, name : Names \union {"none"}, revision : 0..MaxRevision]]
  BY DEF ViewsInv, Views!TypeOK, Views!Nobody
<1>4. views[i] # Views!NoView
  BY <1>1, <1>2 DEF Views!NoView
<1>5. /\ views' \in [Views!Ids -> [owner : Owners \union {"nobody"}, name : Names \union {"none"}, revision : 0..MaxRevision]]
      /\ views'[i].owner = o /\ views'[i].name = req[r].name /\ views'[i].revision = views[i].revision + 1
      /\ \A j \in Views!Ids \ {i} : views'[j] = views[j]
  BY <1>0, <1>1, <1>2, <1>3
<1>6. views'[i] # Views!NoView
  BY <1>1, <1>2, <1>5 DEF Views!NoView
<1>7. \A p : Views!OwnedBy(p)' = Views!OwnedBy(p)
  BY <1>1, <1>2, <1>4, <1>5, <1>6 DEF Views!OwnedBy, Views!Live
<1>8. Views!TypeOK'
  <2>1. \A q \in Requests : req'[q] \in ViewRequests
    BY <1>0, ViewsRelease
  <2> QED
    BY <1>0, <1>5, <2>1, ViewsRelease DEF ViewsInv, Views!TypeOK, Views!Nobody, ViewRequests
<1>9. ViewIds'
  BY <1>0, <1>1, <1>5 DEF ViewsInv, ViewIds, Views!Ids
<1>10. \A j \in Views!OwnedBy(o) \ {i} : views[j].name # req[r].name
  BY <1>0, <1>1 DEF NameReserved, Views!NameTaken
<1>11. Views!WithinLimit'
  <2> SUFFICES ASSUME NEW p \in Owners, NEW j \in Views!OwnedBy(p), NEW k \in Views!OwnedBy(p), views'[j].name = views'[k].name
               PROVE  j = k
    BY <1>7 DEF ViewsInv, Views!WithinLimit
  <2>0. j \in Views!Ids /\ k \in Views!Ids /\ views[j].owner = p /\ views[k].owner = p
    BY DEF Views!OwnedBy, Views!Live
  <2>1. CASE j # i /\ k # i
    BY <1>5, <2>0, <2>1 DEF ViewsInv, Views!WithinLimit
  <2>2. CASE j = i /\ k # i
    BY <1>2, <1>5, <1>10, <2>0, <2>2
  <2>3. CASE j # i /\ k = i
    BY <1>2, <1>5, <1>10, <2>0, <2>3
  <2> QED
    BY <2>1, <2>2, <2>3
<1>12. ASSUME NEW q \in Requests PROVE ViewRequestTyped(q)' /\ ViewLocked(q)' /\ NameReserved(q)'
  <2>1. CASE q = r
    <3>1. req'[q] = Views!Idle
      BY <1>0, <2>1, ViewsRelease
    <3> QED
      BY <3>1 DEF ViewRequestTyped, ViewLocked, NameReserved, Views!Idle
  <2>2. CASE q # r
    <3>0. /\ req'[q] = req[q] /\ req[q] \in ViewRequests /\ ViewRequestTyped(q) /\ ViewLocked(q) /\ NameReserved(q)
          /\ \A p \in Owners : limitLock[p] = q => limitLock'[p] = q
          /\ \A j \in Views!Ids : rowLock[j] = q => rowLock'[j] = q
      BY <1>0, <2>2, ViewsRelease DEF ViewsInv
    <3>1. ViewRequestTyped(q)'
      BY <1>0, <3>0 DEF ViewRequestTyped
    <3>2. ViewLocked(q)'
      <4>1. CASE req[q].op = "create"
        BY <1>7, <3>0, <4>1, ViewsKnown DEF ViewLocked
      <4>2. CASE req[q].op = "update" /\ req[q].at # "lock"
        <5>1. req[q].id \in Views!Ids /\ req[q].id # i
          BY <1>2, <2>2, <3>0, <4>2, ViewsKnown DEF ViewLocked
        <5> QED
          BY <1>5, <3>0, <4>2, <5>1 DEF ViewLocked
      <4> QED
        BY <3>0, <4>1, <4>2 DEF ViewLocked
    <3>3. NameReserved(q)'
      <4> SUFFICES ASSUME req[q].at = "commit"
                   PROVE  /\ ~Views!NameTaken(q)'
                          /\ \A p \in Requests \ {q} :
                                req'[p].at = "commit" /\ req'[p].owner = req[q].owner => req'[p].name # req[q].name
        BY <3>0 DEF NameReserved
      <4>1. ~Views!NameTaken(q)'
        <5> SUFFICES ASSUME NEW j \in Views!OwnedBy(req[q].owner), j # req[q].id, views'[j].name = req[q].name
                     PROVE  FALSE
          BY <1>7, <3>0 DEF Views!NameTaken
        <5>0. j \in Views!Ids /\ views[j].owner = req[q].owner
          BY DEF Views!OwnedBy, Views!Live
        <5>1. CASE j = i
          <6>1. req[q].owner = o
            BY <1>2, <5>0, <5>1
          <6>2. req[q].name # req[r].name
            BY <1>0, <2>2, <3>0, <6>1 DEF NameReserved
          <6> QED
            BY <1>5, <5>1, <6>2
        <5>2. CASE j # i
          BY <1>5, <3>0, <5>0, <5>2 DEF NameReserved, Views!NameTaken
        <5> QED
          BY <5>1, <5>2
      <4>2. \A p \in Requests \ {r} : req'[p] = req[p]
        BY <1>0, ViewsRelease
      <4>3. req'[r].at # "commit"
        BY <1>0, ViewsRelease DEF Views!Idle
      <4> QED
        BY <3>0, <4>1, <4>2, <4>3 DEF NameReserved
    <3> QED
      BY <3>1, <3>2, <3>3
  <2> QED
    BY <2>1, <2>2
<1>13. Views!UpdateExpected
  <2> SUFFICES ASSUME NEW j \in Views!Ids, views'[j] # views[j]
               PROVE  \E q \in Requests :
                         /\ req[q].op = "update" /\ req[q].id = j /\ req'[q] = Views!Idle
                         /\ req[q].expected = views[j].revision /\ req[q].owner = views[j].owner
                         /\ views'[j].revision = views[j].revision + 1
    BY DEF Views!UpdateExpected
  <2>1. j = i
    BY <1>5
  <2> QED
    BY <1>0, <1>2, <1>5, <2>1, ViewsRelease
<1> QED
  BY <1>0, <1>8, <1>9, <1>11, <1>12, <1>13, ViewsRelease DEF ViewsInv

LEMMA ViewsDelete ==
    ASSUME ViewsInv, NEW o \in Owners, NEW i \in Views!Ids, Views!Delete(o, i)
    PROVE  ViewsInv' /\ Views!UpdateExpected
<1>0. /\ UNCHANGED <<created, limitLock, rowLock, req>> /\ rowLock[i] = "nobody"
      /\ views' = [views EXCEPT ![i] = Views!NoView]
  BY DEF Views!Delete, Views!Nobody
<1>1. /\ views' \in [Views!Ids -> [owner : Owners \union {"nobody"}, name : Names \union {"none"}, revision : 0..MaxRevision]]
      /\ views'[i] = Views!NoView /\ \A j \in Views!Ids \ {i} : views'[j] = views[j]
  <2>1. Views!NoView \in [owner : Owners \union {"nobody"}, name : Names \union {"none"}, revision : 0..MaxRevision]
    BY ViewAssumption DEF Views!NoView, Views!Nobody
  <2> QED
    BY <1>0, <2>1 DEF ViewsInv, Views!TypeOK, Views!Nobody
<1>2. \A p : Views!OwnedBy(p)' \in SUBSET Views!OwnedBy(p) /\ \A j \in Views!OwnedBy(p)' : j # i /\ views'[j] = views[j]
  BY <1>1 DEF Views!OwnedBy, Views!Live
<1>3. \A p : Cardinality(Views!OwnedBy(p)') <= Cardinality(Views!OwnedBy(p)) /\ Cardinality(Views!OwnedBy(p)') \in Nat
  <2> SUFFICES ASSUME NEW p PROVE Cardinality(Views!OwnedBy(p)') <= Cardinality(Views!OwnedBy(p)) /\ Cardinality(Views!OwnedBy(p)') \in Nat
    OBVIOUS
  <2>1. IsFiniteSet(Views!OwnedBy(p))
    BY OwnedFinite
  <2> QED
    BY <1>2, <2>1, FS_Subset, FS_CardinalityType
<1>4. Views!TypeOK' /\ ViewIds'
  BY <1>0, <1>1 DEF ViewsInv, Views!TypeOK, Views!Nobody, ViewIds
<1>5. Views!WithinLimit'
  <2> SUFFICES ASSUME NEW p \in Owners
               PROVE  /\ Views!Cardinality(Views!OwnedBy(p)') <= MaxPerUser
                      /\ \A j, k \in Views!OwnedBy(p)' : views'[j].name = views'[k].name => j = k
    BY DEF Views!WithinLimit
  <2>1. Cardinality(Views!OwnedBy(p)) <= MaxPerUser /\ Cardinality(Views!OwnedBy(p)) \in Nat
    BY ViewsCardinality, OwnedFinite DEF ViewsInv, Views!WithinLimit
  <2>2. Cardinality(Views!OwnedBy(p)') <= MaxPerUser
    BY <1>3, <2>1, ViewAssumption
  <2>3. \A j, k \in Views!OwnedBy(p)' : views'[j].name = views'[k].name => j = k
    BY <1>2 DEF ViewsInv, Views!WithinLimit
  <2> QED
    BY <2>2, <2>3, ViewsCardinality
<1>6. ASSUME NEW q \in Requests PROVE ViewRequestTyped(q)' /\ ViewLocked(q)' /\ NameReserved(q)'
  <2>0. ViewRequestTyped(q) /\ ViewLocked(q) /\ NameReserved(q)
    BY DEF ViewsInv
  <2>1. ViewRequestTyped(q)'
    BY <1>0, <2>0 DEF ViewRequestTyped
  <2>2. ViewLocked(q)'
    <3>1. CASE req[q].op = "create"
      <4> PICK p : p = req[q].owner
        OBVIOUS
      <4>1. /\ Cardinality(Views!OwnedBy(p)') <= Cardinality(Views!OwnedBy(p))
            /\ Cardinality(Views!OwnedBy(p)') \in Nat /\ Cardinality(Views!OwnedBy(p)) \in Nat
        BY <1>3, OwnedFinite
      <4>2. Cardinality(Views!OwnedBy(p)) < MaxPerUser => Cardinality(Views!OwnedBy(p)') < MaxPerUser
        BY <4>1, ViewAssumption
      <4>3. Views!OwnedBy(p)' = Views!OwnedBy(req[q].owner)'
        BY <1>0
      <4> QED
        BY <1>0, <2>0, <3>1, <4>2, <4>3 DEF ViewLocked
    <3>2. CASE req[q].op = "update" /\ req[q].at # "lock"
      <4>1. req[q].id \in Views!Ids /\ req[q].id # i
        BY <1>0, <2>0, <3>2, ViewsKnown, ViewAssumption DEF ViewLocked
      <4> QED
        BY <1>0, <1>1, <2>0, <3>2, <4>1 DEF ViewLocked
    <3> QED
      BY <1>0, <3>1, <3>2 DEF ViewLocked
  <2>3. NameReserved(q)'
    <3>1. Views!NameTaken(q)' => Views!NameTaken(q)
      BY <1>0, <1>2 DEF Views!NameTaken
    <3> QED
      BY <1>0, <2>0, <3>1 DEF NameReserved
  <2> QED
    BY <2>1, <2>2, <2>3
<1>7. Views!UpdateExpected
  BY <1>1 DEF Views!UpdateExpected
<1> QED
  BY <1>0, <1>4, <1>5, <1>6, <1>7 DEF ViewsInv

LEMMA ViewsStep ==
    ASSUME ViewsInv, Views!Next
    PROVE  ViewsInv' /\ Views!UpdateExpected
<1>1. ASSUME UNCHANGED views PROVE Views!UpdateExpected
  BY <1>1 DEF Views!UpdateExpected
<1>2. ASSUME NEW r \in Requests, NEW o \in Owners, NEW n \in Names, Views!Create(r, o, n) PROVE ViewsInv' /\ UNCHANGED views
  BY <1>2, ViewsBegin DEF Views!Create
<1>3. ASSUME NEW r \in Requests, NEW o \in Owners, NEW n \in Names, NEW i \in 1..created, NEW e \in 1..MaxRevision,
             Views!Update(r, o, i, n, e)
      PROVE  ViewsInv' /\ UNCHANGED views
  BY <1>3, ViewsBegin DEF Views!Update
<1>4. ASSUME NEW r \in Requests, Views!Rollback(r) PROVE ViewsInv' /\ UNCHANGED views
  BY <1>4, ViewsRollback DEF Views!Rollback
<1>5. ASSUME NEW r \in Requests,
             \/ Views!LockLimit(r) \/ Views!CountViews(r) \/ Views!CheckName(r) \/ Views!Write(r)
             \/ Views!SelectView(r)
      PROVE  ViewsInv' /\ UNCHANGED views
  BY <1>5, ViewsAdvance DEF Views!LockLimit, Views!CountViews, Views!CheckName, Views!Write, Views!SelectView, Views!Rollback
<1> QED
  BY <1>1, <1>2, <1>3, <1>4, <1>5, ViewsCommitCreate, ViewsCommitUpdate, ViewsDelete DEF Views!Next, Views!Step, Views!Fail


----------------------------------------------------------------------------
(* Annotations and merge decisions                                          *)

LEMMA NewStatusKnown ==
    ASSUME NEW d \in Reviews!Decisions
    PROVE  Reviews!NewStatus(d) \in {"approved", "rejected", "deferred"}
BY DEF Reviews!Decisions, Reviews!NewStatus

LEMMA ReviewsInit == Reviews!Init => ReviewsInv
<1> SUFFICES ASSUME Reviews!Init PROVE ReviewsInv
  OBVIOUS
<1> USE ReviewAssumption
<1>1. \A r \in Reviewers : work[r] = Reviews!Idle
  BY DEF Reviews!Init
<1>2. Reviews!Empty \in [role : Roles \union {"none"}, pinned : BOOLEAN, revision : 0..MaxRevs, by : Reviewers \union {"none"}]
  BY DEF Reviews!Empty, Reviews!None
<1>3. \A r \in Reviewers : work[r].at = "none" /\ work[r].op = "idle"
  BY <1>1 DEF Reviews!Idle, Reviews!None
<1>4. Reviews!TypeOK
  BY <1>2, <1>3 DEF Reviews!Init, Reviews!TypeOK, Reviews!None
<1>5. DOMAIN work = Reviewers /\ DOMAIN decisions = MergePairs
  BY DEF Reviews!Init
<1>6. \A r \in Reviewers : ReviewTyped(r) /\ ReviewLocked(r)
  BY <1>1, <1>3 DEF ReviewTyped, ReviewLocked
<1>7. FirstAudited
  BY DEF FirstAudited, Reviews!Init, Reviews!Empty
<1>8. DecidedOnce
  BY DEF DecidedOnce, Reviews!Init
<1> QED
  BY <1>4, <1>5, <1>6, <1>7, <1>8 DEF ReviewsInv

\* What the invariant says of a request at work.
LEMMA ReviewsKnown ==
    ASSUME ReviewsInv, NEW r \in Reviewers
    PROVE  /\ work[r].op = "annotate" =>
                work[r].row \in Assets /\ work[r].expected \in 0..(MaxRevs - 1)
           /\ work[r].op = "decide" => work[r].row \in MergePairs /\ work[r].decision \in Reviews!Decisions
           /\ work[r].op \in {"idle", "annotate", "decide"}
           /\ ReviewTyped(r) /\ ReviewLocked(r)
<1>1. ReviewTyped(r) /\ ReviewLocked(r)
  BY DEF ReviewsInv
<1> QED
  BY <1>1 DEF ReviewTyped, Reviews!Idle

\* A step of one request that commits nothing and takes no lock from another keeps
\* the invariant, and it only has to be shown of that request.
LEMMA ReviewsMove ==
    ASSUME ReviewsInv, UNCHANGED <<annotations, audit, candidateStatus, decisions>>, NEW r \in Reviewers,
           locks' \in [Reviews!Rows -> Reviewers \union {"none"}],
           NEW x, work' = [work EXCEPT ![r] = x],
           \A q \in Reviewers \ {r} : \A y \in Reviews!Rows : locks[y] = q => locks'[y] = q,
           ReviewTyped(r)', ReviewLocked(r)'
    PROVE  ReviewsInv'
<1>1. DOMAIN work' = Reviewers /\ work'[r] = x /\ \A q \in Reviewers \ {r} : work'[q] = work[q]
  BY DEF ReviewsInv
<1>2. x.at \in {"none", "select", "write", "audit", "existing", "commit"}
  BY <1>1 DEF ReviewTyped, Reviews!Idle, Reviews!None
<1>3. Reviews!TypeOK'
  BY <1>1, <1>2 DEF ReviewsInv, Reviews!TypeOK, Reviews!None
<1>4. FirstAudited' /\ DecidedOnce'
  BY DEF ReviewsInv, FirstAudited, DecidedOnce
<1>5. ASSUME NEW q \in Reviewers, q # r PROVE ReviewTyped(q)' /\ ReviewLocked(q)'
  <2>0. ReviewTyped(q) /\ ReviewLocked(q) /\ work'[q] = work[q]
    BY <1>1, <1>5 DEF ReviewsInv
  <2>1. ReviewTyped(q)'
    BY <2>0 DEF ReviewTyped
  <2>2. work[q].op \in {"annotate", "decide"} => work[q].row \in Reviews!Rows
    BY ReviewsKnown DEF Reviews!Rows
  <2>3. ReviewLocked(q)'
    BY <1>5, <2>0, <2>2 DEF ReviewLocked
  <2> QED
    BY <2>1, <2>3
<1>6. \A q \in Reviewers : ReviewTyped(q)' /\ ReviewLocked(q)'
  BY <1>5
<1>7. DOMAIN decisions' = MergePairs
  BY DEF ReviewsInv
<1> QED
  BY <1>1, <1>3, <1>4, <1>6, <1>7 DEF ReviewsInv

\* What a request leaves when it is over.
LEMMA ReviewsRelease ==
    ASSUME ReviewsInv, NEW r \in Reviewers, Reviews!Release(r)
    PROVE  /\ locks' \in [Reviews!Rows -> Reviewers \union {"none"}]
           /\ work' = [work EXCEPT ![r] = Reviews!Idle] /\ DOMAIN work' = Reviewers
           /\ work'[r] = Reviews!Idle /\ \A q \in Reviewers \ {r} : work'[q] = work[q]
           /\ \A q \in Reviewers \ {r} : \A y \in Reviews!Rows : locks[y] = q => locks'[y] = q
           /\ ReviewTyped(r)' /\ ReviewLocked(r)' /\ auditKey' = auditKey
<1>1. /\ locks' = [x \in Reviews!Rows |-> IF locks[x] = r THEN "none" ELSE locks[x]]
      /\ work' = [work EXCEPT ![r] = Reviews!Idle] /\ auditKey' = auditKey
  BY DEF Reviews!Release, Reviews!None
<1>2. work'[r] = Reviews!Idle /\ DOMAIN work' = Reviewers /\ \A q \in Reviewers \ {r} : work'[q] = work[q]
  BY <1>1 DEF ReviewsInv
<1>3. locks' \in [Reviews!Rows -> Reviewers \union {"none"}]
  BY <1>1 DEF ReviewsInv, Reviews!TypeOK, Reviews!None
<1>4. \A q \in Reviewers \ {r} : \A y \in Reviews!Rows : locks[y] = q => locks'[y] = q
  BY <1>1
<1>5. ReviewTyped(r)' /\ ReviewLocked(r)'
  BY <1>2 DEF ReviewTyped, ReviewLocked, Reviews!Idle
<1> QED
  BY <1>1, <1>2, <1>3, <1>4, <1>5

LEMMA ReviewsRollback ==
    ASSUME ReviewsInv, NEW r \in Reviewers, Reviews!Rollback(r)
    PROVE  ReviewsInv' /\ UNCHANGED annotations
<1>1. UNCHANGED <<annotations, audit, candidateStatus, decisions>> /\ Reviews!Release(r)
  BY DEF Reviews!Rollback, Reviews!stored
<1> QED
  BY <1>1, ReviewsRelease, ReviewsMove

LEMMA ReviewsBegin ==
    ASSUME ReviewsInv, NEW r \in Reviewers,
           \/ \E a \in Assets, u \in Reviews!Updates, e \in 0..(MaxRevs - 1) : Reviews!Annotate(r, a, u, e)
           \/ \E c \in MergePairs, d \in Reviews!Decisions : Reviews!Decide(r, c, d)
    PROVE  ReviewsInv' /\ UNCHANGED annotations
<1>1. UNCHANGED <<annotations, audit, candidateStatus, decisions, locks>>
  BY DEF Reviews!Annotate, Reviews!Decide, Reviews!stored
<1>2. locks' \in [Reviews!Rows -> Reviewers \union {"none"}]
  BY <1>1 DEF ReviewsInv, Reviews!TypeOK, Reviews!None
<1>3. PICK x : /\ work' = [work EXCEPT ![r] = x] /\ x.at = "select"
               /\ \/ /\ x.op = "annotate" /\ x.row \in Assets /\ x.new \in Reviews!Updates
                     /\ x.expected \in 0..(MaxRevs - 1)
                  \/ x.op = "decide" /\ x.row \in MergePairs /\ x.decision \in Reviews!Decisions
  <2>1. CASE \E a \in Assets, u \in Reviews!Updates, e \in 0..(MaxRevs - 1) : Reviews!Annotate(r, a, u, e)
    <3> PICK a \in Assets, u \in Reviews!Updates, e \in 0..(MaxRevs - 1) : Reviews!Annotate(r, a, u, e)
      BY <2>1
    <3> DEFINE y == [op |-> "annotate", at |-> "select", row |-> a, new |-> u, expected |-> e, decision |-> "none"]
    <3>1. work' = [work EXCEPT ![r] = y]
      BY DEF Reviews!Annotate, Reviews!None
    <3>2. y.op = "annotate" /\ y.at = "select" /\ y.row \in Assets /\ y.new \in Reviews!Updates /\ y.expected \in 0..(MaxRevs - 1)
      OBVIOUS
    <3> HIDE DEF y
    <3> QED
      BY <3>1, <3>2
  <2>2. CASE \E c \in MergePairs, d \in Reviews!Decisions : Reviews!Decide(r, c, d)
    <3> PICK c \in MergePairs, d \in Reviews!Decisions : Reviews!Decide(r, c, d)
      BY <2>2
    <3> DEFINE y == [op |-> "decide", at |-> "select", row |-> c, new |-> Reviews!Empty, expected |-> 0, decision |-> d]
    <3>1. work' = [work EXCEPT ![r] = y]
      BY DEF Reviews!Decide
    <3>2. y.op = "decide" /\ y.at = "select" /\ y.row \in MergePairs /\ y.decision \in Reviews!Decisions
      OBVIOUS
    <3> HIDE DEF y
    <3> QED
      BY <3>1, <3>2
  <2> QED
    BY <2>1, <2>2
<1>4. work'[r] = x
  BY <1>3 DEF ReviewsInv
<1>5. ReviewTyped(r)' /\ ReviewLocked(r)'
  BY <1>3, <1>4 DEF ReviewTyped, ReviewLocked
<1> QED
  BY <1>1, <1>2, <1>3, <1>5, ReviewsMove

\* The merge of an update into the row it has read.
LEMMA MergedKnown ==
    ASSUME ReviewsInv, NEW r \in Reviewers, work[r].row \in Assets, NEW u \in Reviews!Updates
    PROVE  Reviews!Merged(r, u) \in [role : Roles \union {"none"}, pinned : BOOLEAN,
                                     revision : {annotations[work[r].row].revision + 1}, by : {r}]
<1> DEFINE now == annotations[work[r].row]
<1>1. now.role \in Roles \union {"none"} /\ now.pinned \in BOOLEAN
  BY DEF ReviewsInv, Reviews!TypeOK, Reviews!None
<1>2. u.role \in Roles \union {"none", "keep"}
  BY DEF Reviews!Updates, Reviews!None
<1>3. (IF u.role = "keep" THEN now.role ELSE u.role) \in Roles \union {"none"}
  BY <1>1, <1>2
<1>4. (IF u.pinned = "keep" THEN now.pinned ELSE u.pinned = "yes") \in BOOLEAN
  BY <1>1
<1> QED
  BY <1>3, <1>4 DEF Reviews!Merged

LEMMA ReviewsSelectAnnotation ==
    ASSUME ReviewsInv, NEW r \in Reviewers, Reviews!SelectAnnotation(r)
    PROVE  ReviewsInv' /\ UNCHANGED annotations
<1> USE ReviewAssumption
<1> DEFINE a == work[r].row
           new == Reviews!Merged(r, work[r].new)
<1>1. work[r].op = "annotate" /\ work[r].at = "select" /\ (annotations[a] # Reviews!Empty => locks[a] = "none")
  BY DEF Reviews!SelectAnnotation, Reviews!At, Reviews!None
<1>2. a \in Assets /\ a \in Reviews!Rows /\ work[r].new \in Reviews!Updates /\ work[r].expected \in 0..(MaxRevs - 1)
  BY <1>1, ReviewsKnown DEF ReviewTyped, Reviews!Idle, Reviews!Rows
<1>3. CASE Reviews!Rollback(r)
  BY <1>3, ReviewsRollback
<1>4. CASE ~Reviews!Rollback(r)
  <2>1. /\ annotations[a].revision = work[r].expected
        /\ work' = [work EXCEPT ![r].at = "write", ![r].new = new]
        /\ locks' = IF annotations[a] = Reviews!Empty THEN locks ELSE [locks EXCEPT ![a] = r]
        /\ UNCHANGED <<annotations, audit, candidateStatus, decisions>>
    BY <1>4 DEF Reviews!SelectAnnotation, Reviews!stored
  <2> DEFINE x == [work[r] EXCEPT !.at = "write", !.new = new]
  <2>2. work' = [work EXCEPT ![r] = x] /\ work'[r] = x
    BY <2>1 DEF ReviewsInv
  <2>3. locks' \in [Reviews!Rows -> Reviewers \union {"none"}]
    BY <1>2, <2>1 DEF ReviewsInv, Reviews!TypeOK, Reviews!None
  <2>4. \A q \in Reviewers \ {r} : \A y \in Reviews!Rows : locks[y] = q => locks'[y] = q
    BY <1>1, <2>1, <1>2 DEF ReviewsInv, Reviews!TypeOK, Reviews!None
  <2>5. /\ work'[r].op = "annotate" /\ work'[r].at = "write" /\ work'[r].row = a
        /\ work'[r].expected = work[r].expected /\ work'[r].new = new
    BY <1>1, <2>2 DEF ReviewsInv
  <2>6. ReviewTyped(r)'
    BY <1>2, <2>1, <2>5, MergedKnown DEF ReviewTyped
  <2>7. work[r].expected > 0 => locks'[a] = r
    <3> SUFFICES ASSUME work[r].expected > 0 PROVE locks'[a] = r
      OBVIOUS
    <3>1. annotations[a] # Reviews!Empty
      BY <2>1 DEF Reviews!Empty
    <3> QED
      BY <1>2, <2>1, <3>1 DEF ReviewsInv, Reviews!TypeOK
  <2>8. ReviewLocked(r)'
    BY <2>1, <2>5, <2>7 DEF ReviewLocked
  <2> QED
    BY <2>1, <2>2, <2>3, <2>4, <2>6, <2>8, ReviewsMove
<1> QED
  BY <1>3, <1>4

LEMMA ReviewsWriteAnnotation ==
    ASSUME ReviewsInv, NEW r \in Reviewers, Reviews!WriteAnnotation(r)
    PROVE  ReviewsInv' /\ UNCHANGED annotations
<1> USE ReviewAssumption
<1> DEFINE a == work[r].row
           x == [work[r] EXCEPT !.at = "audit"]
<1>1. /\ work[r].op = "annotate" /\ work[r].at = "write" /\ locks[a] \in {"none", r}
      /\ locks' = [locks EXCEPT ![a] = r] /\ work' = [work EXCEPT ![r].at = "audit"]
      /\ UNCHANGED <<annotations, audit, candidateStatus, decisions>>
  BY DEF Reviews!WriteAnnotation, Reviews!At, Reviews!Goto, Reviews!None, Reviews!stored
<1>2. a \in Assets /\ a \in Reviews!Rows /\ ReviewTyped(r) /\ ReviewLocked(r)
  BY <1>1, ReviewsKnown DEF Reviews!Rows
<1>3. work' = [work EXCEPT ![r] = x] /\ work'[r] = x
  BY <1>1 DEF ReviewsInv
<1>4. locks' \in [Reviews!Rows -> Reviewers \union {"none"}] /\ locks'[a] = r
  BY <1>1, <1>2 DEF ReviewsInv, Reviews!TypeOK, Reviews!None
<1>5. \A q \in Reviewers \ {r} : \A y \in Reviews!Rows : locks[y] = q => locks'[y] = q
  BY <1>1, <1>2 DEF ReviewsInv, Reviews!TypeOK, Reviews!None
<1>6. /\ work'[r].op = "annotate" /\ work'[r].at = "audit" /\ work'[r].row = a
      /\ work'[r].expected = work[r].expected /\ work'[r].new = work[r].new
  BY <1>1, <1>3 DEF ReviewsInv
<1>7. ReviewTyped(r)'
  BY <1>1, <1>2, <1>6 DEF ReviewTyped, Reviews!Idle
<1>8. ReviewLocked(r)'
  BY <1>1, <1>2, <1>4, <1>6 DEF ReviewLocked
<1> QED
  BY <1>1, <1>3, <1>4, <1>5, <1>7, <1>8, ReviewsMove

\* A committed annotation replaces the revision its author saw: the lock keeps it
\* there, and for a first write the audit table's key refuses a second one.
LEMMA ReviewsCommitAnnotation ==
    ASSUME ReviewsInv, NEW r \in Reviewers, Reviews!CommitAnnotation(r)
    PROVE  ReviewsInv' /\ Reviews!AnnotationExpected
<1> USE ReviewAssumption
<1> PICK a : a = work[r].row
  OBVIOUS
<1> PICK new : new = work[r].new
  OBVIOUS
<1>1. work[r].op = "annotate" /\ work[r].at = "audit"
  BY DEF Reviews!CommitAnnotation, Reviews!At
<1>2. CASE Reviews!Rollback(r)
  <2>1. ReviewsInv' /\ UNCHANGED annotations
    BY <1>2, ReviewsRollback
  <2> QED
    BY <2>1 DEF Reviews!AnnotationExpected
<1>3. CASE ~Reviews!Rollback(r)
  <2>0. /\ ~(auditKey /\ Reviews!AuditTaken(r)) /\ Reviews!Release(r)
        /\ annotations' = [annotations EXCEPT ![a] = new]
        /\ audit' = audit \union {Reviews!AuditRow(r)}
        /\ UNCHANGED <<candidateStatus, decisions>>
    BY <1>3 DEF Reviews!CommitAnnotation
  <2>1. /\ a \in Assets /\ a \in Reviews!Rows /\ work[r].expected \in 0..(MaxRevs - 1)
        /\ new \in [role : Roles \union {"none"}, pinned : BOOLEAN, revision : {work[r].expected + 1}, by : {r}]
        /\ locks[a] = r /\ (work[r].expected > 0 => annotations[a].revision = work[r].expected)
    BY <1>1, ReviewsKnown DEF ReviewTyped, ReviewLocked, Reviews!Idle, Reviews!Rows
  <2>2. annotations \in [Assets -> [role : Roles \union {"none"}, pinned : BOOLEAN,
                                    revision : 0..MaxRevs, by : Reviewers \union {"none"}]]
    BY DEF ReviewsInv, Reviews!TypeOK, Reviews!None
  <2>3. /\ new.revision = work[r].expected + 1 /\ new.by = r
        /\ new \in [role : Roles \union {"none"}, pinned : BOOLEAN,
                    revision : 0..MaxRevs, by : Reviewers \union {"none"}]
    BY <2>1
  <2>4. /\ annotations' \in [Assets -> [role : Roles \union {"none"}, pinned : BOOLEAN,
                                       revision : 0..MaxRevs, by : Reviewers \union {"none"}]]
        /\ annotations'[a] = new /\ \A b \in Assets \ {a} : annotations'[b] = annotations[b]
    BY <2>0, <2>1, <2>2, <2>3
  <2>5. Reviews!TypeOK'
    <3>1. \A q \in Reviewers : work'[q].at \in {"none", "select", "write", "audit", "existing", "commit"}
      BY <2>0, ReviewsRelease DEF ReviewsInv, Reviews!TypeOK, Reviews!None, Reviews!Idle
    <3> QED
      BY <2>0, <2>4, <3>1, ReviewsRelease DEF ReviewsInv, Reviews!TypeOK, Reviews!None
  <2>6. [asset |-> a, revision |-> new.revision, by |-> r] \in audit' /\ audit \in SUBSET audit'
    BY <2>0 DEF Reviews!AuditRow
  <2>7. FirstAudited'
    <3> SUFFICES ASSUME NEW b \in Assets
                 PROVE  /\ annotations'[b].revision = 0 => annotations'[b] = Reviews!Empty
                        /\ annotations'[b].revision > 0 => \E x \in audit' : x.asset = b /\ x.revision = 1
      BY DEF FirstAudited
    <3>0. /\ annotations[b].revision = 0 => annotations[b] = Reviews!Empty
          /\ annotations[b].revision > 0 => \E x \in audit : x.asset = b /\ x.revision = 1
      BY DEF ReviewsInv, FirstAudited
    <3>1. CASE b # a
      BY <2>4, <2>6, <3>0, <3>1
    <3>2. CASE b = a /\ work[r].expected = 0
      BY <2>3, <2>4, <2>6, <3>2
    <3>3. CASE b = a /\ work[r].expected > 0
      BY <2>1, <2>3, <2>4, <2>6, <3>0, <3>3
    <3> QED
      BY <2>1, <3>1, <3>2, <3>3
  <2>8. ASSUME NEW q \in Reviewers PROVE ReviewTyped(q)' /\ ReviewLocked(q)'
    <3>1. CASE q = r
      BY <2>0, <3>1, ReviewsRelease
    <3>2. CASE q # r
      <4>0. /\ work'[q] = work[q] /\ ReviewTyped(q) /\ ReviewLocked(q)
            /\ \A y \in Reviews!Rows : locks[y] = q => locks'[y] = q
        BY <2>0, <3>2, ReviewsRelease, ReviewsKnown
      <4>1. ReviewTyped(q)'
        BY <4>0 DEF ReviewTyped
      <4>2. CASE work[q].op = "annotate"
        <5>1. work[q].row \in Assets /\ work[q].row \in Reviews!Rows
          BY <4>2, ReviewsKnown DEF Reviews!Rows
        <5>2. work[q].at \in {"write", "audit"} /\ work[q].expected > 0 => work[q].row # a
          BY <2>1, <3>2, <4>0, <4>2 DEF ReviewLocked
        <5> QED
          BY <2>4, <4>0, <4>1, <4>2, <5>1, <5>2 DEF ReviewLocked
      <4>3. CASE work[q].op = "decide"
        <5>1. work[q].row \in Reviews!Rows
          BY <4>3, ReviewsKnown DEF Reviews!Rows
        <5> QED
          BY <2>0, <4>0, <4>1, <4>3, <5>1 DEF ReviewLocked
      <4>4. CASE work[q].op = "idle"
        BY <4>0, <4>1, <4>4 DEF ReviewLocked
      <4> QED
        BY <4>2, <4>3, <4>4, ReviewsKnown
    <3> QED
      BY <3>1, <3>2
  <2>9. DecidedOnce' /\ DOMAIN decisions' = MergePairs /\ DOMAIN work' = Reviewers
    BY <2>0, ReviewsRelease DEF ReviewsInv, DecidedOnce
  <2>10. Reviews!AnnotationExpected
    <3>1. work[r].expected = 0 /\ auditKey => annotations[a].revision = 0
      <4> SUFFICES ASSUME work[r].expected = 0, auditKey, annotations[a].revision # 0 PROVE FALSE
        OBVIOUS
      <4>1. annotations[a].revision > 0
        BY <2>1, <2>2
      <4>2. \E x \in audit : x.asset = a /\ x.revision = 1
        BY <2>1, <4>1 DEF ReviewsInv, FirstAudited
      <4> QED
        BY <2>0, <2>3, <4>2 DEF Reviews!AuditTaken
    <3>2. \/ work[r].expected = annotations[a].revision
          \/ ~auditKey /\ work[r].expected = 0 /\ annotations'[a].revision = 1
      BY <2>1, <2>3, <2>4, <3>1
    <3>3. work'[r] = Reviews!Idle
      BY <2>0, ReviewsRelease
    <3> SUFFICES ASSUME NEW b \in Assets, annotations'[b] # annotations[b]
                 PROVE  /\ work[r].op = "annotate" /\ work[r].row = b /\ work'[r] = Reviews!Idle
                        /\ annotations'[b].by = r
                        /\ \/ work[r].expected = annotations[b].revision
                           \/ ~auditKey /\ work[r].expected = 0 /\ annotations'[b].revision = 1
      BY DEF Reviews!AnnotationExpected
    <3>4. b = a
      BY <2>4
    <3> QED
      BY <1>1, <2>3, <2>4, <3>2, <3>3, <3>4
  <2> QED
    BY <2>5, <2>7, <2>8, <2>9, <2>10 DEF ReviewsInv
<1> QED
  BY <1>2, <1>3

LEMMA ReviewsSelectCandidate ==
    ASSUME ReviewsInv, NEW r \in Reviewers, Reviews!SelectCandidate(r) \/ Reviews!CheckDecision(r)
    PROVE  ReviewsInv' /\ UNCHANGED annotations
<1> USE ReviewAssumption
<1> DEFINE c == work[r].row
<1>0. work[r].op = "decide" /\ work[r].at \in {"select", "existing"}
  BY DEF Reviews!SelectCandidate, Reviews!CheckDecision, Reviews!At
<1>1. c \in MergePairs /\ c \in Reviews!Rows /\ work[r].decision \in Reviews!Decisions /\ ReviewLocked(r)
  BY <1>0, ReviewsKnown DEF Reviews!Rows
<1>2. CASE Reviews!Rollback(r)
  BY <1>2, ReviewsRollback
<1>3. CASE ~Reviews!Rollback(r)
  <2>1. /\ UNCHANGED <<annotations, audit, candidateStatus, decisions>>
        /\ \/ /\ locks[c] = "none" /\ locks' = [locks EXCEPT ![c] = r] /\ candidateStatus[c] # "none"
              /\ work' = [work EXCEPT ![r].at = "existing"]
           \/ /\ locks' = locks /\ work[r].at = "existing" /\ decisions[c] = {}
              /\ work' = [work EXCEPT ![r].at = "commit"]
    BY <1>3 DEF Reviews!SelectCandidate, Reviews!CheckDecision, Reviews!At, Reviews!Goto, Reviews!None, Reviews!stored
  <2>2. PICK there \in {"existing", "commit"} : work' = [work EXCEPT ![r].at = there]
    BY <2>1
  <2> DEFINE x == [work[r] EXCEPT !.at = there]
  <2>3. work' = [work EXCEPT ![r] = x] /\ work'[r] = x
    BY <2>2 DEF ReviewsInv
  <2>4. locks' \in [Reviews!Rows -> Reviewers \union {"none"}]
    BY <1>1, <2>1 DEF ReviewsInv, Reviews!TypeOK, Reviews!None
  <2>5. \A q \in Reviewers \ {r} : \A y \in Reviews!Rows : locks[y] = q => locks'[y] = q
    BY <1>1, <2>1 DEF ReviewsInv, Reviews!TypeOK, Reviews!None
  <2>6. work'[r].op = "decide" /\ work'[r].at = there /\ work'[r].row = c /\ work'[r].decision = work[r].decision
    BY <1>0, <2>3 DEF ReviewsInv
  <2>7. ReviewTyped(r)'
    BY <1>1, <2>6 DEF ReviewTyped
  <2>8. /\ locks'[c] = r /\ candidateStatus'[c] # "none"
        /\ there = "commit" => decisions'[c] = {}
    <3>1. CASE /\ locks[c] = "none" /\ locks' = [locks EXCEPT ![c] = r] /\ candidateStatus[c] # "none"
               /\ work' = [work EXCEPT ![r].at = "existing"]
      <4>1. there = "existing"
        BY <2>6, <3>1 DEF ReviewsInv
      <4>2. locks'[c] = r
        BY <1>1, <3>1 DEF ReviewsInv, Reviews!TypeOK
      <4> QED
        BY <2>1, <3>1, <4>1, <4>2
    <3>2. CASE locks' = locks /\ work[r].at = "existing" /\ decisions[c] = {}
      BY <1>0, <1>1, <2>1, <3>2 DEF ReviewLocked
    <3> QED
      BY <2>1, <3>1, <3>2
  <2>9. ReviewLocked(r)'
    BY <2>6, <2>8 DEF ReviewLocked
  <2> QED
    BY <2>1, <2>3, <2>4, <2>5, <2>7, <2>9, ReviewsMove
<1> QED
  BY <1>2, <1>3

\* A decision is the candidate's first: its lock keeps others from deciding.
LEMMA ReviewsCommitDecision ==
    ASSUME ReviewsInv, NEW r \in Reviewers, Reviews!CommitDecision(r)
    PROVE  ReviewsInv' /\ UNCHANGED annotations
<1> USE ReviewAssumption
<1> PICK c : c = work[r].row
  OBVIOUS
<1> PICK d : d = work[r].decision
  OBVIOUS
<1> PICK s : s = Reviews!NewStatus(d)
  OBVIOUS
<1>0. /\ work[r].op = "decide" /\ work[r].at = "commit" /\ Reviews!Release(r) /\ UNCHANGED <<annotations, audit>>
      /\ decisions' = [decisions EXCEPT ![c] = @ \union {[decision |-> d, by |-> r]}]
      /\ candidateStatus' = [candidateStatus EXCEPT ![c] = s]
  BY DEF Reviews!CommitDecision, Reviews!At
<1>1. c \in MergePairs /\ c \in Reviews!Rows /\ d \in Reviews!Decisions /\ ReviewLocked(r)
  BY <1>0, ReviewsKnown DEF Reviews!Rows
<1>2. locks[c] = r /\ decisions[c] = {}
  BY <1>0, <1>1 DEF ReviewLocked
<1>3. s \in {"approved", "rejected", "deferred"}
  BY <1>1, NewStatusKnown
<1>4. /\ candidateStatus' \in [MergePairs -> {"none", "pending", "approved", "rejected", "deferred"}]
      /\ candidateStatus'[c] = s /\ \A e \in MergePairs \ {c} : candidateStatus'[e] = candidateStatus[e]
  BY <1>0, <1>1, <1>3 DEF ReviewsInv, Reviews!TypeOK, Reviews!None
<1>5. /\ DOMAIN decisions' = MergePairs /\ decisions'[c] = {[decision |-> d, by |-> r]}
      /\ \A e \in MergePairs \ {c} : decisions'[e] = decisions[e]
  BY <1>0, <1>1, <1>2 DEF ReviewsInv
<1>6. Reviews!TypeOK'
  <2>1. \A q \in Reviewers : work'[q].at \in {"none", "select", "write", "audit", "existing", "commit"}
    BY <1>0, ReviewsRelease DEF ReviewsInv, Reviews!TypeOK, Reviews!None, Reviews!Idle
  <2> QED
    BY <1>0, <1>4, <2>1, ReviewsRelease DEF ReviewsInv, Reviews!TypeOK, Reviews!None
<1>7. FirstAudited' /\ DOMAIN work' = Reviewers
  BY <1>0, ReviewsRelease DEF ReviewsInv, FirstAudited
<1>8. DecidedOnce'
  <2> SUFFICES ASSUME NEW e \in MergePairs
               PROVE  \/ decisions'[e] = {}
                      \/ \E f \in [decision : Reviews!Decisions, by : Reviewers] :
                            decisions'[e] = {f} /\ candidateStatus'[e] = Reviews!NewStatus(f.decision)
    BY DEF DecidedOnce
  <2>1. CASE e = c
    <3> DEFINE f == [decision |-> d, by |-> r]
    <3>1. f \in [decision : Reviews!Decisions, by : Reviewers] /\ f.decision = d
      BY <1>1
    <3> QED
      BY <1>4, <1>5, <2>1, <3>1
  <2>2. CASE e # c
    BY <1>4, <1>5, <2>2 DEF ReviewsInv, DecidedOnce
  <2> QED
    BY <2>1, <2>2
<1>9. ASSUME NEW q \in Reviewers PROVE ReviewTyped(q)' /\ ReviewLocked(q)'
  <2>1. CASE q = r
    BY <1>0, <2>1, ReviewsRelease
  <2>2. CASE q # r
    <3>0. /\ work'[q] = work[q] /\ ReviewTyped(q) /\ ReviewLocked(q)
          /\ \A y \in Reviews!Rows : locks[y] = q => locks'[y] = q
      BY <1>0, <2>2, ReviewsRelease, ReviewsKnown
    <3>1. ReviewTyped(q)'
      BY <3>0 DEF ReviewTyped
    <3>2. CASE work[q].op = "annotate"
      <4>1. work[q].row \in Reviews!Rows
        BY <3>2, ReviewsKnown DEF Reviews!Rows
      <4> QED
        BY <1>0, <3>0, <3>1, <3>2, <4>1 DEF ReviewLocked
    <3>3. CASE work[q].op = "decide"
      <4>1. work[q].row \in MergePairs /\ work[q].row \in Reviews!Rows
        BY <3>3, ReviewsKnown DEF Reviews!Rows
      <4>2. work[q].at \in {"existing", "commit"} => work[q].row # c
        BY <1>2, <2>2, <3>0, <3>3 DEF ReviewLocked
      <4> QED
        BY <1>4, <1>5, <3>0, <3>1, <3>3, <4>1, <4>2 DEF ReviewLocked
    <3>4. CASE work[q].op = "idle"
      BY <3>0, <3>1, <3>4 DEF ReviewLocked
    <3> QED
      BY <3>2, <3>3, <3>4, ReviewsKnown
  <2> QED
    BY <2>1, <2>2
<1> QED
  BY <1>0, <1>5, <1>6, <1>7, <1>8, <1>9 DEF ReviewsInv

LEMMA ReviewsPropose ==
    ASSUME ReviewsInv, NEW c \in MergePairs, Reviews!Propose(c)
    PROVE  ReviewsInv' /\ UNCHANGED annotations
<1>0. /\ candidateStatus[c] = "none" /\ candidateStatus' = [candidateStatus EXCEPT ![c] = "pending"]
      /\ UNCHANGED <<auditKey, annotations, audit, decisions, locks, work>>
  BY DEF Reviews!Propose, Reviews!None
<1>1. /\ candidateStatus' \in [MergePairs -> {"none", "pending", "approved", "rejected", "deferred"}]
      /\ candidateStatus'[c] = "pending" /\ \A e \in MergePairs \ {c} : candidateStatus'[e] = candidateStatus[e]
  BY <1>0 DEF ReviewsInv, Reviews!TypeOK, Reviews!None
<1>2. Reviews!TypeOK'
  BY <1>0, <1>1 DEF ReviewsInv, Reviews!TypeOK, Reviews!None
<1>3. FirstAudited' /\ DOMAIN work' = Reviewers /\ DOMAIN decisions' = MergePairs
  BY <1>0 DEF ReviewsInv, FirstAudited
<1>4. decisions[c] = {}
  <2> SUFFICES ASSUME NEW d \in [decision : Reviews!Decisions, by : Reviewers],
                      candidateStatus[c] = Reviews!NewStatus(d.decision)
               PROVE  FALSE
    BY DEF ReviewsInv, DecidedOnce
  <2>1. Reviews!NewStatus(d.decision) \in {"approved", "rejected", "deferred"}
    BY NewStatusKnown
  <2> QED
    BY <1>0, <2>1
<1>5. DecidedOnce'
  <2> SUFFICES ASSUME NEW e \in MergePairs
               PROVE  \/ decisions'[e] = {}
                      \/ \E f \in [decision : Reviews!Decisions, by : Reviewers] :
                            decisions'[e] = {f} /\ candidateStatus'[e] = Reviews!NewStatus(f.decision)
    BY DEF DecidedOnce
  <2>1. CASE e = c
    BY <1>0, <1>4, <2>1
  <2>2. CASE e # c
    BY <1>0, <1>1, <2>2 DEF ReviewsInv, DecidedOnce
  <2> QED
    BY <2>1, <2>2
<1>6. ASSUME NEW q \in Reviewers PROVE ReviewTyped(q)' /\ ReviewLocked(q)'
  <2>1. ReviewTyped(q) /\ ReviewLocked(q) /\ work'[q] = work[q]
    BY <1>0 DEF ReviewsInv
  <2>2. ReviewTyped(q)'
    BY <2>1 DEF ReviewTyped
  <2>3. work[q].op = "decide" => work[q].row \in MergePairs
    BY ReviewsKnown
  <2> QED
    BY <1>0, <1>1, <2>1, <2>2, <2>3 DEF ReviewLocked
<1> QED
  BY <1>0, <1>2, <1>3, <1>5, <1>6 DEF ReviewsInv

LEMMA ReviewsStep ==
    ASSUME ReviewsInv, Reviews!Next
    PROVE  ReviewsInv' /\ Reviews!AnnotationExpected
<1>1. ASSUME UNCHANGED annotations PROVE Reviews!AnnotationExpected
  BY <1>1 DEF Reviews!AnnotationExpected
<1> QED
  BY <1>1, ReviewsBegin, ReviewsSelectAnnotation, ReviewsWriteAnnotation, ReviewsCommitAnnotation,
     ReviewsSelectCandidate, ReviewsCommitDecision, ReviewsPropose, ReviewsRollback
     DEF Reviews!Next, Reviews!Fail

LEMMA ReviewsFinal == ReviewsInv => Reviews!DecisionsFinal
<1> SUFFICES ASSUME ReviewsInv, NEW c \in MergePairs
             PROVE  /\ Reviews!Cardinality(decisions[c]) <= 1
                    /\ \A d \in decisions[c] : candidateStatus[c] = Reviews!NewStatus(d.decision)
  BY DEF Reviews!DecisionsFinal
<1>1. \A S : Reviews!Cardinality(S) = Cardinality(S)
  <2> TAKE S
  <2> QED
    BY DEF Reviews!Cardinality, Cardinality
<1>2. CASE decisions[c] = {}
  <2>1. Reviews!Cardinality(decisions[c]) = 0
    BY <1>1, <1>2, FS_EmptySet
  <2> QED
    BY <1>2, <2>1
<1>3. ASSUME NEW d, decisions[c] = {d}, candidateStatus[c] = Reviews!NewStatus(d.decision)
      PROVE  /\ Reviews!Cardinality(decisions[c]) <= 1
             /\ \A e \in decisions[c] : candidateStatus[c] = Reviews!NewStatus(e.decision)
  <2>1. Reviews!Cardinality(decisions[c]) = 1
    BY <1>1, <1>3, FS_Singleton
  <2> QED
    BY <1>3, <2>1
<1> QED
  BY <1>2, <1>3 DEF ReviewsInv, DecidedOnce

----------------------------------------------------------------------------
(* All parts                                                                *)

requestVars == <<part, keyVars, viewVars, reviewVars, searchVars, pageVars, readerVars, changes>>

LEMMA RequestsStart == RequestsInit => RequestsInv
BY KeysInit, ViewsInit, ReviewsInit DEF RequestsInit, RequestsInv

\* Steps that leave a part alone.
LEMMA KeysSame == KeysInv /\ UNCHANGED keyVars => KeysInv'
BY DEF keyVars, KeysInv, Keys!TypeOK, ClientsTyped, UnderWay, CacheServed, RefreshSerial, Keys!HandledKeyRecent

LEMMA ViewsSame == ViewsInv /\ UNCHANGED viewVars => ViewsInv'
<1> SUFFICES ASSUME ViewsInv, UNCHANGED viewVars PROVE ViewsInv'
  OBVIOUS
<1>1. UNCHANGED <<views, created, limitLock, rowLock, req>>
  BY DEF viewVars
<1>2. \A o : Views!OwnedBy(o)' = Views!OwnedBy(o)
  BY <1>1 DEF Views!OwnedBy, Views!Live
<1>3. Views!TypeOK' /\ ViewIds' /\ Views!WithinLimit'
  BY <1>1, <1>2 DEF ViewsInv, Views!TypeOK, ViewIds, Views!WithinLimit
<1>4. ASSUME NEW r \in Requests PROVE ViewRequestTyped(r)' /\ ViewLocked(r)' /\ NameReserved(r)'
  <2>1. ViewRequestTyped(r) /\ ViewLocked(r) /\ NameReserved(r)
    BY DEF ViewsInv
  <2>2. ViewRequestTyped(r)'
    BY <1>1, <2>1 DEF ViewRequestTyped
  <2>3. ViewLocked(r)'
    BY <1>1, <1>2, <2>1 DEF ViewLocked
  <2>4. NameReserved(r)'
    BY <1>1, <1>2, <2>1 DEF NameReserved, Views!NameTaken
  <2> QED
    BY <2>2, <2>3, <2>4
<1> QED
  BY <1>1, <1>3, <1>4 DEF ViewsInv

LEMMA ReviewsSame == ReviewsInv /\ UNCHANGED reviewVars => ReviewsInv'
BY DEF reviewVars, ReviewsInv, Reviews!TypeOK, ReviewTyped, ReviewLocked, FirstAudited, DecidedOnce

\* Every step keeps the invariant of the part at hand; the actions of the others
\* are disabled.
LEMMA RequestsStep ==
    ASSUME RequestsInv, [RequestsNext]_requestVars
    PROVE  /\ RequestsInv'
           /\ part = "keys" => Keys!FetchApart \/ UNCHANGED keyVars
<1>1. part' = part
  BY DEF RequestsNext, requestVars
<1>2. CASE part = "keys" /\ Keys!Next
  <2>1. KeysInv' /\ Keys!FetchApart
    BY <1>2, KeysStep DEF RequestsInv
  <2> QED
    BY <1>1, <1>2, <2>1 DEF RequestsInv
<1>3. CASE part = "views" /\ Views!Next
  <2>1. ViewsInv' /\ Views!UpdateExpected
    BY <1>3, ViewsStep DEF RequestsInv
  <2> QED
    BY <1>1, <1>3, <2>1 DEF RequestsInv
<1>4. CASE part = "reviews" /\ Reviews!Next
  <2>1. ReviewsInv' /\ Reviews!AnnotationExpected
    BY <1>4, ReviewsStep DEF RequestsInv
  <2> QED
    BY <1>1, <1>4, <2>1 DEF RequestsInv
<1>5. CASE part \notin {"keys", "views", "reviews"}
  BY <1>1, <1>5 DEF RequestsInv
<1>6. CASE UNCHANGED requestVars
  <2>1. UNCHANGED keyVars /\ UNCHANGED viewVars /\ UNCHANGED reviewVars
    BY <1>6 DEF requestVars
  <2>2. KeysInv => KeysInv'
    BY <2>1, KeysSame
  <2>3. ViewsInv => ViewsInv'
    BY <2>1, ViewsSame
  <2>4. ReviewsInv => ReviewsInv'
    BY <2>1, ReviewsSame
  <2> QED
    BY <1>1, <2>1, <2>2, <2>3, <2>4 DEF RequestsInv
<1> QED
  BY <1>2, <1>3, <1>4, <1>5, <1>6 DEF RequestsNext

\* The invariants of the key store, of the views and of the reviews.
THEOREM RequestsInvariant == RequestsSpec => []RequestsInv
<1>1. RequestsInit => RequestsInv
  BY RequestsStart
<1>2. RequestsInv /\ [RequestsNext]_requestVars => RequestsInv'
  BY RequestsStep
<1> QED
  BY <1>1, <1>2, PTL DEF RequestsSpec, requestVars

\* A request is served only under a key the provider vouched for within the
\* lifetime of the keys, for any number of requests and key ids.
THEOREM ServedUnderRecentKey == RequestsSpec => []HandledKeyRecent
<1>1. RequestsInv => HandledKeyRecent
  BY DEF RequestsInv, KeysInv, HandledKeyRecent
<1> QED
  BY <1>1, RequestsInvariant, PTL

\* However many requests miss at once and however long an answer takes, the provider's
\* keys are fetched with success at most once in a cooldown, the keys changed or not, and
\* no two fetches overlap.  Fetches that fail are not limited.
THEOREM SuccessfulFetchesApart == RequestsSpec => FetchesApart
<1>1. RequestsInv /\ [RequestsNext]_requestVars => [part = "keys" => Keys!FetchApart]_keyVars
  BY RequestsStep
<1> QED
  BY <1>1, RequestsInvariant, PTL DEF RequestsSpec, requestVars, FetchesApart

\* Overlapping creates, renames, deletes and roll-backs leave no owner with more
\* views than the limit, or with two of one name.
THEOREM ViewsWithinLimit == RequestsSpec => []WithinLimit
<1>1. RequestsInv => WithinLimit
  BY DEF RequestsInv, ViewsInv, WithinLimit
<1> QED
  BY <1>1, RequestsInvariant, PTL

\* What a committed update of a view or of an annotation replaces is the revision
\* its author expected; a first annotation owes it to the audit table's key.
THEOREM UpdatesNotLost == RequestsSpec => NoLostUpdate
<1>1. RequestsInv /\ [RequestsNext]_requestVars =>
        [/\ part = "views" => Views!UpdateExpected
         /\ part = "reviews" => Reviews!AnnotationExpected]_<<viewVars, reviewVars>>
  <2> SUFFICES ASSUME RequestsInv, [RequestsNext]_requestVars, ~ UNCHANGED <<viewVars, reviewVars>>
               PROVE  /\ part = "views" => Views!UpdateExpected
                      /\ part = "reviews" => Reviews!AnnotationExpected
    OBVIOUS
  <2>1. RequestsNext
    BY DEF requestVars
  <2>2. CASE part = "views"
    <3>1. Views!Next
      BY <2>1, <2>2 DEF RequestsNext
    <3> QED
      BY <2>2, <3>1, ViewsStep DEF RequestsInv
  <2>3. CASE part = "reviews"
    <3>1. Reviews!Next
      BY <2>1, <2>3 DEF RequestsNext
    <3> QED
      BY <2>3, <3>1, ReviewsStep DEF RequestsInv
  <2> QED
    BY <2>2, <2>3
<1> QED
  BY <1>1, RequestsInvariant, PTL DEF RequestsSpec, requestVars, NoLostUpdate

\* A candidate is decided at most once, whoever decides at the same time, and has
\* the status its decision stands for.
THEOREM CandidatesDecidedOnce == RequestsSpec => []DecisionsFinal
<1>1. RequestsInv => DecisionsFinal
  BY ReviewsFinal DEF RequestsInv, DecisionsFinal
<1> QED
  BY <1>1, RequestsInvariant, PTL
====
