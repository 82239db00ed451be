---- MODULE KeyStore ----
(***************************************************************************)
(* Authorization of requests with tokens signed by an identity provider     *)
(* (atheros-search/internal/auth/auth.go, and registerJSONRoles in          *)
(* transport/httpapi/http.go).  Requests overlap while the provider rotates *)
(* its keys.  Each reads the clock once, looks at the key cache under one   *)
(* read lock, and may fetch the key set under refreshMu.  A token is its key *)
(* id, its roles and whether signature and claims hold.  Definitions marked  *)
(* "wrong" are seeded defects no action uses.                                *)
(***************************************************************************)
EXTENDS Integers, FiniteSets

CONSTANTS
    Clients,     \* requests at work, one at a time
    KeyIds,      \* key ids the provider may use
    RoleSets,    \* sets of client roles a token may carry
    Cooldown,    \* refreshCooldown, in ticks
    Lifetime,    \* how long fetched keys are fresh, in ticks
    MaxMissing,  \* maxMissingKeys
    Horizon      \* bound: ticks of a behaviour

VARIABLES
    clock,
    published,    \* the usable keys the provider serves now
    keys,         \* cached keys
    expiry,       \* when they stop being fresh
    lastRefresh,  \* when they were fetched
    missing,      \* when an unknown key id was last looked for; 0 is never
    refreshing,   \* who holds refreshMu
    served,       \* history: when a key of an answer was last stored; 0 is never
    client        \* each request: its token, when it came, where it stands, the keys it got

store == <<keys, expiry, lastRefresh, missing>>
vars == <<clock, published, store, refreshing, served, client>>

Nobody == "nobody"
NoToken == [sound |-> FALSE, roles |-> {}, allowed |-> {}]
Done(d) == [at |-> d, kid |-> Nobody, token |-> NoToken, now |-> 0, got |-> {}]

\* registerJSON and registerJSONRoles: what a route allows.
Routes == {{"viewer", "operator", "admin"}, {"operator", "admin"}}

\* A token, besides its key id, and the route it is presented to.
Tokens == [sound : {TRUE}, roles : RoleSets, allowed : Routes]
          \union [sound : {FALSE}, roles : {{}}, allowed : {{}}]

\* The clock starts long after the zero time that lastRefresh and expiry have.
Start == Cooldown + 1

Init ==
    /\ clock = Start
    /\ published \in SUBSET KeyIds
    /\ keys = {} /\ expiry = 0 /\ lastRefresh = 0
    /\ missing = [k \in KeyIds |-> 0]
    /\ refreshing = Nobody /\ served = [k \in KeyIds |-> 0]
    /\ client = [c \in Clients |-> Done("idle")]

\* A request that is turned away leaves nothing behind; an answer is stored at once.
Goto(c, there) ==
    client' = [client EXCEPT ![c] =
      IF there \in {"rejected", "forbidden"} THEN Done(there) ELSE [@ EXCEPT !.at = there, !.got = {}]]

----------------------------------------------------------------------------

\* AuthorizeIdentity with a bearer token; verify has parsed the header.
Arrive(c, k, t) ==
    /\ client[c].at \in {"idle", "handled", "forbidden", "rejected"}
    /\ client' = [client EXCEPT ![c] =
         [at |-> "lookup", kid |-> k, token |-> t, now |-> clock, got |-> {}]]
    /\ UNCHANGED <<clock, published, store, refreshing, served>>

\* The rest of verify and the role check, once there is a key.
Decided(c) ==
    LET t == client[c].token
    IN  IF ~t.sound THEN "rejected"
        ELSE IF t.roles \intersect t.allowed = {} THEN "forbidden" ELSE "handled"

\* Wrong: a cached key is used however old it is.
LookupStale(c) ==
    LET k == client[c].kid
    IN  IF k \in keys THEN "decide"
        ELSE IF missing[k] # 0 /\ client[c].now - missing[k] < Cooldown THEN "reject"
        ELSE IF client[c].now - lastRefresh < Cooldown THEN "miss" ELSE "refresh"

\* What key decides from one look at the cache, by the time the request came.
Lookup(c) ==
    LET k == client[c].kid
        now == client[c].now
    IN  IF k \in keys /\ now < expiry THEN "decide"
        ELSE IF k \notin keys /\ missing[k] # 0 /\ now - missing[k] < Cooldown THEN "reject"
        ELSE IF now - lastRefresh < Cooldown THEN (IF k \in keys THEN "decide" ELSE "miss")
        ELSE "refresh"

LookUp(c) ==
    /\ client[c].at = "lookup"
    /\ Goto(c, CASE Lookup(c) = "decide" -> Decided(c)
                 [] Lookup(c) = "reject" -> "rejected"
                 [] OTHER -> Lookup(c))
    /\ UNCHANGED <<clock, published, store, refreshing, served>>

\* Wrong: nothing makes room for a new entry.
RecordedUnbounded(k, now) ==
    {[x \in KeyIds |-> IF x = k THEN now
                       ELSE IF now - missing[x] < Cooldown THEN missing[x] ELSE 0]}

\* recordMissingKey forgets what is older than the cooldown, and the oldest entry
\* when it is full.
Recorded(k, now) ==
    LET kept == {x \in KeyIds : missing[x] # 0 /\ now - missing[x] < Cooldown}
        oldest == {x \in kept : \A y \in kept : missing[x] <= missing[y]}
    IN  {[x \in KeyIds |-> IF x = k THEN now
                           ELSE IF x \in kept \ drop THEN missing[x] ELSE 0] :
            drop \in IF Cardinality(kept) >= MaxMissing THEN {{x} : x \in oldest} ELSE {{}}}

RecordMissing(c) ==
    /\ client[c].at = "miss"
    /\ missing' \in Recorded(client[c].kid, client[c].now)
    /\ Goto(c, "rejected")
    /\ UNCHANGED <<clock, published, keys, expiry, lastRefresh, refreshing, served>>

\* Wrong: who has waited for refreshMu fetches again.
BeginRefreshAlways(c) ==
    /\ client[c].at = "refresh" /\ refreshing = Nobody
    /\ refreshing' = c /\ Goto(c, "fetch")
    /\ UNCHANGED <<clock, published, store, served>>

\* refresh takes refreshMu and looks at the cooldown again.
BeginRefresh(c) ==
    /\ client[c].at = "refresh" /\ refreshing = Nobody
    /\ IF clock - lastRefresh < Cooldown
       THEN Goto(c, "reread") /\ UNCHANGED refreshing
       ELSE refreshing' = c /\ Goto(c, "fetch")
    /\ UNCHANGED <<clock, published, store, served>>

\* The provider answers with usable keys; the download takes its time.
Answered(c) ==
    /\ client[c].at = "fetch" /\ published # {}
    /\ client' = [client EXCEPT ![c] = [@ EXCEPT !.at = "store", !.got = published]]
    /\ UNCHANGED <<clock, published, store, refreshing, served>>

Fetched(c) ==
    /\ client[c].at = "store"
    /\ keys' = client[c].got /\ expiry' = clock + Lifetime /\ lastRefresh' = clock
    /\ served' = [k \in KeyIds |-> IF k \in client[c].got THEN clock ELSE served[k]]
    /\ refreshing' = Nobody
    /\ Goto(c, "reread")
    /\ UNCHANGED <<clock, published, missing>>

\* The provider does not answer, or with no usable key: lastRefresh stays as it was,
\* and the next request that waits for refreshMu asks again.
FetchFailed(c) ==
    /\ client[c].at = "fetch"
    /\ refreshing' = Nobody
    /\ Goto(c, "rejected")
    /\ UNCHANGED <<clock, published, store, served>>

Reread(c) ==
    /\ client[c].at = "reread"
    /\ Goto(c, IF client[c].kid \in keys THEN Decided(c) ELSE "miss")
    /\ UNCHANGED <<clock, published, store, refreshing, served>>

Rotate(ks) ==
    /\ published' = ks /\ ks # published
    /\ UNCHANGED <<clock, store, refreshing, served, client>>

Tick ==
    /\ clock < Horizon
    /\ clock' = clock + 1
    /\ UNCHANGED <<published, store, refreshing, served, client>>

----------------------------------------------------------------------------

Next ==
    \/ \E c \in Clients :
        \/ \E k \in KeyIds, t \in Tokens : Arrive(c, k, t)
        \/ LookUp(c) \/ RecordMissing(c) \/ BeginRefresh(c)
        \/ Answered(c) \/ Fetched(c) \/ FetchFailed(c) \/ Reread(c)
    \/ \E ks \in SUBSET KeyIds : Rotate(ks)
    \/ Tick

Spec == Init /\ [][Next]_vars

----------------------------------------------------------------------------

\* Types; the list of unknown key ids stays bounded.
TypeOK ==
    /\ clock \in Start..Horizon /\ lastRefresh \in 0..Horizon /\ expiry \in 0..(Horizon + Lifetime)
    /\ published \subseteq KeyIds /\ keys \subseteq KeyIds
    /\ missing \in [KeyIds -> 0..Horizon]
    /\ Cardinality({k \in KeyIds : missing[k] # 0}) <= MaxMissing
    /\ refreshing \in Clients \union {Nobody}
    /\ \A c \in Clients : client[c].at \in
         {"idle", "lookup", "miss", "refresh", "fetch", "store", "reread", "handled", "forbidden",
          "rejected"}

\* A handler runs only for a sound token with a role the route allows, whose key
\* was in an answer of the provider that was stored no longer than the keys' lifetime
\* before the request came: a key that was withdrawn stops being accepted, whoever
\* refreshes meanwhile.
HandledKeyRecent ==
    \A c \in Clients : client[c].at = "handled" =>
        /\ client[c].token.sound
        /\ client[c].token.roles \intersect client[c].token.allowed # {}
        /\ served[client[c].kid] # 0 /\ client[c].now < served[client[c].kid] + Lifetime

\* While the provider answers, tokens with made-up key ids cannot multiply the fetches:
\* every fetch that gets keys, the same as before or others, is stored a cooldown
\* or more after the one before it, however many requests missed at once and however
\* long it took.  Failed fetches are not limited (each request that waits asks in its
\* turn) but no two fetches overlap.
FetchApart ==
    /\ \A c \in Clients : client[c].at = "store" /\ client'[c].at = "reread"
                            => clock - lastRefresh >= Cooldown
    /\ \A c, d \in Clients : {client'[c].at, client'[d].at} \subseteq {"fetch", "store"} => c = d

====
