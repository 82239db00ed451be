---- MODULE QueryCache ----
(***************************************************************************)
(* The cache of query vectors (atheros-search/internal/embed/cache.go).      *)
(* Clients overlap: a miss calls the backend outside the mutex and puts the  *)
(* vector afterwards.  The order list holds the most recent entry first and  *)
(* is the map as well, which has the same entries.  Nothing in the program   *)
(* calls InvalidateKind, so generations stay 0 and a text stands for its     *)
(* key.  Definitions marked "wrong" are seeded defects no action uses.       *)
(***************************************************************************)
EXTENDS Integers, SequencesExt

CONSTANTS
    Clients,    \* query embeddings at work
    Texts,      \* namespace and query text
    Capacity,   \* entries the cache may hold
    Ttl,        \* ticks an entry lives
    MaxTime     \* bound: ticks of a behaviour

VARIABLES
    now,
    order,   \* entries: the text, and when they expire
    used,    \* history: texts in the order of their last use, the latest first
    client   \* where each call stands and the vector it got

vars == <<now, order, used, client>>

NoCall == [at |-> "idle", text |-> "none", age |-> 0]
TextsIn(s) == {s[i].text : i \in DOMAIN s}
Position(s, t) == CHOOSE i \in DOMAIN s : s[i].text = t
Without(s, t) == IF t \in TextsIn(s) THEN RemoveAt(s, Position(s, t)) ELSE s

Init ==
    /\ now = 0 /\ order = <<>>
    /\ used = <<>>
    /\ client = [c \in Clients |-> NoCall]

\* The order in which texts were used, most recent first; a text once.
Touch(t) == used' = <<[text |-> t]>> \o Without(used, t)

Call(c, t) ==
    /\ client[c].at = "idle"
    /\ client' = [client EXCEPT ![c] = [at |-> "get", text |-> t, age |-> 0]]
    /\ UNCHANGED <<now, order, used>>

\* Get: an expired entry is removed, a hit moves to the front.
Get(c) ==
    LET t == client[c].text
        entry == order[Position(order, t)]
        hit == t \in TextsIn(order) /\ now <= entry.expires
    IN  /\ client[c].at = "get"
        /\ IF hit
           THEN /\ order' = <<entry>> \o Without(order, t)
                /\ client' = [client EXCEPT ![c].at = "hit", ![c].age = now - (entry.expires - Ttl)]
                /\ Touch(t)
           ELSE /\ order' = Without(order, t)
                /\ client' = [client EXCEPT ![c].at = "embed"]
                /\ UNCHANGED used
        /\ UNCHANGED now

\* The backend answers, or fails and nothing is put.
Embedded(c) ==
    /\ client[c].at = "embed"
    /\ client' = [client EXCEPT ![c].at = "put"]
    /\ UNCHANGED <<now, order, used>>
EmbedFails(c) ==
    /\ client[c].at = "embed"
    /\ client' = [client EXCEPT ![c] = NoCall]
    /\ UNCHANGED <<now, order, used>>

\* Wrong: a replaced entry stays where it was.
PutInPlace(t) ==
    LET entry == [text |-> t, expires |-> now + Ttl]
        all == IF t \in TextsIn(order) THEN [i \in DOMAIN order |-> IF order[i].text = t THEN entry ELSE order[i]]
               ELSE <<entry>> \o order
    IN  SubSeq(all, 1, IF Len(all) > Capacity THEN Capacity ELSE Len(all))

\* What Put makes of the order: the entry is new or replaced, and first; what does
\* not fit is dropped from the back.
PutOrder(t) ==
    LET all == <<[text |-> t, expires |-> now + Ttl]>> \o Without(order, t)
    IN  SubSeq(all, 1, IF Len(all) > Capacity THEN Capacity ELSE Len(all))

Put(c) ==
    /\ client[c].at = "put"
    /\ order' = PutOrder(client[c].text)
    /\ Touch(client[c].text)
    /\ client' = [client EXCEPT ![c] = NoCall]
    /\ UNCHANGED now

Return(c) ==
    /\ client[c].at = "hit"
    /\ client' = [client EXCEPT ![c] = NoCall]
    /\ UNCHANGED <<now, order, used>>

Pass ==
    /\ now < MaxTime
    /\ now' = now + 1
    /\ UNCHANGED <<order, used, client>>

Next ==
    \/ Pass
    \/ \E c \in Clients :
        \/ \E t \in Texts : Call(c, t)
        \/ Get(c) \/ Embedded(c) \/ EmbedFails(c) \/ Put(c) \/ Return(c)

Spec == Init /\ [][Next]_vars

----------------------------------------------------------------------------

\* Types of the entries and of the calls.
TypeOK ==
    /\ now \in 0..MaxTime
    /\ \A i \in DOMAIN order : order[i].text \in Texts /\ order[i].expires \in 0..(MaxTime + Ttl)
    /\ \A c \in Clients : client[c].at \in {"idle", "get", "hit", "embed", "put"}

\* The cache holds at most its capacity and no text twice, although misses of one text
\* overlap; what it holds is in the order of last use, so that what is dropped is the
\* least recently used; and a hit is no older than the entries live.
CacheSound ==
    /\ Len(order) <= Capacity
    /\ \A i, j \in DOMAIN order : i < j =>
         /\ order[i].text # order[j].text
         /\ \E k, l \in DOMAIN used : k < l /\ used[k].text = order[i].text /\ used[l].text = order[j].text
    /\ \A c \in Clients : client[c].at = "hit" => client[c].age \in 0..Ttl

====
