---- MODULE EmbedInputs ----
(***************************************************************************)
(* One call of HTTPClient.Embed after its texts are chunked                 *)
(* (atheros-search/internal/embed/client.go): the chunks of all texts are   *)
(* packed into requests, a pool of goroutines sends the requests, the first *)
(* error cancels the others, and the vectors are put back in the order of   *)
(* the texts.  A vector is named by the position of the chunk it describes. *)
(* Definitions marked "wrong" are seeded defects no action uses.             *)
(***************************************************************************)
EXTENDS Integers, Sequences

CONSTANTS
    MaxTexts,          \* bound: texts of the call
    MaxChunks,         \* bound: chunks of a text
    TokenCounts,       \* token counts a chunk may have
    PackLimit,         \* packTokenLimit
    RequestTokenLimit,
    MaxPool            \* goroutines the scheduler's size allows

ASSUME EmbedAssumption ==
    /\ MaxTexts \in Nat \ {0} /\ MaxChunks \in Nat \ {0} /\ MaxPool \in Nat \ {0}
    /\ TokenCounts \subseteq Nat
    /\ PackLimit \in Nat /\ RequestTokenLimit \in Nat

VARIABLES
    counts,      \* chunks of each text
    tokens,      \* token count of each chunk, all texts in a row
    batches,     \* requests packed so far, as intervals of positions
    first,       \* packing: first chunk of the request in hand
    size,        \* packing: its tokens
    end,         \* packing: the next chunk
    main,        \* where the caller stands
    next,        \* the request it sends to the pool next
    pool,        \* where each goroutine stands
    hand,        \* the request it has taken
    fault,       \* the error it has met
    results,     \* vectors of each request, in its order
    errCh,       \* the first reported error
    cancelled,   \* has a goroutine cancelled the shared context
    parentDone,  \* is the caller's context done
    answer       \* what embedInputs returned

input == <<counts, tokens>>
packing == <<batches, first, size, end>>
bodies == <<pool, hand, fault>>
vars == <<input, packing, main, next, bodies, results, errCh, cancelled, parentDone, answer>>

Texts == 1..Len(counts)
Inputs == 1..Len(tokens)

\* Where the chunks of each text end: offsets[i] of Embed.
Offset[i \in Nat] == IF i = 0 THEN 0 ELSE Offset[i - 1] + counts[i]

Batch(b) == batches[b].from..batches[b].to
ContextDone == cancelled \/ parentDone
PoolSize == IF MaxPool > Len(batches) THEN Len(batches) ELSE MaxPool

Init ==
    /\ counts \in UNION {[1..t -> 1..MaxChunks] : t \in 1..MaxTexts}
    /\ tokens \in [1..Offset[Len(counts)] -> TokenCounts]
    /\ batches = <<>> /\ first = 1 /\ size = 0 /\ end = 1
    /\ main = "pack" /\ next = 1
    /\ pool = <<>> /\ hand = <<>> /\ fault = <<>> /\ results = <<>>
    /\ errCh = "none" /\ cancelled = FALSE /\ parentDone = FALSE
    /\ answer = "none"

----------------------------------------------------------------------------
(* Packing                                                                  *)

Fits(n) == n = first \/ size + tokens[n] <= PackLimit

RejectInput ==
    /\ main = "pack" /\ end \in Inputs /\ tokens[end] > RequestTokenLimit
    /\ main' = "returned" /\ answer' = "invalid"
    /\ UNCHANGED <<input, packing, next, bodies, results, errCh, cancelled, parentDone>>

TakeInput ==
    /\ main = "pack" /\ end \in Inputs /\ tokens[end] <= RequestTokenLimit
    /\ Fits(end)
    /\ size' = size + tokens[end]
    /\ end' = end + 1
    /\ UNCHANGED <<input, batches, first, main, next, bodies, results, errCh,
                   cancelled, parentDone, answer>>

\* Wrong: the chunk that did not fit is skipped.
CloseBatchSkipping ==
    /\ main = "pack" /\ end > first
    /\ end \in Inputs => tokens[end] <= RequestTokenLimit /\ ~Fits(end)
    /\ batches' = Append(batches, [from |-> first, to |-> end - 1])
    /\ first' = end + 1 /\ end' = end + 1 /\ size' = 0
    /\ UNCHANGED <<input, main, next, bodies, results, errCh, cancelled, parentDone, answer>>

\* The next chunk does not fit, or there is none.
CloseBatch ==
    /\ main = "pack" /\ end > first
    /\ end \in Inputs => tokens[end] <= RequestTokenLimit /\ ~Fits(end)
    /\ batches' = Append(batches, [from |-> first, to |-> end - 1])
    /\ first' = end /\ size' = 0
    /\ UNCHANGED <<input, end, main, next, bodies, results, errCh, cancelled, parentDone, answer>>

\* Everything is packed: the pool starts.
StartPool ==
    /\ main = "pack" /\ first > Len(tokens)
    /\ main' = "send"
    /\ pool' = [w \in 1..PoolSize |-> "wait"]
    /\ hand' = [w \in 1..PoolSize |-> 0]
    /\ fault' = [w \in 1..PoolSize |-> "none"]
    /\ results' = [b \in 1..Len(batches) |-> <<>>]
    /\ UNCHANGED <<input, packing, next, errCh, cancelled, parentDone, answer>>

----------------------------------------------------------------------------
(* The caller                                                               *)

\* The caller hands request next to a waiting goroutine; it stops early when the
\* context is done (select may still have chosen to send).
Send(w) ==
    /\ main = "send" /\ next <= Len(batches) /\ pool[w] = "wait"
    /\ pool' = [pool EXCEPT ![w] = "acquire"]
    /\ hand' = [hand EXCEPT ![w] = next]
    /\ next' = next + 1
    /\ main' = IF ContextDone THEN "join" ELSE "send"
    /\ UNCHANGED <<input, packing, fault, results, errCh, cancelled, parentDone, answer>>

\* The context is done, or all requests are taken: the channel is closed.
CloseJobs ==
    /\ main = "send" /\ (ContextDone \/ next > Len(batches))
    /\ main' = "join"
    /\ UNCHANGED <<input, packing, next, bodies, results, errCh, cancelled, parentDone, answer>>

\* All goroutines are gone: the reported error, else the context's, else vectors.
Answer ==
    IF errCh # "none" THEN errCh ELSE IF ContextDone THEN "cancelled" ELSE "ok"

Join ==
    /\ main = "join"
    /\ \A w \in DOMAIN pool : pool[w] = "exit"
    /\ main' = "returned"
    /\ answer' = Answer
    /\ UNCHANGED <<input, packing, next, bodies, results, errCh, cancelled, parentDone>>

----------------------------------------------------------------------------
(* A goroutine of the pool                                                  *)

JobsClosed(w) ==
    /\ pool[w] = "wait" /\ main = "join"
    /\ pool' = [pool EXCEPT ![w] = "exit"]
    /\ UNCHANGED <<input, packing, main, next, hand, fault, results, errCh,
                   cancelled, parentDone, answer>>

\* scheduler.Acquire, which may fail only when the context is done.
Acquired(w) ==
    /\ pool[w] = "acquire"
    /\ pool' = [pool EXCEPT ![w] = "embed"]
    /\ UNCHANGED <<input, packing, main, next, hand, fault, results, errCh,
                   cancelled, parentDone, answer>>

Erred(w, e) ==
    /\ pool' = [pool EXCEPT ![w] = "report"]
    /\ fault' = [fault EXCEPT ![w] = e]
    /\ UNCHANGED <<input, packing, main, next, hand, results, errCh,
                   cancelled, parentDone, answer>>

AcquireFailed(w) ==
    /\ pool[w] = "acquire" /\ ContextDone
    /\ Erred(w, "cancelled")

\* What the backend may answer to n inputs: at most n items, all or some or none
\* of them with an index; 0 stands for no index, n + 1 for one out of range.  An
\* item with an index carries the vector of that input, others come in order.
Responses(n) == UNION {[1..m -> 0..(n + 1)] : m \in 0..n}
VectorOf(r, i) == IF r[i] = 0 THEN i ELSE r[i]

ResponseValid(r, n) ==
    /\ \A i \in DOMAIN r : (r[i] # 0) <=> (r[1] # 0)
    /\ \A i \in DOMAIN r : r[i] # 0 => r[i] \in DOMAIN r
    /\ \A i, j \in DOMAIN r : r[i] # 0 /\ r[i] = r[j] => i = j
    /\ Len(r) = n

\* Wrong: the vectors are taken in the order of the response.
AssociatedInOrder(r) == [i \in DOMAIN r |-> VectorOf(r, i)]

\* The index owns the association; without indexes the order does.
Associated(r) ==
    [i \in DOMAIN r |-> IF r[1] = 0 THEN VectorOf(r, i)
                        ELSE VectorOf(r, CHOOSE k \in DOMAIN r : r[k] = i)]

RequestSize(b) == batches[b].to - batches[b].from + 1

Embedded(w) ==
    LET b == hand[w]
    IN  /\ pool[w] = "embed"
        /\ \E r \in Responses(RequestSize(b)) :
             /\ ResponseValid(r, RequestSize(b))
             /\ results' = [results EXCEPT ![b] =
                  [i \in DOMAIN r |-> batches[b].from - 1 + Associated(r)[i]]]
        /\ pool' = [pool EXCEPT ![w] = "wait"]
        /\ UNCHANGED <<input, packing, main, next, hand, fault, errCh,
                       cancelled, parentDone, answer>>

\* An invalid response, a failed request, or one cut off by the context.
EmbedFailed(w) ==
    /\ pool[w] = "embed"
    /\ \/ Erred(w, "backend")
       \/ ContextDone /\ Erred(w, "cancelled")

\* Wrong: the others are cancelled before the error is in the channel.
ReportAfterCancel(w) ==
    \/ /\ pool[w] = "report" /\ ~cancelled
       /\ cancelled' = TRUE
       /\ UNCHANGED <<input, packing, main, next, bodies, results, errCh, parentDone, answer>>
    \/ /\ pool[w] = "report" /\ cancelled
       /\ errCh' = IF errCh = "none" THEN fault[w] ELSE errCh
       /\ pool' = [pool EXCEPT ![w] = "exit"]
       /\ UNCHANGED <<input, packing, main, next, hand, fault, results, cancelled, parentDone, answer>>

\* The first error goes into the channel; later ones are dropped.
Report(w) ==
    /\ pool[w] = "report"
    /\ errCh' = IF errCh = "none" THEN fault[w] ELSE errCh
    /\ pool' = [pool EXCEPT ![w] = IF errCh = "none" THEN "cancel" ELSE "exit"]
    /\ UNCHANGED <<input, packing, main, next, hand, fault, results,
                   cancelled, parentDone, answer>>

\* Wrong: nobody is told.
CancelNobody(w) ==
    /\ pool[w] = "cancel"
    /\ pool' = [pool EXCEPT ![w] = "exit"]
    /\ UNCHANGED <<input, packing, main, next, hand, fault, results, errCh,
                   cancelled, parentDone, answer>>

CancelRest(w) ==
    /\ pool[w] = "cancel"
    /\ cancelled' = TRUE
    /\ pool' = [pool EXCEPT ![w] = "exit"]
    /\ UNCHANGED <<input, packing, main, next, hand, fault, results, errCh,
                   parentDone, answer>>

\* The request's deadline passes or its client goes away.
ParentDone ==
    /\ ~parentDone /\ main # "returned"
    /\ parentDone' = TRUE
    /\ UNCHANGED <<input, packing, main, next, bodies, results, errCh, cancelled, answer>>

----------------------------------------------------------------------------

Body(w) ==
    \/ JobsClosed(w) \/ Acquired(w) \/ AcquireFailed(w)
    \/ Embedded(w) \/ EmbedFailed(w) \/ Report(w) \/ CancelRest(w)

Caller ==
    \/ RejectInput \/ TakeInput \/ CloseBatch \/ StartPool
    \/ \E w \in DOMAIN pool : Send(w)
    \/ CloseJobs \/ Join

Next == Caller \/ (\E w \in DOMAIN pool : Body(w)) \/ ParentDone

Spec == Init /\ [][Next]_vars

\* Goroutines run, requests end (the HTTP client has a timeout) and slots are
\* given back (Scheduler).
FairSpec ==
    /\ Spec
    /\ WF_vars(Caller)
    /\ \A w \in 1..MaxPool : WF_vars(w \in DOMAIN pool /\ Body(w))

----------------------------------------------------------------------------

\* Types of the control state; requests and positions stay within the input.
TypeOK ==
    /\ main \in {"pack", "send", "join", "returned"}
    /\ end \in 1..(Len(tokens) + 1) /\ first \in 1..end
    /\ next \in 1..(Len(batches) + 1)
    /\ \A w \in DOMAIN pool :
         /\ pool[w] \in {"wait", "acquire", "embed", "report", "cancel", "exit"}
         /\ hand[w] \in 0..Len(batches)
         /\ fault[w] \in {"none", "backend", "cancelled"}
    /\ errCh \in {"none", "backend", "cancelled"}
    /\ answer \in {"none", "invalid", "backend", "cancelled", "ok"}

\* The vectors of all requests in a row, and the slice Embed pools for a text.
Vectors ==
    [n \in Inputs |->
       LET b == CHOOSE x \in DOMAIN batches : n \in Batch(x)
       IN  results[b][n - batches[b].from + 1]]
Pooled(i) == [n \in (Offset[i - 1] + 1)..Offset[i] |-> Vectors[n]]

\* A call that succeeds pools, for each text, the vectors of exactly that text's
\* chunks in their order: no request is missing, repeated or out of place,
\* however requests were packed, overtook each other, or were answered in
\* another order.
PooledFromOwnChunks ==
    answer = "ok" =>
        /\ \A n \in Inputs : \E b \in DOMAIN batches : n \in Batch(b)
        /\ \A b \in DOMAIN batches : Len(results[b]) = RequestSize(b)
        /\ \A i \in Texts : \A n \in DOMAIN Pooled(i) : Pooled(i)[n] = n

\* The tokens of the first chunks in a row.
Weight[n \in Nat] == IF n = 0 THEN 0 ELSE Weight[n - 1] + tokens[n]

\* A request is within the packing budget, unless it is a single chunk that alone
\* exceeds it, and never above the hard limit of one chunk; none is empty.
PackedWithinLimit ==
    \A b \in DOMAIN batches :
        /\ RequestSize(b) >= 1
        /\ \/ Weight[batches[b].to] - Weight[batches[b].from - 1] <= PackLimit
           \/ RequestSize(b) = 1 /\ tokens[batches[b].from] <= RequestTokenLimit

\* Packing chunks into requests and pooling their vectors undo each other within the
\* limits of a request.
PackedAndPooled == PooledFromOwnChunks /\ PackedWithinLimit

\* The caller learns the cause: an error that only says "cancelled" is returned
\* only when the caller's own context is done, never because one request's
\* failure cancelled its siblings (the breaker does not count a cancellation).
RootCauseReported == answer = "cancelled" => parentDone

\* The call always returns: no goroutine waits for work that never comes, and
\* the caller never waits to hand work to goroutines that are all gone.
EmbedReturns == main # "returned" ~> main = "returned"

====
