---- MODULE JobLedger ----
(***************************************************************************)
(* What the embedding queue promises its readers, without workers, leases   *)
(* or transactions: each job runs through a small state machine, and a      *)
(* document's vector becomes visible, in both vector tables at once, exactly *)
(* in the step that completes a job for that document and text.  Anything   *)
(* may be given back or given up; nothing finished is ever reopened.        *)
(***************************************************************************)
CONSTANTS
    Jobs, Docs, Contents,
    DocOf,      \* document of a job
    ContentOf,  \* text of the document the job was created for
    None        \* no vector

VARIABLES
    status,     \* of each job
    published,  \* text whose vector the embeddings table shows for a document
    byKind      \* the same for the table of the document's kind

Statuses == {"pending", "leased", "completed", "failed", "cancelled"}

ledger == <<status, published, byKind>>

Init ==
    /\ status = [j \in Jobs |-> "pending"]
    /\ published = [d \in Docs |-> None]
    /\ byKind = published

\* Granted, given back, given up or cancelled.
Moves == {<<"pending", "leased">>, <<"pending", "cancelled">>,
          <<"leased", "pending">>, <<"leased", "failed">>, <<"leased", "cancelled">>}

Advance ==
    /\ status' \in [Jobs -> Statuses]
    /\ \A j \in Jobs : status'[j] = status[j] \/ <<status[j], status'[j]>> \in Moves
    /\ UNCHANGED <<published, byKind>>

\* The jobs of S complete together with the vectors they produced.
Publish(S) ==
    /\ \A j \in S : status[j] = "leased"
    /\ status' = [j \in Jobs |-> IF j \in S THEN "completed" ELSE status[j]]
    /\ published' \in [Docs -> Contents \union {None}]
    /\ byKind' \in [Docs -> Contents \union {None}]
    /\ \A d \in Docs :
         \/ \E j \in S : DocOf[j] = d /\ published'[d] = ContentOf[j] /\ byKind'[d] = ContentOf[j]
         \/ /\ \A j \in S : DocOf[j] # d
            /\ published'[d] = published[d] /\ byKind'[d] = byKind[d]

Next == Advance \/ \E S \in SUBSET Jobs : Publish(S)

Spec == Init /\ [][Next]_ledger

====
