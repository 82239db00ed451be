---- MODULE MCEmbeddingJobs ----
(***************************************************************************)
(* Small instances of EmbeddingJobs: two jobs of different documents and    *)
(* one kind, whose completions share a transaction, and one job whose       *)
(* document changes its text.                                               *)
(***************************************************************************)
EXTENDS EmbeddingJobs, TLC

CONSTANTS j1, j2, d1, d2, c1, c2, k1

TwoDocOf == j1 :> d1 @@ j2 :> d2
OneContent == j1 :> c1 @@ j2 :> c1
OneKind == j1 :> k1 @@ j2 :> k1
OneKindOfDocs == d1 :> k1 @@ d2 :> k1

OneDocKind == d1 :> k1
OneJob == j1 :> d1
OneJobContent == j1 :> c1
OneJobKind == j1 :> k1

WorkerSymmetry == Permutations(Workers)

====
