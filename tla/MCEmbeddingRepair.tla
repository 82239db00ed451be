---- MODULE MCEmbeddingRepair ----
(***************************************************************************)
(* Two jobs for two texts of one document, so that a text can come back     *)
(* after its vector was replaced; one job is enough for the cancel command. *)
(***************************************************************************)
EXTENDS EmbeddingRepair, TLC

CONSTANTS j1, j2, d1, c1, c2, k1

OneDocOf == j1 :> d1 @@ j2 :> d1
TwoContents == j1 :> c1 @@ j2 :> c2
OneKind == j1 :> k1 @@ j2 :> k1
OneJob == j1 :> d1
OneJobContent == j1 :> c1
OneJobKind == j1 :> k1
OneDocKind == d1 :> k1

====
