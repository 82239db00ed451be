---- MODULE MCEmbedInputs ----
(***************************************************************************)
(* Up to two texts of up to two chunks.  A chunk of 0 or 1 tokens shares a  *)
(* request, one of 3 exceeds the packing budget but not the request limit,  *)
(* one of 4 is refused.  Two goroutines serve up to four requests.          *)
(***************************************************************************)
EXTENDS EmbedInputs, TLC

====
