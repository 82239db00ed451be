---- MODULE MCCircuit ----
(***************************************************************************)
(* Three overlapping calls, two failures to trip, windows of 2, 4 and at    *)
(* most 5 ticks: the bound cuts the second doubling.                        *)
(***************************************************************************)
EXTENDS Circuit, TLC

====
