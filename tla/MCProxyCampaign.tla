---- MODULE MCProxyCampaign ----
(***************************************************************************)
(* Two invocations of a missing-vector campaign m and a reviewed-failure    *)
(* campaign r over three old jobs and one new one, in pages of two.         *)
(***************************************************************************)
EXTENDS ProxyCampaign, TLC

CONSTANTS m, r

ReviewedJobs == m :> 0 @@ r :> 2
Reserves == m :> 0 @@ r :> 1
OperatorSymmetry == Permutations(Operators)

====
