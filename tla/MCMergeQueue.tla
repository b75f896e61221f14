---------------------------- MODULE MCMergeQueue ----------------------------
(***************************************************************************)
(* Two features over three keys: each may be registered with claims that   *)
(* rival the other's, or with ones that the other contests only in part.   *)
(***************************************************************************)
EXTENDS MergeQueue, TLC

CONSTANTS f1, f2, k1, k2, k3, c1, c2

MCClaims == f1 :> {{k1}, {k1, k2, k3}} @@ f2 :> {{k1}}
Interchangeable == Permutations(Calls)
=============================================================================
