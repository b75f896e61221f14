---------------------------- MODULE MCApprovals ----------------------------
(* Instances of Approvals for TLC. *)
EXTENDS Approvals, TLC

CONSTANTS r1, r2, a1, t1, v1, l1, l2

(* Both requests are by one agent. *)
MCOwner == r1 :> a1 @@ r2 :> a1

(* acted grows with every reply: no further reply after the bound. *)
CONSTANT MaxReplies
FewReplies == \A t \in Tokens : acted[t] <= MaxReplies

Symmetry == Permutations(Listeners)
=============================================================================
