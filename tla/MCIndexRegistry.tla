-------------------------- MODULE MCIndexRegistry --------------------------
(* Instances of IndexRegistry for TLC: f2 may be built on f1, m2 on m1. *)
EXTENDS IndexRegistry, TLC, Functions

CONSTANTS m1, m2, f1, f2, w1, w2, c1, c2

MCAncestor == {<<m1, m2>>, <<f1, f2>>} \cap (Indexes \X Indexes)

(* attempt_count grows with every claim: no further claim after the bound. *)
CONSTANT MaxClaims
FewClaims == FoldFunction(LAMBDA x, y : x + y, 0, attempt) <= MaxClaims

(* A row that nobody has claimed has nothing stored, and only multiplies    *)
(* the states when it is collected: it is not followed further.             *)
ClaimedFirst == \A i \in Indexes : attempt[i] = 0 => status[i] = "pending"

Symmetry == Permutations(Workers) \cup Permutations(Collectors)
=============================================================================
