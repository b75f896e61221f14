----------------------------- MODULE ItemLedger -----------------------------
(***************************************************************************)
(* What executing a roadmap promises, whatever dies in between: an item is  *)
(* settled once and for all, completed or failed, and only after everything *)
(* it is still listed as depending on is completed.  A list may lose names, *)
(* or have one of them spoilt, but no item is ever added to it.             *)
(***************************************************************************)
CONSTANTS Items, Deps

VARIABLES settled, deps

LedgerInit ==
    /\ settled = [i \in Items |-> "open"]
    /\ deps = Deps

Settle(i, outcome) ==
    /\ settled[i] = "open"
    /\ \A d \in deps[i] : d \in Items /\ settled[d] = "completed"
    /\ settled' = [settled EXCEPT ![i] = outcome]
    /\ UNCHANGED deps

Lose ==
    /\ \E i \in Items :
         /\ \A j \in Items \ {i} : deps'[j] = deps[j]
         /\ deps'[i] \cap Items \subseteq deps[i]
    /\ UNCHANGED settled

LedgerNext ==
    \/ \E i \in Items, outcome \in {"completed", "failed"} : Settle(i, outcome)
    \/ Lose

LedgerSpec == LedgerInit /\ [][LedgerNext]_<<settled, deps>>
=============================================================================
