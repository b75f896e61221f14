---------------------------- MODULE MCMergeTrain ----------------------------
(***************************************************************************)
(* Instances of MergeTrain: who claims which prefixes, and how urgent each *)
(* feature is at first.                                                    *)
(***************************************************************************)
EXTENDS MergeTrain, TLC

\* Two features of prefix 1 and one that spans prefixes 1 and 2.
MCClaims == 1 :> {1} @@ 2 :> {1} @@ 3 :> {1, 2}

\* The run's cfg takes MCClaims: residents that must be serialized behind a cross
\* entry.  With Claims <- MCTwoCross instead, two cross entries span the partition
\* of a third, and the exceptions Bypassed and Smuggled occur.
MCTwoCross == 1 :> {1, 2} @@ 2 :> {1, 2} @@ 3 :> {1}

MCPriority == [f \in Features |-> 100]
=============================================================================
