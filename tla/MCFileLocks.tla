----------------------------- MODULE MCFileLocks -----------------------------
(***************************************************************************)
(* Instances of FileLocks: s1 and s2 are two sessions of agent a1, s3 is a *)
(* session of agent a2.                                                    *)
(***************************************************************************)
EXTENDS FileLocks, TLC

CONSTANTS a1, a2, s1, s2, s3

MCAgentOfThree == s1 :> a1 @@ s2 :> a1 @@ s3 :> a2
=============================================================================
