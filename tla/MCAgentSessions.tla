--------------------------- MODULE MCAgentSessions ---------------------------
(***************************************************************************)
(* An instance of AgentSessions: s1 is the session of agent a1, s3 that of *)
(* a2.                                                                     *)
(***************************************************************************)
EXTENDS AgentSessions, TLC

CONSTANTS a1, a2, s1, s3

MCAgentOf == s1 :> a1 @@ s3 :> a2
=============================================================================
