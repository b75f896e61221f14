---------------------------- MODULE MCAutopilot ----------------------------
(***************************************************************************)
(* One change: a cap that lets it through all the phases with some to      *)
(* spare, and two deaths of the process.                                   *)
(***************************************************************************)
EXTENDS Autopilot
=============================================================================
