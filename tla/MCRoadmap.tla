----------------------------- MODULE MCRoadmap -----------------------------
(* Instances of Roadmap for TLC. *)
EXTENDS Roadmap

(* The second item builds on the first; the third waits for another roadmap *)
(* and, once it may run, comes before the first.                            *)
MCDeps == <<{}, {1}, {}>>
MCPriorities == <<2, 1, 1>>

(* A roadmap of a single item. *)
MCNoDeps == <<{}>>
MCOne == <<1>>
=============================================================================
