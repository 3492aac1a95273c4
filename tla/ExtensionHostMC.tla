-------------------------- MODULE ExtensionHostMC --------------------------
(* The extension host with two sessions, for TLC. *)
EXTENDS ExtensionHost

\* Rebuilds and terminal output of overlapping sessions; the panel of one at a time.
MCMaxAlive == [f \in {"rebuild", "panel", "terminal"} |-> IF f = "rebuild" THEN 2 ELSE 1]
=============================================================================
