----------------------------- MODULE MCAutosave -----------------------------
(* Two tabs; the versions, the tabs and the abandoned requests are bounded   *)
(* by the configurations.                                                    *)
EXTENDS Autosave

CONSTANTS n1, n2  \* notebooks
=============================================================================
