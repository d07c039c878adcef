-------------------------- MODULE MCNotebookServer --------------------------
(* Two notebooks of one user, each with two contents.                        *)
EXTENDS NotebookServer

CONSTANTS n1, n2, c1, c2
=============================================================================
