----------------------------- MODULE MCQueryRuns ----------------------------
(* Two notebooks: t1 has the cells a and b, and t2, an import of an edited   *)
(* copy of t1, has kept b.                                                   *)
EXTENDS QueryRuns

CONSTANTS t1, t2, a, b

MCTabs == {t1, t2}

MCCells == {a, b}

MCCellsOf == [t \in MCTabs |-> IF t = t1 THEN <<a, b>> ELSE <<b>>]
=============================================================================
