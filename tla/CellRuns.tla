------------------------------ MODULE CellRuns ------------------------------
(***************************************************************************)
(* What running SQL cells promises the user, with neither marks, fetches   *)
(* nor a server: of the runs a cell's own button starts only the last is   *)
(* awaited, an outcome appears once and only while it is awaited, in one   *)
(* tab, and a run that was given up never comes back.                      *)
(***************************************************************************)
EXTENDS Naturals, Sequences

CONSTANTS
    Tabs,   \* notebooks that can be open in a tab
    Cells,  \* ids of SQL cells
    None    \* no outcome

VARIABLES
    asked,    \* the runs so far, in order: of which cell, by what
    awaited,  \* the runs whose outcome may still appear
    outcome   \* outcome[t][c]: the run whose outcome c shows in the tab t

cellVars == <<asked, awaited, outcome>>

Ask(c, by) == [cell |-> c, by |-> by]

NoOutcomes == [c \in Cells |-> None]

CellInit ==
    /\ asked = <<>>
    /\ awaited = {}
    /\ outcome = [t \in Tabs |-> NoOutcomes]

Started(c, by) == asked' = Append(asked, Ask(c, by))

Newest == Len(asked) + 1

\* The cell's own button: what it still awaited is given up.
Own(c) ==
    /\ Started(c, "cell")
    /\ awaited' = {q \in awaited : asked[q] # Ask(c, "cell")} \cup {Newest}
    /\ UNCHANGED outcome

\* Run all, which gives up nothing.
All(c) ==
    /\ Started(c, "all")
    /\ awaited' = awaited \cup {Newest}
    /\ UNCHANGED outcome

\* An outcome appears; Run all may go on with another cell.
Arrive(q, t) ==
    /\ q \in awaited
    /\ outcome' = [outcome EXCEPT ![t][asked[q].cell] = q]
    /\ \/ /\ awaited' = awaited \ {q}
          /\ UNCHANGED asked
       \/ /\ asked[q].by = "all"
          /\ \E c \in Cells : Started(c, "all")
          /\ awaited' = (awaited \ {q}) \cup {Newest}

\* Stopped, failed, or its cell has gone.
GiveUp(q) ==
    /\ q \in awaited
    /\ awaited' = awaited \ {q}
    /\ UNCHANGED <<asked, outcome>>

\* The page is left.
GiveUpAll ==
    /\ awaited' = {}
    /\ UNCHANGED <<asked, outcome>>

\* The outcomes of a tab go with it.
Clear(t) ==
    /\ outcome' = [outcome EXCEPT ![t] = NoOutcomes]
    /\ UNCHANGED <<asked, awaited>>

CellNext ==
    \/ \E c \in Cells : Own(c) \/ All(c)
    \/ \E q \in awaited : GiveUp(q) \/ \E t \in Tabs : Arrive(q, t)
    \/ GiveUpAll
    \/ \E t \in Tabs : Clear(t)

CellSpec == CellInit /\ [][CellNext]_cellVars
=============================================================================
