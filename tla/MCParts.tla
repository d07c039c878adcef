------------------------------- MODULE MCParts -------------------------------
(* A small instance of every part.                                         *)
EXTENDS Parts, ChartResults, TLC

CONSTANTS n1, n2, n3, n4

\* n4 is a copy of the server's n1, once that is open and has been exported; the
\* others have cells of their own.
CellsOf == [n \in {n1, n2, n3, n4} |-> IF n = n4 THEN n1 ELSE n]

ParseOf == ParseWith(NaN)

\* Two users of one database: one sees three tables, the other nothing.
Postgres(u) == [connector_type |-> "postgresql", host |-> "db", database |-> "shop", username |-> u]

TwoUsers == {Postgres("ann"), Postgres("bob")}

EachItsOwn ==
    [s \in TwoUsers |->
        IF s.username = "bob" THEN <<>> :> <<>>
        ELSE <<>> :> <<"shop">> @@ <<"shop">> :> <<"public">>
             @@ <<"shop", "public">> :> <<"orders", "items", "notes">>
             @@ <<"shop", "public", "orders">> :> <<"id", "total">>
             @@ <<"shop", "public", "items">> :> <<"id">>
             @@ <<"shop", "public", "notes">> :> <<"text">>]

\* States are told apart by the part that runs: the others stay as they were.
Moving ==
    CASE part = "tabs" -> <<part, tabsVars>>
      [] part = "saved" -> <<part, savedVars>>
      [] part = "talk" -> <<part, talkVars>>
      [] part = "bound" -> <<part, boundVars>>
      [] part = "sown" -> <<part, sownVars>>
      [] part = "files" -> <<part, filesVars>>
      [] part = "drawn" -> <<part, drawnVars>>
      [] part = "found" -> <<part, foundVars>>
      [] part = "chosen" -> <<part, chosenVars>>
      [] part = "listed" -> <<part, listedVars>>
      [] part = "signed" -> <<part, signedVars>>

=============================================================================
