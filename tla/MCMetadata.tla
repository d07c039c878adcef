----------------------------- MODULE MCMetadata -----------------------------
(* Two BigQuery projects: such a connection has no host and no database.   *)
EXTENDS Metadata

Project(p) == [connector_type |-> "bigquery", host |-> "", database |-> "", username |-> "", project |-> p]

TwoProjects == {Project("sales"), Project("costs")}

EachItsOwn ==
    [s \in TwoProjects |-> <<>> :> <<s.project>> @@ <<s.project>> :> <<"main">>
        @@ <<s.project, "main">> :> <<"facts">> @@ <<s.project, "main", "facts">> :> <<"id">>]

=============================================================================
