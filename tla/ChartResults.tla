------------------------------ MODULE ChartResults ------------------------------
(* Small query results for the charts.                                     *)
EXTENDS Integers, Sequences

\* Number of each text.
ParseWith(nan) == [t \in {"", "1", "2", "eu", "us", "uk", "true", "false", "2024-01-01", "2024-01-02"} |->
              IF t = "" THEN 0 ELSE IF t = "1" THEN 1 ELSE IF t = "2" THEN 2 ELSE nan]

Day(n) == [kind |-> "date", text |-> IF n = 1 THEN "2024-01-01" ELSE "2024-01-02"]
Text(t) == [kind |-> "text", text |-> t]
Number(t) == [kind |-> "number", text |-> t]
Flag(t) == [kind |-> "boolean", text |-> t]
Null == [kind |-> "null", text |-> ""]

Column(n, h) == [name |-> n, hint |-> h]

Nothing == [columns |-> <<>>, rows |-> <<>>]

\* Sales per region, one of them unknown, one without a value.
Regions == [columns |-> <<Column("region", "none"), Column("sales", "none")>>,
            rows |-> << [region |-> Text("eu"), sales |-> Number("1")],
                        [region |-> Text("us"), sales |-> Number("2")],
                        [region |-> Null, sales |-> Number("2")],
                        [region |-> Text("eu"), sales |-> Null] >>]

\* More regions than a low category has.
MoreRegions == [columns |-> <<Column("region", "none"), Column("sales", "none")>>,
                rows |-> << [region |-> Text("eu"), sales |-> Text("1")],
                            [region |-> Text("us"), sales |-> Number("1")],
                            [region |-> Text("uk"), sales |-> Text("us")],
                            [region |-> Text("uk"), sales |-> Number("1")],
                            [region |-> Text("us"), sales |-> Number("1")],
                            [region |-> Text("us"), sales |-> Number("1")],
                            [region |-> Text("us"), sales |-> Number("1")],
                            [region |-> Text("us"), sales |-> Number("1")] >>]

\* Sales and costs per day and region.
Days == [columns |-> <<Column("day", "name"), Column("region", "none"),
                       Column("sales", "none"), Column("cost", "none")>>,
         rows |-> << [day |-> Day(1), region |-> Text("eu"), sales |-> Number("1"), cost |-> Number("1")],
                     [day |-> Day(1), region |-> Text("us"), sales |-> Number("2"), cost |-> Number("1")],
                     [day |-> Day(2), region |-> Text("us"), sales |-> Number("2"), cost |-> Null] >>]

\* Two measures and a flag.
Measures == [columns |-> <<Column("open", "none"), Column("sales", "none"), Column("cost", "none")>>,
             rows |-> << [open |-> Flag("true"), sales |-> Number("1"), cost |-> Number("2")],
                         [open |-> Flag("false"), sales |-> Number("1"), cost |-> Number("2")],
                         [open |-> Null, sales |-> Number("2"), cost |-> Number("1")] >>]

\* Categories alone, and one row alone.
Names1 == [columns |-> <<Column("region", "none")>>,
           rows |-> << [region |-> Text("eu")], [region |-> Text("us")], [region |-> Text("eu")] >>]

OneRow == [columns |-> <<Column("sales", "none")>>, rows |-> << [sales |-> Number("2")] >>]

SomeResults == {Nothing, Regions, MoreRegions, Days, Measures, Names1, OneRow}

=============================================================================
