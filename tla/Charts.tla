------------------------------- MODULE Charts -------------------------------
(***************************************************************************)
(* The Chart tab of a SQL cell: what it recommends for a result            *)
(* (lib/chart-recommender.ts), how a chart is picked or built              *)
(* (result-tabs.tsx, chart-builder.tsx), and what is drawn of it           *)
(* (chart-view.tsx): the numbers on the canvas.  Colours, axes, tooltips   *)
(* and the other settings of the drawing are left out.                     *)
(***************************************************************************)
EXTENDS Integers, Sequences, FiniteSets, FiniteSetsExt

CONSTANTS
    Results,     \* results of the cell: sequences of columns and of rows
    Parse,       \* Parse[t]: Number(t), for every text t a cell may have
    Dates,       \* the texts Date.parse takes, of eight characters or more
    NaN,
    ChartTypes, Aggregations,    \* what the builder offers
    Captions,    \* titles the user may type
    IdRows, LowCategory, MidCategory, DonutMost, HistogramMost, \* 5, 10, 50, 8 and 8
    PageSize,    \* recommendations on one page of the grid
    NoChart      \* null

VARIABLES
    result,   \* the last result of the cell
    config,   \* its chart_config
    mode,     \* what the tab shows: "grid", "full" or "custom"
    page,     \* the page of the grid
    canvas,   \* what ECharts has been given
    picked    \* history: config is a recommendation for result, unchanged

chartsVars == <<result, config, mode, page, canvas, picked>>

ChartsConstants ==
    /\ Parse[""] = 0 /\ NaN \notin Int /\ NoChart \notin DOMAIN Parse
    /\ NoChart \notin {"sum", "count", "min", "max", "avg"}
    /\ Dates \subseteq DOMAIN Parse /\ \A t \in DOMAIN Parse : Parse[t] \in Int \cup {NaN}
    /\ \A r \in Results : \A i \in DOMAIN r.rows : DOMAIN r.rows[i] = {c.name : c \in Range(r.columns)}
    /\ \A r \in Results : \A i \in DOMAIN r.rows : \A c \in DOMAIN r.rows[i] :
            r.rows[i][c].text \in DOMAIN Parse
    /\ \A r \in Results : IsFiniteSet(DOMAIN r.rows)
    /\ {IdRows, LowCategory, MidCategory, DonutMost, HistogramMost} \subseteq Nat
    /\ PageSize \in Nat \ {0}

---------------------------------------------------------------------------
(* Values.  A cell has a kind and a text; a column the row lacks is        *)
(* undefined, which is no number, whereas null is zero.                    *)

Undefined == [kind |-> "undefined", text |-> ""]

At(row, col) == IF col \in DOMAIN row THEN row[col] ELSE Undefined

NumberOf(cell) ==
    CASE cell.kind = "undefined" -> NaN
      [] cell.kind = "null" -> 0
      [] cell.kind = "boolean" -> (IF cell.text = "true" THEN 1 ELSE 0)
      [] OTHER -> Parse[cell.text]

Total(S, f) == MapThenSumSet(LAMBDA i : f[i], S)

Names(r) == {r.columns[i].name : i \in DOMAIN r.columns}

---------------------------------------------------------------------------
(* inferRole: the first that fits, of a column's values.                   *)

ValidRows(r, col) == {i \in DOMAIN r.rows : At(r.rows[i], col).kind # "null"}

Distinct(r, col) == Cardinality({At(r.rows[i], col).text : i \in ValidRows(r, col)})

MostOf(part, whole) == whole > 0 /\ 100 * part >= 85 * whole

\* Dates are texts that both patterns of the code take for one; the code wants six
\* characters of a value in a column whose name hints at a date, eight in others,
\* and looks at the first 200 values, which is all of them here.
LooksLikeTime(r, c) ==
    LET valid == ValidRows(r, c.name)
        dates == {i \in valid : r.rows[i][c.name].text \in Dates}
    IN  \/ c.hint = "type"
        \/ c.hint = "name" /\ dates # {}
        \/ c.hint = "none" /\ MostOf(Cardinality(dates), Cardinality(valid))

Role(r, c) ==
    LET valid == ValidRows(r, c.name)
        numeric == {i \in valid : r.rows[i][c.name].kind # "boolean" /\ NumberOf(r.rows[i][c.name]) # NaN}
        distinct == Distinct(r, c.name)
    IN  CASE \A i \in valid : r.rows[i][c.name].kind = "boolean" -> "boolean"
          [] LooksLikeTime(r, c) -> "time"
          [] distinct = Cardinality(valid) /\ distinct > IdRows -> "id"
          [] MostOf(Cardinality(numeric), Cardinality(valid)) -> "numeric"
          [] distinct <= LowCategory -> "category-low"
          [] distinct <= MidCategory -> "category-mid"
          [] OTHER -> "other"

---------------------------------------------------------------------------
(* recommendCharts: at most eight, the dearest first; no two are alike.    *)

With(r, role) == {i \in DOMAIN r.columns : Role(r, r.columns[i]) = role}

\* The name of the first column of S, or of the second.
First(r, S) == r.columns[Min(S)].name
Second(r, S) == First(r, S \ {Min(S)})

Chart(type, x, y, agg) == [type |-> type, x |-> x, y |-> y, color |-> NoChart, agg |-> agg, title |-> "suggested"]

Rated(score, chart) == [score |-> score, chart |-> chart]

TimeCharts(r, times, low, numbers) ==
    LET t == First(r, times)  n == First(r, numbers) IN
    {Rated(100, Chart("time_series", t, n, "sum"))}
    \cup (IF low = {} THEN {}
          ELSE {Rated(92, [Chart("area", t, n, "sum") EXCEPT !.color = First(r, low)])})
    \cup (IF Cardinality(numbers) < 2 THEN {}
          ELSE {Rated(70, Chart("line", t, Second(r, numbers), "avg"))})

CategoryCharts(r, low, mid, numbers) ==
    LET n == First(r, numbers) IN
    (IF low = {} THEN {} ELSE {Rated(95, Chart("bar", First(r, low), n, "sum"))})
    \cup (IF low # {} /\ Distinct(r, First(r, low)) \in 2 .. DonutMost
          THEN {Rated(80, Chart("donut", First(r, low), n, "sum"))} ELSE {})
    \cup (IF low = {} /\ mid # {} THEN {Rated(85, Chart("bar", First(r, mid), n, "sum"))} ELSE {})

NumberCharts(r, times, low, numbers) ==
    LET n == First(r, numbers) IN
    (IF Cardinality(numbers) < 2 \/ times # {} THEN {}
     ELSE {Rated(78, [Chart("scatter", n, Second(r, numbers), NoChart)
                        EXCEPT !.color = IF low = {} THEN NoChart ELSE First(r, low)])})
    \cup (IF Distinct(r, n) > HistogramMost THEN {Rated(60, Chart("histogram", n, n, "count"))} ELSE {})
    \cup (IF Len(r.rows) = 1 /\ Cardinality(numbers) = 1
          THEN {Rated(90, Chart("kpi", NoChart, n, NoChart))} ELSE {})

Candidates(r) ==
    LET times == With(r, "time")  numbers == With(r, "numeric")  flags == With(r, "boolean")
        low == With(r, "category-low")  mid == With(r, "category-mid")
        cats == IF low # {} THEN low ELSE mid
    IN  IF r.rows = <<>> THEN {}
        ELSE IF numbers = {}
        THEN (IF cats = {} THEN {}
              ELSE {Rated(50, Chart("bar", First(r, cats), First(r, cats), "count"))})
        ELSE (IF times = {} THEN {} ELSE TimeCharts(r, times, low, numbers))
             \cup CategoryCharts(r, low, mid, numbers)
             \cup NumberCharts(r, times, low, numbers)
             \cup (IF flags = {} THEN {}
                   ELSE {Rated(55, Chart("bar", First(r, flags), First(r, numbers), "sum"))})

\* The place of a candidate, in order of its score; no two scores are equal.
Rank(r, c) == Cardinality({d \in Candidates(r) : d.score > c.score})

---------------------------------------------------------------------------
(* buildOption: the numbers on the canvas, each with the rows it stands for.*)

\* aggregate: the rows of each group, by the text of x; rows whose y is no
\* number are skipped.
Aggregate(r, x, y) ==
    LET rows == {i \in DOMAIN r.rows : NumberOf(At(r.rows[i], y)) # NaN}
    IN  [g \in {At(r.rows[i], x).text : i \in rows} |-> {i \in rows : At(r.rows[i], x).text = g}]

\* The value drawn for the rows of a group; an average is a sum and a count.
Drawn(r, y, agg, rows) ==
    LET num == [i \in rows |-> NumberOf(At(r.rows[i], y))] IN
    CASE agg = "count" -> Cardinality(rows)
      [] agg = "min" -> Min({num[i] : i \in rows})
      [] agg = "max" -> Max({num[i] : i \in rows})
      [] agg = "avg" -> <<Total(rows, num), Cardinality(rows)>>
      [] OTHER -> Total(rows, num)

\* The single number of a KPI, with its label.
KPI(r, c) ==
    LET rows == {i \in DOMAIN r.rows : NumberOf(At(r.rows[i], c.y)) # NaN} IN
    [type |-> "kpi", label |-> IF c.title = NoChart THEN c.y ELSE c.title,
     marks |-> {[at |-> "", value |-> Drawn(r, c.y, "sum", rows), rows |-> rows]}]

\* A scatter's point stands at its number, or at zero.
Position(type, g) == IF type # "scatter" THEN g ELSE IF Parse[g] = NaN THEN 0 ELSE Parse[g]

Series(r, c) ==
    LET groups == Aggregate(r, c.x, c.y) IN
    [type |-> c.type, label |-> NoChart,
     marks |-> {[at |-> Position(c.type, g), value |-> Drawn(r, c.y, c.agg, groups[g]), rows |-> groups[g]] :
                    g \in DOMAIN groups}]

Option(r, c) ==
    IF r.rows = <<>> \/ c.y = NoChart \/ (c.type # "kpi" /\ c.x = NoChart) THEN NoChart
    ELSE IF c.type = "kpi" THEN KPI(r, c)
    ELSE Series(r, c)

---------------------------------------------------------------------------
DefaultChart == [type |-> "bar", x |-> NoChart, y |-> NoChart, color |-> NoChart,
                 agg |-> NoChart, title |-> NoChart]

Unconfigured(c) == c.x = NoChart /\ c.y = NoChart

\* The chart itself is mounted: always in full, in custom when it has an axis.
Mounted(m, c) == m = "full" \/ (m = "custom" /\ ~Unconfigured(c))

\* Faulty: the option is not built again when the aggregation changes.
KeyWithoutAggregation(c) == <<c.type, c.x, c.y, c.color>>

\* The fields the option is memoised by, beside the result.
Key(c) == <<c.type, c.x, c.y, c.color, c.agg>>

\* The tab is rendered with result r, configuration c and mode m.
Rendered(r, c, m) ==
    /\ result' = r /\ config' = c /\ mode' = m
    /\ canvas' = IF ~Mounted(m, c) THEN NoChart
                 ELSE IF Mounted(mode, config) /\ m = mode /\ r = result /\ Key(c) = Key(config)
                 THEN canvas
                 ELSE Option(r, c)

Init ==
    /\ result \in {r \in Results : r.rows = <<>>}
    /\ config = DefaultChart /\ mode = "grid" /\ page = 0 /\ canvas = NoChart
    /\ picked = FALSE

\* The cell is run again; its configuration stays, whatever the columns are.
Run == \E r \in Results \ {result} :
    /\ Rendered(r, config, mode)
    /\ picked' = FALSE
    /\ UNCHANGED page

\* Another tab, and back: the mode and the page start afresh.
Reopen ==
    LET m == IF Unconfigured(config) THEN "grid" ELSE "full" IN
    /\ page' = 0
    /\ result' = result /\ config' = config /\ mode' = m
    /\ canvas' = IF Mounted(m, config) THEN Option(result, config) ELSE NoChart
    /\ UNCHANGED picked

Pages(r) == IF Candidates(r) = {} THEN 1 ELSE 1 + (Cardinality(Candidates(r)) - 1) \div PageSize

\* "Try another set": there are two pages at most, so the clicks count by their parity.
AnotherSet ==
    /\ mode = "grid" /\ Pages(result) > 1
    /\ page' = (page + 1) % Pages(result)
    /\ UNCHANGED <<result, config, mode, canvas, picked>>

\* A thumbnail of the page shown is clicked.
Pick == \E c \in Candidates(result) :
    /\ mode = "grid"
    /\ Rank(result, c) \div PageSize = page % Pages(result)
    /\ Rendered(result, c.chart, "full")
    /\ picked' = TRUE
    /\ UNCHANGED page

\* "Suggestions", "Back to suggestions", "Customize this chart", the tile.
SetMode == \E m \in {"grid", "custom"} \ {mode} :
    /\ Rendered(result, config, m)
    /\ UNCHANGED <<page, picked>>

\* One field of the builder.
Build == \E c \in {[config EXCEPT !.type = t] : t \in ChartTypes}
                  \cup {[config EXCEPT !.x = x] : x \in Names(result) \cup {NoChart}}
                  \cup {[config EXCEPT !.y = y] : y \in Names(result) \cup {NoChart}}
                  \cup {[config EXCEPT !.agg = a] : a \in Aggregations \cup {NoChart}} :
    /\ mode = "custom" /\ c # config
    /\ Rendered(result, c, mode)
    /\ picked' = FALSE
    /\ UNCHANGED page

\* The title above the canvas, or the one of the builder.
Rename == \E t \in Captions \cup {NoChart} :
    /\ mode = "custom" \/ Mounted(mode, config)
    /\ Rendered(result, [config EXCEPT !.title = t], mode)
    /\ UNCHANGED <<page, picked>>

Next == Run \/ Reopen \/ AnotherSet \/ Pick \/ SetMode \/ Build \/ Rename

Spec == Init /\ [][Next]_chartsVars

---------------------------------------------------------------------------
(* picked is history: the code has none.                                   *)

TypeOK ==
    /\ result \in Results
    /\ config.type \in ChartTypes \cup {"time_series", "area", "line", "bar", "donut", "scatter", "histogram", "kpi"}
    /\ mode \in {"grid", "full", "custom"} /\ page \in Nat /\ picked \in BOOLEAN
    /\ canvas # NoChart => Mounted(mode, config)

\* The chart drawn accounts for the result it is drawn of, whatever has been
\* run, picked, built and renamed since it was first drawn: its bars add up to
\* the column, or to the number of its values, its highest is the highest.
ChartAddsUp ==
    LET rows == {i \in DOMAIN result.rows : NumberOf(At(result.rows[i], config.y)) # NaN}
        num == [i \in rows |-> NumberOf(At(result.rows[i], config.y))]
        values == {m.value : m \in canvas.marks}
        total == Total(canvas.marks, [m \in canvas.marks |-> m.value])
    IN  canvas # NoChart =>
            IF config.type = "kpi" \/ config.agg \in {"sum", NoChart} THEN total = Total(rows, num)
            ELSE IF config.agg = "count" THEN total = Cardinality(rows)
            ELSE config.agg = "max" /\ rows # {} => Max(values) = Max({num[i] : i \in rows})

\* chart-recommender.ts: "Count of rows per" category, with a bar for each.
CountsTheRows ==
    picked /\ canvas # NoChart /\ canvas.type = "bar" /\ config.agg = "count" =>
        MapThenSumSet(LAMBDA m : m.value, canvas.marks) = Len(result.rows)

=============================================================================
