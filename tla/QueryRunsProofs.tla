-------------------------- MODULE QueryRunsProofs --------------------------
(***************************************************************************)
(* What holds of the runs of SQL cells for any notebooks, cells and number *)
(* of runs: the registry is exact, every fetch that is listened to can be  *)
(* aborted, a mark has its fetch, a stopped run never shows, the last run  *)
(* of a cell wins, and all of it implements CellRuns.                      *)
(***************************************************************************)
EXTENDS QueryRuns, SequenceTheorems, TLAPS

\* What a cell's instance holds is its newest run, which nobody has stopped.
Handles ==
    \A c \in Cells : ref[c] # None =>
        /\ ref[c] \in Started
        /\ runs[ref[c]].by = "cell"
        /\ runs[ref[c]].cell = c
        /\ cancel[ref[c]] = "none"
        /\ \A p \in Started : runs[p].by = "cell" /\ runs[p].cell = c => p <= ref[c]

\* A cancel call is for a cell's run whose fetch nobody listens to any more.
Cancelled ==
    \A q \in Runs : cancel[q] # "none" => q \in Started /\ ~Pending(q)

\* MarkHasItsFetch of every cell: a mark under another tab is astray.
Marks ==
    \A t \in Tabs, c \in Cells :
        results[t][c].running /\ <<t, c>> \notin strayed =>
            t = active /\ \E q \in Started : Pending(q) /\ runs[q].cell = c

Fetches == Handles /\ Cancelled /\ EveryFetchHasItsHandle /\ Marks

\* An entry that was popped is of a query that had registered.
Popped ==
    \A q \in Runs : cancel[q] \in {"popped", "fired"} =>
        q \in Started /\ runs[q].server # "sent"

IInv == TypeOK /\ RegistryIsExact /\ Popped /\ Fetches

\* What a step may change of the outcomes on the screen: one is taken away, or
\* that of a fetch which is listened to appears.
ShowsPending ==
    \A t \in Tabs, c \in Cells :
        \/ results'[t][c].shown \in {results[t][c].shown, None}
        \/ /\ Pending(results'[t][c].shown)
           /\ runs[results'[t][c].shown].cell = c

-----------------------------------------------------------------------------
(* What the operators do to the parts of the state.                         *)

LEMMA StartedFacts ==
    ASSUME TypeOK
    PROVE  /\ Started \subseteq Runs /\ Started = 1 .. Len(runs)
           /\ \A q \in Started : runs[q] \in Run
           /\ None \notin Started
<1>1. count \in Nat /\ count <= MaxRuns /\ runs \in Seq(Run) /\ Len(runs) = count
    BY QueryRunsAssumption DEF TypeOK
<1>2. \A q \in 1 .. Len(runs) : runs[q] \in Run
    BY <1>1, ElementOfSeq
<1>3. Started \subseteq Runs
    BY <1>1, QueryRunsAssumption DEF Started, Runs
<1>4. QED
    BY <1>1, <1>2, <1>3, QueryRunsAssumption DEF Started

\* Settling fetches changes nothing else of the runs.
LEMMA SettledFacts ==
    ASSUME NEW rs \in Seq(Run), NEW Q
    PROVE  /\ Settled(rs, Q) \in Seq(Run)
           /\ Len(Settled(rs, Q)) = Len(rs)
           /\ \A q \in 1 .. Len(rs) :
                  /\ Settled(rs, Q)[q].cell = rs[q].cell
                  /\ Settled(rs, Q)[q].by = rs[q].by
                  /\ Settled(rs, Q)[q].rest = rs[q].rest
                  /\ Settled(rs, Q)[q].server = rs[q].server
                  /\ Settled(rs, Q)[q].fetch = IF q \in Q THEN "settled" ELSE rs[q].fetch
<1>1. Len(rs) \in Nat /\ DOMAIN rs = 1 .. Len(rs)
    BY LenProperties
<1>2. \A q \in 1 .. Len(rs) : rs[q] \in Run
    BY ElementOfSeq
<1>3. \A q \in 1 .. Len(rs) : [rs[q] EXCEPT !.fetch = "settled"] \in Run
    BY <1>2 DEF Run
<1> DEFINE f == [q \in 1 .. Len(rs) |->
                    IF q \in Q THEN [rs[q] EXCEPT !.fetch = "settled"] ELSE rs[q]]
<1>4. Settled(rs, Q) = f
    BY <1>1 DEF Settled
<1>5. f \in [1 .. Len(rs) -> Run]
    BY <1>2, <1>3
<1>6. f \in Seq(Run) /\ Len(f) = Len(rs)
    <2>1. f \in Seq(Run)
        BY <1>1, <1>5, SeqDef
    <2>2. Len(f) \in Nat /\ DOMAIN f = 1 .. Len(f) /\ DOMAIN f = 1 .. Len(rs)
        BY <2>1, <1>5, LenProperties
    <2>3. QED
        BY <2>1, <2>2, <1>1
<1>7. \A q \in 1 .. Len(rs) :
          /\ f[q].cell = rs[q].cell
          /\ f[q].by = rs[q].by
          /\ f[q].rest = rs[q].rest
          /\ f[q].server = rs[q].server
          /\ f[q].fetch = IF q \in Q THEN "settled" ELSE rs[q].fetch
    BY <1>2 DEF Run
<1>8. QED
    BY <1>4, <1>6, <1>7

\* A new run.
LEMMA NewRunFacts ==
    ASSUME NEW c \in Cells, NEW by \in {"cell", "all"}, NEW rest \in Seq(Cells)
    PROVE  /\ NewRun(c, by, rest) \in Run
           /\ NewRun(c, by, rest).cell = c
           /\ NewRun(c, by, rest).by = by
           /\ NewRun(c, by, rest).fetch = "pending"
           /\ NewRun(c, by, rest).server = "sent"
    BY DEF NewRun, Run

\* It is the last one.
LEMMA NewestFacts ==
    ASSUME NEW rs \in Seq(Run), NEW x \in Run
    PROVE  /\ Append(rs, x) \in Seq(Run) /\ Len(Append(rs, x)) = Len(rs) + 1
           /\ \A q \in 1 .. Len(rs) : Append(rs, x)[q] = rs[q]
           /\ Append(rs, x)[Len(rs) + 1] = x
    BY AppendProperties

LEMMA MarkFacts ==
    ASSUME NEW res \in [Tabs -> [Cells -> Result]], NEW t \in Tabs, NEW c \in Cells,
           NEW b \in BOOLEAN
    PROVE  /\ Mark(res, t, c, b) \in [Tabs -> [Cells -> Result]]
           /\ Mark(res, t, c, b)[t][c].running = b
           /\ \A u \in Tabs, d \in Cells :
                  /\ Mark(res, t, c, b)[u][d].shown = res[u][d].shown
                  /\ u # t \/ d # c => Mark(res, t, c, b)[u][d] = res[u][d]
<1>1. /\ res[t] \in [Cells -> Result] /\ res[t][c] \in Result
      /\ [res[t][c] EXCEPT !.running = b] \in Result
    BY DEF Result
<1> DEFINE e == [res[t][c] EXCEPT !.running = b]
           row == [res[t] EXCEPT ![c] = e]
<1>2. e \in Result /\ e.running = b /\ e.shown = res[t][c].shown
    BY <1>1 DEF Result
<1>3. Mark(res, t, c, b) = [res EXCEPT ![t] = row]
    BY DEF Mark
<1> HIDE DEF e
<1>4. /\ row \in [Cells -> Result] /\ row[c] = e
      /\ \A d \in Cells : d # c => row[d] = res[t][d]
    BY <1>1, <1>2
<1> HIDE DEF row
<1>5. QED
    BY <1>2, <1>3, <1>4

LEMMA IngestFacts ==
    ASSUME NEW res \in [Tabs -> [Cells -> Result]], NEW t \in Tabs, NEW c \in Cells,
           NEW q \in Runs
    PROVE  /\ Ingest(res, t, c, q) \in [Tabs -> [Cells -> Result]]
           /\ ~Ingest(res, t, c, q)[t][c].running
           /\ Ingest(res, t, c, q)[t][c].shown = q
           /\ \A u \in Tabs, d \in Cells :
                  u # t \/ d # c => Ingest(res, t, c, q)[u][d] = res[u][d]
<1> DEFINE e == [running |-> FALSE, shown |-> q]
           row == [res[t] EXCEPT ![c] = e]
<1>1. e \in Result /\ ~e.running /\ e.shown = q
    BY DEF Result
<1>2. Ingest(res, t, c, q) = [res EXCEPT ![t] = row]
    BY DEF Ingest
<1> HIDE DEF e
<1>3. /\ row \in [Cells -> Result] /\ row[c] = e
      /\ \A d \in Cells : d # c => row[d] = res[t][d]
    BY <1>1
<1> HIDE DEF row
<1>4. QED
    BY <1>1, <1>2, <1>3

LEMMA StillFacts ==
    ASSUME NEW S \in SUBSET (Tabs \X Cells), NEW res
    PROVE  /\ StillRunning(S, res) \subseteq Tabs \X Cells
           /\ \A t \in Tabs, c \in Cells :
                  res[t][c].running /\ <<t, c>> \in S => <<t, c>> \in StillRunning(S, res)
    BY DEF StillRunning

LEMMA CellIdsFacts ==
    ASSUME NEW t \in Tabs
    PROVE  CellsOf[t] \in Seq(Cells) /\ CellIds(t) \subseteq Cells
<1>1. CellsOf[t] \in Seq(Cells)
    BY QueryRunsAssumption
<1>2. QED
    BY <1>1, ElementOfSeq DEF CellIds

LEMMA RunsNextFacts ==
    ASSUME TypeOK, NEW res \in [Tabs -> [Cells -> Result]],
           NEW rs \in Seq(Run), Len(rs) = count,
           NEW todo \in Seq(Cells), todo # <<>>, RunsNext(res, rs, todo)
    PROVE  /\ count' = count + 1 /\ count' \in Runs
           /\ runs' \in Seq(Run) /\ Len(runs') = count'
           /\ \A q \in Started : runs'[q] = rs[q]
           /\ Head(todo) \in Cells
           /\ runs'[count'].cell = Head(todo) /\ runs'[count'].by = "all"
           /\ runs'[count'].fetch = "pending" /\ runs'[count'].server = "sent"
           /\ results' \in [Tabs -> [Cells -> Result]]
           /\ \A u \in Tabs, d \in Cells :
                  /\ results'[u][d].shown = res[u][d].shown
                  /\ u # active \/ d # Head(todo) => results'[u][d] = res[u][d]
<1> DEFINE h == Head(todo)
           x == NewRun(h, "all", Tail(todo))
           b == TRUE
<1>1. h \in Cells /\ Tail(todo) \in Seq(Cells) /\ active \in Tabs
    BY HeadTailProperties DEF TypeOK
<1>2. x \in Run /\ x.cell = h /\ x.by = "all" /\ x.fetch = "pending" /\ x.server = "sent"
    <2> DEFINE rest == Tail(todo)
    <2>1. rest \in Seq(Cells)
        BY <1>1
    <2> HIDE DEF h, rest
    <2>2. NewRun(h, "all", rest) \in Run
        BY <1>1, <2>1 DEF NewRun, Run
    <2>3. QED
        BY <2>2 DEF rest, NewRun
<1>3. /\ count' = count + 1 /\ count' \in Runs
      /\ runs' = Append(rs, x)
      /\ results' = Mark(res, active, h, b)
    BY DEF RunsNext
<1>4. b \in BOOLEAN /\ count \in Nat
    BY DEF TypeOK
<1> HIDE DEF h, x, b
<1>5. /\ runs' \in Seq(Run) /\ Len(runs') = count'
      /\ \A q \in Started : runs'[q] = rs[q]
      /\ runs'[count'] = x
    BY <1>2, <1>3, <1>4, NewestFacts DEF Started
<1>6. /\ results' \in [Tabs -> [Cells -> Result]]
      /\ \A u \in Tabs, d \in Cells :
             /\ results'[u][d].shown = res[u][d].shown
             /\ u # active \/ d # h => results'[u][d] = res[u][d]
    BY <1>1, <1>3, <1>4, MarkFacts
<1>7. QED
    BY <1>1, <1>2, <1>3, <1>5, <1>6 DEF h

-----------------------------------------------------------------------------
(* Parts of the invariant that whole groups of actions leave alone.         *)

\* A step of the browser: no thread of the server moves.
LEMMA RegistryFrame ==
    ASSUME IInv, TypeOK', UNCHANGED registry,
           Started \subseteq Started',
           \A q \in Started : runs'[q].server = runs[q].server /\ runs'[q].by = runs[q].by,
           \A q \in Started' : q \notin Started => runs'[q].server = "sent",
           \A q \in Runs : cancel'[q] \in {"popped", "fired"} <=> cancel[q] \in {"popped", "fired"}
    PROVE  RegistryIsExact' /\ Popped'
<1>1. InRunQuery' = InRunQuery
    BY DEF InRunQuery
<1>2. InRunQuery \subseteq Runs
    BY StartedFacts DEF IInv, InRunQuery
<1>3. registry = {q \in InRunQuery : cancel[q] \notin {"popped", "fired"}}
    BY DEF IInv, RegistryIsExact
<1>4. RegistryIsExact'
    BY <1>1, <1>2, <1>3 DEF RegistryIsExact
<1>5. Popped'
    BY DEF IInv, Popped
<1>6. QED
    BY <1>4, <1>5

\* A step of the server: what the browser knows of the runs stays.
LEMMA FetchesFrame ==
    ASSUME IInv, UNCHANGED <<active, results, mounted, ref, count, strayed>>,
           \A q \in Started : /\ runs'[q].cell = runs[q].cell
                              /\ runs'[q].by = runs[q].by
                              /\ runs'[q].fetch = runs[q].fetch,
           \A q \in Runs : cancel'[q] = "none" <=> cancel[q] = "none"
    PROVE  Fetches' /\ ShowsPending
<1>1. Started' = Started /\ Started \subseteq Runs
    BY StartedFacts DEF IInv, Started
<1>2. \A q : Pending(q)' <=> Pending(q)
    BY <1>1 DEF Pending
<1>3. Handles'
    BY <1>1 DEF IInv, Fetches, Handles
<1>4. Cancelled'
    BY <1>1, <1>2 DEF IInv, Fetches, Cancelled
<1>5. EveryFetchHasItsHandle'
    BY <1>1, <1>2 DEF IInv, Fetches, EveryFetchHasItsHandle
<1>6. Marks'
    BY <1>1, <1>2 DEF IInv, Fetches, Marks
<1>7. ShowsPending
    BY DEF ShowsPending
<1>8. QED
    BY <1>3, <1>4, <1>5, <1>6, <1>7 DEF Fetches

\* The next step of a thread.
LEMMA ServerStepFacts ==
    ASSUME IInv, NEW q \in Started,
           NEW to \in {"sent", "registered", "executing", "over", "answered"},
           runs' = [runs EXCEPT ![q].server = to], UNCHANGED Frontend
    PROVE  /\ runs' \in Seq(Run) /\ Len(runs') = count /\ Started' = Started
           /\ \A p \in Started : /\ runs'[p].cell = runs[p].cell
                                 /\ runs'[p].by = runs[p].by
                                 /\ runs'[p].rest = runs[p].rest
                                 /\ runs'[p].fetch = runs[p].fetch
                                 /\ p # q => runs'[p].server = runs[p].server
           /\ runs'[q].server = to
<1>1. runs \in Seq(Run) /\ Len(runs) = count /\ Started = 1 .. Len(runs) /\ runs[q] \in Run
    BY StartedFacts DEF IInv, TypeOK
<1> DEFINE e == [runs[q] EXCEPT !.server = to]
<1>2. /\ e \in Run /\ e.cell = runs[q].cell /\ e.by = runs[q].by /\ e.rest = runs[q].rest
      /\ e.fetch = runs[q].fetch /\ e.server = to
    BY <1>1 DEF Run
<1>3. runs' = [runs EXCEPT ![q] = e]
    OBVIOUS
<1> HIDE DEF e
<1>4. /\ runs' \in Seq(Run) /\ Len(runs') = Len(runs)
      /\ \A p \in 1 .. Len(runs) : runs'[p] = IF p = q THEN e ELSE runs[p]
    BY <1>1, <1>2, <1>3, ExceptSeq
<1>5. Started' = Started
    BY DEF Started, Frontend
<1>6. QED
    BY <1>1, <1>2, <1>4, <1>5

-----------------------------------------------------------------------------
(* The server.                                                              *)

LEMMA RegisterStep ==
    ASSUME IInv, NEW q \in Started, Register(q)
    PROVE  IInv' /\ ShowsPending
<1>1. /\ runs' = [runs EXCEPT ![q].server = "registered"]
      /\ runs[q].server = "sent"
      /\ registry' = registry \cup Entry(q)
      /\ UNCHANGED <<Frontend, cancel>>
    BY DEF Register, ServerStep
<1>2. /\ runs' \in Seq(Run) /\ Len(runs') = count /\ Started' = Started
      /\ \A p \in Started : /\ runs'[p].cell = runs[p].cell
                            /\ runs'[p].by = runs[p].by
                            /\ runs'[p].fetch = runs[p].fetch
                            /\ p # q => runs'[p].server = runs[p].server
      /\ runs'[q].server = "registered"
    BY <1>1, ServerStepFacts
<1>3. Fetches' /\ ShowsPending
    BY <1>1, <1>2, FetchesFrame DEF Frontend
<1>4. TypeOK'
    BY <1>1, <1>2 DEF IInv, TypeOK, Frontend, Entry
<1>5. cancel[q] \notin {"popped", "fired"} /\ q \in Runs
    BY <1>1, StartedFacts DEF IInv, Popped
<1>6. Popped'
    BY <1>1, <1>2 DEF IInv, Popped
<1>7. InRunQuery' = InRunQuery \cup Entry(q)
    BY <1>1, <1>2 DEF InRunQuery, Entry
<1>8. RegistryIsExact'
    BY <1>1, <1>5, <1>7 DEF IInv, RegistryIsExact, Entry
<1>9. QED
    BY <1>3, <1>4, <1>6, <1>8 DEF IInv

\* A thread moves on without touching the registry, inside run_query or
\* outside it.
LEMMA ThreadMoves ==
    ASSUME IInv, NEW q \in Started,
           NEW to \in {"sent", "registered", "executing", "over", "answered"}, to # "sent",
           runs' = [runs EXCEPT ![q].server = to], UNCHANGED <<Frontend, registry>>,
           runs[q].server \in {"registered", "executing", "over"}
               <=> to \in {"registered", "executing", "over"},
           cancel' \in [Runs -> {"none", "sent", "lost", "popped", "unknown", "fired"}],
           \A p \in Runs : /\ cancel'[p] = "none" <=> cancel[p] = "none"
                           /\ cancel'[p] \in {"popped", "fired"} <=> cancel[p] \in {"popped", "fired"}
    PROVE  IInv' /\ ShowsPending
<1>1. /\ runs' \in Seq(Run) /\ Len(runs') = count /\ Started' = Started
      /\ \A p \in Started : /\ runs'[p].cell = runs[p].cell
                            /\ runs'[p].by = runs[p].by
                            /\ runs'[p].rest = runs[p].rest
                            /\ runs'[p].fetch = runs[p].fetch
                            /\ p # q => runs'[p].server = runs[p].server
      /\ runs'[q].server = to
    BY ServerStepFacts
<1>2. Fetches' /\ ShowsPending
    BY <1>1, FetchesFrame DEF Frontend
<1>3. TypeOK'
    BY <1>1 DEF IInv, TypeOK, Frontend
<1>4. Popped'
    BY <1>1 DEF IInv, Popped
<1>5. InRunQuery' = InRunQuery /\ InRunQuery \subseteq Runs
    BY <1>1, StartedFacts DEF InRunQuery, IInv
<1>6. RegistryIsExact'
    <2>1. registry = {p \in InRunQuery : cancel[p] \notin {"popped", "fired"}}
        BY DEF IInv, RegistryIsExact
    <2>2. QED
        BY <2>1, <1>5 DEF RegistryIsExact
<1>7. QED
    BY <1>2, <1>3, <1>4, <1>6 DEF IInv

LEMMA ThreadStep ==
    ASSUME IInv, NEW q \in Started, Refuse(q) \/ Execute(q) \/ Finish(q)
    PROVE  IInv' /\ ShowsPending
<1>1. UNCHANGED <<Frontend, registry>> /\ cancel' = cancel
    BY DEF Refuse, Execute, Finish
<1>2. cancel' \in [Runs -> {"none", "sent", "lost", "popped", "unknown", "fired"}]
    BY <1>1 DEF IInv, TypeOK
<1>3. CASE Refuse(q)
    BY <1>1, <1>2, <1>3, ThreadMoves DEF Refuse, ServerStep
<1>4. CASE Execute(q)
    BY <1>1, <1>2, <1>4, ThreadMoves DEF Execute, ServerStep
<1>5. CASE Finish(q)
    BY <1>1, <1>2, <1>5, ThreadMoves DEF Finish, ServerStep
<1>6. QED
    BY <1>3, <1>4, <1>5

LEMMA AnswerStep ==
    ASSUME IInv, NEW q \in Started, Answer(q)
    PROVE  IInv' /\ ShowsPending
<1>1. /\ runs' = [runs EXCEPT ![q].server = "answered"]
      /\ registry' = registry \ {q}
      /\ UNCHANGED <<Frontend, cancel>>
    BY DEF Answer, ServerStep, EntriesWithout
<1>2. /\ runs' \in Seq(Run) /\ Len(runs') = count /\ Started' = Started
      /\ \A p \in Started : /\ runs'[p].cell = runs[p].cell
                            /\ runs'[p].by = runs[p].by
                            /\ runs'[p].fetch = runs[p].fetch
                            /\ p # q => runs'[p].server = runs[p].server
      /\ runs'[q].server = "answered"
    BY <1>1, ServerStepFacts
<1>3. Fetches' /\ ShowsPending
    BY <1>1, <1>2, FetchesFrame DEF Frontend
<1>4. TypeOK'
    BY <1>1, <1>2 DEF IInv, TypeOK, Frontend
<1>5. Popped'
    BY <1>1, <1>2 DEF IInv, Popped
<1>6. InRunQuery' = InRunQuery \ {q}
    BY <1>1, <1>2 DEF InRunQuery
<1>7. RegistryIsExact'
    BY <1>1, <1>6 DEF IInv, RegistryIsExact
<1>8. QED
    BY <1>3, <1>4, <1>5, <1>7 DEF IInv

LEMMA CancelPopsStep ==
    ASSUME IInv, NEW q \in Started, CancelPops(q)
    PROVE  IInv' /\ ShowsPending
<1>1. /\ cancel[q] = "sent"
      /\ cancel' = [cancel EXCEPT ![q] = IF q \in registry THEN "popped" ELSE "unknown"]
      /\ registry' = registry \ {q}
      /\ UNCHANGED <<Frontend, runs>> /\ Started' = Started
    BY DEF CancelPops, EntriesWithout, Frontend, Started
<1>2. q \in Runs /\ Started \subseteq Runs
    BY StartedFacts DEF IInv
<1>3. /\ cancel' \in [Runs -> {"none", "sent", "lost", "popped", "unknown", "fired"}]
      /\ cancel'[q] = IF q \in registry THEN "popped" ELSE "unknown"
      /\ \A p \in Runs : p # q => cancel'[p] = cancel[p]
    BY <1>1, <1>2 DEF IInv, TypeOK
<1>4. Fetches' /\ ShowsPending
    BY <1>1, <1>3, FetchesFrame DEF Frontend
<1>5. TypeOK'
    BY <1>1, <1>3 DEF IInv, TypeOK, Frontend
<1>6. Popped'
    BY <1>1, <1>3 DEF IInv, Popped, RegistryIsExact, InRunQuery
<1>7. RegistryIsExact'
    <2>1. registry = {p \in InRunQuery : cancel[p] \notin {"popped", "fired"}}
        BY DEF IInv, RegistryIsExact
    <2>2. InRunQuery' = InRunQuery /\ InRunQuery \subseteq Runs
        BY <1>1, <1>2 DEF InRunQuery
    <2>3. QED
        BY <2>1, <2>2, <1>1, <1>3 DEF RegistryIsExact
<1>8. QED
    BY <1>4, <1>5, <1>6, <1>7 DEF IInv

LEMMA CancelFiresStep ==
    ASSUME IInv, NEW q \in Started, CancelFires(q)
    PROVE  IInv' /\ ShowsPending
<1>1. /\ cancel[q] = "popped" /\ cancel' = [cancel EXCEPT ![q] = "fired"]
      /\ UNCHANGED <<Frontend, registry>> /\ Started' = Started
    BY DEF CancelFires, Frontend, Started
<1>2. q \in Runs /\ Started \subseteq Runs
    BY StartedFacts DEF IInv
<1>3. /\ cancel' \in [Runs -> {"none", "sent", "lost", "popped", "unknown", "fired"}]
      /\ cancel'[q] = "fired"
      /\ \A p \in Runs : p # q => cancel'[p] = cancel[p]
    BY <1>1, <1>2 DEF IInv, TypeOK
<1>4. CASE runs[q].server = "executing"
    <2>1. runs' = [runs EXCEPT ![q].server = "over"]
        BY <1>4 DEF CancelFires
    <2>2. QED
        BY <2>1, <1>1, <1>3, <1>4, ThreadMoves
<1>5. CASE runs[q].server # "executing"
    <2>1. runs' = runs
        BY <1>5 DEF CancelFires
    <2>2. Fetches' /\ ShowsPending
        BY <2>1, <1>1, <1>3, FetchesFrame DEF Frontend
    <2>3. TypeOK'
        BY <2>1, <1>1, <1>3 DEF IInv, TypeOK, Frontend
    <2>4. RegistryIsExact' /\ Popped'
        BY <2>1, <2>3, <1>1, <1>3, RegistryFrame
    <2>5. QED
        BY <2>2, <2>3, <2>4 DEF IInv
<1>6. QED
    BY <1>4, <1>5

LEMMA CancelLostStep ==
    ASSUME IInv, NEW q \in Started, CancelLost(q)
    PROVE  IInv' /\ ShowsPending
<1>1. /\ cancel[q] = "sent" /\ cancel' = [cancel EXCEPT ![q] = "lost"]
      /\ UNCHANGED <<Frontend, runs, registry>> /\ Started' = Started
    BY DEF CancelLost, Frontend, Started
<1>2. q \in Runs /\ Started \subseteq Runs
    BY StartedFacts DEF IInv
<1>3. /\ cancel' \in [Runs -> {"none", "sent", "lost", "popped", "unknown", "fired"}]
      /\ cancel'[q] = "lost"
      /\ \A p \in Runs : p # q => cancel'[p] = cancel[p]
    BY <1>1, <1>2 DEF IInv, TypeOK
<1>4. Fetches' /\ ShowsPending
    BY <1>1, <1>3, FetchesFrame DEF Frontend
<1>5. TypeOK'
    BY <1>1, <1>3 DEF IInv, TypeOK, Frontend
<1>6. RegistryIsExact' /\ Popped'
    BY <1>1, <1>3, <1>5, RegistryFrame
<1>7. QED
    BY <1>4, <1>5, <1>6 DEF IInv

-----------------------------------------------------------------------------
(* The browser.                                                             *)

\* The fetch that a new run or an unmount aborts is the instance's own.
LEMMA SupersededFacts ==
    ASSUME IInv, NEW c \in Cells
    PROVE  \A q \in Superseded(c) :
               q \in Started /\ q = ref[c] /\ Pending(q) /\ runs[q].cell = c
<1> SUFFICES ASSUME NEW q, q = ref[c], Pending(q)
             PROVE  q \in Started /\ runs[q].cell = c
    BY DEF Superseded
<1>1. q \in Started /\ q # None
    BY StartedFacts DEF IInv, Pending
<1>2. QED
    BY <1>1 DEF IInv, Fetches, Handles

\* A browser step that starts no run and only settles fetches.
LEMMA SettledStep ==
    ASSUME IInv, NEW Q, runs' = Settled(runs, Q), UNCHANGED count
    PROVE  /\ runs' \in Seq(Run) /\ Len(runs') = count' /\ Started' = Started
           /\ \A q \in Started : /\ runs'[q].cell = runs[q].cell
                                 /\ runs'[q].by = runs[q].by
                                 /\ runs'[q].server = runs[q].server
           /\ \A q \in Started : Pending(q)' <=> Pending(q) /\ q \notin Q
<1>1. runs \in Seq(Run) /\ Len(runs) = count /\ Started = 1 .. Len(runs)
    BY StartedFacts DEF IInv, TypeOK
<1>2. Started' = Started
    BY DEF Started
<1>3. /\ runs' \in Seq(Run) /\ Len(runs') = Len(runs)
      /\ \A q \in 1 .. Len(runs) :
             /\ runs'[q].cell = runs[q].cell
             /\ runs'[q].by = runs[q].by
             /\ runs'[q].server = runs[q].server
             /\ runs'[q].fetch = IF q \in Q THEN "settled" ELSE runs[q].fetch
    BY <1>1, SettledFacts
<1>4. \A q \in Started : Pending(q)' <=> Pending(q) /\ q \notin Q
    BY <1>1, <1>2, <1>3 DEF Pending
<1>5. QED
    BY <1>1, <1>2, <1>3, <1>4

LEMMA RunCellStep ==
    ASSUME IInv, NEW c \in Cells, RunCell(c)
    PROVE  IInv' /\ ShowsPending
<1> DEFINE q == count + 1
           S == Superseded(c)
           rs == Settled(runs, S)
           x == NewRun(c, "cell", <<>>)
           b == S = {}
<1>1. /\ c \in CellIds(active) /\ c \in mounted /\ q \in Runs /\ count' = q
      /\ runs' = Append(rs, x)
      /\ ref' = [ref EXCEPT ![c] = q]
      /\ results' = Mark(results, active, c, b)
      /\ strayed' = StillRunning(strayed, results')
      /\ UNCHANGED <<active, open, mounted, cancel, registry>>
    BY DEF RunCell
<1>2. /\ runs \in Seq(Run) /\ Len(runs) = count /\ Started = 1 .. Len(runs)
      /\ count \in Nat /\ active \in Tabs /\ Started \subseteq Runs
    BY StartedFacts DEF IInv, TypeOK
<1>3. /\ rs \in Seq(Run) /\ Len(rs) = count
      /\ \A p \in Started :
             /\ rs[p].cell = runs[p].cell
             /\ rs[p].by = runs[p].by
             /\ rs[p].server = runs[p].server
             /\ rs[p].fetch = IF p \in S THEN "settled" ELSE runs[p].fetch
    BY <1>2, SettledFacts
<1>4. x \in Run /\ x.cell = c /\ x.by = "cell" /\ x.fetch = "pending" /\ x.server = "sent"
    BY DEF NewRun, Run
<1>5. b \in BOOLEAN
    OBVIOUS
<1>6. \A p \in S : p \in Started /\ p = ref[c] /\ Pending(p) /\ runs[p].cell = c
    BY SupersededFacts
<1>7. \A p \in Started : Pending(p) /\ ref[c] = p => p \in S
    BY DEF Superseded
<1> HIDE DEF S, rs, x, b
<1>8. /\ runs' \in Seq(Run) /\ Len(runs') = q
      /\ \A p \in Started : runs'[p] = rs[p]
      /\ runs'[q] = x
    BY <1>1, <1>2, <1>3, <1>4, NewestFacts
<1>9. Started' = Started \cup {q} /\ q \notin Started /\ \A p \in Started : p < q
    BY <1>1, <1>2 DEF Started
<1>10. /\ \A p \in Started' : p = q => Pending(p)'
       /\ \A p \in Started : Pending(p)' <=> Pending(p) /\ p \notin S
    BY <1>3, <1>4, <1>8, <1>9 DEF Pending
<1>11. /\ results' \in [Tabs -> [Cells -> Result]]
       /\ \A u \in Tabs, d \in Cells :
              /\ results'[u][d].shown = results[u][d].shown
              /\ u # active \/ d # c => results'[u][d] = results[u][d]
    BY <1>1, <1>2, <1>5, MarkFacts DEF IInv, TypeOK
<1>12. /\ strayed' \subseteq Tabs \X Cells
       /\ \A t \in Tabs, d \in Cells :
              results'[t][d].running /\ <<t, d>> \in strayed => <<t, d>> \in strayed'
    BY <1>1, StillFacts DEF IInv, TypeOK
<1>13. /\ ref' \in [Cells -> Runs \cup {None}] /\ ref'[c] = q
       /\ \A d \in Cells : d # c => ref'[d] = ref[d]
    BY <1>1 DEF IInv, TypeOK
<1>14. TypeOK'
    <2>1. count' \in 0 .. MaxRuns
        BY <1>1, <1>2 DEF Runs
    <2>2. registry' \subseteq Started'
        BY <1>1, <1>9 DEF IInv, TypeOK
    <2>3. QED
        BY <1>1, <1>8, <1>11, <1>12, <1>13, <2>1, <2>2 DEF IInv, TypeOK
<1>15. Handles'
    <2> SUFFICES ASSUME NEW d \in Cells, ref'[d] # None
                 PROVE  /\ ref'[d] \in Started'
                        /\ runs'[ref'[d]].by = "cell"
                        /\ runs'[ref'[d]].cell = d
                        /\ cancel[ref'[d]] = "none"
                        /\ \A p \in Started' :
                               runs'[p].by = "cell" /\ runs'[p].cell = d => p <= ref'[d]
        BY <1>1 DEF Handles
    <2>1. CASE d = c
        <3>1. cancel[q] = "none"
            BY <1>1, <1>9 DEF IInv, Fetches, Cancelled
        <3>2. \A p \in Started' : p <= q
            BY <1>2, <1>9
        <3>3. QED
            BY <2>1, <3>1, <3>2, <1>4, <1>8, <1>9, <1>13
    <2>2. CASE d # c
        BY <2>2, <1>3, <1>4, <1>8, <1>9, <1>13 DEF IInv, Fetches, Handles
    <2>3. QED
        BY <2>1, <2>2
<1>16. Cancelled'
    BY <1>1, <1>9, <1>10 DEF IInv, Fetches, Cancelled
<1>17. EveryFetchHasItsHandle'
    <2> SUFFICES ASSUME NEW p \in Started', Pending(p)', runs'[p].by = "cell"
                 PROVE  runs'[p].cell \in mounted /\ ref'[runs'[p].cell] = p
        BY <1>1 DEF EveryFetchHasItsHandle
    <2>1. CASE p = q
        BY <2>1, <1>1, <1>4, <1>8, <1>13
    <2>2. CASE p # q
        <3>1. p \in Started /\ Pending(p) /\ p \notin S
              /\ runs'[p].cell = runs[p].cell /\ runs[p].by = "cell"
            BY <2>2, <1>3, <1>8, <1>9, <1>10
        <3>2. runs[p].cell \in mounted /\ ref[runs[p].cell] = p
            BY <3>1 DEF IInv, Fetches, EveryFetchHasItsHandle
        <3>3. runs[p].cell # c /\ runs[p].cell \in Cells
            BY <3>1, <3>2, <1>7 DEF IInv, TypeOK
        <3>4. QED
            BY <3>1, <3>2, <3>3, <1>13
    <2>3. QED
        BY <2>1, <2>2
<1>18. Marks'
    <2> SUFFICES ASSUME NEW t \in Tabs, NEW d \in Cells,
                        results'[t][d].running, <<t, d>> \notin strayed'
                 PROVE  t = active /\ \E p \in Started' : Pending(p)' /\ runs'[p].cell = d
        BY <1>1 DEF Marks
    <2>1. CASE t = active /\ d = c
        BY <2>1, <1>4, <1>8, <1>9, <1>10
    <2>2. CASE ~(t = active /\ d = c)
        <3>1. results[t][d].running /\ <<t, d>> \notin strayed
            BY <2>2, <1>11, <1>12
        <3>2. t = active /\ \E p \in Started : Pending(p) /\ runs[p].cell = d
            BY <3>1 DEF IInv, Fetches, Marks
        <3>3. PICK p \in Started : Pending(p) /\ runs[p].cell = d
            BY <3>2
        <3>4. p \notin S
            BY <2>2, <3>2, <3>3, <1>6
        <3>5. Pending(p)' /\ runs'[p].cell = d /\ p \in Started'
            BY <3>3, <3>4, <1>3, <1>8, <1>9, <1>10
        <3>6. QED
            BY <3>2, <3>5
    <2>3. QED
        BY <2>1, <2>2
<1>19. RegistryIsExact' /\ Popped'
    BY <1>1, <1>3, <1>4, <1>8, <1>9, <1>14, RegistryFrame
<1>20. ShowsPending
    BY <1>11 DEF ShowsPending
<1>21. QED
    BY <1>14, <1>15, <1>16, <1>17, <1>18, <1>19, <1>20 DEF IInv, Fetches

\* A browser step that starts no run, stops listening to the fetches Q, and
\* brings no outcome: Stop, a failure, the unmount, the tabs, a refresh.
Drops(Q) ==
    /\ UNCHANGED <<count, registry>>
    /\ \A q \in Started : /\ runs'[q].cell = runs[q].cell
                          /\ runs'[q].by = runs[q].by
                          /\ runs'[q].server = runs[q].server
                          /\ Pending(q)' <=> Pending(q) /\ q \notin Q
    /\ \A c \in Cells : ref'[c] \in {ref[c], None}
    /\ \A c \in Cells : ref'[c] # None => cancel'[ref'[c]] = cancel[ref'[c]]
    /\ \A q \in Started : Pending(q) /\ q \notin Q /\ runs[q].by = "cell" =>
           runs[q].cell \in mounted' /\ ref'[runs[q].cell] = ref[runs[q].cell]
    /\ \A q \in Runs :
           \/ cancel'[q] = cancel[q]
           \/ /\ q \in Started /\ (Pending(q) => q \in Q)
              /\ cancel[q] = "none" /\ cancel'[q] = "sent"
    /\ \A t \in Tabs, c \in Cells :
           results'[t][c].running /\ <<t, c>> \notin strayed' =>
               /\ t = active' /\ t = active
               /\ results[t][c].running /\ <<t, c>> \notin strayed
               /\ \A q \in Started : Pending(q) /\ q \in Q => runs[q].cell # c
    /\ \A t \in Tabs, c \in Cells : results'[t][c].shown \in {results[t][c].shown, None}

LEMMA DropsStep ==
    ASSUME IInv, TypeOK', NEW Q, Drops(Q)
    PROVE  IInv' /\ ShowsPending
<1>1. Started' = Started /\ Started \subseteq Runs
    BY StartedFacts DEF IInv, Started, Drops
<1>2. Handles'
    <2> SUFFICES ASSUME NEW c \in Cells, ref'[c] # None
                 PROVE  /\ ref'[c] \in Started'
                        /\ runs'[ref'[c]].by = "cell"
                        /\ runs'[ref'[c]].cell = c
                        /\ cancel'[ref'[c]] = "none"
                        /\ \A p \in Started' :
                               runs'[p].by = "cell" /\ runs'[p].cell = c => p <= ref'[c]
        BY DEF Handles
    <2>1. ref'[c] = ref[c] /\ ref[c] # None
        BY DEF Drops
    <2>2. /\ ref[c] \in Started /\ runs[ref[c]].by = "cell" /\ runs[ref[c]].cell = c
          /\ cancel[ref[c]] = "none"
          /\ \A p \in Started : runs[p].by = "cell" /\ runs[p].cell = c => p <= ref[c]
        BY <2>1 DEF IInv, Fetches, Handles
    <2>3. QED
        BY <2>1, <2>2, <1>1 DEF Drops
<1>3. Cancelled'
    <2> SUFFICES ASSUME NEW q \in Runs, cancel'[q] # "none"
                 PROVE  q \in Started /\ ~Pending(q)'
        BY <1>1 DEF Cancelled
    <2>1. q \in Started /\ (Pending(q) => q \in Q)
        BY DEF Drops, IInv, Fetches, Cancelled
    <2>2. QED
        BY <2>1 DEF Drops
<1>4. EveryFetchHasItsHandle'
    <2> SUFFICES ASSUME NEW q \in Started, Pending(q)', runs'[q].by = "cell"
                 PROVE  runs'[q].cell \in mounted' /\ ref'[runs'[q].cell] = q
        BY <1>1 DEF EveryFetchHasItsHandle
    <2>1. /\ Pending(q) /\ q \notin Q /\ runs[q].by = "cell"
          /\ runs'[q].cell = runs[q].cell
        BY DEF Drops
    <2>2. QED
        BY <2>1 DEF Drops, IInv, Fetches, EveryFetchHasItsHandle
<1>5. Marks'
    <2> SUFFICES ASSUME NEW t \in Tabs, NEW c \in Cells,
                        results'[t][c].running, <<t, c>> \notin strayed'
                 PROVE  t = active' /\ \E q \in Started : Pending(q)' /\ runs'[q].cell = c
        BY <1>1 DEF Marks
    <2>1. /\ t = active' /\ results[t][c].running /\ <<t, c>> \notin strayed
          /\ \A q \in Started : Pending(q) /\ q \in Q => runs[q].cell # c
        BY DEF Drops
    <2>2. PICK q \in Started : Pending(q) /\ runs[q].cell = c
        BY <2>1 DEF IInv, Fetches, Marks
    <2>3. QED
        BY <2>1, <2>2 DEF Drops
<1>6. RegistryIsExact' /\ Popped'
    <2>1. \A q \in Runs : cancel'[q] \in {"popped", "fired"} <=> cancel[q] \in {"popped", "fired"}
        BY DEF Drops
    <2>2. QED
        BY <1>1, <2>1, RegistryFrame DEF Drops
<1>7. ShowsPending
    BY DEF ShowsPending, Drops
<1>8. QED
    BY <1>2, <1>3, <1>4, <1>5, <1>6, <1>7 DEF IInv, Fetches

\* The marks of the cells when one of them is taken away.
LEMMA UnmarkFacts ==
    ASSUME IInv, NEW c \in Cells, NEW S \in SUBSET (Tabs \X Cells), strayed \subseteq S,
           \/ results' = Mark(results, active, c, FALSE)
           \/ results' = results,
           strayed' = StillRunning(S, results')
    PROVE  /\ results' \in [Tabs -> [Cells -> Result]]
           /\ strayed' \subseteq Tabs \X Cells
           /\ \A t \in Tabs, d \in Cells :
                  /\ results'[t][d].shown = results[t][d].shown
                  /\ results'[t][d].running /\ <<t, d>> \notin strayed' =>
                         /\ t = active /\ results[t][d].running /\ <<t, d>> \notin S
                         /\ results' = Mark(results, active, c, FALSE) => d # c
<1> DEFINE b == FALSE
           m == Mark(results, active, c, b)
<1>1. b \in BOOLEAN /\ active \in Tabs /\ results \in [Tabs -> [Cells -> Result]]
    BY DEF IInv, TypeOK
<1>2. b = FALSE /\ (results' = m \/ results' = results)
    OBVIOUS
<1> HIDE DEF b
<1>3. /\ m \in [Tabs -> [Cells -> Result]] /\ m[active][c].running = b
      /\ \A t \in Tabs, d \in Cells :
             /\ m[t][d].shown = results[t][d].shown
             /\ t # active \/ d # c => m[t][d] = results[t][d]
    BY <1>1, MarkFacts
<1> HIDE DEF m
<1>4. /\ strayed' \subseteq Tabs \X Cells
      /\ \A t \in Tabs, d \in Cells :
             results'[t][d].running /\ <<t, d>> \in S => <<t, d>> \in strayed'
    BY StillFacts
<1>5. ASSUME NEW t \in Tabs, NEW d \in Cells,
             results'[t][d].running, <<t, d>> \notin strayed'
      PROVE  /\ t = active /\ results[t][d].running /\ <<t, d>> \notin S
             /\ results' = m => d # c
    <2>1. results[t][d].running /\ <<t, d>> \notin S
          /\ (results' = m => ~(t = active /\ d = c))
        BY <1>2, <1>3, <1>4, <1>5
    <2>2. t = active
        BY <2>1 DEF IInv, Fetches, Marks
    <2>3. QED
        BY <2>1, <2>2
<1>6. \A t \in Tabs, d \in Cells : results'[t][d].shown = results[t][d].shown
    BY <1>2, <1>3
<1>7. results' \in [Tabs -> [Cells -> Result]]
    BY <1>1, <1>2, <1>3
<1>8. m = Mark(results, active, c, FALSE)
    BY DEF m, b
<1>9. QED
    BY <1>4, <1>5, <1>6, <1>7, <1>8

LEMMA StopStep ==
    ASSUME IInv, NEW c \in Cells, Stop(c)
    PROVE  IInv' /\ ShowsPending
<1> DEFINE q == ref[c]
           Q == StoppedFetch(q)
<1>1. /\ q # None /\ c \in mounted
      /\ cancel' = [cancel EXCEPT ![q] = "sent"]
      /\ ref' = [ref EXCEPT ![c] = None]
      /\ runs' = Settled(runs, Q)
      /\ strayed' = StillRunning(strayed, results')
      /\ UNCHANGED <<active, open, mounted, count, registry>>
    BY DEF Stop
<1>2. /\ q \in Started /\ q \in Runs /\ runs[q].by = "cell" /\ runs[q].cell = c
      /\ cancel[q] = "none"
    BY <1>1, StartedFacts DEF IInv, Fetches, Handles
<1>3. \A p : p \in Q <=> p = q /\ Pending(p)
    BY DEF StoppedFetch
<1>4. \/ results' = Mark(results, active, c, FALSE)
      \/ results' = results /\ ~Pending(q)
    BY DEF Stop
<1> HIDE DEF Q
<1>5. /\ runs' \in Seq(Run) /\ Len(runs') = count' /\ Started' = Started
      /\ \A p \in Started : /\ runs'[p].cell = runs[p].cell
                            /\ runs'[p].by = runs[p].by
                            /\ runs'[p].server = runs[p].server
                            /\ Pending(p)' <=> Pending(p) /\ p \notin Q
    BY <1>1, SettledStep
<1>6. /\ results' \in [Tabs -> [Cells -> Result]]
      /\ strayed' \subseteq Tabs \X Cells
      /\ \A t \in Tabs, d \in Cells :
             /\ results'[t][d].shown = results[t][d].shown
             /\ results'[t][d].running /\ <<t, d>> \notin strayed' =>
                    /\ t = active /\ results[t][d].running /\ <<t, d>> \notin strayed
                    /\ results' = Mark(results, active, c, FALSE) => d # c
    <2>1. strayed \in SUBSET (Tabs \X Cells)
        BY DEF IInv, TypeOK
    <2>2. QED
        BY <2>1, <1>1, <1>4, UnmarkFacts
<1>7. /\ ref' \in [Cells -> Runs \cup {None}] /\ ref'[c] = None
      /\ \A d \in Cells : d # c => ref'[d] = ref[d]
      /\ cancel' \in [Runs -> {"none", "sent", "lost", "popped", "unknown", "fired"}]
      /\ cancel'[q] = "sent"
      /\ \A p \in Runs : p # q => cancel'[p] = cancel[p]
    BY <1>1, <1>2 DEF IInv, TypeOK
<1>8. TypeOK'
    BY <1>1, <1>5, <1>6, <1>7 DEF IInv, TypeOK
<1>9. ASSUME NEW d \in Cells, ref'[d] # None
      PROVE  cancel'[ref'[d]] = cancel[ref'[d]]
    <2>1. d # c /\ ref'[d] = ref[d]
        BY <1>7, <1>9
    <2>2. ref[d] \in Runs /\ runs[ref[d]].cell = d
        BY <2>1, <1>9, StartedFacts DEF IInv, Fetches, Handles
    <2>3. ref[d] # q
        BY <2>1, <2>2, <1>2
    <2>4. QED
        BY <2>1, <2>2, <2>3, <1>7
<1>10. ASSUME NEW p \in Started, Pending(p), p \notin Q, runs[p].by = "cell"
       PROVE  runs[p].cell \in mounted' /\ ref'[runs[p].cell] = ref[runs[p].cell]
    <2>1. runs[p].cell \in mounted /\ ref[runs[p].cell] = p
        BY <1>10 DEF IInv, Fetches, EveryFetchHasItsHandle
    <2>2. p # q
        BY <1>3, <1>10
    <2>3. runs[p].cell # c /\ runs[p].cell \in Cells
        BY <2>1, <2>2 DEF IInv, TypeOK
    <2>4. QED
        BY <2>1, <2>3, <1>1, <1>7
<1>11. \A p \in Runs : \/ cancel'[p] = cancel[p]
                       \/ /\ p \in Started /\ (Pending(p) => p \in Q)
                          /\ cancel[p] = "none" /\ cancel'[p] = "sent"
    BY <1>2, <1>3, <1>7
<1>12. ASSUME NEW t \in Tabs, NEW d \in Cells,
              results'[t][d].running, <<t, d>> \notin strayed'
       PROVE  /\ t = active' /\ t = active
              /\ results[t][d].running /\ <<t, d>> \notin strayed
              /\ \A p \in Started : Pending(p) /\ p \in Q => runs[p].cell # d
    BY <1>1, <1>2, <1>3, <1>4, <1>6, <1>12
<1>13. \A d \in Cells : ref'[d] \in {ref[d], None}
    BY <1>7
<1>14. \A t \in Tabs, d \in Cells : results'[t][d].shown \in {results[t][d].shown, None}
    BY <1>6
<1> HIDE DEF q
<1>15. Drops(Q)
    BY <1>1, <1>5, <1>9, <1>10, <1>11, <1>12, <1>13, <1>14 DEF Drops
<1>16. QED
    BY <1>8, <1>15, DropsStep

LEMMA FetchFailsStep ==
    ASSUME IInv, NEW q \in Started, FetchFails(q)
    PROVE  IInv' /\ ShowsPending
<1> DEFINE c == runs[q].cell
           Q == {q}
           S == strayed \cup IF runs[q].by = "all" THEN {<<active, c>>} ELSE {}
<1>1. /\ runs' = Settled(runs, Q)
      /\ strayed' = StillRunning(S, results')
      /\ UNCHANGED <<active, open, mounted, ref, count, cancel, registry>>
    BY DEF FetchFails
<1>2. runs[q] \in Run /\ c \in Cells /\ active \in Tabs
    BY StartedFacts DEF IInv, TypeOK, Run
<1>3. S \in SUBSET (Tabs \X Cells) /\ strayed \subseteq S
    BY <1>2 DEF IInv, TypeOK
<1>4. \/ results' = Mark(results, active, c, FALSE)
      \/ results' = results /\ <<active, c>> \in S
    BY <1>2 DEF FetchFails, Run
<1> HIDE DEF S
<1>5. /\ runs' \in Seq(Run) /\ Len(runs') = count' /\ Started' = Started
      /\ \A p \in Started : /\ runs'[p].cell = runs[p].cell
                            /\ runs'[p].by = runs[p].by
                            /\ runs'[p].server = runs[p].server
                            /\ Pending(p)' <=> Pending(p) /\ p \notin Q
    BY <1>1, SettledStep
<1>6. /\ results' \in [Tabs -> [Cells -> Result]]
      /\ strayed' \subseteq Tabs \X Cells
      /\ \A t \in Tabs, d \in Cells :
             /\ results'[t][d].shown = results[t][d].shown
             /\ results'[t][d].running /\ <<t, d>> \notin strayed' =>
                    /\ t = active /\ results[t][d].running /\ <<t, d>> \notin S
                    /\ results' = Mark(results, active, c, FALSE) => d # c
    <2> HIDE DEF c
    <2>1. QED
        BY <1>1, <1>2, <1>3, <1>4, UnmarkFacts
<1>7. TypeOK'
    BY <1>1, <1>5, <1>6 DEF IInv, TypeOK
<1>8. ASSUME NEW p \in Started, Pending(p), runs[p].by = "cell"
      PROVE  runs[p].cell \in mounted' /\ ref'[runs[p].cell] = ref[runs[p].cell]
    BY <1>1, <1>8 DEF IInv, Fetches, EveryFetchHasItsHandle
<1>9. ASSUME NEW t \in Tabs, NEW d \in Cells,
             results'[t][d].running, <<t, d>> \notin strayed'
      PROVE  /\ t = active' /\ t = active
             /\ results[t][d].running /\ <<t, d>> \notin strayed
             /\ \A p \in Started : Pending(p) /\ p \in Q => runs[p].cell # d
    BY <1>1, <1>3, <1>4, <1>6, <1>9
<1>10. Drops(Q)
    BY <1>1, <1>5, <1>6, <1>8, <1>9 DEF Drops
<1>11. QED
    BY <1>7, <1>10, DropsStep

LEMMA UnmountStep ==
    ASSUME IInv, NEW c \in Cells, Unmount(c)
    PROVE  IInv' /\ ShowsPending
<1> DEFINE Q == Superseded(c)
<1>1. /\ c \notin CellIds(active)
      /\ mounted' = mounted \ {c}
      /\ ref' = [ref EXCEPT ![c] = None]
      /\ runs' = Settled(runs, Q)
      /\ strayed' = StillRunning(strayed, results')
      /\ UNCHANGED <<active, open, count, cancel, registry>>
    BY DEF Unmount
<1>2. \A p \in Q : p \in Started /\ p = ref[c] /\ Pending(p) /\ runs[p].cell = c
    BY SupersededFacts
<1>3. \A p \in Started : Pending(p) /\ ref[c] = p => p \in Q
    BY DEF Superseded
<1>4. \/ results' = Mark(results, active, c, FALSE)
      \/ results' = results /\ Q = {}
    BY DEF Unmount
<1> HIDE DEF Q
<1>5. /\ runs' \in Seq(Run) /\ Len(runs') = count' /\ Started' = Started
      /\ \A p \in Started : /\ runs'[p].cell = runs[p].cell
                            /\ runs'[p].by = runs[p].by
                            /\ runs'[p].server = runs[p].server
                            /\ Pending(p)' <=> Pending(p) /\ p \notin Q
    BY <1>1, SettledStep
<1>6. /\ results' \in [Tabs -> [Cells -> Result]]
      /\ strayed' \subseteq Tabs \X Cells
      /\ \A t \in Tabs, d \in Cells :
             /\ results'[t][d].shown = results[t][d].shown
             /\ results'[t][d].running /\ <<t, d>> \notin strayed' =>
                    /\ t = active /\ results[t][d].running /\ <<t, d>> \notin strayed
                    /\ results' = Mark(results, active, c, FALSE) => d # c
    <2>1. strayed \in SUBSET (Tabs \X Cells)
        BY DEF IInv, TypeOK
    <2>2. QED
        BY <2>1, <1>1, <1>4, UnmarkFacts
<1>7. /\ ref' \in [Cells -> Runs \cup {None}] /\ ref'[c] = None
      /\ \A d \in Cells : d # c => ref'[d] = ref[d]
    BY <1>1 DEF IInv, TypeOK
<1>8. TypeOK'
    BY <1>1, <1>5, <1>6, <1>7 DEF IInv, TypeOK
<1>9. ASSUME NEW p \in Started, Pending(p), p \notin Q, runs[p].by = "cell"
      PROVE  runs[p].cell \in mounted' /\ ref'[runs[p].cell] = ref[runs[p].cell]
    <2>1. runs[p].cell \in mounted /\ ref[runs[p].cell] = p
        BY <1>9 DEF IInv, Fetches, EveryFetchHasItsHandle
    <2>2. runs[p].cell # c /\ runs[p].cell \in Cells
        BY <2>1, <1>3, <1>9 DEF IInv, TypeOK
    <2>3. QED
        BY <2>1, <2>2, <1>1, <1>7
<1>10. ASSUME NEW t \in Tabs, NEW d \in Cells,
              results'[t][d].running, <<t, d>> \notin strayed'
       PROVE  /\ t = active' /\ t = active
              /\ results[t][d].running /\ <<t, d>> \notin strayed
              /\ \A p \in Started : Pending(p) /\ p \in Q => runs[p].cell # d
    BY <1>1, <1>2, <1>4, <1>6, <1>10
<1>11. \A d \in Cells : ref'[d] \in {ref[d], None}
    BY <1>7
<1>12. Drops(Q)
    BY <1>1, <1>5, <1>6, <1>9, <1>10, <1>11 DEF Drops
<1>13. QED
    BY <1>8, <1>12, DropsStep

\* The tabs keep the runs: only marks lose theirs.
LEMMA SwitchStep ==
    ASSUME IInv, NEW t \in Tabs, SwitchTab(t) \/ OpenTab(t)
    PROVE  IInv' /\ ShowsPending
<1> DEFINE Q == {}
<1>1. /\ active' = t /\ mounted' = mounted \cup CellIds(t)
      /\ open \subseteq open' /\ open' \subseteq open \cup {t} /\ t \in open'
      /\ strayed' = strayed \cup Spinning(active)
      /\ UNCHANGED <<results, ref, count, runs, cancel, registry>>
    BY DEF SwitchTab, OpenTab, Activate
<1>2. Started' = Started /\ \A q : Pending(q)' <=> Pending(q)
    BY <1>1 DEF Started, Pending
<1>3. active \in Tabs /\ CellIds(t) \subseteq Cells
    BY CellIdsFacts DEF IInv, TypeOK
<1>4. TypeOK'
    BY <1>1, <1>2, <1>3 DEF IInv, TypeOK, Spinning
<1>5. ASSUME NEW q \in Started, Pending(q), runs[q].by = "cell"
      PROVE  runs[q].cell \in mounted' /\ ref'[runs[q].cell] = ref[runs[q].cell]
    BY <1>1, <1>5 DEF IInv, Fetches, EveryFetchHasItsHandle
<1>6. ASSUME NEW u \in Tabs, NEW c \in Cells
      PROVE  ~(results'[u][c].running /\ <<u, c>> \notin strayed')
    BY <1>1 DEF Spinning, IInv, Fetches, Marks
<1>7. Drops(Q)
    BY <1>1, <1>2, <1>5, <1>6 DEF Drops
<1>8. QED
    BY <1>4, <1>7, DropsStep

LEMMA CloseTabStep ==
    ASSUME IInv, NEW t \in Tabs, CloseTab(t)
    PROVE  IInv' /\ ShowsPending
<1> DEFINE Q == {}
           row == [c \in Cells |-> NoResult]
<1>1. /\ open' = open \ {t}
      /\ results' = [results EXCEPT ![t] = row]
      /\ strayed' = StillRunning(strayed, results')
      /\ UNCHANGED <<ref, count, runs, cancel, registry>>
      /\ active' \in open' /\ (t # active => active' = active)
      /\ mounted \subseteq mounted'
    BY DEF CloseTab, Activate, IInv, TypeOK
<1>2. mounted' \subseteq mounted \cup CellIds(active')
    BY DEF CloseTab, Activate
<1>3. Started' = Started /\ \A q : Pending(q)' <=> Pending(q)
    BY <1>1 DEF Started, Pending
<1>4. active' \in Tabs /\ mounted' \subseteq Cells
    BY <1>1, <1>2, CellIdsFacts DEF IInv, TypeOK
<1>5. row \in [Cells -> Result] /\ \A c \in Cells : ~row[c].running /\ row[c].shown = None
    BY DEF NoResult, Result
<1> HIDE DEF row
<1>6. /\ results' \in [Tabs -> [Cells -> Result]]
      /\ \A u \in Tabs, c \in Cells :
             results'[u][c] = IF u = t THEN row[c] ELSE results[u][c]
    BY <1>1, <1>5 DEF IInv, TypeOK
<1>7. /\ strayed' \subseteq Tabs \X Cells
      /\ \A u \in Tabs, c \in Cells :
             results'[u][c].running /\ <<u, c>> \in strayed => <<u, c>> \in strayed'
    BY <1>1, StillFacts DEF IInv, TypeOK
<1>8. TypeOK'
    BY <1>1, <1>3, <1>4, <1>6, <1>7 DEF IInv, TypeOK
<1>9. ASSUME NEW q \in Started, Pending(q), runs[q].by = "cell"
      PROVE  runs[q].cell \in mounted' /\ ref'[runs[q].cell] = ref[runs[q].cell]
    BY <1>1, <1>9 DEF IInv, Fetches, EveryFetchHasItsHandle
<1>10. ASSUME NEW u \in Tabs, NEW c \in Cells,
              results'[u][c].running, <<u, c>> \notin strayed'
       PROVE  /\ u = active' /\ u = active
              /\ results[u][c].running /\ <<u, c>> \notin strayed
    <2>1. u # t /\ results[u][c].running /\ <<u, c>> \notin strayed
        BY <1>5, <1>6, <1>7, <1>10
    <2>2. u = active
        BY <2>1 DEF IInv, Fetches, Marks
    <2>3. QED
        BY <2>1, <2>2, <1>1
<1>11. \A u \in Tabs, c \in Cells : results'[u][c].shown \in {results[u][c].shown, None}
    BY <1>5, <1>6
<1>12. Drops(Q)
    BY <1>1, <1>3, <1>9, <1>10, <1>11 DEF Drops
<1>13. QED
    BY <1>8, <1>12, DropsStep

LEMMA ReloadStep ==
    ASSUME IInv, Reload
    PROVE  IInv' /\ ShowsPending
<1> DEFINE Q == Started
<1>1. /\ mounted' = CellIds(active)
      /\ ref' = [c \in Cells |-> None]
      /\ runs' = Settled(runs, Q)
      /\ strayed' = {}
      /\ UNCHANGED <<active, open, count, cancel, registry>>
    BY DEF Reload
<1>2. /\ runs' \in Seq(Run) /\ Len(runs') = count' /\ Started' = Started
      /\ \A p \in Started : /\ runs'[p].cell = runs[p].cell
                            /\ runs'[p].by = runs[p].by
                            /\ runs'[p].server = runs[p].server
                            /\ Pending(p)' <=> Pending(p) /\ p \notin Q
    <2> HIDE DEF Q
    <2>1. QED
        BY <1>1, SettledStep
<1>3. /\ results' \in [Tabs -> [Cells -> Result]]
      /\ \A t \in Tabs, c \in Cells :
             ~results'[t][c].running /\ results'[t][c].shown = results[t][c].shown
    <2>1. results \in [Tabs -> [Cells -> Result]]
        BY DEF IInv, TypeOK
    <2>2. results' = [t \in Tabs |-> [c \in Cells |-> Trimmed(results[t][c])]]
        BY DEF Reload
    <2>3. \A t \in Tabs, c \in Cells : results[t][c] \in Result
        BY <2>1
    <2>4. ASSUME NEW r \in Result
          PROVE  Trimmed(r) \in Result /\ ~Trimmed(r).running /\ Trimmed(r).shown = r.shown
        BY DEF Trimmed, Result
    <2>5. QED
        BY <2>2, <2>3, <2>4
<1>4. active \in Tabs /\ CellIds(active) \subseteq Cells
    BY CellIdsFacts DEF IInv, TypeOK
<1>5. TypeOK'
    BY <1>1, <1>2, <1>3, <1>4 DEF IInv, TypeOK
<1>6. Drops(Q)
    BY <1>1, <1>2, <1>3 DEF Drops
<1>7. QED
    BY <1>5, <1>6, DropsStep

\* A browser step of Run all, or an answer: it settles the fetches Q and may
\* start the next query.
GoesOn(Q) ==
    /\ UNCHANGED <<active, mounted, ref, cancel, registry>>
    /\ Started \subseteq Started'
    /\ \A q \in Started : /\ runs'[q].cell = runs[q].cell
                          /\ runs'[q].by = runs[q].by
                          /\ runs'[q].server = runs[q].server
                          /\ Pending(q)' <=> Pending(q) /\ q \notin Q
    /\ \A q \in Started' : q \notin Started =>
           runs'[q].by = "all" /\ runs'[q].server = "sent" /\ Pending(q)'
    /\ \A t \in Tabs, c \in Cells :
           results'[t][c].running /\ <<t, c>> \notin strayed' =>
               \/ t = active /\ \E q \in Started' : q \notin Started /\ runs'[q].cell = c
               \/ /\ results[t][c].running /\ <<t, c>> \notin strayed
                  /\ t = active => \A q \in Q : runs[q].cell # c

LEMMA GoesOnStep ==
    ASSUME IInv, TypeOK', NEW Q, GoesOn(Q)
    PROVE  IInv'
<1>1. Started \subseteq Started' /\ Started \subseteq Runs
    BY StartedFacts DEF IInv, GoesOn
<1>2. Handles'
    <2> SUFFICES ASSUME NEW c \in Cells, ref[c] # None
                 PROVE  /\ ref[c] \in Started'
                        /\ runs'[ref[c]].by = "cell"
                        /\ runs'[ref[c]].cell = c
                        /\ cancel[ref[c]] = "none"
                        /\ \A p \in Started' :
                               runs'[p].by = "cell" /\ runs'[p].cell = c => p <= ref[c]
        BY DEF Handles, GoesOn
    <2>1. /\ ref[c] \in Started /\ runs[ref[c]].by = "cell" /\ runs[ref[c]].cell = c
          /\ cancel[ref[c]] = "none"
          /\ \A p \in Started : runs[p].by = "cell" /\ runs[p].cell = c => p <= ref[c]
        BY DEF IInv, Fetches, Handles
    <2>2. QED
        BY <2>1, <1>1 DEF GoesOn
<1>3. Cancelled'
    BY <1>1 DEF GoesOn, IInv, Fetches, Cancelled
<1>4. EveryFetchHasItsHandle'
    BY <1>1 DEF GoesOn, IInv, Fetches, EveryFetchHasItsHandle
<1>5. Marks'
    <2> SUFFICES ASSUME NEW t \in Tabs, NEW c \in Cells,
                        results'[t][c].running, <<t, c>> \notin strayed'
                 PROVE  t = active /\ \E q \in Started' : Pending(q)' /\ runs'[q].cell = c
        BY DEF Marks, GoesOn
    <2>1. CASE t = active /\ \E q \in Started' : q \notin Started /\ runs'[q].cell = c
        BY <2>1 DEF GoesOn
    <2>2. CASE /\ results[t][c].running /\ <<t, c>> \notin strayed
               /\ t = active => \A q \in Q : runs[q].cell # c
        <3>1. t = active /\ \E q \in Started : Pending(q) /\ runs[q].cell = c
            BY <2>2 DEF IInv, Fetches, Marks
        <3>2. PICK q \in Started : Pending(q) /\ runs[q].cell = c
            BY <3>1
        <3>3. q \notin Q
            BY <2>2, <3>1, <3>2
        <3>4. QED
            BY <3>1, <3>2, <3>3, <1>1 DEF GoesOn
    <2>3. QED
        BY <2>1, <2>2 DEF GoesOn
<1>6. RegistryIsExact' /\ Popped'
    BY <1>1, RegistryFrame DEF GoesOn
<1>7. QED
    BY <1>2, <1>3, <1>4, <1>5, <1>6 DEF IInv, Fetches

LEMMA RunAllStep ==
    ASSUME IInv, RunAll
    PROVE  IInv' /\ ShowsPending
<1> DEFINE todo == CellsOf[active]
           Q == {}
<1>1. /\ todo # <<>> /\ RunsNext(results, runs, todo)
      /\ UNCHANGED <<active, open, mounted, ref, cancel, registry, strayed>>
    BY DEF RunAll
<1>2. /\ todo \in Seq(Cells) /\ results \in [Tabs -> [Cells -> Result]]
      /\ runs \in Seq(Run) /\ Len(runs) = count /\ count \in Nat /\ TypeOK
    BY CellIdsFacts DEF IInv, TypeOK
<1> HIDE DEF todo
<1>3. /\ count' = count + 1 /\ count' \in Runs
      /\ runs' \in Seq(Run) /\ Len(runs') = count'
      /\ \A q \in Started : runs'[q] = runs[q]
      /\ Head(todo) \in Cells
      /\ runs'[count'].cell = Head(todo) /\ runs'[count'].by = "all"
      /\ runs'[count'].fetch = "pending" /\ runs'[count'].server = "sent"
      /\ results' \in [Tabs -> [Cells -> Result]]
      /\ \A u \in Tabs, d \in Cells :
             /\ results'[u][d].shown = results[u][d].shown
             /\ u # active \/ d # Head(todo) => results'[u][d] = results[u][d]
    BY <1>1, <1>2, RunsNextFacts
<1>4. Started' = Started \cup {count'} /\ count' \notin Started
    BY <1>2, <1>3 DEF Started
<1>5. /\ \A q \in Started : Pending(q)' <=> Pending(q)
      /\ \A q \in Started' : q = count' => Pending(q)'
    BY <1>3, <1>4 DEF Pending
<1>6. TypeOK'
    BY <1>1, <1>2, <1>3, <1>4 DEF IInv, TypeOK, Runs
<1>7. GoesOn(Q)
    BY <1>1, <1>3, <1>4, <1>5 DEF GoesOn
<1>8. ShowsPending
    BY <1>3 DEF ShowsPending
<1>9. QED
    BY <1>6, <1>7, <1>8, GoesOnStep

LEMMA DeliverStep ==
    ASSUME IInv, NEW q \in Started, Deliver(q)
    PROVE  IInv' /\ ShowsPending
<1> DEFINE c == runs[q].cell
           Q == {q}
           rs == Settled(runs, Q)
           res == Ingest(results, active, c, q)
           todo == runs[q].rest
<1>1. /\ Pending(q)
      /\ IF todo # <<>>
         THEN RunsNext(res, rs, todo)
         ELSE runs' = rs /\ results' = res /\ count' = count
      /\ strayed' = StillRunning(strayed, results')
      /\ UNCHANGED <<active, open, mounted, ref, cancel, registry>>
    BY DEF Deliver
<1>2. /\ runs[q] \in Run /\ c \in Cells /\ todo \in Seq(Cells) /\ q \in Runs
      /\ active \in Tabs /\ results \in [Tabs -> [Cells -> Result]] /\ TypeOK
      /\ runs \in Seq(Run) /\ Len(runs) = count /\ count \in Nat
      /\ Started = 1 .. Len(runs)
    BY StartedFacts DEF IInv, TypeOK, Run
<1>3. /\ rs \in Seq(Run) /\ Len(rs) = count
      /\ \A p \in Started :
             /\ rs[p].cell = runs[p].cell
             /\ rs[p].by = runs[p].by
             /\ rs[p].server = runs[p].server
             /\ rs[p].fetch = IF p \in Q THEN "settled" ELSE runs[p].fetch
    BY <1>2, SettledFacts
<1> HIDE DEF rs, todo
<1>4. /\ res \in [Tabs -> [Cells -> Result]]
      /\ ~res[active][c].running
      /\ res[active][c].shown = q
      /\ \A u \in Tabs, d \in Cells : u # active \/ d # c => res[u][d] = results[u][d]
    <2>1. active \in Tabs /\ c \in Cells /\ q \in Runs /\ results \in [Tabs -> [Cells -> Result]]
        BY <1>2
    <2> HIDE DEF c
    <2>2. QED
        BY <2>1, IngestFacts
<1> HIDE DEF res
<1>5. CASE todo # <<>>
    <2> DEFINE h == Head(todo)
    <2>1. /\ count' = count + 1 /\ count' \in Runs
          /\ runs' \in Seq(Run) /\ Len(runs') = count'
          /\ \A p \in Started : runs'[p] = rs[p]
          /\ h \in Cells
          /\ runs'[count'].cell = h /\ runs'[count'].by = "all"
          /\ runs'[count'].fetch = "pending" /\ runs'[count'].server = "sent"
          /\ results' \in [Tabs -> [Cells -> Result]]
          /\ \A u \in Tabs, d \in Cells :
                 /\ results'[u][d].shown = res[u][d].shown
                 /\ u # active \/ d # h => results'[u][d] = res[u][d]
        BY <1>1, <1>2, <1>3, <1>4, <1>5, RunsNextFacts
    <2> HIDE DEF h
    <2>2. Started' = Started \cup {count'} /\ count' \notin Started
        BY <1>2, <2>1 DEF Started
    <2>3. /\ \A p \in Started : Pending(p)' <=> Pending(p) /\ p \notin Q
          /\ \A p \in Started' : p = count' => Pending(p)'
        BY <1>3, <2>1, <2>2 DEF Pending
    <2>4. /\ strayed' \subseteq Tabs \X Cells
          /\ \A u \in Tabs, d \in Cells :
                 results'[u][d].running /\ <<u, d>> \in strayed => <<u, d>> \in strayed'
        BY <1>1, StillFacts DEF IInv, TypeOK
    <2>5. TypeOK'
        BY <1>1, <1>2, <2>1, <2>2, <2>4 DEF IInv, TypeOK, Runs
    <2>6. ASSUME NEW u \in Tabs, NEW d \in Cells,
                 results'[u][d].running, <<u, d>> \notin strayed'
          PROVE  \/ u = active /\ \E p \in Started' : p \notin Started /\ runs'[p].cell = d
                 \/ /\ results[u][d].running /\ <<u, d>> \notin strayed
                    /\ u = active => \A p \in Q : runs[p].cell # d
        <3>1. CASE u = active /\ d = h
            BY <3>1, <2>1, <2>2
        <3>2. CASE u # active \/ d # h
            BY <3>2, <1>4, <2>1, <2>4, <2>6
        <3>3. QED
            BY <3>1, <3>2
    <2>7. \A p \in Started : /\ runs'[p].cell = runs[p].cell
                             /\ runs'[p].by = runs[p].by
                             /\ runs'[p].server = runs[p].server
        BY <1>3, <2>1
    <2>8. GoesOn(Q)
        BY <1>1, <2>1, <2>2, <2>3, <2>6, <2>7 DEF GoesOn
    <2>9. ShowsPending
        BY <1>1, <1>4, <2>1 DEF ShowsPending
    <2>10. QED
        BY <2>5, <2>8, <2>9, GoesOnStep
<1>6. CASE todo = <<>>
    <2>1. runs' = rs /\ results' = res /\ count' = count /\ Started' = Started
        BY <1>1, <1>6 DEF Started
    <2>2. \A p \in Started : Pending(p)' <=> Pending(p) /\ p \notin Q
        BY <1>3, <2>1 DEF Pending
    <2>3. /\ strayed' \subseteq Tabs \X Cells
          /\ \A u \in Tabs, d \in Cells :
                 results'[u][d].running /\ <<u, d>> \in strayed => <<u, d>> \in strayed'
        BY <1>1, StillFacts DEF IInv, TypeOK
    <2>4. TypeOK'
        BY <1>1, <1>2, <1>3, <1>4, <2>1, <2>3 DEF IInv, TypeOK
    <2>5. ASSUME NEW u \in Tabs, NEW d \in Cells,
                 results'[u][d].running, <<u, d>> \notin strayed'
          PROVE  /\ results[u][d].running /\ <<u, d>> \notin strayed
                 /\ u = active => \A p \in Q : runs[p].cell # d
        BY <1>4, <2>1, <2>3, <2>5
    <2>6. GoesOn(Q)
        BY <1>1, <1>3, <2>1, <2>2, <2>5 DEF GoesOn
    <2>7. ShowsPending
        BY <1>1, <1>4, <2>1 DEF ShowsPending
    <2>8. QED
        BY <2>4, <2>6, <2>7, GoesOnStep
<1>7. QED
    BY <1>5, <1>6

-----------------------------------------------------------------------------
(* The theorems.                                                            *)

LEMMA InitIInv ==
    ASSUME Init
    PROVE  IInv
<1>1. Started = {} /\ count = 0
    BY DEF Init, Started
<1>2. TypeOK
    <2>1. active \in Tabs /\ CellIds(active) \subseteq Cells
        BY CellIdsFacts DEF Init
    <2>2. results \in [Tabs -> [Cells -> Result]]
        BY DEF Init, NoResult, Result
    <2>3. runs \in Seq(Run) /\ Len(runs) = 0
        BY EmptySeq DEF Init
    <2>4. 0 \in 0 .. MaxRuns
        BY QueryRunsAssumption
    <2>5. QED
        BY <1>1, <2>1, <2>2, <2>3, <2>4 DEF Init, TypeOK
<1>3. RegistryIsExact /\ Popped
    BY <1>1 DEF Init, RegistryIsExact, InRunQuery, Popped
<1>4. Handles /\ Cancelled /\ EveryFetchHasItsHandle
    BY <1>1 DEF Init, Handles, Cancelled, EveryFetchHasItsHandle
<1>5. Marks
    BY DEF Init, Marks, NoResult
<1>6. QED
    BY <1>2, <1>3, <1>4, <1>5 DEF IInv, Fetches

LEMMA StutterStep ==
    ASSUME IInv, UNCHANGED vars
    PROVE  IInv' /\ ShowsPending
<1>1. /\ UNCHANGED <<active, open, results, mounted, ref, count>>
      /\ UNCHANGED <<runs, cancel, registry, strayed>>
      /\ Started' = Started
    BY DEF vars, Started
<1>2. TypeOK'
    BY <1>1 DEF IInv, TypeOK
<1>3. Fetches' /\ ShowsPending
    BY <1>1, FetchesFrame
<1>4. RegistryIsExact' /\ Popped'
    BY <1>1, <1>2, RegistryFrame
<1>5. QED
    BY <1>2, <1>3, <1>4 DEF IInv

LEMMA NextIInv ==
    ASSUME IInv, [Next]_vars
    PROVE  IInv' /\ ShowsPending
<1>1. ASSUME NEW c \in Cells, RunCell(c) \/ Stop(c) \/ Unmount(c)
      PROVE  IInv' /\ ShowsPending
    BY <1>1, RunCellStep, StopStep, UnmountStep
<1>2. CASE RunAll
    BY <1>2, RunAllStep
<1>3. ASSUME NEW q \in Started, Deliver(q) \/ FetchFails(q)
      PROVE  IInv' /\ ShowsPending
    BY <1>3, DeliverStep, FetchFailsStep
<1>4. ASSUME NEW t \in Tabs, SwitchTab(t) \/ OpenTab(t) \/ CloseTab(t)
      PROVE  IInv' /\ ShowsPending
    BY <1>4, SwitchStep, CloseTabStep
<1>5. CASE Reload
    BY <1>5, ReloadStep
<1>6. ASSUME NEW q \in Started,
             Register(q) \/ Refuse(q) \/ Execute(q) \/ Finish(q) \/ Answer(q)
      PROVE  IInv' /\ ShowsPending
    BY <1>6, RegisterStep, ThreadStep, AnswerStep
<1>7. ASSUME NEW q \in Started, CancelPops(q) \/ CancelFires(q) \/ CancelLost(q)
      PROVE  IInv' /\ ShowsPending
    BY <1>7, CancelPopsStep, CancelFiresStep, CancelLostStep
<1>8. CASE UNCHANGED vars
    BY <1>8, StutterStep
<1>9. QED
    BY <1>1, <1>2, <1>3, <1>4, <1>5, <1>6, <1>7, <1>8 DEF Next

LEMMA AlwaysIInv == Spec => []IInv
<1>1. Init => IInv
    BY InitIInv
<1>2. IInv /\ [Next]_vars => IInv'
    BY NextIInv
<1>3. QED
    BY <1>1, <1>2, PTL DEF Spec

\* A step, and a stutter, of the whole specification.
LEMMA AlwaysShowsPending == Spec => [][IInv /\ ShowsPending]_vars
<1>1. IInv /\ [Next]_vars => [IInv /\ ShowsPending]_vars
    BY NextIInv
<1>2. QED
    BY <1>1, AlwaysIInv, PTL DEF Spec

\* The variables keep their types.
THEOREM QueriesTypeOK == Spec => []TypeOK
<1>1. IInv => TypeOK
    BY DEF IInv
<1>2. QED
    BY <1>1, AlwaysIInv, PTL

\* For any number of queries and cancel calls, in any order: no entry of the
\* registry leaks, and only a cancel call takes one before the query is over.
THEOREM QueriesRegistryIsExact == Spec => []RegistryIsExact
<1>1. IInv => RegistryIsExact
    BY DEF IInv
<1>2. QED
    BY <1>1, AlwaysIInv, PTL

\* For any tabs and cells, in any order of switches, remounts and reruns, the
\* fetch of a cell that is listened to is the one abortRef holds.
THEOREM QueriesEveryFetchHasItsHandle == Spec => []EveryFetchHasItsHandle
<1>1. IInv => EveryFetchHasItsHandle
    BY DEF IInv, Fetches
<1>2. QED
    BY <1>1, AlwaysIInv, PTL

\* A cell of the active tab that is marked running has its fetch, unless its
\* mark has gone astray.
THEOREM QueriesMarkHasItsFetch == Spec => []MarkHasItsFetch
<1>1. IInv => MarkHasItsFetch
    <2>1. ASSUME IInv
          PROVE  active \in Tabs /\ CellIds(active) \subseteq Cells
        BY <2>1, CellIdsFacts DEF IInv, TypeOK
    <2>2. QED
        BY <2>1 DEF IInv, Fetches, Marks, MarkHasItsFetch
<1>2. QED
    BY <1>1, AlwaysIInv, PTL

\* Nothing of a run appears after the user has stopped it.
THEOREM QueriesStoppedRunNeverShows == Spec => StoppedRunNeverShows
<1> DEFINE Keeps ==
        \A q \in Runs, t \in Tabs, c \in Cells :
            cancel[q] # "none" /\ results'[t][c].shown = q => results[t][c].shown = q
<1>1. IInv /\ ShowsPending => Keeps
    BY QueryRunsAssumption DEF IInv, Fetches, Cancelled, ShowsPending
<1>2. [IInv /\ ShowsPending]_vars => [Keeps]_vars
    BY <1>1
<1>3. QED
    BY <1>2, AlwaysShowsPending, PTL DEF StoppedRunNeverShows

\* No outcome of a cell's run replaces that of a later one.
THEOREM QueriesLastRunWins == Spec => LastRunWins
<1> DEFINE Last ==
        \A q \in Started, t \in Tabs, c \in Cells :
            /\ results'[t][c].shown = q /\ results[t][c].shown # q
            /\ runs[q].by = "cell"
            => \A p \in Started : runs[p].by = "cell" /\ runs[p].cell = c => p <= q
<1>1. ASSUME IInv, ShowsPending,
             NEW q \in Started, NEW t \in Tabs, NEW c \in Cells,
             results'[t][c].shown = q, results[t][c].shown # q, runs[q].by = "cell",
             NEW p \in Started, runs[p].by = "cell", runs[p].cell = c
      PROVE  p <= q
    <2>1. q # None
        BY <1>1, StartedFacts DEF IInv
    <2>2. Pending(q) /\ runs[q].cell = c
        BY <1>1, <2>1 DEF ShowsPending
    <2>3. ref[c] = q
        BY <1>1, <2>2 DEF IInv, Fetches, EveryFetchHasItsHandle
    <2>4. QED
        BY <1>1, <2>1, <2>3 DEF IInv, Fetches, Handles
<1>2. IInv /\ ShowsPending => Last
    BY <1>1
<1>3. [IInv /\ ShowsPending]_vars => [Last]_vars
    BY <1>2
<1>4. QED
    BY <1>3, AlwaysShowsPending, PTL DEF LastRunWins

-----------------------------------------------------------------------------
(* The refinement of CellRuns.                                              *)

\* Of the runs there are, only those of Run all have something to go on with.
OnlyAllGoesOn == \A q \in Started : runs[q].rest # <<>> => runs[q].by = "all"

\* A step forgets nothing that was asked.
KeepsAsked ==
    \A q \in Started : /\ runs'[q].cell = runs[q].cell
                       /\ runs'[q].by = runs[q].by
                       /\ runs'[q].rest = runs[q].rest

\* What it asks anew is Run all's, or has nothing to go on with.
AsksRightly ==
    /\ KeepsAsked
    /\ \A q \in Started' : q \notin Started /\ runs'[q].rest # <<>> => runs'[q].by = "all"

KeepsOutcomes ==
    \A t \in Tabs, c \in Cells : results'[t][c].shown = results[t][c].shown

LEMMA SameAsked ==
    ASSUME Started' = Started, KeepsAsked
    PROVE  Asked' = Asked
    BY DEF KeepsAsked, Asked

LEMMA SameOutcomes ==
    ASSUME KeepsOutcomes
    PROVE  Outcomes' = Outcomes
    BY DEF KeepsOutcomes, Outcomes

\* A step that starts a run asks for it.
LEMMA OneMoreAsked ==
    ASSUME TypeOK, KeepsAsked, count' = count + 1,
           NEW c \in Cells, NEW by \in {"cell", "all"},
           runs'[count'].cell = c, runs'[count'].by = by
    PROVE  Promise!Started(c, by) /\ Promise!Newest = count'
<1> DEFINE S == [cell : Cells, by : {"cell", "all"}]
           x == [cell |-> c, by |-> by]
           now == [q \in 1 .. count + 1 |-> [cell |-> runs'[q].cell, by |-> runs'[q].by]]
<1>1. count \in Nat /\ Started = 1 .. count /\ Started' = 1 .. count + 1
    BY StartedFacts DEF TypeOK, Started
<1>2. \A q \in Started : runs[q].cell \in Cells /\ runs[q].by \in {"cell", "all"}
    BY StartedFacts DEF Run
<1>3. Asked \in [1 .. count -> S]
    BY <1>1, <1>2 DEF Asked
<1>4. Asked \in Seq(S)
    <2> HIDE DEF S
    <2>1. QED
        BY <1>1, <1>3, SeqDef
<1>5. Len(Asked) = count
    BY <1>1, <1>3, <1>4, LenProperties
<1>6. x \in S
    OBVIOUS
<1>7. Asked' = now
    BY <1>1 DEF Asked
<1>8. \A q \in 1 .. count : now[q] = Asked[q]
    BY <1>1 DEF Asked, KeepsAsked
<1>9. now[count + 1] = x
    BY <1>1
<1> HIDE DEF S, x
<1>10. /\ Append(Asked, x) \in Seq(S) /\ Len(Append(Asked, x)) = count + 1
       /\ \A q \in 1 .. count : Append(Asked, x)[q] = Asked[q]
       /\ Append(Asked, x)[count + 1] = x
    BY <1>4, <1>5, <1>6, AppendProperties
<1>11. \A q \in 1 .. count + 1 : q \in 1 .. count \/ q = count + 1
    BY <1>1
<1>12. now = Append(Asked, x)
    <2>1. now \in [1 .. count + 1 -> S]
        <3>1. \A q \in 1 .. count : now[q] \in S
            BY <1>3, <1>8
        <3> HIDE DEF now
        <3>2. \A q \in 1 .. count + 1 : now[q] \in S
            BY <1>6, <1>9, <1>11, <3>1
        <3>3. QED
            BY <3>2 DEF now
    <2> HIDE DEF now
    <2>2. now \in Seq(S) /\ Len(now) = count + 1
        <3>1. count + 1 \in Nat
            BY <1>1
        <3>2. now \in Seq(S)
            BY <2>1, <3>1, SeqDef
        <3>3. QED
            BY <2>1, <3>1, <3>2, LenProperties
    <2>3. \A q \in 1 .. count + 1 : now[q] = Append(Asked, x)[q]
        BY <1>8, <1>9, <1>10, <1>11
    <2>4. QED
        BY <2>2, <2>3, <1>10, SeqEqual
<1>13. QED
    BY <1>5, <1>7, <1>12 DEF x, Promise!Started, Promise!Ask, Promise!Newest

\* A step that only stops listening to the fetch p, or to all of them.
LEMMA DropSeen ==
    ASSUME Started' = Started, KeepsAsked, KeepsOutcomes, NEW Q,
           \A q \in Started : Pending(q)' <=> Pending(q) /\ q \notin Q,
           (\A p, q \in Q : p = q) \/ Started \subseteq Q
    PROVE  [Promise!CellNext]_(Promise!cellVars)
<1>1. Asked' = Asked /\ Outcomes' = Outcomes
    BY SameAsked, SameOutcomes
<1>2. Awaited' = Awaited \ Q
    BY DEF Awaited
<1>3. CASE Started \subseteq Q
    <2>1. Awaited' = {}
        BY <1>2, <1>3 DEF Awaited
    <2>2. QED
        BY <2>1, <1>1 DEF Promise!CellNext, Promise!GiveUpAll
<1>4. CASE \A p, q \in Q : p = q
    <2>1. CASE Awaited \cap Q = {}
        BY <2>1, <1>1, <1>2 DEF Promise!cellVars
    <2>2. CASE Awaited \cap Q # {}
        <3>1. PICK p \in Awaited : p \in Q
            BY <2>2
        <3>2. Awaited' = Awaited \ {p}
            BY <3>1, <1>2, <1>4
        <3>3. Promise!GiveUp(p)
            BY <3>1, <3>2, <1>1 DEF Promise!GiveUp
        <3>4. QED
            BY <3>1, <3>3 DEF Promise!CellNext
    <2>3. QED
        BY <2>1, <2>2
<1>5. QED
    BY <1>3, <1>4

\* Nor is a step of the server seen.
LEMMA ThreadSeen ==
    ASSUME Started' = Started, KeepsAsked, UNCHANGED results,
           \A q \in Started : runs'[q].fetch = runs[q].fetch
    PROVE  UNCHANGED Promise!cellVars
<1>1. Asked' = Asked
    BY SameAsked
<1>2. Outcomes' = Outcomes
    BY DEF Outcomes
<1>3. Awaited' = Awaited
    BY DEF Awaited, Pending
<1>4. QED
    BY <1>1, <1>2, <1>3 DEF Promise!cellVars

\* The cell's own run takes the place of the one it held.
LEMMA RunCellSeen ==
    ASSUME IInv, NEW c \in Cells, RunCell(c)
    PROVE  AsksRightly /\ Promise!Own(c)
<1> DEFINE q == count + 1
           S == Superseded(c)
           rs == Settled(runs, S)
           x == NewRun(c, "cell", <<>>)
           b == S = {}
<1>1. /\ count' = q /\ runs' = Append(rs, x)
      /\ results' = Mark(results, active, c, b)
    BY DEF RunCell
<1>2. /\ runs \in Seq(Run) /\ Len(runs) = count /\ Started = 1 .. Len(runs)
      /\ count \in Nat /\ active \in Tabs /\ TypeOK
    BY StartedFacts DEF IInv, TypeOK
<1>3. /\ rs \in Seq(Run) /\ Len(rs) = count
      /\ \A p \in Started :
             /\ rs[p].cell = runs[p].cell
             /\ rs[p].by = runs[p].by
             /\ rs[p].rest = runs[p].rest
             /\ rs[p].fetch = IF p \in S THEN "settled" ELSE runs[p].fetch
    BY <1>2, SettledFacts
<1>4. x \in Run /\ x.cell = c /\ x.by = "cell" /\ x.fetch = "pending" /\ x.rest = <<>>
    BY DEF NewRun, Run
<1>5. b \in BOOLEAN
    OBVIOUS
<1>6. \A p \in S : p = ref[c] /\ p \in Started /\ Pending(p)
    BY SupersededFacts
<1>7. \A p \in Started : Pending(p) /\ ref[c] = p => p \in S
    BY DEF Superseded
<1> HIDE DEF S, rs, x, b
<1>8. \A p \in Started : runs'[p] = rs[p]
    BY <1>1, <1>2, <1>3, <1>4, NewestFacts
<1>9. runs'[q] = x
    BY <1>1, <1>2, <1>3, <1>4, NewestFacts
<1>10. Started' = Started \cup {q} /\ q \notin Started
    BY <1>1, <1>2 DEF Started
<1>11. KeepsAsked
    BY <1>3, <1>8 DEF KeepsAsked
<1>12. Promise!Started(c, "cell") /\ Promise!Newest = q
    BY <1>1, <1>2, <1>4, <1>9, <1>11, OneMoreAsked
<1>13. Outcomes' = Outcomes
    <2>1. KeepsOutcomes
        BY <1>1, <1>2, <1>5, MarkFacts DEF KeepsOutcomes, TypeOK
    <2>2. QED
        BY <2>1, SameOutcomes
<1>14. \A p \in Awaited : p \in S <=> Asked[p] = Promise!Ask(c, "cell")
    <2> SUFFICES ASSUME NEW p \in Started, Pending(p)
                 PROVE  p \in S <=> runs[p].cell = c /\ runs[p].by = "cell"
        BY DEF Awaited, Asked, Promise!Ask
    <2>1. ASSUME p \in S PROVE runs[p].cell = c /\ runs[p].by = "cell"
        <3>1. ref[c] = p /\ p # None
            BY <2>1, <1>6, StartedFacts DEF IInv
        <3>2. QED
            BY <3>1 DEF IInv, Fetches, Handles
    <2>2. ASSUME runs[p].cell = c, runs[p].by = "cell" PROVE p \in S
        BY <2>2, <1>7 DEF IInv, Fetches, EveryFetchHasItsHandle
    <2>3. QED
        BY <2>1, <2>2
<1>15. Awaited' = {p \in Awaited : Asked[p] # Promise!Ask(c, "cell")} \cup {q}
    <2>1. \A p \in Started : Pending(p)' <=> Pending(p) /\ p \notin S
        BY <1>3, <1>8, <1>10 DEF Pending
    <2>2. \A p \in Started' : p = q => Pending(p)'
        BY <1>1, <1>4, <1>9, <1>10 DEF Pending
    <2>3. Awaited' = {p \in Awaited : p \notin S} \cup {q}
        BY <2>1, <2>2, <1>10 DEF Awaited
    <2>4. QED
        BY <2>3, <1>14
<1>16. AsksRightly
    BY <1>4, <1>9, <1>10, <1>11 DEF AsksRightly
<1>17. QED
    BY <1>12, <1>13, <1>15, <1>16 DEF Promise!Own

LEMMA RunAllSeen ==
    ASSUME IInv, RunAll
    PROVE  AsksRightly /\ \E c \in Cells : Promise!All(c)
<1> DEFINE todo == CellsOf[active]
<1>1. todo # <<>> /\ RunsNext(results, runs, todo)
    BY DEF RunAll
<1>2. /\ todo \in Seq(Cells) /\ results \in [Tabs -> [Cells -> Result]]
      /\ runs \in Seq(Run) /\ Len(runs) = count /\ count \in Nat /\ TypeOK
    BY CellIdsFacts DEF IInv, TypeOK
<1> HIDE DEF todo
<1> DEFINE c == Head(todo)
<1>3. /\ count' = count + 1
      /\ \A q \in Started : runs'[q] = runs[q]
      /\ c \in Cells
      /\ runs'[count'].cell = c /\ runs'[count'].by = "all"
      /\ runs'[count'].fetch = "pending"
      /\ \A u \in Tabs, d \in Cells : results'[u][d].shown = results[u][d].shown
    BY <1>1, <1>2, RunsNextFacts
<1> HIDE DEF c
<1>4. Started' = Started \cup {count'} /\ count' \notin Started
    BY <1>2, <1>3 DEF Started
<1>5. KeepsAsked /\ Outcomes' = Outcomes
    BY <1>3, SameOutcomes DEF KeepsAsked, KeepsOutcomes
<1>6. Promise!Started(c, "all") /\ Promise!Newest = count'
    BY <1>2, <1>3, <1>5, OneMoreAsked
<1>7. Awaited' = Awaited \cup {count'}
    BY <1>3, <1>4 DEF Awaited, Pending
<1>8. Promise!All(c)
    BY <1>5, <1>6, <1>7 DEF Promise!All
<1>9. AsksRightly
    BY <1>3, <1>4, <1>5 DEF AsksRightly
<1>10. QED
    BY <1>3, <1>8, <1>9

\* An answer is the outcome of what was asked, under the tab that is active.
LEMMA DeliverSeen ==
    ASSUME IInv, OnlyAllGoesOn, NEW q \in Started, Deliver(q)
    PROVE  AsksRightly /\ active \in Tabs /\ Promise!Arrive(q, active)
<1> DEFINE c == runs[q].cell
           Q == {q}
           rs == Settled(runs, Q)
           res == Ingest(results, active, c, q)
           todo == runs[q].rest
<1>1. /\ Pending(q)
      /\ IF todo # <<>>
         THEN RunsNext(res, rs, todo)
         ELSE runs' = rs /\ results' = res /\ count' = count
    BY DEF Deliver
<1>2. /\ runs[q] \in Run /\ c \in Cells /\ todo \in Seq(Cells) /\ q \in Runs
      /\ active \in Tabs /\ results \in [Tabs -> [Cells -> Result]] /\ TypeOK
      /\ runs \in Seq(Run) /\ Len(runs) = count /\ count \in Nat
      /\ Started = 1 .. Len(runs)
    BY StartedFacts DEF IInv, TypeOK, Run
<1>3. /\ rs \in Seq(Run) /\ Len(rs) = count
      /\ \A p \in Started :
             /\ rs[p].cell = runs[p].cell
             /\ rs[p].by = runs[p].by
             /\ rs[p].rest = runs[p].rest
             /\ rs[p].fetch = IF p \in Q THEN "settled" ELSE runs[p].fetch
    <2>1. runs \in Seq(Run) /\ Len(runs) = count /\ Started = 1 .. Len(runs)
        BY <1>2
    <2> HIDE DEF Q, c, todo, res
    <2>2. QED
        BY <2>1, SettledFacts
<1> HIDE DEF rs, todo
<1>4. /\ res \in [Tabs -> [Cells -> Result]]
      /\ res[active][c].shown = q
      /\ \A u \in Tabs, d \in Cells : u # active \/ d # c => res[u][d] = results[u][d]
    <2>1. active \in Tabs /\ c \in Cells /\ q \in Runs /\ results \in [Tabs -> [Cells -> Result]]
        BY <1>2
    <2> HIDE DEF c
    <2>2. QED
        BY <2>1, IngestFacts
<1>5. Asked[q].cell = c /\ Asked[q].by = runs[q].by /\ q \in Awaited
    BY <1>1 DEF Asked, Awaited
<1> HIDE DEF res, c
<1>6. ASSUME \A u \in Tabs, d \in Cells : results'[u][d].shown = res[u][d].shown
      PROVE  Outcomes' = [Outcomes EXCEPT ![active][c] = q]
    <2>1. /\ Outcomes'[active][c] = q
          /\ \A u \in Tabs, d \in Cells :
                 u # active \/ d # c => Outcomes'[u][d] = Outcomes[u][d]
        BY <1>2, <1>4, <1>6 DEF Outcomes
    <2>2. \A u \in Tabs : Outcomes[u] = [d \in Cells |-> Outcomes[u][d]]
        BY DEF Outcomes
    <2>3. \A u \in Tabs : Outcomes'[u] = [d \in Cells |-> Outcomes'[u][d]]
        BY DEF Outcomes
    <2>4. ASSUME NEW u \in Tabs, u # active PROVE Outcomes'[u] = Outcomes[u]
        BY <2>1, <2>2, <2>3, <2>4
    <2>5. Outcomes'[active] = [Outcomes[active] EXCEPT ![c] = q]
        BY <1>2, <2>1, <2>2, <2>3
    <2>6. Outcomes = [u \in Tabs |-> Outcomes[u]] /\ Outcomes' = [u \in Tabs |-> Outcomes'[u]]
        BY DEF Outcomes
    <2>7. QED
        BY <1>2, <2>4, <2>5, <2>6
<1>7. CASE todo # <<>>
    <2> DEFINE h == Head(todo)
    <2>1. /\ count' = count + 1
          /\ \A p \in Started : runs'[p] = rs[p]
          /\ h \in Cells
          /\ runs'[count'].cell = h /\ runs'[count'].by = "all"
          /\ runs'[count'].fetch = "pending"
          /\ \A u \in Tabs, d \in Cells : results'[u][d].shown = res[u][d].shown
        BY <1>1, <1>2, <1>3, <1>4, <1>7, RunsNextFacts
    <2> HIDE DEF h
    <2>2. Started' = Started \cup {count'} /\ count' \notin Started
        BY <1>2, <2>1 DEF Started
    <2>3. KeepsAsked
        BY <1>3, <2>1 DEF KeepsAsked
    <2>4. AsksRightly
        BY <2>1, <2>2, <2>3 DEF AsksRightly
    <2>5. Promise!Started(h, "all") /\ Promise!Newest = count'
        BY <1>2, <2>1, <2>3, OneMoreAsked
    <2>6. Awaited' = (Awaited \ {q}) \cup {count'}
        <3>1. \A p \in Started : Pending(p)' <=> Pending(p) /\ p # q
            BY <1>3, <2>1, <2>2 DEF Pending
        <3>2. \A p \in Started' : p = count' => Pending(p)'
            BY <2>1, <2>2 DEF Pending
        <3>3. QED
            BY <3>1, <3>2, <2>2 DEF Awaited
    <2>7. Asked[q].by = "all"
        BY <1>5, <1>7 DEF OnlyAllGoesOn, todo
    <2>8. QED
        BY <1>2, <1>5, <1>6, <2>1, <2>4, <2>5, <2>6, <2>7 DEF Promise!Arrive
<1>8. CASE todo = <<>>
    <2>1. runs' = rs /\ results' = res /\ count' = count /\ Started' = Started
        BY <1>1, <1>8 DEF Started
    <2>2. KeepsAsked /\ AsksRightly
        BY <1>3, <2>1 DEF KeepsAsked, AsksRightly
    <2>3. Asked' = Asked
        BY <2>1, <2>2, SameAsked
    <2>4. Awaited' = Awaited \ {q}
        <3>1. \A p \in Started : Pending(p)' <=> Pending(p) /\ p # q
            BY <1>3, <2>1 DEF Pending
        <3>2. QED
            BY <3>1, <2>1 DEF Awaited
    <2>5. QED
        BY <1>2, <1>5, <1>6, <2>1, <2>2, <2>3, <2>4 DEF Promise!Arrive
<1>9. QED
    BY <1>7, <1>8

\* Steps that settle fetches of the browser, at most one or all of them.
LEMMA SettlesSeen ==
    ASSUME IInv, NEW Q, runs' = Settled(runs, Q), UNCHANGED count, KeepsOutcomes,
           (\A p, q \in Q : p = q) \/ Started \subseteq Q
    PROVE  AsksRightly /\ [Promise!CellNext]_(Promise!cellVars)
<1>1. /\ runs \in Seq(Run) /\ Len(runs) = count /\ Started = 1 .. Len(runs)
      /\ Started' = Started
    BY StartedFacts DEF IInv, TypeOK, Started
<1>2. \A q \in Started :
          /\ runs'[q].cell = runs[q].cell
          /\ runs'[q].by = runs[q].by
          /\ runs'[q].rest = runs[q].rest
          /\ runs'[q].fetch = IF q \in Q THEN "settled" ELSE runs[q].fetch
    BY <1>1, SettledFacts
<1>3. KeepsAsked /\ AsksRightly
    BY <1>1, <1>2 DEF KeepsAsked, AsksRightly
<1>4. \A q \in Started : Pending(q)' <=> Pending(q) /\ q \notin Q
    BY <1>1, <1>2 DEF Pending
<1>5. QED
    BY <1>1, <1>3, <1>4, DropSeen

LEMMA UnmarkKeepsOutcomes ==
    ASSUME IInv, NEW c \in Cells,
           results' = Mark(results, active, c, FALSE) \/ results' = results
    PROVE  KeepsOutcomes
<1>1. active \in Tabs /\ results \in [Tabs -> [Cells -> Result]]
    BY DEF IInv, TypeOK
<1> DEFINE b == FALSE
<1>2. b \in BOOLEAN /\ (results' = Mark(results, active, c, b) \/ results' = results)
    OBVIOUS
<1> HIDE DEF b
<1>3. QED
    BY <1>1, <1>2, MarkFacts DEF KeepsOutcomes

LEMMA BrowserSeen ==
    ASSUME IInv
    PROVE  /\ \A c \in Cells : Stop(c) \/ Unmount(c) =>
                  AsksRightly /\ [Promise!CellNext]_(Promise!cellVars)
           /\ \A q \in Started : FetchFails(q) =>
                  AsksRightly /\ [Promise!CellNext]_(Promise!cellVars)
           /\ Reload => AsksRightly /\ [Promise!CellNext]_(Promise!cellVars)
<1>1. ASSUME NEW c \in Cells, Stop(c)
      PROVE  AsksRightly /\ [Promise!CellNext]_(Promise!cellVars)
    <2> DEFINE Q == StoppedFetch(ref[c])
    <2>1. \A p, q \in Q : p = q
        BY DEF StoppedFetch
    <2>2. /\ runs' = Settled(runs, Q) /\ UNCHANGED count
          /\ results' = Mark(results, active, c, FALSE) \/ results' = results
        BY <1>1 DEF Stop
    <2> HIDE DEF Q
    <2>3. KeepsOutcomes
        BY <2>2, UnmarkKeepsOutcomes
    <2>4. QED
        BY <2>1, <2>2, <2>3, SettlesSeen
<1>2. ASSUME NEW c \in Cells, Unmount(c)
      PROVE  AsksRightly /\ [Promise!CellNext]_(Promise!cellVars)
    <2> DEFINE Q == Superseded(c)
    <2>1. \A p, q \in Q : p = q
        BY DEF Superseded
    <2>2. /\ runs' = Settled(runs, Q) /\ UNCHANGED count
          /\ results' = Mark(results, active, c, FALSE) \/ results' = results
        BY <1>2 DEF Unmount
    <2> HIDE DEF Q
    <2>3. KeepsOutcomes
        BY <2>2, UnmarkKeepsOutcomes
    <2>4. QED
        BY <2>1, <2>2, <2>3, SettlesSeen
<1>3. ASSUME NEW q \in Started, FetchFails(q)
      PROVE  AsksRightly /\ [Promise!CellNext]_(Promise!cellVars)
    <2> DEFINE Q == {q}
               c == runs[q].cell
    <2>1. \A p, r \in Q : p = r
        OBVIOUS
    <2>2. /\ runs' = Settled(runs, Q) /\ UNCHANGED count
          /\ results' = Mark(results, active, c, FALSE) \/ results' = results
        BY <1>3 DEF FetchFails
    <2>3. c \in Cells
        BY StartedFacts DEF IInv, TypeOK, Run
    <2> HIDE DEF Q, c
    <2>4. KeepsOutcomes
        BY <2>2, <2>3, UnmarkKeepsOutcomes
    <2>5. QED
        BY <2>1, <2>2, <2>4, SettlesSeen
<1>4. ASSUME Reload
      PROVE  AsksRightly /\ [Promise!CellNext]_(Promise!cellVars)
    <2> DEFINE Q == Started
    <2>1. runs' = Settled(runs, Q) /\ UNCHANGED count /\ Started \subseteq Q
        BY <1>4 DEF Reload
    <2>2. KeepsOutcomes
        <3>1. results \in [Tabs -> [Cells -> Result]]
            BY DEF IInv, TypeOK
        <3>2. \A r \in Result : Trimmed(r).shown = r.shown
            BY DEF Trimmed, Result
        <3>3. \A t \in Tabs, c \in Cells : results'[t][c] = Trimmed(results[t][c])
            BY <1>4 DEF Reload
        <3>4. QED
            BY <3>1, <3>2, <3>3 DEF KeepsOutcomes
    <2> HIDE DEF Q
    <2>3. QED
        BY <2>1, <2>2, SettlesSeen
<1>5. QED
    BY <1>1, <1>2, <1>3, <1>4

LEMMA TabsSeen ==
    ASSUME IInv, NEW t \in Tabs, SwitchTab(t) \/ OpenTab(t) \/ CloseTab(t)
    PROVE  AsksRightly /\ [Promise!CellNext]_(Promise!cellVars)
<1>1. UNCHANGED <<runs, count>>
    BY DEF SwitchTab, OpenTab, CloseTab
<1>2. Started' = Started /\ Awaited' = Awaited /\ Asked' = Asked
    BY <1>1 DEF Started, Awaited, Asked, Pending
<1>3. AsksRightly
    BY <1>1, <1>2 DEF AsksRightly, KeepsAsked
<1>4. CASE SwitchTab(t) \/ OpenTab(t)
    <2>1. Outcomes' = Outcomes
        BY <1>4 DEF SwitchTab, OpenTab, Outcomes
    <2>2. QED
        BY <1>2, <1>3, <2>1 DEF Promise!cellVars
<1>5. CASE CloseTab(t)
    <2>1. results' = [results EXCEPT ![t] = [c \in Cells |-> NoResult]]
        BY <1>5 DEF CloseTab
    <2>2. Outcomes' = [Outcomes EXCEPT ![t] = Promise!NoOutcomes]
        BY <2>1 DEF Outcomes, Promise!NoOutcomes, NoResult, IInv, TypeOK
    <2>3. Promise!Clear(t)
        BY <1>2, <2>2 DEF Promise!Clear
    <2>4. QED
        BY <1>3, <2>3 DEF Promise!CellNext
<1>6. QED
    BY <1>4, <1>5

\* A thread of run_query that moves, and the answer to a cancel call.
LEMMA ServerSeen ==
    ASSUME IInv, NEW q \in Started,
           \/ Register(q) \/ Refuse(q) \/ Execute(q) \/ Finish(q) \/ Answer(q)
           \/ CancelPops(q) \/ CancelFires(q) \/ CancelLost(q)
    PROVE  AsksRightly /\ UNCHANGED Promise!cellVars
<1>1. UNCHANGED Frontend
    BY DEF Register, Refuse, Execute, Finish, Answer, CancelPops, CancelFires, CancelLost
<1>2. UNCHANGED <<results, count>> /\ Started' = Started
    BY <1>1 DEF Frontend, Started
<1>3. \/ UNCHANGED runs
      \/ \E to \in {"registered", "executing", "over", "answered"} :
             runs' = [runs EXCEPT ![q].server = to]
    BY DEF Register, Refuse, Execute, Finish, Answer, CancelPops, CancelFires, CancelLost,
           ServerStep
<1>4. \A p \in Started :
          /\ runs'[p].cell = runs[p].cell
          /\ runs'[p].by = runs[p].by
          /\ runs'[p].rest = runs[p].rest
          /\ runs'[p].fetch = runs[p].fetch
    <2>1. CASE UNCHANGED runs
        BY <2>1
    <2>2. ASSUME NEW to \in {"registered", "executing", "over", "answered"},
                 runs' = [runs EXCEPT ![q].server = to]
          PROVE  \A p \in Started :
                     /\ runs'[p].cell = runs[p].cell
                     /\ runs'[p].by = runs[p].by
                     /\ runs'[p].rest = runs[p].rest
                     /\ runs'[p].fetch = runs[p].fetch
        BY <2>2, <1>1, ServerStepFacts
    <2>3. QED
        BY <1>3, <2>1, <2>2
<1>5. KeepsAsked /\ AsksRightly
    BY <1>2, <1>4 DEF KeepsAsked, AsksRightly
<1>6. QED
    BY <1>2, <1>4, <1>5, ThreadSeen

LEMMA NextSeen ==
    ASSUME IInv, OnlyAllGoesOn, [Next]_vars
    PROVE  AsksRightly /\ [Promise!CellNext]_(Promise!cellVars)
<1>1. ASSUME NEW c \in Cells, RunCell(c)
      PROVE  AsksRightly /\ Promise!CellNext
    BY <1>1, RunCellSeen DEF Promise!CellNext
<1>2. ASSUME RunAll
      PROVE  AsksRightly /\ Promise!CellNext
    BY <1>2, RunAllSeen DEF Promise!CellNext
<1>3. ASSUME NEW q \in Started, Deliver(q)
      PROVE  AsksRightly /\ Promise!CellNext
    <2>1. AsksRightly /\ active \in Tabs /\ Promise!Arrive(q, active)
        BY <1>3, DeliverSeen
    <2>2. q \in Awaited
        BY <2>1 DEF Promise!Arrive
    <2>3. QED
        BY <2>1, <2>2 DEF Promise!CellNext
<1>4. CASE UNCHANGED vars
    <2>1. UNCHANGED <<runs, count, results>>
        BY <1>4 DEF vars
    <2>2. Started' = Started /\ Awaited' = Awaited /\ Asked' = Asked /\ Outcomes' = Outcomes
        BY <2>1 DEF Started, Awaited, Asked, Outcomes, Pending
    <2>3. AsksRightly
        BY <2>1, <2>2 DEF AsksRightly, KeepsAsked
    <2>4. QED
        BY <2>2, <2>3 DEF Promise!cellVars
<1>5. QED
    BY <1>1, <1>2, <1>3, <1>4, BrowserSeen, TabsSeen, ServerSeen DEF Next

\* The cells, the store's results, the registry and the query threads implement
\* CellRuns, for any tabs, cells and number of runs.
THEOREM QueriesImplementCellRuns == Spec => ImplementsCellRuns
<1>1. Init => OnlyAllGoesOn /\ Promise!CellInit
    <2> SUFFICES ASSUME Init PROVE OnlyAllGoesOn /\ Promise!CellInit
        OBVIOUS
    <2>1. Started = {}
        BY DEF Init, Started
    <2>2. Asked = <<>>
        BY <2>1 DEF Asked
    <2>3. Outcomes = [t \in Tabs |-> [c \in Cells |-> None]]
        BY DEF Init, Outcomes, NoResult
    <2>4. QED
        BY <2>1, <2>2, <2>3 DEF OnlyAllGoesOn, Awaited, Promise!CellInit, Promise!NoOutcomes
<1>2. IInv /\ OnlyAllGoesOn /\ [Next]_vars =>
          OnlyAllGoesOn' /\ [Promise!CellNext]_(Promise!cellVars)
    <2>1. OnlyAllGoesOn /\ AsksRightly => OnlyAllGoesOn'
        BY DEF OnlyAllGoesOn, AsksRightly, KeepsAsked
    <2>2. QED
        BY <2>1, NextSeen
<1>3. QED
    BY <1>1, <1>2, AlwaysIInv, PTL DEF Spec, ImplementsCellRuns, Promise!CellSpec
=============================================================================
