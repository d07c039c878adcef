----------------------------- MODULE QueryRuns -----------------------------
(***************************************************************************)
(* SQL cells that run queries: the cells of the notebook open in the       *)
(* active tab (frontend/components/notebook/sql-cell.tsx), "Run all" of    *)
(* the top bar, the per-tab results of the notebook store, the threads of  *)
(* the server that execute the queries, and the process-wide registry of   *)
(* cancel callbacks that the Stop button reaches                           *)
(* (rednotebook/server/query_registry.py).                                 *)
(*                                                                         *)
(* A run is known by its number, in the order the runs start.  An abort of *)
(* a fetch and the rejection it causes happen before the next event of the *)
(* browser, so they are one step here.                                     *)
(***************************************************************************)
EXTENDS Naturals, Sequences, FiniteSets

CONSTANTS
    Tabs,     \* notebooks that can be open in a tab
    Cells,    \* ids of SQL cells
    CellsOf,  \* the SQL cells of a notebook, in order; an import keeps cell ids
    None,     \* the JavaScript null
    MaxRuns   \* bound on the runs the user starts

Runs == 1 .. MaxRuns

ASSUME QueryRunsAssumption ==
    /\ Tabs # {}
    /\ CellsOf \in [Tabs -> Seq(Cells)]
    /\ MaxRuns \in Nat
    /\ None \notin Runs

VARIABLES
    active,    \* activeTab
    open,      \* the tabs
    results,   \* cellResultsByTab: is the cell marked running, whose outcome it shows
    mounted,   \* cells with a SQLCell instance: the active tab's, and cells fading out
    ref,       \* ref[c]: the run in abortRef and queryIdRef of the instance of c
    count,     \* the runs started so far
    runs,      \* what the browser and the server do about each run
    cancel,    \* cancel[q]: the POST /api/query/cancel of q
    registry,  \* keys of QueryRegistry._entries
    strayed    \* cells whose mark has lost its run: the user left the tab, or Run all failed

vars == <<active, open, results, mounted, ref, count, runs, cancel, registry, strayed>>

Result == [running : BOOLEAN, shown : Runs \cup {None}]

NoResult == [running |-> FALSE, shown |-> None]

\* "by" is the cell's own button or Run all, "rest" what Run all does next.
\* "server" follows run_query: the request is sent, the cancel callback is
\* registered, the engine executes, the query is over, the answer is there.
Run == [cell   : Cells,
        by     : {"cell", "all"},
        rest   : Seq(Cells),
        fetch  : {"pending", "settled"},
        server : {"sent", "registered", "executing", "over", "answered"}]

CellIds(t) == {CellsOf[t][i] : i \in 1 .. Len(CellsOf[t])}

Started == 1 .. count

NewRun(c, by, rest) ==
    [cell |-> c, by |-> by, rest |-> rest, fetch |-> "pending", server |-> "sent"]

Pending(q) == q \in Started /\ runs[q].fetch = "pending"

Settled(rs, Q) == [q \in DOMAIN rs |-> IF q \in Q THEN [rs[q] EXCEPT !.fetch = "settled"] ELSE rs[q]]

-----------------------------------------------------------------------------
(* The results of a tab.  A definition marked "faulty" is a plausible        *)
(* mistake in the one after it; nothing uses it, and each shows that some    *)
(* property below is not vacuous.                                            *)

\* setCellResult with running: true, and with running: false.
Mark(res, t, c, running) == [res EXCEPT ![t][c].running = running]

\* Faulty: the response is stored as it came.
IngestRaw(res, t, c, q) == [res EXCEPT ![t][c] = [shown |-> q]]

\* ingestRunResponse: the outcome of q, a result or an error.
Ingest(res, t, c, q) == [res EXCEPT ![t][c] = [running |-> FALSE, shown |-> q]]

\* Marks that lose their run when the user leaves the tab.
Spinning(t) == {<<t, c>> : c \in {d \in Cells : results[t][d].running}}

\* A mark that is taken away is no longer astray.
StillRunning(S, res) == {x \in S : res[x[1]][x[2]].running}

-----------------------------------------------------------------------------

Init ==
    /\ open = Tabs
    /\ active \in Tabs
    /\ results = [t \in Tabs |-> [c \in Cells |-> NoResult]]
    /\ mounted = CellIds(active)
    /\ ref = [c \in Cells |-> None]
    /\ count = 0
    /\ runs = <<>>
    /\ cancel = [q \in Runs |-> "none"]
    /\ registry = {}
    /\ strayed = {}

\* Faulty: the old fetch goes on.
NothingSuperseded(c) == {}

\* The fetch that abortRef.current?.abort() reaches: at the start of a run and
\* at the unmount.
Superseded(c) == {q \in {ref[c]} : Pending(q)}

\* Run, or Cmd-Enter.  The abort of the previous run comes back to its onError
\* after this one has marked the cell, and takes the mark away.
RunCell(c) ==
    LET q == count + 1 IN
    /\ c \in CellIds(active) \cap mounted
    /\ q \in Runs
    /\ count' = q
    /\ runs' = Append(Settled(runs, Superseded(c)), NewRun(c, "cell", <<>>))
    /\ ref' = [ref EXCEPT ![c] = q]
    /\ results' = Mark(results, active, c, Superseded(c) = {})
    /\ strayed' = StillRunning(strayed, results')
    /\ UNCHANGED <<active, open, mounted, cancel, registry>>

\* Faulty: Stop forgets abortRef.
StopOnlyCancels(q) == {}

\* The fetch that Stop aborts.
StoppedFetch(q) == {p \in {q} : Pending(p)}

\* The Stop button, shown while the mutation is pending or the mark is set.
Stop(c) ==
    LET q == ref[c] IN
    /\ c \in CellIds(active) \cap mounted
    /\ Pending(q) \/ results[active][c].running
    /\ q # None
    /\ cancel' = [cancel EXCEPT ![q] = "sent"]
    /\ ref' = [ref EXCEPT ![c] = None]
    /\ runs' = Settled(runs, StoppedFetch(q))
    /\ results' = IF Pending(q) THEN Mark(results, active, c, FALSE) ELSE results
    /\ strayed' = StillRunning(strayed, results')
    /\ UNCHANGED <<active, open, mounted, count, registry>>

\* The next query of Run all, whose fetch has no query id and no abort.
RunsNext(res, rs, todo) ==
    /\ count' = count + 1
    /\ count' \in Runs
    /\ runs' = Append(rs, NewRun(Head(todo), "all", Tail(todo)))
    /\ results' = Mark(res, active, Head(todo), TRUE)

RunAll ==
    /\ CellsOf[active] # <<>>
    /\ RunsNext(results, runs, CellsOf[active])
    /\ UNCHANGED <<active, open, mounted, ref, cancel, registry, strayed>>

\* The answer arrives; the store files it under the tab that is active now.
Deliver(q) ==
    LET rs  == Settled(runs, {q})
        res == Ingest(results, active, runs[q].cell, q)
    IN
    /\ Pending(q)
    /\ runs[q].server = "answered"
    /\ IF runs[q].rest # <<>>
       THEN RunsNext(res, rs, runs[q].rest)
       ELSE runs' = rs /\ results' = res /\ UNCHANGED count
    /\ strayed' = StillRunning(strayed, results')
    /\ UNCHANGED <<active, open, mounted, ref, cancel, registry>>

\* The request is refused or the connection breaks: onError of the cell takes
\* its mark away; Run all only tells the user.
FetchFails(q) ==
    LET c == runs[q].cell IN
    /\ Pending(q)
    /\ runs' = Settled(runs, {q})
    /\ results' = IF runs[q].by = "cell" THEN Mark(results, active, c, FALSE) ELSE results
    /\ strayed' = StillRunning(
           strayed \cup IF runs[q].by = "all" THEN {<<active, c>>} ELSE {}, results')
    /\ UNCHANGED <<active, open, mounted, ref, count, cancel, registry>>

-----------------------------------------------------------------------------
(* Tabs.                                                                    *)

Activate(t) ==
    /\ active' = t
    /\ mounted' = mounted \cup CellIds(t)

SwitchTab(t) ==
    /\ t \in open \ {active}
    /\ Activate(t)
    /\ strayed' = strayed \cup Spinning(active)
    /\ UNCHANGED <<open, results, ref, count, runs, cancel, registry>>

\* openTab or replaceNotebook of a notebook that is not open.
OpenTab(t) ==
    /\ t \notin open
    /\ Activate(t)
    /\ open' = open \cup {t}
    /\ strayed' = strayed \cup Spinning(active)
    /\ UNCHANGED <<results, ref, count, runs, cancel, registry>>

\* The results of the tab go with it.  Closing the last tab opens a fresh
\* notebook, which is not modelled here.
CloseTab(t) ==
    /\ t \in open
    /\ open' = open \ {t}
    /\ open' # {}
    /\ results' = [results EXCEPT ![t] = [c \in Cells |-> NoResult]]
    /\ IF t = active
       THEN \E n \in open' : Activate(n)
       ELSE UNCHANGED <<active, mounted>>
    /\ strayed' = StillRunning(strayed, results')
    /\ UNCHANGED <<ref, count, runs, cancel, registry>>

\* A cell that has left the screen unmounts once its exit animation is over,
\* and aborts its fetch; onError then writes under the tab active by now.
Unmount(c) ==
    /\ c \in mounted \ CellIds(active)
    /\ mounted' = mounted \ {c}
    /\ ref' = [ref EXCEPT ![c] = None]
    /\ runs' = Settled(runs, Superseded(c))
    /\ results' = IF Superseded(c) # {} THEN Mark(results, active, c, FALSE) ELSE results
    /\ strayed' = StillRunning(strayed, results')
    /\ UNCHANGED <<active, open, count, cancel, registry>>

\* Faulty: the results come back from localStorage as they were.
Rehydrated(r) == r

\* trimResultsForPersist: running is dropped.
Trimmed(r) == [r EXCEPT !.running = FALSE]

Reload ==
    /\ mounted' = CellIds(active)
    /\ ref' = [c \in Cells |-> None]
    /\ runs' = Settled(runs, Started)
    /\ results' = [t \in Tabs |-> [c \in Cells |-> Trimmed(results[t][c])]]
    /\ strayed' = {}
    /\ UNCHANGED <<active, open, count, cancel, registry>>

-----------------------------------------------------------------------------
(* The server.                                                              *)

ServerStep(q, from, to) ==
    /\ q \in Started
    /\ runs[q].server = from
    /\ runs' = [runs EXCEPT ![q].server = to]

Frontend == <<active, open, results, mounted, ref, count, strayed>>

\* Faulty: run_sql does not forward the query id.
NoEntry(q) == {}

\* What run_query registers: a cell's query has an id, one of Run all has none.
Entry(q) == {p \in {q} : runs[p].by = "cell"}

\* run_query has its connection.
Register(q) ==
    /\ ServerStep(q, "sent", "registered")
    /\ registry' = registry \cup Entry(q)
    /\ UNCHANGED <<Frontend, cancel>>

\* The guard or the connection fails before anything is registered.
Refuse(q) ==
    /\ ServerStep(q, "sent", "answered")
    /\ UNCHANGED <<Frontend, cancel, registry>>

Execute(q) ==
    /\ ServerStep(q, "registered", "executing")
    /\ UNCHANGED <<Frontend, cancel, registry>>

\* The query ends by itself, with rows or an error.
Finish(q) ==
    /\ ServerStep(q, "executing", "over")
    /\ UNCHANGED <<Frontend, cancel, registry>>

\* Faulty: an exception path without the finally block.
KeptEntries(q) == registry

\* The entries that are left after unregister(query_id).
EntriesWithout(q) == registry \ {q}

\* The finally block, and the answer.
Answer(q) ==
    /\ ServerStep(q, "over", "answered")
    /\ registry' = EntriesWithout(q)
    /\ UNCHANGED <<Frontend, cancel>>

\* QueryRegistry.cancel pops the entry under its lock ...
CancelPops(q) ==
    /\ cancel[q] = "sent"
    /\ cancel' = [cancel EXCEPT ![q] = IF q \in registry THEN "popped" ELSE "unknown"]
    /\ registry' = EntriesWithout(q)
    /\ UNCHANGED <<Frontend, runs>>

\* ... and calls it outside.  The engine ignores it unless it is executing.
CancelFires(q) ==
    /\ cancel[q] = "popped"
    /\ cancel' = [cancel EXCEPT ![q] = "fired"]
    /\ runs' = IF runs[q].server = "executing"
               THEN [runs EXCEPT ![q].server = "over"]
               ELSE runs
    /\ UNCHANGED <<Frontend, registry>>

\* The browser swallows any failure of the cancel call.
CancelLost(q) ==
    /\ cancel[q] = "sent"
    /\ cancel' = [cancel EXCEPT ![q] = "lost"]
    /\ UNCHANGED <<Frontend, runs, registry>>

Next ==
    \/ \E c \in Cells : RunCell(c) \/ Stop(c) \/ Unmount(c)
    \/ RunAll
    \/ \E q \in Started : Deliver(q) \/ FetchFails(q)
    \/ \E t \in Tabs : SwitchTab(t) \/ OpenTab(t) \/ CloseTab(t)
    \/ Reload
    \/ \E q \in Started : Register(q) \/ Refuse(q) \/ Execute(q) \/ Finish(q) \/ Answer(q)
    \/ \E q \in Started : CancelPops(q) \/ CancelFires(q) \/ CancelLost(q)

\* The server handles the cancel requests it gets, and an engine that is told
\* to stop stops.  A query need not end by itself.
Fairness ==
    \A q \in Runs : /\ WF_vars(CancelPops(q))
                    /\ WF_vars(CancelFires(q))

Spec == Init /\ [][Next]_vars /\ Fairness

-----------------------------------------------------------------------------
(* Properties                                                               *)

TypeOK ==
    /\ active \in open
    /\ open \subseteq Tabs
    /\ results \in [Tabs -> [Cells -> Result]]
    /\ mounted \subseteq Cells
    /\ ref \in [Cells -> Runs \cup {None}]
    /\ count \in 0 .. MaxRuns
    /\ runs \in Seq(Run) /\ Len(runs) = count
    /\ cancel \in [Runs -> {"none", "sent", "lost", "popped", "unknown", "fired"}]
    /\ registry \subseteq Started
    /\ strayed \subseteq Tabs \X Cells

Executing(q) == q \in Started /\ runs[q].server = "executing"

InRunQuery == {q \in Started : runs[q].by = "cell" /\ runs[q].server \in {"registered", "executing", "over"}}

\* The registry holds exactly the queries inside run_query, but for those a
\* cancel has popped: no entry leaks, and a query that executes can be reached
\* (register, unregister, cancel and the finally block of run_query).
RegistryIsExact ==
    registry = {q \in InRunQuery : cancel[q] \notin {"popped", "fired"}}

\* Every fetch of a cell that is still listened to is the one its instance
\* holds in abortRef, so Stop, a new run and the unmount reach it: no fetch
\* is orphaned by an order of tab switches, remounts and reruns.
EveryFetchHasItsHandle ==
    \A q \in Started :
        Pending(q) /\ runs[q].by = "cell" =>
            runs[q].cell \in mounted /\ ref[runs[q].cell] = q

\* A cell of the active tab that is marked running has a fetch whose answer
\* will take the mark away, unless the user left the tab while it was set or
\* Run all failed.
MarkHasItsFetch ==
    \A c \in CellIds(active) :
        results[active][c].running /\ <<active, c>> \notin strayed =>
            \E q \in Started : Pending(q) /\ runs[q].cell = c

\* Once the user has stopped a run nothing of it appears any more, however
\* late the server answers.
StoppedRunNeverShows ==
    [][\A q \in Runs, t \in Tabs, c \in Cells :
           cancel[q] # "none" /\ results'[t][c].shown = q => results[t][c].shown = q]_vars

\* The last run wins: the outcome of a run started by a cell's own button is
\* not shown after a later such run of the same cell has started.  CellRuns
\* says this and more, so the runs check ImplementsCellRuns in its place.
LastRunWins ==
    [][\A q \in Started, t \in Tabs, c \in Cells :
           /\ results'[t][c].shown = q /\ results[t][c].shown # q
           /\ runs[q].by = "cell"
           => \A p \in Started : runs[p].by = "cell" /\ runs[p].cell = c => p <= q]_vars

\* What is left of the runs once marks, handles, cancel calls, the registry
\* and the threads of the server are forgotten.
Asked == [q \in Started |-> [cell |-> runs[q].cell, by |-> runs[q].by]]

Awaited == {q \in Started : Pending(q)}

Outcomes == [t \in Tabs |-> [c \in Cells |-> results[t][c].shown]]

Promise == INSTANCE CellRuns WITH
    asked <- Asked, awaited <- Awaited, outcome <- Outcomes

\* The cells, Run all, the results per tab, the registry and the threads of
\* run_query implement CellRuns: whatever the order of clicks, answers, stops,
\* tab switches and unmounts, a new run of a cell gives up the one it awaited
\* (it must therefore hold its handle), an answer is filed once and for the
\* cell that asked, and only Run all goes on after an answer.
ImplementsCellRuns == Promise!CellSpec

\* A Stop pressed while the engine executes the query ends the query, even a
\* query that would never end, unless the cancel call is lost.
StopEndsExecutingQuery ==
    \A q \in Runs :
        cancel[q] = "sent" /\ Executing(q) ~> cancel[q] = "lost" \/ ~Executing(q)

\* What the release notes say of the Stop button: it reaches the engine.  A
\* query does not execute after its cancel call was answered.
StopReachesTheEngine ==
    \A q \in Runs : cancel[q] \in {"unknown", "fired"} => ~Executing(q)
=============================================================================
