------------------------------ MODULE Workspace ------------------------------
(***************************************************************************)
(* The tabs of the notebook store, and the requests of the sidebar, the    *)
(* autosave hook, the history dialog and the Optimize button that change   *)
(* them when they are answered (store/notebook-store.ts, notebooks-list.tsx, *)
(* notebook-tabs.tsx, notebook-history-dialog.tsx, sql-cell.tsx).          *)
(*                                                                         *)
(* A notebook's content is the set of edits it contains.  The server's     *)
(* endpoints are single steps here: NotebookServer has their interleaving, *)
(* Autosave the timing of the saves.                                       *)
(***************************************************************************)
EXTENDS Naturals, Sequences, FiniteSets

CONSTANTS
    Notebooks,   \* ids of notebooks
    OnServer,    \* the notebooks the server starts with
    Cells,       \* Cells[n]: whose cells n has, another's if n is a copy of it
    Slots,       \* bound on the requests in flight
    MaxSent,     \* bound on the requests sent
    MaxEdits,    \* bound on the edits
    Absent       \* no file, no commit

Edits == 1 .. MaxEdits

\* What the constants are assumed to be.
WorkspaceConstants ==
    /\ IsFiniteSet(Notebooks) /\ OnServer \subseteq Notebooks
    /\ (\E n \in Notebooks \ OnServer : Cells[n] = n) /\ {MaxEdits, Slots, MaxSent} \subseteq Nat
    /\ Absent \notin Notebooks /\ \A c \in SUBSET Edits : c # Absent

VARIABLES
    tabs, active,  \* the open tabs, in order, and the active one
    book,          \* book[n]: the content of an open notebook, in the browser
    file,          \* file[n]: its content on the server
    head,          \* head[n]: the content of its last commit
    versions,      \* versions[n]: the contents of all its commits
    flight,        \* flight[i]: the request in slot i
    edits, sent,   \* the number of edits made, and of requests sent, so far
    used,          \* ids that have been given out
    crossed,       \* history: notebooks with two replacements under way at once,
                   \* or that an answer has reached which was for a copy of theirs
    tangled,       \* history: notebooks with a request beside their deletion
    deleted,       \* history: notebooks whose deletion has been answered
    lost           \* history: edits an answer took away that it had no business to

workspaceVars == <<tabs, active, book, file, head, versions, flight, edits, sent, used,
                   crossed, tangled, deleted, lost>>

Kinds == {"open", "create", "delete", "put", "restore", "optimize"}
NoRequest == [kind |-> "none", nb |-> Absent, pc |-> "free", body |-> {}, since |-> {}]

OpenTabs == {tabs[i] : i \in DOMAIN tabs}
\* Ids the browser or the server may give to a notebook with new cells.
Unused == {n \in Notebooks \ used : Cells[n] = n}
Busy == {i \in 1 .. Slots : flight[i].pc # "free"}
Awaited == {i \in Busy : flight[i].pc # "orphan"}
About(n) == {flight[i].kind : i \in {j \in Busy : flight[j].nb = n}}

Init ==
    /\ \E n \in Notebooks \ OnServer :
        /\ Cells[n] = n
        /\ tabs = <<n>> /\ active = n
        /\ book = [m \in Notebooks |-> IF m = n THEN {} ELSE Absent]
        /\ used = OnServer \cup {n}
    /\ file = [n \in Notebooks |-> IF n \in OnServer THEN {} ELSE Absent]
    /\ head = file
    /\ versions = [n \in Notebooks |-> IF n \in OnServer THEN {{}} ELSE {}]
    /\ flight = [i \in 1 .. Slots |-> NoRequest]
    /\ edits = 0 /\ sent = 0
    /\ crossed = {} /\ tangled = {} /\ deleted = {} /\ lost = {}

Screen == <<tabs, active, book>>
Server == <<file, head, versions>>
Counters == <<edits, sent>>

---------------------------------------------------------------------------
(* The store: functions of the tabs, which the actions apply.              *)

\* withActiveNotebook: typing changes the active notebook alone.
Edit ==
    /\ edits < MaxEdits
    /\ edits' = edits + 1
    /\ book' = [book EXCEPT ![active] = @ \cup {edits + 1}]
    /\ flight' = [i \in 1 .. Slots |->
                    IF flight[i].nb = active /\ flight[i].kind = "optimize"
                    THEN [flight[i] EXCEPT !.since = @ \cup {edits + 1}] ELSE flight[i]]
    /\ UNCHANGED <<tabs, active, Server, sent, used, crossed, tangled, deleted, lost>>

\* replaceNotebook, and openTab: the notebook is shown whatever was there.
Replaced(n, content) ==
    /\ book' = [book EXCEPT ![n] = content]
    /\ tabs' = IF n \in OpenTabs THEN tabs ELSE Append(tabs, n)
    /\ active' = n

Index(n) == CHOOSE i \in DOMAIN tabs : tabs[i] = n

\* The other tabs, in their order.
Without(n) == [i \in 1 .. Len(tabs) - 1 |-> tabs[IF i < Index(n) THEN i ELSE i + 1]]

\* Faulty: closing a tab leaves it active.
ClosedStaysActive(n) ==
    /\ Len(tabs) > 1
    /\ tabs' = Without(n)
    /\ book' = [book EXCEPT ![n] = Absent]
    /\ UNCHANGED <<active, used>>

\* Faulty: a deleted notebook keeps its tab.
KeptOpen(n) == UNCHANGED <<Screen, used>>

\* closeTab: a neighbour becomes active, or a fresh notebook.
Closed(n) ==
    LET kept == Without(n)
    IN  IF n \notin OpenTabs THEN UNCHANGED <<Screen, used>>
        ELSE \/ /\ kept # <<>>
                /\ tabs' = kept
                /\ book' = [book EXCEPT ![n] = Absent]
                /\ active' = IF active # n THEN active
                             ELSE kept[IF Index(n) <= Len(kept) THEN Index(n) ELSE Len(kept)]
                /\ UNCHANGED used
             \/ /\ kept = <<>>
                /\ \E fresh \in Unused :
                    /\ tabs' = <<fresh>> /\ active' = fresh /\ used' = used \cup {fresh}
                    /\ book' = [book EXCEPT ![n] = Absent, ![fresh] = {}]

\* newNotebook, when the server cannot be reached.
NewLocal == \E fresh \in Unused : Replaced(fresh, {}) /\ used' = used \cup {fresh}

\* importNotebook: an exported notebook is opened under an id of its own, and
\* keeps the ids of its cells.  (An older export differs only in its text.)
Import(n) ==
    /\ n \in Notebooks \ used /\ Cells[n] # n
    /\ \E m \in OpenTabs : Cells[m] = Cells[n] /\ Replaced(n, book[m])
    /\ used' = used \cup {n}
    /\ UNCHANGED <<Server, flight, Counters, crossed, tangled, deleted, lost>>

CloseTab(n) ==
    /\ n \in OpenTabs
    /\ Closed(n)
    /\ UNCHANGED <<Server, flight, Counters, crossed, tangled, deleted, lost>>

SwitchTab(n) ==
    /\ n \in OpenTabs /\ n # active
    /\ active' = n
    /\ UNCHANGED <<tabs, book, Server, flight, Counters, used, crossed, tangled, deleted, lost>>

---------------------------------------------------------------------------
(* Requests leave.                                                         *)
Replacing == {"open", "create", "restore", "optimize"}

\* A slot is free: the request goes out.
Send(q) ==
    /\ Busy # 1 .. Slots /\ sent < MaxSent
    /\ flight' = [flight EXCEPT ![CHOOSE i \in 1 .. Slots : i \notin Busy] =
                    [kind |-> q.kind, nb |-> q.nb, body |-> q.body, since |-> {},
                     pc |-> IF q.kind = "optimize" THEN "answered" ELSE "sent"]]
    /\ crossed' = IF q.kind \in Replacing \ {"create"} /\ About(q.nb) \cap Replacing # {}
                  THEN crossed \cup {q.nb} ELSE crossed
    /\ tangled' = IF (q.kind = "delete" /\ About(q.nb) # {}) \/ "delete" \in About(q.nb)
                  THEN tangled \cup {q.nb} ELSE tangled
    /\ sent' = sent + 1
    /\ UNCHANGED <<Screen, Server, edits, used, deleted, lost>>

Pending(kind) == \E i \in Awaited : flight[i].kind = kind

\* A click in the sidebar.
\* Faulty: the click fetches the notebook even when it is open.
FetchesAlways(n) == TRUE

Fetches(n) == n \notin OpenTabs

Click(n) == /\ Fetches(n) /\ n \in used
            /\ Send([kind |-> "open", nb |-> n, body |-> {}])

\* The button of the sidebar, or that of the tab bar: each waits for its own.
Create == /\ Cardinality({i \in Awaited : flight[i].kind = "create"}) < 2
          /\ Send([kind |-> "create", nb |-> Absent, body |-> {}])

Remove(n) == /\ n \in used /\ file[n] # Absent
             /\ Send([kind |-> "delete", nb |-> n, body |-> {}])

\* Autosave: the active notebook, one save at a time.
Save == /\ ~Pending("put") /\ book[active] # file[active]
        /\ Send([kind |-> "put", nb |-> active, body |-> book[active]])

\* The history dialog of the active notebook, with a commit selected.
Restore == \E c \in versions[active] :
    Send([kind |-> "restore", nb |-> active, body |-> c])

Optimize == Send([kind |-> "optimize", nb |-> active, body |-> book[active]])

---------------------------------------------------------------------------
(* The server.                                                             *)
Written(n, content) ==
    /\ file' = [file EXCEPT ![n] = content]
    /\ head' = [head EXCEPT ![n] = content]
    /\ versions' = [versions EXCEPT ![n] = @ \cup {content}]

Freed(i) == flight' = [flight EXCEPT ![i] = NoRequest]

\* The answer is under way; that of an orphan is seen by nobody.
Pass(i, pc, n, body) ==
    flight' = [flight EXCEPT ![i] =
                 IF @.pc = "orphan" THEN NoRequest
                 ELSE [kind |-> @.kind, nb |-> n, pc |-> pc, body |-> body, since |-> @.since]]

\* A request reaches the server, be it one that nobody awaits any more.
Serve(i) ==
    LET q == flight[i] IN
    /\ q.pc \in {"sent", "orphan"}
    /\ \/ /\ q.kind = "open"
          /\ IF file[q.nb] = Absent THEN Pass(i, "failed", q.nb, {})
             ELSE Pass(i, "answered", q.nb, file[q.nb])
          /\ UNCHANGED <<Server, used>>
       \/ /\ q.kind = "create"
          /\ \E n \in Unused :
                /\ Written(n, {}) /\ used' = used \cup {n}
                /\ Pass(i, "answered", n, {})
       \/ /\ q.kind = "delete"
          /\ file' = [file EXCEPT ![q.nb] = Absent]
          /\ Pass(i, "answered", q.nb, {}) /\ UNCHANGED <<head, versions, used>>
       \/ /\ q.kind \in {"put", "restore"}
          /\ Written(q.nb, q.body)
          /\ Pass(i, IF q.kind = "restore" THEN "restored" ELSE "answered", q.nb, q.body) /\ UNCHANGED used
    /\ UNCHANGED <<Screen, Counters, crossed, tangled, deleted, lost>>

\* What else is under way about the active notebook.
Beside(i) == {flight[j].kind : j \in {k \in Busy \ {i} : flight[k].nb = active}}

\* restore.onSuccess asks for the last commit and what it holds: of the
\* notebook that is active by then, for the handler is that of the last render.
ReadBack(i) ==
    /\ flight[i].pc = "restored"
    /\ IF versions[active] = {} THEN Freed(i) /\ UNCHANGED <<crossed, tangled>>
       ELSE /\ Pass(i, "answered", active, head[active])
            /\ crossed' = IF Beside(i) \cap Replacing # {} THEN crossed \cup {active} ELSE crossed
            /\ tangled' = IF "delete" \in Beside(i) THEN tangled \cup {active} ELSE tangled
    /\ UNCHANGED <<Screen, Server, Counters, used, deleted, lost>>

---------------------------------------------------------------------------
(* Answers arrive.                                                         *)
Gone(n, content) == IF book[n] = Absent THEN {} ELSE book[n] \ content

\* open.onSuccess and create.onSuccess.
Opened(i) ==
    LET q == flight[i] IN
    /\ q.kind \in {"open", "create"}
    /\ Replaced(q.nb, q.body)
    /\ lost' = lost \cup (IF q.nb \in crossed THEN {} ELSE Gone(q.nb, q.body))
    /\ UNCHANGED <<used, deleted, crossed>>

\* remove.onSuccess.
Removed(i) ==
    /\ flight[i].kind = "delete"
    /\ Closed(flight[i].nb)
    /\ deleted' = deleted \cup {flight[i].nb}
    /\ UNCHANGED <<lost, crossed>>

\* The rest of restore.onSuccess.  What it replaces is not counted as lost:
\* going back is what the user asked for, of some notebook.
Restored(i) ==
    /\ flight[i].kind = "restore"
    /\ Replaced(flight[i].nb, flight[i].body)
    /\ UNCHANGED <<used, deleted, crossed, lost>>

\* updateCell looks for the cell, by its id, in the active notebook: it is
\* there when that is the notebook of the cell, or a copy.
FindsItsCell(q) == Cells[active] = Cells[q.nb]

\* optimize.onSuccess: the answer replaces the text, what was typed since included.
Optimized(i) ==
    LET q == flight[i] IN
    /\ q.kind = "optimize"
    /\ IF FindsItsCell(q)
       THEN /\ book' = [book EXCEPT ![active] = q.body]
            /\ crossed' = IF active = q.nb THEN crossed ELSE crossed \cup {active}
            /\ lost' = lost \cup (IF active \in crossed' THEN {} ELSE Gone(active, q.body) \ q.since)
       ELSE UNCHANGED <<book, crossed, lost>>
    /\ UNCHANGED <<tabs, active, used, deleted>>

Succeed(i) ==
    /\ flight[i].pc = "answered"
    /\ Freed(i)
    /\ \/ Opened(i) \/ Removed(i) \/ Restored(i) \/ Optimized(i)
       \/ flight[i].kind = "put" /\ UNCHANGED <<Screen, used, deleted, crossed, lost>>
    /\ UNCHANGED <<Server, Counters, tangled>>

\* The page awaits it no more, and the server may yet see it; a GET that nobody
\* awaits changes nothing and is left out.
Writes(q) == q.pc = "sent" /\ q.kind # "open"

Orphaned(i) == flight' = [flight EXCEPT ![i].pc = "orphan"]

\* The request fails for the page, before or after the server has seen it, or
\* while it is still on its way.  Only create.onError changes the store.
Error(i) ==
    /\ flight[i].pc \in {"sent", "answered", "failed"}
    /\ Freed(i) \/ (Writes(flight[i]) /\ Orphaned(i))
    /\ \/ flight[i].kind = "create" /\ NewLocal
       \/ flight[i].kind # "create" /\ UNCHANGED <<Screen, used>>
    /\ UNCHANGED <<Server, Counters, crossed, tangled, deleted, lost>>

\* persist keeps notebooks, tabs and the active tab; nobody awaits what is in
\* flight, which the server may yet see.
Reload ==
    /\ Awaited # {}
    /\ flight' = [i \in 1 .. Slots |->
                    IF Writes(flight[i]) THEN [flight[i] EXCEPT !.pc = "orphan"] ELSE NoRequest]
    /\ UNCHANGED <<Screen, Server, Counters, used, crossed, tangled, deleted, lost>>

\* A request that nobody awaits is lost.
Vanish(i) ==
    /\ flight[i].pc = "orphan"
    /\ Freed(i)
    /\ UNCHANGED <<Screen, Server, Counters, used, crossed, tangled, deleted, lost>>

User == \/ Edit \/ Create \/ Save \/ Restore \/ Optimize \/ Reload
        \/ \E n \in Notebooks : Import(n) \/ CloseTab(n) \/ SwitchTab(n) \/ Click(n) \/ Remove(n)

Answers == \E i \in 1 .. Slots :
    Serve(i) \/ ReadBack(i) \/ Succeed(i) \/ Error(i) \/ Vanish(i)

Next == User \/ Answers

Spec == Init /\ [][Next]_workspaceVars

---------------------------------------------------------------------------
Contents == SUBSET Edits

\* The tabs are distinct, the active one is among them, and the notebooks in
\* the store are those of the tabs.
TypeOK ==
    /\ tabs \in Seq(Notebooks) /\ tabs # <<>>
    /\ \A i, j \in DOMAIN tabs : tabs[i] = tabs[j] => i = j
    /\ active \in OpenTabs /\ OpenTabs \subseteq used /\ used \subseteq Notebooks
    /\ \A n \in Notebooks : IF n \in OpenTabs THEN book[n] \in Contents ELSE book[n] = Absent
    /\ \A n \in Notebooks : file[n] = Absent \/ file[n] \in Contents
    /\ \A n \in Notebooks : versions[n] \subseteq Contents
    /\ \A i \in 1 .. Slots : flight[i].body \in Contents /\ flight[i].since \in Contents

\* Answers take typed text away in four ways only: a notebook is replaced twice
\* at once, as by two clicks before the first is answered (crossed); Optimize
\* rewrites what was typed in its cell since it was asked (since); it is answered
\* while an imported copy is active, whose cell has the same id (crossed again);
\* a restore is answered after its tab was left and replaces the notebook shown
\* by then (Restored does not count it).  No other order of clicks, edits, tab
\* switches, refreshes, failures and answers loses a character.
OnlyKnownLosses == lost = {}

\* A notebook whose deletion was answered has no tab and no file any more, and
\* no click on a stale list brings it back.  This is about deletions that no other
\* request about the notebook was under way beside: a save of autosave may
\* bring the file back, an open its tab (tangled).
DeletedStaysDeleted ==
    \A n \in deleted \ tangled : n \notin OpenTabs /\ file[n] = Absent

=============================================================================
