# RedNotebook in TLA+

A model of RedNotebook's own state and concurrency: the editor that saves while
the user types, the SQL cells that run and stop queries, the stores of the
browser that answers of the server change, and the server that keeps notebooks,
accounts and artifacts in files. Every definition follows the source;
`PROJECT.json` maps each one to the lines it stands for. Checked with TLC,
proved with TLAPS.

Contents: 1 the system, 2 the modules, 3 the runs, 4 fairness, 5 the proofs,
6 what was found, 7 what is left out, 8 what could come next.

## 1. The system

A Next.js front end (`src/frontend`) keeps the open notebooks in one zustand
store that survives a refresh in localStorage. It talks HTTP to a FastAPI
server (`src/rednotebook`) whose endpoints are plain functions run on a thread
pool: two requests are two threads. `server/dependencies.py` builds a *new*
store object for each request, so the `_lock` inside a store excludes nobody;
what requests share is the disk and a few process-wide singletons (the query
registry, the bundled model, the settings).

| part | state it keeps | operations | what is hard | what makes it correct |
| --- | --- | --- | --- | --- |
| Autosave hook (`hooks/use-autosave.ts`) | the last serialized text, a debounce timer, in-flight and queued flags, the badge | debounce, immediate save, retry after a flight, `beforeunload` | edits and timers during a PUT, late requests, tab switches, a handler that saves before its own render | no work is lost without a badge; one save at a time; the file never goes back |
| Notebook store (`store/notebook-store.ts`) | tabs, cells, results per tab | open, close, switch, edit, file a result, persist | results arrive under whichever tab is active | a mark "running" has a request behind it |
| SQL cell, Run all (`sql-cell.tsx`, `topbar.tsx`) | one abort handle and query id per mounted cell | run, stop, rerun, unmount, run all | a stop racing the answer; remounts; Run all without a handle | the last run wins; a stopped run never shows |
| Query registry (`server/query_registry.py`, connectors) | cancel callbacks by query id, process-wide | register, cancel, unregister | three threads per query id | no entry leaks; a query that executes can be stopped |
| Notebook files and history (`notebook/storage.py`, `git_store.py`, `routers/notebooks.py`) | `<id>.json`, `.git/index`, its lock, commits, HEAD | create, save, delete, restore, history | threads share one repository per user; the write is open-then-write; a crash between any two steps | the file is what was acknowledged; every save lands; a listed version can be restored |
| Tabs and the sidebar (`notebook-store.ts`, `notebooks-list.tsx`, `notebook-history-dialog.tsx`) | tabs, the active one, their notebooks; the requests that replace or remove them | open, create, import, delete, save, restore, Optimize, reload | answers that come after the user has gone on | typed text vanishes in no way but four; a deletion beside which nothing else is under way is final |
| Connections in the browser (`connection-store.ts`, `connection-dialog.tsx`, `connection-picker.tsx`) | the connection in use, the forms, the saved ones | add, edit, use, pick, delete | handlers that see the form of the moment of the answer | what runs is what is saved under the name shown |
| Explorer and AI context (`metadata-explorer.tsx`, `ai-context.ts`, `connection.ts`) | one query cache, keyed by connection and place | expand, search, hydrate in lanes | two readers fill one cache; requests fail | the tables sent with a question are all those of its connection, once |
| Ask AI and knowledge (`ai-prompt-cell.tsx`, `notebook-knowledge.tsx`, `use-notebook-knowledge.ts`) | threads of messages; which knowledge notebook belongs to a notebook | ask, answer, fail; find or create and bind; rename | answers and failures out of order, or in an imported copy; a stale list; creates that overtake each other | questions and answers stay together; a notebook is answered from knowledge under its own name |
| Charts (`chart-recommender.ts`, `chart-view.tsx`, `chart-builder.tsx`, `result-tabs.tsx`) | the result, the chart configuration, what is on the canvas | recommend, pick, build, draw, rerun | a memo by hand-picked fields; cells that are no numbers | the chart accounts for the rows it is drawn of |
| Accounts (`auth/store.py`, `routers/auth.py`, `oauth.py`, `me.py`) | users, invites and API tokens as whole JSON files | register, login, GitHub, invite, issue, use and revoke tokens | read-modify-write of whole files on concurrent threads; first-user bootstrap | addresses are unique; the bootstrap closes; an invite that was used makes no later account; what was answered lasts |
| Publishing, uploads, connections, knowledge, runtime configuration | a JSON file each, and page or data files | add, rename, remove, update, test, view | file and manifest written in two steps; a shared temporary file; unreadable taken for empty | the file is what the answered changes make of it; unpublished stays unpublished; names stay unique |
| AI settings (`admin.py`, `ai/registry.py`, `settings/admin/ai/page.tsx`) | one configuration with masked keys | load, save a part of the form, merge | a page loaded before another's save; masks that come back | a choice is replaced only by a choice |
| Seeding (`notebook/seed.py`) | sample files and a marker | check, write, mark, inside a GET | two first requests; a crash half-way | samples come once |
| Lists of what was made (`publish-dialog.tsx`, `notebook-history-dialog.tsx`, `settings/tokens`, `settings/admin/users`, `files-section.tsx`) | a cached list each, what is selected, a secret shown once | open, close, make, end, restore, upload | a page left and come back to while requests are under way; a cache told too late or not at all | what is taken for current is what the server has; a secret is not replaced before it is put away |
| Sign-in and guards (`use-auth.ts`, `login`, `register`, `admin/layout.tsx`, `user-menu.tsx`) | the cached status, the page, where the router goes | sign in, up, out, follow a link, come back | redirects from a status that is about to change | the window settles on a page that is the user's to see |
| SQL guard, masking, secrets, audit, cache, rate limit, profiling, AI providers, CLI | none, or an append-only log, or a lazily loaded singleton | pure functions, forms, wiring | - | - |

Interactions: a cell's request carries a query id that the connector registers
and the Stop button cancels through a second request; a completed query and
every structural edit ask autosave for an immediate save through
`lib/save-bus.ts`; autosave's PUT is the server's save endpoint, which writes
the file and then commits it. The
sidebar, autosave, the history dialog and Optimize change one store when they
are answered (Workspace). The explorer and an Ask AI question share the query
cache (Metadata). A question goes to the provider that the AI settings resolve to
(AISettings), whose file is one of those of Stores. What Stores, Accounts and
NotebookServer keep is listed on pages that cache it (Listings), and the session that
Accounts gives decides which pages there are (SignIn). Listing the notebooks seeds
the samples (Seeding). The hazards, with their lines and the properties that
watch over them, are listed in `PROJECT.json`.

## 2. The modules

**Autosave** - one page, its tabs, the hook and the PUTs. The content of a
notebook is a version number, `doc[n]` the one on the screen, `disk[n]` the one
in the server's file. `hook` holds the refs of `useAutosave`; the operators
`PerformSave`, `DebounceEffect`, `ResetEffect`, `Finally` are its functions and
effects. A store update, its render and the effects of that render run to
completion before the next event, so each is one action: `Type`, `Restructure`
(a structural edit, which calls `saveNow` *before* the render, hence with the
old text), `SaveNow` (Cmd-S, Retry, a query that completes), `SwitchTab`,
`TimerFires`, `RetryFires`, `IndicatorExpires`, `Reload`. A request is sent,
applied by the server (`ServerSaves`) and answered (`SaveSucceeds`), or fails at
any of these points (`SaveFails`); a failed or orphaned request may stay with
the network and be applied later ("abandoned"). `clock`, `edits` and `stale`
are history variables: the newest version, how many edits the hook has seen of
the active notebook (it counts to two), and the notebooks last overwritten by
an abandoned request.

**QueryRuns** - the cells, Run all, the results per tab, the query threads and
the registry. A run is a number in order of start; `runs[q]` follows both its
fetch in the browser and its thread in `run_query` (sent, registered,
executing, over, answered). `ref[c]` is `abortRef`/`queryIdRef` of the mounted
instance of the cell. `CancelPops` and `CancelFires` are the two halves of
`QueryRegistry.cancel`: inside its lock and outside. A cell that leaves the
screen stays mounted until its exit animation ends (`Unmount`), and two
notebooks may share a cell id, as an exported and imported copy does; then the
instance of the cell survives the switch. `strayed` is a history variable: the
marks that have lost their run.

**CellRuns** - the abstract specification of the same: what was asked, in order and
by what; which runs are still awaited; and whose outcome each cell shows in each
tab. A cell's own button gives up the run of that cell it still awaited, an outcome
appears once and for the cell that asked, only Run all goes on with another cell,
and what was given up never comes back. `QueryRuns` instantiates it: `asked <-
Asked` (cell and cause of each run), `awaited <- Awaited` (the fetches that are
listened to), `outcome <- Outcomes`. Marks, handles, mounted cells, cancel calls, the
registry and the threads of the server are out of its sight.

**NotebookServer** - the files and the repository of one user, `req[r]` being
the thread of request r with the next thing it does: open the file (which
empties it), write it, `index.add` (hash the file and read the index; take the
lock file; rename it), compare with HEAD, write the tree and read HEAD, move
the branch. `Crash` may come between any two steps and leaves the files, the
index and the lock as they are. GitPython is outside `src/`; what is used of it
is modelled from how `git_store.py` uses it and marked external. History is
what `git log -- <file>` lists. `acked` and `disputed` are history variables:
what the last request on a notebook said it left, and the notebooks whose
requests overlapped or were cut short.

**NotebookHistory** - the abstract specification of the same: a notebook reads
back as it was last saved, each save that changes it is recorded, the timeline
is never rewritten, and git may stop recording for good without holding up a
save. `NotebookServer` instantiates it: `saved <- acked`, `timeline <-
History`, `recording <- ~Stuck` and, for `draft`, the index as the request
under way found it, so a request takes effect as a whole when it ends.

**Accounts** - the three account files and the requests on them, with
authentication enabled. `req[r]` is a request with the next thing it does: each
read of a file, the copy it changes, the opening (which empties the file) and the
writing are steps, since a store lives as long as its request and its lock
excludes nobody. `LoginReads`, `FirstSignup`, `InviteReads`, `EmailReads`,
`GithubAnswers`, `SubjectReads`, `SessionReads`, `TokenReads` and `OwnerReads`
are the checks in the order of the handlers; `AddUser`, `ConsumeInvite`,
`AddToken` and the rest are the store's changes, each on a copy read anew. A
file that is open and empty, or mixed up, makes a read raise (`ReadFails`).
`mixed` is a history variable: files two requests have changed at once, or that
a crash cut short; `after` is the set of registrations answered before a request
arrived.

**Stores** - the five smaller stores, a behaviour being about one (`store`):
published pages, uploads, connections, the sources of a knowledge notebook, the
runtime configuration. They share the shape "read, change a copy, write back" and
differ in what an absent or unreadable file means (`Parsed`, `SetsAside`),
whether they rename a temporary file (`Renames`) and whether a page or data file
goes with a record (`HasPages`). File descriptors follow renamed files (`Follow`).
`expect` is what the changes give one at a time; `mixed` and `raced` mark
overlaps.

**Seeding** - a listing's look at the marker, its look at the directory, each
sample and the marker it leaves, as separate steps beside other listings, the
user's notebooks and crashes. `rushed` is a history variable.

**Workspace** - the tabs and the requests in flight; a notebook is the set of
the edits it contains, so that what an answer takes away can be seen (`lost`).
The handlers run with the state of the last render, which is where the stale
ones come from. `Import` opens a copy with an id of its own and the ids of the
original's cells (`Cells[n]`), and an Optimize that is answered looks for the cell's
id in the notebook that is active (`FindsItsCell`). The two buttons that create
wait each for its own request. A request the page awaits no more, after a failure
or a refresh, may still reach the server (`Orphaned`, `Vanish`). `crossed`, `tangled`
and `deleted` are history variables.

**Connections** - the connection in use, the dialog and its forms (a form holds
a version), and the calls in flight. `drifted` and `unsure` mark what the
properties leave out: a form changed or left while its save was pending, two
requests about one connection, an answer that was lost.

**Chat** - a thread in an Ask AI cell or in the drawer (`place`): the question
is shown at once, the answer appended, and a failure takes the last message away.
`onScreen` is the notebook that is active: the cell's own, an imported copy, in which
it is the same component (`AskInCopy`), or another, from which it is unmounted when
it has faded out (`Unmount`).

**Binding** - which knowledge notebook answers for a notebook: the bindings kept
in the browser, the list they are checked against, the titles, which the user edits
(`Rename`), and the creates under way. The answer of a create is handled by the last
render of the hook that asked, which is the one shown (`front`) until another create
or an unmount makes it the one shown then (`binds`, `Left`, `Remount`). `had`
and `misled` are history variables: the titles a notebook has had, and the bindings that
a create for another notebook made with no list to object.

**Metadata** - the query cache, its queries in flight, the explorer's tree and
the search of `ai-context.ts` with its lanes. A place is the sequence of the
names that lead to it.

**Charts** - roles of columns, recommendations, the builder, aggregation and
what is drawn; **ChartResults** has the results it is checked with.

**AISettings** - the form, which sends only what was touched; the masks; the
merge; the provider that answers, and the banner.

**CachedQuery** - one entry of the query cache (`components/providers.tsx`): its data,
its request (asked, read by the server), whether it is the second attempt, whether it
was invalidated. What a page does to it are operators, used by the next two. `missed`
is a history variable: the server has moved on, and nobody told the cache.

**Listings** - the five lists, a behaviour being about one (`what`): share links,
versions, tokens, invites, uploads. What is listed is numbered in the order it was
made (`made`, `gone`); `fetched` is the query of the list, `changes` the requests that
make or end something, each with the handler it returns to. Pages and dialogs are
opened and left at any moment; a request of a page that was left is answered to nobody
but the cache.

**SignIn** - one window: the settings and accounts it meets (`house`, `accounts`), its
session (`cookie`), the query of the status, the page (`where`) and where the router
was told to go (`going`). `Redirect` is what each page's effect does with a status;
effects run when a page mounts (`Mount`) and when the status becomes another one
(`StatusArrives`). The cookie is set before the page hears of it (`CookieSet`, then
`SignedIn`). `dropped` is a history variable: a redirect that another one, to the page
itself, has replaced.

**Parts** - Workspace, Connections, Chat, Binding, Seeding, Stores, Charts, Metadata,
AISettings, Listings and SignIn share no state in the code at the grain of these
modules. `Parts` instantiates them side by side: a behaviour is one of one part,
chosen at the start (`part`), and the others rest in a fixed initial state, so that
the states explored are the sum of those of the parts and not the product.

**AutosaveProofs**, **QueryRunsProofs**, **NotebookServerProofs**,
**AccountsProofs**, **WorkspaceProofs** and **StoresProofs** hold the theorems about
the module each is named for; **BrowserProofs** those about Connections, Chat,
Binding and Metadata, **PartsProofs** those about Seeding, AISettings, Charts,
Listings and SignIn, and the type invariant of all parts. The **MC** modules give
constants to the configurations.

Some definitions are preceded by one marked "faulty": a plausible mistake in
the definition that follows it. Nothing uses them. Put in the place of the
correct one, each makes a property fail (`PROJECT.json`, "mutants"), which
shows that the property is not vacuous.

## 3. The runs

| run | instance | shows |
| --- | --- | --- |
| `MCAutosave` | 2 tabs, 3 versions, 1 abandoned request | after the second edit no order of typing, structural saves, timers, answers, failures, switches and refreshes leaves work unsaved without the error badge; a page closes silently only when all is saved; the file goes back only by an abandoned request; work is saved in the end |
| `MCAutosaveFirstEdit` | the same | *violated*: the first edit is saved |
| `MCAutosaveRevert` | the same, the user may retype the recorded text | *violated*: "saved" means saved |
| `MCQueryRuns` | 2 tabs that share a cell, 2 runs | the registry is exact, every live fetch has its handle, a stopped run never shows, a stop ends a query that executes, the code implements CellRuns (so the last run wins) |
| `MCQueryRunsStop` | the same | *violated*: a Stop reaches the engine |
| `MCNotebookServer` | 2 notebooks, 2 texts, 3 requests, 2 at once, 1 crash | files hold what was acknowledged, the index has one writer, every request ends |
| `MCNotebookServerSerial` | 5 requests, one at a time, 1 crash | every save lands in the history, listed versions are notebooks, the code implements NotebookHistory |
| `MCNotebookServerRace` | 3 requests, 2 at once, no crash | *violated*: every save lands |
| `MCAccounts` | 3 requests (interchangeable), 2 addresses, a fresh and an established installation, 1 crash | addresses are unique and the bootstrap closes through any overlap; an invite whose use was answered makes no later account, and what was answered lasts, where changes of a file do not overlap |
| `MCParts` | each of eleven parts, see below | sixteen properties of the browser's stores and the server's smaller ones |
| `MCCharts` | the results of `ChartResults` | *violated*: a recommended count counts the rows |
| `MCMetadata` | two BigQuery projects | *violated*: the lists shown are those of the connection |

The bounds. Autosave: the interesting races need a text recorded, one in
flight and one newer, that is three versions, and a second tab to switch to;
one abandoned request is enough to overwrite a newer file. QueryRuns: every
property relates at most two runs (an older and a newer one of a cell, or one
of the cell and one of Run all) and one cancel; two tabs and a shared cell
give every way of leaving and coming back. NotebookServer: two requests at
once show each conflict of two threads, the third finds what they have left
behind; serially, five requests allow save, save, delete, save and restore of
one notebook with another notebook's save between them, around a crash.
Accounts: three requests are two that race and one that arrives after, or a
sign-up, the invite it needs and a rival; two addresses allow the same and
another. Parts: one edit and three requests over four notebooks (two slots), one of
them a copy of another, so that each answer can come late, beside another, after its
tab or in the copy; one edit suffices, since a property fails on the first that is
lost; three calls about two connections; three questions; two notebooks, two titles of
which one reads as the knowledge name of the other, one renaming, two creates and two
knowledge ids; four listings on two threads with two samples; three requests
on a store with one record and two table names, two at once, with a crash; two
users of one database, three tables, two of which get columns, in two lanes;
two administrators, two saves of two fields; two things listed and two requests about
them at once, so that one is answered while the list of the other is on its way; all
six pages, both roles, every setting, and one request to sign in, up or out at a time,
with other windows doing what they like beside it (with two at a time the part was
checked by itself; the theorem has no bound). The thresholds of charts and lists
(5, 10, 50 rows; 8 slices) are constants, set to 1 to 4 so that the small results
fall on both sides.

`MCParts` tells states apart by the part that runs (`VIEW Moving`): the parts that were
not chosen rest, that is keep one fixed state, and each property of `Parts` is
conditional on its part, so states that agree on what is moving agree on everything. Ids
that the code draws at random are alike: where several are free, the models of the parts
take one of them (`NewId`, the first notebook, the next request to a store).

The configurations of the server, of accounts and of the parts switch the
deadlock check off: the model stops when its bounded number of requests is used
up. That no thread of the notebook server blocks is `RequestsEnd`.

What the properties leave out, and why. The first edit after a mount or a switch
(`edits < 2`) is the subject of its own run, and so is retyping the recorded text
(`Reverts`). The properties speak of the active notebook: one left behind within the
debounce window is not saved (section 6). Notebooks overwritten by an abandoned
request (`stale`) cannot be known to the client. Overlapping requests on one notebook
(`disputed`) have no last writer. Marks in `strayed` are those that the source leaves
set: the user left the tab, or Run all failed. In the same way `mixed` (accounts,
stores), `raced` (a table renamed during an upload), `rushed` (seeding), `overlapped`
(a question beside a pending one or an answer from a copy), `misled` (a create
answered for another notebook where no list could object), `drifted` and `unsure` (a
connection form changed while its save was pending, two requests about one
connection), `crossed` (two replacements of one notebook at once, or an Optimize
answered in a copy), `since` (typed in a cell that Optimize was rewriting), `tangled`
(a request about a notebook beside its deletion), `together` (AI settings), `missed`
(a list or status that is behind and was not told) and `dropped` (sign-in) mark
behaviours in which the code keeps no promise; the comment at the property says which
behaviour that is and where the code allows it. What holds without any such exception
is stated so: `EmailsUnique`, `BootstrapCloses`, `UnpublishIsFinal`, the first half
of `ContextIsRight` (no table of another connection), and that secrets are shown.

## 4. Fairness

Autosave: timers fire (`TimerFires`, `RetryFires`), the server handles what the
client awaits and every awaited fetch is answered or fails, as a browser
guarantees in the end. Nothing is assumed of the user or of abandoned requests.
QueryRuns: the server handles a cancel call it has received and calls the
callback; a query need not end by itself, an answer need not come. Notebook
server: a thread that can take a step takes one; no step waits for another
thread, since GitPython raises instead of waiting. No fairness is assumed of
crashes or arrivals. The other modules state safety only: nothing there
must happen that a user or a server does not choose to do, and a test of
liveness would only restate that requests are answered.

## 5. The proofs

`AutosaveProofs` proves, for any set of notebooks, any bounds on versions and
abandoned requests, from `AutosaveAssumption` and `Reverts = FALSE`:

- `AutosaveTypeOK`, `AutosaveOneSave`: well-formedness and one save at a time;
- `AutosaveNoSilentLoss`, `AutosaveSilentClose`: the two properties that say
  the user's work is not lost;
- `AutosaveNoRegress`: the action property that the file never goes back.

None of the last three is inductive. The invariant `IInv` adds: versions only
move forward, on the screen, on the wire and in the baseline (`Ordered`); the
file is not ahead of an awaited request, an abandoned one is not either, and an
applied one *is* the file (`WireOrdered`); a recorded text equal to the screen
has been acknowledged and nothing is on its way (`Acknowledged`); a text that
is not recorded is owed a save by a timer, a retry, a queued flag or a request
that carries it, unless the badge shows the error (`Owed`). `Owed` is the heart:
each action that takes one of its reasons away must leave another. The proof
has one lemma per action; those that call `performSave` (the timer, the retry,
Cmd-S and a structural edit) share `WireAfterSave`, edits share `EditStep`.
With `Reverts = TRUE` the properties about content are false, as the third run
shows, so the assumption is needed.

`QueryRunsProofs` proves the safety properties of QueryRuns, `LastRunWins` among
them, which the run has in the stronger form of the refinement, for any tabs,
any cells in them (ids may be shared) and any number of runs, from
`QueryRunsAssumption`. Four parts make the properties inductive: what an
instance of a cell holds is its newest run, which nobody has stopped
(`Handles`); a cancel call is for a run whose fetch is no longer listened to
(`Cancelled`); an entry that was popped is of a query that had registered
(`Popped`); and `MarkHasItsFetch` must speak of every cell, since a switch
brings others to the screen (`Marks`). The two action properties follow from
these and from `ShowsPending`, which every step satisfies: an outcome that
appears is that of a fetch listened to until then. Such a fetch is the one in
`ref`, hence the newest run of its cell, and no cancel call is for it. The steps
of the browser that only drop fetches share `DropsStep`, those that answer or
go on with Run all `GoesOnStep`, the threads of the server `ThreadMoves`.

`QueriesImplementCellRuns` is the refinement: each step is one of CellRuns or a
stutter. That a new run of a cell gives up the one before is where the invariant is
needed: the code aborts what its handle holds, CellRuns gives up whatever the cell
still awaits, and `Handles` with `EveryFetchHasItsHandle` says these are the same
(`RunCellSeen`). One more invariant, `OnlyAllGoesOn`, says that a run with cells
still to come is Run all's; stops, failures and unmounts drop one fetch and a
refresh all (`DropSeen`), and nothing the server does is seen (`ThreadSeen`).

`NotebookServerProofs` proves, for any notebooks, texts, requests, threads at
once and crashes, from `NotebookServerAssumption` and `NoneIsNoRequest`:
`ServerTypeOK`; `ServerKeepsItsWord`, that a file at rest is what was last
acknowledged; and `ServerOneIndexWriter`. The second needs three facts about
requests under way: one that is alone on its notebook has no other beside it
and the file is empty, or holds its text, as far as it has come
(`AloneIsAlone`); one about to open or write the file has a write to do
(`WritesLeft`); and one that has not started is nowhere (`Fresh`).

Its other three theorems, `ServerEverySaveLands`, `ServerSnapshotsRestorable` and
`ServerImplementsHistory`, are about a client that waits for each answer: their
hypothesis is `MaxActive = 1`, the run `MCNotebookServerSerial` is an instance, and the
run with two requests at once (`MCNotebookServerRace`) shows that it is needed. The last
is the refinement: every step of the endpoints, the files and the repository
is a step of `NotebookHistory` or a stutter. The invariant `SInv` follows the one
request at its stage (`UnderWay`): which of file, index and tree hold its text already,
and that the rest is as the last answer left it (`AtRest`, `Landed`), unless git is stuck.
`History` is recursive over commits, and the provers have no induction over
data. None is needed: `Grounded` says of a sequence of commits that the
function which lists its versions has its recursive equation, a new commit extends it
(`OneMoreCommit`), and the commits there are were made one by one in the behaviour.

`AccountsProofs` proves, for any requests, accounts and crashes, from
`AccountsAssumption`, the type invariant and the four safety properties.
`AccountsEmailsUnique` and `AccountsBootstrapCloses` hold however requests
overwrite each other. The invariant says of each request what it holds
(`Sound`): a copy about to be written is of the records of its file, has no
address twice and, of users, is not empty (`CopySound`); a first sign-up is not
late. And whoever has added an account, or has arrived after one that had,
implies that users.json is not found empty again (`Past`, `UsersThere`): lost
writes replace a non-empty list by another, and a crash leaves a file that
cannot be read, which is not an empty one. There is one lemma per change of the
store and one per action.

`AccountsInviteCloses` and `AccountsAnswersLast` follow the files record by record
while changes do not overlap (`Lasts`): a request is at a step only by the way that
leads there (`WayOf`), one request at most is between reading a file and writing it
back (`OneWriter`), its copy is the file with its own change and no other
(`OwnChange`), and what a request was answered is in the file or in the copy that
replaces it (`Lasting`). For the first, a registration that arrived after the answer
of another with its invite (`Closed`) comes no further than the check of the invite
(`Shut`), so no account is its (`Traced`, `Closing`). Two that both arrive before the
answer may both get an account, and the theorem does not deny it. They assume
`TextsAreNoRecords`, that what cannot be read as a list of records is not one; it is
the hypothesis of these theorems rather than an ASSUME because TLC does not compare a
model value with a set of sets, and the instances satisfy it since unreadable texts
are model values there.

The parts are proved in the module that composes them: `Parts` is a choice of
the part followed by that part's own steps, so each `...Behaves` lemma gives the
part's specification and each `...Holds` the part's invariant. A part that was not
chosen rests, which keeps its invariant as it was. The theorems state the very
formulas the run `parts` checks.

`WorkspaceProofs` proves `OnlyKnownLosses` and `DeletedStaysDeleted` for any number
of tabs, copies, requests at once and edits, with the exceptions the properties name.
What carries the first, of notebooks that nothing has crossed: one request at most
replaces a notebook (`OneReplaces`), what is being opened is not open
(`OpensWhatIsClosed`) and Optimize puts back at least what was there, up to what was
typed since (`OptimizeKnows`); the second rests on a deletion being alone with its
notebook (`DeletesAlone`) and leaving at most a click that finds nothing
(`GoneForGood`). Answers, failures and orphans only take requests away or go on with
one, which is one lemma (`ShrinkKeeps`). The proof found a gap in the model: a
restore reads the notebook back with a second request, and with four requests in
place of three another could have been sent in between that neither saw at its start.
`ReadBack` now looks again, and the properties hold in the run with any number of
requests by the theorem.

`StoresProofs` proves the four properties of Stores for any requests at once, crashes
and contents of the files. `UnpublishIsFinal` is not about the manifest, which may
get a record back: it rests on the last step of a revocation, that takes the
page away, on ids being new (`RemovesKnown`: only what was added and answered is
removed) and on a view ending well only where the page is. `StepOf` says what a
step leaves of the other requests, and the steps that touch no page share
`QuietKeeps`. The other three follow from `Lasts`, what holds while no two changes
overlap: one request at most writes, its copy is what is stored with its own
change, and the file at each of its steps is the old list, empty, or the new list
(`Apart`); a page is there before its record and goes after it (`Paged`, which needs
`RemovesKnown` again: whoever removes knows the record from an answer, so nobody is
adding it); and a name that was chosen stays free until its record is written
(`TablesApart`). They assume `MarksAreNoRecords`, that what cannot be read is
not a list of records, a hypothesis for the same reason as `TextsAreNoRecords`.

`BrowserProofs` has four parts. `ConnectionsActiveIsSaved`: queries run with what is
saved under the name shown, for any forms and calls at once, as long as nothing has
drifted and the call in flight is the only one about its connection.
`ChatKeepsPlace`: unless questions have overlapped, one is pending at most
(`OnePending`), it is the last message of its thread, and questions and answers
alternate before it. `BindingAnswersUnderItsName`: a create brings an id with the name
of who asked, a render keeps, finds by title or clears (`RenderedIs`), and titles a
notebook has had are never forgotten, so each binding goes to a name of the notebook's
own or to a pair that was misled (`OwnOrMisled`).

`MetadataContextIsRight` is about the tables that go
with a question, for any connections, catalogs, lists, budgets and lanes. The cache
holds under a key what the connection of that key has (`CacheIsTrue`, `Asked`); a
search visits its places once each, in an order of its own (`PlacesOfSearch`,
`PlacesApart`), and what it found, has still to visit or passed over is all there is
(`WholeSearch`); of the tables its lanes take, none is taken twice and those that
are through have their columns (`Gets`, `Followed`, `Ready`). It assumes `KeysDiffer`,
that no two connections have one `connectionKey`: the connections of the run
`parts` satisfy it, and those of the run `metadata`, two BigQuery projects, do not.

`PartsProofs` proves `SamplesComeOnce` for any samples, threads and listings:
while nothing is rushed there is one lister, and without a marker nobody has
written before it (`OneAtATime`, `Progress`); `ChoicesStand`: the one save under
way merges over the stored configuration, so each field is what was meant,
what a mask stands for, or what it was (`UpdateKeeps`); and `ChartsCanvasIsCurrent`:
the option on the canvas is that of the result and configuration shown, so
useMemo leaves out of its key nothing but the title (`KeyDetermines`).

`ListingsRight` rests on the cache owing the truth: an answer that was read, or a list
at rest, is what the server has unless a change has still to be heard of or the cache
is marked as behind (`missed`); each handler that hears of a change has the list
fetched again. That a secret is not replaced needs that whoever has one on display has
no mint under way, since the dialog covers what would send one.
`SignInSettlesRight`: a window at rest with a status that is true has run the effect of
its page with it, so the page is one where `Redirect` stays, unless it is going
somewhere or a redirect was dropped. Neither bounds the requests, things or pages' visits.

`PartsTypeOK` is the type invariant of all the parts. It takes more than types: that
an answer brings what its handler takes from it (`BringsWhatItShould`), that a
question stands in a thread once and is answered once, which bounds the thread
(`NoneTwice`, `ThreadIsShort`), and that each file written from a sample was owed
by a listing of its own (`Owing`, `Paid`). All of these assume what the parts ask of
their constants, which is `PartsAssumption` and evaluated by TLC; `PartsTypeOK`
assumes `KeysDiffer` as well, for Metadata.

`PartsChartAddsUp`: what a chart draws adds up to what the rows hold, for any results
of any finite size, any cell texts and any reading of them as integers. Sums over the
rows are recursive, and the induction theorems of the library cannot be instantiated;
but that the subsets of a finite set are well-founded under strict inclusion is a
plain fact, and from it comes `SubsetsInduction`: if a set of subsets is not all of
them, a smallest one is missing. `IsSum` describes a sum over a set by its partial
sums and `SumExists` says each set of integers has one; any member may be added last
(`SumOfMembers`), so sums that agree member by member are equal and sums of
disjoint parts add. The marks of a chart share the rows out among them
(`SharesOut`): each row with a number is in the group of one mark, in none twice.
Hence sums and counts of groups make those of the rows, and the greatest of the
groups' maxima is the rows' maximum (`MaxOfMaxima`). `ChartsConstants` states what
is needed of the constants: that texts are read as integers or NaN, and that a
result has finitely many rows.

Only model-checked: the liveness properties (`WorkIsSavedEventually`,
`StopEndsExecutingQuery`, `RequestsEnd`), which are beyond the proof system. Every
invariant and every action property of the passing runs is a theorem.

## 6. What was found

1. *The first edit is not saved* (`use-autosave.ts:135`). The effect that
   resets the baseline runs after the debounce effect, so the first edit after
   a mount or a tab switch is taken for the saved text. The comment there says
   the opposite. It reaches the server with the next edit, or never.
2. *A-B-A* (`use-autosave.ts:67`). Retyping the recorded text while another is
   in flight disarms the save, and the answer then records the other text as
   saved.
3. *A Stop can miss* (`query_registry.py:59`). Before the callback is registered
   there is nothing to cancel; between registration and `execute` the engine
   ignores the interrupt. The release notes say the button reaches the engine.
4. *Concurrent saves can be left out of the history* (`git_store.py:130`). The
   module's doc says every save lands as a commit; a save that meets another's
   `index.lock` gets none, and two that interleave around HEAD lose one.

5. *A count that counts nothing* (`chart-view.tsx:195`). The recommender offers
   "count of rows per category" over a text column when there is no measure;
   `aggregate` skips rows whose value is no number before it counts.
6. *Two connections under one key* (`connection.ts:91`). `connectionKey` has no
   port, account, project or service: two BigQuery projects share the cached
   lists, and the explorer shows one under the other.

Also seen in the serial run, as the abstract specification says: a deletion is
never recorded, since the commit adds a path that is gone; and a crash that
leaves `index.lock` behind stops the recording for good while saves go on.

Noted while modelling, visible in the models, but without a run of their own:

- Autosave: `use-autosave.ts:146`, turning to another tab within the debounce
  window clears the timer without a save, and no later save sends a notebook that
  is not active; the text reaches the server only if the user returns to the tab
  and a save is asked for there. The switch itself arms a timer for the notebook it
  goes to, if the baseline was another's, and sends that one unedited.
- Workspace: `notebook-history-dialog.tsx:188`, a restore answered after a tab
  switch replaces the notebook shown by then. `sql-cell.tsx:217`, Optimize
  replaces what was typed since it was asked. `topbar.tsx:66`, an imported copy
  keeps the ids of the cells, and `notebook-store.ts:267` looks for a cell in the active
  notebook: an Optimize answered while the copy is active overwrites the SQL of the copy,
  and an Ask AI answer joins the thread of the copy. `notebooks-list.tsx:48`, a save in
  flight when its notebook is deleted writes the file again.
- Chat: `ai-prompt-cell.tsx`, a question that fails is taken from the thread and
  its text is gone from the prompt, against the comment there; the first question
  hides an older one-shot exchange; an answer while another tab is shown is
  dropped. `notebook-knowledge.tsx:182` takes the last message away, whosever it
  is, and the shortcut of lines 401-408 does not look whether one is pending.
- Binding: `use-notebook-knowledge.ts:43`, the binding to a notebook just created
  is cleared until the list has it; a second create may come in between, and its
  answer binds whatever notebook is shown by then. A notebook that is renamed keeps the
  knowledge notebook of its old title, and a notebook that takes that title shares it.
- Connections: `connection-picker.tsx:50` invalidates a key no query uses.
- Metadata: `ai-context.ts:174`, a table whose columns could not be fetched is
  dropped, though the comment says its name is still useful.
- AISettings: a key typed into its mask keeps a bullet and is ignored, though
  the page says saved; a masked key that comes back counts as a key just supplied
  (`admin.py:158-177`); two saves at once lose one.
- Accounts: `auth.py:218`, the account is added before the invite is consumed, so two
  registrations under way with one invite leave two accounts, the second one answered with
  an error; `models.py:95` and `users/page.tsx:66` call an invite one-time. What holds
  is `InviteCloses`, for registrations that arrive after the first was answered.
- Accounts and Stores: overlapping changes of a file lose one of them; a crash
  between opening and writing leaves a file that no request can read.
- Listings: `notebook-history-dialog.tsx:159`, a dialog opened again selects the newest
  version of the list it had, not of the one it gets; a list whose first request is on
  its way when something is made is not asked for again, and may lack it. The dialogs of
  links and versions have the list of the notebook shown at the answer fetched again,
  which after a change of tabs is another one; they ask anew when they open, so the model
  has one notebook.
- SignIn: a page's redirect is lost when the router is told, in the same moment, to go
  where it is already, as after signing out on a page that was just being left.
- Charts: a configuration keeps columns that a rerun no longer has; null is
  counted as zero.

## 7. What is not modelled

Reads that change nothing (list, get, history). Summarize, explain and format of
a SQL cell, which write beside the SQL. The Trino and SQLAlchemy paths where
they differ from DuckDB's (a cursor that cancels, or a second connection that
kills the query, instead of an interrupt; no registration at all for dialects
without either). Undo, selection
and the order of cells. The drawer's sync of results into sources. The sample of
200 rows from which roles of columns are inferred, and dates shorter than eight
characters in columns that are named after time. The chart
types that only the builder offers, and the drawing.

Whole components: the SQL guard (regular expressions and a parser library over the
text of a statement), masking, secrets, profiling and PII detection (text and numbers
in, text and numbers out), AI providers and prompts (HTTP and wording), the bundled
model (one lazily loaded singleton), audit log, cache and rate limit, infographics
and export, the tour and the remaining pages and dialogs, migration, CLI and
start-up. They hold no state that two actors share, or none that outlives a call.
Each component's status is in `PROJECT.json`.

## 8. What could come next

1. An abstract atomic store that Stores implements while changes do not overlap.
2. The cancellation of the other connectors, with the time between the creation
   of a cursor and its registration.
3. The guard as an operator on kinds of statements, against a reference.
