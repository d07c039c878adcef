------------------------------ MODULE Autosave ------------------------------
(***************************************************************************)
(* The autosave pipeline of the notebook editor: the React hook            *)
(* useAutosave (frontend/hooks/use-autosave.ts), the structural edits and  *)
(* query completions that ask it for an immediate save, the PUT requests   *)
(* it sends, and the file the server keeps for each notebook.              *)
(*                                                                         *)
(* The content of a notebook is a version number.  A store update, the     *)
(* render it causes and the effects of that render run to completion       *)
(* before any timer or response is handled, so they are one step here.     *)
(***************************************************************************)
EXTENDS Naturals, FiniteSets

CONSTANTS
    Notebooks,     \* the notebooks open in tabs
    None,          \* the JavaScript null
    MaxEdits,      \* bound on the versions the user creates
    MaxAbandoned,  \* bound on requests the client gave up on and the network kept
    Reverts        \* may the user type back the text the hook last recorded?

Version == 0 .. MaxEdits

\* A serialized notebook: JSON.stringify covers its id and its content.
Copy == Notebooks \X Version

ASSUME AutosaveAssumption ==
    /\ Notebooks # {}
    /\ MaxEdits \in Nat
    /\ MaxAbandoned \in Nat
    /\ Reverts \in BOOLEAN
    /\ None \notin Copy

VARIABLES
    doc,     \* doc[n]: the version of n in the browser's notebook store
    active,  \* the active tab
    hook,    \* the refs and the status of the mounted hook
    wire,    \* PUT requests that are not over
    disk,    \* disk[n]: the version in the server's file of n
    clock,   \* the last version the user created
    edits,   \* edits of the active notebook since the hook took it up, up to 2
    stale    \* notebooks whose file an abandoned request overwrote last

vars == <<doc, active, hook, wire, disk, clock, edits, stale>>

Status == {"idle", "dirty", "saving", "saved", "error"}

Hook == [baseline : Copy \cup {None},  \* lastSerialized
         timer    : BOOLEAN,           \* debounceTimer is armed
         inFlight : BOOLEAN,           \* inFlight
         queued   : BOOLEAN,           \* pendingAfterFlight
         retry    : BOOLEAN,           \* the setTimeout(0) after a flight
         status   : Status]

\* "abandoned": the client has dropped it and the server may still handle it.
Request == [copy : Copy, state : {"sent", "applied", "abandoned"}]

Current == <<active, doc[active]>>

Live == {r \in wire : r.state # "abandoned"}

-----------------------------------------------------------------------------
(* The hook's functions: what each does to the refs.  A definition marked    *)
(* "faulty" is a plausible mistake in the one after it; nothing uses it, and *)
(* each shows that some property below is not vacuous.                       *)

\* Faulty: the check of inFlight is dropped.
SendsAnyway(h, c) == c # h.baseline

\* performSave gets past its early returns.
Sends(h, c) == c # h.baseline /\ ~h.inFlight

\* Faulty: a save asked for during a flight is dropped.
PerformSaveUnlessBusy(h, c) ==
    IF Sends(h, c) THEN [h EXCEPT !.inFlight = TRUE, !.status = "saving"] ELSE h

\* performSave up to its await, for the notebook c.
PerformSave(h, c) ==
    IF Sends(h, c)
    THEN [h EXCEPT !.inFlight = TRUE, !.status = "saving"]
    ELSE [h EXCEPT !.queued = @ \/ c # h.baseline]

Requests(h, c) == {r \in {[copy |-> c, state |-> "sent"]} : Sends(h, c)}

ClearTimer(h) == [h EXCEPT !.timer = FALSE]

\* The debounce effect on the notebook c, after the cleanup of its last run.
DebounceEffect(h, c) ==
    IF h.baseline = None
    THEN [h EXCEPT !.timer = FALSE, !.baseline = c, !.status = "idle"]
    ELSE IF c = h.baseline
    THEN ClearTimer(h)
    ELSE [h EXCEPT !.timer = TRUE, !.status = "dirty"]

\* Faulty: a status the hook does not know.
ResetToClean(h) == [h EXCEPT !.baseline = None, !.status = "clean"]

\* The effect on notebook.id, declared after the debounce effect.
ResetEffect(h) == [h EXCEPT !.baseline = None, !.status = "idle"]

NewHook == [baseline |-> None, timer |-> FALSE, inFlight |-> FALSE,
            queued |-> FALSE, retry |-> FALSE, status |-> "idle"]

Mounted(c) == ResetEffect(DebounceEffect(NewHook, c))

\* Faulty: the finally block without its retry.
FinallyForgets(h) == [h EXCEPT !.inFlight = FALSE, !.queued = FALSE]

Finally(h) ==
    [h EXCEPT !.inFlight = FALSE, !.queued = FALSE, !.retry = @ \/ h.queued]

\* Faulty: the prompt looks at the badge instead of the text.
PromptsOnlyWhenDirty == hook.status = "dirty"

\* beforeunload asks the user to stay.
Prompts == Current # hook.baseline

-----------------------------------------------------------------------------

Init ==
    /\ doc = [n \in Notebooks |-> 0]
    /\ disk = [n \in Notebooks |-> 0]
    /\ active \in Notebooks
    /\ hook = Mounted(Current)
    /\ wire = {}
    /\ clock = 0
    /\ edits = 0
    /\ stale = {}

\* A text the user leaves in the active notebook: new, or the recorded one.
Edited(v) ==
    /\ \/ clock < MaxEdits /\ v = clock + 1 /\ clock' = v
       \/ Reverts /\ <<active, v>> = hook.baseline /\ UNCHANGED clock
    /\ v # doc[active]
    /\ doc' = [doc EXCEPT ![active] = v]
    /\ edits' = IF edits = 2 THEN 2 ELSE edits + 1
    /\ UNCHANGED <<active, disk, stale>>

\* Typing, a title, a chart setting: updateCell, setTitle, setChartConfig.
Type(v) ==
    /\ Edited(v)
    /\ hook' = DebounceEffect(hook, <<active, v>>)
    /\ UNCHANGED wire

\* Adding, removing and moving cells call requestImmediateSave in the same
\* handler, before the render that refreshes latestNotebook.
Restructure(v) ==
    LET h == ClearTimer(hook) IN
    /\ Edited(v)
    /\ hook' = DebounceEffect(PerformSave(h, Current), <<active, v>>)
    /\ wire' = wire \cup Requests(h, Current)

\* Cmd-S, the Retry badge, and a query that completes.
SaveNow ==
    LET h == ClearTimer(hook) IN
    /\ hook' = PerformSave(h, Current)
    /\ wire' = wire \cup Requests(h, Current)
    /\ UNCHANGED <<doc, active, disk, clock, edits, stale>>

SwitchTab(n) ==
    /\ n # active
    /\ active' = n
    /\ hook' = ResetEffect(DebounceEffect(hook, <<n, doc[n]>>))
    /\ edits' = 0
    /\ UNCHANGED <<doc, wire, disk, clock, stale>>

TimerFires ==
    LET h == ClearTimer(hook) IN
    /\ hook.timer
    /\ hook' = PerformSave(h, Current)
    /\ wire' = wire \cup Requests(h, Current)
    /\ UNCHANGED <<doc, active, disk, clock, edits, stale>>

RetryFires ==
    LET h == [hook EXCEPT !.retry = FALSE] IN
    /\ hook.retry
    /\ hook' = PerformSave(h, Current)
    /\ wire' = wire \cup Requests(h, Current)
    /\ UNCHANGED <<doc, active, disk, clock, edits, stale>>

\* The "saved" indicator goes back to "idle" after SAVED_INDICATOR_MS.
IndicatorExpires ==
    /\ hook.status = "saved"
    /\ hook' = [hook EXCEPT !.status = "idle"]
    /\ UNCHANGED <<doc, active, wire, disk, clock, edits, stale>>

\* What is left of the requests rs when the client stops listening: each is
\* lost, or stays with the network if it has not been handled.
Abandon(rs) ==
    \E kept \in SUBSET {r \in rs : r.state = "sent"} :
        /\ wire' = (wire \ rs) \cup {[r EXCEPT !.state = "abandoned"] : r \in kept}
        /\ Cardinality({r \in wire' : r.state = "abandoned"}) <= MaxAbandoned

\* PUT /api/notebooks/{id}: the server overwrites the file.
ServerSaves(r) ==
    /\ r.state # "applied"
    /\ disk' = [disk EXCEPT ![r.copy[1]] = r.copy[2]]
    /\ \/ /\ r.state = "sent"
          /\ wire' = (wire \ {r}) \cup {[r EXCEPT !.state = "applied"]}
          /\ stale' = stale \ {r.copy[1]}
       \/ /\ r.state = "abandoned"
          /\ wire' = wire \ {r}
          /\ stale' = stale \cup {r.copy[1]}
    /\ UNCHANGED <<doc, active, hook, clock, edits>>

SaveSucceeds(r) ==
    /\ r.state = "applied"
    /\ hook' = Finally([hook EXCEPT !.baseline = r.copy, !.status = "saved"])
    /\ wire' = wire \ {r}
    /\ UNCHANGED <<doc, active, disk, clock, edits, stale>>

\* The server refuses, or the request or its answer is lost.
SaveFails(r) ==
    /\ r \in Live
    /\ hook' = Finally([hook EXCEPT !.status = "error"])
    /\ Abandon({r})
    /\ UNCHANGED <<doc, active, disk, clock, edits, stale>>

\* A page refresh: the notebook store comes back from localStorage, the hook
\* starts anew and nobody listens to the requests of the old page.
Reload ==
    /\ hook' = Mounted(Current)
    /\ edits' = 0
    /\ Abandon(Live)
    /\ UNCHANGED <<doc, active, disk, clock, stale>>

Next ==
    \/ \E v \in Version : Type(v) \/ Restructure(v)
    \/ SaveNow
    \/ \E n \in Notebooks : SwitchTab(n)
    \/ TimerFires
    \/ RetryFires
    \/ IndicatorExpires
    \/ \E r \in wire : ServerSaves(r) \/ SaveSucceeds(r) \/ SaveFails(r)
    \/ Reload

\* Timers fire and every request is answered in the end.  Nothing is assumed
\* of the user, nor of a request the client has abandoned.
Answers == \E r \in wire : SaveSucceeds(r) \/ SaveFails(r)

Handles == \E r \in Live : ServerSaves(r)

Fairness ==
    /\ WF_vars(TimerFires)
    /\ WF_vars(RetryFires)
    /\ WF_vars(Handles)
    /\ WF_vars(Answers)

SafetySpec == Init /\ [][Next]_vars

Spec == SafetySpec /\ Fairness

-----------------------------------------------------------------------------
(* Properties                                                               *)

TypeOK ==
    /\ doc \in [Notebooks -> Version]
    /\ disk \in [Notebooks -> Version]
    /\ active \in Notebooks
    /\ hook \in Hook
    /\ wire \subseteq Request
    /\ clock \in Version
    /\ edits \in 0 .. 2
    /\ stale \subseteq Notebooks

\* Nothing is going to run a save: no timer, no retry, no answer expected.
AtRest == ~hook.timer /\ ~hook.retry /\ ~hook.inFlight

Unsaved == doc[active] # disk[active]

\* The pipeline never comes to rest with work of the active notebook missing
\* from the server unless the badge shows the error: no interleaving of
\* typing, structural saves, timers, answers and failures drops the save that
\* is owed (performSave, its finally block and the debounce effect).  The
\* first edit after the hook takes a notebook up, and a file that an
\* abandoned request overwrote, are outside it.
NoSilentlyUnsavedWork ==
    edits = 2 /\ AtRest /\ Unsaved /\ active \notin stale => hook.status = "error"

\* When beforeunload lets the page close without a question, the server has
\* the active notebook as it stands on the screen.
SilentCloseIsSafe ==
    edits = 2 /\ ~Prompts /\ active \notin stale => ~Unsaved

\* One save at a time: a request is awaited exactly when inFlight is set, and
\* never two, so no two answers compete for lastSerialized.
OneSaveAtATime ==
    /\ hook.inFlight <=> Live # {}
    /\ \A r, s \in Live : r = s

\* The file of a notebook never goes back to an older version, whatever the
\* order of timers and answers, except by a request the client had given up.
ServerNeverRegresses ==
    [][\A n \in Notebooks : disk'[n] < disk[n] => n \in stale']_<<disk, stale>>

\* Work is saved in the end: an active notebook that is ahead of its file
\* gets there, or the badge shows the error, or the user leaves it.
WorkIsSavedEventually ==
    edits = 2 /\ Unsaved ~> edits < 2 \/ ~Unsaved \/ hook.status = "error" \/ active \in stale

\* The badge does not say "saved" while the server has another text than the
\* screen and nothing is left to run.  It holds as long as the user never
\* types a recorded text back.
SavedMeansSaved ==
    edits = 2 /\ AtRest /\ hook.status = "saved" /\ active \notin stale => ~Unsaved

\* What the comments of the hook promise of the first edit: the pipeline does
\* not come to rest with an edit missing from the server, without the error.
FirstEditIsSaved ==
    edits > 0 /\ AtRest /\ Unsaved /\ active \notin stale => hook.status = "error"
=============================================================================
