------------------------------ MODULE Seeding ------------------------------
(***************************************************************************)
(* The bundled samples (notebook/seed.py): every listing of a user's       *)
(* notebooks (server/routers/notebooks.py) first looks whether the         *)
(* directory is fresh, and fills it.  Listings run on threads of the       *)
(* server beside the saves and deletions of NotebookServer, which are      *)
(* single steps here.                                                      *)
(***************************************************************************)
EXTENDS Naturals, FiniteSets

CONSTANTS
    Samples,   \* the bundled notebooks
    Listers,   \* threads that list
    MaxOwn,    \* bound on the notebooks the user makes
    MaxLists   \* bound on the listings

\* What the constants are assumed to be.
SeedingConstants == Samples # {} /\ MaxOwn \in Nat /\ MaxLists \in Nat

VARIABLES
    own,        \* notebooks of the user's own in the directory
    present,    \* present[s]: files written from s that are still there
    written,    \* history: written[s]: files ever written from s
    marker,     \* .seeded exists
    lister,     \* lister[t]: "idle", "marker", "glob", "write" or "touch"
    todo,       \* todo[t]: the samples t has yet to write
    owns, lists, \* the number of notebooks made, and of listings, so far
    declined,   \* history: a listing found work of the user's before any sample came
    rushed      \* history: listings overlapped; a crash or a failed touch left no marker

seedingVars == <<own, present, written, marker, lister, todo, owns, lists, declined, rushed>>

Seeders == {t \in Listers : lister[t] # "idle"}
Fresh == own = 0 /\ \A s \in Samples : present[s] = 0

Init ==
    /\ own = 0 /\ present = [s \in Samples |-> 0] /\ written = present
    /\ marker = FALSE
    /\ lister = [t \in Listers |-> "idle"] /\ todo = [t \in Listers |-> {}]
    /\ owns = 0 /\ lists = 0 /\ declined = FALSE /\ rushed = {}

Files == <<own, present, written, owns>>

\* list_notebooks.
BeginList(t) ==
    /\ lister[t] = "idle" /\ lists < MaxLists
    /\ lists' = lists + 1
    /\ lister' = [lister EXCEPT ![t] = "marker"]
    /\ rushed' = IF Seeders = {} THEN rushed ELSE rushed \cup {"overlap"}
    /\ UNCHANGED <<Files, marker, todo, declined>>

Goes(t, pc, rest) == lister' = [lister EXCEPT ![t] = pc] /\ todo' = [todo EXCEPT ![t] = rest]

LookForMarker(t) ==
    /\ lister[t] = "marker"
    /\ Goes(t, IF marker THEN "idle" ELSE "glob", {})
    /\ UNCHANGED <<Files, marker, lists, declined, rushed>>

\* Faulty: a directory in use is left without a marker.
SkipsQuietly == "idle"

\* What follows when there are notebooks already: only the marker is set.
WhenInUse == "touch"

LookForNotebooks(t) ==
    /\ lister[t] = "glob"
    /\ IF Fresh THEN Goes(t, "write", Samples) ELSE Goes(t, WhenInUse, {})
    /\ declined' = (declined \/ (~Fresh /\ \A s \in Samples : written[s] = 0))
    /\ UNCHANGED <<Files, marker, lists, rushed>>

\* One sample, under a fresh id; one that cannot be written is skipped.
WriteSample(t) ==
    /\ lister[t] = "write"
    /\ \E s \in todo[t] :
        /\ Goes(t, IF todo[t] = {s} THEN "touch" ELSE "write", todo[t] \ {s})
        /\ \/ present' = [present EXCEPT ![s] = @ + 1] /\ written' = [written EXCEPT ![s] = @ + 1]
           \/ UNCHANGED <<present, written>>
    /\ UNCHANGED <<own, owns, marker, lists, rushed, declined>>

\* touch, whose failure is ignored.
TouchMarker(t) ==
    /\ lister[t] = "touch"
    /\ Goes(t, "idle", {})
    /\ \/ marker' = TRUE /\ UNCHANGED rushed
       \/ rushed' = rushed \cup {"no marker"} /\ UNCHANGED marker
    /\ UNCHANGED <<Files, lists, declined>>

\* The user makes or deletes a notebook.
MakeOwn ==
    /\ owns < MaxOwn
    /\ owns' = owns + 1 /\ own' = own + 1
    /\ UNCHANGED <<present, written, marker, lister, todo, lists, declined, rushed>>

Discard ==
    /\ \/ own > 0 /\ own' = own - 1 /\ UNCHANGED present
       \/ \E s \in Samples :
            present[s] > 0 /\ present' = [present EXCEPT ![s] = @ - 1] /\ UNCHANGED own
    /\ UNCHANGED <<written, owns, marker, lister, todo, lists, rushed, declined>>

Crash ==
    /\ Seeders # {}
    /\ lister' = [t \in Listers |-> "idle"] /\ todo' = [t \in Listers |-> {}]
    /\ rushed' = rushed \cup {"no marker"}
    /\ UNCHANGED <<Files, marker, lists, declined>>

Next ==
    \/ MakeOwn \/ Discard \/ Crash
    \/ \E t \in Listers :
        BeginList(t) \/ LookForMarker(t) \/ LookForNotebooks(t) \/ WriteSample(t) \/ TouchMarker(t)

Spec == Init /\ [][Next]_seedingVars

---------------------------------------------------------------------------
TypeOK ==
    /\ own \in 0 .. MaxOwn
    /\ \A s \in Samples : present[s] \in 0 .. MaxLists /\ written[s] \in present[s] .. MaxLists
    /\ marker \in BOOLEAN /\ rushed \subseteq {"overlap", "no marker"}
    /\ \A t \in Listers : todo[t] \subseteq Samples /\ (todo[t] # {} => lister[t] = "write")

\* A sample comes once: not again after the user has deleted it, and never to
\* a user who had notebooks when they were first listed, whatever was made and
\* deleted since.  Two first listings at once each bring their own, and a crash
\* or a failed touch leaves no marker, so that an emptied directory is filled.
SamplesComeOnce ==
    rushed = {} => \A s \in Samples : written[s] <= IF declined THEN 0 ELSE 1

=============================================================================
