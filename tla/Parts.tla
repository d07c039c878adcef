-------------------------------- MODULE Parts --------------------------------
(***************************************************************************)
(* The parts of the application that share no state with one another, each *)
(* a specification of its own: a behaviour is one of one part, chosen at   *)
(* the start, while the others rest in their initial state.                *)
(***************************************************************************)
EXTENDS Naturals, Sequences, FiniteSets

CONSTANTS
    Notebooks, OnServer, Cells, Slots, MaxSent, MaxEdits, Absent,  \* Workspace
    Connections, Calls, MaxCalls, MaxTyped, Nil,            \* Connections
    MaxAsks,                                                \* Chat
    Books, Titles, Knowledges, MaxCreates, MaxRenames, Nobody,  \* Binding
    Samples, Listers, MaxOwn, MaxLists,                     \* Seeding
    Reqs, Seeds, Bases, MaxSuffix, Truncated, Garbled,      \* Stores
    Refused, None, MaxActive, MaxCrashes,
    Results, Parse, Dates, NaN, ChartTypes, Aggregations, Captions,   \* Charts
    IdRows, LowCategory, MidCategory, DonutMost, HistogramMost, PageSize, NoChart,
    Sites, Lists, MaxTables, MaxHydrated, Concurrency, MaxRefusals, Unlisted,  \* Metadata
    Admins, Keys, Plain, MaxSaves, MaxTouch, Empty,         \* AISettings
    MaxThings, MaxChanges, Unknown,                         \* Listings
    MaxSignings, Stay                                       \* SignIn

VARIABLES
    part,
    tabs, active, book, file, head, versions, flight, edits, sent, used,
    crossed, tangled, deleted, lost,
    saved, current, conn, shown, view, drafts, calls, typed, called, drifted, unsure,
    place, thread, oneShot, reply, onScreen, asking, asked, overlapped,
    front, title, had, renames, name, listing, reading, snapshot, bound, making, misled,
    own, present, written, marker, lister, todo, owns, lists, declined, rushed,
    store, disk, pages, req, crashes, expect, mixed, raced,
    result, config, mode, page, canvas, picked,
    site, cache, fetching, errors, toggled, search, refusals,
    stored, seen, put, saves, chosen, together,
    what, made, gone, fetched, open, changes, slip, selected, previews,
    house, accounts, cookie, status, where, going, signing, dropped

Tabs == INSTANCE Workspace
Saved == INSTANCE Connections
Talk == INSTANCE Chat
Bound == INSTANCE Binding
Sown == INSTANCE Seeding
Files == INSTANCE Stores
Drawn == INSTANCE Charts
Found == INSTANCE Metadata
Chosen == INSTANCE AISettings
Listed == INSTANCE Listings
Signed == INSTANCE SignIn

ASSUME PartsAssumption ==
    /\ Tabs!WorkspaceConstants /\ Saved!ConnectionsConstants /\ Talk!ChatConstants
    /\ Bound!BindingConstants /\ Sown!SeedingConstants /\ Files!StoresConstants
    /\ Drawn!ChartsConstants /\ Found!MetadataConstants /\ Chosen!SettingsConstants
    /\ Listed!ListingsConstants /\ Signed!SignInConstants

tabsVars == <<tabs, active, book, file, head, versions, flight, edits, sent, used,
              crossed, tangled, deleted, lost>>
savedVars == <<saved, current, conn, shown, view, drafts, calls, typed, called, drifted, unsure>>
talkVars == <<place, thread, oneShot, reply, onScreen, asking, asked, overlapped>>
boundVars == <<front, title, had, renames, name, listing, reading, snapshot, bound, making, misled>>
sownVars == <<own, present, written, marker, lister, todo, owns, lists, declined, rushed>>
filesVars == <<store, disk, pages, req, crashes, expect, mixed, raced>>
drawnVars == <<result, config, mode, page, canvas, picked>>
foundVars == <<site, cache, fetching, errors, toggled, search, refusals>>
chosenVars == <<stored, seen, put, saves, chosen, together>>
listedVars == <<what, made, gone, fetched, open, changes, slip, selected, previews>>
signedVars == <<house, accounts, cookie, status, where, going, signing, dropped>>
partsVars == <<part, tabsVars, savedVars, talkVars, boundVars, sownVars, filesVars, drawnVars,
               foundVars, chosenVars, listedVars, signedVars>>

\* A part that rests has one initial state.  New notebooks are alike, so it does
\* not matter which is the first.
Resting ==
    /\ active = CHOOSE n \in Notebooks \ OnServer : Cells[n] = n
    /\ part # "talk" => place = "cell" /\ ~oneShot
    /\ part # "files" => store = "published"
    /\ part # "bound" => /\ front = CHOOSE n \in Books : TRUE
                         /\ title = [n \in Books |-> CHOOSE t \in Titles : TRUE]
    /\ part # "found" => site = CHOOSE s \in Sites : TRUE
    /\ part # "listed" => what = "links"
    /\ part # "signed" => /\ house = [auth |-> FALSE, signup |-> FALSE]
                          /\ accounts = {} /\ cookie = "none" /\ where = "home"

Init ==
    /\ part \in {"tabs", "saved", "talk", "bound", "sown", "files", "drawn",
                "found", "chosen", "listed", "signed"}
    /\ Tabs!Init /\ Saved!Init /\ Talk!Init /\ Bound!Init /\ Sown!Init /\ Files!Init
    /\ Drawn!Init /\ Found!Init /\ Chosen!Init /\ Listed!Init /\ Signed!Init
    /\ Resting

TabsStep ==
    /\ part = "tabs" /\ Tabs!Next
    /\ UNCHANGED <<part, savedVars, talkVars, boundVars, sownVars, filesVars,
                   drawnVars, foundVars, chosenVars, listedVars, signedVars>>

SavedStep ==
    /\ part = "saved" /\ Saved!Next
    /\ UNCHANGED <<part, tabsVars, talkVars, boundVars, sownVars, filesVars,
                   drawnVars, foundVars, chosenVars, listedVars, signedVars>>

TalkStep ==
    /\ part = "talk" /\ Talk!Next
    /\ UNCHANGED <<part, tabsVars, savedVars, boundVars, sownVars, filesVars,
                   drawnVars, foundVars, chosenVars, listedVars, signedVars>>

BoundStep ==
    /\ part = "bound" /\ Bound!Next
    /\ UNCHANGED <<part, tabsVars, savedVars, talkVars, sownVars, filesVars,
                   drawnVars, foundVars, chosenVars, listedVars, signedVars>>

SownStep ==
    /\ part = "sown" /\ Sown!Next
    /\ UNCHANGED <<part, tabsVars, savedVars, talkVars, boundVars, filesVars,
                   drawnVars, foundVars, chosenVars, listedVars, signedVars>>

FilesStep ==
    /\ part = "files" /\ Files!Next
    /\ UNCHANGED <<part, tabsVars, savedVars, talkVars, boundVars, sownVars,
                   drawnVars, foundVars, chosenVars, listedVars, signedVars>>

DrawnStep ==
    /\ part = "drawn" /\ Drawn!Next
    /\ UNCHANGED <<part, tabsVars, savedVars, talkVars, boundVars, sownVars,
                   filesVars, foundVars, chosenVars, listedVars, signedVars>>

FoundStep ==
    /\ part = "found" /\ Found!Next
    /\ UNCHANGED <<part, tabsVars, savedVars, talkVars, boundVars, sownVars,
                   filesVars, drawnVars, chosenVars, listedVars, signedVars>>

ChosenStep ==
    /\ part = "chosen" /\ Chosen!Next
    /\ UNCHANGED <<part, tabsVars, savedVars, talkVars, boundVars, sownVars,
                   filesVars, drawnVars, foundVars, listedVars, signedVars>>

ListedStep ==
    /\ part = "listed" /\ Listed!Next
    /\ UNCHANGED <<part, tabsVars, savedVars, talkVars, boundVars, sownVars,
                   filesVars, drawnVars, foundVars, chosenVars, signedVars>>

SignedStep ==
    /\ part = "signed" /\ Signed!Next
    /\ UNCHANGED <<part, tabsVars, savedVars, talkVars, boundVars, sownVars,
                   filesVars, drawnVars, foundVars, chosenVars, listedVars>>

Next ==
    \/ TabsStep \/ SavedStep \/ TalkStep \/ BoundStep \/ SownStep \/ FilesStep
    \/ DrawnStep \/ FoundStep \/ ChosenStep \/ ListedStep \/ SignedStep

Spec == Init /\ [][Next]_partsVars

---------------------------------------------------------------------------
(* The properties of the parts.  A part that rests is in a state in which  *)
(* it may start.                                                           *)

\* Each part keeps to its types.
TypeOK ==
    /\ part = "tabs" => Tabs!TypeOK
    /\ part = "saved" => Saved!TypeOK
    /\ part = "talk" => Talk!TypeOK
    /\ part = "bound" => Bound!TypeOK
    /\ part = "sown" => Sown!TypeOK
    /\ part = "files" => Files!TypeOK
    /\ part = "drawn" => Drawn!TypeOK
    /\ part = "found" => Found!TypeOK
    /\ part = "chosen" => Chosen!TypeOK
    /\ part = "listed" => Listed!TypeOK
    /\ part = "signed" => Signed!TypeOK

\* Answers of the sidebar, of autosave and of Optimize take typed text away in
\* the ways that Workspace names, and in no other.
OnlyKnownLosses == part = "tabs" => Tabs!OnlyKnownLosses

\* A notebook whose deletion was answered does not come back, unless another
\* request about it was under way beside the deletion.
DeletedStaysDeleted == part = "tabs" => Tabs!DeletedStaysDeleted

\* Queries run with what is saved under the name shown as active, unless its
\* requests have crossed (unsure) or an answer has met another form (drifted).
ActiveIsSaved == part = "saved" => Saved!ActiveIsSaved

\* Questions and answers of a conversation stay together, when neither a
\* question beside a pending one nor an imported copy comes between.
QuestionsKeepTheirPlace == part = "talk" => Talk!QuestionsKeepTheirPlace

\* A notebook is answered from a knowledge notebook named after a title of its,
\* unless a create for another notebook has bound it unchecked.
AnsweredUnderItsName == part = "bound" => Bound!AnsweredUnderItsName

\* Samples are seeded once, by listings that do not overlap.
SamplesComeOnce == part = "sown" => Sown!SamplesComeOnce

\* A store of the server holds what its answered changes make of it, while they
\* do not overlap.
HoldsWhatWasApplied == part = "files" => Files!HoldsWhatWasApplied

\* A revoked page is not served.
UnpublishIsFinal == part = "files" => Files!UnpublishIsFinal

\* What a store lists has its page or data file.
RecordsHaveTheirFile == part = "files" => Files!RecordsHaveTheirFile

\* Uploads do not share a table name, unless a rename chose beside another request.
TableNamesDistinct == part = "files" => Files!TableNamesDistinct

\* A chart accounts for the result it is drawn of.
ChartAddsUp == part = "drawn" => Drawn!ChartAddsUp

\* The tables sent with a question are those of its connection, none is sent
\* twice, and none left out but after a failure.
ContextIsRight == part = "found" => Found!ContextIsOwn /\ Found!ContextIsComplete

\* A choice of an administrator is replaced only by another choice, while saves
\* do not overlap.
ChoicesStand == part = "chosen" => Chosen!ChoicesStand

\* What a page lists is what the server has, once nothing is under way and unless
\* the cache has missed a change; what is shown only once is not replaced before
\* it is put away.
ListingsAreRight == part = "listed" => Listed!ListIsCurrent /\ Listed!SecretsAreShown

\* Signed in or out, the window settles on a page that is the user's to see,
\* unless its status has missed a change or a redirect was dropped.
SettledIsRight == part = "signed" => Signed!SettledIsRight

=============================================================================
