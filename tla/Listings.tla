------------------------------ MODULE Listings ------------------------------
(***************************************************************************)
(* What a user has had made, and the page that lists it: the share links   *)
(* of a notebook (topbar/publish-dialog.tsx), its versions                 *)
(* (topbar/notebook-history-dialog.tsx), the API tokens                    *)
(* (settings/tokens/page.tsx), the invites (settings/admin/users/page.tsx) *)
(* and the uploaded files (sidebar/files-section.tsx).  Each is a list in  *)
(* the query cache, requests that change what the server has, and handlers *)
(* that have the list fetched again.                                       *)
(*                                                                         *)
(* What is listed is numbered in the order it was made.  The endpoints of  *)
(* the server are single steps here: Stores, Accounts and NotebookServer   *)
(* have theirs.                                                            *)
(***************************************************************************)
EXTENDS Naturals, FiniteSets, CachedQuery

CONSTANTS
    MaxThings,   \* bound on what is made
    MaxChanges   \* bound on the requests under way

VARIABLES
    what,      \* the page: "links", "versions", "tokens", "invites" or "uploads"
    made,      \* the server has made 1 .. made of them,
    gone,      \* of which these are revoked, accepted or deleted
    fetched,   \* the query of the list
    open,      \* the dialog is open, the page mounted
    changes,   \* the requests under way that change what the server has
    slip,      \* what the dialog over the page shows in full, this once; 0: closed
    selected,  \* the version selected, or 0
    previews   \* the versions whose preview is there, or its error

listingsVars == <<what, made, gone, fetched, open, changes, slip, selected, previews>>

Things == 1 .. MaxThings
Server == [made |-> made, gone |-> gone]

\* What the constants are assumed to be.
ListingsConstants ==
    /\ {MaxThings, MaxChanges} \subseteq Nat
    /\ \A n \in 0 .. MaxThings, g \in SUBSET Things : Unknown # [made |-> n, gone |-> g]

Init ==
    /\ what \in {"links", "versions", "tokens", "invites", "uploads"}
    /\ made = 0 /\ gone = {}
    /\ fetched = NoQuery /\ open = FALSE
    /\ changes = {} /\ slip = 0 /\ selected = 0 /\ previews = {}

---------------------------------------------------------------------------
(* The list and the page.                                                  *)

\* The dialogs ask for their list whenever they are opened; the pages take one
\* of the last 30 seconds as it is.
InDialog == what \in {"links", "versions"}

\* The newest version is selected as soon as there is one, unless one is.
SelectedAfter(data) ==
    IF what = "versions" /\ selected = 0 /\ data # Unknown THEN data.made ELSE selected

Open == \E old \in BOOLEAN :
    /\ ~open
    /\ open' = TRUE
    /\ fetched' = Mounted(fetched, old \/ InDialog)
    /\ selected' = SelectedAfter(fetched.data)
    /\ UNCHANGED <<what, made, gone, changes, slip, previews>>

\* The requests of a page that is left are answered to nobody; a dialog stays
\* where it is, closed.
Kept == IF InDialog THEN changes ELSE {[q EXCEPT !.here = FALSE] : q \in changes}

Close ==
    /\ open
    /\ open' = FALSE /\ slip' = 0 /\ selected' = 0
    /\ changes' = Kept
    /\ UNCHANGED <<what, made, gone, fetched, previews>>

\* The browser loads the application anew.  What the server has not seen yet
\* of its requests, it may see.
Reload ==
    /\ changes' = {[q EXCEPT !.pc = "orphan", !.here = FALSE] : q \in {r \in changes : r.pc # "served"}}
    /\ fetched' = NoQuery /\ open' = FALSE /\ slip' = 0 /\ selected' = 0 /\ previews' = {}
    /\ UNCHANGED <<what, made, gone>>

ServerReads ==
    /\ fetched.phase = "asked"
    /\ fetched' = ReadAs(fetched, Server, Server)
    /\ UNCHANGED <<what, made, gone, open, changes, slip, selected, previews>>

ListArrives ==
    /\ fetched.phase = "read"
    /\ fetched' = Arrived(fetched)
    /\ selected' = IF open THEN SelectedAfter(fetched.read) ELSE selected
    /\ UNCHANGED <<what, made, gone, open, changes, slip, previews>>

ListFails ==
    /\ fetched.phase # "idle"
    /\ fetched' \in Failures(fetched)
    /\ UNCHANGED <<what, made, gone, open, changes, slip, selected, previews>>

\* Revoked tokens and accepted invites stay on the page, with a badge.
StayListed == what \in {"versions", "tokens", "invites"}

\* What the page lists.
Rows ==
    IF fetched.data = Unknown THEN {}
    ELSE (1 .. fetched.data.made) \ IF StayListed THEN {} ELSE fetched.data.gone

\* A version is clicked, and its preview fetched, or not to be had.
Select(i) ==
    /\ what = "versions" /\ open /\ i \in Rows
    /\ selected' = i
    /\ UNCHANGED <<what, made, gone, fetched, open, changes, slip, previews>>

Preview ==
    /\ open /\ selected # 0
    /\ previews' = previews \cup {selected}
    /\ UNCHANGED <<what, made, gone, fetched, open, changes, slip, selected>>

\* "Done" of the dialog with the token, or the link of the invite.
PutAway ==
    /\ slip # 0
    /\ slip' = 0
    /\ UNCHANGED <<what, made, gone, fetched, open, changes, selected, previews>>

---------------------------------------------------------------------------
(* Requests leave.                                                         *)

Pending(kind) == \E q \in changes : q.kind = kind /\ q.here

Send(kind, i) ==
    /\ Cardinality(changes) < MaxChanges
    /\ changes' = changes \cup {[kind |-> kind, of |-> i, pc |-> "sent", here |-> TRUE]}
    /\ UNCHANGED <<what, made, gone, fetched, open, slip, selected, previews>>

\* "Publish current state", disabled while it is under way.
PublishNotebook == what = "links" /\ open /\ ~Pending("make") /\ Send("make", 0)

\* The bin of a link, disabled while one is being revoked.
RevokeLink(i) == what = "links" /\ open /\ i \in Rows /\ ~Pending("end") /\ Send("end", i)

\* "Mint", or Enter in its field, unless it is under way; what was minted last
\* covers the page until it is put away.
MintToken == what = "tokens" /\ open /\ slip = 0 /\ ~Pending("make") /\ Send("make", 0)

RevokeToken(i) ==
    what = "tokens" /\ open /\ slip = 0 /\ i \in Rows /\ i \notin fetched.data.gone /\ Send("end", i)

MintInvite == what = "invites" /\ open /\ slip = 0 /\ ~Pending("make") /\ Send("make", 0)

\* "Restore this version", there when the version selected is listed, disabled
\* while its preview is loading and while a restore is under way.
RestoreVersion ==
    what = "versions" /\ open /\ selected \in Rows \cap previews /\ ~Pending("make") /\ Send("make", 0)

\* A file is picked, several at a time, or dropped on the window, the sidebar
\* with its list being collapsed or not.
UploadFile(i) == what = "uploads" /\ Send("make", i)

DeleteUpload(i) == what = "uploads" /\ open /\ i \in Rows /\ Send("end", i)

---------------------------------------------------------------------------
(* The server.                                                             *)

Make == made < MaxThings /\ made' = made + 1 /\ UNCHANGED gone

\* Nothing is said against what is gone being ended again.
End(i) == i \in 1 .. made /\ gone' = gone \cup {i} /\ UNCHANGED made

\* A request is served; nobody is told that one of an earlier load was.
Serve(q) ==
    /\ q \in changes /\ q.pc # "served"
    /\ (q.kind = "make" /\ Make) \/ (q.kind = "end" /\ End(q.of))
    /\ changes' = (changes \ {q}) \cup
                    IF q.pc = "orphan" THEN {}
                    ELSE {[q EXCEPT !.pc = "served", !.of = IF q.kind = "make" THEN made' ELSE @]}
    /\ fetched' = IF q.pc = "orphan" THEN Behind(fetched) ELSE fetched
    /\ UNCHANGED <<what, open, slip, selected, previews>>

\* Another window does it; autosave makes a version, a registration takes an
\* invite.
Elsewhere ==
    /\ Make \/ (what # "versions" /\ \E i \in Things : End(i))
    /\ fetched' = Behind(fetched)
    /\ UNCHANGED <<what, open, changes, slip, selected, previews>>

---------------------------------------------------------------------------
(* Answers arrive.                                                         *)

Answered(q) ==
    /\ q \in changes /\ q.pc = "served"
    /\ changes' = changes \ {q}
    /\ UNCHANGED <<what, made, gone, previews>>

Refetch == fetched' = Invalidated(fetched, open)

\* publish.onSuccess and revoke.onSuccess of the dialog, which may be closed.
\* The list they have fetched again is that of the notebook shown by then; it is
\* taken to be the same notebook here.  One dialog is open at a time, over the
\* tabs, and fetches on opening, so another notebook's list is fetched for nothing
\* and its own before it is shown again.  (VersionRestored likewise.)
NotebookPublished(q) ==
    /\ what = "links" /\ q.kind = "make" /\ Answered(q)
    /\ Refetch
    /\ UNCHANGED <<open, slip, selected>>

LinkRevoked(q) ==
    /\ what = "links" /\ q.kind = "end" /\ Answered(q)
    /\ Refetch
    /\ UNCHANGED <<open, slip, selected>>

\* create.onSuccess: setCreated does nothing on a page that has been left.
TokenMinted(q) ==
    /\ what = "tokens" /\ q.kind = "make" /\ Answered(q)
    /\ slip' = IF q.here THEN q.of ELSE slip
    /\ Refetch
    /\ UNCHANGED <<open, selected>>

\* Faulty: the list is not fetched again.
TokenRevokedQuietly(q) ==
    /\ what = "tokens" /\ q.kind = "end" /\ Answered(q)
    /\ UNCHANGED <<fetched, open, slip, selected>>

TokenRevoked(q) ==
    /\ what = "tokens" /\ q.kind = "end" /\ Answered(q)
    /\ Refetch
    /\ UNCHANGED <<open, slip, selected>>

InviteMinted(q) ==
    /\ what = "invites" /\ q.kind = "make" /\ Answered(q)
    /\ slip' = IF q.here THEN q.of ELSE slip
    /\ Refetch
    /\ UNCHANGED <<open, selected>>

\* restore.onSuccess, once it has read what it shows (Workspace), closes the
\* dialog, which may have been closed and opened again since.
VersionRestored(q) ==
    /\ what = "versions" /\ Answered(q)
    /\ Refetch
    /\ open' = FALSE /\ selected' = 0
    /\ UNCHANGED slip

\* upload.onSuccess of the section and of the overlay, and remove.onSuccess.
FileUploaded(q) ==
    /\ what = "uploads" /\ q.kind = "make" /\ Answered(q)
    /\ Refetch
    /\ UNCHANGED <<open, slip, selected>>

UploadDeleted(q) ==
    /\ what = "uploads" /\ q.kind = "end" /\ Answered(q)
    /\ Refetch
    /\ UNCHANGED <<open, slip, selected>>

\* No answer, before or after the server has done it: only a message.
Unanswered(q) ==
    /\ q \in changes
    /\ changes' = changes \ {q}
    /\ fetched' = IF q.pc = "served" THEN Behind(fetched) ELSE fetched
    /\ UNCHANGED <<what, made, gone, open, slip, selected, previews>>

Next ==
    \/ Open \/ Close \/ Reload \/ ServerReads \/ ListArrives \/ ListFails
    \/ Preview \/ PutAway \/ Elsewhere
    \/ PublishNotebook \/ MintToken \/ MintInvite \/ RestoreVersion
    \/ \E i \in Things :
        Select(i) \/ RevokeLink(i) \/ RevokeToken(i) \/ UploadFile(i) \/ DeleteUpload(i)
    \/ \E q \in changes :
        \/ Serve(q) \/ NotebookPublished(q) \/ LinkRevoked(q) \/ TokenMinted(q) \/ TokenRevoked(q)
        \/ InviteMinted(q) \/ VersionRestored(q) \/ FileUploaded(q) \/ UploadDeleted(q)
        \/ Unanswered(q)

Spec == Init /\ [][Next]_listingsVars

---------------------------------------------------------------------------
Contents == [made : 0 .. MaxThings, gone : SUBSET Things]

Requests == [kind : {"make", "end"}, of : 0 .. MaxThings, pc : {"sent", "served", "orphan"},
             here : BOOLEAN]

\* Types.
TypeOK ==
    /\ what \in {"links", "versions", "tokens", "invites", "uploads"}
    /\ Server \in Contents
    /\ fetched \in CachedQueries(Contents) /\ open \in BOOLEAN
    /\ changes \subseteq Requests
    /\ slip \in 0 .. MaxThings /\ selected \in 0 .. MaxThings /\ previews \subseteq 0 .. MaxThings

\* When nothing is under way, what the page takes for current is what the
\* server has, whatever was made, revoked, left and come back to.  Except that
\* the cache has not been told: of a change whose answer was lost, of one made
\* elsewhere, or of one answered while the first list was still on its way.
ListIsCurrent ==
    Settled(fetched) /\ (\A q \in changes : q.pc # "served") => fetched.data = Server

\* A token, or the link of an invite, is shown this once: until it is put away
\* no answer is under way that would replace it.
SecretsAreShown == slip # 0 => ~Pending("make")

=============================================================================
