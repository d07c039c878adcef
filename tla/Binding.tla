------------------------------- MODULE Binding -------------------------------
(***************************************************************************)
(* The knowledge notebook that belongs to a SQL notebook: the hook that    *)
(* finds or creates it (hooks/use-notebook-knowledge.ts) and the bindings  *)
(* it keeps in the browser (store/knowledge-store.ts).  The hook renders   *)
(* after each change of what it reads, so every action below ends with     *)
(* Rendered, and the id it resolves to is the binding that leaves.         *)
(***************************************************************************)
EXTENDS Naturals, Sequences, FiniteSets

CONSTANTS
    Books,       \* SQL notebooks
    Titles,      \* the titles users give them, the empty one perhaps among them
    Knowledges,  \* ids of knowledge notebooks
    MaxCreates,  \* bound on the creates asked for
    MaxRenames,  \* bound on the changes of a title
    Nobody       \* no id, no list, no name

\* The name a create gives: the title of the notebook, or "Untitled".
Called(t) == IF t = "" THEN "Untitled" ELSE t

Names == {Called(t) : t \in Titles}

\* What the constants are assumed to be.
BindingConstants ==
    /\ Titles \subseteq STRING /\ {MaxCreates, MaxRenames} \subseteq Nat
    /\ Nobody \notin Books \cup Knowledges \cup Names
    /\ \A l \in SUBSET Knowledges : l # Nobody

Creates == 1 .. MaxCreates

VARIABLES
    front,    \* the notebook the drawer shows
    title,    \* title[n]: the title of n
    had,      \* history: had[n]: the titles n has had
    renames,  \* the number of changes of a title so far
    name,     \* name[k]: the name of the server's knowledge notebook k
    listing,  \* list.data: the ids the browser has been told of
    reading,  \* a list request: "none", "asked", "read"
    snapshot, \* what that request has read
    bound,    \* the bindings of the browser
    making,   \* making[i]: the i-th create, if it was asked for, and what it is waiting for
    misled    \* history: pairs of a notebook and the knowledge notebook that a
              \* create for another one has bound it to, with no list to object

bindingVars == <<front, title, had, renames, name, listing, reading, snapshot, bound, making, misled>>

NoCreate == [pc |-> "unasked", by |-> Nobody, called |-> Nobody, id |-> Nobody, binds |-> Nobody]

OnDisk == {k \in Knowledges : name[k] # Nobody}

\* The names that a notebook with the title t takes for its own.
FoundAs(t) == {t, "kb: " \o t}

Init ==
    /\ front \in Books
    /\ title \in [Books -> Titles] /\ had = [n \in Books |-> {title[n]}] /\ renames = 0
    /\ name = [k \in Knowledges |-> Nobody]
    /\ listing = Nobody /\ reading = "asked" /\ snapshot = {}
    /\ bound = [n \in Books |-> Nobody]
    /\ making = [i \in Creates |-> NoCreate]
    /\ misled = {}

Named == <<title, had, renames>>
ListState == <<listing, reading, snapshot>>

\* Faulty: a binding that the list does not have is kept.
TrustsBinding(k, list) == k # Nobody

\* Without a list a binding cannot be checked.
KeepsBinding(k, list) == k # Nobody /\ (list # Nobody => k \in list)

\* The knowledge notebooks for the title t; the first of them is taken, in the
\* order of their ids, which are arbitrary.
SameName(t, list) == IF list = Nobody THEN {} ELSE {k \in list : name[k] \in FoundAs(t)}

\* resolvedId, for n with the title t, when the bindings are b and the list is
\* known as list.
Rendered(n, t, b, list) ==
    \/ KeepsBinding(b[n], list) /\ bound' = b
    \/ /\ ~KeepsBinding(b[n], list) /\ SameName(t, list) = {}
       /\ bound' = [b EXCEPT ![n] = Nobody]
    \/ /\ ~KeepsBinding(b[n], list)
       /\ \E k \in SameName(t, list) : bound' = [b EXCEPT ![n] = k]

\* Another tab becomes active.
Turn(n) ==
    /\ n # front
    /\ front' = n
    /\ Rendered(n, title[n], bound, listing)
    /\ UNCHANGED <<Named, name, ListState, making, misled>>

\* setTitle, with every character typed.  The binding goes by the id.
Rename(t) ==
    /\ t # title[front] /\ renames < MaxRenames
    /\ renames' = renames + 1
    /\ title' = [title EXCEPT ![front] = t]
    /\ had' = [had EXCEPT ![front] = @ \cup {t}]
    /\ Rendered(front, t, bound, listing)
    /\ UNCHANGED <<front, name, ListState, making, misled>>

\* A create follows the renders of the hook that asked for it, until that asks
\* for another one or is unmounted: from then on its handler is that of the
\* last render, which binds the notebook shown then.
Left(i) == IF making[i].binds = Nobody /\ making[i].pc \in {"asked", "made"}
           THEN [making[i] EXCEPT !.binds = front] ELSE making[i]

\* ensure, for Sync, Ask or Generate infographic: with a binding there is
\* nothing to do but to return it.
Ensure ==
    /\ bound[front] = Nobody
    /\ \E i \in Creates :
        /\ making[i].pc = "unasked" /\ \A j \in 1 .. i - 1 : making[j].pc # "unasked"
        /\ making' = [j \in Creates |->
                IF j = i THEN [pc |-> "asked", by |-> front, called |-> Called(title[front]),
                               id |-> Nobody, binds |-> Nobody]
                ELSE Left(j)]
    /\ UNCHANGED <<front, Named, name, ListState, bound, misled>>

\* The page is left for one of the administrator's, and come back to.
Remount ==
    /\ making' = [i \in Creates |-> Left(i)]
    /\ UNCHANGED <<front, Named, name, ListState, bound, misled>>

Ended(i) == making' = [making EXCEPT ![i] = [NoCreate EXCEPT !.pc = "over"]]

\* The id of the next knowledge notebook: any that is new will do.
NewId == CHOOSE k \in Knowledges \ OnDisk : TRUE

\* The server makes a knowledge notebook, be it for nobody who awaits it.
MakeOnServer(i) ==
    /\ making[i].pc \in {"asked", "orphan"}
    /\ Knowledges # OnDisk
    /\ name' = [name EXCEPT ![NewId] = making[i].called]
    /\ IF making[i].pc = "orphan" THEN Ended(i)
       ELSE making' = [making EXCEPT ![i].pc = "made", ![i].id = NewId]
    /\ UNCHANGED <<front, Named, ListState, bound, misled>>

\* create.onSuccess binds the notebook of its render and has the list fetched
\* again; the hook renders with the old one.  The caller of ensure goes on with
\* the new id, for the notebook it was called for.
Made(i) ==
    LET c == making[i]
        n == IF c.binds = Nobody THEN front ELSE c.binds
        objects == n = front /\ listing # Nobody /\ c.id \notin listing
    IN  /\ c.pc = "made"
        /\ Ended(i)
        /\ Rendered(front, title[front], [bound EXCEPT ![n] = c.id], listing)
        /\ misled' = IF n # c.by /\ ~objects THEN misled \cup {<<n, c.id>>} ELSE misled
        /\ reading' = "asked" /\ snapshot' = {}
        /\ UNCHANGED <<front, Named, name, listing>>

\* The request or its answer is lost, or the request is late.
MakeFails(i) ==
    /\ \/ making[i].pc \in {"asked", "made", "orphan"} /\ Ended(i)
       \/ making[i].pc = "asked" /\ making' = [making EXCEPT ![i].pc = "orphan"]
    /\ UNCHANGED <<front, Named, name, ListState, bound, misled>>

ReadList ==
    /\ reading = "asked"
    /\ reading' = "read" /\ snapshot' = OnDisk
    /\ UNCHANGED <<front, Named, name, listing, bound, making, misled>>

Listed ==
    /\ reading = "read"
    /\ reading' = "none" /\ snapshot' = {} /\ listing' = snapshot
    /\ Rendered(front, title[front], bound, snapshot)
    /\ UNCHANGED <<front, Named, name, making, misled>>

ListFails ==
    /\ reading # "none"
    /\ reading' = "none" /\ snapshot' = {}
    /\ UNCHANGED <<front, Named, name, listing, bound, making, misled>>

\* The list is stale when the page is come back to, or the browser is online again.
Refetch ==
    /\ reading = "none"
    /\ reading' = "asked"
    /\ UNCHANGED <<front, Named, name, listing, snapshot, bound, making, misled>>

Next ==
    \/ Ensure \/ Remount \/ ReadList \/ Listed \/ ListFails \/ Refetch
    \/ \E n \in Books : Turn(n)
    \/ \E t \in Titles : Rename(t)
    \/ \E i \in Creates : MakeOnServer(i) \/ Made(i) \/ MakeFails(i)

Spec == Init /\ [][Next]_bindingVars

---------------------------------------------------------------------------
TypeOK ==
    /\ front \in Books
    /\ \A k \in Knowledges : name[k] \in Names \cup {Nobody}
    /\ listing = Nobody \/ listing \subseteq OnDisk
    /\ snapshot \subseteq OnDisk
    /\ bound \in [Books -> OnDisk \cup {Nobody}]
    /\ \A n \in Books : title[n] \in had[n]
    /\ \A i \in Creates : making[i].pc = "made" => making[i].id \in OnDisk

\* What answers n now: the knowledge notebook that it is bound to, and one whose
\* create it is waiting for.
Answering(n) ==
    ({bound[n]} \cup {making[i].id : i \in {j \in Creates : making[j].by = n /\ making[j].pc = "made"}}) \ {Nobody}

\* What a notebook asks is answered from a knowledge notebook named after a title
\* that the notebook has or has had, however tabs are switched, titles edited and
\* creates superseded or orphaned: an answer may bind another notebook than the
\* one that asked, but the list, not knowing the new id yet, has that binding
\* cleared at once.  Not so (misled) when there is no list yet, when it was
\* fetched between the create and its answer, or when the notebook so bound is
\* not the one shown.  A notebook that is renamed keeps the knowledge notebook
\* of its old title, and shares it with one that takes that title.
AnsweredUnderItsName ==
    \A n \in Books : \A k \in Answering(n) :
        <<n, k>> \in misled \/ \E t \in had[n] : name[k] \in FoundAs(t) \cup {Called(t)}

=============================================================================
