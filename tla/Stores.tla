------------------------------- MODULE Stores -------------------------------
(***************************************************************************)
(* The smaller stores of the server, each one JSON file of records:        *)
(*   published    notebook/publish_store.py, with one page per record      *)
(*   uploads      uploads/store.py, with one data file per record          *)
(*   connections  connectors/store.py                                      *)
(*   knowledge    knowledge/store.py, the sources of one notebook          *)
(*   runtime      admin/runtime_config.py, the fields of the AI settings   *)
(* and the endpoints that use them.  A behaviour is about one of them.     *)
(*                                                                         *)
(* All read the file, change a copy and write it back, under a lock of the *)
(* request's own store, which excludes nobody.  The first two write a      *)
(* temporary file, always the same, and rename it; the others write in     *)
(* place.  They differ in what an unreadable file means to them.           *)
(***************************************************************************)
EXTENDS Naturals, FiniteSets

CONSTANTS
    Reqs,        \* requests
    Seeds,       \* ids of the records a store starts with
    Bases,       \* table names asked for, configurations, values of settings
    MaxSuffix,   \* bound on the number that makes a table name unique
    Absent,      \* no file
    Truncated,   \* a file opened for writing and not written yet
    Garbled,     \* a file two writers have mixed up: not JSON
    Refused,     \* nothing to change
    None,
    MaxActive,   \* bound on the requests that run at once
    MaxCrashes   \* bound on the restarts of the server

StoreNames == {"published", "uploads", "connections", "knowledge", "runtime"}
Paths == {"main", "tmp", "bak"}
Ids == Reqs \cup Seeds
TableNames == [base : Bases, suffix : 1 .. MaxSuffix]
Values == TableNames \cup {None}
Record == [id : Ids, val : Values]
Unreadable == {Truncated, Garbled}

\* Names of the first records, no two the same.
Namings == {v \in [Seeds -> TableNames] : \A s, t \in Seeds : v[s] = v[t] => s = t}

\* What the constants are assumed to be.
StoresConstants ==
    /\ Reqs \cap Seeds = {} /\ None \notin Ids \cup Bases
    /\ Absent \notin {Truncated, Garbled, Refused}
    /\ Truncated # Garbled /\ Refused \notin {Truncated, Garbled}
    /\ Namings # {}
    /\ MaxSuffix \in Nat \ {0} /\ MaxActive \in Nat /\ MaxCrashes \in Nat

VARIABLES
    store,    \* the store this behaviour is about
    disk,     \* disk[p]: a set of records, Absent, or unreadable
    pages,    \* the ids whose page or data file exists
    req,      \* req[r]: the request r and how far it has come
    crashes,
    expect,   \* history: what the changes give when made one at a time
    mixed,    \* history: two changes have overlapped, or a crash hit a file in use
    raced     \* history: a rename chose its name while another request did

vars == <<store, disk, pages, req, crashes, expect, mixed, raced>>

Kinds == {"add", "remove", "set", "test", "view", "erase"}
Running == {"choose", "page", "get", "engine", "copy", "open", "write", "replace",
            "unlink", "find", "serve"}
Ended == {"ok", "failed", "lost"}

\* A request about the record i, as it begins.
Request(kind, i, v, pc, gone) ==
    [kind |-> kind, pc |-> pc, id |-> i, val |-> v, copy |-> {}, fd |-> "closed",
     again |-> FALSE, gone |-> gone]

Idle == Request("view", None, None, "idle", FALSE)

HasPages == store \in {"published", "uploads"}

\* Faulty: the manifest is written in place.
NothingRenames == FALSE

Renames == store \in {"published", "uploads"}

\* What the store makes of its file: the records, or Refused when it raises.
Parsed(content) ==
    IF content = Absent THEN (IF store = "knowledge" THEN Refused ELSE {})
    ELSE IF content \in Unreadable
         THEN (IF store \in {"connections", "knowledge"} THEN Refused ELSE {})
         ELSE content

\* publish_store.py moves a file it cannot parse out of the way; whoever has
\* it open goes on writing to it under its new name.
SetsAside == store = "published" /\ disk["main"] \in Unreadable

Follow(q, from, to) ==
    [q EXCEPT !.fd = IF q.fd = to THEN "gone" ELSE IF q.fd = from THEN to ELSE q.fd]

Moved(from, to) == [disk EXCEPT ![to] = disk[from], ![from] = Absent]

\* Request r reads the main file and stands at q afterwards.
Reading(r, q) ==
    IF SetsAside
    THEN /\ disk' = Moved("main", "bak")
         /\ req' = [s \in Reqs |-> IF s = r THEN q ELSE Follow(req[s], "main", "bak")]
    ELSE /\ req' = [req EXCEPT ![r] = q]
         /\ UNCHANGED disk

Main == Parsed(disk["main"])

---------------------------------------------------------------------------
(* The changes, as what is written over a copy c.                          *)
Add(c, i, v) == c \cup {[id |-> i, val |-> v]}

Remove(c, i) == IF \E e \in c : e.id = i THEN {e \in c : e.id # i} ELSE Refused

Update(c, i, v) ==
    IF \E e \in c : e.id = i
    THEN {IF e.id = i THEN [e EXCEPT !.val = v] ELSE e : e \in c} ELSE Refused

\* update_ai_config: a field is set, or cleared by None.
Merge(c, i, v) ==
    {e \in c : e.id # i} \cup (IF v = None THEN {} ELSE {[id |-> i, val |-> v]})

\* A test stores its time and outcome, which are left out.
Touch(c, i) == IF \E e \in c : e.id = i THEN c ELSE Refused

Changed(q, c) ==
    CASE q.kind = "add" -> Add(c, q.id, q.val)
      [] q.kind = "remove" -> Remove(c, q.id)
      [] q.kind = "set" /\ store = "runtime" -> Merge(c, q.id, q.val)
      [] q.kind = "set" /\ store # "runtime" -> Update(c, q.id, q.val)
      [] q.kind = "test" -> Touch(c, q.id)

\* The change takes effect: the file is replaced, or its text written.
Applied(q, c) == IF c = Absent \/ Changed(q, c) = Refused THEN c ELSE Changed(q, c)

---------------------------------------------------------------------------
\* The first records.
Seeded ==
    {[id |-> s, val |-> IF store \in {"published", "knowledge"} THEN None
                        ELSE (CHOOSE v \in Namings : TRUE)[s]] : s \in Seeds}

Init ==
    /\ store \in StoreNames
    /\ disk = [p \in Paths |-> IF p = "main" THEN Seeded ELSE Absent]
    /\ pages = IF HasPages THEN Seeds ELSE {}
    /\ req = [r \in Reqs |-> Idle]
    /\ crashes = 0
    /\ expect = disk["main"]
    /\ mixed = FALSE
    /\ raced = FALSE

Active == {r \in Reqs : req[r].pc \in Running}

\* The ids a client can know: of the first records, and of answered additions.
Known == Seeds \cup {r \in Reqs : req[r].kind = "add" /\ req[r].pc = "ok"}

Removed == {req[r].id : r \in {s \in Reqs : req[s].kind = "remove" /\ req[s].pc = "ok"}}

\* Faulty: uploads run on threads like the other requests.
NeverOnTheLoop(q) == FALSE

\* upload_file is a coroutine that never awaits: uploads run one after another.
OnTheLoop(q) == store = "uploads" /\ q.kind = "add"

\* Requests are alike until they arrive, so any one may be the next.
NextToArrive == CHOOSE r \in Reqs : req[r].pc = "idle"

Arrive(r, kind, i, v, pc) ==
    /\ req[r].pc = "idle" /\ r = NextToArrive
    /\ Cardinality(Active) < MaxActive
    /\ req' = [req EXCEPT ![r] = Request(kind, i, v, pc, i \in Removed)]
    /\ UNCHANGED <<store, disk, pages, crashes, expect, mixed, raced>>

Named(b) == [base |-> b, suffix |-> 1]

\* The POST of each store; a new record has the name of its request.
Create(r) ==
    /\ store # "runtime"
    /\ \E v \in IF store \in {"uploads", "connections"} THEN {Named(b) : b \in Bases} ELSE {None} :
        Arrive(r, "add", r, v, IF store = "uploads" THEN "choose"
                               ELSE IF store = "published" THEN "page" ELSE "copy")
    /\ store = "uploads" => \A s \in Active : ~OnTheLoop(req[s])

\* DELETE of a page, an upload, a connection or a source.
Delete(r) == \E i \in Known :
    /\ store # "runtime"
    /\ Arrive(r, "remove", i, None, "copy")

\* PATCH of an upload's name, PUT of a connection, PUT of the AI settings.
Edit(r) == \E i \in Known, b \in Bases \cup {None} :
    /\ store \in {"uploads", "connections", "runtime"}
    /\ b = None => store = "runtime"
    /\ Arrive(r, "set", i, IF b = None THEN None ELSE Named(b),
              IF store = "uploads" THEN "choose" ELSE "copy")

TestConnection(r) == \E i \in Known :
    /\ store = "connections"
    /\ Arrive(r, "test", i, None, "get")

ViewPublished(r) == \E i \in Known :
    /\ store = "published"
    /\ Arrive(r, "view", i, None, "find")

\* delete_notebook unlinks the whole file of a knowledge notebook.
Erase(r) ==
    /\ store = "knowledge"
    /\ Arrive(r, "erase", None, None, "unlink")

---------------------------------------------------------------------------
Rest == UNCHANGED <<store, crashes>>

Changing == {r \in Reqs : req[r].pc \in {"open", "write", "replace"}}

Choosing == {r \in Reqs : /\ store = "uploads" /\ req[r].kind \in {"add", "set"}
                          /\ req[r].pc \in {"page", "copy"} \cup {"open", "write", "replace"}}

\* _unique_table_name: the name if it is free, or the first of name_2, name_3, ...
Suffixes(i, v, c) ==
    {n \in 1 .. MaxSuffix : \A e \in c : e.id # i => e.val # [v EXCEPT !.suffix = n]}

ChooseName(r) ==
    /\ req[r].pc = "choose"
    /\ LET free == Suffixes(req[r].id, req[r].val, Main)
       IN  \E n \in free :
               /\ \A k \in free : n <= k
               /\ req' = [req EXCEPT ![r].val = [@ EXCEPT !.suffix = n],
                                     ![r].pc = IF req[r].kind = "add" THEN "page" ELSE "copy"]
    /\ raced' = (raced \/ \E s \in Choosing \ {r} : "set" \in {req[r].kind, req[s].kind})
    /\ UNCHANGED <<disk, pages, expect, mixed>> /\ Rest

\* Faulty: the error is swallowed with the clean-up.
BreaksOffQuietly == "copy"

BreaksOff == "failed"

\* The page or the data file is written before its record; an upload that
\* breaks off or is too large takes its file away again.
WritePage(r) ==
    /\ req[r].pc = "page"
    /\ \/ req' = [req EXCEPT ![r].pc = "copy"] /\ pages' = pages \cup {r}
       \/ store = "uploads" /\ req' = [req EXCEPT ![r].pc = BreaksOff] /\ UNCHANGED pages
    /\ UNCHANGED <<disk, expect, mixed, raced>> /\ Rest

\* test_connection reads the record and goes to the engine with it.
GetConnection(r) ==
    /\ req[r].pc = "get"
    /\ LET found == Main # Refused /\ \E e \in Main : e.id = req[r].id
       IN  req' = [req EXCEPT ![r].pc = IF found THEN "engine" ELSE "failed"]
    /\ UNCHANGED <<disk, pages, expect, mixed, raced>> /\ Rest

EngineAnswers(r) ==
    /\ req[r].pc = "engine"
    /\ \E again \in BOOLEAN : req' = [req EXCEPT ![r].pc = "copy", ![r].again = again]
    /\ UNCHANGED <<disk, pages, expect, mixed, raced>> /\ Rest

\* When storing the outcome of a test raises, the handler of its errors
\* stores a failure instead, once.
Fails(q) == IF q.kind = "test" /\ ~q.again THEN [q EXCEPT !.again = TRUE]
            ELSE [q EXCEPT !.pc = "failed", !.copy = {}]

TakeCopy(r) ==
    LET q == req[r]
        new == IF Main = Refused THEN Refused ELSE Changed(q, Main)
    IN  /\ q.pc = "copy"
        /\ Reading(r, IF new = Refused THEN Fails(q) ELSE [q EXCEPT !.pc = "open", !.copy = new])
        /\ mixed' = (mixed \/ (new # Refused /\ Changing # {}))
        /\ UNCHANGED <<pages, expect, raced>> /\ Rest

Target == IF Renames THEN "tmp" ELSE "main"

Open(r) ==
    /\ req[r].pc = "open"
    /\ req' = [req EXCEPT ![r].pc = "write", ![r].fd = Target]
    /\ disk' = [disk EXCEPT ![Target] = Truncated]
    /\ UNCHANGED <<pages, expect, mixed, raced>> /\ Rest

\* Only a page and a data file are left to be unlinked.
AfterChange(q) == IF q.kind = "remove" /\ HasPages THEN "unlink" ELSE "ok"

\* The text lands in the file that was opened, wherever that is by now, over
\* what another writer has put there since.
Write(r) ==
    LET q == req[r] IN
    /\ q.pc = "write"
    /\ IF q.fd = "gone" THEN UNCHANGED disk
       ELSE \E left \in IF disk[q.fd] = Truncated THEN {q.copy} ELSE {q.copy, Garbled} :
                disk' = [disk EXCEPT ![q.fd] = left]
    /\ req' = [req EXCEPT ![r].fd = "closed", ![r].copy = IF Renames THEN @ ELSE {},
                          ![r].pc = IF Renames THEN "replace" ELSE AfterChange(q)]
    /\ expect' = IF Renames THEN expect ELSE Applied(q, expect)
    /\ UNCHANGED <<pages, mixed, raced>> /\ Rest

\* tmp.replace raises when another request has renamed the file already.
Replace(r) ==
    LET q == req[r] IN
    /\ q.pc = "replace"
    /\ IF disk["tmp"] = Absent
       THEN /\ req' = [req EXCEPT ![r].pc = "failed", ![r].copy = {}]
            /\ UNCHANGED <<disk, expect>>
       ELSE /\ disk' = Moved("tmp", "main")
            /\ req' = [s \in Reqs |-> IF s = r THEN [q EXCEPT !.pc = AfterChange(q), !.copy = {}]
                                      ELSE Follow(req[s], "tmp", "main")]
            /\ expect' = Applied(q, expect)
    /\ UNCHANGED <<pages, mixed, raced>> /\ Rest

Unlink(r) ==
    /\ req[r].pc = "unlink" /\ req[r].kind = "remove"
    /\ pages' = pages \ {req[r].id}
    /\ req' = [req EXCEPT ![r].pc = "ok"]
    /\ UNCHANGED <<disk, expect, mixed, raced>> /\ Rest

UnlinkNotebook(r) ==
    /\ req[r].pc = "unlink" /\ req[r].kind = "erase"
    /\ disk' = [disk EXCEPT !["main"] = Absent]
    /\ req' = [s \in Reqs |-> IF s = r THEN [req[r] EXCEPT !.pc = "ok"]
                              ELSE IF req[s].fd = "main" THEN [req[s] EXCEPT !.fd = "gone"] ELSE req[s]]
    /\ expect' = Absent
    /\ mixed' = (mixed \/ Changing # {})
    /\ UNCHANGED <<pages, raced>> /\ Rest

\* view_published: the record, then the page.
Find(r) ==
    /\ req[r].pc = "find"
    /\ Reading(r, [req[r] EXCEPT !.pc = IF \E e \in Main : e.id = req[r].id THEN "serve" ELSE "failed"])
    /\ UNCHANGED <<pages, expect, mixed, raced>> /\ Rest

\* Faulty: a record is enough for the page to be shown.
ServesAnyway(i) == TRUE

Serves(i) == i \in pages

Serve(r) ==
    /\ req[r].pc = "serve"
    /\ req' = [req EXCEPT ![r].pc = IF Serves(req[r].id) THEN "ok" ELSE "failed"]
    /\ UNCHANGED <<disk, pages, expect, mixed, raced>> /\ Rest

\* The server is killed and restarted.  A rename leaves the file whole at any
\* moment; a file written in place may be left empty.
Crash ==
    /\ crashes < MaxCrashes
    /\ crashes' = crashes + 1
    /\ mixed' = (mixed \/ (~HasPages /\ disk["main"] \in Unreadable))
    /\ req' = [r \in Reqs |-> IF r \in Active
                              THEN [req[r] EXCEPT !.pc = "lost", !.copy = {}, !.fd = "closed"]
                              ELSE req[r]]
    /\ UNCHANGED <<store, disk, pages, expect, raced>>

Arrives(r) == \/ Create(r) \/ Delete(r) \/ Edit(r) \/ TestConnection(r)
              \/ ViewPublished(r) \/ Erase(r)

Proceeds(r) == \/ ChooseName(r) \/ WritePage(r) \/ GetConnection(r) \/ EngineAnswers(r)
               \/ TakeCopy(r) \/ Open(r) \/ Write(r) \/ Replace(r) \/ Unlink(r)
               \/ UnlinkNotebook(r) \/ Find(r) \/ Serve(r)

Next == (\E r \in Reqs : Arrives(r) \/ Proceeds(r)) \/ Crash

Spec == Init /\ [][Next]_vars

---------------------------------------------------------------------------
(* expect, mixed, raced and the field gone are history: the code has none. *)

TypeOK ==
    /\ store \in StoreNames
    /\ \A p \in Paths : disk[p] \in {Absent, Truncated, Garbled} \/ disk[p] \subseteq Record
    /\ pages \subseteq Ids
    /\ \A r \in Reqs :
        /\ req[r].kind \in Kinds /\ req[r].pc \in Running \cup Ended \cup {"idle"}
        /\ req[r].id \in Ids \cup {None} /\ req[r].val \in Values
        /\ req[r].copy \subseteq Record
        /\ req[r].fd \in Paths \cup {"closed", "gone"}
    /\ crashes \in 0 .. MaxCrashes
    /\ expect = Absent \/ expect \subseteq Record

\* What the store holds, once the request that writes it in place has done so.
Settled == IF disk["main"] \in Unreadable THEN UNION {req[r].copy : r \in Changing} ELSE disk["main"]

\* The store is an atomic object: it holds what its answered changes make of
\* it, one at a time in the order they took effect, and a change that a crash
\* cut off is there entirely or not at all.  Two changes at once void this,
\* and so does a crash between the opening and the writing of a file that is
\* written in place; a renamed one survives a crash anywhere.
HoldsWhatWasApplied ==
    ~mixed => IF Changing # {} /\ ~Renames /\ disk["main"] \in Unreadable
              THEN \E r \in Changing : Settled = Applied(req[r], expect)
              ELSE Settled = expect

\* A page whose revocation has been answered is never served to a reader that
\* asks later: whatever the manifest, which may have got its record back from
\* the stale copy of another request, its file is gone.
UnpublishIsFinal ==
    \A r \in Reqs : req[r].kind = "view" /\ req[r].pc = "ok" => ~req[r].gone

\* What is listed can be read: the file is written before its record and goes
\* after it, through crashes and failures, unless two changes have overlapped.
RecordsHaveTheirFile ==
    HasPages /\ ~mixed /\ disk["main"] # Absent =>
        \A e \in Settled : e.id \in pages

\* Two uploads never share a table name, though the name is chosen long before
\* the manifest is written: uploads exclude each other on the event loop.  A
\* rename, which runs on a thread, voids this when it overlaps.
TableNamesDistinct ==
    store = "uploads" /\ ~mixed /\ ~raced /\ disk["main"] # Absent =>
        \A e, f \in Settled : e.val = f.val => e = f

=============================================================================
