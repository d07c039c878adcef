--------------------------- MODULE NotebookServer ---------------------------
(***************************************************************************)
(* The notebook files of one user and the git repository that records      *)
(* them: the endpoints of rednotebook/server/routers/notebooks.py that     *)
(* write (create, save, delete, restore), notebook/storage.py and          *)
(* notebook/git_store.py.                                                  *)
(*                                                                         *)
(* The endpoints are plain functions that the server runs on a pool of     *)
(* threads, each with a storage and a git store of its own, so requests    *)
(* interleave wherever they read or write a file: the notebook's JSON      *)
(* file, git's index and its lock file, and the reference of the branch.   *)
(***************************************************************************)
EXTENDS Naturals, Sequences, FiniteSets

CONSTANTS
    Notebooks,    \* ids
    Texts,        \* contents of a notebook
    Absent,       \* no file
    Empty,        \* a file that has been opened for writing and not written
    Torn,         \* a file that two writers have mixed up: not JSON
    None,         \* no request
    MaxRequests,  \* bound on the requests that arrive
    MaxActive,    \* bound on the threads that work at once
    MaxCrashes    \* bound on the restarts of the server

Requests == 1 .. MaxRequests

Content == Texts \cup {Absent, Empty, Torn}

Tree == [Notebooks -> Content]

ASSUME NotebookServerAssumption ==
    /\ Notebooks # {}
    /\ Texts \cap {Absent, Empty, Torn} = {}
    /\ Cardinality({Absent, Empty, Torn}) = 3
    /\ {MaxRequests, MaxActive, MaxCrashes} \subseteq Nat

VARIABLES
    file,      \* file[n]: what is in base_dir/<n>.json
    index,     \* the entries of .git/index
    lock,      \* is there a .git/index.lock?
    commits,   \* the commit objects, in the order they were made
    head,      \* the commit the branch points to, 0 before the first
    req,       \* req[r]: the request r while a thread works on it
    arrived,   \* requests that have arrived
    crashes,   \* restarts so far
    acked,     \* acked[n]: what the request on n that ended last left there
    disputed   \* notebooks whose last request was cut short or not alone

vars == <<file, index, lock, commits, head, req, arrived, crashes, acked, disputed>>

Commit == [tree : Tree, parent : Nat]

NoTree == [n \in Notebooks |-> Absent]

\* pc is the next thing the thread does, writes the file writes it still has
\* to do, blob and base what index.add read, tree and parent what
\* index.commit read.
Request == [kind   : {"save", "restore", "delete"},
            nb     : Notebooks,
            body   : Texts \cup {Absent},
            pc     : {"open", "write", "add", "lock", "index", "diff", "tree", "head"},
            writes : 0 .. 2,
            orphan : BOOLEAN,
            alone  : BOOLEAN,
            blob   : Content,
            base   : Tree,
            tree   : Tree,
            parent : Nat]

ASSUME NoneIsNoRequest == None \notin Request

Active == {r \in Requests : req[r] # None}

On(n) == {r \in Active : req[r].nb = n}

HeadTree == IF head = 0 THEN NoTree ELSE commits[head].tree

\* A commit with the content c of a notebook whose versions so far are s.
Listed(s, c) ==
    IF c = Absent \/ (s # <<>> /\ s[Len(s)] = c) THEN s ELSE Append(s, c)

\* The versions of each notebook that git log lists from the commit k of cs,
\* oldest first: those on the way there that touch its file.
HistoryAt(cs, k) ==
    LET Hist[i \in 0 .. Len(cs)] ==
            IF i = 0
            THEN [n \in Notebooks |-> <<>>]
            ELSE [n \in Notebooks |-> Listed(Hist[cs[i].parent][n], cs[i].tree[n])]
    IN Hist[k]

History == HistoryAt(commits, head)

-----------------------------------------------------------------------------
(* The requests.  A definition marked "faulty" is a plausible mistake in the *)
(* one after it; nothing uses it, and each shows that some property below is *)
(* not vacuous.                                                              *)

Init ==
    /\ file = NoTree
    /\ index = NoTree
    /\ lock = FALSE
    /\ commits = <<>>
    /\ head = 0
    /\ req = [r \in Requests |-> None]
    /\ arrived = 0
    /\ crashes = 0
    /\ acked = NoTree
    /\ disputed = {}

NewRequest(kind, n, body, pc, writes) ==
    [kind |-> kind, nb |-> n, body |-> body, pc |-> pc, writes |-> writes,
     orphan |-> FALSE, alone |-> On(n) = {}, blob |-> Absent, base |-> NoTree,
     tree |-> NoTree, parent |-> 0]

\* The request y once x has arrived on its notebook: it is no longer alone,
\* and a deletion leaves it with a deleted file, if it was writing one.
Disturbed(y, x) == [y EXCEPT !.alone = FALSE, !.orphan = @ \/ x.kind = "delete"]

\* A thread takes the request x up.
Arrives(x) ==
    /\ arrived < MaxRequests
    /\ Cardinality(Active) < MaxActive
    /\ arrived' = arrived + 1
    /\ req' = [r \in Requests |->
                  IF r = arrived' THEN x
                  ELSE IF r \in On(x.nb) THEN Disturbed(req[r], x)
                  ELSE req[r]]
    /\ UNCHANGED <<index, lock, commits, head, crashes, acked, disputed>>

\* PUT /notebooks/{id}, or POST /notebooks for a new id.
SaveNotebook(n, c) ==
    /\ Arrives(NewRequest("save", n, c, "open", 1))
    /\ UNCHANGED file

\* Faulty: the file is not unlinked.
KeptOnDisk(n) == file

Unlinked(n) == [file EXCEPT ![n] = Absent]

\* DELETE: the file is unlinked, then committed as if it were still there.
DeleteNotebook(n) ==
    /\ file[n] # Absent
    /\ Arrives(NewRequest("delete", n, Absent, "add", 0))
    /\ file' = Unlinked(n)

\* read_at finds a snapshot and it validates as a notebook.
Valid(c) == c \in Texts

\* POST /notebooks/{id}/restore to a listed version: storage.save writes it,
\* and git.restore writes it again before it commits.
RestoreNotebook(n, i) ==
    LET c == History[n][i] IN
    /\ Valid(c)
    /\ Arrives(NewRequest("restore", n, c, "open", 2))
    /\ UNCHANGED file

-----------------------------------------------------------------------------
(* The steps of a thread.                                                   *)

At(r, pc) == req[r] # None /\ req[r].pc = pc

Goes(r, x) == req' = [req EXCEPT ![r] = x]

Book == <<arrived, crashes, acked, disputed>>

\* The answer: what the request did is what the client believes.
Ends(r) ==
    LET x == req[r] IN
    /\ req' = [req EXCEPT ![r] = None]
    /\ acked' = [acked EXCEPT ![x.nb] = x.body]
    /\ disputed' = IF x.alone THEN disputed \ {x.nb} ELSE disputed \cup {x.nb}
    /\ UNCHANGED <<arrived, crashes>>

\* write_text opens the file, which empties or creates it ...
OpenFile(r) ==
    /\ At(r, "open")
    /\ Goes(r, [req[r] EXCEPT !.pc = "write", !.orphan = FALSE])
    /\ file' = [file EXCEPT ![req[r].nb] = Empty]
    /\ UNCHANGED <<index, lock, commits, head, Book>>

\* Faulty: off by one.
AfterWriteOnceMore(x) == IF x.writes >= 1 THEN "open" ELSE "add"

AfterWrite(x) == IF x.writes > 1 THEN "open" ELSE "add"

\* ... and writes it.  Over the text of a writer that came in between it may
\* leave a mixture; a file that was deleted in between stays deleted.
WriteFile(r) ==
    LET n == req[r].nb IN
    /\ At(r, "write")
    /\ Goes(r, [req[r] EXCEPT !.pc = AfterWrite(req[r]), !.writes = @ - 1])
    /\ \E c \in {req[r].body} \cup (IF file[n] = Empty THEN {} ELSE {Torn}) :
           file' = IF req[r].orphan THEN file ELSE [file EXCEPT ![n] = c]
    /\ UNCHANGED <<index, lock, commits, head, Book>>

\* index.add: hash the file and read the index.  A file that is not there
\* raises, and commit returns None.
AddFile(r) ==
    /\ At(r, "add")
    /\ IF file[req[r].nb] = Absent
       THEN Ends(r)
       ELSE /\ Goes(r, [req[r] EXCEPT !.pc = "lock", !.blob = file[req[r].nb], !.base = index])
            /\ UNCHANGED Book
    /\ UNCHANGED <<file, index, lock, commits, head>>

\* Faulty: the lock file is overwritten.
NeverLocked == FALSE

Locked == lock

\* Faulty: the thread waits for the lock.
WaitsForLock(r) == UNCHANGED <<req, Book>>

\* LockedFD raises, and commit returns None.
WhenLocked(r) == Ends(r)

\* Take index.lock, by creating the file.
LockIndex(r) ==
    /\ At(r, "lock")
    /\ IF Locked
       THEN WhenLocked(r) /\ UNCHANGED lock
       ELSE /\ lock' = TRUE
            /\ Goes(r, [req[r] EXCEPT !.pc = "index"])
            /\ UNCHANGED Book
    /\ UNCHANGED <<file, index, commits, head>>

\* Faulty: the entry is added and the index not written.
Unstaged(x) == x.base

\* The index that index.add writes.
Staged(x) == [x.base EXCEPT ![x.nb] = x.blob]

\* Rename the lock file over the index.
WriteIndex(r) ==
    /\ At(r, "index")
    /\ index' = Staged(req[r])
    /\ lock' = FALSE
    /\ Goes(r, [req[r] EXCEPT !.pc = "diff"])
    /\ UNCHANGED <<file, commits, head, Book>>

\* No empty commits: nothing to do if the index is that of HEAD.
DiffHead(r) ==
    /\ At(r, "diff")
    /\ IF head # 0 /\ index = HeadTree
       THEN Ends(r)
       ELSE Goes(r, [req[r] EXCEPT !.pc = "tree"]) /\ UNCHANGED Book
    /\ UNCHANGED <<file, index, lock, commits, head>>

\* index.commit: write the tree of the index and look up the parent ...
WriteTree(r) ==
    /\ At(r, "tree")
    /\ Goes(r, [req[r] EXCEPT !.pc = "head", !.tree = index, !.parent = head])
    /\ UNCHANGED <<file, index, lock, commits, head, Book>>

\* Faulty: every commit starts a history of its own.
Rootless(x) == [tree |-> x.tree, parent |-> 0]

CommitOf(x) == [tree |-> x.tree, parent |-> x.parent]

\* ... and point the branch at the new commit, whatever it points to by now.
SetHead(r) ==
    /\ At(r, "head")
    /\ commits' = Append(commits, CommitOf(req[r]))
    /\ head' = Len(commits')
    /\ Ends(r)
    /\ UNCHANGED <<file, index, lock>>

\* The server process dies and is started again.
Crash ==
    /\ crashes < MaxCrashes
    /\ Active # {}
    /\ crashes' = crashes + 1
    /\ req' = [r \in Requests |-> None]
    /\ acked' = [n \in Notebooks |-> IF On(n) = {} THEN acked[n] ELSE file[n]]
    /\ disputed' = disputed \cup {req[r].nb : r \in Active}
    /\ UNCHANGED <<file, index, lock, commits, head, arrived>>

Step(r) ==
    \/ OpenFile(r) \/ WriteFile(r) \/ AddFile(r) \/ LockIndex(r)
    \/ WriteIndex(r) \/ DiffHead(r) \/ WriteTree(r) \/ SetHead(r)

Next ==
    \/ \E n \in Notebooks : \/ \E c \in Texts : SaveNotebook(n, c)
                            \/ DeleteNotebook(n)
                            \/ \E i \in DOMAIN History[n] : RestoreNotebook(n, i)
    \/ \E r \in Requests : Step(r)
    \/ Crash

\* Threads get their turns; none waits for another.
Fairness == \A r \in Requests : WF_vars(Step(r))

Spec == Init /\ [][Next]_vars /\ Fairness

-----------------------------------------------------------------------------
(* Properties                                                               *)

TypeOK ==
    /\ file \in Tree
    /\ index \in Tree
    /\ lock \in BOOLEAN
    /\ commits \in Seq(Commit)
    /\ head \in 0 .. Len(commits)
    /\ req \in [Requests -> Request \cup {None}]
    /\ arrived \in 0 .. MaxRequests
    /\ crashes \in 0 .. MaxCrashes
    /\ acked \in Tree
    /\ disputed \subseteq Notebooks

\* When no request works on a notebook its file holds what the last one said
\* it left there, whatever the requests on other notebooks do meanwhile.
\* Requests that overlap on one notebook, or were cut short by a crash, are
\* outside it.
DiskIsLastAcknowledged ==
    \A n \in Notebooks \ disputed : On(n) = {} => file[n] = acked[n]

\* The threads exclude each other where the index is written, and only a
\* crash can leave the lock behind.
OneIndexWriter ==
    /\ \A r \in Active : At(r, "index") => lock
    /\ \A r, s \in Active : At(r, "index") /\ At(s, "index") => r = s
    /\ lock /\ crashes = 0 => \E r \in Active : At(r, "index")

\* Every request is answered: git never holds a save up, whatever is wrong
\* with the repository.
RequestsEnd == \A r \in Requests : req[r] # None ~> req[r] = None

\* History stops accumulating when a crash has left the lock behind.
Stuck == lock /\ \A r \in Active : ~At(r, "index")

\* "Every save lands as a commit": at rest the branch holds the text that was
\* saved last.
EverySaveLands ==
    \A n \in Notebooks \ disputed :
        Active = {} /\ ~Stuck /\ acked[n] \in Texts => HeadTree[n] = acked[n]

\* Every version the history lists can be restored: it is a notebook, not the
\* bytes of a write under way.
SnapshotsAreRestorable ==
    \A n \in Notebooks : \A i \in DOMAIN History[n] : History[n][i] \in Texts

\* The index as the request under way found it, if it has staged its file.
Draft ==
    IF \E r \in Active : req[r].pc \in {"diff", "tree", "head"}
    THEN LET r == CHOOSE r \in Active : req[r].pc \in {"diff", "tree", "head"}
         IN req[r].base
    ELSE index

Abstract == INSTANCE NotebookHistory
            WITH saved <- acked, draft <- Draft, timeline <- History, recording <- ~Stuck

\* One request at a time, the files and the repository implement the history
\* a user is promised: a request appears to happen as a whole when it ends.
ImplementsHistory == Abstract!HistSpec
=============================================================================
