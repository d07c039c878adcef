------------------------ MODULE NotebookServerProofs ------------------------
(***************************************************************************)
(* What the threads of the notebook endpoints guarantee for any notebooks, *)
(* any number of requests at once and any number of crashes: the index has *)
(* one writer, and a file is what the last request on it said it left.     *)
(***************************************************************************)
EXTENDS NotebookServer, FiniteSetTheorems, TLAPS

\* A request that has not arrived is not worked on.
Fresh == \A r \in Requests : r > arrived => req[r] = None

\* A thread that is about to open or write its file has a write to do.
WritesLeft ==
    \A r \in Active : req[r].pc \in {"open", "write"} => req[r].writes >= 1

\* The file of a request nobody else has disturbed, at each of its steps.
FileOf(x, c) ==
    x.alone => /\ ~x.orphan
               /\ x.pc = "write" => c = Empty
               /\ x.pc \notin {"open", "write"} => c = x.body

\* A request that is alone is the only one on its notebook, and its file is
\* as far as its program counter says.
AloneIsAlone ==
    \A r \in Active : /\ req[r].alone =>
                             \A q \in Active : req[q].nb = req[r].nb => q = r
                      /\ FileOf(req[r], file[req[r].nb])

Files == Fresh /\ WritesLeft /\ AloneIsAlone /\ DiskIsLastAcknowledged

IInv == TypeOK /\ Files /\ OneIndexWriter

-----------------------------------------------------------------------------

LEMMA InitIInv == Init => IInv
<1> SUFFICES ASSUME Init PROVE IInv
    OBVIOUS
<1>1. Active = {}
    BY DEF Init, Active
<1>2. NoTree \in Tree
    BY DEF NoTree, Tree, Content
<1>3. TypeOK
    <2>1. /\ commits \in Seq(Commit) /\ head \in 0 .. Len(commits)
          /\ req \in [Requests -> Request \cup {None}]
        BY DEF Init
    <2>2. arrived \in 0 .. MaxRequests /\ crashes \in 0 .. MaxCrashes
        BY NotebookServerAssumption DEF Init
    <2>3. QED
        BY <1>2, <2>1, <2>2 DEF Init, TypeOK
<1>4. Files
    BY <1>1 DEF Init, Files, Fresh, WritesLeft, AloneIsAlone, DiskIsLastAcknowledged
<1>5. OneIndexWriter
    BY <1>1 DEF Init, OneIndexWriter, At, Active
<1>6. QED
    BY <1>3, <1>4, <1>5 DEF IInv

\* The threads at work when the thread r goes on as y.
LEMMA GoesFacts ==
    ASSUME TypeOK, NEW r \in Active, NEW y \in Request, Goes(r, y),
           y.nb = req[r].nb
    PROVE  /\ req' \in [Requests -> Request \cup {None}]
           /\ req'[r] = y
           /\ \A s \in Requests : s # r => req'[s] = req[s]
           /\ Active' = Active
           /\ \A n \in Notebooks : On(n)' = On(n)
<1>1. /\ req' \in [Requests -> Request \cup {None}]
      /\ req'[r] = y
      /\ \A s \in Requests : s # r => req'[s] = req[s]
    BY DEF Goes, TypeOK, Active
<1>2. Active' = Active
    BY <1>1, NoneIsNoRequest DEF Active
<1>3. \A s \in Active : req'[s].nb = req[s].nb
    BY <1>1 DEF Active
<1>4. \A n \in Notebooks : On(n)' = On(n)
    BY <1>2, <1>3 DEF On
<1>5. QED
    BY <1>1, <1>2, <1>4

\* A thread that goes on leaves Files true if it keeps to its own file.
LEMMA GoesFiles ==
    ASSUME IInv, NEW r \in Active, NEW y \in Request, Goes(r, y),
           y.nb = req[r].nb, y.alone = req[r].alone,
           y.pc \in {"open", "write"} => y.writes >= 1,
           \A n \in Notebooks : n # y.nb => file'[n] = file[n],
           FileOf(y, file'[y.nb]),
           UNCHANGED Book
    PROVE  Files'
<1>1. /\ req'[r] = y
      /\ \A s \in Requests : s # r => req'[s] = req[s]
      /\ Active' = Active
      /\ \A n \in Notebooks : On(n)' = On(n)
    BY GoesFacts DEF IInv
<1>2. r \in Requests /\ req[r] \in Request /\ y.nb \in Notebooks /\ r \in On(y.nb)
    BY DEF Active, IInv, TypeOK, Request, On
<1>3. \A s \in Active : s \in Requests /\ req[s] \in Request /\ req[s].nb \in Notebooks
    BY DEF Active, IInv, TypeOK, Request
<1>4. Fresh'
    BY <1>1, <1>2 DEF IInv, Files, Fresh, Book, Active
<1>5. WritesLeft'
    BY <1>1, <1>3 DEF IInv, Files, WritesLeft
<1>6. AloneIsAlone'
    <2> SUFFICES ASSUME NEW s \in Active
                 PROVE  /\ req'[s].alone =>
                              \A q \in Active : req'[q].nb = req'[s].nb => q = s
                        /\ FileOf(req'[s], file'[req'[s].nb])
        BY <1>1 DEF AloneIsAlone, FileOf
    <2>1. /\ req[s].alone => \A q \in Active : req[q].nb = req[s].nb => q = s
          /\ FileOf(req[s], file[req[s].nb])
        BY DEF IInv, Files, AloneIsAlone
    <2>5. \A q \in Active : req'[q].nb = req[q].nb
        BY <1>1, <1>3
    <2>2. CASE s = r
        BY <2>2, <2>1, <2>5, <1>1, <1>2
    <2>3. CASE s # r
        <3>1. req'[s] = req[s]
            BY <2>3, <1>1, <1>3
        <3>2. req[s].alone => req[s].nb # y.nb
            BY <2>1, <2>3, <1>2
        <3>3. req[s].alone => file'[req[s].nb] = file[req[s].nb]
            BY <3>2, <1>3
        <3>4. FileOf(req[s], file'[req[s].nb])
            BY <2>1, <3>3 DEF FileOf
        <3>5. QED
            BY <2>1, <2>5, <3>1, <3>4
    <2>4. QED
        BY <2>2, <2>3
<1>7. DiskIsLastAcknowledged'
    <2> SUFFICES ASSUME NEW n \in Notebooks, n \notin disputed, On(n) = {}
                 PROVE  file'[n] = acked[n]
        BY <1>1 DEF DiskIsLastAcknowledged, Book
    <2>1. n # y.nb
        BY <1>2
    <2>2. QED
        BY <2>1 DEF IInv, Files, DiskIsLastAcknowledged
<1>8. QED
    BY <1>4, <1>5, <1>6, <1>7 DEF Files

\* A thread that ends: the client takes its body for what the file holds,
\* and it does.
LEMMA EndsStep ==
    ASSUME IInv, NEW r \in Active, Ends(r), UNCHANGED file,
           req[r].pc \notin {"open", "write"}
    PROVE  /\ Files'
           /\ req' \in [Requests -> Request \cup {None}]
           /\ acked' \in Tree /\ disputed' \subseteq Notebooks
           /\ UNCHANGED <<arrived, crashes>>
           /\ req'[r] = None
           /\ \A s \in Requests : s # r => req'[s] = req[s]
<1> DEFINE x == req[r]
<1>1. /\ r \in Requests /\ x \in Request /\ x.nb \in Notebooks
      /\ x.body \in Content /\ x.alone \in BOOLEAN /\ r \in On(x.nb)
    BY DEF Active, IInv, TypeOK, Request, On, Content
<1>2. /\ req' \in [Requests -> Request \cup {None}]
      /\ req'[r] = None
      /\ \A s \in Requests : s # r => req'[s] = req[s]
    BY <1>1 DEF Ends, IInv, TypeOK
<1>3. Active' = Active \ {r} /\ \A n \in Notebooks : On(n)' = On(n) \ {r}
    BY <1>2 DEF Active, On
<1>4. /\ acked' \in Tree /\ UNCHANGED <<arrived, crashes>>
      /\ acked'[x.nb] = x.body
      /\ \A n \in Notebooks : n # x.nb => acked'[n] = acked[n]
    BY <1>1 DEF Ends, IInv, TypeOK, Tree
<1>5. disputed' = IF x.alone THEN disputed \ {x.nb} ELSE disputed \cup {x.nb}
    BY DEF Ends
<1>6. Fresh'
    BY <1>2, <1>4 DEF IInv, Files, Fresh
<1>7. WritesLeft'
    BY <1>2, <1>3 DEF IInv, Files, WritesLeft, Active
<1>8. AloneIsAlone'
    <2> SUFFICES ASSUME NEW s \in Active, s # r
                 PROVE  /\ req[s].alone =>
                              \A q \in Active : req[q].nb = req[s].nb => q = s
                        /\ FileOf(req[s], file[req[s].nb])
        BY <1>2, <1>3 DEF AloneIsAlone, FileOf, Active
    <2>1. QED
        BY DEF IInv, Files, AloneIsAlone
<1>9. DiskIsLastAcknowledged'
    <2> SUFFICES ASSUME NEW n \in Notebooks, n \notin disputed', On(n)' = {}
                 PROVE  file[n] = acked'[n]
        BY DEF DiskIsLastAcknowledged
    <2>1. CASE n = x.nb
        <3>1. x.alone
            BY <2>1, <1>5
        <3>2. QED
            BY <3>1, <2>1, <1>4 DEF IInv, Files, AloneIsAlone, FileOf
    <2>2. CASE n # x.nb
        <3>1. r \notin On(n)
            BY <2>2 DEF On
        <3>2. On(n) = {} /\ n \notin disputed
            BY <3>1, <2>2, <1>3, <1>5
        <3>3. QED
            BY <3>2, <2>2, <1>4 DEF IInv, Files, DiskIsLastAcknowledged
    <2>3. QED
        BY <2>1, <2>2
<1>10. disputed' \subseteq Notebooks
    BY <1>1, <1>5 DEF IInv, TypeOK
<1>11. QED
    BY <1>2, <1>4, <1>6, <1>7, <1>8, <1>9, <1>10 DEF Files

\* What an arrival does to the other requests on the notebook.
LEMMA DisturbedFacts ==
    ASSUME NEW x \in Request, NEW y \in Request
    PROVE  /\ Disturbed(y, x) \in Request
           /\ ~Disturbed(y, x).alone
           /\ Disturbed(y, x).nb = y.nb
           /\ Disturbed(y, x).pc = y.pc
           /\ Disturbed(y, x).writes = y.writes
<1>1. (y.orphan \/ x.kind = "delete") \in BOOLEAN
    OBVIOUS
<1> DEFINE o == y.orphan \/ x.kind = "delete"
<1>2. Disturbed(y, x) = [y EXCEPT !.alone = FALSE, !.orphan = o]
    BY DEF Disturbed
<1>3. o \in BOOLEAN
    BY <1>1
<1> HIDE DEF o
<1>4. QED
    BY <1>2, <1>3 DEF Request

\* Nobody comes to the index or leaves it.
LEMMA IndexUntouched ==
    ASSUME OneIndexWriter, UNCHANGED <<lock, crashes>>,
           \A s \in Requests : At(s, "index")' <=> At(s, "index")
    PROVE  OneIndexWriter'
<1>1. \A s \in Requests : At(s, "index") => s \in Active
    BY DEF At, Active
<1>2. \A s \in Requests : At(s, "index")' => s \in Active'
    BY DEF At, Active
<1>3. Active \subseteq Requests /\ Active' \subseteq Requests
    BY DEF Active, Requests
<1>4. QED
    BY <1>1, <1>2, <1>3 DEF OneIndexWriter

\* What a thread that is at a step knows of its request.
LEMMA AtFacts ==
    ASSUME IInv, NEW r \in Requests, NEW pc, At(r, pc)
    PROVE  /\ r \in Active /\ req[r] \in Request /\ req[r].pc = pc
           /\ req[r].nb \in Notebooks
           /\ FileOf(req[r], file[req[r].nb])
           /\ pc \in {"open", "write"} => req[r].writes >= 1
BY DEF At, Active, IInv, TypeOK, Request, Files, AloneIsAlone, WritesLeft

\* A thread goes on without touching its file, or the index file's lock.
LEMMA QuietStep ==
    ASSUME IInv, NEW r \in Active, NEW y \in Request, Goes(r, y),
           y.nb = req[r].nb, y.alone = req[r].alone, y.orphan = req[r].orphan,
           y.body = req[r].body,
           {y.pc, req[r].pc} \cap {"open", "write"} = {},
           UNCHANGED <<file, commits, head, Book>>
    PROVE  /\ Files'
           /\ req' \in [Requests -> Request \cup {None}]
           /\ req'[r] = y
           /\ \A s \in Requests : s # r => req'[s] = req[s]
           /\ index' \in Tree /\ lock' \in BOOLEAN => TypeOK'
<1>1. FileOf(req[r], file[req[r].nb])
    BY DEF IInv, Files, AloneIsAlone
<1>2. FileOf(y, file'[y.nb])
    BY <1>1 DEF FileOf
<1>3. Files'
    BY <1>2, GoesFiles
<1>4. /\ req' \in [Requests -> Request \cup {None}]
      /\ req'[r] = y
      /\ \A s \in Requests : s # r => req'[s] = req[s]
    BY GoesFacts DEF IInv
<1>5. index' \in Tree /\ lock' \in BOOLEAN => TypeOK'
    BY <1>4 DEF IInv, TypeOK, Book
<1>6. QED
    BY <1>3, <1>4, <1>5

-----------------------------------------------------------------------------
(* One lemma per action.                                                    *)

LEMMA ArrivesStep ==
    ASSUME IInv, NEW x \in Request, Arrives(x),
           x.alone => On(x.nb) = {}, ~x.orphan, x.pc # "index",
           x.pc \in {"open", "write"} => x.writes >= 1,
           file' \in Tree,
           \A n \in Notebooks : n # x.nb => file'[n] = file[n],
           FileOf(x, file'[x.nb])
    PROVE  IInv'
<1> DEFINE a == arrived + 1
<1>1. /\ a \in Requests /\ arrived' = a /\ req[a] = None
      /\ arrived \in Nat /\ a = arrived + 1
      /\ UNCHANGED <<index, lock, commits, head, crashes, acked, disputed>>
      /\ x.nb \in Notebooks
    BY NotebookServerAssumption DEF Arrives, Requests, IInv, TypeOK, Files, Fresh, Request
<1> HIDE DEF a
<1>2. /\ req' \in [Requests -> Request \cup {None}]
      /\ req'[a] = x
      /\ \A s \in Requests : s # a /\ s \notin On(x.nb) => req'[s] = req[s]
      /\ \A s \in On(x.nb) : req'[s] = Disturbed(req[s], x)
    <2>1. \A s \in On(x.nb) : s # a /\ s \in Requests /\ req[s] \in Request
        BY <1>1 DEF On, Active, IInv, TypeOK
    <2>2. req' = [s \in Requests |->
                  IF s = a THEN x
                  ELSE IF s \in On(x.nb) THEN Disturbed(req[s], x)
                  ELSE req[s]]
        BY <1>1 DEF Arrives
    <2>3. \A s \in On(x.nb) : Disturbed(req[s], x) \in Request
        BY <2>1, DisturbedFacts
    <2>4. \A s \in Requests : req[s] \in Request \cup {None}
        BY DEF IInv, TypeOK
    <2>5. QED
        BY <1>1, <2>1, <2>2, <2>3, <2>4
<1>3. /\ Active' = Active \cup {a} /\ a \notin Active
      /\ Active \subseteq Requests
    <2>1. \A s \in On(x.nb) : s \in Active /\ s \in Requests /\ req[s] \in Request
        BY DEF On, Active, IInv, TypeOK
    <2>2. \A s \in On(x.nb) : req'[s] # None
        BY <2>1, <1>2, DisturbedFacts, NoneIsNoRequest
    <2>3. x # None /\ a \notin Active
        BY <1>1, NoneIsNoRequest DEF Active
    <2>4. \A s \in Requests : s \in Active' <=> s \in Active \/ s = a
        BY <1>1, <1>2, <2>1, <2>2, <2>3 DEF Active
    <2>5. Active \subseteq Requests /\ Active' \subseteq Requests
        BY DEF Active, Requests
    <2>6. QED
        BY <2>3, <2>4, <2>5, <1>1
<1>4. \A s \in Active :
          /\ req[s] \in Request /\ s # a /\ s \in Requests
          /\ req'[s].nb = req[s].nb /\ req'[s].pc = req[s].pc
          /\ req'[s].writes = req[s].writes
          /\ req[s].nb = x.nb => ~req'[s].alone
          /\ req[s].nb # x.nb => req'[s] = req[s]
    <2> SUFFICES ASSUME NEW s \in Active
                 PROVE  /\ req[s] \in Request /\ s # a /\ s \in Requests
                        /\ req'[s].nb = req[s].nb /\ req'[s].pc = req[s].pc
                        /\ req'[s].writes = req[s].writes
                        /\ req[s].nb = x.nb => ~req'[s].alone
                        /\ req[s].nb # x.nb => req'[s] = req[s]
        OBVIOUS
    <2>1. req[s] \in Request /\ s # a /\ s \in Requests
        BY <1>3 DEF Active, IInv, TypeOK
    <2>2. CASE s \in On(x.nb)
        BY <2>1, <2>2, <1>2, DisturbedFacts DEF On
    <2>3. CASE s \notin On(x.nb)
        BY <2>1, <2>3, <1>2 DEF On
    <2>4. QED
        BY <2>2, <2>3
<1>5. TypeOK'
    <2>1. arrived' \in 0 .. MaxRequests
        BY <1>1 DEF Requests
    <2>2. QED
        BY <1>1, <1>2, <2>1 DEF IInv, TypeOK
<1>6. Fresh'
    <2> SUFFICES ASSUME NEW s \in Requests, s > a PROVE req'[s] = None
        BY <1>1 DEF Fresh
    <2>1. s # a /\ req[s] = None
        BY <1>1 DEF Requests, IInv, Files, Fresh
    <2>2. s \notin On(x.nb)
        BY <2>1 DEF On, Active
    <2>3. QED
        BY <2>1, <2>2, <1>2
<1>7. WritesLeft'
    BY <1>2, <1>3, <1>4 DEF IInv, Files, WritesLeft
<1>8. AloneIsAlone'
    <2>1. ASSUME NEW s \in Active
          PROVE  /\ req'[s].alone =>
                       \A q \in Active' : req'[q].nb = req'[s].nb => q = s
                 /\ FileOf(req'[s], file'[req'[s].nb])
        <3>1. CASE req[s].nb = x.nb
            BY <3>1, <1>4 DEF FileOf
        <3>2. CASE req[s].nb # x.nb
            <4>1. /\ req[s].alone => \A q \in Active : req[q].nb = req[s].nb => q = s
                  /\ FileOf(req[s], file[req[s].nb])
                  /\ req[s].nb \in Notebooks
                BY <1>4 DEF IInv, Files, AloneIsAlone, Request
            <4>2. file'[req[s].nb] = file[req[s].nb]
                BY <3>2, <4>1
            <4>3. QED
                BY <4>1, <4>2, <3>2, <1>2, <1>3, <1>4
        <3>3. QED
            BY <3>1, <3>2
    <2>2. x.alone => \A q \in Active' : req'[q].nb = x.nb => q = a
        BY <1>2, <1>3, <1>4 DEF On
    <2>3. QED
        BY <2>1, <2>2, <1>2, <1>3 DEF AloneIsAlone
<1>9. DiskIsLastAcknowledged'
    <2> SUFFICES ASSUME NEW n \in Notebooks, n \notin disputed, On(n)' = {}
                 PROVE  file'[n] = acked[n]
        BY <1>1 DEF DiskIsLastAcknowledged
    <2>1. n # x.nb
        BY <1>2, <1>3 DEF On
    <2>2. On(n) = {}
        BY <1>3, <1>4 DEF On
    <2>3. QED
        BY <2>1, <2>2 DEF IInv, Files, DiskIsLastAcknowledged
<1>10. OneIndexWriter'
    <2>1. \A s \in Requests : At(s, "index")' <=> At(s, "index")
        BY <1>1, <1>2, <1>3, <1>4 DEF At, Active
    <2>2. QED
        BY <2>1, <1>1, IndexUntouched DEF IInv
<1>11. QED
    BY <1>5, <1>6, <1>7, <1>8, <1>9, <1>10 DEF IInv, Files

\* The request of a client is well formed.
LEMMA NewRequestFacts ==
    ASSUME NEW kind \in {"save", "restore", "delete"}, NEW n \in Notebooks,
           NEW body \in Texts \cup {Absent}, NEW pc \in {"open", "add"},
           NEW writes \in 0 .. 2
    PROVE  /\ NewRequest(kind, n, body, pc, writes) \in Request
           /\ NewRequest(kind, n, body, pc, writes).nb = n
           /\ NewRequest(kind, n, body, pc, writes).pc = pc
           /\ NewRequest(kind, n, body, pc, writes).body = body
           /\ NewRequest(kind, n, body, pc, writes).writes = writes
           /\ ~NewRequest(kind, n, body, pc, writes).orphan
           /\ NewRequest(kind, n, body, pc, writes).kind = kind
           /\ NewRequest(kind, n, body, pc, writes).alone <=> On(n) = {}
<1>1. NoTree \in Tree /\ Absent \in Content
    BY DEF NoTree, Tree, Content
<1>2. (On(n) = {}) \in BOOLEAN
    OBVIOUS
<1> DEFINE b == On(n) = {}
<1>3. NewRequest(kind, n, body, pc, writes) =
          [kind |-> kind, nb |-> n, body |-> body, pc |-> pc, writes |-> writes,
           orphan |-> FALSE, alone |-> b, blob |-> Absent, base |-> NoTree,
           tree |-> NoTree, parent |-> 0]
    BY DEF NewRequest
<1>4. b \in BOOLEAN /\ (b <=> On(n) = {})
    BY <1>2
<1> HIDE DEF b
<1>5. QED
    BY <1>1, <1>3, <1>4 DEF Request

LEMMA SaveStep ==
    ASSUME IInv, NEW n \in Notebooks, NEW c \in Texts, SaveNotebook(n, c)
    PROVE  IInv'
<1> DEFINE x == NewRequest("save", n, c, "open", 1)
<1>1. /\ x \in Request /\ x.nb = n /\ x.pc = "open" /\ x.writes = 1
      /\ ~x.orphan /\ (x.alone => On(n) = {})
    BY NewRequestFacts
<1>2. Arrives(x) /\ UNCHANGED file
    BY DEF SaveNotebook
<1> HIDE DEF x
<1>3. file' \in Tree /\ FileOf(x, file'[n])
    BY <1>1, <1>2 DEF IInv, TypeOK, FileOf
<1>4. QED
    BY <1>1, <1>2, <1>3, ArrivesStep

LEMMA RestoreStep ==
    ASSUME IInv, NEW n \in Notebooks, NEW i, RestoreNotebook(n, i)
    PROVE  IInv'
<1> DEFINE c == History[n][i]
           x == NewRequest("restore", n, c, "open", 2)
<1>1. c \in Texts /\ Arrives(x) /\ UNCHANGED file
    BY DEF RestoreNotebook, Valid
<1> HIDE DEF c
<1>2. /\ x \in Request /\ x.nb = n /\ x.pc = "open" /\ x.writes = 2
      /\ ~x.orphan /\ (x.alone => On(n) = {})
    BY <1>1, NewRequestFacts
<1> HIDE DEF x
<1>3. file' \in Tree /\ FileOf(x, file'[n])
    BY <1>1, <1>2 DEF IInv, TypeOK, FileOf
<1>4. QED
    BY <1>1, <1>2, <1>3, ArrivesStep

LEMMA DeleteStep ==
    ASSUME IInv, NEW n \in Notebooks, DeleteNotebook(n)
    PROVE  IInv'
<1> DEFINE x == NewRequest("delete", n, Absent, "add", 0)
<1>1. /\ x \in Request /\ x.nb = n /\ x.pc = "add" /\ x.body = Absent
      /\ ~x.orphan /\ (x.alone => On(n) = {})
    BY NewRequestFacts
<1>2. Arrives(x) /\ file' = Unlinked(n)
    BY DEF DeleteNotebook
<1> HIDE DEF x
<1>3. /\ file' \in Tree /\ file'[n] = Absent
      /\ \A k \in Notebooks : k # n => file'[k] = file[k]
    BY <1>2 DEF IInv, TypeOK, Tree, Content, Unlinked
<1>4. FileOf(x, file'[n])
    BY <1>1, <1>3 DEF FileOf
<1>5. QED
    BY <1>1, <1>2, <1>3, <1>4, ArrivesStep

LEMMA OpenFileStep ==
    ASSUME IInv, NEW r \in Requests, OpenFile(r)
    PROVE  IInv'
<1> DEFINE x == req[r]
           y == [x EXCEPT !.pc = "write", !.orphan = FALSE]
<1>1. /\ r \in Active /\ x \in Request /\ x.pc = "open" /\ x.nb \in Notebooks
      /\ x.writes >= 1
    BY AtFacts DEF OpenFile
<1>2. /\ y \in Request /\ y.pc = "write" /\ ~y.orphan /\ y.nb = x.nb
      /\ y.alone = x.alone /\ y.writes = x.writes
    BY <1>1 DEF Request
<1>3. /\ Goes(r, y) /\ file' = [file EXCEPT ![x.nb] = Empty]
      /\ UNCHANGED <<index, lock, commits, head, Book>>
    BY DEF OpenFile
<1> HIDE DEF y
<1>4. /\ file' \in Tree /\ file'[x.nb] = Empty
      /\ \A n \in Notebooks : n # x.nb => file'[n] = file[n]
    BY <1>1, <1>3 DEF IInv, TypeOK, Tree, Content
<1>5. FileOf(y, file'[y.nb])
    BY <1>2, <1>4 DEF FileOf
<1>6. Files'
    BY <1>1, <1>2, <1>3, <1>4, <1>5, GoesFiles
<1>7. /\ req' \in [Requests -> Request \cup {None}] /\ req'[r] = y
      /\ \A s \in Requests : s # r => req'[s] = req[s]
    BY <1>1, <1>2, <1>3, GoesFacts DEF IInv
<1>8. TypeOK'
    BY <1>3, <1>4, <1>7 DEF IInv, TypeOK, Book
<1>9. \A s \in Requests : At(s, "index")' <=> At(s, "index")
    BY <1>1, <1>2, <1>7 DEF At
<1>10. OneIndexWriter'
    BY <1>3, <1>9, IndexUntouched DEF IInv, Book
<1>11. QED
    BY <1>6, <1>8, <1>10 DEF IInv

LEMMA WriteFileStep ==
    ASSUME IInv, NEW r \in Requests, WriteFile(r)
    PROVE  IInv'
<1> DEFINE x == req[r]
           y == [x EXCEPT !.pc = AfterWrite(x), !.writes = @ - 1]
<1>1. /\ r \in Active /\ x \in Request /\ x.pc = "write" /\ x.nb \in Notebooks
      /\ x.writes >= 1 /\ FileOf(x, file[x.nb])
    BY AtFacts DEF WriteFile
<1>2. /\ y \in Request /\ y.pc = AfterWrite(x) /\ y.orphan = x.orphan
      /\ y.nb = x.nb /\ y.alone = x.alone /\ y.body = x.body
      /\ y.pc \in {"open", "add"} /\ (y.pc = "open" => y.writes >= 1)
    <2> DEFINE p == AfterWrite(x)
               w == x.writes - 1
    <2>1. x.writes \in 0 .. 2
        BY <1>1 DEF Request
    <2>2. p \in {"open", "add"} /\ (p = "open" => w >= 1) /\ w \in 0 .. 2
        BY <1>1, <2>1 DEF AfterWrite
    <2>3. y = [x EXCEPT !.pc = p, !.writes = w]
        OBVIOUS
    <2> HIDE DEF p, w, x, y
    <2>4. /\ y \in Request /\ y.pc = p /\ y.orphan = x.orphan
          /\ y.nb = x.nb /\ y.alone = x.alone /\ y.body = x.body /\ y.writes = w
        BY <1>1, <2>2, <2>3 DEF Request
    <2>5. QED
        BY <2>2, <2>4 DEF p
<1>3. PICK c \in {x.body} \cup (IF file[x.nb] = Empty THEN {} ELSE {Torn}) :
          file' = IF x.orphan THEN file ELSE [file EXCEPT ![x.nb] = c]
    BY DEF WriteFile
<1>4. Goes(r, y) /\ UNCHANGED <<index, lock, commits, head, Book>>
    BY DEF WriteFile
<1> HIDE DEF y
<1>5. c \in Content
    BY <1>1 DEF Request, Content
<1>6. /\ file' \in Tree /\ (~x.orphan => file'[x.nb] = c)
      /\ \A n \in Notebooks : n # x.nb => file'[n] = file[n]
    BY <1>1, <1>3, <1>5 DEF IInv, TypeOK, Tree
<1>7. FileOf(y, file'[y.nb])
    BY <1>1, <1>2, <1>3, <1>6 DEF FileOf
<1>8. Files'
    BY <1>1, <1>2, <1>4, <1>6, <1>7, GoesFiles
<1>9. /\ req' \in [Requests -> Request \cup {None}] /\ req'[r] = y
      /\ \A s \in Requests : s # r => req'[s] = req[s]
    BY <1>1, <1>2, <1>4, GoesFacts DEF IInv
<1>10. TypeOK'
    BY <1>4, <1>6, <1>9 DEF IInv, TypeOK, Book
<1>11. \A s \in Requests : At(s, "index")' <=> At(s, "index")
    BY <1>1, <1>2, <1>9 DEF At
<1>12. OneIndexWriter'
    BY <1>4, <1>11, IndexUntouched DEF IInv, Book
<1>13. QED
    BY <1>8, <1>10, <1>12 DEF IInv

\* A step that ends the request of a thread that does not write the index.
LEMMA EndsIInv ==
    ASSUME IInv, NEW r \in Active, Ends(r), UNCHANGED <<file, index, lock>>,
           req[r].pc \notin {"open", "write", "index"},
           commits' \in Seq(Commit), head' \in 0 .. Len(commits')
    PROVE  IInv'
<1>1. /\ Files'
      /\ req' \in [Requests -> Request \cup {None}]
      /\ acked' \in Tree /\ disputed' \subseteq Notebooks
      /\ UNCHANGED <<arrived, crashes>>
      /\ req'[r] = None
      /\ \A s \in Requests : s # r => req'[s] = req[s]
    BY EndsStep
<1>2. TypeOK'
    BY <1>1 DEF IInv, TypeOK
<1>3. \A s \in Requests : At(s, "index")' <=> At(s, "index")
    BY <1>1 DEF At
<1>4. OneIndexWriter'
    BY <1>1, <1>3, IndexUntouched DEF IInv
<1>5. QED
    BY <1>1, <1>2, <1>4 DEF IInv

LEMMA AddFileStep ==
    ASSUME IInv, NEW r \in Requests, AddFile(r)
    PROVE  IInv'
<1> DEFINE x == req[r]
           y == [x EXCEPT !.pc = "lock", !.blob = file[x.nb], !.base = index]
<1>1. /\ r \in Active /\ x \in Request /\ x.pc = "add" /\ x.nb \in Notebooks
      /\ UNCHANGED <<file, index, lock, commits, head>>
    BY AtFacts DEF AddFile
<1>2. CASE file[x.nb] = Absent
    <2>1. Ends(r)
        BY <1>2 DEF AddFile
    <2>2. commits' \in Seq(Commit) /\ head' \in 0 .. Len(commits')
        BY <1>1 DEF IInv, TypeOK
    <2>3. QED
        BY <1>1, <2>1, <2>2, EndsIInv
<1>3. CASE file[x.nb] # Absent
    <2>1. Goes(r, y) /\ UNCHANGED Book
        BY <1>3 DEF AddFile
    <2>2. file[x.nb] \in Content /\ index \in Tree
        BY <1>1 DEF IInv, TypeOK, Tree
    <2>3. /\ y \in Request /\ y.pc = "lock" /\ y.orphan = x.orphan
          /\ y.nb = x.nb /\ y.alone = x.alone /\ y.body = x.body
        BY <1>1, <2>2 DEF Request
    <2> HIDE DEF y
    <2>4. {y.pc, x.pc} \cap {"open", "write"} = {}
        BY <1>1, <2>3
    <2>5. /\ Files' /\ TypeOK' /\ req'[r] = y
          /\ \A s \in Requests : s # r => req'[s] = req[s]
        BY <1>1, <2>1, <2>2, <2>3, <2>4, QuietStep DEF IInv, TypeOK
    <2>6. \A s \in Requests : At(s, "index")' <=> At(s, "index")
        BY <1>1, <2>3, <2>5 DEF At
    <2>7. OneIndexWriter'
        BY <1>1, <2>1, <2>6, IndexUntouched DEF IInv, Book
    <2>8. QED
        BY <2>5, <2>7 DEF IInv
<1>4. QED
    BY <1>2, <1>3

LEMMA LockIndexStep ==
    ASSUME IInv, NEW r \in Requests, LockIndex(r)
    PROVE  IInv'
<1> DEFINE x == req[r]
           y == [x EXCEPT !.pc = "index"]
<1>1. /\ r \in Active /\ x \in Request /\ x.pc = "lock" /\ x.nb \in Notebooks
      /\ UNCHANGED <<file, index, commits, head>>
    BY AtFacts DEF LockIndex
<1>2. CASE lock
    <2>1. Ends(r) /\ UNCHANGED lock
        BY <1>2 DEF LockIndex, Locked, WhenLocked
    <2>2. commits' \in Seq(Commit) /\ head' \in 0 .. Len(commits')
        BY <1>1 DEF IInv, TypeOK
    <2>3. QED
        BY <1>1, <2>1, <2>2, EndsIInv
<1>3. CASE ~lock
    <2>1. Goes(r, y) /\ UNCHANGED Book /\ lock' = TRUE
        BY <1>3 DEF LockIndex, Locked
    <2>2. /\ y \in Request /\ y.pc = "index" /\ y.orphan = x.orphan
          /\ y.nb = x.nb /\ y.alone = x.alone /\ y.body = x.body
        BY <1>1 DEF Request
    <2> HIDE DEF y
    <2>3. {y.pc, x.pc} \cap {"open", "write"} = {}
        BY <1>1, <2>2
    <2>4. /\ Files' /\ TypeOK' /\ req'[r] = y
          /\ \A s \in Requests : s # r => req'[s] = req[s]
        BY <1>1, <2>1, <2>2, <2>3, QuietStep DEF IInv, TypeOK
    <2>5. \A s \in Requests : ~At(s, "index")
        BY <1>3 DEF IInv, OneIndexWriter, At, Active
    <2>6. \A s \in Requests : At(s, "index")' <=> s = r
        BY <2>2, <2>4, <2>5, NoneIsNoRequest DEF At
    <2>7. r \in Active' /\ Active' \subseteq Requests
        BY <2>2, <2>4, NoneIsNoRequest DEF Active
    <2>8. OneIndexWriter'
        BY <2>1, <2>6, <2>7 DEF OneIndexWriter
    <2>9. QED
        BY <2>4, <2>8 DEF IInv
<1>4. QED
    BY <1>2, <1>3

LEMMA WriteIndexStep ==
    ASSUME IInv, NEW r \in Requests, WriteIndex(r)
    PROVE  IInv'
<1> DEFINE x == req[r]
           y == [x EXCEPT !.pc = "diff"]
<1>1. /\ r \in Active /\ x \in Request /\ x.pc = "index" /\ x.nb \in Notebooks
      /\ At(r, "index")
    BY AtFacts DEF WriteIndex
<1>2. /\ Goes(r, y) /\ index' = Staged(x) /\ lock' = FALSE
      /\ UNCHANGED <<file, commits, head, Book>>
    BY DEF WriteIndex
<1>3. /\ y \in Request /\ y.pc = "diff" /\ y.orphan = x.orphan
      /\ y.nb = x.nb /\ y.alone = x.alone /\ y.body = x.body
    BY <1>1 DEF Request
<1> HIDE DEF y
<1>4. index' \in Tree /\ lock' \in BOOLEAN
    BY <1>1, <1>2 DEF Staged, Request, Tree
<1>5. {y.pc, x.pc} \cap {"open", "write"} = {}
    BY <1>1, <1>3
<1>6. /\ Files' /\ TypeOK' /\ req'[r] = y
      /\ \A s \in Requests : s # r => req'[s] = req[s]
    BY <1>1, <1>2, <1>3, <1>4, <1>5, QuietStep
<1>7. \A s \in Requests : ~At(s, "index")'
    BY <1>1, <1>3, <1>6 DEF IInv, OneIndexWriter, At, Active
<1>8. Active' \subseteq Requests
    BY DEF Active
<1>9. OneIndexWriter'
    BY <1>2, <1>7, <1>8 DEF OneIndexWriter
<1>10. QED
    BY <1>6, <1>9 DEF IInv

LEMMA DiffHeadStep ==
    ASSUME IInv, NEW r \in Requests, DiffHead(r)
    PROVE  IInv'
<1> DEFINE x == req[r]
           y == [x EXCEPT !.pc = "tree"]
<1>1. /\ r \in Active /\ x \in Request /\ x.pc = "diff" /\ x.nb \in Notebooks
      /\ UNCHANGED <<file, index, lock, commits, head>>
    BY AtFacts DEF DiffHead
<1>2. CASE Ends(r)
    <2>1. commits' \in Seq(Commit) /\ head' \in 0 .. Len(commits')
        BY <1>1 DEF IInv, TypeOK
    <2>2. QED
        BY <1>1, <1>2, <2>1, EndsIInv
<1>3. CASE Goes(r, y) /\ UNCHANGED Book
    <2>1. /\ y \in Request /\ y.pc = "tree" /\ y.orphan = x.orphan
          /\ y.nb = x.nb /\ y.alone = x.alone /\ y.body = x.body
        BY <1>1 DEF Request
    <2> HIDE DEF y
    <2>2. {y.pc, x.pc} \cap {"open", "write"} = {}
        BY <1>1, <2>1
    <2>3. /\ Files' /\ TypeOK' /\ req'[r] = y
          /\ \A s \in Requests : s # r => req'[s] = req[s]
        BY <1>1, <1>3, <2>1, <2>2, QuietStep DEF IInv, TypeOK
    <2>4. \A s \in Requests : At(s, "index")' <=> At(s, "index")
        BY <1>1, <2>1, <2>3 DEF At
    <2>5. OneIndexWriter'
        BY <1>1, <1>3, <2>4, IndexUntouched DEF IInv, Book
    <2>6. QED
        BY <2>3, <2>5 DEF IInv
<1>4. QED
    BY <1>2, <1>3 DEF DiffHead

LEMMA WriteTreeStep ==
    ASSUME IInv, NEW r \in Requests, WriteTree(r)
    PROVE  IInv'
<1> DEFINE x == req[r]
           y == [x EXCEPT !.pc = "head", !.tree = index, !.parent = head]
<1>1. /\ r \in Active /\ x \in Request /\ x.pc = "tree" /\ x.nb \in Notebooks
      /\ Goes(r, y) /\ UNCHANGED <<file, index, lock, commits, head, Book>>
    BY AtFacts DEF WriteTree
<1>2. index \in Tree /\ head \in Nat
    BY DEF IInv, TypeOK
<1>3. /\ y \in Request /\ y.pc = "head" /\ y.orphan = x.orphan
      /\ y.nb = x.nb /\ y.alone = x.alone /\ y.body = x.body
    BY <1>1, <1>2 DEF Request
<1> HIDE DEF y
<1>4. {y.pc, x.pc} \cap {"open", "write"} = {}
    BY <1>1, <1>3
<1>5. /\ Files' /\ TypeOK' /\ req'[r] = y
      /\ \A s \in Requests : s # r => req'[s] = req[s]
    BY <1>1, <1>3, <1>4, QuietStep DEF IInv, TypeOK
<1>6. \A s \in Requests : At(s, "index")' <=> At(s, "index")
    BY <1>1, <1>3, <1>5 DEF At
<1>7. OneIndexWriter'
    BY <1>1, <1>6, IndexUntouched DEF IInv, Book
<1>8. QED
    BY <1>5, <1>7 DEF IInv

LEMMA SetHeadStep ==
    ASSUME IInv, NEW r \in Requests, SetHead(r)
    PROVE  IInv'
<1>1. /\ r \in Active /\ req[r] \in Request /\ req[r].pc = "head"
      /\ Ends(r) /\ UNCHANGED <<file, index, lock>>
      /\ commits' = Append(commits, CommitOf(req[r])) /\ head' = Len(commits')
    BY AtFacts DEF SetHead
<1>2. CommitOf(req[r]) \in Commit
    BY <1>1 DEF CommitOf, Commit, Request
<1>3. commits' \in Seq(Commit) /\ head' \in 0 .. Len(commits')
    BY <1>1, <1>2 DEF IInv, TypeOK
<1>4. QED
    BY <1>1, <1>3, EndsIInv

LEMMA CrashStep ==
    ASSUME IInv, Crash
    PROVE  IInv'
<1>1. /\ crashes < MaxCrashes /\ crashes' = crashes + 1
      /\ req' = [r \in Requests |-> None]
      /\ acked' = [n \in Notebooks |-> IF On(n) = {} THEN acked[n] ELSE file[n]]
      /\ disputed' = disputed \cup {req[r].nb : r \in Active}
      /\ UNCHANGED <<file, index, lock, commits, head, arrived>>
    BY DEF Crash
<1>2. Active' = {}
    BY <1>1 DEF Active
<1>3. \A r \in Active : req[r].nb \in Notebooks
    BY DEF Active, IInv, TypeOK, Request
<1>4. TypeOK'
    <2>1. crashes' \in 0 .. MaxCrashes
        BY <1>1, NotebookServerAssumption DEF IInv, TypeOK
    <2>2. acked' \in Tree
        BY <1>1 DEF IInv, TypeOK, Tree
    <2>3. disputed' \subseteq Notebooks
        BY <1>1, <1>3 DEF IInv, TypeOK
    <2>4. req' \in [Requests -> Request \cup {None}]
        BY <1>1
    <2>5. QED
        BY <1>1, <2>1, <2>2, <2>3, <2>4 DEF IInv, TypeOK
<1>5. Fresh' /\ WritesLeft' /\ AloneIsAlone'
    BY <1>1, <1>2 DEF Fresh, WritesLeft, AloneIsAlone
<1>6. DiskIsLastAcknowledged'
    <2> SUFFICES ASSUME NEW n \in Notebooks, n \notin disputed'
                 PROVE  file[n] = acked'[n]
        BY <1>1 DEF DiskIsLastAcknowledged
    <2>1. n \notin disputed /\ On(n) = {}
        BY <1>1 DEF On
    <2>2. QED
        BY <2>1, <1>1 DEF IInv, Files, DiskIsLastAcknowledged
<1>7. OneIndexWriter'
    <2>1. crashes' # 0
        BY <1>1 DEF IInv, TypeOK
    <2>2. QED
        BY <1>2, <2>1 DEF OneIndexWriter
<1>8. QED
    BY <1>4, <1>5, <1>6, <1>7 DEF IInv, Files

LEMMA StutterStep == IInv /\ UNCHANGED vars => IInv'
    BY DEF IInv, TypeOK, Files, Fresh, WritesLeft, AloneIsAlone, FileOf, OneIndexWriter,
           DiskIsLastAcknowledged, Active, On, At, vars

-----------------------------------------------------------------------------

LEMMA NextIInv == IInv /\ [Next]_vars => IInv'
<1> SUFFICES ASSUME IInv, [Next]_vars PROVE IInv'
    OBVIOUS
<1>1. ASSUME NEW n \in Notebooks, NEW c \in Texts, SaveNotebook(n, c) PROVE IInv'
    BY <1>1, SaveStep
<1>2. ASSUME NEW n \in Notebooks, DeleteNotebook(n) PROVE IInv'
    BY <1>2, DeleteStep
<1>3. ASSUME NEW n \in Notebooks, NEW i \in DOMAIN History[n], RestoreNotebook(n, i)
      PROVE  IInv'
    BY <1>3, RestoreStep
<1>4. ASSUME NEW r \in Requests, Step(r) PROVE IInv'
    BY <1>4, OpenFileStep, WriteFileStep, AddFileStep, LockIndexStep, WriteIndexStep,
       DiffHeadStep, WriteTreeStep, SetHeadStep DEF Step
<1>5. CASE Crash
    BY <1>5, CrashStep
<1>6. CASE UNCHANGED vars
    BY <1>6, StutterStep
<1>7. QED
    BY <1>1, <1>2, <1>3, <1>4, <1>5, <1>6 DEF Next

LEMMA SpecIInv == Spec => []IInv
<1>1. QED
    BY InitIInv, NextIInv, PTL DEF Spec

\* The files, the index, the lock and the threads are well formed in every
\* state, for any notebooks, requests, threads and crashes.
THEOREM ServerTypeOK == Spec => []TypeOK
<1>1. IInv => TypeOK
    BY DEF IInv
<1>2. QED
    BY <1>1, SpecIInv, PTL

\* storage.save, storage.delete and the two writes of a restore: whatever
\* other notebooks' requests do meanwhile, and whatever git does or fails to
\* do, a file at rest is what its last request, if it was alone, said.
THEOREM ServerKeepsItsWord == Spec => []DiskIsLastAcknowledged
<1>1. IInv => DiskIsLastAcknowledged
    BY DEF IInv, Files
<1>2. QED
    BY <1>1, SpecIInv, PTL

\* index.add under git's lock file: threads that share a repository never
\* write the index at once, and without a crash the lock has its holder.
THEOREM ServerOneIndexWriter == Spec => []OneIndexWriter
<1>1. IInv => OneIndexWriter
    BY DEF IInv
<1>2. QED
    BY <1>1, SpecIInv, PTL

-----------------------------------------------------------------------------
(* One request at a time.  The history of the commits cs is the fixed point  *)
(* of Ascend, and the only one: commits are made one by one, so what would   *)
(* be an induction over them is one over the behaviour.                      *)

Ascend(cs, h) ==
    [k \in 0 .. Len(cs) |->
        IF k = 0
        THEN [n \in Notebooks |-> <<>>]
        ELSE [n \in Notebooks |-> Listed(h[cs[k].parent][n], cs[k].tree[n])]]

Grounded(cs) == \E h : h = Ascend(cs, h) /\ \A g : g = Ascend(cs, g) => g = h

\* What a commit holds, and the index: never the bytes of a write under way.
Entries == [Notebooks -> Texts \cup {Absent}]

Linked(cs) ==
    \A k \in 1 .. Len(cs) : cs[k].parent \in 0 .. k - 1 /\ cs[k].tree \in Entries

LEMMA HistoryIsFixed ==
    ASSUME NEW cs, NEW h, h = Ascend(cs, h), \A g : g = Ascend(cs, g) => g = h
    PROVE  \A k : HistoryAt(cs, k) = h[k]
<1>1. PICK g : g = CHOOSE Hist : Hist = [i \in 0 .. Len(cs) |->
                       IF i = 0
                       THEN [n \in Notebooks |-> <<>>]
                       ELSE [n \in Notebooks |-> Listed(Hist[cs[i].parent][n], cs[i].tree[n])]]
    OBVIOUS
<1>2. g = Ascend(cs, g)
    BY <1>1 DEF Ascend
<1>3. \A k : HistoryAt(cs, k) = g[k]
    BY <1>1 DEF HistoryAt
<1>4. QED
    BY <1>2, <1>3

\* Without commits there is no history.
LEMMA NoCommits == Grounded(<<>>) /\ HistoryAt(<<>>, 0) = [n \in Notebooks |-> <<>>]
<1> DEFINE h == [k \in {0} |-> [n \in Notebooks |-> <<>>]]
<1>1. \A g : Ascend(<<>>, g) = h
    <2>1. 0 .. Len(<<>>) = {0}
        OBVIOUS
    <2>2. QED
        BY <2>1 DEF Ascend
<1>2. h[0] = [n \in Notebooks |-> <<>>]
    OBVIOUS
<1> HIDE DEF h
<1>3. h = Ascend(<<>>, h) /\ \A g : g = Ascend(<<>>, g) => g = h
    BY <1>1
<1>4. QED
    BY <1>2, <1>3, HistoryIsFixed DEF Grounded

\* A commit c on top of cs adds its own versions and changes no others.
LEMMA OneMoreCommit ==
    ASSUME NEW cs \in Seq(Commit), Linked(cs), Grounded(cs),
           NEW c \in Commit, c.parent \in 0 .. Len(cs),
           NEW ds, ds = Append(cs, c)
    PROVE  /\ Grounded(ds)
           /\ HistoryAt(ds, Len(ds)) =
                  [n \in Notebooks |-> Listed(HistoryAt(cs, c.parent)[n], c.tree[n])]
<1>1. PICK h : h = Ascend(cs, h) /\ \A g : g = Ascend(cs, g) => g = h
    BY DEF Grounded
<1> DEFINE L == Len(cs)
           top == [n \in Notebooks |-> Listed(h[c.parent][n], c.tree[n])]
           k2 == [k \in 0 .. L + 1 |-> IF k = L + 1 THEN top ELSE h[k]]
<1>2. /\ L \in Nat /\ Len(ds) = L + 1 /\ ds[L + 1] = c
      /\ \A k \in 1 .. L : ds[k] = cs[k] /\ cs[k].parent \in 0 .. k - 1
    BY DEF Linked
<1> HIDE DEF L, top
<1>3. /\ DOMAIN h = 0 .. L /\ h[0] = [n \in Notebooks |-> <<>>]
      /\ \A k \in 1 .. L : h[k] = [n \in Notebooks |-> Listed(h[cs[k].parent][n], cs[k].tree[n])]
    <2>1. h = [k \in 0 .. L |->
                  IF k = 0 THEN [n \in Notebooks |-> <<>>]
                  ELSE [n \in Notebooks |-> Listed(h[cs[k].parent][n], cs[k].tree[n])]]
        BY <1>1 DEF Ascend, L
    <2>2. DOMAIN h = 0 .. L
        BY <2>1
    <2>3. \A k \in 0 .. L : h[k] = IF k = 0 THEN [n \in Notebooks |-> <<>>]
                  ELSE [n \in Notebooks |-> Listed(h[cs[k].parent][n], cs[k].tree[n])]
        BY <2>1, Zenon
    <2>4. 0 \in 0 .. L /\ \A k \in 1 .. L : k \in 0 .. L /\ k # 0
        BY <1>2
    <2>5. QED
        BY <2>2, <2>3, <2>4, Zenon
<1>4. /\ k2[0] = h[0] /\ k2[L + 1] = top
      /\ \A k \in 1 .. L : k2[k] = h[k] /\ k2[cs[k].parent] = h[cs[k].parent]
      /\ k2[c.parent] = h[c.parent]
    BY <1>2 DEF L
<1>5. k2 = Ascend(ds, k2)
    <2>1. \A k \in 0 .. L + 1 : k2[k] = Ascend(ds, k2)[k]
        <3> SUFFICES ASSUME NEW k \in 0 .. L + 1 PROVE k2[k] = Ascend(ds, k2)[k]
            OBVIOUS
        <3>1. Ascend(ds, k2)[k] = IF k = 0 THEN [n \in Notebooks |-> <<>>]
                  ELSE [n \in Notebooks |-> Listed(k2[ds[k].parent][n], ds[k].tree[n])]
            BY <1>2 DEF Ascend
        <3>2. CASE k = 0
            BY <3>1, <3>2, <1>3, <1>4
        <3>3. CASE k \in 1 .. L
            <4>1. ds[k] = cs[k] /\ k2[ds[k].parent] = h[cs[k].parent]
                BY <3>3, <1>2, <1>4
            <4>2. QED
                BY <4>1, <3>1, <3>3, <1>3, <1>4
        <3>4. CASE k = L + 1
            <4>1. k # 0 /\ ds[k] = c /\ k2[ds[k].parent] = h[c.parent]
                BY <3>4, <1>2, <1>4
            <4>2. Ascend(ds, k2)[k] = [n \in Notebooks |-> Listed(h[c.parent][n], c.tree[n])]
                BY <4>1, <3>1, Zenon
            <4>3. QED
                BY <4>2, <3>4, <1>4, Zenon DEF top
        <3>5. QED
            BY <3>2, <3>3, <3>4, <1>2
    <2>2. k2 = [k \in 0 .. L + 1 |-> k2[k]] /\ Ascend(ds, k2) = [k \in 0 .. L + 1 |-> Ascend(ds, k2)[k]]
        BY <1>2 DEF Ascend
    <2>3. QED
        BY <2>1, <2>2
<1>6. ASSUME NEW g, g = Ascend(ds, g) PROVE g = k2
    <2> DEFINE r == [k \in 0 .. L |-> g[k]]
    <2>1. /\ DOMAIN g = 0 .. L + 1 /\ g = [k \in 0 .. L + 1 |-> g[k]]
          /\ g[0] = [n \in Notebooks |-> <<>>]
          /\ \A k \in 1 .. L + 1 : g[k] = [n \in Notebooks |-> Listed(g[ds[k].parent][n], ds[k].tree[n])]
        <3>1. g = [k \in 0 .. L + 1 |->
                  IF k = 0 THEN [n \in Notebooks |-> <<>>]
                  ELSE [n \in Notebooks |-> Listed(g[ds[k].parent][n], ds[k].tree[n])]]
            BY <1>6, <1>2 DEF Ascend
        <3>2. DOMAIN g = 0 .. L + 1 /\ g = [k \in 0 .. L + 1 |-> g[k]]
            BY <3>1
        <3>3. \A k \in 0 .. L + 1 : g[k] = IF k = 0 THEN [n \in Notebooks |-> <<>>]
                  ELSE [n \in Notebooks |-> Listed(g[ds[k].parent][n], ds[k].tree[n])]
            BY <3>1, Zenon
        <3>4. 0 \in 0 .. L + 1 /\ \A k \in 1 .. L + 1 : k \in 0 .. L + 1 /\ k # 0
            BY <1>2
        <3>5. QED
            BY <3>2, <3>3, <3>4, Zenon
    <2>2. \A k \in 1 .. L : r[cs[k].parent] = g[cs[k].parent] /\ ds[k] = cs[k] /\ r[k] = g[k]
        BY <1>2
    <2>3. r = Ascend(cs, r)
        <3>1. \A k \in 0 .. L : r[k] = Ascend(cs, r)[k]
            <4> SUFFICES ASSUME NEW k \in 0 .. L PROVE r[k] = Ascend(cs, r)[k]
                OBVIOUS
            <4>1. Ascend(cs, r)[k] = IF k = 0 THEN [n \in Notebooks |-> <<>>]
                      ELSE [n \in Notebooks |-> Listed(r[cs[k].parent][n], cs[k].tree[n])]
                BY DEF Ascend, L
            <4>2. CASE k = 0
                BY <4>1, <4>2, <2>1, <1>2
            <4>3. CASE k \in 1 .. L
                <5>1. k \in 1 .. L + 1 /\ k # 0
                    BY <4>3, <1>2
                <5>2. r[k] = [n \in Notebooks |-> Listed(g[ds[k].parent][n], ds[k].tree[n])]
                    BY <5>1, <4>3, <2>1, <2>2
                <5>3. Ascend(cs, r)[k] = [n \in Notebooks |-> Listed(r[cs[k].parent][n], cs[k].tree[n])]
                    BY <5>1, <4>1, Zenon
                <5>4. ds[k] = cs[k] /\ r[cs[k].parent] = g[cs[k].parent]
                    BY <4>3, <2>2
                <5>5. QED
                    BY <5>2, <5>3, <5>4, Zenon
            <4>4. QED
                BY <4>2, <4>3, <1>2
        <3>2. r = [k \in 0 .. L |-> r[k]] /\ Ascend(cs, r) = [k \in 0 .. L |-> Ascend(cs, r)[k]]
            BY DEF Ascend, L
        <3>3. QED
            BY <3>1, <3>2
    <2>4. r = h
        BY <2>3, <1>1
    <2>5. \A k \in 0 .. L : g[k] = h[k]
        BY <2>4
    <2>6. g[L + 1] = top
        <3>1. L + 1 \in 1 .. L + 1 /\ c.parent \in 0 .. L
            BY <1>2 DEF L
        <3>2. g[L + 1] = [n \in Notebooks |-> Listed(g[ds[L + 1].parent][n], ds[L + 1].tree[n])]
            BY <3>1, <2>1, Zenon
        <3>3. g[ds[L + 1].parent] = h[c.parent] /\ ds[L + 1] = c
            BY <3>1, <2>5, <1>2
        <3>4. QED
            BY <3>2, <3>3, Zenon DEF top
    <2>7. \A k \in 0 .. L + 1 : g[k] = k2[k]
        BY <2>5, <2>6, <1>2
    <2>8. QED
        BY <2>1, <2>7
<1> HIDE DEF k2
<1>7. Grounded(ds)
    BY <1>5, <1>6 DEF Grounded
<1>8. HistoryAt(ds, Len(ds)) = top
    BY <1>2, <1>4, <1>5, <1>6, HistoryIsFixed
<1>9. HistoryAt(cs, c.parent) = h[c.parent]
    BY <1>1, HistoryIsFixed
<1>10. QED
    BY <1>7, <1>8, <1>9 DEF top

-----------------------------------------------------------------------------

\* The request under way, whose notebook's file holds f and was left as a.
Single(x, f, a) ==
    /\ x.alone /\ ~x.orphan
    /\ x.kind = "delete" => x.pc = "add" /\ x.body = Absent
    /\ x.kind # "delete" => x.body \in Texts
    /\ x.pc = "open" => f \in {a, x.body}
    /\ x.pc = "write" => f = Empty
    /\ x.pc \notin {"open", "write"} => f = x.body

\* What it has read of the index and of the branch is still so.
Stages(x, ix, lk) ==
    /\ x.pc \in {"lock", "index"} => x.base = ix /\ x.blob = x.body
    /\ x.pc = "index" => lk
    /\ x.pc \in {"diff", "tree", "head"} =>
           x.base \in Entries /\ ix = [x.base EXCEPT ![x.nb] = x.body] /\ ~lk
    /\ x.pc = "head" => x.tree = ix /\ x.parent = head

OneThread == \A r, s \in Active : r = s

AtRest == \A n \in Notebooks : On(n) = {} => file[n] = acked[n]

UnderWay ==
    \A r \in Active : Single(req[r], file[req[r].nb], acked[req[r].nb]) /\ Stages(req[r], index, lock)

\* Without a text nothing is ever written.
NothingToWrite == Texts = {} => file = NoTree /\ Active = {}

\* The branch is the last commit, and each commit is on top of an older one.
Branch == head = Len(commits) /\ index \in Entries /\ Linked(commits)

\* What was saved is staged and committed, unless nothing is committed any more.
Landed ==
    ~Stuck => \A n \in Notebooks \ disputed :
                  On(n) = {} /\ acked[n] \in Texts => index[n] = acked[n] /\ HeadTree[n] = acked[n]

LastListed(s, c) == c = Absent \/ (s # <<>> /\ s[Len(s)] = c)

\* The history is that of the commits, of notebooks only, and ends with HEAD.
Listing ==
    /\ Grounded(commits)
    /\ History \in [Notebooks -> Seq(Texts)]
    /\ head # 0 => \A n \in Notebooks : LastListed(History[n], HeadTree[n])

SInv == OneThread /\ AtRest /\ UnderWay /\ NothingToWrite /\ Branch /\ Landed /\ Listing

LEMMA InitSInv == Init => SInv
<1> SUFFICES ASSUME Init PROVE SInv
    OBVIOUS
<1>1. Active = {} /\ \A n \in Notebooks : On(n) = {} /\ acked[n] = Absent /\ file[n] = Absent
    BY DEF Init, Active, On, NoTree
<1>2. OneThread /\ AtRest /\ UnderWay /\ NothingToWrite
    BY <1>1 DEF Init, OneThread, AtRest, UnderWay, NothingToWrite
<1>3. Branch
    BY DEF Init, Branch, Entries, NoTree, Linked
<1>4. Landed
    BY <1>1, NotebookServerAssumption DEF Landed
<1>5. Listing
    <2>1. \A n \in Notebooks : <<>> \in Seq(Texts)
        OBVIOUS
    <2>2. History = [n \in Notebooks |-> <<>>]
        BY NoCommits DEF Init, History
    <2>3. QED
        BY <2>1, <2>2, NoCommits DEF Init, Listing
<1>6. QED
    BY <1>2, <1>3, <1>4, <1>5 DEF SInv

\* The thread at work, alone in the server.
LEMMA AloneFacts ==
    ASSUME IInv, SInv, NEW r \in Active
    PROVE  /\ Active = {r} /\ r \in Requests /\ req[r] \in Request /\ req[r].nb \in Notebooks
           /\ Single(req[r], file[req[r].nb], acked[req[r].nb]) /\ Stages(req[r], index, lock)
           /\ \A n \in Notebooks : On(n) = IF n = req[r].nb THEN {r} ELSE {}
<1>1. Active = {r}
    BY DEF SInv, OneThread
<1>2. r \in Requests /\ req[r] \in Request /\ req[r].nb \in Notebooks
    BY DEF Active, IInv, TypeOK, Request
<1>3. \A n \in Notebooks : On(n) = IF n = req[r].nb THEN {r} ELSE {}
    BY <1>1 DEF On
<1>4. QED
    BY <1>1, <1>2, <1>3 DEF SInv, UnderWay

\* A thread goes on as y: what it is about must hold of y, and the index may
\* only change where its own notebook is, or be as staged.
LEMMA GoesSInv ==
    ASSUME IInv, SInv, NEW r \in Active, NEW y \in Request, Goes(r, y),
           y.nb = req[r].nb, file' \in Tree, UNCHANGED <<commits, head, Book>>,
           \A n \in Notebooks : n # y.nb => file'[n] = file[n] /\ index'[n] = index[n],
           Single(y, file'[y.nb], acked[y.nb]), Stages(y, index', lock'), index' \in Entries,
           Stuck' = Stuck
    PROVE  SInv'
<1>1. /\ Active = {r} /\ r \in Requests /\ req[r] \in Request /\ req[r].nb \in Notebooks
      /\ \A n \in Notebooks : On(n) = IF n = req[r].nb THEN {r} ELSE {}
    BY AloneFacts
<1>2. /\ req'[r] = y /\ Active' = {r}
      /\ \A n \in Notebooks : On(n)' = On(n)
    BY <1>1, GoesFacts DEF IInv
<1>3. UNCHANGED <<acked, disputed, commits, head>>
    BY DEF Book
<1>4. OneThread' /\ AtRest' /\ UnderWay' /\ Branch'
    <2>1. OneThread'
        BY <1>2 DEF OneThread
    <2>2. AtRest'
        BY <1>1, <1>2, <1>3 DEF SInv, AtRest
    <2>3. UnderWay'
        BY <1>2, <1>3 DEF UnderWay, Single, Stages
    <2>4. Branch'
        BY <1>3 DEF SInv, Branch, Linked
    <2>5. QED
        BY <2>1, <2>2, <2>3, <2>4
<1>5. NothingToWrite'
    BY <1>1 DEF SInv, NothingToWrite
<1>6. Landed'
    BY <1>1, <1>2, <1>3 DEF SInv, Landed, HeadTree
<1>7. Listing'
    BY <1>3 DEF SInv, Listing, History, HeadTree
<1>8. QED
    BY <1>4, <1>5, <1>6, <1>7 DEF SInv

\* A thread ends, having committed its text unless nothing is committed.
LEMMA EndsSInv ==
    ASSUME IInv, SInv, NEW r \in Active, Ends(r), UNCHANGED <<file, index, lock>>,
           req[r].pc \notin {"open", "write", "index"},
           Branch', Listing',
           ~lock => /\ \A n \in Notebooks : n # req[r].nb /\ index[n] = HeadTree[n] => HeadTree'[n] = index[n]
                    /\ req[r].body \in Texts => /\ index[req[r].nb] = req[r].body
                                                /\ HeadTree'[req[r].nb] = req[r].body
    PROVE  SInv'
<1> DEFINE x == req[r]
<1>1. /\ Active = {r} /\ r \in Requests /\ x \in Request /\ x.nb \in Notebooks
      /\ \A n \in Notebooks : On(n) = IF n = x.nb THEN {r} ELSE {}
      /\ Single(x, file[x.nb], acked[x.nb])
    BY AloneFacts
<1>2. /\ req' = [req EXCEPT ![r] = None]
      /\ acked' = [acked EXCEPT ![x.nb] = x.body]
      /\ disputed' = disputed \ {x.nb}
    BY <1>1 DEF Ends, Single
<1>3. Active' = {} /\ \A n \in Notebooks : On(n)' = {}
    <2>1. \A s \in Requests : req'[s] = None
        BY <1>1, <1>2 DEF Active, IInv, TypeOK
    <2>2. QED
        BY <2>1 DEF Active, On
<1>4. acked'[x.nb] = x.body /\ \A n \in Notebooks : n # x.nb => acked'[n] = acked[n]
    BY <1>1, <1>2 DEF IInv, TypeOK, Tree
<1>5. OneThread' /\ UnderWay' /\ NothingToWrite'
    BY <1>3 DEF OneThread, UnderWay, NothingToWrite, SInv
<1>6. AtRest'
    BY <1>1, <1>4 DEF SInv, AtRest, Single
<1>7. Landed'
    <2>1. Stuck' = lock /\ Stuck = lock
        <3>1. \A s \in Active : ~At(s, "index")
            BY <1>1 DEF At
        <3>2. QED
            BY <3>1, <1>3 DEF Stuck, IInv, TypeOK
    <2> SUFFICES ASSUME ~lock, NEW n \in Notebooks, n \notin disputed', acked'[n] \in Texts
                 PROVE  index[n] = acked'[n] /\ HeadTree'[n] = acked'[n]
        BY <2>1 DEF Landed
    <2>2. CASE n = x.nb
        BY <2>2, <1>4
    <2>3. CASE n # x.nb
        BY <2>1, <2>3, <1>1, <1>2, <1>4 DEF SInv, Landed
    <2>4. QED
        BY <2>2, <2>3
<1>8. QED
    BY <1>5, <1>6, <1>7 DEF SInv

\* A request arrives when none is under way.
LEMMA NobodyElse ==
    ASSUME IInv, MaxActive = 1, Cardinality(Active) < MaxActive
    PROVE  Active = {}
<1>1. IsFiniteSet(1 .. MaxRequests)
    BY NotebookServerAssumption, FS_Interval
<1>2. Active \subseteq 1 .. MaxRequests
    BY DEF Active, Requests
<1>3. IsFiniteSet(Active)
    BY <1>1, <1>2, FS_Subset
<1>4. Cardinality(Active) \in Nat
    BY <1>3, FS_CardinalityType
<1>5. Cardinality(Active) = 0
    BY <1>4
<1>6. QED
    BY <1>3, <1>5, FS_EmptySet

LEMMA ArrivesSInv ==
    ASSUME IInv, SInv, MaxActive = 1, NEW x \in Request, Arrives(x), Texts # {},
           x.pc \in {"open", "add"}, Single(x, file'[x.nb], acked[x.nb]),
           file' \in Tree, \A n \in Notebooks : n # x.nb => file'[n] = file[n]
    PROVE  SInv' /\ Active = {} /\ \E a \in Requests : Active' = {a} /\ req'[a] = x
<1> DEFINE a == arrived + 1
<1>1. /\ a \in Requests /\ arrived' = a
      /\ UNCHANGED <<index, lock, commits, head, acked, disputed>>
      /\ x.nb \in Notebooks
    BY NotebookServerAssumption DEF Arrives, Requests, IInv, TypeOK, Request
<1> HIDE DEF a
<1>2. Active = {} /\ \A n \in Notebooks : On(n) = {}
    <2>1. Active = {}
        BY NobodyElse DEF Arrives
    <2>2. QED
        BY <2>1 DEF On
<1>3. req'[a] = x /\ \A s \in Requests : s # a => req'[s] = None
    <2>1. req' = [s \in Requests |-> IF s = a THEN x
                                     ELSE IF s \in On(x.nb) THEN Disturbed(req[s], x) ELSE req[s]]
        BY <1>1 DEF Arrives
    <2>2. \A s \in Requests : req[s] = None
        BY <1>2 DEF Active
    <2>3. QED
        BY <2>1, <2>2, <1>1, <1>2
<1>4. Active' = {a} /\ \A n \in Notebooks : On(n)' = IF n = x.nb THEN {a} ELSE {}
    <2>1. x # None
        BY NoneIsNoRequest
    <2>2. Active' = {a}
        BY <2>1, <1>1, <1>3 DEF Active
    <2>3. QED
        BY <2>2, <1>3 DEF On
<1>5. OneThread' /\ AtRest' /\ NothingToWrite' /\ Branch'
    BY <1>1, <1>2, <1>4 DEF SInv, OneThread, AtRest, NothingToWrite, Branch, Linked
<1>6. UnderWay'
    BY <1>1, <1>3, <1>4 DEF UnderWay, Single, Stages
<1>7. Landed'
    <2>1. Stuck' = lock /\ Stuck = lock
        <3>1. (\A s \in Active : ~At(s, "index")) /\ (\A s \in Active' : ~At(s, "index")')
            BY <1>2, <1>3, <1>4 DEF At
        <3>2. QED
            BY <3>1, <1>1 DEF Stuck, IInv, TypeOK
    <2>2. QED
        BY <2>1, <1>1, <1>2, <1>4 DEF SInv, Landed, HeadTree
<1>8. Listing'
    BY <1>1 DEF SInv, Listing, History, HeadTree
<1>9. QED
    BY <1>1, <1>2, <1>3, <1>4, <1>5, <1>6, <1>7, <1>8 DEF SInv

LEMMA SaveSInv ==
    ASSUME IInv, SInv, MaxActive = 1, NEW n \in Notebooks, NEW c \in Texts,
           SaveNotebook(n, c) \/ \E i \in DOMAIN History[n] : RestoreNotebook(n, i) /\ c = History[n][i]
    PROVE  SInv' /\ Active = {} /\ (\E a \in Requests : Active' = {a} /\ req'[a].pc = "open") /\ UNCHANGED file
<1>1. PICK kind \in {"save", "restore"}, w \in {1, 2} :
          Arrives(NewRequest(kind, n, c, "open", w)) /\ UNCHANGED file
    BY DEF SaveNotebook, RestoreNotebook
<1> DEFINE x == NewRequest(kind, n, c, "open", w)
<1>2. /\ x \in Request /\ x.nb = n /\ x.pc = "open" /\ x.body = c /\ x.kind = kind /\ ~x.orphan
      /\ x.alone <=> On(n) = {}
    BY NewRequestFacts
<1> HIDE DEF x
<1>3. Active = {}
    BY <1>1, NobodyElse DEF Arrives
<1>4. On(n) = {} /\ file[n] = acked[n]
    BY <1>3 DEF On, SInv, AtRest
<1>5. Single(x, file'[n], acked[n])
    BY <1>1, <1>2, <1>4 DEF Single
<1>6. file' \in Tree /\ Arrives(x) /\ \A k \in Notebooks : k # n => file'[k] = file[k]
    BY <1>1 DEF IInv, TypeOK, x
<1>7. QED
    BY <1>1, <1>2, <1>5, <1>6, ArrivesSInv

LEMMA DeleteSInv ==
    ASSUME IInv, SInv, MaxActive = 1, NEW n \in Notebooks, DeleteNotebook(n)
    PROVE  SInv' /\ Active = {} /\ \E a \in Requests : Active' = {a} /\ req'[a].pc = "add"
<1>1. /\ file[n] # Absent /\ Arrives(NewRequest("delete", n, Absent, "add", 0))
      /\ file' = [file EXCEPT ![n] = Absent]
    BY DEF DeleteNotebook, Unlinked
<1> DEFINE x == NewRequest("delete", n, Absent, "add", 0)
<1>2. /\ x \in Request /\ x.nb = n /\ x.pc = "add" /\ x.body = Absent /\ x.kind = "delete" /\ ~x.orphan
      /\ x.alone <=> On(n) = {}
    BY NewRequestFacts
<1>3. Arrives(x)
    BY <1>1
<1> HIDE DEF x
<1>4. Active = {} /\ On(n) = {}
    <2>1. Active = {}
        BY <1>1, NobodyElse DEF Arrives
    <2>2. QED
        BY <2>1 DEF On
<1>5. /\ file' \in Tree /\ file'[n] = Absent /\ \A k \in Notebooks : k # n => file'[k] = file[k]
    BY <1>1 DEF IInv, TypeOK, Tree, Content
<1>6. Texts # {}
    BY <1>1 DEF SInv, NothingToWrite, NoTree
<1>7. Single(x, file'[n], acked[n])
    BY <1>2, <1>4, <1>5 DEF Single
<1>8. QED
    BY <1>2, <1>3, <1>5, <1>6, <1>7, ArrivesSInv

-----------------------------------------------------------------------------
(* The steps of a thread on its own.                                        *)

\* Nobody holds the lock before or after: the step changes nothing of that.
LEMMA StuckSame ==
    ASSUME IInv, SInv, NEW r \in Active, NEW y \in Request, Goes(r, y),
           y.nb = req[r].nb, UNCHANGED lock, y.pc # "index", req[r].pc # "index"
    PROVE  Stuck' = Stuck /\ Stuck = lock /\ Active' = {r} /\ req'[r] = y
<1>1. /\ Active = {r} /\ Active' = {r} /\ req'[r] = y
    BY AloneFacts, GoesFacts DEF IInv
<1>2. (\A s \in Active : ~At(s, "index")) /\ (\A s \in Active' : ~At(s, "index")')
    BY <1>1 DEF At
<1>3. QED
    BY <1>1, <1>2 DEF Stuck, IInv, TypeOK

LEMMA OpenFileSInv ==
    ASSUME IInv, SInv, NEW r \in Requests, OpenFile(r)
    PROVE  SInv' /\ \E y \in Request : Goes(r, y) /\ y.nb = req[r].nb /\ y.pc = "write"
<1> DEFINE x == req[r]
           y == [x EXCEPT !.pc = "write", !.orphan = FALSE]
<1>1. /\ r \in Active /\ x \in Request /\ x.pc = "open" /\ x.nb \in Notebooks
      /\ Goes(r, y) /\ file' = [file EXCEPT ![x.nb] = Empty]
      /\ UNCHANGED <<index, lock, commits, head, Book>>
    BY AtFacts DEF OpenFile
<1>2. /\ y \in Request /\ y.nb = x.nb /\ y.pc = "write" /\ y.alone = x.alone
      /\ ~y.orphan /\ y.kind = x.kind /\ y.body = x.body
    BY <1>1 DEF Request
<1> HIDE DEF y
<1>3. Single(x, file[x.nb], acked[x.nb]) /\ Stages(x, index, lock)
    BY <1>1, AloneFacts
<1>4. /\ file'[x.nb] = Empty /\ file' \in Tree
      /\ \A n \in Notebooks : n # x.nb => file'[n] = file[n]
    BY <1>1 DEF IInv, TypeOK, Tree, Content
<1>5. Single(y, file'[y.nb], acked[y.nb]) /\ Stages(y, index', lock')
    BY <1>1, <1>2, <1>3, <1>4 DEF Single, Stages
<1>6. Stuck' = Stuck
    BY <1>1, <1>2, StuckSame
<1>7. index' \in Entries
    BY <1>1 DEF SInv, Branch
<1>8. SInv'
    BY <1>1, <1>2, <1>4, <1>5, <1>6, <1>7, GoesSInv
<1>9. QED
    BY <1>1, <1>2, <1>8

LEMMA WriteFileSInv ==
    ASSUME IInv, SInv, NEW r \in Requests, WriteFile(r)
    PROVE  SInv' /\ \E y \in Request : Goes(r, y) /\ y.nb = req[r].nb /\ y.pc \in {"open", "add"}
<1> DEFINE x == req[r]
           n == x.nb
           z == AfterWrite(x)
           w == x.writes - 1
           y == [x EXCEPT !.pc = z, !.writes = w]
<1>1. /\ r \in Active /\ x \in Request /\ x.pc = "write" /\ x.writes >= 1 /\ n \in Notebooks
      /\ Goes(r, y) /\ UNCHANGED <<index, lock, commits, head, Book>>
    BY AtFacts DEF WriteFile
<1>2. Single(x, file[n], acked[n]) /\ Stages(x, index, lock)
    BY <1>1, AloneFacts
<1>3. file' = [file EXCEPT ![n] = x.body] /\ file' \in Tree
    <2>1. ~x.orphan /\ file[n] = Empty
        BY <1>1, <1>2 DEF Single
    <2>2. file' = [file EXCEPT ![n] = x.body]
        BY <2>1 DEF WriteFile
    <2>3. x.body \in Content
        BY <1>1 DEF Request, Content
    <2>4. QED
        BY <2>2, <2>3, <1>1 DEF IInv, TypeOK, Tree
<1>4. z \in {"open", "add"} /\ w \in 0 .. 2
    BY <1>1 DEF AfterWrite, Request
<1> HIDE DEF z, w
<1>5. /\ y \in Request /\ y.nb = x.nb /\ y.pc = z /\ y.alone = x.alone
      /\ y.orphan = x.orphan /\ y.kind = x.kind /\ y.body = x.body
    BY <1>1, <1>4 DEF Request
<1> HIDE DEF y
<1>6. file'[n] = x.body /\ \A k \in Notebooks : k # n => file'[k] = file[k]
    BY <1>1, <1>3 DEF IInv, TypeOK, Tree
<1>7. Single(y, file'[y.nb], acked[y.nb]) /\ Stages(y, index', lock')
    BY <1>1, <1>2, <1>4, <1>5, <1>6 DEF Single, Stages
<1>8. Stuck' = Stuck
    BY <1>1, <1>4, <1>5, StuckSame
<1>9. index' \in Entries
    BY <1>1 DEF SInv, Branch
<1>10. SInv'
    BY <1>1, <1>3, <1>5, <1>6, <1>7, <1>8, <1>9, GoesSInv
<1>11. QED
    BY <1>1, <1>4, <1>5, <1>10

\* A thread that goes on without touching a file.
LEMMA StagesSInv ==
    ASSUME IInv, SInv, NEW r \in Active, NEW y \in Request, Goes(r, y),
           y.nb = req[r].nb, y.body = req[r].body, y.kind = req[r].kind,
           y.alone = req[r].alone, y.orphan = req[r].orphan,
           y.pc \notin {"open", "write", "add"}, req[r].pc \notin {"open", "write"},
           req[r].kind # "delete", UNCHANGED <<file, commits, head, Book>>,
           Stages(y, index', lock'), index' \in Entries,
           \A n \in Notebooks : n # y.nb => index'[n] = index[n],
           Stuck' = Stuck
    PROVE  SInv'
<1>1. Single(req[r], file[req[r].nb], acked[req[r].nb])
    BY AloneFacts
<1>2. Single(y, file'[y.nb], acked[y.nb])
    BY <1>1 DEF Single
<1>3. file' \in Tree
    BY DEF IInv, TypeOK
<1>4. QED
    BY <1>2, <1>3, GoesSInv

LEMMA AddFileSInv ==
    ASSUME IInv, SInv, NEW r \in Requests, AddFile(r)
    PROVE  /\ SInv'
           /\ \/ Ends(r) /\ req[r].body = Absent
              \/ \E y \in Request : Goes(r, y) /\ y.nb = req[r].nb /\ y.pc = "lock"
<1> DEFINE x == req[r]
           c == file[x.nb]
           y == [x EXCEPT !.pc = "lock", !.blob = c, !.base = index]
<1>1. /\ r \in Active /\ x \in Request /\ x.pc = "add" /\ x.nb \in Notebooks
      /\ UNCHANGED <<file, index, lock, commits, head>>
      /\ IF c = Absent THEN Ends(r) ELSE Goes(r, y) /\ UNCHANGED Book
    BY AtFacts DEF AddFile
<1>2. Single(x, c, acked[x.nb]) /\ Stages(x, index, lock) /\ c = x.body
    BY <1>1, AloneFacts DEF Single
<1>3. CASE c = Absent
    <2>1. Branch' /\ Listing' /\ HeadTree' = HeadTree
        BY <1>1 DEF SInv, Branch, Linked, Listing, History, HeadTree
    <2>2. x.body \notin Texts
        BY <1>2, <1>3, NotebookServerAssumption
    <2>3. SInv'
        BY <1>1, <1>2, <1>3, <2>1, <2>2, EndsSInv
    <2>4. QED
        BY <1>1, <1>2, <1>3, <2>3
<1>4. CASE c # Absent
    <2>1. c \in Content /\ index \in Tree /\ index \in Entries /\ x.kind # "delete"
        BY <1>1, <1>2, <1>4 DEF IInv, TypeOK, Tree, Single, SInv, Branch
    <2> HIDE DEF c
    <2>2. /\ y \in Request /\ y.nb = x.nb /\ y.pc = "lock" /\ y.alone = x.alone
          /\ y.orphan = x.orphan /\ y.kind = x.kind /\ y.body = x.body
          /\ y.blob = c /\ y.base = index
        BY <1>1, <2>1 DEF Request
    <2>3. Goes(r, y) /\ UNCHANGED Book
        BY <1>1, <1>4
    <2> HIDE DEF y
    <2>4. Stages(y, index', lock')
        BY <2>2, <1>1, <1>2 DEF Stages
    <2>5. Stuck' = Stuck
        BY <1>1, <2>2, <2>3, StuckSame
    <2>6. SInv'
        BY <1>1, <2>1, <2>2, <2>3, <2>4, <2>5, StagesSInv
    <2>7. QED
        BY <2>2, <2>3, <2>6
<1>5. QED
    BY <1>3, <1>4

LEMMA LockIndexSInv ==
    ASSUME IInv, SInv, NEW r \in Requests, LockIndex(r)
    PROVE  /\ SInv'
           /\ \/ Ends(r) /\ Stuck /\ UNCHANGED lock
              \/ \E y \in Request : Goes(r, y) /\ y.nb = req[r].nb /\ y.pc = "index" /\ ~Stuck /\ ~Stuck'
<1> DEFINE x == req[r]
           y == [x EXCEPT !.pc = "index"]
<1>1. /\ r \in Active /\ x \in Request /\ x.pc = "lock" /\ x.nb \in Notebooks
      /\ UNCHANGED <<file, index, commits, head>>
      /\ IF lock THEN Ends(r) /\ UNCHANGED lock ELSE lock' = TRUE /\ Goes(r, y) /\ UNCHANGED Book
    BY AtFacts DEF LockIndex, Locked, WhenLocked
<1>2. Single(x, file[x.nb], acked[x.nb]) /\ Stages(x, index, lock) /\ x.kind # "delete" /\ Active = {r}
    BY <1>1, AloneFacts DEF Single
<1>3. CASE lock
    <2>1. Branch' /\ Listing'
        BY <1>1 DEF SInv, Branch, Linked, Listing, History, HeadTree
    <2>2. SInv'
        BY <1>1, <1>3, <2>1, EndsSInv
    <2>3. Stuck
        BY <1>1, <1>2, <1>3 DEF Stuck, At
    <2>4. QED
        BY <1>1, <1>3, <2>2, <2>3
<1>4. CASE ~lock
    <2>1. lock' = TRUE /\ Goes(r, y) /\ UNCHANGED Book
        BY <1>1, <1>4
    <2>2. /\ y \in Request /\ y.nb = x.nb /\ y.pc = "index" /\ y.alone = x.alone
          /\ y.orphan = x.orphan /\ y.kind = x.kind /\ y.body = x.body
          /\ y.blob = x.blob /\ y.base = x.base
        BY <1>1 DEF Request
    <2> HIDE DEF y
    <2>3. Stages(y, index', lock') /\ index' \in Entries
        BY <2>1, <2>2, <1>1, <1>2 DEF Stages, SInv, Branch
    <2>4. ~Stuck /\ ~Stuck'
        <3>1. req'[r] = y /\ Active' = Active
            BY <1>1, <2>1, <2>2, GoesFacts DEF IInv
        <3>2. At(r, "index")' /\ r \in Active'
            BY <3>1, <2>2, <1>1, NoneIsNoRequest DEF At
        <3>3. QED
            BY <3>2, <1>4 DEF Stuck
    <2>5. Stuck' = Stuck
        BY <2>4 DEF Stuck
    <2>6. SInv'
        BY <1>1, <1>2, <2>1, <2>2, <2>3, <2>5, StagesSInv
    <2>7. QED
        BY <2>1, <2>2, <2>4, <2>6
<1>5. QED
    BY <1>3, <1>4

LEMMA WriteIndexSInv ==
    ASSUME IInv, SInv, NEW r \in Requests, WriteIndex(r)
    PROVE  /\ SInv' /\ ~Stuck /\ ~Stuck'
           /\ \E y \in Request : Goes(r, y) /\ y.nb = req[r].nb /\ y.pc = "diff" /\ y.base = index
<1> DEFINE x == req[r]
           y == [x EXCEPT !.pc = "diff"]
<1>1. /\ r \in Active /\ x \in Request /\ x.pc = "index" /\ x.nb \in Notebooks
      /\ Goes(r, y) /\ index' = Staged(x) /\ lock' = FALSE
      /\ UNCHANGED <<file, commits, head, Book>> /\ At(r, "index")
    BY AtFacts DEF WriteIndex
<1>2. Single(x, file[x.nb], acked[x.nb]) /\ Stages(x, index, lock) /\ x.kind # "delete" /\ x.body \in Texts
    BY <1>1, AloneFacts DEF Single
<1>3. /\ y \in Request /\ y.nb = x.nb /\ y.pc = "diff" /\ y.alone = x.alone
      /\ y.orphan = x.orphan /\ y.kind = x.kind /\ y.body = x.body /\ y.base = x.base
    BY <1>1 DEF Request
<1> HIDE DEF y
<1>4. /\ x.base = index /\ index \in Entries
      /\ index' = [index EXCEPT ![x.nb] = x.body] /\ index' \in Entries
    <2>1. x.base = index /\ x.blob = x.body /\ index \in Entries
        BY <1>1, <1>2 DEF Stages, SInv, Branch
    <2>2. index' = [index EXCEPT ![x.nb] = x.body]
        BY <1>1, <2>1 DEF Staged
    <2>3. QED
        BY <2>1, <2>2, <1>2 DEF Entries
<1>5. \A n \in Notebooks : n # y.nb => index'[n] = index[n]
    BY <1>3, <1>4 DEF Entries
<1>6. Stages(y, index', lock')
    BY <1>1, <1>3, <1>4 DEF Stages
<1>7. ~Stuck /\ ~Stuck'
    BY <1>1 DEF Stuck
<1>8. SInv'
    <2>1. Stuck' = Stuck
        BY <1>7 DEF Stuck
    <2>2. QED
        BY <1>1, <1>2, <1>3, <1>4, <1>5, <1>6, <2>1, StagesSInv
<1>9. QED
    BY <1>1, <1>3, <1>4, <1>7, <1>8

LEMMA DiffHeadSInv ==
    ASSUME IInv, SInv, NEW r \in Requests, DiffHead(r)
    PROVE  /\ SInv' /\ ~lock
           /\ \/ Ends(r) /\ head # 0 /\ index = HeadTree
              \/ \E y \in Request : Goes(r, y) /\ y.nb = req[r].nb /\ y.pc = "tree" /\ y.base = req[r].base
<1> DEFINE x == req[r]
           y == [x EXCEPT !.pc = "tree"]
<1>1. /\ r \in Active /\ x \in Request /\ x.pc = "diff" /\ x.nb \in Notebooks
      /\ UNCHANGED <<file, index, lock, commits, head>>
      /\ IF head # 0 /\ index = HeadTree THEN Ends(r) ELSE Goes(r, y) /\ UNCHANGED Book
    BY AtFacts DEF DiffHead
<1>2. Single(x, file[x.nb], acked[x.nb]) /\ Stages(x, index, lock) /\ x.kind # "delete"
    BY <1>1, AloneFacts DEF Single
<1>3. /\ x.base \in Entries /\ index = [x.base EXCEPT ![x.nb] = x.body] /\ ~lock
      /\ index[x.nb] = x.body
    BY <1>1, <1>2 DEF Stages, Entries
<1>4. CASE head # 0 /\ index = HeadTree
    <2>1. Branch' /\ Listing' /\ HeadTree' = HeadTree
        BY <1>1 DEF SInv, Branch, Linked, Listing, History, HeadTree
    <2>2. SInv'
        BY <1>1, <1>3, <1>4, <2>1, EndsSInv
    <2>3. QED
        BY <1>1, <1>3, <1>4, <2>2
<1>5. CASE ~(head # 0 /\ index = HeadTree)
    <2>1. Goes(r, y) /\ UNCHANGED Book
        BY <1>1, <1>5
    <2>2. /\ y \in Request /\ y.nb = x.nb /\ y.pc = "tree" /\ y.alone = x.alone
          /\ y.orphan = x.orphan /\ y.kind = x.kind /\ y.body = x.body /\ y.base = x.base
        BY <1>1 DEF Request
    <2> HIDE DEF y
    <2>3. Stages(y, index', lock') /\ index' \in Entries
        BY <2>2, <1>1, <1>3 DEF Stages, SInv, Branch
    <2>4. Stuck' = Stuck
        BY <1>1, <2>1, <2>2, StuckSame
    <2>5. SInv'
        BY <1>1, <1>2, <2>1, <2>2, <2>3, <2>4, StagesSInv
    <2>6. QED
        BY <1>3, <2>1, <2>2, <2>5
<1>6. QED
    BY <1>4, <1>5

LEMMA WriteTreeSInv ==
    ASSUME IInv, SInv, NEW r \in Requests, WriteTree(r)
    PROVE  /\ SInv'
           /\ \E y \in Request : Goes(r, y) /\ y.nb = req[r].nb /\ y.pc = "head" /\ y.base = req[r].base
<1> DEFINE x == req[r]
           y == [x EXCEPT !.pc = "head", !.tree = index, !.parent = head]
<1>1. /\ r \in Active /\ x \in Request /\ x.pc = "tree" /\ x.nb \in Notebooks
      /\ Goes(r, y) /\ UNCHANGED <<file, index, lock, commits, head, Book>>
    BY AtFacts DEF WriteTree
<1>2. Single(x, file[x.nb], acked[x.nb]) /\ Stages(x, index, lock) /\ x.kind # "delete"
    BY <1>1, AloneFacts DEF Single
<1>3. index \in Tree /\ head \in Nat
    BY DEF IInv, TypeOK
<1>4. /\ y \in Request /\ y.nb = x.nb /\ y.pc = "head" /\ y.alone = x.alone
      /\ y.orphan = x.orphan /\ y.kind = x.kind /\ y.body = x.body /\ y.base = x.base
      /\ y.tree = index /\ y.parent = head
    BY <1>1, <1>3 DEF Request
<1> HIDE DEF y
<1>5. Stages(y, index', lock') /\ index' \in Entries
    BY <1>1, <1>2, <1>4 DEF Stages, SInv, Branch
<1>6. Stuck' = Stuck
    BY <1>1, <1>4, StuckSame
<1>7. SInv'
    BY <1>1, <1>2, <1>4, <1>5, <1>6, StagesSInv
<1>8. QED
    BY <1>1, <1>4, <1>7

LEMMA ListedFacts ==
    ASSUME NEW s \in Seq(Texts), NEW c \in Texts \cup {Absent}
    PROVE  /\ Listed(s, c) \in Seq(Texts) /\ LastListed(Listed(s, c), c)
           /\ LastListed(s, c) => Listed(s, c) = s
<1>1. CASE LastListed(s, c)
    BY <1>1 DEF Listed, LastListed
<1>2. CASE ~LastListed(s, c)
    <2>1. c \in Texts /\ Listed(s, c) = Append(s, c)
        BY <1>2 DEF Listed, LastListed
    <2>2. Append(s, c) \in Seq(Texts) /\ Append(s, c) # <<>> /\ Append(s, c)[Len(Append(s, c))] = c
        BY <2>1
    <2>3. QED
        BY <1>2, <2>1, <2>2 DEF LastListed
<1>3. QED
    BY <1>1, <1>2

LEMMA SetHeadSInv ==
    ASSUME IInv, SInv, NEW r \in Requests, SetHead(r)
    PROVE  /\ SInv' /\ ~lock /\ Ends(r)
           /\ History' = [n \in Notebooks |-> Listed(History[n], index[n])]
<1> DEFINE x == req[r]
           c == [tree |-> index, parent |-> head]
<1>1. /\ r \in Active /\ x \in Request /\ x.pc = "head" /\ x.nb \in Notebooks
      /\ Ends(r) /\ UNCHANGED <<file, index, lock>>
      /\ commits' = Append(commits, CommitOf(x)) /\ head' = Len(commits')
    BY AtFacts DEF SetHead
<1>2. Single(x, file[x.nb], acked[x.nb]) /\ Stages(x, index, lock)
    BY <1>1, AloneFacts
<1>3. /\ x.base \in Entries /\ index = [x.base EXCEPT ![x.nb] = x.body] /\ ~lock
      /\ index[x.nb] = x.body /\ x.tree = index /\ x.parent = head
    BY <1>1, <1>2 DEF Stages, Entries
<1>4. /\ index \in Tree /\ index \in Entries /\ head = Len(commits) /\ Linked(commits)
      /\ commits \in Seq(Commit) /\ Grounded(commits) /\ History \in [Notebooks -> Seq(Texts)]
    BY DEF IInv, TypeOK, SInv, Branch, Listing
<1>5. commits' = Append(commits, c) /\ c \in Commit /\ c.tree = index /\ c.parent = head
    BY <1>1, <1>3, <1>4 DEF CommitOf, Commit
<1> HIDE DEF c
<1>6. /\ Len(commits') = Len(commits) + 1 /\ head' = Len(commits) + 1 /\ Len(commits) \in Nat
      /\ commits'[Len(commits) + 1] = c
      /\ \A k \in 1 .. Len(commits) : commits'[k] = commits[k]
    BY <1>1, <1>4, <1>5
<1>7. HeadTree' = index
    BY <1>5, <1>6 DEF HeadTree
<1>8. Branch'
    <2>1. \A k \in 1 .. Len(commits) + 1 : commits'[k].parent \in 0 .. k - 1 /\ commits'[k].tree \in Entries
        <3> SUFFICES ASSUME NEW k \in 1 .. Len(commits) + 1
                     PROVE  commits'[k].parent \in 0 .. k - 1 /\ commits'[k].tree \in Entries
            OBVIOUS
        <3>1. CASE k = Len(commits) + 1
            BY <3>1, <1>4, <1>5, <1>6
        <3>2. CASE k \in 1 .. Len(commits)
            BY <3>2, <1>4, <1>6 DEF Linked
        <3>3. QED
            BY <3>1, <3>2, <1>6
    <2>2. QED
        BY <2>1, <1>1, <1>4, <1>6 DEF Branch, Linked
<1>9. /\ Grounded(commits')
      /\ History' = [n \in Notebooks |-> Listed(History[n], index[n])]
    <2>1. c.parent \in 0 .. Len(commits)
        BY <1>4, <1>5, <1>6
    <2>2. /\ Grounded(commits')
          /\ HistoryAt(commits', Len(commits')) =
                 [n \in Notebooks |-> Listed(HistoryAt(commits, c.parent)[n], c.tree[n])]
        BY <2>1, <1>4, <1>5, OneMoreCommit
    <2>3. QED
        BY <2>2, <1>1, <1>5 DEF History
<1>10. Listing'
    <2>1. \A n \in Notebooks : index[n] \in Texts \cup {Absent} /\ History[n] \in Seq(Texts)
        BY <1>4 DEF Entries
    <2>2. \A n \in Notebooks : /\ Listed(History[n], index[n]) \in Seq(Texts)
                               /\ LastListed(Listed(History[n], index[n]), index[n])
        BY <2>1, ListedFacts
    <2>3. QED
        BY <2>2, <1>7, <1>9 DEF Listing
<1>11. SInv'
    BY <1>1, <1>3, <1>7, <1>8, <1>10, EndsSInv
<1>12. QED
    BY <1>1, <1>3, <1>9, <1>11

LEMMA CrashSInv ==
    ASSUME IInv, SInv, Crash
    PROVE  SInv' /\ Active' = {} /\ (Stuck' <=> lock)
<1>1. /\ req' = [r \in Requests |-> None]
      /\ acked' = [n \in Notebooks |-> IF On(n) = {} THEN acked[n] ELSE file[n]]
      /\ disputed' = disputed \cup {req[r].nb : r \in Active}
      /\ UNCHANGED <<file, index, lock, commits, head>>
    BY DEF Crash
<1>2. Active' = {} /\ \A n \in Notebooks : On(n)' = {}
    BY <1>1 DEF Active, On
<1>3. OneThread' /\ AtRest' /\ UnderWay' /\ NothingToWrite' /\ Branch'
    BY <1>1, <1>2 DEF SInv, OneThread, AtRest, UnderWay, NothingToWrite, Branch, Linked
<1>4. Stuck' <=> lock
    BY <1>1, <1>2 DEF Stuck
<1>5. Landed'
    <2> SUFFICES ASSUME ~lock, NEW n \in Notebooks, n \notin disputed', acked'[n] \in Texts
                 PROVE  index[n] = acked'[n] /\ HeadTree[n] = acked'[n]
        BY <1>1, <1>4 DEF Landed, HeadTree
    <2>1. n \notin disputed /\ On(n) = {}
        BY <1>1 DEF On
    <2>2. acked'[n] = acked[n] /\ ~Stuck
        BY <1>1, <2>1 DEF Stuck
    <2>3. QED
        BY <2>1, <2>2 DEF SInv, Landed
<1>6. Listing'
    BY <1>1 DEF SInv, Listing, History, HeadTree
<1>7. QED
    BY <1>2, <1>3, <1>4, <1>5, <1>6 DEF SInv

LEMMA NextSInv ==
    ASSUME IInv, SInv, MaxActive = 1, [Next]_vars
    PROVE  SInv'
<1>1. ASSUME NEW n \in Notebooks, NEW c \in Texts, SaveNotebook(n, c) PROVE SInv'
    BY <1>1, SaveSInv
<1>2. ASSUME NEW n \in Notebooks, DeleteNotebook(n) PROVE SInv'
    BY <1>2, DeleteSInv
<1>3. ASSUME NEW n \in Notebooks, NEW i \in DOMAIN History[n], RestoreNotebook(n, i)
      PROVE  SInv'
    <2>1. History[n][i] \in Texts
        BY <1>3 DEF RestoreNotebook, Valid
    <2>2. QED
        BY <2>1, <1>3, SaveSInv
<1>4. ASSUME NEW r \in Requests, Step(r) PROVE SInv'
    BY <1>4, OpenFileSInv, WriteFileSInv, AddFileSInv, LockIndexSInv, WriteIndexSInv,
       DiffHeadSInv, WriteTreeSInv, SetHeadSInv DEF Step
<1>5. CASE Crash
    BY <1>5, CrashSInv
<1>6. CASE UNCHANGED vars
    BY <1>6 DEF SInv, OneThread, AtRest, UnderWay, Single, Stages, NothingToWrite, Branch, Linked,
       Landed, Listing, Stuck, Active, On, At, HeadTree, History, vars
<1>7. QED
    BY <1>1, <1>2, <1>3, <1>4, <1>5, <1>6 DEF Next

LEMMA SpecSInv == MaxActive = 1 => (Spec => [](IInv /\ SInv))
<1> SUFFICES ASSUME MaxActive = 1 PROVE Spec => [](IInv /\ SInv)
    OBVIOUS
<1>1. Init => IInv /\ SInv
    BY InitIInv, InitSInv
<1>2. IInv /\ SInv /\ [Next]_vars => (IInv /\ SInv)'
    BY NextIInv, NextSInv
<1>3. QED
    BY <1>1, <1>2, PTL DEF Spec

-----------------------------------------------------------------------------
(* The abstract history.                                                    *)

LEMMA DraftAtRest == Active = {} => Draft = index
BY DEF Draft

LEMMA DraftAtRestAfter == Active' = {} => Draft' = index'
BY DEF Draft

LEMMA DraftOf ==
    ASSUME NEW r, Active = {r}
    PROVE  Draft = IF req[r].pc \in {"diff", "tree", "head"} THEN req[r].base ELSE index
BY DEF Draft

LEMMA DraftOfAfter ==
    ASSUME NEW r, Active' = {r}
    PROVE  Draft' = IF req'[r].pc \in {"diff", "tree", "head"} THEN req'[r].base ELSE index'
BY DEF Draft

\* A step of a thread that goes on is none of the abstract history.
LEMMA GoesOnUnseen ==
    ASSUME IInv, SInv, NEW r \in Active, NEW y \in Request, Goes(r, y), y.nb = req[r].nb,
           UNCHANGED <<acked, commits, head>>, Stuck' = Stuck,
           (IF y.pc \in {"diff", "tree", "head"} THEN y.base ELSE index')
               = (IF req[r].pc \in {"diff", "tree", "head"} THEN req[r].base ELSE index)
    PROVE  UNCHANGED Abstract!histVars
<1>1. Active = {r} /\ Active' = {r} /\ req'[r] = y
    BY AloneFacts, GoesFacts DEF IInv
<1>2. Draft' = Draft
    BY <1>1, DraftOf, DraftOfAfter
<1>3. History' = History
    BY DEF History
<1>4. QED
    BY <1>2, <1>3 DEF Abstract!histVars

\* A thread that ends saves, and records what it has staged or nothing.
LEMMA EndsSeen ==
    ASSUME IInv, SInv, NEW r \in Active, Ends(r), UNCHANGED <<index, lock>>,
           req[r].pc # "index", req[r].kind # "delete",
           \/ /\ ~lock /\ req[r].pc \in {"diff", "tree", "head"}
              /\ History' = [n \in Notebooks |-> Listed(History[n], index[n])]
           \/ Stuck /\ req[r].pc \notin {"diff", "tree", "head"} /\ UNCHANGED <<commits, head>>
    PROVE  Abstract!HistNext
<1> DEFINE x == req[r]
           n == x.nb
<1>1. /\ Active = {r} /\ r \in Requests /\ x \in Request /\ n \in Notebooks
      /\ Single(x, file[n], acked[n]) /\ Stages(x, index, lock)
    BY AloneFacts
<1>2. Active' = {}
    BY <1>1 DEF Ends, Active, IInv, TypeOK
<1>3. acked' = [acked EXCEPT ![n] = x.body] /\ x.body \in Texts
    BY <1>1 DEF Ends, Single
<1>4. (Stuck' <=> lock) /\ (Stuck <=> lock)
    BY <1>1, <1>2 DEF Stuck, At
<1>5. Stuck' = Stuck
    BY <1>4 DEF Stuck
<1>6. Draft' = index
    BY <1>2, DraftAtRestAfter
<1>7. CASE /\ ~lock /\ x.pc \in {"diff", "tree", "head"}
           /\ History' = [k \in Notebooks |-> Listed(History[k], index[k])]
    <2>1. Draft = x.base /\ index = [x.base EXCEPT ![n] = x.body]
        BY <1>1, <1>7, DraftOf DEF Stages
    <2>2. History' = [k \in Notebooks |-> Abstract!Recorded(History[k], Draft'[k])]
        BY <1>6, <1>7 DEF Abstract!Recorded, Listed
    <2>3. Abstract!Record(n, x.body)
        BY <2>1, <2>2, <1>4, <1>6, <1>7 DEF Abstract!Record
    <2>4. Abstract!Save(n, x.body)
        BY <2>3, <1>3, <1>5 DEF Abstract!Save
    <2>5. QED
        BY <2>4, <1>1, <1>3 DEF Abstract!HistNext
<1>8. CASE Stuck /\ x.pc \notin {"diff", "tree", "head"} /\ UNCHANGED <<commits, head>>
    <2>1. Draft' = Draft
        BY <1>1, <1>6, <1>8, DraftOf
    <2>2. History' = History
        BY <1>8 DEF History
    <2>3. Abstract!Save(n, x.body)
        BY <2>1, <2>2, <1>3, <1>5, <1>8 DEF Abstract!Save
    <2>4. QED
        BY <2>3, <1>1, <1>3 DEF Abstract!HistNext
<1>9. QED
    BY <1>7, <1>8

LEMMA StepSeen ==
    ASSUME IInv, SInv, NEW r \in Requests, Step(r)
    PROVE  [Abstract!HistNext]_(Abstract!histVars)
<1>1. ASSUME OpenFile(r) PROVE UNCHANGED Abstract!histVars
    <2>1. PICK y \in Request : Goes(r, y) /\ y.nb = req[r].nb /\ y.pc = "write"
        BY <1>1, OpenFileSInv
    <2>2. r \in Active /\ req[r].pc = "open" /\ UNCHANGED <<index, lock, commits, head, Book>>
        BY <1>1, AtFacts DEF OpenFile
    <2>3. Stuck' = Stuck
        BY <2>1, <2>2, StuckSame
    <2>4. QED
        BY <2>1, <2>2, <2>3, GoesOnUnseen DEF Book
<1>2. ASSUME WriteFile(r) PROVE UNCHANGED Abstract!histVars
    <2>1. PICK y \in Request : Goes(r, y) /\ y.nb = req[r].nb /\ y.pc \in {"open", "add"}
        BY <1>2, WriteFileSInv
    <2>2. r \in Active /\ req[r].pc = "write" /\ UNCHANGED <<index, lock, commits, head, Book>>
        BY <1>2, AtFacts DEF WriteFile
    <2>3. Stuck' = Stuck
        BY <2>1, <2>2, StuckSame
    <2>4. QED
        BY <2>1, <2>2, <2>3, GoesOnUnseen DEF Book
<1>3. ASSUME AddFile(r) PROVE [Abstract!HistNext]_(Abstract!histVars)
    <2>1. /\ r \in Active /\ req[r].pc = "add" /\ UNCHANGED <<index, lock, commits, head>>
          /\ Ends(r) \/ UNCHANGED Book
        BY <1>3, AtFacts DEF AddFile
    <2>2. CASE Ends(r) /\ req[r].body = Absent
        <3>1. /\ Active = {r} /\ req[r].nb \in Notebooks /\ r \in Requests
            BY <2>1, AloneFacts
        <3>2. Active' = {} /\ acked' = [acked EXCEPT ![req[r].nb] = Absent]
            BY <2>2, <3>1 DEF Ends, Active, IInv, TypeOK
        <3>3. Draft' = Draft
            BY <3>1, <3>2, <2>1, DraftOf, DraftAtRestAfter
        <3>4. Stuck' = Stuck
            BY <3>1, <3>2, <2>1 DEF Stuck, At, IInv, TypeOK
        <3>5. History' = History
            BY <2>1 DEF History
        <3>6. Abstract!Delete(req[r].nb)
            BY <3>2, <3>3, <3>4, <3>5 DEF Abstract!Delete
        <3>7. QED
            BY <3>1, <3>6 DEF Abstract!HistNext
    <2>3. ASSUME NEW y \in Request, Goes(r, y), y.nb = req[r].nb, y.pc = "lock"
          PROVE  UNCHANGED Abstract!histVars
        <3>1. Stuck' = Stuck
            BY <2>1, <2>3, StuckSame
        <3>2. UNCHANGED Book
            <4>1. req'[r] = y /\ y # None
                BY <2>1, <2>3, GoesFacts, NoneIsNoRequest DEF IInv
            <4>2. ~Ends(r)
                BY <4>1 DEF Ends, Requests, IInv, TypeOK
            <4>3. QED
                BY <4>2, <2>1
        <3>3. QED
            BY <2>1, <2>3, <3>1, <3>2, GoesOnUnseen DEF Book
    <2>4. QED
        BY <1>3, <2>2, <2>3, AddFileSInv
<1>4. ASSUME LockIndex(r) PROVE [Abstract!HistNext]_(Abstract!histVars)
    <2>1. /\ r \in Active /\ req[r].pc = "lock" /\ UNCHANGED <<index, commits, head>>
          /\ IF lock THEN Ends(r) ELSE UNCHANGED Book
        BY <1>4, AtFacts DEF LockIndex, Locked, WhenLocked
    <2>2. CASE Ends(r) /\ Stuck /\ UNCHANGED lock
        <3>1. req[r].kind # "delete"
            BY <2>1, AloneFacts DEF Single
        <3>2. QED
            BY <2>1, <2>2, <3>1, EndsSeen
    <2>3. ASSUME NEW y \in Request, Goes(r, y), y.nb = req[r].nb, y.pc = "index", ~Stuck, ~Stuck'
          PROVE  UNCHANGED Abstract!histVars
        <3>1. Stuck' = Stuck
            BY <2>3 DEF Stuck
        <3>2. UNCHANGED Book
            <4>1. req'[r] = y /\ y # None
                BY <2>1, <2>3, GoesFacts, NoneIsNoRequest DEF IInv
            <4>2. ~Ends(r)
                BY <4>1 DEF Ends, Requests, IInv, TypeOK
            <4>3. QED
                BY <4>2, <2>1
        <3>3. QED
            BY <2>1, <2>3, <3>1, <3>2, GoesOnUnseen DEF Book
    <2>4. QED
        BY <1>4, <2>2, <2>3, LockIndexSInv
<1>5. ASSUME WriteIndex(r) PROVE UNCHANGED Abstract!histVars
    <2>1. /\ ~Stuck /\ ~Stuck'
          /\ \E y \in Request : Goes(r, y) /\ y.nb = req[r].nb /\ y.pc = "diff" /\ y.base = index
        BY <1>5, WriteIndexSInv
    <2>2. r \in Active /\ req[r].pc = "index" /\ UNCHANGED <<commits, head, Book>>
        BY <1>5, AtFacts DEF WriteIndex
    <2>3. Stuck' = Stuck
        BY <2>1 DEF Stuck
    <2>4. QED
        BY <2>1, <2>2, <2>3, GoesOnUnseen DEF Book
<1>6. ASSUME DiffHead(r) PROVE [Abstract!HistNext]_(Abstract!histVars)
    <2>1. /\ r \in Active /\ req[r].pc = "diff" /\ UNCHANGED <<index, lock, commits, head>> /\ ~lock
          /\ IF head # 0 /\ index = HeadTree THEN Ends(r) ELSE UNCHANGED Book
        BY <1>6, AtFacts, DiffHeadSInv DEF DiffHead
    <2>2. CASE Ends(r) /\ head # 0 /\ index = HeadTree
        <3>1. req[r].kind # "delete"
            BY <2>1, AloneFacts DEF Single
        <3>2. \A n \in Notebooks : Listed(History[n], index[n]) = History[n]
            <4> SUFFICES ASSUME NEW n \in Notebooks PROVE Listed(History[n], index[n]) = History[n]
                OBVIOUS
            <4>1. History[n] \in Seq(Texts) /\ index[n] \in Texts \cup {Absent} /\ LastListed(History[n], index[n])
                BY <2>2 DEF SInv, Listing, Branch, Entries
            <4>2. QED
                BY <4>1, ListedFacts
        <3>3. History' = [n \in Notebooks |-> Listed(History[n], index[n])]
            <4>1. History' = History /\ History = [n \in Notebooks |-> History[n]]
                BY <2>1 DEF History, SInv, Listing
            <4>2. QED
                BY <4>1, <3>2
        <3>4. QED
            BY <2>1, <2>2, <3>1, <3>3, EndsSeen
    <2>3. ASSUME NEW y \in Request, Goes(r, y), y.nb = req[r].nb, y.pc = "tree", y.base = req[r].base
          PROVE  UNCHANGED Abstract!histVars
        <3>1. Stuck' = Stuck
            BY <2>1, <2>3, StuckSame
        <3>2. UNCHANGED Book
            <4>1. req'[r] = y /\ y # None
                BY <2>1, <2>3, GoesFacts, NoneIsNoRequest DEF IInv
            <4>2. ~Ends(r)
                BY <4>1 DEF Ends, Requests, IInv, TypeOK
            <4>3. QED
                BY <4>2, <2>1
        <3>3. QED
            BY <2>1, <2>3, <3>1, <3>2, GoesOnUnseen DEF Book
    <2>4. QED
        BY <1>6, <2>2, <2>3, DiffHeadSInv
<1>7. ASSUME WriteTree(r) PROVE UNCHANGED Abstract!histVars
    <2>1. PICK y \in Request : Goes(r, y) /\ y.nb = req[r].nb /\ y.pc = "head" /\ y.base = req[r].base
        BY <1>7, WriteTreeSInv
    <2>2. r \in Active /\ req[r].pc = "tree" /\ UNCHANGED <<index, lock, commits, head, Book>>
        BY <1>7, AtFacts DEF WriteTree
    <2>3. Stuck' = Stuck
        BY <2>1, <2>2, StuckSame
    <2>4. QED
        BY <2>1, <2>2, <2>3, GoesOnUnseen DEF Book
<1>8. ASSUME SetHead(r) PROVE Abstract!HistNext
    <2>1. r \in Active /\ req[r].pc = "head" /\ UNCHANGED <<index, lock>>
        BY <1>8, AtFacts DEF SetHead
    <2>2. /\ ~lock /\ Ends(r) /\ History' = [n \in Notebooks |-> Listed(History[n], index[n])]
        BY <1>8, SetHeadSInv
    <2>3. req[r].kind # "delete"
        BY <2>1, AloneFacts DEF Single
    <2>4. QED
        BY <2>1, <2>2, <2>3, EndsSeen
<1>9. QED
    BY <1>1, <1>2, <1>3, <1>4, <1>5, <1>6, <1>7, <1>8 DEF Step

\* Nor is the arrival of a request.
LEMMA ArrivalUnseen ==
    ASSUME IInv, Active = {}, NEW a, Active' = {a}, req'[a].pc \in {"open", "add"},
           UNCHANGED <<index, lock, commits, head, acked>>
    PROVE  UNCHANGED Abstract!histVars
<1>1. Draft' = Draft
    BY DraftAtRest, DraftOfAfter
<1>2. Stuck' = Stuck
    BY DEF Stuck, At, IInv, TypeOK
<1>3. History' = History
    BY DEF History
<1>4. QED
    BY <1>1, <1>2, <1>3 DEF Abstract!histVars

LEMMA CrashSeen ==
    ASSUME IInv, SInv, Crash
    PROVE  Abstract!HistNext
<1>1. /\ acked' = [n \in Notebooks |-> IF On(n) = {} THEN acked[n] ELSE file[n]]
      /\ UNCHANGED <<file, index, lock, commits, head>> /\ Active # {}
    BY DEF Crash
<1>2. PICK r \in Active : TRUE
    BY <1>1
<1> DEFINE x == req[r]
           n == x.nb
<1>3. /\ Active = {r} /\ r \in Requests /\ x \in Request /\ n \in Notebooks
      /\ Single(x, file[n], acked[n]) /\ Stages(x, index, lock)
      /\ \A k \in Notebooks : On(k) = IF k = n THEN {r} ELSE {}
    BY <1>2, AloneFacts
<1>4. Active' = {} /\ (Stuck' <=> lock)
    BY CrashSInv
<1>5. acked' = [acked EXCEPT ![n] = file[n]]
    BY <1>1, <1>3 DEF IInv, TypeOK, Tree
<1>6. Draft' = index /\ Draft = IF x.pc \in {"diff", "tree", "head"} THEN x.base ELSE index
    BY <1>1, <1>3, <1>4, DraftAtRestAfter, DraftOf
<1>7. PICK c \in Texts : x.kind # "delete" => c = x.body
    <2>1. Texts # {}
        BY <1>3 DEF SInv, NothingToWrite
    <2>2. QED
        BY <2>1, <1>3 DEF Single
<1>8. file[n] \in {acked[n], c, Empty, Absent}
    BY <1>3, <1>7 DEF Single, Request
<1>9. Draft' \in {Draft, [Draft EXCEPT ![n] = c]}
    <2>1. CASE x.pc \in {"diff", "tree", "head"}
        BY <2>1, <1>3, <1>6, <1>7 DEF Single, Stages
    <2>2. CASE x.pc \notin {"diff", "tree", "head"}
        BY <2>2, <1>6
    <2>3. QED
        BY <2>1, <2>2
<1>10. (~Stuck)' \in {~Stuck, FALSE}
    BY <1>1, <1>4 DEF Stuck
<1>11. History' = History
    BY <1>1 DEF History
<1>12. Abstract!Cut(n, c)
    BY <1>5, <1>8, <1>9, <1>10, <1>11 DEF Abstract!Cut
<1>13. QED
    BY <1>3, <1>7, <1>12 DEF Abstract!HistNext

LEMMA NextSeen ==
    ASSUME IInv, SInv, MaxActive = 1, [Next]_vars
    PROVE  [Abstract!HistNext]_(Abstract!histVars)
<1>1. ASSUME NEW n \in Notebooks, NEW c \in Texts,
             SaveNotebook(n, c) \/ \E i \in DOMAIN History[n] : RestoreNotebook(n, i) /\ c = History[n][i]
      PROVE  UNCHANGED Abstract!histVars
    <2>1. PICK a \in Requests : Active = {} /\ Active' = {a} /\ req'[a].pc = "open"
        BY <1>1, SaveSInv
    <2>2. UNCHANGED <<index, lock, commits, head, acked>>
        BY <1>1 DEF SaveNotebook, RestoreNotebook, Arrives
    <2>3. QED
        BY <2>1, <2>2, ArrivalUnseen
<1>2. ASSUME NEW n \in Notebooks, DeleteNotebook(n) PROVE UNCHANGED Abstract!histVars
    <2>1. PICK a \in Requests : Active = {} /\ Active' = {a} /\ req'[a].pc = "add"
        BY <1>2, DeleteSInv
    <2>2. UNCHANGED <<index, lock, commits, head, acked>>
        BY <1>2 DEF DeleteNotebook, Arrives
    <2>3. QED
        BY <2>1, <2>2, ArrivalUnseen
<1>3. ASSUME NEW n \in Notebooks, NEW i \in DOMAIN History[n], RestoreNotebook(n, i)
      PROVE  UNCHANGED Abstract!histVars
    <2>1. History[n][i] \in Texts
        BY <1>3 DEF RestoreNotebook, Valid
    <2>2. QED
        BY <2>1, <1>1, <1>3
<1>4. CASE UNCHANGED vars
    <2>1. Draft' = Draft /\ Stuck' = Stuck /\ History' = History /\ acked' = acked
        BY <1>4 DEF Draft, Stuck, History, Active, At, vars
    <2>2. QED
        BY <2>1 DEF Abstract!histVars
<1>5. QED
    BY <1>1, <1>2, <1>3, <1>4, StepSeen, CrashSeen DEF Next

\* PUT and POST of a client who waits for each answer: what was saved last of a
\* notebook at rest is what the branch holds, unless a crash has left git's
\* lock behind.
THEOREM ServerEverySaveLands == MaxActive = 1 => (Spec => []EverySaveLands)
<1> SUFFICES ASSUME MaxActive = 1 PROVE Spec => []EverySaveLands
    OBVIOUS
<1>1. SInv => EverySaveLands
    BY DEF SInv, Landed, EverySaveLands, On
<1>2. QED
    BY <1>1, SpecSInv, PTL

\* git_store.history and read_at for such a client: each version listed is a
\* notebook, never the bytes of a write under way or of one that was cut short.
THEOREM ServerSnapshotsRestorable == MaxActive = 1 => (Spec => []SnapshotsAreRestorable)
<1> SUFFICES ASSUME MaxActive = 1 PROVE Spec => []SnapshotsAreRestorable
    OBVIOUS
<1>1. SInv => SnapshotsAreRestorable
    <2> SUFFICES ASSUME SInv, NEW n \in Notebooks, NEW i \in DOMAIN History[n]
                 PROVE  History[n][i] \in Texts
        BY DEF SnapshotsAreRestorable
    <2>1. History[n] \in Seq(Texts)
        BY DEF SInv, Listing
    <2>2. QED
        BY <2>1
<1>2. QED
    BY <1>1, SpecSInv, PTL

\* The endpoints, storage.py and git_store.py implement NotebookHistory for
\* such a client: a request takes effect as a whole when it ends, each save
\* that changes the notebook is listed once and the list is never rewritten,
\* through any number of crashes.
THEOREM ServerImplementsHistory == MaxActive = 1 => (Spec => ImplementsHistory)
<1> SUFFICES ASSUME MaxActive = 1 PROVE Spec => ImplementsHistory
    OBVIOUS
<1>1. Init => Abstract!HistInit
    <2> SUFFICES ASSUME Init PROVE Abstract!HistInit
        OBVIOUS
    <2>1. Active = {}
        BY DEF Init, Active
    <2>2. Draft = acked /\ acked = [n \in Notebooks |-> Absent]
        BY <2>1, DraftAtRest DEF Init, NoTree
    <2>3. History = [n \in Notebooks |-> <<>>]
        BY NoCommits DEF Init, History
    <2>4. (~Stuck) = TRUE
        BY DEF Init, Stuck
    <2>5. QED
        BY <2>2, <2>3, <2>4 DEF Abstract!HistInit
<1>2. IInv /\ SInv /\ [Next]_vars => [Abstract!HistNext]_(Abstract!histVars)
    BY NextSeen
<1>3. QED
    BY <1>1, <1>2, SpecSInv, PTL DEF Spec, ImplementsHistory, Abstract!HistSpec
=============================================================================
