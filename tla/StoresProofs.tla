---------------------------- MODULE StoresProofs ----------------------------
(***************************************************************************)
(* That a revoked page stays out of reach, and that the stores hold what   *)
(* was applied to them, for any requests, any number of them at once and   *)
(* any crashes.                                                            *)
(***************************************************************************)
EXTENDS Parts, FiniteSetTheorems, TLAPS

WellFormed(q) ==
    q = [kind |-> q.kind, pc |-> q.pc, id |-> q.id, val |-> q.val, copy |-> q.copy,
         fd |-> q.fd, again |-> q.again, gone |-> q.gone]

Shape == req = [r \in Reqs |-> req[r]] /\ \A r \in Reqs : WellFormed(req[r])

\* Pages are viewed in the store of pages, by requests that do nothing else.
Views ==
    \A r \in Reqs :
        /\ req[r].kind = "view" => req[r].pc \in {"idle", "find", "serve"} \cup Files!Ended
        /\ req[r].kind = "view" /\ req[r].pc # "idle" => store = "published"
        /\ req[r].pc \in {"find", "serve"} => req[r].kind = "view"

\* Only what has been added is removed.
RemovesKnown == \A r \in Reqs : req[r].kind = "remove" /\ req[r].pc # "idle" => req[r].id \in Files!Known

\* A page that is gone stays away.
RemovedIsAway == store = "published" => Files!Removed \cap pages = {}

GoneIsRemoved == \A r \in Reqs : req[r].gone = TRUE => req[r].id \in Files!Removed

FilesInv == Shape /\ Views /\ RemovesKnown /\ RemovedIsAway /\ GoneIsRemoved /\ Files!UnpublishIsFinal

LEMMA FilesInitEstablishes ==
    ASSUME Files!Init PROVE FilesInv
<1>1. \A r \in Reqs : req[r] = Files!Idle
  BY DEF Files!Init
<1>2. Files!Removed = {}
  BY <1>1 DEF Files!Removed, Files!Idle, Files!Request
<1> QED BY <1>1, <1>2 DEF Files!Init, FilesInv, Shape, WellFormed, Views, RemovesKnown, RemovedIsAway,
                          GoneIsRemoved, Files!UnpublishIsFinal, Files!Idle, Files!Request

---------------------------------------------------------------------------
(* What a step of r leaves of the requests: each keeps what it is about,   *)
(* and only r goes on.                                                     *)
Keeps(s) ==
    WellFormed(req'[s]) /\ req'[s].kind = req[s].kind /\ req'[s].id = req[s].id
    /\ req'[s].gone = req[s].gone

StepOf(r) ==
    /\ req' = [s \in Reqs |-> req'[s]]
    /\ Keeps(r) /\ \A s \in Reqs \ {r} : Keeps(s) /\ req'[s].pc = req[s].pc
    /\ store' = store

\* What stays of a request that goes on to pc with another field changed.
Goes(q, t, pc) ==
    WellFormed(t) /\ t.kind = q.kind /\ t.id = q.id /\ t.gone = q.gone /\ t.pc = pc

LEMMA FieldChanges ==
    ASSUME NEW q, WellFormed(q), NEW x
    PROVE  /\ Goes(q, [q EXCEPT !.pc = x], x)
           /\ Goes(q, [q EXCEPT !.val = x], q.pc)
           /\ Goes(q, [q EXCEPT !.again = x], q.pc)
           /\ Goes(q, [q EXCEPT !.copy = x], q.pc)
           /\ Goes(q, [q EXCEPT !.fd = x], q.pc)
<1>1. Goes(q, [q EXCEPT !.pc = x], x)
  BY DEF Goes, WellFormed
<1>2. Goes(q, [q EXCEPT !.val = x], q.pc)
  BY DEF Goes, WellFormed
<1>3. Goes(q, [q EXCEPT !.again = x], q.pc)
  BY DEF Goes, WellFormed
<1>4. Goes(q, [q EXCEPT !.copy = x], q.pc)
  BY DEF Goes, WellFormed
<1>5. Goes(q, [q EXCEPT !.fd = x], q.pc)
  BY DEF Goes, WellFormed
<1> QED BY <1>1, <1>2, <1>3, <1>4, <1>5

LEMMA FieldsChange ==
    ASSUME NEW q, WellFormed(q), NEW pc, NEW x, NEW y
    PROVE  /\ Goes(q, [q EXCEPT !.pc = pc], pc)
           /\ Goes(q, [q EXCEPT !.pc = pc, !.val = x], pc)
           /\ Goes(q, [q EXCEPT !.pc = pc, !.again = x], pc)
           /\ Goes(q, [q EXCEPT !.pc = pc, !.copy = x], pc)
           /\ Goes(q, [q EXCEPT !.pc = pc, !.fd = x], pc)
           /\ Goes(q, [q EXCEPT !.pc = pc, !.fd = x, !.copy = y], pc)
<1> DEFINE t == [q EXCEPT !.pc = pc]
           u == [t EXCEPT !.fd = x]
<1>1. Goes(q, t, pc)
  BY FieldChanges
<1>2. /\ [q EXCEPT !.pc = pc, !.val = x] = [t EXCEPT !.val = x]
      /\ [q EXCEPT !.pc = pc, !.again = x] = [t EXCEPT !.again = x]
      /\ [q EXCEPT !.pc = pc, !.copy = x] = [t EXCEPT !.copy = x]
      /\ [q EXCEPT !.pc = pc, !.fd = x] = u
      /\ [q EXCEPT !.pc = pc, !.fd = x, !.copy = y] = [u EXCEPT !.copy = y]
  OBVIOUS
<1>3. [q EXCEPT !.pc = pc] = t
  OBVIOUS
<1> HIDE DEF t
<1>4. WellFormed(t)
  BY <1>1 DEF Goes
<1>5. Goes(t, u, t.pc)
  BY <1>4, FieldChanges
<1> HIDE DEF u
<1>6. WellFormed(u)
  BY <1>5 DEF Goes
<1>7. /\ Goes(t, [t EXCEPT !.val = x], t.pc) /\ Goes(t, [t EXCEPT !.again = x], t.pc)
      /\ Goes(t, [t EXCEPT !.copy = x], t.pc) /\ Goes(u, [u EXCEPT !.copy = y], u.pc)
  BY <1>4, <1>6, FieldChanges
<1> QED BY <1>1, <1>2, <1>3, <1>5, <1>7 DEF Goes

\* One request changes.
LEMMA OneChanges ==
    ASSUME Shape, NEW r \in Reqs, NEW q, req' = [req EXCEPT ![r] = q], WellFormed(q),
           q.kind = req[r].kind, q.id = req[r].id, q.gone = req[r].gone, store' = store
    PROVE  StepOf(r) /\ req'[r] = q
BY DEF Shape, StepOf, Keeps

\* A file that is open moves: the requests that have it open know it under
\* its new name.
LEMMA FollowKeeps ==
    ASSUME NEW q, NEW from, NEW to, WellFormed(q)
    PROVE  WellFormed(Files!Follow(q, from, to)) /\ Files!Follow(q, from, to).pc = q.pc
           /\ Files!Follow(q, from, to).kind = q.kind /\ Files!Follow(q, from, to).id = q.id
           /\ Files!Follow(q, from, to).gone = q.gone
BY DEF Files!Follow, WellFormed

LEMMA ReadingIs ==
    ASSUME Shape, NEW r \in Reqs, NEW q, Files!Reading(r, q), WellFormed(q),
           q.kind = req[r].kind, q.id = req[r].id, q.gone = req[r].gone, store' = store
    PROVE  StepOf(r) /\ req'[r] = q
<1>1. CASE req' = [req EXCEPT ![r] = q]
  BY <1>1, OneChanges
<1>2. CASE req' = [s \in Reqs |-> IF s = r THEN q ELSE Files!Follow(req[s], "main", "bak")]
  <2>1. \A s \in Reqs \ {r} : WellFormed(req[s]) /\ req'[s] = Files!Follow(req[s], "main", "bak")
    BY <1>2 DEF Shape
  <2> QED BY <1>2, <2>1, FollowKeeps DEF StepOf, Keeps
<1> QED BY <1>1, <1>2 DEF Files!Reading

---------------------------------------------------------------------------
\* What a step gives whoever has ended: what was known and removed remains so.
LEMMA StepKeepsSets ==
    ASSUME NEW r \in Reqs, StepOf(r), req[r].pc # "ok"
    PROVE  /\ Files!Known \subseteq Files!Known' /\ Files!Removed \subseteq Files!Removed'
           /\ \A i \in Files!Removed' \ Files!Removed : req'[r].kind = "remove" /\ req'[r].pc = "ok" /\ i = req'[r].id
<1>1. \A s \in Reqs : req[s].pc = "ok" => req'[s].pc = "ok" /\ req'[s].kind = req[s].kind /\ req'[s].id = req[s].id
  BY DEF StepOf, Keeps
<1>2. \A s \in Reqs \ {r} : req'[s].pc = req[s].pc /\ req'[s].kind = req[s].kind /\ req'[s].id = req[s].id
  BY DEF StepOf, Keeps
<1> QED BY <1>1, <1>2 DEF Files!Known, Files!Removed

\* A request that is no view goes on, and does not end the removal of a page.
LEMMA QuietKeeps ==
    ASSUME FilesInv, NEW r \in Reqs, StepOf(r), pages' = pages,
           req[r].pc \in Files!Running \ {"find", "serve"}, req'[r].pc \notin {"idle", "find", "serve"},
           req'[r].pc = "ok" => req[r].kind # "remove" \/ store # "published"
    PROVE  FilesInv'
<1>1. req[r].pc # "ok" /\ req[r].pc # "idle" /\ req[r].kind # "view"
  BY DEF FilesInv, Views, Files!Running, Files!Ended
<1>2. /\ Files!Known \subseteq Files!Known' /\ Files!Removed \subseteq Files!Removed'
      /\ \A i \in Files!Removed' \ Files!Removed : req'[r].kind = "remove" /\ req'[r].pc = "ok"
  BY <1>1, StepKeepsSets
<1>3. Shape'
  BY DEF StepOf, Keeps, Shape
<1>4. Views'
  BY <1>1 DEF FilesInv, Views, StepOf, Keeps
<1>5. RemovesKnown'
  BY <1>1, <1>2 DEF FilesInv, RemovesKnown, StepOf, Keeps
<1>6. RemovedIsAway'
  BY <1>2 DEF FilesInv, RemovedIsAway, StepOf, Keeps
<1>7. GoneIsRemoved'
  BY <1>2 DEF FilesInv, GoneIsRemoved, StepOf, Keeps
<1>8. Files!UnpublishIsFinal'
  BY <1>1 DEF FilesInv, Files!UnpublishIsFinal, StepOf, Keeps
<1> QED BY <1>3, <1>4, <1>5, <1>6, <1>7, <1>8 DEF FilesInv

LEMMA ArriveKeeps ==
    ASSUME FilesInv, NEW r \in Reqs, req[r].pc = "idle", UNCHANGED <<store, pages>>,
           NEW g, g \in BOOLEAN, NEW q, WellFormed(q), q.gone = g, g = TRUE => q.id \in Files!Removed,
           req' = [req EXCEPT ![r] = q],
           q.pc \in Files!Running,
           q.pc \in {"find", "serve"} <=> q.kind = "view",
           q.kind = "view" => store = "published",
           q.kind = "remove" => q.id \in Files!Known
    PROVE  FilesInv'
<1>1. req'[r] = q /\ \A s \in Reqs \ {r} : req'[s] = req[s]
  BY DEF FilesInv, Shape
<1>2. q.pc # "ok" /\ q.pc # "idle"
  BY DEF Files!Running
<1>3. Files!Known' = Files!Known /\ Files!Removed' = Files!Removed
  BY <1>1, <1>2 DEF Files!Known, Files!Removed
<1>4. Shape'
  BY <1>1 DEF FilesInv, Shape
<1>5. Views' /\ RemovesKnown' /\ RemovedIsAway' /\ GoneIsRemoved' /\ Files!UnpublishIsFinal'
  BY <1>1, <1>2, <1>3
     DEF FilesInv, Views, RemovesKnown, RemovedIsAway, GoneIsRemoved, Files!UnpublishIsFinal
<1> QED BY <1>4, <1>5 DEF FilesInv

LEMMA ArrivesKeep ==
    ASSUME FilesInv, NEW r \in Reqs, Files!Arrives(r)
    PROVE  FilesInv'
<1>1. \E kind, i, v, pc :
        /\ Files!Arrive(r, kind, i, v, pc)
        /\ pc \in Files!Running
        /\ pc \in {"find", "serve"} <=> kind = "view"
        /\ kind = "view" => store = "published"
        /\ kind = "remove" => i \in Files!Known
  <2>1. CASE Files!Create(r)
    <3> DEFINE first == IF store = "uploads" THEN "choose"
                        ELSE IF store = "published" THEN "page" ELSE "copy"
    <3>1. PICK v : Files!Arrive(r, "add", r, v, first)
      BY <2>1 DEF Files!Create
    <3>2. PICK pc : pc = first
      OBVIOUS
    <3>3. pc \in Files!Running \ {"find", "serve"}
      BY <3>2 DEF Files!Running
    <3> QED BY <3>1, <3>2, <3>3
  <2>2. CASE Files!Delete(r)
    BY <2>2 DEF Files!Delete, Files!Running
  <2>3. CASE Files!Edit(r)
    <3> DEFINE first == IF store = "uploads" THEN "choose" ELSE "copy"
    <3>1. PICK i, b : Files!Arrive(r, "set", i, IF b = None THEN None ELSE Files!Named(b), first)
      BY <2>3 DEF Files!Edit
    <3>2. PICK pc, v : pc = first /\ v = IF b = None THEN None ELSE Files!Named(b)
      OBVIOUS
    <3>3. pc \in Files!Running \ {"find", "serve"}
      BY <3>2 DEF Files!Running
    <3> QED BY <3>1, <3>2, <3>3
  <2>4. CASE Files!TestConnection(r)
    BY <2>4 DEF Files!TestConnection, Files!Running
  <2>5. CASE Files!ViewPublished(r)
    BY <2>5 DEF Files!ViewPublished, Files!Running
  <2>6. CASE Files!Erase(r)
    BY <2>6 DEF Files!Erase, Files!Running
  <2> QED BY <2>1, <2>2, <2>3, <2>4, <2>5, <2>6 DEF Files!Arrives
<1>2. PICK kind, i, v, pc :
        /\ Files!Arrive(r, kind, i, v, pc)
        /\ pc \in Files!Running
        /\ pc \in {"find", "serve"} <=> kind = "view"
        /\ kind = "view" => store = "published"
        /\ kind = "remove" => i \in Files!Known
  BY <1>1
<1> DEFINE g == i \in Files!Removed
<1>3. /\ g \in BOOLEAN /\ (g = TRUE => i \in Files!Removed)
      /\ req' = [req EXCEPT ![r] = Files!Request(kind, i, v, pc, g)]
  BY <1>2 DEF Files!Arrive
<1> HIDE DEF g
<1>4. req[r].pc = "idle" /\ UNCHANGED <<store, pages>>
  BY <1>2 DEF Files!Arrive
<1> DEFINE q == Files!Request(kind, i, v, pc, g)
<1>5. WellFormed(q) /\ q.gone = g /\ q.id = i /\ q.kind = kind /\ q.pc = pc
  BY DEF Files!Request, WellFormed
<1>6. req' = [req EXCEPT ![r] = q]
  BY <1>3
<1> HIDE DEF q
<1> QED BY <1>2, <1>3, <1>4, <1>5, <1>6, ArriveKeeps

---------------------------------------------------------------------------
\* The steps that leave pages alone and do not end the removal of one.
\* A request that goes on by itself, to where it cannot have ended a removal.
LEMMA GoesKeeps ==
    ASSUME FilesInv, NEW r \in Reqs, NEW q, req' = [req EXCEPT ![r] = q], NEW pc, Goes(req[r], q, pc),
           UNCHANGED <<store, pages>>,
           req[r].pc \in Files!Running \ {"find", "serve"}, pc \notin {"idle", "find", "serve"},
           pc = "ok" => req[r].kind # "remove" \/ store # "published"
    PROVE  FilesInv'
<1>1. StepOf(r) /\ req'[r] = q
  BY OneChanges DEF FilesInv, Goes
<1> QED BY <1>1, QuietKeeps DEF Goes

LEMMA ChooseKeeps ==
    ASSUME FilesInv, NEW r \in Reqs, Files!ChooseName(r)
    PROVE  FilesInv'
<1> DEFINE pc == IF req[r].kind = "add" THEN "page" ELSE "copy"
<1>1. WellFormed(req[r]) /\ req = [s \in Reqs |-> req[s]]
  BY DEF FilesInv, Shape
<1>2. PICK v : req' = [req EXCEPT ![r] = [req[r] EXCEPT !.val = v, !.pc = pc]]
  <2>1. PICK n : req' = [req EXCEPT ![r].val = [@ EXCEPT !.suffix = n],
                                    ![r].pc = IF req[r].kind = "add" THEN "page" ELSE "copy"]
    BY DEF Files!ChooseName
  <2>2. PICK v : v = [req[r].val EXCEPT !.suffix = n]
    OBVIOUS
  <2> QED BY <1>1, <2>1, <2>2
<1> DEFINE q == [req[r] EXCEPT !.pc = pc, !.val = v]
<1>3. pc \in {"page", "copy"}
  OBVIOUS
<1> HIDE DEF pc
<1>4. [req[r] EXCEPT !.val = v, !.pc = pc] = q
  OBVIOUS
<1>5. Goes(req[r], q, pc)
  BY <1>1, FieldsChange
<1> HIDE DEF q
<1>6. req[r].pc = "choose" /\ UNCHANGED <<store, pages>>
  BY DEF Files!ChooseName, Files!Rest
<1> QED BY <1>2, <1>3, <1>4, <1>5, <1>6, GoesKeeps DEF Files!Running

LEMMA GetKeeps ==
    ASSUME FilesInv, NEW r \in Reqs, Files!GetConnection(r)
    PROVE  FilesInv'
<1>1. WellFormed(req[r]) /\ req = [s \in Reqs |-> req[s]]
  BY DEF FilesInv, Shape
<1>2. PICK pc \in {"engine", "failed"} : req' = [req EXCEPT ![r] = [req[r] EXCEPT !.pc = pc]]
  <2>1. \E pc \in {"engine", "failed"} : req' = [req EXCEPT ![r].pc = pc]
    BY DEF Files!GetConnection
  <2> QED BY <1>1, <2>1
<1> DEFINE q == [req[r] EXCEPT !.pc = pc]
<1>3. Goes(req[r], q, pc)
  BY <1>1, FieldsChange
<1>4. req' = [req EXCEPT ![r] = q]
  BY <1>2
<1> HIDE DEF q
<1>5. req[r].pc = "get" /\ UNCHANGED <<store, pages>>
  BY DEF Files!GetConnection, Files!Rest
<1> QED BY <1>3, <1>4, <1>5, GoesKeeps DEF Files!Running

LEMMA EngineKeeps ==
    ASSUME FilesInv, NEW r \in Reqs, Files!EngineAnswers(r)
    PROVE  FilesInv'
<1>1. WellFormed(req[r]) /\ req = [s \in Reqs |-> req[s]]
  BY DEF FilesInv, Shape
<1>2. PICK again \in BOOLEAN : req' = [req EXCEPT ![r] = [req[r] EXCEPT !.pc = "copy", !.again = again]]
  <2>1. PICK again \in BOOLEAN : req' = [req EXCEPT ![r].pc = "copy", ![r].again = again]
    BY DEF Files!EngineAnswers
  <2>2. req' = [req EXCEPT ![r] = [req[r] EXCEPT !.pc = "copy", !.again = again]]
    BY <1>1, <2>1
  <2> QED BY <2>2
<1> DEFINE q == [req[r] EXCEPT !.pc = "copy", !.again = again]
<1>3. Goes(req[r], q, "copy")
  BY <1>1, FieldsChange
<1>4. req' = [req EXCEPT ![r] = q]
  BY <1>2
<1> HIDE DEF q
<1>5. req[r].pc = "engine" /\ UNCHANGED <<store, pages>>
  BY DEF Files!EngineAnswers, Files!Rest
<1> QED BY <1>3, <1>4, <1>5, GoesKeeps DEF Files!Running

\* A change that is refused fails, or stores a failure.
LEMMA FailsIs ==
    ASSUME NEW q, WellFormed(q), q.pc = "copy"
    PROVE  /\ WellFormed(Files!Fails(q)) /\ Files!Fails(q).pc \in {"copy", "failed"}
           /\ Files!Fails(q).kind = q.kind /\ Files!Fails(q).id = q.id /\ Files!Fails(q).gone = q.gone
<1>1. CASE Files!Fails(q) = [q EXCEPT !.again = TRUE]
  BY <1>1 DEF WellFormed
<1>2. CASE Files!Fails(q) = [q EXCEPT !.pc = "failed", !.copy = {}]
  BY <1>2 DEF WellFormed
<1> QED BY <1>1, <1>2 DEF Files!Fails

LEMMA TakeCopyKeeps ==
    ASSUME FilesInv, NEW r \in Reqs, Files!TakeCopy(r)
    PROVE  FilesInv'
<1>1. WellFormed(req[r]) /\ req[r].pc = "copy"
  BY DEF FilesInv, Shape, Files!TakeCopy
<1>2. PICK q : /\ Files!Reading(r, q) /\ WellFormed(q)
               /\ q.kind = req[r].kind /\ q.id = req[r].id /\ q.gone = req[r].gone
               /\ q.pc \in {"open", "copy", "failed"}
  <2> DEFINE new == IF Files!Main = Refused THEN Refused ELSE Files!Changed(req[r], Files!Main)
  <2>1. Files!Reading(r, IF new = Refused THEN Files!Fails(req[r]) ELSE [req[r] EXCEPT !.pc = "open", !.copy = new])
    BY DEF Files!TakeCopy
  <2> HIDE DEF new
  <2>2. CASE new = Refused
    <3>1. Files!Reading(r, Files!Fails(req[r]))
      BY <2>1, <2>2
    <3> QED BY <1>1, <3>1, FailsIs
  <2>3. CASE new # Refused
    <3> DEFINE q == [req[r] EXCEPT !.pc = "open", !.copy = new]
    <3>1. Files!Reading(r, q)
      BY <2>1, <2>3
    <3>2. Goes(req[r], q, "open")
      BY <1>1, FieldsChange
    <3> HIDE DEF q
    <3> QED BY <3>1, <3>2 DEF Goes
  <2> QED BY <2>2, <2>3
<1>3. pages' = pages /\ store' = store
  BY DEF Files!TakeCopy, Files!Rest
<1>4. StepOf(r) /\ req'[r] = q
  BY <1>2, <1>3, ReadingIs DEF FilesInv
<1> QED BY <1>1, <1>2, <1>3, <1>4, QuietKeeps DEF Files!Running

LEMMA OpenKeeps ==
    ASSUME FilesInv, NEW r \in Reqs, Files!Open(r)
    PROVE  FilesInv'
<1> DEFINE q == [req[r] EXCEPT !.pc = "write", !.fd = Files!Target]
<1>1. WellFormed(req[r]) /\ req = [s \in Reqs |-> req[s]] /\ req[r].pc = "open"
  BY DEF FilesInv, Shape, Files!Open
<1>2. req' = [req EXCEPT ![r] = q]
  BY <1>1 DEF Files!Open
<1>3. Goes(req[r], q, "write")
  BY <1>1, FieldsChange
<1>4. UNCHANGED <<store, pages>>
  BY DEF Files!Open, Files!Rest
<1> HIDE DEF q
<1> QED BY <1>1, <1>2, <1>3, <1>4, GoesKeeps DEF Files!Running

LEMMA FilesWriteKeeps ==
    ASSUME FilesInv, NEW r \in Reqs, Files!Write(r)
    PROVE  FilesInv'
<1> DEFINE pc == IF Files!Renames THEN "replace" ELSE Files!AfterChange(req[r])
           left == IF Files!Renames THEN req[r].copy ELSE {}
           q == [req[r] EXCEPT !.pc = pc, !.fd = "closed", !.copy = left]
<1>1. WellFormed(req[r]) /\ req = [s \in Reqs |-> req[s]] /\ req[r].pc = "write"
  BY DEF FilesInv, Shape, Files!Write
<1>2. req' = [req EXCEPT ![r] = [req[r] EXCEPT !.fd = "closed", !.copy = left, !.pc = pc]]
  BY <1>1 DEF Files!Write
<1>3. pc \in {"replace", "unlink", "ok"} /\ (pc = "ok" => req[r].kind # "remove" \/ store # "published")
  BY DEF Files!AfterChange, Files!HasPages
<1> HIDE DEF pc, left
<1>4. [req[r] EXCEPT !.fd = "closed", !.copy = left, !.pc = pc] = q
  OBVIOUS
<1>5. Goes(req[r], q, pc)
  BY <1>1, FieldsChange
<1>6. UNCHANGED <<store, pages>>
  BY DEF Files!Write, Files!Rest
<1> HIDE DEF q
<1> QED BY <1>1, <1>2, <1>3, <1>4, <1>5, <1>6, GoesKeeps DEF Files!Running

\* A rename carries the requests that have the temporary file open with it.
LEMMA ReplaceKeeps ==
    ASSUME FilesInv, NEW r \in Reqs, Files!Replace(r)
    PROVE  FilesInv'
<1>1. WellFormed(req[r]) /\ req = [s \in Reqs |-> req[s]] /\ req[r].pc = "replace"
  BY DEF FilesInv, Shape, Files!Replace
<1>2. UNCHANGED <<store, pages>>
  BY DEF Files!Replace, Files!Rest
<1>3. CASE disk["tmp"] = Absent
  <2> DEFINE q == [req[r] EXCEPT !.pc = "failed", !.copy = {}]
  <2>1. req' = [req EXCEPT ![r] = q]
    BY <1>1, <1>3 DEF Files!Replace
  <2>2. Goes(req[r], q, "failed")
    BY <1>1, FieldsChange
  <2> HIDE DEF q
  <2> QED BY <1>1, <1>2, <2>1, <2>2, GoesKeeps DEF Files!Running
<1>4. CASE disk["tmp"] # Absent
  <2> DEFINE pc == Files!AfterChange(req[r])
             q == [req[r] EXCEPT !.pc = pc, !.copy = {}]
  <2>1. req' = [s \in Reqs |-> IF s = r THEN q ELSE Files!Follow(req[s], "tmp", "main")]
    BY <1>4 DEF Files!Replace
  <2>2. pc \in {"unlink", "ok"} /\ (pc = "ok" => req[r].kind # "remove" \/ store # "published")
    BY DEF Files!AfterChange, Files!HasPages
  <2> HIDE DEF pc
  <2>3. Goes(req[r], q, pc)
    BY <1>1, FieldsChange
  <2> HIDE DEF q
  <2>4. \A s \in Reqs \ {r} : WellFormed(req[s]) /\ req'[s] = Files!Follow(req[s], "tmp", "main")
    BY <2>1 DEF FilesInv, Shape
  <2>5. StepOf(r) /\ req'[r] = q
    BY <1>2, <2>1, <2>3, <2>4, FollowKeeps DEF StepOf, Keeps, Goes
  <2> QED BY <1>1, <1>2, <2>2, <2>3, <2>5, QuietKeeps DEF Files!Running, Goes
<1> QED BY <1>3, <1>4

LEMMA EraseKeeps ==
    ASSUME FilesInv, NEW r \in Reqs, Files!UnlinkNotebook(r)
    PROVE  FilesInv'
<1> DEFINE q == [req[r] EXCEPT !.pc = "ok"]
<1>1. WellFormed(req[r]) /\ req[r].pc = "unlink" /\ req[r].kind = "erase"
  BY DEF FilesInv, Shape, Files!UnlinkNotebook
<1>2. UNCHANGED <<store, pages>>
  BY DEF Files!UnlinkNotebook, Files!Rest
<1>3. req' = [s \in Reqs |-> IF s = r THEN q
                             ELSE IF req[s].fd = "main" THEN [req[s] EXCEPT !.fd = "gone"] ELSE req[s]]
  BY DEF Files!UnlinkNotebook
<1>4. Goes(req[r], q, "ok")
  BY <1>1, FieldsChange
<1> HIDE DEF q
<1>5. \A s \in Reqs \ {r} : WellFormed(req[s]) /\ req'[s] \in {req[s], [req[s] EXCEPT !.fd = "gone"]}
  BY <1>3 DEF FilesInv, Shape
<1>6. \A p : WellFormed(p) =>
          LET t == [p EXCEPT !.fd = "gone"] IN
          WellFormed(t) /\ t.kind = p.kind /\ t.id = p.id /\ t.gone = p.gone /\ t.pc = p.pc
  BY DEF WellFormed
<1>7. StepOf(r) /\ req'[r] = q
  <2>1. ASSUME NEW s \in Reqs \ {r} PROVE Keeps(s) /\ req'[s].pc = req[s].pc
    <3>1. CASE req'[s] = req[s]
      BY <1>5, <3>1 DEF Keeps
    <3>2. CASE req'[s] = [req[s] EXCEPT !.fd = "gone"]
      BY <1>5, <1>6, <3>2 DEF Keeps
    <3> QED BY <1>5, <3>1, <3>2
  <2> QED BY <1>2, <1>3, <1>4, <2>1 DEF StepOf, Keeps, Goes
<1> QED BY <1>1, <1>2, <1>4, <1>7, QuietKeeps DEF Files!Running, Goes

---------------------------------------------------------------------------
(* The steps that change pages, end a removal, or are those of a view.     *)

\* A page that is written has never been removed: its id is new.
LEMMA WritePageKeeps ==
    ASSUME Files!StoresConstants, FilesInv, NEW r \in Reqs, Files!WritePage(r)
    PROVE  FilesInv'
<1>1. /\ WellFormed(req[r]) /\ req = [s \in Reqs |-> req[s]] /\ req[r].pc = "page"
      /\ req[r].kind # "view"
  BY DEF FilesInv, Shape, Files!WritePage, Views, Files!Ended
<1>2. PICK pc \in {"copy", "failed"} : /\ req' = [req EXCEPT ![r] = [req[r] EXCEPT !.pc = pc]]
                                       /\ pages' \in {pages, pages \cup {r}}
  BY <1>1 DEF Files!WritePage, Files!BreaksOff
<1> DEFINE q == [req[r] EXCEPT !.pc = pc]
<1>3. Goes(req[r], q, pc) /\ req' = [req EXCEPT ![r] = q]
  BY <1>1, <1>2, FieldsChange
<1> HIDE DEF q
<1>4. store' = store
  BY DEF Files!WritePage, Files!Rest
<1>5. StepOf(r) /\ req'[r] = q
  BY <1>1, <1>3, <1>4, OneChanges DEF FilesInv, Goes
<1>6. Files!Known \subseteq Files!Known' /\ Files!Removed' = Files!Removed
  BY <1>1, <1>3, <1>5, StepKeepsSets DEF Goes
<1>7. r \notin Files!Removed
  <2>1. r \notin Seeds
    BY DEF Files!StoresConstants
  <2>2. r \notin Files!Known
    BY <1>1, <2>1 DEF Files!Known
  <2> QED BY <2>2 DEF Files!Removed, FilesInv, RemovesKnown
<1>8. Shape' /\ Views' /\ Files!UnpublishIsFinal'
  BY <1>1, <1>3, <1>4, <1>5 DEF FilesInv, Shape, Views, Files!UnpublishIsFinal, StepOf, Keeps, Goes
<1>9. RemovesKnown'
  BY <1>1, <1>5, <1>6 DEF FilesInv, RemovesKnown, StepOf, Keeps
<1>10. RemovedIsAway'
  BY <1>2, <1>4, <1>6, <1>7 DEF FilesInv, RemovedIsAway
<1>11. GoneIsRemoved'
  BY <1>5, <1>6 DEF FilesInv, GoneIsRemoved, StepOf, Keeps
<1> QED BY <1>8, <1>9, <1>10, <1>11 DEF FilesInv

\* The removal ends by taking the page away.
LEMMA UnlinkKeeps ==
    ASSUME FilesInv, NEW r \in Reqs, Files!Unlink(r)
    PROVE  FilesInv'
<1> DEFINE q == [req[r] EXCEPT !.pc = "ok"]
<1>1. /\ WellFormed(req[r]) /\ req = [s \in Reqs |-> req[s]]
      /\ req[r].pc = "unlink" /\ req[r].kind = "remove"
  BY DEF FilesInv, Shape, Files!Unlink
<1>2. Goes(req[r], q, "ok") /\ req' = [req EXCEPT ![r] = q]
  BY <1>1, FieldsChange DEF Files!Unlink
<1> HIDE DEF q
<1>3. store' = store /\ pages' = pages \ {req[r].id}
  BY DEF Files!Unlink, Files!Rest
<1>4. StepOf(r) /\ req'[r] = q
  BY <1>1, <1>2, <1>3, OneChanges DEF FilesInv, Goes
<1>5. /\ Files!Known \subseteq Files!Known' /\ Files!Removed \subseteq Files!Removed'
      /\ \A i \in Files!Removed' \ Files!Removed : i = req[r].id
  BY <1>1, <1>2, <1>4, StepKeepsSets DEF Goes
<1>6. Shape' /\ Views' /\ Files!UnpublishIsFinal'
  BY <1>1, <1>2, <1>3, <1>4 DEF FilesInv, Shape, Views, Files!UnpublishIsFinal, StepOf, Keeps, Goes, Files!Ended
<1>7. RemovesKnown'
  BY <1>1, <1>4, <1>5 DEF FilesInv, RemovesKnown, StepOf, Keeps
<1>8. RemovedIsAway'
  BY <1>3, <1>5 DEF FilesInv, RemovedIsAway
<1>9. GoneIsRemoved'
  BY <1>4, <1>5 DEF FilesInv, GoneIsRemoved, StepOf, Keeps
<1> QED BY <1>6, <1>7, <1>8, <1>9 DEF FilesInv

\* A view that goes on: it ends well only where the page is.
LEMMA ViewGoesKeeps ==
    ASSUME FilesInv, NEW r \in Reqs, NEW q, StepOf(r), req'[r] = q, NEW pc, Goes(req[r], q, pc),
           pages' = pages, req[r].pc \in {"find", "serve"}, pc \in {"serve", "ok", "failed"},
           pc = "ok" => req[r].id \in pages
    PROVE  FilesInv'
<1>1. req[r].kind = "view" /\ req[r].pc # "ok" /\ req[r].pc # "idle" /\ store = "published"
  BY DEF FilesInv, Views
<1>2. Files!Known \subseteq Files!Known' /\ Files!Removed' = Files!Removed
  BY <1>1, StepKeepsSets DEF Goes
<1>3. Shape' /\ Views'
  BY <1>1 DEF FilesInv, Shape, Views, StepOf, Keeps, Goes, Files!Ended
<1>4. RemovesKnown' /\ RemovedIsAway' /\ GoneIsRemoved'
  BY <1>1, <1>2 DEF FilesInv, RemovesKnown, RemovedIsAway, GoneIsRemoved, StepOf, Keeps
<1>5. Files!UnpublishIsFinal'
  <2> SUFFICES ASSUME NEW s \in Reqs, req'[s].kind = "view", req'[s].pc = "ok", req'[s].gone
               PROVE  FALSE
    BY DEF Files!UnpublishIsFinal
  <2>1. CASE s # r
    BY <2>1 DEF FilesInv, Files!UnpublishIsFinal, StepOf, Keeps
  <2>2. CASE s = r
    <3>1. req[r].id \in pages
      BY <2>2 DEF Goes
    <3>2. req[r].gone
      BY <2>2 DEF StepOf, Keeps
    <3> QED BY <1>1, <3>1, <3>2 DEF FilesInv, GoneIsRemoved, RemovedIsAway
  <2> QED BY <2>1, <2>2
<1> QED BY <1>3, <1>4, <1>5 DEF FilesInv

LEMMA FindKeeps ==
    ASSUME FilesInv, NEW r \in Reqs, Files!Find(r)
    PROVE  FilesInv'
<1> DEFINE pc == IF \E e \in Files!Main : e.id = req[r].id THEN "serve" ELSE "failed"
           q == [req[r] EXCEPT !.pc = pc]
<1>1. WellFormed(req[r]) /\ req[r].pc = "find"
  BY DEF FilesInv, Shape, Files!Find
<1>2. Files!Reading(r, q) /\ pages' = pages /\ store' = store
  BY DEF Files!Find, Files!Rest
<1>3. pc \in {"serve", "failed"}
  OBVIOUS
<1> HIDE DEF pc
<1>4. Goes(req[r], q, pc)
  BY <1>1, FieldsChange
<1> HIDE DEF q
<1>5. StepOf(r) /\ req'[r] = q
  BY <1>2, <1>4, ReadingIs DEF FilesInv, Goes
<1> QED BY <1>1, <1>2, <1>3, <1>4, <1>5, ViewGoesKeeps

LEMMA FilesServeKeeps ==
    ASSUME FilesInv, NEW r \in Reqs, Files!Serve(r)
    PROVE  FilesInv'
<1> DEFINE pc == IF Files!Serves(req[r].id) THEN "ok" ELSE "failed"
           q == [req[r] EXCEPT !.pc = pc]
<1>1. WellFormed(req[r]) /\ req = [s \in Reqs |-> req[s]] /\ req[r].pc = "serve"
  BY DEF FilesInv, Shape, Files!Serve
<1>2. req' = [req EXCEPT ![r] = q] /\ pages' = pages /\ store' = store
  BY <1>1 DEF Files!Serve, Files!Rest
<1>3. pc \in {"ok", "failed"} /\ (pc = "ok" => req[r].id \in pages)
  BY DEF Files!Serves
<1> HIDE DEF pc
<1>4. Goes(req[r], q, pc)
  BY <1>1, FieldsChange
<1> HIDE DEF q
<1>5. StepOf(r) /\ req'[r] = q
  BY <1>2, <1>4, OneChanges DEF FilesInv, Goes
<1> QED BY <1>1, <1>2, <1>3, <1>4, <1>5, ViewGoesKeeps

\* A crash ends what is under way, and nothing else.
LEMMA CrashKeeps ==
    ASSUME FilesInv, Files!Crash
    PROVE  FilesInv'
<1>1. ASSUME NEW p, WellFormed(p)
      PROVE  Goes(p, [p EXCEPT !.pc = "lost", !.copy = {}, !.fd = "closed"], "lost")
  <2>1. [p EXCEPT !.pc = "lost", !.copy = {}, !.fd = "closed"]
          = [p EXCEPT !.pc = "lost", !.fd = "closed", !.copy = {}]
    OBVIOUS
  <2> QED BY <1>1, <2>1, FieldsChange
<1>2. /\ req' = [r \in Reqs |-> IF r \in Files!Active
                                THEN [req[r] EXCEPT !.pc = "lost", !.copy = {}, !.fd = "closed"]
                                ELSE req[r]]
      /\ UNCHANGED <<store, pages>>
  BY DEF Files!Crash
<1>3. \A r \in Reqs : WellFormed(req[r])
  BY DEF FilesInv, Shape
<1>4. \A r \in Reqs : /\ Keeps(r)
                      /\ req'[r].pc = IF r \in Files!Active THEN "lost" ELSE req[r].pc
  <2> SUFFICES ASSUME NEW r \in Reqs
               PROVE  Keeps(r) /\ req'[r].pc = IF r \in Files!Active THEN "lost" ELSE req[r].pc
    OBVIOUS
  <2>1. CASE r \in Files!Active
    BY <1>1, <1>2, <1>3, <2>1 DEF Keeps, Goes
  <2>2. CASE r \notin Files!Active
    BY <1>2, <1>3, <2>2 DEF Keeps
  <2> QED BY <2>1, <2>2
<1>5. \A r \in Files!Active : req[r].pc # "idle" /\ req[r].pc # "ok"
  BY DEF Files!Active, Files!Running
<1>6. \A r \in Reqs : (req'[r].pc = "ok" <=> req[r].pc = "ok") /\ (req'[r].pc = "idle" <=> req[r].pc = "idle")
  BY <1>4, <1>5
<1>7. Files!Known' = Files!Known /\ Files!Removed' = Files!Removed
  BY <1>4, <1>6 DEF Files!Known, Files!Removed, Keeps
<1>8. Shape'
  BY <1>2, <1>4 DEF Shape, Keeps
<1>9. Views'
  <2> SUFFICES ASSUME NEW r \in Reqs
               PROVE  /\ req'[r].kind = "view" => req'[r].pc \in {"idle", "find", "serve"} \cup Files!Ended
                      /\ req'[r].kind = "view" /\ req'[r].pc # "idle" => store = "published"
                      /\ req'[r].pc \in {"find", "serve"} => req'[r].kind = "view"
    BY <1>2 DEF Views
  <2>1. req'[r].kind = req[r].kind /\ req'[r].pc \in {req[r].pc, "lost"}
    BY <1>4 DEF Keeps
  <2> QED BY <1>6, <2>1 DEF FilesInv, Views, Files!Ended
<1>10. RemovesKnown' /\ GoneIsRemoved'
  BY <1>4, <1>6, <1>7 DEF FilesInv, RemovesKnown, GoneIsRemoved, Keeps
<1>11. RemovedIsAway' /\ Files!UnpublishIsFinal'
  BY <1>2, <1>4, <1>6, <1>7 DEF FilesInv, RemovedIsAway, Files!UnpublishIsFinal, Keeps
<1> QED BY <1>8, <1>9, <1>10, <1>11 DEF FilesInv

LEMMA StutterKeeps ==
    ASSUME FilesInv, UNCHANGED Files!vars
    PROVE  FilesInv'
BY DEF Files!vars, FilesInv, Shape, WellFormed, Views, RemovesKnown, RemovedIsAway, GoneIsRemoved,
       Files!UnpublishIsFinal, Files!Known, Files!Removed

LEMMA FilesInductive == Files!StoresConstants /\ FilesInv /\ [Files!Next]_Files!vars => FilesInv'
<1> SUFFICES ASSUME Files!StoresConstants, FilesInv, [Files!Next]_Files!vars PROVE FilesInv'
  OBVIOUS
<1>1. ASSUME NEW r \in Reqs, Files!Proceeds(r) PROVE FilesInv'
  BY <1>1, ChooseKeeps, WritePageKeeps, GetKeeps, EngineKeeps, TakeCopyKeeps, OpenKeeps,
     FilesWriteKeeps, ReplaceKeeps, UnlinkKeeps, EraseKeeps, FindKeeps, FilesServeKeeps DEF Files!Proceeds
<1> QED BY <1>1, ArrivesKeep, CrashKeeps, StutterKeeps DEF Files!Next

---------------------------------------------------------------------------
(* What the store holds, followed change by change.                        *)

Changers == {"add", "remove", "set", "test"}

Forms ==
    [kind : Files!Kinds, pc : Files!Running \cup Files!Ended \cup {"idle"}, id : Files!Ids \cup {None}, val : Files!Values,
     copy : SUBSET Files!Record, fd : Files!Paths \cup {"closed", "gone"}, again : BOOLEAN, gone : BOOLEAN]

Contents == {Absent, Truncated, Garbled} \cup SUBSET Files!Record

Sorts ==
    /\ store \in Files!StoreNames /\ disk \in [Files!Paths -> Contents] /\ pages \subseteq Files!Ids
    /\ req \in [Reqs -> Forms] /\ crashes \in 0 .. MaxCrashes
    /\ expect \in {Absent} \cup SUBSET Files!Record

\* A request is at a step only by the way that leads there.
WayOf(r, q) ==
    /\ q.pc # "idle" /\ q.kind # "erase" => q.id \in Files!Ids
    /\ q.pc # "idle" /\ q.kind = "add" => q.id = r
    /\ q.pc \in {"copy", "open", "write", "replace"} => q.kind \in Changers
    /\ q.pc = "choose" => store = "uploads" /\ q.kind \in {"add", "set"}
    /\ q.pc = "page" => Files!HasPages /\ q.kind = "add"
    /\ q.pc \in {"get", "engine"} => q.kind = "test"
    /\ q.pc = "replace" => Files!Renames
    /\ q.pc = "unlink" => (q.kind = "remove" /\ Files!HasPages) \/ q.kind = "erase"
    /\ q.kind = "erase" /\ q.pc # "idle" => store = "knowledge"
    /\ q.kind = "test" /\ q.pc # "idle" => store = "connections"
    /\ q.kind = "set" /\ q.pc # "idle" => store \notin {"published", "knowledge"}
    /\ q.kind \in {"add", "set"} /\ q.pc # "idle" /\ store = "uploads" => q.val \in Files!TableNames
    /\ q.fd # "closed" => q.pc = "write"

Ways == \A r \in Reqs : WayOf(r, req[r])

\* Uploads exclude each other on the event loop.
OneUpload ==
    store = "uploads" =>
        \A r, s \in Files!Active : req[r].kind = "add" /\ req[s].kind = "add" => r = s

\* Only a knowledge notebook is ever deleted with its file.
Stays == store # "knowledge" => expect # Absent

Sound == Sorts /\ Ways /\ OneUpload

---------------------------------------------------------------------------
\* A change of a list of records is refused or gives one.
LEMMA ChangedIs ==
    ASSUME NEW q \in Forms, q.kind \in Changers, q.id \in Files!Ids, NEW c \in SUBSET Files!Record
    PROVE  Files!Changed(q, c) \in {Refused} \cup SUBSET Files!Record
<1>1. [id |-> q.id, val |-> q.val] \in Files!Record
  BY DEF Forms, Files!Record
<1>2. Files!Add(c, q.id, q.val) \in SUBSET Files!Record
  BY <1>1 DEF Files!Add
<1>3. Files!Remove(c, q.id) \in {Refused} \cup SUBSET Files!Record
  BY DEF Files!Remove
<1>4. Files!Update(c, q.id, q.val) \in {Refused} \cup SUBSET Files!Record
  BY DEF Files!Update, Files!Record, Forms
<1>5. Files!Merge(c, q.id, q.val) \in SUBSET Files!Record
  BY <1>1 DEF Files!Merge
<1>6. Files!Touch(c, q.id) \in {Refused} \cup SUBSET Files!Record
  BY DEF Files!Touch
<1> QED BY <1>2, <1>3, <1>4, <1>5, <1>6 DEF Files!Changed, Changers

LEMMA ParsedIs ==
    ASSUME NEW c \in Contents
    PROVE  Files!Parsed(c) \in {Refused} \cup SUBSET Files!Record
BY DEF Files!Parsed, Contents, Files!Unreadable

\* What a step of r leaves of the request p of another.
After(p, t) ==
    /\ t \in Forms /\ t.kind = p.kind /\ t.pc = p.pc /\ t.id = p.id /\ t.val = p.val
    /\ t.copy = p.copy /\ (t.fd # "closed" => p.fd # "closed")

Onward(r, q) ==
    /\ q \in Forms /\ req' = [s \in Reqs |-> req'[s]] /\ req'[r] = q
    /\ \A s \in Reqs \ {r} : After(req[s], req'[s])

LEMMA MovedSound ==
    ASSUME Sound, NEW r \in Reqs, NEW q, Onward(r, q), WayOf(r, q), UNCHANGED <<store, crashes>>,
           req[r].pc # "idle" => q.kind = req[r].kind,
           q.pc \in Files!Running => req[r].pc \in Files!Running \/ \A s \in Files!Active : req[s].kind # "add" \/ q.kind # "add"
                                                                          \/ store # "uploads",
           disk' \in [Files!Paths -> Contents], pages' \subseteq Files!Ids,
           expect' \in {Absent} \cup SUBSET Files!Record
    PROVE  Sound'
<1>1. \A s \in Reqs : req'[s] \in Forms
  BY DEF Onward, After
<1>2. Sorts'
  BY <1>1 DEF Sound, Sorts, Onward
<1>3. Ways'
  <2>1. WayOf(r, req[r])'
    BY DEF Onward, WayOf, Files!HasPages, Files!Renames
  <2>2. \A s \in Reqs \ {r} : WayOf(s, req[s])'
    BY DEF Sound, Ways, Onward, After, WayOf, Files!HasPages, Files!Renames
  <2> QED BY <2>1, <2>2 DEF Ways
<1>4. OneUpload'
  <2> SUFFICES ASSUME store = "uploads", NEW s \in Reqs, NEW t \in Reqs, s # t,
                      req'[s].pc \in Files!Running, req'[t].pc \in Files!Running,
                      req'[s].kind = "add", req'[t].kind = "add"
               PROVE  FALSE
    BY DEF OneUpload, Files!Active
  <2>1. \A u \in Reqs \ {r} : req'[u].pc = req[u].pc /\ req'[u].kind = req[u].kind
    BY DEF Onward, After
  <2>2. r \in {s, t} => req[r].pc \in Files!Running /\ req[r].kind = "add"
    BY <2>1 DEF Onward, Files!Active, Files!Running
  <2> QED BY <2>1, <2>2 DEF Sound, OneUpload, Files!Active
<1> QED BY <1>2, <1>3, <1>4 DEF Sound

LEMMA MovedAlone ==
    ASSUME Sound, NEW r \in Reqs, NEW q \in Forms, req' = [req EXCEPT ![r] = q]
    PROVE  Onward(r, q) /\ \A s \in Reqs \ {r} : req'[s] = req[s]
BY DEF Sound, Sorts, Onward, After

LEMMA FollowIs ==
    ASSUME NEW p \in Forms, NEW from \in Files!Paths, NEW to \in Files!Paths
    PROVE  After(p, Files!Follow(p, from, to))
<1> DEFINE t(f) == [p EXCEPT !.fd = f]
<1>1. PICK f \in Files!Paths \cup {"closed", "gone"} : Files!Follow(p, from, to) = t(f) /\ (f # "closed" => p.fd # "closed")
  BY DEF Files!Follow, Forms, Files!Paths
<1>2. After(p, t(f))
  BY <1>1 DEF Forms, After
<1> QED BY <1>1, <1>2

LEMMA ReadingSound ==
    ASSUME Sound, NEW r \in Reqs, NEW q \in Forms, Files!Reading(r, q)
    PROVE  /\ Onward(r, q) /\ disk' \in [Files!Paths -> Contents]
           /\ ~Files!SetsAside => disk' = disk /\ req' = [req EXCEPT ![r] = q]
<1>1. CASE ~Files!SetsAside
  BY <1>1, MovedAlone DEF Files!Reading, Sound, Sorts
<1>2. CASE Files!SetsAside
  <2>1. \A s \in Reqs : req[s] \in Forms
    BY DEF Sound, Sorts
  <2>2. req' = [s \in Reqs |-> IF s = r THEN q ELSE Files!Follow(req[s], "main", "bak")]
    BY <1>2 DEF Files!Reading
  <2>3. \A s \in Reqs : After(req[s], Files!Follow(req[s], "main", "bak"))
    BY <2>1, FollowIs DEF Files!Paths
  <2>4. Onward(r, q)
    BY <2>2, <2>3 DEF Onward
  <2>5. disk' \in [Files!Paths -> Contents]
    BY <1>2 DEF Files!Reading, Files!Moved, Sound, Sorts, Files!Paths, Contents
  <2> QED BY <1>2, <2>4, <2>5
<1> QED BY <1>1, <1>2

---------------------------------------------------------------------------
(* What each action leaves, as far as the invariant speaks of it.          *)

\* A request as it begins.
Begins(r, q) ==
    /\ q \in Forms /\ WayOf(r, q) /\ q.copy = {} /\ q.fd = "closed"
    /\ q.pc \in {"choose", "page", "copy", "get", "find", "unlink"}
    /\ q.pc = "unlink" => q.kind = "erase"
    /\ q.kind = "add" /\ q.pc = "copy" => ~Files!HasPages
    /\ store = "uploads" /\ q.kind \in {"add", "set"} => q.pc = "choose"
    /\ store = "uploads" /\ q.kind = "add" => \A s \in Files!Active : req[s].kind # "add"

LEMMA ArrivesIs ==
    ASSUME Files!StoresConstants, Sound, NEW r \in Reqs, Files!Arrives(r)
    PROVE  /\ \E q : Begins(r, q) /\ req' = [req EXCEPT ![r] = q]
           /\ req[r].pc = "idle"
           /\ UNCHANGED <<store, disk, pages, crashes, expect, mixed, raced>>
<1>1. Files!Known \subseteq Files!Ids /\ r \in Files!Ids
  BY DEF Files!Known, Files!Ids
<1>2. \A b \in Bases : Files!Named(b) \in Files!TableNames
  BY DEF Files!Named, Files!StoresConstants, Files!TableNames
<1>3. ASSUME NEW kind \in Files!Kinds, NEW i \in Files!Ids \cup {None}, NEW v \in Files!Values, NEW pc \in Files!Running,
             NEW g \in BOOLEAN
      PROVE  Files!Request(kind, i, v, pc, g) \in Forms
  BY DEF Files!Request, Forms
<1>4. None \in Files!Values /\ Files!TableNames \subseteq Files!Values
  BY DEF Files!Values, Files!TableNames
<1>5. ASSUME NEW kind \in Files!Kinds, NEW i \in Files!Ids \cup {None}, NEW v \in Files!Values, NEW pc \in Files!Running,
             Files!Arrive(r, kind, i, v, pc), Begins(r, Files!Request(kind, i, v, pc, i \in Files!Removed))
      PROVE  /\ \E q : Begins(r, q) /\ req' = [req EXCEPT ![r] = q]
             /\ req[r].pc = "idle"
             /\ UNCHANGED <<store, disk, pages, crashes, expect, mixed, raced>>
  BY <1>5 DEF Files!Arrive
<1>6. ASSUME NEW kind \in Files!Kinds, NEW i \in Files!Ids \cup {None}, NEW v \in Files!Values, NEW pc \in Files!Running,
             NEW q, q = Files!Request(kind, i, v, pc, i \in Files!Removed)
      PROVE  q \in Forms /\ q.kind = kind /\ q.id = i /\ q.val = v /\ q.pc = pc /\ q.copy = {} /\ q.fd = "closed"
  <2>1. Files!Request(kind, i, v, pc, i \in Files!Removed) \in Forms
    BY <1>3, (i \in Files!Removed) \in BOOLEAN
  <2> QED BY <1>6, <2>1 DEF Files!Request
<1>7. CASE Files!Create(r)
  <2> DEFINE first == IF store = "uploads" THEN "choose"
                      ELSE IF store = "published" THEN "page" ELSE "copy"
  <2>1. PICK v \in Files!Values : /\ Files!Arrive(r, "add", r, v, first)
                                  /\ store = "uploads" => v \in Files!TableNames
    BY <1>2, <1>4, <1>7 DEF Files!Create
  <2>2. PICK pc : pc = first
    OBVIOUS
  <2>3. pc \in Files!Running /\ "add" \in Files!Kinds /\ store # "runtime"
        /\ (store = "uploads" => \A s \in Files!Active : req[s].kind # "add")
    BY <1>7, <2>2 DEF Files!Running, Files!Kinds, Files!Create, Files!OnTheLoop
  <2>4. PICK q : q = Files!Request("add", r, v, pc, r \in Files!Removed)
    OBVIOUS
  <2>5. q \in Forms /\ q.kind = "add" /\ q.id = r /\ q.val = v /\ q.pc = pc /\ q.copy = {} /\ q.fd = "closed"
    BY <1>1, <1>6, <2>3, <2>4
  <2>6. Begins(r, q)
    BY <1>1, <2>1, <2>2, <2>3, <2>5 DEF Begins, WayOf, Files!HasPages, Changers
  <2> QED BY <1>1, <1>5, <2>1, <2>2, <2>3, <2>4, <2>6
<1>8. CASE Files!Edit(r)
  <2> DEFINE first == IF store = "uploads" THEN "choose" ELSE "copy"
  <2>1. PICK i \in Files!Ids, v \in Files!Values : /\ Files!Arrive(r, "set", i, v, first)
                                                   /\ store = "uploads" => v \in Files!TableNames
    <3>1. PICK i \in Files!Known, b \in Bases \cup {None} :
              /\ b = None => store = "runtime"
              /\ Files!Arrive(r, "set", i, IF b = None THEN None ELSE Files!Named(b), first)
      BY <1>8 DEF Files!Edit
    <3> QED BY <1>1, <1>2, <1>4, <3>1
  <2>2. PICK pc : pc = first
    OBVIOUS
  <2>3. pc \in Files!Running /\ "set" \in Files!Kinds /\ store \notin {"published", "knowledge"}
    BY <1>8, <2>2 DEF Files!Running, Files!Kinds, Files!Edit
  <2>4. PICK q : q = Files!Request("set", i, v, pc, i \in Files!Removed)
    OBVIOUS
  <2>5. q \in Forms /\ q.kind = "set" /\ q.id = i /\ q.val = v /\ q.pc = pc /\ q.copy = {} /\ q.fd = "closed"
    BY <1>6, <2>3, <2>4
  <2>6. Begins(r, q)
    BY <2>1, <2>2, <2>3, <2>5 DEF Begins, WayOf, Files!HasPages, Changers
  <2> QED BY <1>5, <2>1, <2>2, <2>3, <2>4, <2>6
<1>9. ASSUME NEW kind \in {"remove", "test", "view", "erase"}, NEW i \in Files!Ids \cup {None},
             NEW pc \in {"copy", "get", "find", "unlink"}, Files!Arrive(r, kind, i, None, pc),
             kind # "erase" => i \in Files!Ids,
             kind = "remove" => pc = "copy",
             kind = "test" => pc = "get" /\ store = "connections",
             kind = "view" => pc = "find",
             kind = "erase" => pc = "unlink" /\ store = "knowledge"
      PROVE  /\ \E q : Begins(r, q) /\ req' = [req EXCEPT ![r] = q]
             /\ req[r].pc = "idle"
             /\ UNCHANGED <<store, disk, pages, crashes, expect, mixed, raced>>
  <2>1. PICK q : q = Files!Request(kind, i, None, pc, i \in Files!Removed)
    OBVIOUS
  <2>2. kind \in Files!Kinds /\ pc \in Files!Running
    BY DEF Files!Kinds, Files!Running
  <2>3. q \in Forms /\ q.kind = kind /\ q.id = i /\ q.val = None /\ q.pc = pc /\ q.copy = {} /\ q.fd = "closed"
    BY <1>4, <1>6, <2>1, <2>2
  <2>4. Begins(r, q)
    BY <1>9, <2>3 DEF Begins, WayOf, Changers
  <2> QED BY <1>4, <1>5, <1>9, <2>1, <2>2, <2>4
<1>10. CASE Files!Delete(r) \/ Files!TestConnection(r) \/ Files!ViewPublished(r) \/ Files!Erase(r)
  BY <1>1, <1>9, <1>10 DEF Files!Delete, Files!TestConnection, Files!ViewPublished, Files!Erase
<1> QED BY <1>7, <1>8, <1>10 DEF Files!Arrives

\* A request that goes on by itself, to pc.
GoesOn(r, q, pc) ==
    /\ q \in Forms /\ req' = [req EXCEPT ![r] = q]
    /\ q.kind = req[r].kind /\ q.id = req[r].id /\ q.copy = req[r].copy /\ q.fd = req[r].fd
    /\ q.pc = pc /\ (q.val = req[r].val \/ req[r].pc = "choose")

LEMMA ChooseIs ==
    ASSUME Files!StoresConstants, Sound, NEW r \in Reqs, Files!ChooseName(r)
    PROVE  \E q : /\ GoesOn(r, q, IF req[r].kind = "add" THEN "page" ELSE "copy")
                  /\ q.val \in Files!TableNames /\ req[r].pc = "choose"
                  /\ \A e \in Files!Main : e.id # q.id => e.val # q.val
<1>1. PICK n \in Files!Suffixes(req[r].id, req[r].val, Files!Main) :
          req' = [req EXCEPT ![r].val = [@ EXCEPT !.suffix = n],
                             ![r].pc = IF req[r].kind = "add" THEN "page" ELSE "copy"]
  BY DEF Files!ChooseName
<1>2. PICK p \in Forms : p = req[r]
  BY DEF Sound, Sorts
<1>3. p.pc = "choose" /\ p.val \in Files!TableNames /\ p.kind \in {"add", "set"} /\ req \in [Reqs -> Forms]
  BY <1>2 DEF Files!ChooseName, Sound, Sorts, Ways, WayOf
<1>4. PICK v : v = [p.val EXCEPT !.suffix = n]
  OBVIOUS
<1>5. v \in Files!TableNames /\ \A e \in Files!Main : e.id # p.id => e.val # v
  BY <1>1, <1>2, <1>3, <1>4 DEF Files!TableNames, Files!Suffixes
<1>6. PICK pc : pc = IF p.kind = "add" THEN "page" ELSE "copy"
  OBVIOUS
<1>7. req' = [req EXCEPT ![r] = [p EXCEPT !.val = v, !.pc = pc]]
  BY <1>1, <1>2, <1>3, <1>4, <1>6
<1>8. PICK q : q = [p EXCEPT !.val = v, !.pc = pc]
  OBVIOUS
<1>9. /\ q \in Forms /\ q.kind = p.kind /\ q.id = p.id /\ q.copy = p.copy /\ q.fd = p.fd
      /\ q.pc = pc /\ q.val = v
  BY <1>3, <1>5, <1>6, <1>8 DEF Forms, Files!Values, Files!TableNames, Files!Running
<1>10. req' = [req EXCEPT ![r] = q]
  BY <1>7, <1>8
<1>11. GoesOn(r, q, pc)
  BY <1>2, <1>3, <1>9, <1>10 DEF GoesOn
<1> QED BY <1>2, <1>3, <1>5, <1>6, <1>9, <1>11

LEMMA FieldsIs ==
    ASSUME Sound, NEW r \in Reqs, NEW pc \in Files!Running \cup Files!Ended, NEW again \in BOOLEAN, NEW q,
           q = [req[r] EXCEPT !.pc = pc] \/ q = [req[r] EXCEPT !.pc = pc, !.again = again],
           req' = [req EXCEPT ![r] = q]
    PROVE  GoesOn(r, q, pc)
BY DEF Sound, Sorts, Forms, GoesOn

\* A request that goes on by itself is followed by its way.
LEMMA GoesSound ==
    ASSUME Sound, NEW r \in Reqs, NEW q, NEW pc, GoesOn(r, q, pc), WayOf(r, q), req[r].pc \in Files!Running,
           UNCHANGED <<store, disk, crashes, expect>>, pages' \subseteq Files!Ids
    PROVE  Sound'
<1>1. Onward(r, q)
  BY MovedAlone DEF GoesOn
<1>2. disk' \in [Files!Paths -> Contents] /\ expect' \in {Absent} \cup SUBSET Files!Record
  BY DEF Sound, Sorts
<1> QED BY <1>1, <1>2, MovedSound DEF GoesOn

LEMMA ArrivesSound ==
    ASSUME Files!StoresConstants, Sound, NEW r \in Reqs, Files!Arrives(r)
    PROVE  Sound'
<1>1. PICK q : Begins(r, q) /\ req' = [req EXCEPT ![r] = q]
  BY ArrivesIs
<1>2. req[r].pc = "idle" /\ UNCHANGED <<store, disk, pages, crashes, expect, mixed, raced>>
  BY ArrivesIs
<1>3. Onward(r, q)
  BY <1>1, MovedAlone DEF Begins
<1>4. /\ disk' \in [Files!Paths -> Contents] /\ expect' \in {Absent} \cup SUBSET Files!Record
      /\ pages' \subseteq Files!Ids
  BY <1>2 DEF Sound, Sorts
<1> QED BY <1>1, <1>2, <1>3, <1>4, MovedSound DEF Begins

LEMMA ChooseSound ==
    ASSUME Files!StoresConstants, Sound, NEW r \in Reqs, Files!ChooseName(r)
    PROVE  Sound'
<1>1. PICK q : /\ GoesOn(r, q, IF req[r].kind = "add" THEN "page" ELSE "copy")
               /\ q.val \in Files!TableNames /\ req[r].pc = "choose"
  BY ChooseIs
<1>2. WayOf(r, req[r]) /\ UNCHANGED <<store, disk, crashes, expect>> /\ pages' \subseteq Files!Ids
  BY DEF Sound, Ways, Files!ChooseName, Files!Rest, Sorts
<1>3. WayOf(r, q)
  BY <1>1, <1>2 DEF WayOf, GoesOn, Changers, Files!HasPages
<1> QED BY <1>1, <1>2, <1>3, GoesSound DEF Files!Running

LEMMA WritePageSound ==
    ASSUME Files!StoresConstants, Sound, NEW r \in Reqs, Files!WritePage(r)
    PROVE  /\ Sound'
           /\ \E q, pc : GoesOn(r, q, pc) /\ pc \in {"copy", "failed"}
                         /\ (pc = "copy" => pages' = pages \cup {r})
                         /\ pages' \in {pages, pages \cup {r}}
<1>1. /\ WayOf(r, req[r]) /\ UNCHANGED <<store, disk, crashes, expect>> /\ req[r].pc = "page"
      /\ req \in [Reqs -> Forms] /\ pages \subseteq Files!Ids /\ r \in Files!Ids
  BY DEF Sound, Ways, Files!WritePage, Files!Rest, Sorts, Files!Ids
<1>2. PICK pc \in {"copy", "failed"} : /\ req' = [req EXCEPT ![r].pc = pc]
                                       /\ pages' \in {pages, pages \cup {r}}
                                       /\ pc = "copy" => pages' = pages \cup {r}
  BY DEF Files!WritePage, Files!BreaksOff
<1>3. PICK q : q = [req[r] EXCEPT !.pc = pc]
  OBVIOUS
<1>4. req' = [req EXCEPT ![r] = q]
  BY <1>1, <1>2, <1>3
<1>5. GoesOn(r, q, pc)
  BY <1>3, <1>4, FieldsIs DEF Files!Running, Files!Ended
<1>6. WayOf(r, q)
  BY <1>1, <1>2, <1>5 DEF WayOf, GoesOn, Changers
<1> QED BY <1>1, <1>2, <1>5, <1>6, GoesSound DEF Files!Running

\* The steps of a request that touch neither files nor pages.
Idles(r) == Files!GetConnection(r) \/ Files!EngineAnswers(r) \/ Files!Serve(r)

LEMMA IdlesSound ==
    ASSUME Files!StoresConstants, Sound, NEW r \in Reqs, Idles(r)
    PROVE  /\ Sound'
           /\ \E q, pc : GoesOn(r, q, pc) /\ pc \in {"copy", "engine", "ok", "failed"}
                         /\ req[r].pc \in {"get", "engine", "serve"}
<1>1. /\ WayOf(r, req[r]) /\ UNCHANGED <<store, disk, pages, crashes, expect>>
      /\ req[r].pc \in {"get", "engine", "serve"}
      /\ req \in [Reqs -> Forms] /\ pages \subseteq Files!Ids
  BY DEF Sound, Ways, Idles, Files!GetConnection, Files!EngineAnswers, Files!Serve, Files!Rest, Sorts, Files!Ids
<1>2. PICK pc \in {"engine", "failed", "copy", "ok"}, again \in BOOLEAN :
           /\ req' = [req EXCEPT ![r].pc = pc] \/ req' = [req EXCEPT ![r].pc = pc, ![r].again = again]
           /\ pc \in {"engine", "copy"} => req[r].pc \in {"get", "engine"}
  BY DEF Idles, Files!GetConnection, Files!EngineAnswers, Files!Serve
<1>3. PICK q : /\ q = [req[r] EXCEPT !.pc = pc] \/ q = [req[r] EXCEPT !.pc = pc, !.again = again]
               /\ req' = [req EXCEPT ![r] = q]
  BY <1>1, <1>2
<1>4. GoesOn(r, q, pc)
  BY <1>3, FieldsIs DEF Files!Running, Files!Ended
<1>5. WayOf(r, q)
  BY <1>1, <1>2, <1>4 DEF WayOf, GoesOn, Changers
<1> QED BY <1>1, <1>2, <1>4, <1>5, GoesSound DEF Files!Running

LEMMA UnlinkSound ==
    ASSUME Files!StoresConstants, Sound, NEW r \in Reqs, Files!Unlink(r)
    PROVE  Sound' /\ \E q : GoesOn(r, q, "ok")
<1>1. /\ WayOf(r, req[r]) /\ UNCHANGED <<store, disk, crashes, expect>> /\ req[r].pc = "unlink"
      /\ req \in [Reqs -> Forms] /\ pages' \subseteq Files!Ids /\ req' = [req EXCEPT ![r].pc = "ok"]
  BY DEF Sound, Ways, Files!Unlink, Files!Rest, Sorts
<1>2. PICK q : q = [req[r] EXCEPT !.pc = "ok"]
  OBVIOUS
<1>3. req' = [req EXCEPT ![r] = q]
  BY <1>1, <1>2
<1>4. GoesOn(r, q, "ok")
  <2>1. "ok" \in Files!Running \cup Files!Ended
    BY DEF Files!Ended
  <2> QED BY <1>2, <1>3, <2>1, FieldsIs
<1>5. WayOf(r, q)
  BY <1>1, <1>4 DEF WayOf, GoesOn, Changers
<1> QED BY <1>1, <1>4, <1>5, GoesSound DEF Files!Running

\* A file is read: whoever reads may set it aside, and others follow it.
LEMMA ReadsSound ==
    ASSUME Sound, NEW r \in Reqs, NEW q \in Forms, Files!Reading(r, q), WayOf(r, q), req[r].pc \in Files!Running,
           q.kind = req[r].kind, UNCHANGED <<store, pages, crashes, expect>>
    PROVE  Sound'
<1>1. Onward(r, q) /\ disk' \in [Files!Paths -> Contents]
  BY ReadingSound
<1>2. expect' \in {Absent} \cup SUBSET Files!Record /\ pages' \subseteq Files!Ids
  BY DEF Sound, Sorts
<1> QED BY <1>1, <1>2, MovedSound

LEMMA FindSound ==
    ASSUME Files!StoresConstants, Sound, NEW r \in Reqs, Files!Find(r)
    PROVE  /\ Sound'
           /\ \E q \in Forms : /\ Files!Reading(r, q) /\ q.pc \in {"serve", "failed"}
                               /\ q.kind = req[r].kind /\ q.id = req[r].id
<1>1. PICK pc \in {"serve", "failed"} : Files!Reading(r, [req[r] EXCEPT !.pc = pc])
  BY DEF Files!Find
<1>2. WayOf(r, req[r]) /\ req[r] \in Forms /\ req[r].pc = "find" /\ UNCHANGED <<store, pages, crashes, expect>>
  BY DEF Files!Find, Files!Rest, Sound, Sorts, Ways
<1>3. PICK q : q = [req[r] EXCEPT !.pc = pc]
  OBVIOUS
<1>4. q \in Forms /\ q.kind = req[r].kind /\ q.id = req[r].id /\ q.val = req[r].val /\ q.fd = req[r].fd /\ q.pc = pc
  BY <1>2, <1>3 DEF Forms, Files!Running, Files!Ended
<1>5. WayOf(r, q)
  BY <1>2, <1>4 DEF WayOf, Changers
<1> QED BY <1>1, <1>2, <1>3, <1>4, <1>5, ReadsSound DEF Files!Running

\* A copy is taken, or the change refused.
LEMMA TakeCopySound ==
    ASSUME Files!StoresConstants, Sound, NEW r \in Reqs, Files!TakeCopy(r)
    PROVE  /\ Sound'
           /\ req[r].pc = "copy" /\ req[r].kind \in Changers /\ req[r].id \in Files!Ids
           /\ \E q, new :
                 /\ q \in Forms /\ Files!Reading(r, q) /\ q.kind = req[r].kind /\ q.id = req[r].id /\ q.val = req[r].val
                 /\ new = (IF Files!Main = Refused THEN Refused ELSE Files!Changed(req[r], Files!Main))
                 /\ new = Refused => q.pc \in {"copy", "failed"}
                 /\ new # Refused => q.pc = "open" /\ q.copy = new
                 /\ mixed' = (mixed \/ (new # Refused /\ Files!Changing # {}))
<1>1. PICK p \in Forms : p = req[r]
  BY DEF Sound, Sorts
<1>2. PICK new : new = IF Files!Main = Refused THEN Refused ELSE Files!Changed(p, Files!Main)
  OBVIOUS
<1>3. PICK q : q = IF new = Refused THEN Files!Fails(p) ELSE [p EXCEPT !.pc = "open", !.copy = new]
  OBVIOUS
<1>4. /\ p.pc = "copy" /\ Files!Reading(r, q) /\ UNCHANGED <<store, pages, crashes, expect>>
      /\ mixed' = (mixed \/ (new # Refused /\ Files!Changing # {}))
  BY <1>1, <1>2, <1>3 DEF Files!TakeCopy, Files!Rest
<1>5. WayOf(r, p)
  BY <1>1 DEF Sound, Ways
<1>6. p.kind \in Changers /\ p.id \in Files!Ids /\ p.fd = "closed"
  BY <1>4, <1>5 DEF WayOf, Changers
<1>7. new \in {Refused} \cup SUBSET Files!Record
  <2>1. Files!Main \in {Refused} \cup SUBSET Files!Record
    BY ParsedIs DEF Files!Main, Sound, Sorts, Files!Paths
  <2> QED BY <1>2, <1>6, <2>1, ChangedIs
<1>8. /\ q \in Forms /\ q.kind = p.kind /\ q.id = p.id /\ q.val = p.val /\ q.fd = "closed"
      /\ new = Refused => q.pc \in {"copy", "failed"}
      /\ new # Refused => q.pc = "open" /\ q.copy = new
  <2>1. CASE new # Refused
    BY <1>3, <1>6, <1>7, <2>1 DEF Forms, Files!Running
  <2>2. CASE new = Refused /\ q = [p EXCEPT !.again = TRUE]
    BY <1>4, <1>6, <2>2 DEF Forms
  <2>3. CASE new = Refused /\ q = [p EXCEPT !.pc = "failed", !.copy = {}]
    BY <1>6, <2>3 DEF Forms, Files!Ended
  <2> QED BY <1>3, <2>1, <2>2, <2>3 DEF Files!Fails
<1>9. WayOf(r, q)
  BY <1>4, <1>5, <1>6, <1>8 DEF WayOf, Changers
<1>10. Sound'
  BY <1>1, <1>4, <1>8, <1>9, ReadsSound DEF Files!Running
<1> QED BY <1>1, <1>2, <1>4, <1>6, <1>8, <1>10

LEMMA OpenSound ==
    ASSUME Files!StoresConstants, Sound, NEW r \in Reqs, Files!Open(r)
    PROVE  /\ Sound'
           /\ \E q \in Forms : /\ req' = [req EXCEPT ![r] = q] /\ q.kind = req[r].kind /\ q.id = req[r].id
                               /\ q.val = req[r].val /\ q.copy = req[r].copy
                               /\ q.pc = "write" /\ q.fd = Files!Target
<1>1. PICK p \in Forms : p = req[r]
  BY DEF Sound, Sorts
<1>2. PICK q : q = [p EXCEPT !.pc = "write", !.fd = Files!Target]
  OBVIOUS
<1>3. Files!Target \in Files!Paths
  BY DEF Files!Target, Files!Paths
<1>4. /\ q \in Forms /\ q.kind = p.kind /\ q.id = p.id /\ q.val = p.val /\ q.copy = p.copy
      /\ q.pc = "write" /\ q.fd = Files!Target
  BY <1>2, <1>3 DEF Forms, Files!Running
<1>5. /\ req' = [req EXCEPT ![r] = q] /\ p.pc = "open" /\ UNCHANGED <<store, pages, crashes, expect>>
      /\ disk' = [disk EXCEPT ![Files!Target] = Truncated]
  <2>1. req \in [Reqs -> Forms]
    BY DEF Sound, Sorts
  <2> QED BY <1>1, <1>2, <2>1 DEF Files!Open, Files!Rest
<1>6. WayOf(r, p)
  BY <1>1 DEF Sound, Ways
<1>7. WayOf(r, q)
  BY <1>4, <1>5, <1>6 DEF WayOf, Changers
<1>8. /\ disk' \in [Files!Paths -> Contents] /\ expect' \in {Absent} \cup SUBSET Files!Record
      /\ pages' \subseteq Files!Ids
  BY <1>3, <1>5 DEF Sound, Sorts, Contents
<1>9. Onward(r, q)
  BY <1>4, <1>5, MovedAlone
<1> QED BY <1>1, <1>4, <1>5, <1>7, <1>8, <1>9, MovedSound DEF Files!Running

LEMMA AppliedIs ==
    ASSUME Sound, NEW r \in Reqs, req[r].kind \in Changers, req[r].id \in Files!Ids
    PROVE  Files!Applied(req[r], expect) \in {Absent} \cup SUBSET Files!Record
<1>1. req[r] \in Forms /\ expect \in {Absent} \cup SUBSET Files!Record
  BY DEF Sound, Sorts
<1>2. expect # Absent => Files!Changed(req[r], expect) \in {Refused} \cup SUBSET Files!Record
  BY <1>1, ChangedIs
<1> QED BY <1>1, <1>2 DEF Files!Applied, Sound, Stays

LEMMA WriteSound ==
    ASSUME Files!StoresConstants, Sound, NEW r \in Reqs, Files!Write(r)
    PROVE  /\ Sound'
           /\ req[r].pc = "write" /\ req[r].kind \in Changers /\ req[r].id \in Files!Ids
           /\ \E q : q \in Forms /\ req' = [req EXCEPT ![r] = q] /\ q.kind = req[r].kind /\ q.id = req[r].id
                     /\ q.val = req[r].val /\ q.fd = "closed"
                     /\ q.pc = (IF Files!Renames THEN "replace" ELSE Files!AfterChange(req[r]))
                     /\ q.copy = (IF Files!Renames THEN req[r].copy ELSE {})
<1>1. PICK p \in Forms : p = req[r]
  BY DEF Sound, Sorts
<1>2. PICK pc, left : /\ pc = (IF Files!Renames THEN "replace" ELSE Files!AfterChange(p))
                      /\ left = (IF Files!Renames THEN p.copy ELSE {})
  OBVIOUS
<1>3. PICK q : q = [p EXCEPT !.fd = "closed", !.copy = left, !.pc = pc]
  OBVIOUS
<1>4. pc \in {"replace", "unlink", "ok"} /\ left \in SUBSET Files!Record
  BY <1>2 DEF Files!AfterChange, Forms
<1>5. /\ q \in Forms /\ q.kind = p.kind /\ q.id = p.id /\ q.val = p.val
      /\ q.pc = pc /\ q.fd = "closed" /\ q.copy = left
  BY <1>3, <1>4 DEF Forms, Files!Running, Files!Ended
<1>6. /\ req' = [req EXCEPT ![r] = q] /\ p.pc = "write" /\ UNCHANGED <<store, pages, crashes>>
      /\ expect' = IF Files!Renames THEN expect ELSE Files!Applied(p, expect)
  <2>1. req \in [Reqs -> Forms]
    BY DEF Sound, Sorts
  <2>2. req' = [req EXCEPT ![r] = [p EXCEPT !.fd = "closed", !.copy = left, !.pc = pc]]
    BY <1>1, <1>2, <2>1 DEF Files!Write
  <2> QED BY <1>1, <1>3, <2>2 DEF Files!Write, Files!Rest
<1>7. WayOf(r, p)
  BY <1>1 DEF Sound, Ways
<1>8. p.kind \in Changers /\ p.id \in Files!Ids
  BY <1>6, <1>7 DEF WayOf, Changers
<1>9. WayOf(r, q)
  BY <1>2, <1>5, <1>6, <1>7, <1>8 DEF WayOf, Changers, Files!AfterChange
<1>10. disk' \in [Files!Paths -> Contents]
  <2>1. disk \in [Files!Paths -> Contents] /\ p.copy \in Contents /\ Garbled \in Contents
    BY DEF Sound, Sorts, Contents, Forms
  <2>2. \/ disk' = disk
        \/ \E left2 \in {p.copy, Garbled} : disk' = [disk EXCEPT ![p.fd] = left2]
    BY <1>1 DEF Files!Write
  <2> QED BY <2>1, <2>2
<1>11. expect' \in {Absent} \cup SUBSET Files!Record /\ pages' \subseteq Files!Ids
  BY <1>1, <1>6, <1>8, AppliedIs DEF Sound, Sorts
<1>12. Onward(r, q)
  BY <1>5, <1>6, MovedAlone
<1>13. Sound'
  BY <1>1, <1>5, <1>6, <1>9, <1>10, <1>11, <1>12, MovedSound DEF Files!Running
<1> QED BY <1>1, <1>2, <1>5, <1>6, <1>8, <1>13

\* The rename, for whom it ends well.
LEMMA ReplaceSound ==
    ASSUME Files!StoresConstants, Sound, NEW r \in Reqs, Files!Replace(r)
    PROVE  /\ Sound'
           /\ req[r].pc = "replace" /\ Files!Renames /\ req[r].kind \in Changers /\ req[r].id \in Files!Ids
           /\ \E q : q \in Forms /\ Onward(r, q) /\ q.kind = req[r].kind /\ q.id = req[r].id
                     /\ q.val = req[r].val
                     /\ q.pc = (IF disk["tmp"] = Absent THEN "failed" ELSE Files!AfterChange(req[r]))
                     /\ (disk["tmp"] = Absent => req' = [req EXCEPT ![r] = q])
<1>1. PICK p \in Forms : p = req[r]
  BY DEF Sound, Sorts
<1>2. PICK pc : pc = (IF disk["tmp"] = Absent THEN "failed" ELSE Files!AfterChange(p))
  OBVIOUS
<1>3. PICK q : q = [p EXCEPT !.pc = pc, !.copy = {}]
  OBVIOUS
<1>4. pc \in {"failed", "unlink", "ok"}
  BY <1>2 DEF Files!AfterChange
<1>5. /\ q \in Forms /\ q.kind = p.kind /\ q.id = p.id /\ q.val = p.val
      /\ q.pc = pc /\ q.fd = p.fd
  BY <1>3, <1>4 DEF Forms, Files!Running, Files!Ended
<1>6. /\ p.pc = "replace" /\ UNCHANGED <<store, pages, crashes>> /\ WayOf(r, p)
      /\ req \in [Reqs -> Forms]
  BY <1>1 DEF Files!Replace, Files!Rest, Sound, Ways, Sorts
<1>7. p.kind \in Changers /\ p.id \in Files!Ids /\ Files!Renames
  BY <1>6 DEF WayOf, Changers
<1>8. WayOf(r, q)
  BY <1>2, <1>4, <1>5, <1>6, <1>7 DEF WayOf, Changers, Files!AfterChange
<1>9. /\ Onward(r, q) /\ disk' \in [Files!Paths -> Contents] /\ expect' \in {Absent} \cup SUBSET Files!Record
      /\ (disk["tmp"] = Absent => req' = [req EXCEPT ![r] = q])
  <2>1. CASE disk["tmp"] = Absent
    <3>1. req' = [req EXCEPT ![r] = q] /\ UNCHANGED <<disk, expect>>
      BY <1>1, <1>2, <1>3, <1>6, <2>1 DEF Files!Replace
    <3> QED BY <1>5, <3>1, MovedAlone DEF Sound, Sorts
  <2>2. CASE disk["tmp"] # Absent
    <3>1. req' = [s \in Reqs |-> IF s = r THEN q ELSE Files!Follow(req[s], "tmp", "main")]
      BY <1>1, <1>2, <1>3, <2>2 DEF Files!Replace
    <3>2. \A s \in Reqs : After(req[s], Files!Follow(req[s], "tmp", "main"))
      BY <1>6, FollowIs DEF Files!Paths
    <3>3. Onward(r, q)
      BY <1>5, <3>1, <3>2 DEF Onward
    <3>4. disk' = Files!Moved("tmp", "main") /\ expect' = Files!Applied(p, expect)
      BY <1>1, <2>2 DEF Files!Replace
    <3>5. disk' \in [Files!Paths -> Contents]
      BY <3>4 DEF Files!Moved, Sound, Sorts, Files!Paths, Contents
    <3>6. expect' \in {Absent} \cup SUBSET Files!Record
      BY <1>1, <1>7, <3>4, AppliedIs
    <3> QED BY <2>2, <3>3, <3>5, <3>6
  <2> QED BY <2>1, <2>2
<1>10. Sound'
  BY <1>1, <1>5, <1>6, <1>8, <1>9, MovedSound DEF Files!Running, Sound, Sorts
<1> QED BY <1>1, <1>2, <1>5, <1>6, <1>7, <1>9, <1>10

LEMMA EraseSound ==
    ASSUME Files!StoresConstants, Sound, NEW r \in Reqs, Files!UnlinkNotebook(r)
    PROVE  /\ Sound'
           /\ store = "knowledge" /\ req[r].pc = "unlink"
           /\ \E q : Onward(r, q) /\ q.pc = "ok" /\ q.kind = "erase"
<1>1. PICK p \in Forms : p = req[r]
  BY DEF Sound, Sorts
<1>2. PICK q : q = [p EXCEPT !.pc = "ok"]
  OBVIOUS
<1>3. /\ p.pc = "unlink" /\ p.kind = "erase" /\ UNCHANGED <<store, pages, crashes>> /\ WayOf(r, p)
      /\ req \in [Reqs -> Forms] /\ disk' = [disk EXCEPT !["main"] = Absent] /\ expect' = Absent
  BY <1>1 DEF Files!UnlinkNotebook, Files!Rest, Sound, Ways, Sorts
<1>4. /\ q \in Forms /\ q.kind = p.kind /\ q.id = p.id /\ q.val = p.val /\ q.pc = "ok" /\ q.fd = p.fd
  BY <1>2 DEF Forms, Files!Ended
<1>5. WayOf(r, q) /\ store = "knowledge"
  BY <1>3, <1>4 DEF WayOf, Changers
<1>6. Onward(r, q)
  <2>1. req' = [s \in Reqs |-> IF s = r THEN q
                               ELSE IF req[s].fd = "main" THEN [req[s] EXCEPT !.fd = "gone"] ELSE req[s]]
    BY <1>1, <1>2 DEF Files!UnlinkNotebook
  <2>2. \A t \in Forms : After(t, t) /\ (t.fd = "main" => After(t, [t EXCEPT !.fd = "gone"]))
    BY DEF After, Forms
  <2> QED BY <1>3, <1>4, <2>1, <2>2 DEF Onward
<1>7. disk' \in [Files!Paths -> Contents] /\ expect' \in {Absent} \cup SUBSET Files!Record /\ pages' \subseteq Files!Ids
  BY <1>3 DEF Sound, Sorts, Contents
<1> QED BY <1>1, <1>3, <1>4, <1>5, <1>6, <1>7, MovedSound DEF Files!Running

LEMMA CrashSound ==
    ASSUME Files!StoresConstants, Sound, Files!Crash
    PROVE  /\ Sound'
           /\ Files!Changing' = {} /\ Files!Active' = {}
           /\ \A r \in Reqs : /\ req'[r].kind = req[r].kind /\ req'[r].id = req[r].id
                              /\ (req'[r].pc = req[r].pc \/ req'[r].pc = "lost")
                              /\ req'[r].pc \notin Files!Running
<1>1. ASSUME NEW p \in Forms, NEW q, q = [p EXCEPT !.pc = "lost", !.copy = {}, !.fd = "closed"]
      PROVE  /\ q \in Forms /\ q.kind = p.kind /\ q.id = p.id /\ q.val = p.val
             /\ q.pc = "lost" /\ q.fd = "closed"
  BY <1>1 DEF Forms, Files!Ended
<1>2. /\ req' = [r \in Reqs |-> IF r \in Files!Active
                                THEN [req[r] EXCEPT !.pc = "lost", !.copy = {}, !.fd = "closed"]
                                ELSE req[r]]
      /\ UNCHANGED <<store, disk, pages, expect>> /\ crashes' = crashes + 1 /\ crashes < MaxCrashes
      /\ req \in [Reqs -> Forms]
  BY DEF Files!Crash, Sound, Sorts
<1>3. \A r \in Reqs : /\ req'[r] \in Forms /\ req'[r].kind = req[r].kind /\ req'[r].id = req[r].id
                      /\ req'[r].val = req[r].val
                      /\ \/ r \notin Files!Active /\ req'[r] = req[r]
                         \/ r \in Files!Active /\ req'[r].pc = "lost" /\ req'[r].fd = "closed"
  <2> SUFFICES ASSUME NEW r \in Reqs
               PROVE  /\ req'[r] \in Forms /\ req'[r].kind = req[r].kind /\ req'[r].id = req[r].id
                      /\ req'[r].val = req[r].val
                      /\ \/ r \notin Files!Active /\ req'[r] = req[r]
                         \/ r \in Files!Active /\ req'[r].pc = "lost" /\ req'[r].fd = "closed"
    OBVIOUS
  <2>1. CASE r \in Files!Active
    <3>1. req'[r] = [req[r] EXCEPT !.pc = "lost", !.copy = {}, !.fd = "closed"]
      BY <1>2, <2>1
    <3> QED BY <1>1, <1>2, <2>1, <3>1
  <2>2. CASE r \notin Files!Active
    BY <1>2, <2>2
  <2> QED BY <2>1, <2>2
<1>4. \A r \in Reqs : (req'[r].pc = req[r].pc \/ req'[r].pc = "lost") /\ req'[r].pc \notin Files!Running
  BY <1>3 DEF Files!Active, Files!Running
<1>5. Files!Changing' = {} /\ Files!Active' = {}
  BY <1>4 DEF Files!Changing, Files!Active, Files!Running
<1>6. Sorts'
  <2>1. req' \in [Reqs -> Forms]
    BY <1>2, <1>3
  <2>2. crashes' \in 0 .. MaxCrashes
    <3>1. crashes \in 0 .. MaxCrashes /\ MaxCrashes \in Nat
      BY DEF Sound, Sorts, Files!StoresConstants
    <3>2. crashes' = crashes + 1 /\ crashes < MaxCrashes
      BY DEF Files!Crash
    <3> QED BY <3>1, <3>2
  <2> QED BY <1>2, <2>1, <2>2 DEF Sound, Sorts
<1>7. Ways'
  <2> SUFFICES ASSUME NEW r \in Reqs PROVE WayOf(r, req[r])'
    BY DEF Ways
  <2>1. WayOf(r, req[r])
    BY DEF Sound, Ways
  <2>2. CASE r \notin Files!Active
    BY <1>2, <1>3, <2>1, <2>2 DEF WayOf, Files!HasPages, Files!Renames
  <2>3. CASE r \in Files!Active
    <3>1. req[r].pc # "idle"
      BY <2>3 DEF Files!Active, Files!Running
    <3> QED BY <1>2, <1>3, <2>1, <2>3, <3>1 DEF WayOf, Files!HasPages, Files!Renames
  <2> QED BY <2>2, <2>3
<1>8. OneUpload'
  BY <1>5 DEF OneUpload
<1> QED BY <1>3, <1>4, <1>5, <1>6, <1>7, <1>8 DEF Sound

---------------------------------------------------------------------------
(* One change at a time, as long as nothing is mixed up.                   *)

OneChange == \A r, s \in Files!Changing : r = s

\* What is about to be written is what is stored with the request's own change.
OwnCopy == \A r \in Files!Changing : expect # Absent /\ req[r].copy = Files!Changed(req[r], expect)

Whole == Files!Changing = {} \/ Files!Renames => disk["main"] = expect

\* The temporary file is the writer's own.
Temporary ==
    Files!Renames => \A r \in Files!Changing :
        /\ req[r].pc = "write" => req[r].fd = "tmp" /\ disk["tmp"] = Truncated
        /\ req[r].pc = "replace" => disk["tmp"] = req[r].copy

InPlace ==
    ~Files!Renames => \A r \in Files!Changing :
        /\ req[r].pc = "open" => disk["main"] = expect
        /\ req[r].pc = "write" => req[r].fd = "main" /\ disk["main"] = Truncated

Apart == OneChange /\ OwnCopy /\ Whole /\ Temporary /\ InPlace /\ Stays

Late == {"copy", "open", "write", "replace"}

\* A page is there before its record and goes after it.
Paged ==
    Files!HasPages =>
        /\ \A e \in expect : e.id \in pages
        /\ \A r \in Reqs : req[r].kind = "add" /\ req[r].pc \in Late => r \in pages
        /\ \A r \in Reqs : req[r].kind = "remove" /\ req[r].pc = "unlink" =>
               \A e \in expect : e.id # req[r].id

\* A chosen name stays free until its record is written.
TablesApart ==
    store = "uploads" /\ ~raced =>
        /\ \A r, s \in Files!Choosing : r = s
        /\ \A r \in Files!Choosing : \A e \in expect : e.val = req[r].val => e.id = req[r].id
        /\ \A e, f \in expect : e.val = f.val => e = f

Lasts == ~mixed => Apart /\ Paged /\ TablesApart

MarksAreNoRecords == \A m \in {Absent, Truncated, Garbled, Refused} : m \notin SUBSET Files!Record

---------------------------------------------------------------------------
\* A request changes that is not about to write.
LEMMA QuietApart ==
    ASSUME Sound, Apart, NEW r \in Reqs, NEW q \in Forms, req' = [req EXCEPT ![r] = q],
           req[r].pc \notin {"open", "write", "replace"}, q.pc \notin {"open", "write", "replace"},
           UNCHANGED <<store, disk, expect>>
    PROVE  Apart'
<1>1. req \in [Reqs -> Forms]
  BY DEF Sound, Sorts
<1>2. Files!Changing' = Files!Changing /\ \A s \in Files!Changing : req'[s] = req[s]
  BY <1>1 DEF Files!Changing
<1>3. OneChange' /\ Stays'
  BY <1>2 DEF Apart, OneChange, Stays
<1>4. OwnCopy'
  BY <1>2 DEF Apart, OwnCopy, Files!Changed
<1>5. Whole' /\ Temporary' /\ InPlace'
  BY <1>2 DEF Apart, Whole, Temporary, InPlace, Files!Renames
<1> QED BY <1>3, <1>4, <1>5 DEF Apart

LEMMA QuietPaged ==
    ASSUME Sound, Paged, NEW r \in Reqs, NEW q \in Forms, req' = [req EXCEPT ![r] = q],
           UNCHANGED <<store, expect>>, pages \subseteq pages',
           Files!HasPages /\ q.kind = "add" /\ q.pc \in Late => r \in pages',
           q.kind # "remove" \/ q.pc # "unlink"
    PROVE  Paged'
<1>1. req \in [Reqs -> Forms]
  BY DEF Sound, Sorts
<1>2. req'[r] = q /\ \A s \in Reqs \ {r} : req'[s] = req[s]
  BY <1>1
<1> QED BY <1>2 DEF Paged, Files!HasPages

\* No name is chosen anew, and no record is added.
LEMMA QuietTables ==
    ASSUME TablesApart, UNCHANGED store, raced' = raced, Files!Choosing' \subseteq Files!Choosing,
           \A s \in Files!Choosing' : req'[s].val = req[s].val /\ req'[s].id = req[s].id,
           expect' \subseteq expect
    PROVE  TablesApart'
<1>1. SUFFICES ASSUME store = "uploads", ~raced PROVE TablesApart'
  BY DEF TablesApart
<1>2. \A r, s \in Files!Choosing' : r = s
  BY <1>1 DEF TablesApart
<1>3. \A r \in Files!Choosing' : \A e \in expect' : e.val = req'[r].val => e.id = req'[r].id
  BY <1>1 DEF TablesApart
<1>4. \A e, f \in expect' : e.val = f.val => e = f
  BY <1>1 DEF TablesApart
<1> QED BY <1>2, <1>3, <1>4 DEF TablesApart

LEMMA GoesTables ==
    ASSUME Sound, TablesApart, NEW r \in Reqs, NEW q, NEW pc, GoesOn(r, q, pc), UNCHANGED <<store, expect, raced>>,
           r \in Files!Choosing \/ pc \notin {"page", "copy", "open", "write", "replace"} \/ store # "uploads",
           req[r].pc # "choose"
    PROVE  TablesApart'
<1>1. req \in [Reqs -> Forms]
  BY DEF Sound, Sorts
<1>2. Files!Choosing' \subseteq Files!Choosing \/ store # "uploads"
  BY <1>1 DEF GoesOn, Files!Choosing
<1>3. \A s \in Reqs : req'[s].val = req[s].val /\ req'[s].id = req[s].id
  BY <1>1 DEF GoesOn
<1>4. CASE store = "uploads"
  BY <1>2, <1>3, <1>4, QuietTables DEF Files!Choosing
<1>5. CASE store # "uploads"
  BY <1>5 DEF TablesApart
<1> QED BY <1>4, <1>5

LEMMA ArrivesLast ==
    ASSUME Files!StoresConstants, Sound, Lasts, NEW r \in Reqs, Files!Arrives(r)
    PROVE  Lasts'
<1>1. PICK q : Begins(r, q) /\ req' = [req EXCEPT ![r] = q]
  BY ArrivesIs
<1>2. req[r].pc = "idle" /\ UNCHANGED <<store, disk, pages, expect, mixed, raced>>
  BY ArrivesIs
<1> SUFFICES ASSUME ~mixed PROVE Apart' /\ Paged' /\ TablesApart'
  BY <1>2 DEF Lasts
<1>3. Apart'
  BY <1>1, <1>2, QuietApart DEF Lasts, Begins
<1>4. Paged'
  BY <1>1, <1>2, QuietPaged DEF Lasts, Begins, Late, WayOf
<1>5. req \in [Reqs -> Forms]
  BY DEF Sound, Sorts
<1>6. TablesApart'
  <2>1. CASE store = "uploads"
    <3>1. r \notin Files!Choosing /\ r \notin Files!Choosing'
      BY <1>1, <1>2, <1>5 DEF Files!Choosing, Begins
    <3>2. \A s \in Reqs \ {r} : req'[s] = req[s]
      BY <1>1, <1>5
    <3>3. Files!Choosing' \subseteq Files!Choosing /\ \A s \in Files!Choosing' : req'[s].val = req[s].val /\ req'[s].id = req[s].id
      BY <1>2, <3>1, <3>2 DEF Files!Choosing
    <3> QED BY <1>2, <3>3, QuietTables DEF Lasts
  <2>2. CASE store # "uploads"
    BY <1>2, <2>2 DEF TablesApart
  <2> QED BY <2>1, <2>2
<1> QED BY <1>3, <1>4, <1>6

\* A file that can be read is not set aside, and holds what was applied.
LEMMA MainIsWhole ==
    ASSUME MarksAreNoRecords, Files!StoresConstants, Sound, Apart, Files!Changing = {} \/ Files!Renames
    PROVE  /\ disk["main"] = expect /\ expect \notin Files!Unreadable /\ ~Files!SetsAside
           /\ expect # Absent => Files!Main = expect
           /\ expect = Absent => Files!Main = Refused
<1>1. disk["main"] = expect
  BY DEF Apart, Whole
<1>2. expect \notin Files!Unreadable
  BY DEF Sound, Sorts, Files!Unreadable, MarksAreNoRecords, Files!StoresConstants
<1> QED BY <1>1, <1>2 DEF Files!SetsAside, Files!Main, Files!Parsed, Apart, Stays

LEMMA ChooseLast ==
    ASSUME MarksAreNoRecords, Files!StoresConstants, Sound, Lasts, NEW r \in Reqs, Files!ChooseName(r)
    PROVE  Lasts'
<1>1. PICK q : /\ GoesOn(r, q, IF req[r].kind = "add" THEN "page" ELSE "copy")
               /\ q.val \in Files!TableNames /\ req[r].pc = "choose"
               /\ \A e \in Files!Main : e.id # q.id => e.val # q.val
  BY ChooseIs
<1>2. UNCHANGED <<store, disk, pages, expect, mixed>> /\ WayOf(r, req[r]) /\ req \in [Reqs -> Forms]
      /\ raced' = (raced \/ \E s \in Files!Choosing \ {r} : "set" \in {req[r].kind, req[s].kind})
  BY DEF Files!ChooseName, Files!Rest, Sound, Ways, Sorts
<1> SUFFICES ASSUME ~mixed PROVE Apart' /\ Paged' /\ TablesApart'
  BY <1>2 DEF Lasts
<1>3. Apart'
  BY <1>1, <1>2, QuietApart DEF Lasts, GoesOn
<1>4. store = "uploads" /\ req[r].kind \in {"add", "set"} /\ (req[r].kind = "add" => q.pc = "page")
      /\ q.pc \in {"page", "copy"} /\ q.kind = req[r].kind /\ q.id = req[r].id /\ q \in Forms
      /\ req' = [req EXCEPT ![r] = q]
  BY <1>1, <1>2 DEF WayOf, GoesOn
<1>5. Paged'
  <2>1. q.kind = "add" => q.pc \notin Late
    BY <1>4 DEF Late
  <2> QED BY <1>2, <1>4, <2>1, QuietPaged DEF Lasts
<1>6. TablesApart'
  <2> SUFFICES ASSUME ~raced' PROVE TablesApart'
    BY DEF TablesApart
  <2>1. \A s \in Files!Choosing \ {r} : req[s].kind # "set" /\ req[r].kind # "set"
    BY <1>2
  <2>2. Files!Choosing \subseteq {r}
    <3> SUFFICES ASSUME NEW s \in Files!Choosing \ {r} PROVE FALSE
      OBVIOUS
    <3>1. req[s].kind = "add" /\ req[r].kind = "add"
      BY <1>4, <2>1 DEF Files!Choosing
    <3>2. s \in Files!Active /\ r \in Files!Active
      BY <1>1 DEF Files!Active, Files!Running, Files!Choosing
    <3> QED BY <1>4, <3>1, <3>2 DEF Sound, OneUpload
  <2>3. Files!Choosing' \subseteq {r}
    <3>1. \A s \in Reqs \ {r} : req'[s] = req[s]
      BY <1>2, <1>4
    <3> QED BY <1>2, <2>2, <3>1 DEF Files!Choosing
  <2>4. req'[r] = q /\ ~raced
    BY <1>2, <1>4
  <2>5. Files!Main = expect
    <3>1. Files!Renames /\ expect # Absent
      BY <1>4 DEF Files!Renames, Lasts, Apart, Stays
    <3> QED BY <3>1, MainIsWhole DEF Lasts
  <2>6. \A e, f \in expect : e.val = f.val => e = f
    BY <1>4, <2>4 DEF Lasts, TablesApart
  <2> QED BY <1>1, <1>2, <2>3, <2>4, <2>5, <2>6 DEF TablesApart
<1> QED BY <1>3, <1>5, <1>6

LEMMA WritePageLast ==
    ASSUME Files!StoresConstants, Sound, Lasts, NEW r \in Reqs, Files!WritePage(r)
    PROVE  Lasts'
<1>1. PICK q, pc : /\ GoesOn(r, q, pc) /\ pc \in {"copy", "failed"}
                   /\ (pc = "copy" => pages' = pages \cup {r})
                   /\ pages' \in {pages, pages \cup {r}}
  BY WritePageSound
<1>2. UNCHANGED <<store, disk, expect, mixed, raced>> /\ WayOf(r, req[r]) /\ req[r].pc = "page"
  BY DEF Files!WritePage, Files!Rest, Sound, Ways
<1> SUFFICES ASSUME ~mixed PROVE Apart' /\ Paged' /\ TablesApart'
  BY <1>2 DEF Lasts
<1>3. Apart'
  BY <1>1, <1>2, QuietApart DEF Lasts, GoesOn
<1>4. Paged'
  BY <1>1, <1>2, QuietPaged DEF Lasts, GoesOn, Late
<1>5. TablesApart'
  BY <1>1, <1>2, GoesTables DEF Lasts, Files!Choosing, WayOf
<1> QED BY <1>3, <1>4, <1>5

LEMMA IdlesLast ==
    ASSUME Files!StoresConstants, Sound, Lasts, NEW r \in Reqs, Idles(r)
    PROVE  Lasts'
<1>1. PICK q, pc : /\ GoesOn(r, q, pc) /\ pc \in {"copy", "engine", "ok", "failed"}
                   /\ req[r].pc \in {"get", "engine", "serve"}
  BY IdlesSound
<1>2. UNCHANGED <<store, disk, pages, expect, mixed, raced>> /\ WayOf(r, req[r])
      /\ (pc = "copy" => req[r].kind = "test" /\ store = "connections")
  <2>1. WayOf(r, req[r]) /\ UNCHANGED <<store, disk, pages, expect, mixed, raced>>
    BY DEF Idles, Files!GetConnection, Files!EngineAnswers, Files!Serve, Files!Rest, Sound, Ways
  <2>2. pc = "copy" => req[r].pc # "serve"
    <3>1. req \in [Reqs -> Forms]
      BY DEF Sound, Sorts
    <3> QED BY <1>1, <3>1 DEF Idles, Files!GetConnection, Files!EngineAnswers, Files!Serve, GoesOn, Forms
  <2> QED BY <1>1, <2>1, <2>2 DEF WayOf
<1> SUFFICES ASSUME ~mixed PROVE Apart' /\ Paged' /\ TablesApart'
  BY <1>2 DEF Lasts
<1>3. Apart'
  BY <1>1, <1>2, QuietApart DEF Lasts, GoesOn
<1>4. Paged'
  <2>1. q.kind = "add" => q.pc \notin Late
    BY <1>1, <1>2 DEF GoesOn, Late
  <2> QED BY <1>1, <1>2, <2>1, QuietPaged DEF Lasts, GoesOn
<1>5. TablesApart'
  BY <1>1, <1>2, GoesTables DEF Lasts
<1> QED BY <1>3, <1>4, <1>5

\* A page goes when its record has gone: who knew the record has it from one
\* that ended.
LEMMA UnlinkLast ==
    ASSUME Files!StoresConstants, Sound, RemovesKnown, Lasts, NEW r \in Reqs, Files!Unlink(r)
    PROVE  Lasts'
<1>1. PICK q : GoesOn(r, q, "ok")
  BY UnlinkSound
<1>2. /\ UNCHANGED <<store, disk, expect, mixed, raced>> /\ req[r].pc = "unlink" /\ req[r].kind = "remove"
      /\ pages' = pages \ {req[r].id} /\ req \in [Reqs -> Forms]
  BY DEF Files!Unlink, Files!Rest, Sound, Sorts
<1> SUFFICES ASSUME ~mixed PROVE Apart' /\ Paged' /\ TablesApart'
  BY <1>2 DEF Lasts
<1>3. Apart'
  BY <1>1, <1>2, QuietApart DEF Lasts, GoesOn
<1>4. Paged'
  <2> SUFFICES ASSUME Files!HasPages PROVE Paged'
    BY <1>2 DEF Paged, Files!HasPages
  <2>1. \A e \in expect : e.id \in pages'
    BY <1>2 DEF Lasts, Paged
  <2>2. req[r].id \in Files!Known
    BY <1>2 DEF RemovesKnown
  <2>3. \A s \in Reqs : req[s].kind = "add" /\ req[s].pc \in Late => s # req[r].id
    BY <2>2 DEF Files!Known, Late, Files!StoresConstants
  <2>4. \A s \in Reqs \ {r} : req'[s] = req[s]
    BY <1>1, <1>2 DEF GoesOn
  <2>5. req'[r] = q /\ q.pc = "ok"
    BY <1>1, <1>2 DEF GoesOn
  <2>6. \A s \in Reqs : req'[s].kind = "add" /\ req'[s].pc \in Late => s \in pages'
    BY <1>2, <2>3, <2>4, <2>5 DEF Lasts, Paged, Late
  <2>7. \A s \in Reqs : req'[s].kind = "remove" /\ req'[s].pc = "unlink" =>
               \A e \in expect' : e.id # req'[s].id
    BY <1>2, <2>4, <2>5 DEF Lasts, Paged
  <2> QED BY <1>2, <2>1, <2>6, <2>7 DEF Paged
<1>5. TablesApart'
  BY <1>1, <1>2, GoesTables DEF Lasts
<1> QED BY <1>3, <1>4, <1>5

LEMMA FindLast ==
    ASSUME MarksAreNoRecords, Files!StoresConstants, Sound, Lasts, NEW r \in Reqs, Files!Find(r)
    PROVE  Lasts'
<1>1. PICK q \in Forms : /\ Files!Reading(r, q) /\ q.pc \in {"serve", "failed"}
                         /\ q.kind = req[r].kind /\ q.id = req[r].id
  BY FindSound
<1>2. UNCHANGED <<store, pages, expect, mixed, raced>> /\ req[r].pc = "find" /\ req \in [Reqs -> Forms]
  BY DEF Files!Find, Files!Rest, Sound, Sorts
<1> SUFFICES ASSUME ~mixed PROVE Apart' /\ Paged' /\ TablesApart'
  BY <1>2 DEF Lasts
<1>3. ~Files!SetsAside
  BY MainIsWhole DEF Files!SetsAside, Files!Renames, Lasts
<1>4. disk' = disk /\ req' = [req EXCEPT ![r] = q]
  BY <1>1, <1>3, ReadingSound
<1>5. Apart'
  BY <1>1, <1>2, <1>4, QuietApart DEF Lasts
<1>6. Paged'
  BY <1>1, <1>2, <1>4, QuietPaged DEF Lasts, Late
<1>7. TablesApart'
  <2>1. \A s \in Reqs \ {r} : req'[s] = req[s]
    BY <1>2, <1>4
  <2>2. r \notin Files!Choosing /\ r \notin Files!Choosing'
    BY <1>1, <1>2, <1>4 DEF Files!Choosing
  <2>3. Files!Choosing' \subseteq Files!Choosing /\ \A s \in Files!Choosing' : req'[s].val = req[s].val /\ req'[s].id = req[s].id
    BY <1>2, <2>1, <2>2 DEF Files!Choosing
  <2> QED BY <1>2, <2>3, QuietTables DEF Lasts
<1> QED BY <1>5, <1>6, <1>7

LEMMA TakeCopyLast ==
    ASSUME MarksAreNoRecords, Files!StoresConstants, Sound, Lasts, NEW r \in Reqs, Files!TakeCopy(r)
    PROVE  Lasts'
<1>1. PICK q, new :
         /\ q \in Forms /\ Files!Reading(r, q) /\ q.kind = req[r].kind /\ q.id = req[r].id /\ q.val = req[r].val
         /\ new = (IF Files!Main = Refused THEN Refused ELSE Files!Changed(req[r], Files!Main))
         /\ new = Refused => q.pc \in {"copy", "failed"}
         /\ new # Refused => q.pc = "open" /\ q.copy = new
         /\ mixed' = (mixed \/ (new # Refused /\ Files!Changing # {}))
  BY TakeCopySound
<1>2. UNCHANGED <<store, pages, expect, raced>> /\ req[r].pc = "copy" /\ req \in [Reqs -> Forms]
  BY DEF Files!TakeCopy, Files!Rest, Sound, Sorts
<1> SUFFICES ASSUME ~mixed, new = Refused \/ Files!Changing = {} PROVE Apart' /\ Paged' /\ TablesApart'
  BY <1>1 DEF Lasts
<1>3. ~Files!SetsAside
  BY MainIsWhole DEF Files!SetsAside, Files!Renames, Lasts
<1>4. disk' = disk /\ req' = [req EXCEPT ![r] = q]
  BY <1>1, <1>3, ReadingSound
<1>5. req'[r] = q /\ \A s \in Reqs \ {r} : req'[s] = req[s]
  BY <1>2, <1>4
<1>6. Apart'
  <2>1. CASE new = Refused
    BY <1>1, <1>2, <1>4, <2>1, QuietApart DEF Lasts
  <2>2. CASE new # Refused
    <3>1. disk["main"] = expect /\ expect # Absent /\ Files!Main = expect
      BY <1>1, <2>2, MainIsWhole DEF Lasts
    <3>2. Files!Changing' = {r} /\ q.pc = "open"
      BY <1>1, <1>5, <2>2 DEF Files!Changing
    <3>3. q.copy = Files!Changed(req[r], expect)
      BY <1>1, <2>2, <3>1
    <3>4. OwnCopy'
      BY <1>1, <1>2, <1>5, <3>1, <3>2, <3>3 DEF OwnCopy, Files!Changed
    <3> QED BY <1>2, <1>4, <1>5, <3>1, <3>2, <3>4
            DEF Apart, OneChange, Whole, Temporary, InPlace, Stays
  <2> QED BY <2>1, <2>2
<1>7. Paged'
  <2>1. Files!HasPages /\ q.kind = "add" => r \in pages
    BY <1>1, <1>2 DEF Lasts, Paged, Late
  <2> QED BY <1>1, <1>2, <1>4, <2>1, QuietPaged DEF Lasts
<1>8. TablesApart'
  <2>1. Files!Choosing' \subseteq Files!Choosing /\ \A s \in Files!Choosing' : req'[s].val = req[s].val /\ req'[s].id = req[s].id
    BY <1>1, <1>2, <1>5 DEF Files!Choosing
  <2> QED BY <1>2, <2>1, QuietTables DEF Lasts
<1> QED BY <1>6, <1>7, <1>8

LEMMA OpenLast ==
    ASSUME Files!StoresConstants, Sound, Lasts, NEW r \in Reqs, Files!Open(r)
    PROVE  Lasts'
<1>1. PICK q \in Forms : /\ req' = [req EXCEPT ![r] = q] /\ q.kind = req[r].kind /\ q.id = req[r].id
                         /\ q.val = req[r].val /\ q.copy = req[r].copy
                         /\ q.pc = "write" /\ q.fd = Files!Target
  BY OpenSound
<1>2. UNCHANGED <<store, pages, expect, mixed, raced>> /\ req[r].pc = "open" /\ req \in [Reqs -> Forms]
      /\ disk' = [disk EXCEPT ![Files!Target] = Truncated] /\ disk \in [Files!Paths -> Contents]
  BY DEF Files!Open, Files!Rest, Sound, Sorts
<1> SUFFICES ASSUME ~mixed PROVE Apart' /\ Paged' /\ TablesApart'
  BY <1>2 DEF Lasts
<1>3. req'[r] = q /\ \A s \in Reqs \ {r} : req'[s] = req[s]
  BY <1>1, <1>2
<1>4. Apart'
  <2>1. Files!Changing = {r} /\ Files!Changing' = {r}
    BY <1>1, <1>2, <1>3 DEF Files!Changing, Lasts, Apart, OneChange
  <2>2. OwnCopy'
    BY <1>1, <1>2, <1>3, <2>1 DEF Lasts, Apart, OwnCopy, Files!Changed
  <2>3. disk'[Files!Target] = Truncated /\ (Files!Renames => disk'["main"] = disk["main"] /\ Files!Target = "tmp")
        /\ (~Files!Renames => Files!Target = "main")
    BY <1>2 DEF Files!Target, Files!Paths
  <2>4. Whole' /\ Temporary' /\ InPlace' /\ Stays'
    BY <1>1, <1>2, <1>3, <2>1, <2>3 DEF Lasts, Apart, Whole, Temporary, InPlace, Stays, Files!Renames
  <2> QED BY <2>1, <2>2, <2>4 DEF Apart, OneChange
<1>5. Paged'
  <2>1. Files!HasPages /\ q.kind = "add" => r \in pages
    BY <1>1, <1>2 DEF Lasts, Paged, Late
  <2> QED BY <1>1, <1>2, <2>1, QuietPaged DEF Lasts
<1>6. TablesApart'
  <2>1. Files!Choosing' \subseteq Files!Choosing /\ \A s \in Files!Choosing' : req'[s].val = req[s].val /\ req'[s].id = req[s].id
    BY <1>1, <1>2, <1>3 DEF Files!Choosing
  <2> QED BY <1>2, <2>1, QuietTables DEF Lasts
<1> QED BY <1>4, <1>5, <1>6

\* Who writes alone makes of the store what its change gives.
LEMMA OneApplies ==
    ASSUME MarksAreNoRecords, Sound, Apart, NEW r \in Files!Changing
    PROVE  /\ Files!Changing = {r} /\ expect \in SUBSET Files!Record
           /\ Files!Applied(req[r], expect) = req[r].copy /\ req[r].copy \in SUBSET Files!Record
           /\ req[r].copy = Files!Changed(req[r], expect)
           /\ req[r].copy \notin {Absent, Truncated, Garbled, Refused}
<1>1. req[r].copy \in SUBSET Files!Record /\ expect \in {Absent} \cup SUBSET Files!Record
  BY DEF Sound, Sorts, Forms, Files!Changing
<1>2. req[r].copy \notin {Absent, Truncated, Garbled, Refused}
  BY <1>1 DEF MarksAreNoRecords
<1> QED BY <1>1, <1>2 DEF Apart, OneChange, OwnCopy, Files!Applied

LEMMA WriteLast ==
    ASSUME MarksAreNoRecords, Files!StoresConstants, Sound, Lasts, NEW r \in Reqs, Files!Write(r)
    PROVE  Lasts'
<1>1. PICK q : q \in Forms /\ req' = [req EXCEPT ![r] = q] /\ q.kind = req[r].kind /\ q.id = req[r].id
               /\ q.val = req[r].val /\ q.fd = "closed"
               /\ q.pc = (IF Files!Renames THEN "replace" ELSE Files!AfterChange(req[r]))
               /\ q.copy = (IF Files!Renames THEN req[r].copy ELSE {})
  BY WriteSound
<1>2. UNCHANGED <<store, pages, mixed, raced>> /\ req[r].pc = "write" /\ req \in [Reqs -> Forms]
      /\ disk \in [Files!Paths -> Contents] /\ r \in Files!Changing
      /\ expect' = IF Files!Renames THEN expect ELSE Files!Applied(req[r], expect)
  BY DEF Files!Write, Files!Rest, Sound, Sorts, Files!Changing
<1> SUFFICES ASSUME ~mixed PROVE Apart' /\ Paged' /\ TablesApart'
  BY <1>2 DEF Lasts
<1>3. req'[r] = q /\ \A s \in Reqs \ {r} : req'[s] = req[s]
  BY <1>1, <1>2
<1>4. /\ Files!Changing = {r} /\ Files!Applied(req[r], expect) = req[r].copy
      /\ req[r].copy \notin {Absent, Truncated, Garbled, Refused}
      /\ req[r].copy = Files!Changed(req[r], expect) /\ expect # Absent
  BY <1>2, OneApplies DEF Lasts, Apart, OwnCopy
<1>5. CASE Files!Renames
  <2>1. disk' = [disk EXCEPT !["tmp"] = req[r].copy]
    BY <1>2, <1>5 DEF Files!Write, Lasts, Apart, Temporary
  <2>2. Files!Changing' = {r}
    BY <1>1, <1>3, <1>4, <1>5 DEF Files!Changing
  <2>3. OwnCopy'
    BY <1>1, <1>2, <1>3, <1>4, <1>5, <2>2 DEF OwnCopy, Files!Changed
  <2>4. disk'["main"] = disk["main"] /\ disk'["tmp"] = req[r].copy
    BY <1>2, <2>1 DEF Files!Paths
  <2>5. Apart'
    BY <1>1, <1>2, <1>3, <1>5, <2>2, <2>3, <2>4
       DEF Lasts, Apart, OneChange, Whole, Temporary, InPlace, Stays, Files!Renames
  <2>6. Files!HasPages /\ q.kind = "add" => r \in pages
    BY <1>1, <1>2 DEF Lasts, Paged, Late
  <2>7. Paged'
    BY <1>1, <1>2, <1>5, <2>6, QuietPaged DEF Lasts
  <2>8. Files!Choosing' \subseteq Files!Choosing /\ \A s \in Files!Choosing' : req'[s].val = req[s].val /\ req'[s].id = req[s].id
    BY <1>1, <1>2, <1>3 DEF Files!Choosing
  <2>9. TablesApart'
    BY <1>2, <1>5, <2>8, QuietTables DEF Lasts
  <2> QED BY <2>5, <2>7, <2>9
<1>6. CASE ~Files!Renames
  <2>1. disk'["main"] = req[r].copy
    BY <1>2, <1>4, <1>6 DEF Files!Write, Lasts, Apart, InPlace, Files!Paths
  <2>2. Files!Changing' = {}
    BY <1>1, <1>3, <1>4, <1>6 DEF Files!Changing, Files!AfterChange
  <2>3. Apart'
    BY <1>2, <1>4, <1>6, <2>1, <2>2 DEF Apart, OneChange, OwnCopy, Whole, Temporary, InPlace, Stays
  <2> QED BY <1>2, <1>6, <2>3 DEF Paged, TablesApart, Files!HasPages, Files!Renames
<1> QED BY <1>5, <1>6

\* The records a change adds have its own id, and one that is removed is gone.
LEMMA ChangeOfIds ==
    ASSUME NEW q \in Forms, q.kind \in Changers, NEW c \in SUBSET Files!Record, Files!Changed(q, c) # Refused,
           store # "runtime", NEW e \in Files!Changed(q, c)
    PROVE  /\ (q.kind = "add" /\ e.id = q.id) \/ \E f \in c : e.id = f.id
           /\ q.kind = "remove" => e.id # q.id
<1>1. CASE q.kind = "add"
  BY <1>1 DEF Files!Changed, Files!Add
<1>2. CASE q.kind = "remove"
  BY <1>2 DEF Files!Changed, Files!Remove
<1>3. CASE q.kind = "test"
  BY <1>3 DEF Files!Changed, Files!Touch
<1>4. CASE q.kind = "set"
  <2>1. e \in {IF f.id = q.id THEN [f EXCEPT !.val = q.val] ELSE f : f \in c}
    BY <1>4 DEF Files!Changed, Files!Update
  <2>2. PICK f \in c : e = IF f.id = q.id THEN [f EXCEPT !.val = q.val] ELSE f
    BY <2>1
  <2>3. e.id = f.id
    BY <2>2 DEF Files!Record
  <2> QED BY <1>4, <2>3
<1> QED BY <1>1, <1>2, <1>3, <1>4 DEF Changers

\* Names stay apart when the one that is written is free.
LEMMA ChangeOfNames ==
    ASSUME NEW q \in Forms, q.kind \in {"add", "remove", "set"}, NEW c \in SUBSET Files!Record,
           Files!Changed(q, c) # Refused, store = "uploads",
           \A e, f \in c : e.val = f.val => e = f,
           q.kind # "remove" => \A e \in c : e.val = q.val => e.id = q.id
    PROVE  \A e, f \in Files!Changed(q, c) : e.val = f.val => e = f
<1>1. CASE q.kind = "remove"
  BY <1>1 DEF Files!Changed, Files!Remove
<1>2. CASE q.kind = "add"
  <2>1. \A e \in Files!Changed(q, c) : e \in c \/ e = [id |-> q.id, val |-> q.val]
    BY <1>2 DEF Files!Changed, Files!Add
  <2>2. \A e \in c : e.val = q.val => e = [id |-> q.id, val |-> q.val]
    BY <1>2 DEF Files!Record
  <2> QED BY <2>1, <2>2
<1>3. CASE q.kind = "set"
  <2>1. \A e \in Files!Changed(q, c) :
            \/ e \in c /\ e.id # q.id
            \/ e = [id |-> q.id, val |-> q.val]
    <3> SUFFICES ASSUME NEW e \in Files!Changed(q, c)
                 PROVE  (e \in c /\ e.id # q.id) \/ e = [id |-> q.id, val |-> q.val]
      OBVIOUS
    <3>1. e \in {IF f.id = q.id THEN [f EXCEPT !.val = q.val] ELSE f : f \in c}
      BY <1>3 DEF Files!Changed, Files!Update
    <3>2. PICK f \in c : e = IF f.id = q.id THEN [f EXCEPT !.val = q.val] ELSE f
      BY <3>1
    <3> QED BY <3>2 DEF Files!Record
  <2> QED BY <1>3, <2>1
<1> QED BY <1>1, <1>2, <1>3

LEMMA ReplaceLast ==
    ASSUME MarksAreNoRecords, Files!StoresConstants, Sound, RemovesKnown, Lasts, NEW r \in Reqs, Files!Replace(r)
    PROVE  Lasts'
<1>1. PICK q : /\ q \in Forms /\ Onward(r, q) /\ q.kind = req[r].kind /\ q.id = req[r].id
               /\ q.val = req[r].val
               /\ q.pc = (IF disk["tmp"] = Absent THEN "failed" ELSE Files!AfterChange(req[r]))
  BY ReplaceSound
<1>2. UNCHANGED <<store, pages, mixed, raced>> /\ req[r].pc = "replace" /\ req \in [Reqs -> Forms]
      /\ r \in Files!Changing /\ Files!Renames /\ req[r].kind \in Changers /\ disk \in [Files!Paths -> Contents]
  BY ReplaceSound DEF Files!Replace, Files!Rest, Sound, Sorts, Files!Changing
<1> SUFFICES ASSUME ~mixed PROVE Apart' /\ Paged' /\ TablesApart'
  BY <1>2 DEF Lasts
<1> DEFINE new == req[r].copy
<1>3. /\ Files!Changing = {r} /\ Files!Applied(req[r], expect) = new /\ expect \in SUBSET Files!Record
      /\ new \notin {Absent, Truncated, Garbled, Refused} /\ new = Files!Changed(req[r], expect)
  BY <1>2, OneApplies DEF Lasts
<1>4. disk["tmp"] = new
  BY <1>2 DEF Lasts, Apart, Temporary
<1>5. /\ disk' = Files!Moved("tmp", "main") /\ expect' = new
  BY <1>3, <1>4 DEF Files!Replace
<1>6. disk'["main"] = expect'
  BY <1>2, <1>4, <1>5 DEF Files!Moved, Files!Paths
<1>7. q.pc \in {"unlink", "ok"} /\ (q.pc = "unlink" => q.kind = "remove")
  BY <1>1, <1>3, <1>4 DEF Files!AfterChange
<1>8. req'[r] = q /\ \A s \in Reqs \ {r} : /\ req'[s].kind = req[s].kind /\ req'[s].pc = req[s].pc
                                            /\ req'[s].id = req[s].id /\ req'[s].val = req[s].val
  BY <1>1 DEF Onward, After
<1>9. Files!Changing' = {}
  BY <1>3, <1>7, <1>8 DEF Files!Changing
<1>10. Apart'
  BY <1>2, <1>3, <1>5, <1>6, <1>9 DEF Apart, OneChange, OwnCopy, Whole, Temporary, InPlace, Stays
<1>11. store \in {"published", "uploads"} /\ Files!HasPages /\ req[r] \in Forms
  BY <1>2 DEF Files!Renames, Files!HasPages
<1> HIDE DEF new
<1>12. Paged'
  <2>1. \A e \in new : (req[r].kind = "add" /\ e.id = r) \/ \E f \in expect : e.id = f.id
    BY <1>2, <1>3, <1>11, ChangeOfIds DEF Sound, Ways, WayOf
  <2>2. \A e \in new : e.id \in pages
    BY <1>2, <1>11, <2>1 DEF Lasts, Paged, Late
  <2>3. \A s \in Reqs : req'[s].kind = "add" /\ req'[s].pc \in Late => s \in pages
    BY <1>7, <1>8, <1>11 DEF Lasts, Paged, Late
  <2>4. ASSUME NEW s \in Reqs, req'[s].kind = "remove", req'[s].pc = "unlink", NEW e \in new
        PROVE  e.id # req'[s].id
    <3>1. CASE s = r
      BY <1>1, <1>2, <1>3, <1>8, <1>11, <2>4, <3>1, ChangeOfIds
    <3>2. CASE s # r
      <4>1. req[s].kind = "remove" /\ req[s].pc = "unlink" /\ req'[s].id = req[s].id
        BY <1>8, <2>4, <3>2
      <4>2. \A f \in expect : f.id # req[s].id
        BY <1>11, <4>1 DEF Lasts, Paged
      <4>3. req[s].id # r
        BY <1>2, <4>1 DEF RemovesKnown, Files!Known, Files!StoresConstants
      <4> QED BY <2>1, <4>1, <4>2, <4>3
    <3> QED BY <3>1, <3>2
  <2> QED BY <1>2, <1>5, <2>2, <2>3, <2>4 DEF Paged
<1>13. TablesApart'
  <2> SUFFICES ASSUME store = "uploads", ~raced PROVE TablesApart'
    BY <1>2 DEF TablesApart
  <2>1. req[r].kind \in {"add", "remove", "set"}
    BY <1>2 DEF Sound, Ways, WayOf, Changers
  <2>2. Files!Choosing' \subseteq Files!Choosing /\ \A s \in Files!Choosing' : s # r /\ req'[s].val = req[s].val /\ req'[s].id = req[s].id
    BY <1>2, <1>7, <1>8 DEF Files!Choosing
  <2>3. req[r].kind # "remove" => r \in Files!Choosing
    BY <1>2, <2>1 DEF Files!Choosing
  <2>4. /\ \A s, t \in Files!Choosing : s = t
        /\ \A s \in Files!Choosing : \A e \in expect : e.val = req[s].val => e.id = req[s].id
        /\ \A e, f \in expect : e.val = f.val => e = f
    BY DEF Lasts, TablesApart
  <2>5. \A e, f \in new : e.val = f.val => e = f
    BY <1>3, <1>11, <2>1, <2>3, <2>4, ChangeOfNames
  <2>6. CASE req[r].kind = "remove"
    <3>1. new \subseteq expect
      BY <1>3, <2>6 DEF Files!Changed, Files!Remove
    <3> QED BY <1>2, <1>5, <2>2, <3>1, QuietTables DEF Lasts
  <2>7. CASE req[r].kind # "remove"
    <3>1. Files!Choosing' = {}
      BY <2>2, <2>3, <2>4, <2>7
    <3> QED BY <1>5, <2>5, <3>1 DEF TablesApart
  <2> QED BY <2>6, <2>7
<1> QED BY <1>10, <1>12, <1>13

LEMMA EraseLast ==
    ASSUME Files!StoresConstants, Sound, Lasts, NEW r \in Reqs, Files!UnlinkNotebook(r)
    PROVE  Lasts'
<1>1. PICK q : Onward(r, q) /\ q.pc = "ok" /\ q.kind = "erase"
  BY EraseSound
<1>2. store = "knowledge" /\ store' = store /\ disk' = [disk EXCEPT !["main"] = Absent] /\ expect' = Absent
      /\ mixed' = (mixed \/ Files!Changing # {}) /\ disk \in [Files!Paths -> Contents]
  BY EraseSound DEF Files!UnlinkNotebook, Files!Rest, Sound, Sorts
<1> SUFFICES ASSUME ~mixed, Files!Changing = {} PROVE Apart' /\ Paged' /\ TablesApart'
  BY <1>2 DEF Lasts
<1>3. Files!Changing' = {}
  BY <1>1 DEF Onward, After, Files!Changing
<1>4. Apart'
  BY <1>2, <1>3 DEF Apart, OneChange, OwnCopy, Whole, Temporary, InPlace, Stays, Files!Paths
<1> QED BY <1>2, <1>4 DEF Paged, TablesApart, Files!HasPages

LEMMA CrashLast ==
    ASSUME MarksAreNoRecords, Files!StoresConstants, Sound, Lasts, Files!Crash
    PROVE  Lasts'
<1>1. /\ Files!Changing' = {}
      /\ \A r \in Reqs : /\ req'[r].kind = req[r].kind /\ req'[r].id = req[r].id
                         /\ (req'[r].pc = req[r].pc \/ req'[r].pc = "lost")
                         /\ req'[r].pc \notin Files!Running
  BY CrashSound
<1>2. UNCHANGED <<store, disk, pages, expect, raced>> /\ mixed' = (mixed \/ (~Files!HasPages /\ disk["main"] \in Files!Unreadable))
  BY DEF Files!Crash
<1> SUFFICES ASSUME ~mixed, Files!HasPages \/ disk["main"] \notin Files!Unreadable PROVE Apart' /\ Paged' /\ TablesApart'
  BY <1>2 DEF Lasts
<1>3. disk["main"] = expect
  <2>1. CASE Files!Renames \/ Files!Changing = {}
    BY <2>1 DEF Lasts, Apart, Whole
  <2>2. CASE ~Files!Renames /\ Files!Changing # {}
    <3>1. disk["main"] \notin Files!Unreadable
      BY <2>2 DEF Files!Renames, Files!HasPages
    <3>2. PICK r \in Files!Changing : TRUE
      BY <2>2
    <3>3. req[r].pc \in {"open", "write"}
      BY <2>2, <3>2 DEF Files!Changing, Sound, Ways, WayOf
    <3> QED BY <2>2, <3>1, <3>3 DEF Lasts, Apart, InPlace, Files!Unreadable
  <2> QED BY <2>1, <2>2
<1>4. Apart'
  BY <1>1, <1>2, <1>3 DEF Lasts, Apart, OneChange, OwnCopy, Whole, Temporary, InPlace, Stays
<1>5. Paged'
  <2>1. \A r \in Reqs : req'[r].pc \notin Late /\ req'[r].pc # "unlink"
    BY <1>1 DEF Late, Files!Running
  <2> QED BY <1>2, <2>1 DEF Lasts, Paged, Files!HasPages
<1>6. TablesApart'
  <2>1. Files!Choosing' = {}
    BY <1>1 DEF Files!Choosing, Files!Running
  <2> QED BY <1>2, <2>1, QuietTables DEF Lasts
<1> QED BY <1>4, <1>5, <1>6

LEMMA InitSound ==
    ASSUME Files!StoresConstants, Files!Init
    PROVE  Sound /\ (MarksAreNoRecords => Lasts)
<1>1. req = [r \in Reqs |-> Files!Idle] /\ Files!Idle \in Forms
  BY DEF Files!Init, Files!Idle, Files!Request, Forms, Files!Kinds, Files!Values
<1>2. /\ \A r \in Reqs : req[r] = Files!Idle
      /\ Files!Idle.pc = "idle" /\ Files!Idle.kind = "view" /\ Files!Idle.fd = "closed"
  BY <1>1 DEF Files!Idle, Files!Request
<1>3. Files!Active = {} /\ Files!Changing = {} /\ Files!Choosing = {}
  BY <1>2 DEF Files!Active, Files!Changing, Files!Choosing, Files!Running
<1>4. PICK v \in Files!Namings : v = CHOOSE w \in Files!Namings : TRUE
  BY DEF Files!StoresConstants
<1>5. /\ Files!Seeded \in SUBSET Files!Record
      /\ \A e \in Files!Seeded : e.id \in Seeds
      /\ store = "uploads" => \A e, f \in Files!Seeded : e.val = f.val => e = f
  <2>1. Files!Seeded = {[id |-> s, val |-> IF store \in {"published", "knowledge"} THEN None ELSE v[s]] : s \in Seeds}
    BY <1>4 DEF Files!Seeded
  <2>2. v \in [Seeds -> Files!TableNames] /\ \A s, t \in Seeds : v[s] = v[t] => s = t
    BY DEF Files!Namings
  <2>3. \A s \in Seeds : s \in Files!Ids /\ v[s] \in Files!Values /\ None \in Files!Values
    BY <2>2 DEF Files!Ids, Files!Values
  <2> QED BY <2>1, <2>2, <2>3 DEF Files!Record
<1>6. /\ disk["main"] = Files!Seeded /\ expect = Files!Seeded
      /\ disk \in [Files!Paths -> Contents] /\ pages \subseteq Files!Ids
  BY <1>5 DEF Files!Init, Files!Paths, Contents, Files!Ids
<1>7. Sorts
  <2>1. crashes \in 0 .. MaxCrashes
    BY DEF Files!Init, Files!StoresConstants
  <2>2. req \in [Reqs -> Forms]
    BY <1>1
  <2> QED BY <1>5, <1>6, <2>1, <2>2 DEF Sorts, Files!Init
<1>8. Ways /\ OneUpload
  BY <1>2, <1>3 DEF Ways, WayOf, OneUpload
<1>9. ASSUME MarksAreNoRecords PROVE Lasts
  <2>1. Apart
    BY <1>3, <1>5, <1>6, <1>9 DEF Apart, OneChange, OwnCopy, Whole, Temporary, InPlace, Stays, MarksAreNoRecords
  <2>2. Paged
    BY <1>2, <1>5, <1>6 DEF Paged, Files!Init, Late
  <2>3. TablesApart
    BY <1>3, <1>5, <1>6 DEF TablesApart
  <2> QED BY <2>1, <2>2, <2>3 DEF Lasts
<1> QED BY <1>7, <1>8, <1>9 DEF Sound

LEMMA SoundInductive == Files!StoresConstants /\ Sound /\ [Files!Next]_Files!vars => Sound'
<1> SUFFICES ASSUME Files!StoresConstants, Sound, [Files!Next]_Files!vars PROVE Sound'
  OBVIOUS
<1>1. ASSUME NEW r \in Reqs, Files!Proceeds(r) PROVE Sound'
  BY <1>1, ChooseSound, WritePageSound, IdlesSound, TakeCopySound, OpenSound, WriteSound, ReplaceSound,
     UnlinkSound, EraseSound, FindSound DEF Files!Proceeds, Idles
<1>2. CASE UNCHANGED Files!vars
  BY <1>2 DEF Files!vars, Sound, Sorts, Ways, WayOf, Files!HasPages, Files!Renames, OneUpload, Files!Active
<1> QED BY <1>1, <1>2, ArrivesSound, CrashSound DEF Files!Next

LEMMA LastsInductive ==
    MarksAreNoRecords /\ Files!StoresConstants /\ Sound /\ RemovesKnown /\ Lasts /\ [Files!Next]_Files!vars => Lasts'
<1> SUFFICES ASSUME MarksAreNoRecords, Files!StoresConstants, Sound, RemovesKnown, Lasts, [Files!Next]_Files!vars PROVE Lasts'
  OBVIOUS
<1>1. ASSUME NEW r \in Reqs, Files!Proceeds(r) PROVE Lasts'
  BY <1>1, ChooseLast, WritePageLast, IdlesLast, TakeCopyLast, OpenLast, WriteLast, ReplaceLast,
     UnlinkLast, EraseLast, FindLast DEF Files!Proceeds, Idles
<1>2. CASE UNCHANGED Files!vars
  <2>1. Files!Choosing' = Files!Choosing /\ Files!Changing' = Files!Changing /\ Files!HasPages' = Files!HasPages /\ Files!Renames' = Files!Renames
    BY <1>2 DEF Files!vars, Files!Choosing, Files!Changing, Files!HasPages, Files!Renames
  <2>2. OwnCopy => OwnCopy'
    BY <1>2, <2>1 DEF Files!vars, OwnCopy, Files!Changed
  <2> QED BY <1>2, <2>1, <2>2
          DEF Files!vars, Lasts, Apart, OneChange, Whole, Temporary, InPlace, Stays, Paged, TablesApart
<1> QED BY <1>1, <1>2, ArrivesLast, CrashLast DEF Files!Next

LEMMA SoundIsTyped == Sound => Files!TypeOK
BY DEF Sound, Sorts, Contents, Forms, Files!TypeOK

\* What is settled is what was applied, or is about to be.
LEMMA SettledIs ==
    ASSUME MarksAreNoRecords, Files!StoresConstants, Sound, Apart
    PROVE  \/ Files!Settled = expect /\ disk["main"] = expect /\ disk["main"] \notin Files!Unreadable
           \/ \E r \in Files!Changing : /\ ~Files!Renames /\ disk["main"] \in Files!Unreadable
                                        /\ Files!Settled = Files!Applied(req[r], expect)
<1>1. CASE Files!Changing = {} \/ Files!Renames
  BY <1>1, MainIsWhole DEF Files!Settled
<1>2. CASE Files!Changing # {} /\ ~Files!Renames
  <2>1. PICK r \in Files!Changing : TRUE
    BY <1>2
  <2>2. req[r].pc \in {"open", "write"}
    BY <1>2, <2>1 DEF Files!Changing, Sound, Ways, WayOf
  <2>3. CASE req[r].pc = "open"
    <3>1. disk["main"] = expect
      BY <1>2, <2>1, <2>3 DEF Apart, InPlace
    <3>2. expect \notin Files!Unreadable
      BY DEF Sound, Sorts, Files!Unreadable, MarksAreNoRecords, Files!StoresConstants
    <3> QED BY <3>1, <3>2 DEF Files!Settled
  <2>4. CASE req[r].pc = "write"
    <3>1. disk["main"] \in Files!Unreadable
      BY <1>2, <2>1, <2>4 DEF Apart, InPlace, Files!Unreadable
    <3>2. UNION {req[s].copy : s \in Files!Changing} = req[r].copy
      BY <2>1, OneApplies
    <3> QED BY <1>2, <2>1, <3>1, <3>2, OneApplies DEF Files!Settled
  <2> QED BY <2>2, <2>3, <2>4
<1> QED BY <1>1, <1>2

LEMMA LastsImplies ==
    ASSUME MarksAreNoRecords, Files!StoresConstants, Sound, Lasts
    PROVE  Files!HoldsWhatWasApplied /\ Files!RecordsHaveTheirFile /\ Files!TableNamesDistinct
<1> SUFFICES ASSUME ~mixed, Apart, Paged, TablesApart
             PROVE  Files!HoldsWhatWasApplied /\ Files!RecordsHaveTheirFile /\ Files!TableNamesDistinct
  BY DEF Lasts, Files!HoldsWhatWasApplied, Files!RecordsHaveTheirFile, Files!TableNamesDistinct
<1>1. Files!HoldsWhatWasApplied
  BY SettledIs DEF Files!HoldsWhatWasApplied
<1>2. Files!HasPages => Files!Settled = expect
  BY SettledIs DEF Files!HasPages, Files!Renames
<1>3. Files!RecordsHaveTheirFile
  BY <1>2 DEF Files!RecordsHaveTheirFile, Paged
<1>4. Files!TableNamesDistinct
  BY <1>2 DEF Files!TableNamesDistinct, TablesApart, Files!HasPages
<1> QED BY <1>1, <1>3, <1>4

---------------------------------------------------------------------------
\* A behaviour of the parts is one of Stores: of what the other parts do
\* it shows nothing.
LEMMA FilesBehaves == Spec => Files!Spec
<1>1. Init => Files!Init
  BY DEF Init
<1>2. [Next]_partsVars => [Files!Next]_(Files!vars)
  <2>1. FilesStep => Files!Next
    BY DEF FilesStep
  <2>2. TabsStep \/ SavedStep \/ TalkStep \/ BoundStep \/ SownStep
        \/ DrawnStep \/ FoundStep \/ ChosenStep
        \/ ListedStep \/ SignedStep \/ UNCHANGED partsVars => UNCHANGED Files!vars
    BY DEF TabsStep, SavedStep, TalkStep, BoundStep,
           SownStep, DrawnStep, FoundStep, ChosenStep,
           ListedStep, SignedStep, partsVars, filesVars, Files!vars
  <2> QED BY <2>1, <2>2 DEF Next
<1> QED BY <1>1, <1>2, PTL DEF Spec, Files!Spec

LEMMA FilesHolds == Spec => []FilesInv
<1>1. Files!StoresConstants
  BY PartsAssumption
<1>2. Files!Init => FilesInv
  BY <1>1, FilesInitEstablishes
<1>3. FilesInv /\ [Files!Next]_(Files!vars) => FilesInv'
  BY <1>1, FilesInductive
<1> QED BY <1>2, <1>3, FilesBehaves, PTL DEF Files!Spec

\* Once a revocation has been answered, view_published serves the page to no
\* reader that asks later, whatever other requests and crashes make of the
\* manifest: the last step of the revocation takes the file away, and no later
\* request writes a page under an id that was used before.
THEOREM StoresUnpublishIsFinal == Spec => []UnpublishIsFinal
<1>1. FilesInv => UnpublishIsFinal
  BY DEF FilesInv, UnpublishIsFinal
<1> QED BY <1>1, FilesHolds, PTL

LEMMA FilesSound == Spec => [](Files!StoresConstants /\ Sound)
<1>1. Files!StoresConstants
  BY PartsAssumption
<1>2. Files!Init => Sound
  BY <1>1, InitSound
<1>3. Sound /\ [Files!Next]_(Files!vars) => Sound'
  BY <1>1, SoundInductive
<1> QED BY <1>1, <1>2, <1>3, FilesBehaves, PTL DEF Files!Spec

LEMMA FilesLast == MarksAreNoRecords => (Spec => []Lasts)
<1> SUFFICES ASSUME MarksAreNoRecords PROVE Spec => []Lasts
  OBVIOUS
<1>1. Files!StoresConstants
  BY PartsAssumption
<1>2. Files!Init => Lasts
  BY <1>1, InitSound
<1>3. Sound /\ FilesInv /\ Lasts /\ [Files!Next]_(Files!vars) => Lasts'
  BY <1>1, LastsInductive DEF FilesInv
<1> QED BY <1>2, <1>3, FilesSound, FilesHolds, FilesBehaves, PTL DEF Files!Spec

\* The stores hold what their changes made of them, in the order they took
\* effect: a change that is answered is there entirely, one that a crash cuts
\* off entirely or not at all, as long as no two changes overlap and no crash
\* comes between the opening and the writing of a file written in place.
THEOREM StoresHoldsWhatWasApplied == MarksAreNoRecords => (Spec => []HoldsWhatWasApplied)
<1> SUFFICES ASSUME MarksAreNoRecords PROVE Spec => []HoldsWhatWasApplied
  OBVIOUS
<1>1. Files!StoresConstants /\ Sound /\ Lasts => HoldsWhatWasApplied
  BY LastsImplies DEF HoldsWhatWasApplied
<1> QED BY <1>1, FilesSound, FilesLast, PTL

\* What publish_store.py and uploads/store.py list can be read: its page or
\* data file is there, however uploads break off and the server restarts.
THEOREM StoresRecordsHaveTheirFile == MarksAreNoRecords => (Spec => []RecordsHaveTheirFile)
<1> SUFFICES ASSUME MarksAreNoRecords PROVE Spec => []RecordsHaveTheirFile
  OBVIOUS
<1>1. Files!StoresConstants /\ Sound /\ Lasts => RecordsHaveTheirFile
  BY LastsImplies DEF RecordsHaveTheirFile
<1> QED BY <1>1, FilesSound, FilesLast, PTL

\* The name that _unique_table_name found is still free when add or rename
\* writes the manifest, as long as no rename chooses beside another request.
THEOREM StoresTableNamesDistinct == MarksAreNoRecords => (Spec => []TableNamesDistinct)
<1> SUFFICES ASSUME MarksAreNoRecords PROVE Spec => []TableNamesDistinct
  OBVIOUS
<1>1. Files!StoresConstants /\ Sound /\ Lasts => TableNamesDistinct
  BY LastsImplies DEF TableNamesDistinct
<1> QED BY <1>1, FilesSound, FilesLast, PTL

=============================================================================
