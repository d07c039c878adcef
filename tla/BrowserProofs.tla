---------------------------- MODULE BrowserProofs ----------------------------
(***************************************************************************)
(* What the browser keeps apart, for any connections, questions, notebooks *)
(* and requests: the connection in use, the conversations, the knowledge   *)
(* notebooks and the tables that go with a question.                       *)
(***************************************************************************)
EXTENDS Parts, FiniteSetTheorems, SequenceTheorems, TLAPS

---------------------------------------------------------------------------
(* The connection in use.                                                  *)

SavedSlot == 1 .. Calls

SavedTyped ==
    /\ calls = [i \in SavedSlot |-> calls[i]]
    /\ \A i \in SavedSlot : calls[i].id \in Connections \cup {Nil}
    /\ saved = [c \in Connections |-> saved[c]]
    /\ view.id \in Connections \cup {Nil}
    /\ drifted \in BOOLEAN

\* The requests under way that change what the connection c is, or whether it
\* is the one in use.
ChangersOf(c) == {i \in Saved!InUse : calls[i].id = c /\ calls[i].kind \in Saved!Changers}

\* There is one at most, as long as nothing has crossed.
OneChanger == \A c \in Connections \ unsure : \A i, j \in ChangersOf(c) : i = j

\* What the answer on its way says is what is saved: nothing else has changed it.
AnswersAreTrue ==
    \A c \in Connections \ unsure : \A i \in ChangersOf(c) :
        calls[i].pc = "ok" /\ calls[i].kind # "delete" => saved[c] = calls[i].body

\* A connection that is being created is not the one in use yet.
NewIsNotCurrent ==
    \A c \in Connections \ unsure : \A i \in ChangersOf(c) : calls[i].kind = "create" => c # current

\* What runs is what is saved, up to an update or a deletion that is done but
\* not yet answered.
UpToDate ==
    /\ current \in Connections \cup {Nil}
    /\ current # Nil /\ ~drifted /\ current \notin unsure =>
          \/ conn = saved[current]
          \/ \E i \in ChangersOf(current) : calls[i].kind \in {"update", "delete"} /\ calls[i].pc = "ok"

SavedInv == SavedTyped /\ OneChanger /\ AnswersAreTrue /\ NewIsNotCurrent /\ UpToDate

LEMMA SavedInitEstablishes == Saved!ConnectionsConstants /\ Saved!Init => SavedInv
<1> SUFFICES ASSUME Saved!ConnectionsConstants, Saved!Init PROVE SavedInv
  OBVIOUS
<1>1. Saved!InUse = {}
  BY DEF Saved!Init, Saved!InUse, Saved!Free
<1>2. SavedTyped
  BY DEF Saved!Init, SavedTyped, SavedSlot, Saved!Free, Saved!List
<1> QED BY <1>1, <1>2 DEF Saved!Init, SavedInv, OneChanger, AnswersAreTrue, NewIsNotCurrent, UpToDate, ChangersOf

\* Nothing about a request or about what is saved changes.
LEMMA DialogKeeps ==
    ASSUME SavedInv, UNCHANGED <<saved, current, conn, calls, drifted, unsure>>,
           view'.id \in Connections \cup {Nil}
    PROVE  SavedInv'
BY DEF SavedInv, SavedTyped, OneChanger, AnswersAreTrue, NewIsNotCurrent, UpToDate, ChangersOf, Saved!InUse, SavedSlot

LEMMA CallKeeps ==
    ASSUME Saved!ConnectionsConstants, SavedInv, NEW kind, NEW c \in Connections \cup {Nil}, NEW body,
           Saved!Call(kind, c, body), kind = "create" => c = Nil
    PROVE  SavedInv'
<1> DEFINE new == [kind |-> kind, id |-> c, body |-> body, pc |-> "sent"]
<1>1. PICK n \in SavedSlot : n \notin Saved!InUse /\ calls' = [calls EXCEPT ![n] = new]
  <2>1. \E i \in 1 .. Calls : i \notin Saved!InUse
    BY DEF Saved!Call, Saved!InUse
  <2> QED BY <2>1 DEF Saved!Call, SavedSlot
<1>2. calls'[n] = new /\ \A i \in SavedSlot \ {n} : calls'[i] = calls[i]
  BY <1>1 DEF SavedInv, SavedTyped
<1>3. Saved!InUse' = Saved!InUse \cup {n}
  BY <1>1, <1>2 DEF Saved!InUse, SavedSlot
<1>4. SavedTyped'
  <2>1. calls' = [i \in SavedSlot |-> calls'[i]]
    BY <1>1 DEF SavedInv, SavedTyped
  <2>2. \A i \in SavedSlot : calls'[i].id \in Connections \cup {Nil}
    BY <1>2 DEF SavedInv, SavedTyped
  <2> QED BY <2>1, <2>2 DEF SavedInv, SavedTyped, Saved!Call, Saved!Store, Saved!Dialog
<1>5. UNCHANGED <<saved, current, conn, drifted>> /\ unsure \subseteq unsure'
  BY DEF Saved!Call, Saved!Store
<1>6. \A d : \A i \in ChangersOf(d)' : i \in ChangersOf(d) \/ (i = n /\ d = c /\ kind \in Saved!Changers)
  BY <1>1, <1>2, <1>3 DEF ChangersOf, Saved!InUse, SavedSlot
<1>7. \A d : \A i \in ChangersOf(d) : i \in ChangersOf(d)' /\ calls'[i] = calls[i] /\ i # n
  BY <1>1, <1>2, <1>3 DEF ChangersOf, Saved!InUse, SavedSlot
<1>8. c \in Connections \ unsure' /\ kind \in Saved!Changers => ChangersOf(c) = {}
  BY DEF Saved!Call, Saved!About, ChangersOf, Saved!ConnectionsConstants
<1>9. OneChanger'
  BY <1>5, <1>6, <1>8 DEF SavedInv, OneChanger
<1>10. AnswersAreTrue'
  BY <1>2, <1>5, <1>6, <1>7 DEF SavedInv, AnswersAreTrue
<1>11. NewIsNotCurrent'
  BY <1>2, <1>5, <1>6, <1>7 DEF SavedInv, NewIsNotCurrent, Saved!ConnectionsConstants
<1>12. UpToDate'
  BY <1>5, <1>7 DEF SavedInv, UpToDate
<1> QED BY <1>4, <1>9, <1>10, <1>11, <1>12 DEF SavedInv

\* A request is answered, and what it asked for is done.
LEMMA SavedServeKeeps ==
    ASSUME Saved!ConnectionsConstants, SavedInv, NEW i \in SavedSlot, Saved!Serve(i) PROVE SavedInv'
<1> DEFINE q == calls[i]
<1>1. q.pc = "sent" /\ i \in Saved!InUse
  BY DEF Saved!Serve, Saved!InUse, SavedSlot
<1>2. UNCHANGED <<current, conn, drifted, view, unsure>>
  BY DEF Saved!Serve, Saved!Dialog
<1>3. PICK a : calls' = [calls EXCEPT ![i] = a] /\ a.kind = q.kind /\ a.pc \in {"ok", "error"}
               /\ a.id \in Connections \cup {Nil}
               /\ \/ /\ q.kind = "create" /\ a.id \in Connections /\ a.id # current
                     /\ \A j \in Saved!InUse : calls[j].id # a.id
                     /\ saved' = [saved EXCEPT ![a.id] = a.body]
                  \/ /\ a.id = q.id /\ q.kind \in {"update", "delete"} /\ a.pc = "ok" /\ a.id \in Connections
                     /\ saved' = [saved EXCEPT ![a.id] = IF q.kind = "update" THEN a.body ELSE Nil]
                  \/ /\ a.id = q.id /\ saved' = saved /\ q.kind # "create"
                     /\ a.pc = "ok" => q.kind \in {"use", "pick", "edit"} /\ a.body = saved[a.id]
  <2> DEFINE Answer(pc, c, body) == [kind |-> q.kind, id |-> c, body |-> body, pc |-> pc]
  <2>0. \A pc, c, body : /\ Answer(pc, c, body).kind = q.kind /\ Answer(pc, c, body).id = c
                         /\ Answer(pc, c, body).body = body /\ Answer(pc, c, body).pc = pc
    OBVIOUS
  <2>a. \A pc, c, body : Saved!Reply(i, pc, c, body) <=> calls' = [calls EXCEPT ![i] = Answer(pc, c, body)]
    BY DEF Saved!Reply, SavedInv, SavedTyped
  <2>i. q.id \in Connections \cup {Nil}
    BY DEF SavedInv, SavedTyped
  <2> HIDE DEF Answer
  <2>1. CASE q.kind = "create"
    <3>1. PICK c \in Connections \ Saved!Stored :
              /\ \A j \in Saved!InUse : calls[j].id # c
              /\ c # current /\ saved' = [saved EXCEPT ![c] = q.body] /\ Saved!Reply(i, "ok", c, q.body)
      <4>1. Saved!NewIds # {} => Saved!NewId \in Saved!NewIds
        BY DEF Saved!NewId
      <4>2. Saved!NewId \in Saved!NewIds /\ saved' = [saved EXCEPT ![Saved!NewId] = q.body]
            /\ Saved!Reply(i, "ok", Saved!NewId, q.body)
        BY <2>1, <4>1 DEF Saved!Serve
      <4> QED BY <4>2 DEF Saved!NewIds
    <3>2. PICK a : a = Answer("ok", c, q.body)
      OBVIOUS
    <3>3. calls' = [calls EXCEPT ![i] = a] /\ a.kind = q.kind /\ a.id = c /\ a.body = q.body /\ a.pc = "ok"
      BY <2>0, <2>a, <3>1, <3>2
    <3> QED BY <2>1, <3>1, <3>3
  <2>2. CASE q.kind \in {"update", "delete"}
    <3>1. CASE q.id \in Saved!Stored
      <4>1. /\ saved' = [saved EXCEPT ![q.id] = IF q.kind = "update" THEN q.body ELSE Nil]
            /\ Saved!Reply(i, "ok", q.id, q.body) /\ q.id \in Connections
        BY <2>2, <3>1 DEF Saved!Serve, Saved!Stored
      <4>2. PICK a : a = Answer("ok", q.id, q.body)
        OBVIOUS
      <4>3. calls' = [calls EXCEPT ![i] = a] /\ a.kind = q.kind /\ a.id = q.id /\ a.body = q.body /\ a.pc = "ok"
        BY <2>0, <2>a, <4>1, <4>2
      <4>4. saved' = [saved EXCEPT ![a.id] = IF q.kind = "update" THEN a.body ELSE Nil]
        BY <4>1, <4>3
      <4> QED BY <2>2, <4>1, <4>3, <4>4
    <3>2. CASE q.id \notin Saved!Stored
      <4>1. saved' = saved /\ Saved!Reply(i, "error", q.id, Nil)
        BY <2>2, <3>2 DEF Saved!Serve
      <4> QED BY <2>0, <2>a, <2>i, <2>2, <4>1
    <3> QED BY <3>1, <3>2
  <2>3. CASE q.kind \in {"use", "pick", "edit"}
    <3>1. saved' = saved /\ (Saved!Reply(i, "ok", q.id, saved[q.id]) \/ Saved!Reply(i, "error", q.id, Nil))
      BY <2>3 DEF Saved!Serve
    <3> QED BY <2>0, <2>a, <2>i, <2>3, <3>1
  <2> QED BY <2>1, <2>2, <2>3 DEF Saved!Serve
<1>4. calls'[i] = a /\ \A j \in SavedSlot \ {i} : calls'[j] = calls[j]
  BY <1>3 DEF SavedInv, SavedTyped
<1>5. Saved!InUse' = Saved!InUse
  BY <1>1, <1>3, <1>4 DEF Saved!InUse, SavedSlot
<1>6. \A c \in Connections : saved'[c] = saved[c] \/ c = a.id
  BY <1>3 DEF SavedInv, SavedTyped
<1>7. SavedTyped'
  <2>1. calls' = [j \in SavedSlot |-> calls'[j]]
    BY <1>3 DEF SavedInv, SavedTyped
  <2>2. \A j \in SavedSlot : calls'[j].id \in Connections \cup {Nil}
    BY <1>3, <1>4 DEF SavedInv, SavedTyped
  <2>3. saved' = [c \in Connections |-> saved'[c]]
    BY <1>3 DEF SavedInv, SavedTyped
  <2> QED BY <1>2, <2>1, <2>2, <2>3 DEF SavedInv, SavedTyped
<1>8. \A c : \A j \in ChangersOf(c)' : j \in ChangersOf(c) \/ (j = i /\ c = a.id /\ q.kind = "create")
  BY <1>1, <1>3, <1>4, <1>5 DEF ChangersOf, Saved!InUse, SavedSlot
<1>9. q.kind = "create" => ChangersOf(a.id) = {}
  BY <1>3 DEF ChangersOf
<1>10. OneChanger'
  BY <1>2, <1>8, <1>9 DEF SavedInv, OneChanger
<1>11. q.kind \in Saved!Changers /\ a.id \in Connections => i \in ChangersOf(a.id)'
  BY <1>1, <1>3, <1>4, <1>5 DEF ChangersOf
<1>12. AnswersAreTrue'
  <2> SUFFICES ASSUME NEW c \in Connections \ unsure', NEW j \in ChangersOf(c)',
                      calls'[j].pc = "ok", calls'[j].kind # "delete"
               PROVE  saved'[c] = calls'[j].body
    BY DEF AnswersAreTrue
  <2>1. CASE j = i
    BY <1>1, <1>3, <1>4, <1>6, <2>1 DEF ChangersOf, SavedInv, SavedTyped
  <2>2. CASE j # i
    <3>1. j \in ChangersOf(c) /\ calls'[j] = calls[j]
      BY <1>4, <1>8, <2>2 DEF ChangersOf, Saved!InUse, SavedSlot
    <3>2. saved'[c] = saved[c]
      BY <1>2, <1>3, <1>6, <1>8, <1>10, <1>11, <2>2 DEF OneChanger, Saved!Changers
    <3> QED BY <1>2, <3>1, <3>2 DEF SavedInv, AnswersAreTrue
  <2> QED BY <2>1, <2>2
<1>13. NewIsNotCurrent'
  <2> SUFFICES ASSUME NEW c \in Connections \ unsure', NEW j \in ChangersOf(c)', calls'[j].kind = "create"
               PROVE  c # current'
    BY DEF NewIsNotCurrent
  <2>1. CASE j = i
    BY <1>2, <1>3, <1>4, <2>1 DEF ChangersOf
  <2>2. CASE j # i
    BY <1>2, <1>4, <1>8, <2>2 DEF ChangersOf, Saved!InUse, SavedSlot, SavedInv, NewIsNotCurrent
  <2> QED BY <2>1, <2>2
<1>14. UpToDate'
  <2> SUFFICES ASSUME current' # Nil, ~drifted', current' \notin unsure'
               PROVE  \/ conn' = saved'[current']
                      \/ \E j \in ChangersOf(current)' : calls'[j].kind \in {"update", "delete"} /\ calls'[j].pc = "ok"
    BY <1>2 DEF SavedInv, UpToDate
  <2>1. current \in Connections
    BY <1>2 DEF SavedInv, UpToDate
  <2>2. CASE q.kind \in {"update", "delete"} /\ a.pc = "ok" /\ a.id = current
    <3>1. i \in ChangersOf(current)'
      BY <1>2, <1>11, <2>1, <2>2 DEF Saved!Changers, ChangersOf
    <3> QED BY <1>2, <1>3, <1>4, <2>2, <3>1
  <2>3. CASE ~(q.kind \in {"update", "delete"} /\ a.pc = "ok" /\ a.id = current)
    <3>1. saved'[current] = saved[current]
      BY <1>3, <1>6, <2>1, <2>3
    <3>2. ASSUME NEW j \in ChangersOf(current), calls[j].pc = "ok"
          PROVE  j \in ChangersOf(current)' /\ calls'[j] = calls[j]
      BY <1>1, <1>2, <1>4, <1>5, <3>2 DEF ChangersOf, Saved!InUse, SavedSlot
    <3> QED BY <1>2, <3>1, <3>2 DEF SavedInv, UpToDate
  <2> QED BY <2>2, <2>3
<1> QED BY <1>7, <1>10, <1>12, <1>13, <1>14 DEF SavedInv

\* The slot of a request that is over.
LEMMA Freeing ==
    ASSUME SavedInv, NEW i \in Saved!InUse, calls' = [calls EXCEPT ![i] = Saved!Free], saved' = saved,
           unsure \subseteq unsure', drifted' \in BOOLEAN, view'.id \in Connections \cup {Nil}
    PROVE  /\ SavedTyped' /\ OneChanger' /\ AnswersAreTrue'
           /\ \A c : ChangersOf(c)' = ChangersOf(c) \ {i}
           /\ \A j \in SavedSlot \ {i} : calls'[j] = calls[j]
<1>1. i \in SavedSlot /\ calls'[i] = Saved!Free /\ \A j \in SavedSlot \ {i} : calls'[j] = calls[j]
  BY DEF SavedInv, SavedTyped, Saved!InUse, SavedSlot
<1>2. Saved!InUse' = Saved!InUse \ {i}
  BY <1>1 DEF Saved!InUse, SavedSlot, Saved!Free
<1>3. \A c : ChangersOf(c)' = ChangersOf(c) \ {i}
  BY <1>1, <1>2 DEF ChangersOf, Saved!InUse, SavedSlot
<1>4. SavedTyped'
  <2>1. calls' = [j \in SavedSlot |-> calls'[j]]
    BY DEF SavedInv, SavedTyped
  <2>2. \A j \in SavedSlot : calls'[j].id \in Connections \cup {Nil}
    BY <1>1 DEF SavedInv, SavedTyped, Saved!Free
  <2> QED BY <2>1, <2>2 DEF SavedInv, SavedTyped
<1>5. \A c : \A j \in ChangersOf(c)' : j \in SavedSlot \ {i}
  BY <1>3 DEF ChangersOf, Saved!InUse, SavedSlot
<1>6. OneChanger' /\ AnswersAreTrue'
  BY <1>1, <1>3, <1>5 DEF SavedInv, OneChanger, AnswersAreTrue
<1> QED BY <1>1, <1>3, <1>4, <1>6

LEMMA SavedSucceedKeeps ==
    ASSUME Saved!ConnectionsConstants, SavedInv, NEW i \in SavedSlot, Saved!Succeed(i) PROVE SavedInv'
<1> DEFINE q == calls[i]
<1>1. /\ i \in Saved!InUse /\ q.pc = "ok" /\ calls' = [calls EXCEPT ![i] = Saved!Free]
      /\ saved' = saved /\ unsure' = unsure
  BY DEF Saved!Succeed, Saved!InUse, SavedSlot
<1>2. q.id \in Connections \cup {Nil}
  BY DEF SavedInv, SavedTyped
<1>3. drifted' \in BOOLEAN /\ view'.id \in Connections \cup {Nil}
  <2>1. CASE Saved!Created(q)
    BY <2>1 DEF Saved!Created, Saved!List
  <2>2. CASE Saved!Updated(q)
    BY <2>2 DEF Saved!Updated, Saved!List, SavedInv, SavedTyped
  <2>3. CASE Saved!Loaded(q)
    <3>1. drifted' = FALSE /\ (view' = Saved!List \/ view' = view)
      BY <2>3 DEF Saved!Loaded
    <3>2. Saved!List.id = Nil /\ view.id \in Connections \cup {Nil}
      BY DEF Saved!List, SavedInv, SavedTyped
    <3>3. view'.id \in Connections \cup {Nil}
      BY <3>1, <3>2
    <3> QED BY <3>1, <3>3
  <2>4. CASE Saved!Edited(q)
    BY <1>2, <2>4 DEF Saved!Edited, Saved!Form, SavedInv, SavedTyped
  <2>5. CASE Saved!Deleted(q)
    BY <2>5 DEF Saved!Deleted, Saved!Dialog, SavedInv, SavedTyped
  <2> QED BY <2>1, <2>2, <2>3, <2>4, <2>5 DEF Saved!Succeed
<1>4. /\ SavedTyped' /\ OneChanger' /\ AnswersAreTrue'
      /\ \A c : ChangersOf(c)' = ChangersOf(c) \ {i}
      /\ \A j \in SavedSlot \ {i} : calls'[j] = calls[j]
  BY <1>1, <1>3, Freeing
<1>5. \/ current' = current /\ conn' = conn /\ drifted' = drifted /\ (current # q.id \/ q.kind \notin {"update", "delete"})
      \/ /\ current' = q.id /\ q.kind \in {"create", "update", "use", "pick"}
         /\ ~drifted' => conn' = q.body
      \/ current' = Nil
  <2>1. CASE Saved!Created(q)
    BY <2>1 DEF Saved!Created, Saved!Activate
  <2>2. CASE Saved!Updated(q)
    BY <2>2 DEF Saved!Updated, Saved!RefreshesConnection
  <2>3. CASE Saved!Loaded(q)
    BY <2>3 DEF Saved!Loaded, Saved!Activate
  <2>4. CASE Saved!Edited(q)
    BY <2>4 DEF Saved!Edited
  <2>5. CASE Saved!Deleted(q)
    BY <2>5 DEF Saved!Deleted, Saved!Activate
  <2> QED BY <2>1, <2>2, <2>3, <2>4, <2>5 DEF Saved!Succeed
<1>6. q.kind \in Saved!Changers => i \in ChangersOf(q.id)
  BY <1>1 DEF ChangersOf
<1>7. NewIsNotCurrent'
  <2> SUFFICES ASSUME NEW c \in Connections \ unsure', NEW j \in ChangersOf(c)', calls'[j].kind = "create"
               PROVE  c # current'
    BY DEF NewIsNotCurrent
  <2>1. j \in ChangersOf(c) /\ j # i /\ calls'[j] = calls[j]
    BY <1>4 DEF ChangersOf, Saved!InUse, SavedSlot
  <2>2. CASE current' = q.id /\ q.kind \in Saved!Changers
    BY <1>1, <1>6, <2>1, <2>2 DEF SavedInv, OneChanger
  <2>3. CASE current' = current \/ current' = Nil
    BY <1>1, <2>1, <2>3 DEF SavedInv, NewIsNotCurrent, Saved!ConnectionsConstants
  <2> QED BY <1>5, <2>2, <2>3 DEF Saved!Changers
<1>8. UpToDate'
  <2>1. CASE current' = current /\ conn' = conn /\ drifted' = drifted /\ (current # q.id \/ q.kind \notin {"update", "delete"})
    <3>1. ASSUME NEW j \in ChangersOf(current), calls[j].kind \in {"update", "delete"}
          PROVE  j \in ChangersOf(current)' /\ calls'[j] = calls[j]
      BY <1>4, <2>1, <3>1 DEF ChangersOf, Saved!InUse, SavedSlot
    <3> QED BY <1>1, <2>1, <3>1 DEF SavedInv, UpToDate
  <2>2. CASE current' = q.id /\ q.kind \in {"create", "update", "use", "pick"} /\ (~drifted' => conn' = q.body)
    <3>1. q.id \in Connections \ unsure => saved[q.id] = q.body
      BY <1>1, <1>6, <2>2 DEF SavedInv, AnswersAreTrue, Saved!Changers
    <3> QED BY <1>1, <1>2, <2>2, <3>1 DEF UpToDate
  <2>3. CASE current' = Nil
    BY <2>3 DEF UpToDate
  <2> QED BY <1>5, <2>1, <2>2, <2>3
<1> QED BY <1>4, <1>7, <1>8 DEF SavedInv

LEMMA FailKeeps ==
    ASSUME Saved!ConnectionsConstants, SavedInv, NEW i \in SavedSlot, Saved!Fail(i) PROVE SavedInv'
<1>1. /\ i \in Saved!InUse /\ calls' = [calls EXCEPT ![i] = Saved!Free] /\ unsure \subseteq unsure'
      /\ UNCHANGED <<saved, current, conn, drifted, view>>
  BY DEF Saved!Fail, Saved!InUse, SavedSlot, Saved!Store, Saved!Dialog
<1>2. /\ SavedTyped' /\ OneChanger' /\ AnswersAreTrue'
      /\ \A c : ChangersOf(c)' = ChangersOf(c) \ {i}
      /\ \A j \in SavedSlot \ {i} : calls'[j] = calls[j]
  <2>1. drifted' \in BOOLEAN /\ view'.id \in Connections \cup {Nil}
    BY <1>1 DEF SavedInv, SavedTyped
  <2> QED BY <1>1, <2>1, Freeing
<1>3. \A c : \A j \in ChangersOf(c)' : j \in ChangersOf(c) /\ calls'[j] = calls[j]
  BY <1>2 DEF ChangersOf, Saved!InUse, SavedSlot
<1>4. NewIsNotCurrent'
  BY <1>1, <1>3 DEF SavedInv, NewIsNotCurrent
<1>5. UpToDate'
  <2> SUFFICES ASSUME current' # Nil, ~drifted', current' \notin unsure'
               PROVE  \/ conn' = saved'[current']
                      \/ \E j \in ChangersOf(current)' : calls'[j].kind \in {"update", "delete"} /\ calls'[j].pc = "ok"
    BY <1>1 DEF SavedInv, UpToDate, ChangersOf
  <2>1. CASE conn = saved[current]
    BY <1>1, <2>1
  <2>2. CASE conn # saved[current]
    <3>1. PICK j \in ChangersOf(current) : calls[j].kind \in {"update", "delete"} /\ calls[j].pc = "ok"
      BY <1>1, <2>2 DEF SavedInv, UpToDate
    <3>2. j # i
      BY <1>1, <3>1 DEF Saved!Fail, ChangersOf
    <3>3. j \in ChangersOf(current)' /\ calls'[j] = calls[j]
      BY <1>1, <1>2, <3>2 DEF ChangersOf, Saved!InUse, SavedSlot
    <3> QED BY <3>1, <3>3
  <2> QED BY <2>1, <2>2
<1> QED BY <1>2, <1>4, <1>5 DEF SavedInv

LEMMA SavedInductive == Saved!ConnectionsConstants /\ SavedInv /\ [Saved!Next]_Saved!connectionsVars => SavedInv'
<1> SUFFICES ASSUME Saved!ConnectionsConstants, SavedInv, [Saved!Next]_Saved!connectionsVars PROVE SavedInv'
  OBVIOUS
<1>1. CASE Saved!OpenDialog \/ Saved!CloseDialog \/ Saved!Back \/ Saved!Type \/ (\E f \in Saved!Forms : Saved!Add(f)) \/ UNCHANGED Saved!connectionsVars
  <2>1. UNCHANGED <<saved, current, conn, calls, drifted, unsure>> /\ view'.id \in Connections \cup {Nil}
    BY <1>1 DEF Saved!OpenDialog, Saved!CloseDialog, Saved!Back, Saved!Type, Saved!Add, Saved!Moves, Saved!Store, Saved!Form, Saved!List, Saved!connectionsVars, SavedInv, SavedTyped
  <2> QED BY <2>1, DialogKeeps
<1>2. CASE Saved!Save
  <2>1. PICK kind, body : Saved!Call(kind, view.id, body) /\ (kind = "create" => view.id = Nil)
    BY <1>2 DEF Saved!Save
  <2>2. view.id \in Connections \cup {Nil}
    BY DEF SavedInv, SavedTyped
  <2> QED BY <2>1, <2>2, CallKeeps
<1>3. ASSUME NEW c \in Connections, Saved!Use(c) \/ Saved!Pick(c) \/ Saved!Edit(c) \/ Saved!Delete(c) PROVE SavedInv'
  <2>1. PICK kind \in {"use", "pick", "edit", "delete"} : Saved!Call(kind, c, Nil)
    BY <1>3 DEF Saved!Use, Saved!Pick, Saved!Edit, Saved!Delete
  <2>2. kind # "create"
    BY <2>1
  <2> QED BY <2>1, <2>2, CallKeeps
<1>4. ASSUME NEW i \in 1 .. Calls, Saved!Serve(i) \/ Saved!Succeed(i) \/ Saved!Fail(i) PROVE SavedInv'
  BY <1>4, SavedServeKeeps, SavedSucceedKeeps, FailKeeps DEF SavedSlot
<1> QED BY <1>1, <1>2, <1>3, <1>4 DEF Saved!Next

\* A behaviour of the parts is one of Connections: of what the other parts do
\* it shows nothing.
LEMMA SavedBehaves == Spec => Saved!Spec
<1>1. Init => Saved!Init
  BY DEF Init
<1>2. [Next]_partsVars => [Saved!Next]_(Saved!connectionsVars)
  <2>1. SavedStep => Saved!Next
    BY DEF SavedStep
  <2>2. TabsStep \/ TalkStep \/ BoundStep \/ SownStep \/ FilesStep
        \/ DrawnStep \/ FoundStep \/ ChosenStep
        \/ ListedStep \/ SignedStep \/ UNCHANGED partsVars => UNCHANGED Saved!connectionsVars
    BY DEF TabsStep, TalkStep, BoundStep, SownStep,
           FilesStep, DrawnStep, FoundStep, ChosenStep,
           ListedStep, SignedStep, partsVars, savedVars, Saved!connectionsVars
  <2> QED BY <2>1, <2>2 DEF Next
<1> QED BY <1>1, <1>2, PTL DEF Spec, Saved!Spec

LEMMA SavedHolds == Spec => []SavedInv
<1>1. Saved!ConnectionsConstants
  BY PartsAssumption
<1>2. Saved!Init => SavedInv
  BY <1>1, SavedInitEstablishes
<1>3. SavedInv /\ [Saved!Next]_(Saved!connectionsVars) => SavedInv'
  BY <1>1, SavedInductive
<1> QED BY <1>2, <1>3, SavedBehaves, PTL DEF Saved!Spec

\* For any connections and any number of requests at once: what queries run
\* with is what is saved under the name shown as active, unless the form has
\* changed between a save and its answer (drifted), or requests about it have
\* crossed or lost their answer (unsure).
THEOREM ConnectionsActiveIsSaved == Spec => []ActiveIsSaved
<1>1. SavedInv => ActiveIsSaved
  <2> SUFFICES ASSUME SavedInv, current # Nil, Saved!About(current) \cap Saved!Changers = {},
                      ~drifted, current \notin unsure
               PROVE  conn = saved[current]
    BY DEF ActiveIsSaved, Saved!ActiveIsSaved
  <2>1. ChangersOf(current) = {}
    BY DEF ChangersOf, Saved!About
  <2> QED BY <2>1 DEF SavedInv, UpToDate
<1> QED BY <1>1, SavedHolds, PTL

---------------------------------------------------------------------------
(* The types of what the browser keeps of connections.                     *)

Config == Saved!Configs \cup {Nil}

Request == [kind : {"none", "edit"} \cup Saved!Changers, id : Connections \cup {Nil}, body : Config,
            pc : {"free", "sent", "ok", "error"}]

\* What an answer brings: the connection it is about, and its configuration
\* where the handler takes it from there.
BringsWhatItShould(q) ==
    /\ q.kind \notin {"none", "create"} \/ (q.kind = "create" /\ q.pc = "ok") => q.id \in Connections
    /\ q.kind \in {"create", "update"} /\ q.pc \in {"sent", "ok"} => q.body \in Saved!Configs
    /\ q.kind \in {"use", "pick", "edit"} /\ q.pc = "ok" => q.body \in Saved!Configs

Drafted == \A f \in Saved!Forms : drafts[f] \in Saved!Configs /\ drafts[f].form = f

SavedTypes ==
    /\ saved \in [Connections -> Config]
    /\ current \in Connections \cup {Nil} /\ conn \in Config
    /\ shown \in BOOLEAN
    /\ view \in [kind : {"list", "form"}, form : Saved!Forms, id : Connections \cup {Nil}]
    /\ drafts \in [Saved!Forms -> Saved!Configs] /\ Drafted
    /\ calls \in [SavedSlot -> Request] /\ \A i \in SavedSlot : BringsWhatItShould(calls[i])
    /\ typed \in 0 .. MaxTyped
    /\ unsure \subseteq Connections

\* What the invariant says is what TypeOK says, and more.
LEMMA SavedTypesSuffice == SavedTypes => Saved!TypeOK
BY DEF SavedTypes, Drafted, Saved!TypeOK, Config

LEMMA SavedInitTypes == Saved!ConnectionsConstants /\ Saved!Init => SavedTypes
<1> SUFFICES ASSUME Saved!ConnectionsConstants, Saved!Init PROVE SavedTypes
  OBVIOUS
<1>1. \A f \in Saved!Forms : Saved!Default(f) \in Saved!Configs /\ Saved!Default(f).form = f
  BY DEF Saved!Default, Saved!Configs, Saved!ConnectionsConstants
<1>2. saved \in [Connections -> Config] /\ current = Nil /\ conn \in Config
  <2>1. conn = Saved!Default("duckdb") /\ "duckdb" \in Saved!Forms
    BY DEF Saved!Init, Saved!Forms
  <2> QED BY <1>1, <2>1 DEF Saved!Init, Config
<1>3. drafts \in [Saved!Forms -> Saved!Configs] /\ Drafted
  BY <1>1 DEF Saved!Init, Drafted
<1>4. view \in [kind : {"list", "form"}, form : Saved!Forms, id : Connections \cup {Nil}]
  BY DEF Saved!Init, Saved!List, Saved!Forms
<1>5. calls \in [SavedSlot -> Request] /\ \A i \in SavedSlot : BringsWhatItShould(calls[i])
  BY DEF Saved!Init, Saved!Free, SavedSlot, Request, BringsWhatItShould, Config
<1>6. typed = 0 /\ MaxTyped \in Nat /\ shown = FALSE /\ unsure = {}
  BY DEF Saved!Init, Saved!ConnectionsConstants
<1>7. typed \in 0 .. MaxTyped
  BY <1>6
<1> QED BY <1>2, <1>3, <1>4, <1>5, <1>6, <1>7 DEF SavedTypes

LEMMA DraftTypes == SavedTypes => Saved!CurrentDraft \in Saved!Configs
BY DEF SavedTypes, Saved!CurrentDraft, Saved!Forms

\* A form is opened, typed into, left.
LEMMA DialogTypes ==
    ASSUME Saved!ConnectionsConstants, SavedTypes,
           \/ Saved!OpenDialog \/ Saved!CloseDialog \/ Saved!Back \/ Saved!Type
           \/ \E f \in Saved!Forms : Saved!Add(f)
    PROVE  SavedTypes'
<1>1. CASE Saved!OpenDialog \/ Saved!CloseDialog \/ Saved!Back
  <2>0. Saved!List \in [kind : {"list", "form"}, form : Saved!Forms, id : Connections \cup {Nil}]
    BY DEF Saved!List, Saved!Forms
  <2>1. shown' \in BOOLEAN /\ view' \in {view, Saved!List}
    BY <1>1 DEF Saved!OpenDialog, Saved!CloseDialog, Saved!Back, Saved!Moves
  <2>2. UNCHANGED <<saved, current, conn, drafts, calls, typed, unsure>>
    BY <1>1 DEF Saved!OpenDialog, Saved!CloseDialog, Saved!Back, Saved!Moves, Saved!Store
  <2> QED BY <2>0, <2>1, <2>2 DEF SavedTypes, Drafted
<1>2. CASE Saved!Type
  <2>1. typed + 1 \in 0 .. MaxTyped /\ typed' = typed + 1
    BY <1>2 DEF Saved!Type, SavedTypes, Saved!ConnectionsConstants
  <2>2. \A f \in Saved!Forms : \A v \in 0 .. MaxTyped : 
            LET d == [drafts[f] EXCEPT !.version = v] IN d \in Saved!Configs /\ d.form = f
    BY DEF SavedTypes, Drafted, Saved!Configs
  <2>3. drafts' = [drafts EXCEPT ![view.form] = [drafts[view.form] EXCEPT !.version = typed + 1]]
    BY <1>2 DEF Saved!Type
  <2>4. drafts' \in [Saved!Forms -> Saved!Configs] /\ Drafted'
    BY <2>1, <2>2, <2>3 DEF SavedTypes, Drafted
  <2>5. UNCHANGED <<saved, current, conn, shown, view, calls, unsure>>
    BY <1>2 DEF Saved!Type, Saved!Store
  <2> QED BY <2>1, <2>4, <2>5 DEF SavedTypes
<1>3. CASE \E f \in Saved!Forms : Saved!Add(f)
  <2>1. PICK f \in Saved!Forms : Saved!Add(f)
    BY <1>3
  <2>2. Saved!Default(f) \in Saved!Configs /\ Saved!Default(f).form = f
    BY DEF Saved!Default, Saved!Configs, Saved!ConnectionsConstants
  <2>3. drafts' = [drafts EXCEPT ![f] = Saved!Default(f)]
    BY <2>1 DEF Saved!Add
  <2>4. drafts' \in [Saved!Forms -> Saved!Configs] /\ Drafted'
    BY <2>2, <2>3 DEF SavedTypes, Drafted
  <2>5. shown' = TRUE /\ view' \in [kind : {"list", "form"}, form : Saved!Forms, id : Connections \cup {Nil}]
    BY <2>1 DEF Saved!Add, Saved!Moves, Saved!Form
  <2>6. UNCHANGED <<saved, current, conn, calls, typed, unsure>>
    BY <2>1 DEF Saved!Add, Saved!Moves, Saved!Store
  <2> QED BY <2>4, <2>5, <2>6 DEF SavedTypes
<1> QED BY <1>1, <1>2, <1>3

LEMMA CallTypes ==
    ASSUME Saved!ConnectionsConstants, SavedTypes,
           NEW kind \in Saved!Changers \cup {"edit"}, NEW c \in Connections \cup {Nil}, NEW body \in Config,
           kind # "create" => c \in Connections,
           kind \in {"create", "update"} => body \in Saved!Configs,
           Saved!Call(kind, c, body)
    PROVE  SavedTypes'
<1> DEFINE new == [kind |-> kind, id |-> c, body |-> body, pc |-> "sent"]
<1>1. PICK n \in SavedSlot : calls' = [calls EXCEPT ![n] = new]
  <2>1. \E i \in 1 .. Calls : i \notin Saved!InUse
    BY DEF Saved!Call, Saved!InUse
  <2> QED BY <2>1 DEF Saved!Call, SavedSlot
<1>2. new \in Request /\ BringsWhatItShould(new)
  BY DEF Request, BringsWhatItShould, Saved!Changers
<1>3. calls' \in [SavedSlot -> Request] /\ \A i \in SavedSlot : BringsWhatItShould(calls'[i])
  BY <1>1, <1>2 DEF SavedTypes
<1>4. unsure' \subseteq Connections
  BY DEF Saved!Call, SavedTypes
<1>5. UNCHANGED <<saved, current, conn, shown, view, drafts, typed>>
  BY DEF Saved!Call, Saved!Store, Saved!Dialog
<1> QED BY <1>3, <1>4, <1>5 DEF SavedTypes, Drafted

LEMMA RequestTypes ==
    ASSUME Saved!ConnectionsConstants, SavedTypes,
           \/ Saved!Save
           \/ \E c \in Connections : Saved!Use(c) \/ Saved!Pick(c) \/ Saved!Edit(c) \/ Saved!Delete(c)
    PROVE  SavedTypes'
<1>1. CASE Saved!Save
  <2>1. view.id \in Connections \cup {Nil} /\ Saved!CurrentDraft \in Saved!Configs
    BY DraftTypes DEF SavedTypes
  <2>2. CASE view.id = Nil
    BY <1>1, <2>1, <2>2, CallTypes DEF Saved!Save, Saved!Changers, Config
  <2>3. CASE view.id # Nil
    BY <1>1, <2>1, <2>3, CallTypes DEF Saved!Save, Saved!Changers, Config
  <2> QED BY <2>2, <2>3
<1>2. CASE \E c \in Connections : Saved!Use(c) \/ Saved!Pick(c) \/ Saved!Edit(c) \/ Saved!Delete(c)
  <2>1. PICK c \in Connections : Saved!Use(c) \/ Saved!Pick(c) \/ Saved!Edit(c) \/ Saved!Delete(c)
    BY <1>2
  <2>2. PICK kind \in {"use", "pick", "edit", "delete"} : Saved!Call(kind, c, Nil)
    BY <2>1 DEF Saved!Use, Saved!Pick, Saved!Edit, Saved!Delete
  <2> QED BY <2>2, CallTypes DEF Saved!Changers, Config
<1> QED BY <1>1, <1>2

LEMMA ReplyTypes ==
    ASSUME SavedTypes, NEW i \in SavedSlot, NEW pc \in {"ok", "error"}, NEW c \in Connections,
           NEW body \in Config, calls[i].kind # "none",
           calls[i].kind # "delete" /\ pc = "ok" => body \in Saved!Configs,
           Saved!Reply(i, pc, c, body)
    PROVE  calls' \in [SavedSlot -> Request] /\ \A j \in SavedSlot : BringsWhatItShould(calls'[j])
<1> DEFINE a == [kind |-> calls[i].kind, id |-> c, body |-> body, pc |-> pc]
<1>1. calls' = [calls EXCEPT ![i] = a]
  BY DEF Saved!Reply
<1>2. calls[i].kind \in {"edit"} \cup Saved!Changers
  BY DEF SavedTypes, Request
<1>3. a \in Request /\ BringsWhatItShould(a)
  BY <1>2 DEF Request, BringsWhatItShould, Saved!Changers
<1> QED BY <1>1, <1>3 DEF SavedTypes

LEMMA ServeTypes ==
    ASSUME SavedTypes, NEW i \in SavedSlot, Saved!Serve(i)
    PROVE  SavedTypes'
<1> DEFINE q == calls[i]
<1>0. q \in Request /\ BringsWhatItShould(q) /\ q.pc = "sent" /\ Nil \in Config
  BY DEF SavedTypes, Saved!Serve, Config
<1>1. UNCHANGED <<current, conn, shown, view, drafts, typed, unsure>>
  BY DEF Saved!Serve, Saved!Dialog
<1>2. saved' \in [Connections -> Config] /\ calls' \in [SavedSlot -> Request]
      /\ \A j \in SavedSlot : BringsWhatItShould(calls'[j])
  <2>1. CASE q.kind = "create"
    <3>1. PICK c \in Connections : saved' = [saved EXCEPT ![c] = q.body] /\ Saved!Reply(i, "ok", c, q.body)
      <4>1. Saved!NewIds # {} => Saved!NewId \in Connections
        BY DEF Saved!NewId, Saved!NewIds
      <4> QED BY <2>1, <4>1 DEF Saved!Serve
    <3>2. q.body \in Saved!Configs
      BY <1>0, <2>1 DEF BringsWhatItShould
    <3> QED BY <2>1, <3>1, <3>2, ReplyTypes DEF SavedTypes, Config
  <2>2. CASE q.kind \in {"update", "delete"}
    <3>1. q.id \in Connections /\ q.body \in Config
      BY <1>0, <2>2 DEF BringsWhatItShould, Request
    <3>2. q.kind = "update" => q.body \in Saved!Configs
      BY <1>0 DEF BringsWhatItShould
    <3>3. CASE q.id \in Saved!Stored
      <4>1. /\ saved' = [saved EXCEPT ![q.id] = IF q.kind = "update" THEN q.body ELSE Nil]
            /\ Saved!Reply(i, "ok", q.id, q.body)
        BY <2>2, <3>3 DEF Saved!Serve
      <4> QED BY <2>2, <3>1, <3>2, <4>1, <1>0, ReplyTypes DEF SavedTypes
    <3>4. CASE q.id \notin Saved!Stored
      <4>1. saved' = saved /\ Saved!Reply(i, "error", q.id, Nil)
        BY <2>2, <3>4 DEF Saved!Serve
      <4> QED BY <2>2, <3>1, <4>1, <1>0, ReplyTypes DEF SavedTypes
    <3> QED BY <3>3, <3>4
  <2>3. CASE q.kind \in {"use", "pick", "edit"}
    <3>1. q.id \in Connections /\ saved' = saved
      BY <1>0, <2>3 DEF BringsWhatItShould, Saved!Serve
    <3>3. CASE q.id \in Saved!Stored
      <4>1. Saved!Reply(i, "ok", q.id, saved[q.id])
        BY <2>3, <3>3 DEF Saved!Serve
      <4>2. saved[q.id] \in Saved!Configs
        BY <3>1, <3>3 DEF Saved!Stored, SavedTypes, Config
      <4> QED BY <2>3, <3>1, <4>1, <4>2, ReplyTypes DEF SavedTypes, Config
    <3>4. CASE q.id \notin Saved!Stored
      <4>1. Saved!Reply(i, "error", q.id, Nil)
        BY <2>3, <3>4 DEF Saved!Serve
      <4> QED BY <2>3, <3>1, <4>1, <1>0, ReplyTypes DEF SavedTypes
    <3> QED BY <3>3, <3>4
  <2> QED BY <2>1, <2>2, <2>3 DEF Saved!Serve
<1> QED BY <1>1, <1>2 DEF SavedTypes, Drafted

LEMMA FreeTypes ==
    ASSUME SavedTypes, NEW i \in SavedSlot, calls' = [calls EXCEPT ![i] = Saved!Free]
    PROVE  calls' \in [SavedSlot -> Request] /\ \A j \in SavedSlot : BringsWhatItShould(calls'[j])
<1>1. Saved!Free \in Request /\ BringsWhatItShould(Saved!Free)
  BY DEF Request, BringsWhatItShould, Saved!Free, Config
<1> QED BY <1>1 DEF SavedTypes

LEMMA SucceedTypes ==
    ASSUME SavedTypes, NEW i \in SavedSlot, Saved!Succeed(i)
    PROVE  SavedTypes'
<1> DEFINE q == calls[i]
<1> DEFINE Views == [kind : {"list", "form"}, form : Saved!Forms, id : Connections \cup {Nil}]
<1>0. q \in Request /\ BringsWhatItShould(q) /\ q.pc = "ok" /\ Nil \in Config /\ Saved!List \in Views
  BY DEF SavedTypes, Saved!Succeed, Config, Saved!List, Saved!Forms
<1>1. calls' \in [SavedSlot -> Request] /\ \A j \in SavedSlot : BringsWhatItShould(calls'[j])
  BY FreeTypes DEF Saved!Succeed
<1>2. UNCHANGED <<saved, typed, unsure>>
  BY DEF Saved!Succeed
<1>3. Saved!CurrentDraft \in Config /\ Saved!Configs \subseteq Config
  BY DraftTypes DEF Config
<1>4. current' \in Connections \cup {Nil} /\ conn' \in Config /\ shown' \in BOOLEAN /\ view' \in Views
      /\ drafts' \in [Saved!Forms -> Saved!Configs] /\ Drafted'
  <2>1. CASE Saved!Created(q)
    BY <1>0, <1>3, <2>1 DEF Saved!Created, Saved!Activate, BringsWhatItShould, SavedTypes, Drafted
  <2>2. CASE Saved!Updated(q)
    BY <1>0, <1>3, <2>2 DEF Saved!Updated, SavedTypes, Drafted
  <2>3. CASE Saved!Loaded(q)
    <3>1. q.id \in Connections /\ q.body \in Config
      BY <1>0, <2>3 DEF Saved!Loaded, BringsWhatItShould, Request
    <3> QED BY <1>0, <2>3, <3>1 DEF Saved!Loaded, Saved!Activate, SavedTypes, Drafted
  <2>4. CASE Saved!Edited(q)
    <3>1. q.id \in Connections /\ q.body \in Saved!Configs
      BY <1>0, <2>4 DEF Saved!Edited, BringsWhatItShould
    <3>2. q.body.form \in Saved!Forms
      BY <3>1 DEF Saved!Configs
    <3>3. view' \in Views
      BY <2>4, <3>1, <3>2 DEF Saved!Edited, Saved!Form
    <3>4. drafts' \in [Saved!Forms -> Saved!Configs] /\ Drafted'
      BY <2>4, <3>1, <3>2 DEF Saved!Edited, SavedTypes, Drafted
    <3> QED BY <2>4, <3>3, <3>4 DEF Saved!Edited, SavedTypes
  <2>5. CASE Saved!Deleted(q)
    BY <1>0, <2>5 DEF Saved!Deleted, Saved!Activate, Saved!Dialog, SavedTypes, Drafted
  <2> QED BY <2>1, <2>2, <2>3, <2>4, <2>5 DEF Saved!Succeed
<1> QED BY <1>1, <1>2, <1>4 DEF SavedTypes

LEMMA FailTypes ==
    ASSUME SavedTypes, NEW i \in SavedSlot, Saved!Fail(i)
    PROVE  SavedTypes'
<1>1. calls' \in [SavedSlot -> Request] /\ \A j \in SavedSlot : BringsWhatItShould(calls'[j])
  BY FreeTypes DEF Saved!Fail
<1>2. unsure' \subseteq Connections
  <2>1. BringsWhatItShould(calls[i]) /\ unsure \subseteq Connections
    BY DEF SavedTypes
  <2> QED BY <2>1 DEF Saved!Fail, BringsWhatItShould
<1>3. UNCHANGED <<saved, current, conn, shown, view, drafts, typed>>
  BY DEF Saved!Fail, Saved!Store, Saved!Dialog
<1> QED BY <1>1, <1>2, <1>3 DEF SavedTypes, Drafted

LEMMA SavedTypesInductive ==
    Saved!ConnectionsConstants /\ SavedTypes /\ [Saved!Next]_Saved!connectionsVars => SavedTypes'
<1> SUFFICES ASSUME Saved!ConnectionsConstants, SavedTypes, [Saved!Next]_Saved!connectionsVars PROVE SavedTypes'
  OBVIOUS
<1>1. CASE \E i \in SavedSlot : Saved!Serve(i) \/ Saved!Succeed(i) \/ Saved!Fail(i)
  BY <1>1, ServeTypes, SucceedTypes, FailTypes
<1>2. CASE UNCHANGED Saved!connectionsVars
  BY <1>2 DEF Saved!connectionsVars, SavedTypes, Drafted
<1> QED BY <1>1, <1>2, DialogTypes, RequestTypes DEF Saved!Next, SavedSlot

LEMMA SavedTypesHold == Spec => []SavedTypes
<1>1. Saved!ConnectionsConstants
  BY PartsAssumption
<1>2. Saved!Init => SavedTypes
  BY <1>1, SavedInitTypes
<1>3. SavedTypes /\ [Saved!Next]_Saved!connectionsVars => SavedTypes'
  BY <1>1, SavedTypesInductive
<1>4. Saved!Spec => []SavedTypes
  BY <1>2, <1>3, PTL DEF Saved!Spec
<1> QED BY <1>4, SavedBehaves, PTL

---------------------------------------------------------------------------
(* The conversations.                                                      *)

Message == [role : {"user", "assistant"}, of : Talk!Questions]

Replies == {"unasked", "pending", "answered", "failed", "dropped", "away", "stray"}

TalkTyped ==
    /\ thread \in Seq(Message)
    /\ reply \in [Talk!Questions -> Replies]
    /\ asking \subseteq {q \in Talk!Questions : reply[q] \in {"pending", "away"}}
    /\ asked \in 0 .. MaxAsks
    /\ \A q \in Talk!Questions : q > asked => reply[q] = "unasked"

\* Where the question q stands.
At(q) == {i \in DOMAIN thread : thread[i] = Talk!User(q)}

Placed(q) ==
    /\ reply[q] \in {"unasked", "failed", "away", "stray"} => At(q) = {}
    /\ reply[q] = "pending" => thread # <<>> /\ At(q) = {Len(thread)}
    /\ reply[q] = "answered" =>
          \E i \in At(q) : At(q) = {i} /\ i < Len(thread) /\ thread[i + 1] = Talk!Assistant(q)
    /\ reply[q] = "dropped" =>
          \E i \in At(q) : At(q) = {i} /\ (i < Len(thread) => thread[i + 1].role = "user")

TalkInv == TalkTyped /\ (~overlapped => \A q \in Talk!Questions : Placed(q))

LEMMA TalkInitEstablishes == Talk!ChatConstants /\ Talk!Init => TalkInv
<1> SUFFICES ASSUME Talk!ChatConstants, Talk!Init PROVE TalkInv
  OBVIOUS
<1>1. TalkTyped
  BY DEF Talk!Init, TalkTyped, Replies, Talk!Questions, Talk!ChatConstants
<1>2. \A q \in Talk!Questions : Placed(q)
  BY DEF Talk!Init, Placed, At
<1> QED BY <1>1, <1>2 DEF TalkInv

LEMMA MessageFacts ==
    /\ \A q \in Talk!Questions : Talk!User(q) \in Message /\ Talk!Assistant(q) \in Message
    /\ \A q, p : Talk!User(q) # Talk!Assistant(p) /\ (Talk!User(q) = Talk!User(p) => q = p)
                 /\ (Talk!Assistant(q) = Talk!Assistant(p) => q = p)
    /\ \A q : Talk!User(q).role = "user" /\ Talk!Assistant(q).role = "assistant"
BY DEF Talk!User, Talk!Assistant, Message

LEMMA AppendFacts ==
    ASSUME NEW S, NEW s \in Seq(S), NEW m \in S
    PROVE  /\ Append(s, m) \in Seq(S) /\ Append(s, m) # <<>> /\ Len(Append(s, m)) = Len(s) + 1
           /\ DOMAIN Append(s, m) = DOMAIN s \cup {Len(s) + 1}
           /\ \A i \in DOMAIN s : i \in 1 .. Len(s) /\ Append(s, m)[i] = s[i]
           /\ Append(s, m)[Len(s) + 1] = m
           /\ DOMAIN s = 1 .. Len(s) /\ Len(s) \in Nat
OBVIOUS

LEMMA FrontFacts ==
    ASSUME NEW S, NEW s \in Seq(S), s # <<>>
    PROVE  /\ Talk!Front(s) \in Seq(S) /\ DOMAIN Talk!Front(s) = DOMAIN s \ {Len(s)}
           /\ Len(Talk!Front(s)) = Len(s) - 1
           /\ \A i \in DOMAIN Talk!Front(s) : Talk!Front(s)[i] = s[i]
           /\ DOMAIN s = 1 .. Len(s) /\ Len(s) \in Nat \ {0}
<1>1. Talk!Front(s) = SubSeq(s, 1, Len(s) - 1) /\ Len(s) \in Nat \ {0} /\ DOMAIN s = 1 .. Len(s)
  BY DEF Talk!Front
<1>2. \A i \in 1 .. Len(s) - 1 : s[i] \in S
  OBVIOUS
<1>3. /\ Talk!Front(s) \in Seq(S) /\ Len(Talk!Front(s)) = IF 1 <= Len(s) - 1 THEN Len(s) - 1 - 1 + 1 ELSE 0
      /\ \A i \in 1 .. Len(s) - 1 - 1 + 1 : Talk!Front(s)[i] = s[1 + i - 1]
  BY <1>1, <1>2, SubSeqProperties
<1> QED BY <1>1, <1>3

\* An exchange that is over stays in its place when nothing comes between.
LEMMA StaysPlaced ==
    ASSUME NEW p \in Talk!Questions, Placed(p), reply[p] # "pending", reply'[p] = reply[p], At(p)' = At(p),
           \A i \in At(p) :
              /\ i < Len(thread) /\ thread[i + 1] = Talk!Assistant(p)
                 => i < Len(thread') /\ thread'[i + 1] = Talk!Assistant(p)
              /\ (i < Len(thread) => thread[i + 1].role = "user")
                 => (i < Len(thread') => thread'[i + 1].role = "user")
    PROVE  Placed(p)'
<1>1. CASE reply[p] \in {"unasked", "failed", "away", "stray"}
  BY <1>1 DEF Placed
<1>2. CASE reply[p] = "answered"
  <2>1. PICK i \in At(p) : At(p) = {i} /\ i < Len(thread) /\ thread[i + 1] = Talk!Assistant(p)
    BY <1>2 DEF Placed
  <2> QED BY <1>2, <2>1 DEF Placed
<1>3. CASE reply[p] = "dropped"
  <2>1. PICK i \in At(p) : At(p) = {i} /\ (i < Len(thread) => thread[i + 1].role = "user")
    BY <1>3 DEF Placed
  <2> QED BY <1>3, <2>1 DEF Placed
<1>4. CASE reply[p] \notin {"unasked", "failed", "away", "stray", "answered", "dropped"}
  BY <1>4 DEF Placed
<1> QED BY <1>1, <1>2, <1>3, <1>4

LEMMA NextIndex == \A n \in Nat : \A i \in 1 .. n : i = n \/ i + 1 \in 1 .. n
OBVIOUS

LEMMA TalkAskKeeps ==
    ASSUME Talk!ChatConstants, TalkInv, Talk!Ask PROVE TalkInv'
<1> PICK n : n = asked + 1
  OBVIOUS
<1>1. n \in Talk!Questions /\ reply[n] = "unasked" /\ asked' = n
  BY DEF TalkInv, TalkTyped, Talk!Ask, Talk!Questions, Talk!ChatConstants
<1>2. /\ thread' \in Seq(Message) /\ thread' # <<>> /\ Len(thread') = Len(thread) + 1
      /\ DOMAIN thread' = DOMAIN thread \cup {Len(thread) + 1}
      /\ \A i \in DOMAIN thread : i \in 1 .. Len(thread) /\ thread'[i] = thread[i]
      /\ thread'[Len(thread) + 1] = Talk!User(n)
      /\ DOMAIN thread = 1 .. Len(thread) /\ Len(thread) \in Nat
  BY <1>1, MessageFacts, AppendFacts DEF TalkInv, TalkTyped, Talk!Ask
<1>3. /\ reply'[n] = "pending" /\ reply' \in [Talk!Questions -> Replies]
      /\ \A q \in Talk!Questions \ {n} : reply'[q] = reply[q]
  BY <1>1 DEF TalkInv, TalkTyped, Replies, Talk!Ask
<1>4. TalkTyped'
  BY <1>1, <1>2, <1>3 DEF TalkInv, TalkTyped, Talk!Ask, Talk!Questions, Talk!ChatConstants
<1>5. ASSUME ~overlapped', NEW q \in Talk!Questions PROVE Placed(q)'
  <2>1. ~overlapped /\ Placed(q) /\ Placed(n)
    BY <1>1, <1>5 DEF Talk!Ask, TalkInv
  <2>2. Talk!PendingAsks = {}
    BY <1>5 DEF Talk!Ask, Talk!MaySend
  <2>3. CASE q = n
    <3>1. At(n) = {}
      BY <1>1, <2>1 DEF Placed
    <3>2. At(n)' = {Len(thread')}
      BY <1>2, <3>1 DEF At
    <3> QED BY <1>1, <1>2, <1>3, <2>3, <3>2 DEF Placed
  <2>4. CASE q # n
    <3>1. At(q)' = At(q)
      BY <1>2, <2>4, MessageFacts DEF At
    <3>2. reply'[q] = reply[q] /\ reply[q] # "pending"
      BY <1>3, <2>2, <2>4 DEF Talk!PendingAsks
    <3>3. \A i \in At(q) : i \in 1 .. Len(thread)
      BY <1>2 DEF At
    <3>4. Talk!User(n).role = "user"
      BY MessageFacts
    <3>5. \A i \in 1 .. Len(thread) : thread'[i + 1] = IF i = Len(thread) THEN Talk!User(n) ELSE thread[i + 1]
      <4> TAKE i \in 1 .. Len(thread)
      <4>1. i = Len(thread) \/ i + 1 \in DOMAIN thread
        <5>1. DOMAIN thread = 1 .. Len(thread) /\ Len(thread) \in Nat
          BY <1>2
        <5>2. i = Len(thread) \/ i + 1 \in 1 .. Len(thread)
          BY <5>1, NextIndex
        <5> QED BY <5>1, <5>2
      <4> QED BY <1>2, <4>1
    <3>6. \A i \in At(q) : i < Len(thread) => i < Len(thread') /\ thread'[i + 1] = thread[i + 1]
      <4> TAKE i \in At(q)
      <4>1. i \in 1 .. Len(thread) /\ i < Len(thread')
        BY <1>2, <3>3
      <4>2. thread'[i + 1] = IF i = Len(thread) THEN Talk!User(n) ELSE thread[i + 1]
        BY <3>5, <4>1
      <4> QED BY <4>1, <4>2
    <3>7. \A i \in At(q) : i < Len(thread) \/ thread'[i + 1].role = "user"
      <4> TAKE i \in At(q)
      <4>1. i \in 1 .. Len(thread)
        BY <3>3
      <4>2. thread'[i + 1] = IF i = Len(thread) THEN Talk!User(n) ELSE thread[i + 1]
        BY <3>5, <4>1
      <4>3. CASE i = Len(thread)
        BY <3>4, <4>2, <4>3
      <4>4. CASE i # Len(thread)
        <5>1. Len(thread) \in Nat
          BY <1>2
        <5> QED BY <4>1, <4>4, <5>1
      <4> QED BY <4>3, <4>4
    <3> QED BY <2>1, <3>1, <3>2, <3>6, <3>7, StaysPlaced
  <2> QED BY <2>3, <2>4
<1> QED BY <1>4, <1>5 DEF TalkInv

\* At most one question is pending, as long as each stands last.
LEMMA OnePending ==
    ASSUME NEW p \in Talk!Questions, NEW q \in Talk!Questions, Placed(p), Placed(q),
           reply[p] = "pending", reply[q] = "pending"
    PROVE  p = q
<1>1. thread[Len(thread)] = Talk!User(p) /\ thread[Len(thread)] = Talk!User(q)
  BY DEF Placed, At
<1> QED BY <1>1, MessageFacts

\* What the end of a request does to all but the thread.
LEMMA OverFacts ==
    ASSUME TalkTyped, NEW q \in Talk!Questions, NEW o \in {"answered", "failed"}, Talk!Over(q, o)
    PROVE  /\ reply[q] \in {"pending", "away"} /\ asked' = asked
           /\ reply'[q] = IF reply[q] = "away" THEN "stray" ELSE IF Talk!Reachable THEN o ELSE "dropped"
           /\ \A p \in Talk!Questions \ {q} : reply'[p] = reply[p]
           /\ reply' \in [Talk!Questions -> Replies]
           /\ asking' \subseteq {p \in Talk!Questions : reply'[p] \in {"pending", "away"}}
           /\ \A p \in Talk!Questions : p > asked' => reply'[p] = "unasked"
           /\ ~overlapped' => ~overlapped /\ (reply[q] = "away" => ~Talk!Reachable)
<1>1. /\ reply[q] \in {"pending", "away"} /\ asked' = asked
      /\ reply'[q] = IF reply[q] = "away" THEN "stray" ELSE IF Talk!Reachable THEN o ELSE "dropped"
      /\ \A p \in Talk!Questions \ {q} : reply'[p] = reply[p]
      /\ asking' = asking \ {q}
      /\ ~overlapped' => ~overlapped /\ (reply[q] = "away" => ~Talk!Reachable)
  BY DEF TalkTyped, Talk!Over
<1>2. reply' \in [Talk!Questions -> Replies]
  BY DEF TalkTyped, Replies, Talk!Over
<1>3. \A p \in Talk!Questions : p > asked' => reply'[p] = "unasked"
  BY <1>1 DEF TalkTyped
<1>4. asking' \subseteq {p \in Talk!Questions : reply'[p] \in {"pending", "away"}}
  BY <1>1 DEF TalkTyped
<1> QED BY <1>1, <1>2, <1>3, <1>4

\* An answer that goes nowhere, or to a copy.
LEMMA GoesNowhere ==
    ASSUME TalkInv, NEW q \in Talk!Questions, NEW o \in {"answered", "failed"}, Talk!Over(q, o),
           ~Talk!Reachable, thread' = thread, ~overlapped', NEW p \in Talk!Questions
    PROVE  Placed(p)'
<1>1. Placed(p) /\ Placed(q) /\ At(p)' = At(p) /\ At(q)' = At(q) /\ TalkTyped
  BY OverFacts DEF TalkInv, At
<1>2. CASE p # q /\ reply[p] # "pending"
  <2>1. reply'[p] = reply[p]
    BY <1>1, <1>2, OverFacts
  <2> QED BY <1>1, <1>2, <2>1, StaysPlaced
<1>3. CASE p # q /\ reply[p] = "pending"
  <2>1. reply'[p] = "pending"
    BY <1>1, <1>3, OverFacts
  <2> QED BY <1>1, <1>3, <2>1 DEF Placed
<1>4. CASE p = q /\ reply[q] = "away"
  <2>1. reply'[q] = "stray"
    BY <1>1, <1>4, OverFacts
  <2> QED BY <1>1, <1>4, <2>1 DEF Placed
<1>5. CASE p = q /\ reply[q] = "pending"
  <2>1. reply'[q] = "dropped"
    BY <1>1, <1>5, OverFacts
  <2>2. At(q) = {Len(thread)} /\ ~(Len(thread) < Len(thread))
    BY <1>1, <1>5 DEF Placed, TalkTyped
  <2> QED BY <1>1, <1>5, <2>1, <2>2 DEF Placed
<1> QED BY <1>1, <1>2, <1>3, <1>4, <1>5, OverFacts

LEMMA AnswerKeeps ==
    ASSUME Talk!ChatConstants, TalkInv, NEW q \in Talk!Questions, Talk!Answer(q) PROVE TalkInv'
<1>1. TalkTyped /\ Talk!Over(q, "answered")
  BY DEF TalkInv, Talk!Answer
<1>2. /\ Append(thread, Talk!Assistant(q)) \in Seq(Message) /\ Len(Append(thread, Talk!Assistant(q))) = Len(thread) + 1
      /\ Append(thread, Talk!Assistant(q)) # <<>>
      /\ DOMAIN Append(thread, Talk!Assistant(q)) = DOMAIN thread \cup {Len(thread) + 1}
      /\ \A i \in DOMAIN thread : i \in 1 .. Len(thread) /\ Append(thread, Talk!Assistant(q))[i] = thread[i]
      /\ Append(thread, Talk!Assistant(q))[Len(thread) + 1] = Talk!Assistant(q)
      /\ DOMAIN thread = 1 .. Len(thread) /\ Len(thread) \in Nat
  BY <1>1, MessageFacts, AppendFacts DEF TalkTyped
<1>3. thread' \in Seq(Message)
  BY <1>1, <1>2 DEF TalkTyped, Talk!Answer
<1>4. TalkTyped'
  BY <1>1, <1>3, OverFacts DEF TalkTyped
<1>5. ASSUME ~overlapped', NEW p \in Talk!Questions PROVE Placed(p)'
  <2>1. /\ ~overlapped /\ Placed(p) /\ Placed(q)
        /\ reply[q] = "away" => ~Talk!Reachable
        /\ reply[q] \in {"pending", "away"}
    BY <1>1, <1>5, OverFacts DEF TalkInv
  <2>2. CASE ~Talk!Reachable
    <3>1. thread' = thread
      BY <2>2 DEF Talk!Answer
    <3> QED BY <1>1, <1>5, <2>2, <3>1, GoesNowhere
  <2>3. CASE Talk!Reachable
    <3>1. /\ thread' = Append(thread, Talk!Assistant(q)) /\ thread # <<>> /\ At(q) = {Len(thread)}
          /\ reply[q] = "pending" /\ reply'[q] = "answered"
      BY <1>1, <2>1, <2>3, OverFacts DEF Talk!Answer, Placed
    <3>2. At(p)' = At(p)
      BY <1>2, <3>1, MessageFacts DEF At
    <3>3. \A i \in At(p) : i \in 1 .. Len(thread)
      BY <1>2 DEF At
    <3>4. CASE p = q
      BY <1>2, <2>1, <3>1, <3>2, <3>4 DEF Placed
    <3>5. CASE p # q
      <4>1. reply[p] # "pending" /\ reply'[p] = reply[p]
        BY <1>1, <2>1, <3>1, <3>5, OnePending, OverFacts
      <4>2. Len(thread) \notin At(p)
        BY <3>1, <3>5, MessageFacts DEF At
      <4>3. \A i \in At(p) : i < Len(thread) /\ thread'[i + 1] = thread[i + 1]
        BY <1>2, <3>1, <3>3, <4>2
      <4>4. \A i \in At(p) : i < Len(thread')
        BY <1>2, <3>1, <3>3
      <4> QED BY <2>1, <3>2, <4>1, <4>3, <4>4, StaysPlaced
    <3> QED BY <3>4, <3>5
  <2> QED BY <2>2, <2>3
<1> QED BY <1>4, <1>5 DEF TalkInv

LEMMA RefuseKeeps ==
    ASSUME Talk!ChatConstants, TalkInv, NEW q \in Talk!Questions, Talk!Refuse(q) PROVE TalkInv'
<1>1. TalkTyped /\ Talk!Over(q, "failed")
  BY DEF TalkInv, Talk!Refuse
<1>2. thread # <<>> => /\ Talk!Front(thread) \in Seq(Message) /\ DOMAIN Talk!Front(thread) = DOMAIN thread \ {Len(thread)}
                       /\ Len(Talk!Front(thread)) = Len(thread) - 1
                       /\ \A i \in DOMAIN Talk!Front(thread) : Talk!Front(thread)[i] = thread[i]
                       /\ DOMAIN thread = 1 .. Len(thread) /\ Len(thread) \in Nat \ {0}
  BY <1>1, FrontFacts DEF TalkTyped
<1>3. thread' \in Seq(Message)
  BY <1>1, <1>2 DEF TalkTyped, Talk!Refuse, Talk!WithoutLast
<1>4. TalkTyped'
  BY <1>1, <1>3, OverFacts DEF TalkTyped
<1>5. ASSUME ~overlapped', NEW p \in Talk!Questions PROVE Placed(p)'
  <2>1. /\ ~overlapped /\ Placed(p) /\ Placed(q)
        /\ reply[q] = "away" => ~Talk!Reachable
        /\ reply[q] \in {"pending", "away"}
    BY <1>1, <1>5, OverFacts DEF TalkInv
  <2>2. CASE ~Talk!Reachable
    <3>1. thread' = thread
      BY <2>2 DEF Talk!Refuse
    <3> QED BY <1>1, <1>5, <2>2, <3>1, GoesNowhere
  <2>3. CASE Talk!Reachable
    <3>1. thread # <<>> /\ At(q) = {Len(thread)} /\ reply[q] = "pending" /\ reply'[q] = "failed"
      BY <1>1, <2>1, <2>3, OverFacts DEF Placed
    <3>2. thread' = Talk!Front(thread)
      BY <2>3, <3>1 DEF Talk!Refuse, Talk!WithoutLast
    <3>3. At(p)' = At(p) \ {Len(thread)}
      BY <1>2, <3>1, <3>2 DEF At
    <3>4. CASE p = q
      BY <2>1, <3>1, <3>3, <3>4 DEF Placed
    <3>5. CASE p # q
      <4>1. reply[p] # "pending" /\ reply'[p] = reply[p]
        BY <1>1, <2>1, <3>1, <3>5, OnePending, OverFacts
      <4>2. Len(thread) \notin At(p) /\ thread[Len(thread)] = Talk!User(q)
        BY <3>1, <3>5, MessageFacts DEF At
      <4>3. \A i \in At(p) : i \in 1 .. Len(thread) - 1
        BY <1>2, <3>1, <4>2 DEF At
      <4>4. At(p)' = At(p)
        BY <3>3, <4>2
      <4>5. ASSUME NEW i \in At(p), i < Len(thread), thread[i + 1] = Talk!Assistant(p)
            PROVE  i < Len(thread') /\ thread'[i + 1] = Talk!Assistant(p)
        <5>1. i + 1 # Len(thread)
          BY <4>2, <4>5, MessageFacts
        <5> QED BY <1>2, <3>1, <3>2, <4>3, <4>5, <5>1
      <4>6. ASSUME NEW i \in At(p), i < Len(thread) => thread[i + 1].role = "user"
            PROVE  i < Len(thread') => thread'[i + 1].role = "user"
        BY <1>2, <3>1, <3>2, <4>3, <4>6
      <4> QED BY <2>1, <4>1, <4>4, <4>5, <4>6, StaysPlaced
    <3> QED BY <3>4, <3>5
  <2> QED BY <2>2, <2>3
<1> QED BY <1>4, <1>5 DEF TalkInv

\* A question asked in the copy is none of this thread.
LEMMA AskInCopyKeeps ==
    ASSUME Talk!ChatConstants, TalkInv, Talk!AskInCopy PROVE TalkInv'
<1> PICK n : n = asked + 1
  OBVIOUS
<1>1. n \in Talk!Questions /\ reply[n] = "unasked" /\ asked' = n /\ thread' = thread /\ overlapped' = overlapped
  BY DEF TalkInv, TalkTyped, Talk!AskInCopy, Talk!Questions, Talk!ChatConstants
<1>2. /\ reply'[n] = "away" /\ reply' \in [Talk!Questions -> Replies]
      /\ \A q \in Talk!Questions \ {n} : reply'[q] = reply[q]
  BY <1>1 DEF TalkInv, TalkTyped, Replies, Talk!AskInCopy
<1>3. TalkTyped'
  BY <1>1, <1>2 DEF TalkInv, TalkTyped, Talk!AskInCopy, Talk!Questions, Talk!ChatConstants
<1>4. ASSUME ~overlapped, NEW q \in Talk!Questions PROVE Placed(q)'
  <2>1. Placed(q) /\ Placed(n) /\ At(q)' = At(q)
    BY <1>1, <1>4 DEF TalkInv, At
  <2>2. CASE q = n
    BY <1>1, <1>2, <2>1, <2>2 DEF Placed
  <2>3. CASE q # n
    BY <1>1, <1>2, <2>1, <2>3 DEF Placed
  <2> QED BY <2>2, <2>3
<1> QED BY <1>1, <1>3, <1>4 DEF TalkInv

LEMMA TalkInductive == Talk!ChatConstants /\ TalkInv /\ [Talk!Next]_Talk!chatVars => TalkInv'
<1> SUFFICES ASSUME Talk!ChatConstants, TalkInv, [Talk!Next]_Talk!chatVars PROVE TalkInv'
  OBVIOUS
<1>1. CASE (\E to \in {"own", "copy", "other"} : Talk!SwitchTab(to)) \/ Talk!Unmount \/ UNCHANGED Talk!chatVars
  <2>1. UNCHANGED <<thread, reply, asked, overlapped>> /\ (asking' = {} \/ asking' = asking)
    BY <1>1 DEF Talk!SwitchTab, Talk!Unmount, Talk!chatVars
  <2> QED BY <2>1 DEF TalkInv, TalkTyped, Placed, At
<1> QED BY <1>1, TalkAskKeeps, AskInCopyKeeps, AnswerKeeps, RefuseKeeps DEF Talk!Next

\* A behaviour of the parts is one of Chat: of what the other parts do
\* it shows nothing.
LEMMA TalkBehaves == Spec => Talk!Spec
<1>1. Init => Talk!Init
  BY DEF Init
<1>2. [Next]_partsVars => [Talk!Next]_(Talk!chatVars)
  <2>1. TalkStep => Talk!Next
    BY DEF TalkStep
  <2>2. TabsStep \/ SavedStep \/ BoundStep \/ SownStep \/ FilesStep
        \/ DrawnStep \/ FoundStep \/ ChosenStep
        \/ ListedStep \/ SignedStep \/ UNCHANGED partsVars => UNCHANGED Talk!chatVars
    BY DEF TabsStep, SavedStep, BoundStep, SownStep,
           FilesStep, DrawnStep, FoundStep, ChosenStep,
           ListedStep, SignedStep, partsVars, talkVars, Talk!chatVars
  <2> QED BY <2>1, <2>2 DEF Next
<1> QED BY <1>1, <1>2, PTL DEF Spec, Talk!Spec

LEMMA TalkHolds == Spec => []TalkInv
<1>1. Talk!ChatConstants
  BY PartsAssumption
<1>2. Talk!Init => TalkInv
  BY <1>1, TalkInitEstablishes
<1>3. TalkInv /\ [Talk!Next]_(Talk!chatVars) => TalkInv'
  BY <1>1, TalkInductive
<1> QED BY <1>2, <1>3, TalkBehaves, PTL DEF Talk!Spec

\* For any number of questions: as long as none is asked beside a pending one,
\* and no answer comes that was asked for in an imported copy (overlapped), every
\* answer stands under its question, a failed question is gone, and the pending
\* one is last, whatever tabs are left while the answers are awaited.
THEOREM ChatKeepsPlace == Spec => []QuestionsKeepTheirPlace
<1>1. TalkInv => QuestionsKeepTheirPlace
  <2> SUFFICES ASSUME TalkInv, ~overlapped, NEW q \in Talk!Questions
               PROVE  LET at == {i \in DOMAIN thread : thread[i] = Talk!User(q)} IN
                      CASE reply[q] \in {"unasked", "failed", "away", "stray"} -> at = {}
                        [] reply[q] = "pending" -> at = {Len(thread)}
                        [] reply[q] = "answered" ->
                              \E i \in at : at = {i} /\ i < Len(thread) /\ thread[i + 1] = Talk!Assistant(q)
                        [] reply[q] = "dropped" ->
                              \E i \in at : at = {i} /\ (i < Len(thread) => thread[i + 1].role = "user")
    BY DEF QuestionsKeepTheirPlace, Talk!QuestionsKeepTheirPlace
  <2>1. Placed(q) /\ reply[q] \in Replies
    BY DEF TalkInv, TalkTyped
  <2> QED BY <2>1 DEF Placed, At, Replies
<1> QED BY <1>1, TalkHolds, PTL

---------------------------------------------------------------------------
(* The types of a conversation.  A question is sent once and answered once,*)
(* so no message stands twice, which bounds the thread.                    *)

Sent(r, n, m) == IF m.role = "user" THEN m.of <= n ELSE r[m.of] \in {"answered", "stray"}

NoneTwice ==
    /\ \A i, j \in DOMAIN thread : thread[i] = thread[j] => i = j
    /\ \A i \in DOMAIN thread : Sent(reply, asked, thread[i])

\* A number of its own for each message.
NumberOf(m) == IF m.role = "user" THEN 2 * m.of - 1 ELSE 2 * m.of

LEMMA ThreadIsShort ==
    ASSUME Talk!ChatConstants, TalkTyped, NoneTwice
    PROVE  Len(thread) \in 0 .. 2 * MaxAsks
<1>1. MaxAsks \in Nat /\ DOMAIN thread = 1 .. Len(thread) /\ \A i \in DOMAIN thread : thread[i] \in Message
  BY DEF Talk!ChatConstants, TalkTyped
<1>2. PICK n \in Nat : n = Len(thread)
  BY DEF TalkTyped
<1>3. \A m \in Message : NumberOf(m) \in 1 .. 2 * MaxAsks
  BY <1>1 DEF Message, NumberOf, Talk!Questions
<1>4. \A l, m \in Message : NumberOf(l) = NumberOf(m) => l.role = m.role /\ l.of = m.of
  BY <1>1 DEF Message, NumberOf, Talk!Questions
<1>5. \A l, m \in Message : l.role = m.role /\ l.of = m.of => l = m
  BY DEF Message
<1> DEFINE f == [i \in 1 .. n |-> NumberOf(thread[i])]
<1>6. f \in [1 .. n -> 1 .. 2 * MaxAsks]
  BY <1>1, <1>2, <1>3
<1>7. IsInjective(f)
  BY <1>1, <1>2, <1>4, <1>5 DEF IsInjective, NoneTwice
<1>8. f \in Injection(1 .. n, 1 .. 2 * MaxAsks)
  BY <1>6, <1>7 DEF Injection
<1>9. 2 * MaxAsks \in Int /\ n \in Int /\ 2 * MaxAsks >= 0
  BY <1>1
<1>10. IsFiniteSet(1 .. 2 * MaxAsks) /\ Cardinality(1 .. 2 * MaxAsks) = 2 * MaxAsks
  BY <1>9, FS_Interval
<1>11. Cardinality(1 .. n) = n
  BY <1>9, FS_Interval
<1>12. Cardinality(1 .. n) <= Cardinality(1 .. 2 * MaxAsks)
  BY <1>8, <1>10, FS_Injection
<1> QED BY <1>2, <1>9, <1>10, <1>11, <1>12

LEMMA TalkTypesSuffice ==
    ASSUME Talk!ChatConstants, TalkTyped, NoneTwice
    PROVE  Talk!TypeOK
<1>1. Len(thread) \in 0 .. 2 * MaxAsks /\ MaxAsks \in Nat
  BY ThreadIsShort DEF Talk!ChatConstants
<1>2. Len(<<Talk!User(0), Talk!Assistant(0)>>) = 2
  OBVIOUS
<1>3. Len(Talk!Messages) = 2 \/ Len(Talk!Messages) = Len(thread)
  BY <1>2 DEF Talk!Messages
<1>4. Len(Talk!Messages) \in 0 .. 2 * MaxAsks + 2
  <2>1. PICK n \in Int : n = Len(Talk!Messages)
    BY <1>1, <1>3
  <2>2. n = 2 \/ n \in 0 .. 2 * MaxAsks
    BY <1>1, <1>3, <2>1
  <2>3. MaxAsks \in Nat
    BY <1>1
  <2>4. n \in 0 .. 2 * MaxAsks + 2
    BY <2>2, <2>3
  <2> QED BY <2>1, <2>4
<1> QED BY <1>4 DEF TalkTyped, Replies, Message, Talk!TypeOK

\* A message that is new goes under the thread.
LEMMA NewMessageTwiceNever ==
    ASSUME TalkTyped, NEW m \in Message, thread' = Append(thread, m),
           \A i \in DOMAIN thread : thread[i] # m,
           Sent(reply', asked', m), \A i \in DOMAIN thread : Sent(reply', asked', thread[i]),
           \A i, j \in DOMAIN thread : thread[i] = thread[j] => i = j
    PROVE  NoneTwice'
<1>1. /\ DOMAIN thread' = DOMAIN thread \cup {Len(thread) + 1}
      /\ \A i \in DOMAIN thread : thread'[i] = thread[i]
      /\ thread'[Len(thread) + 1] = m
  BY AppendFacts DEF TalkTyped
<1>2. \A i \in DOMAIN thread' : Sent(reply', asked', thread'[i])
  BY <1>1
<1> QED BY <1>1, <1>2 DEF NoneTwice

LEMMA AskOnce ==
    ASSUME Talk!ChatConstants, TalkTyped, NoneTwice, Talk!Ask
    PROVE  NoneTwice'
<1> DEFINE q == asked + 1
<1>1. q \in Talk!Questions /\ asked \in Nat /\ reply[q] = "unasked"
  BY DEF TalkTyped, Talk!Ask, Talk!Questions, Talk!ChatConstants
<1>2. thread' = Append(thread, Talk!User(q)) /\ asked' = q /\ reply' = [reply EXCEPT ![q] = "pending"]
  BY DEF Talk!Ask
<1>3. Talk!User(q) \in Message /\ Talk!User(q).of = q /\ Talk!User(q).role = "user"
  BY <1>1 DEF Message, Talk!User
<1>4. \A i \in DOMAIN thread : thread[i] \in Message /\ Sent(reply, asked, thread[i])
  BY DEF TalkTyped, NoneTwice
<1>5. \A i \in DOMAIN thread : Sent(reply', asked', thread[i]) /\ thread[i] # Talk!User(q)
  <2> SUFFICES \A m \in Message : Sent(reply, asked, m) => Sent(reply', asked', m) /\ m # Talk!User(q)
    BY <1>4
  <2> TAKE m \in Message
  <2> HAVE Sent(reply, asked, m)
  <2>1. m.of \in Talk!Questions /\ m.of \in Nat
    BY DEF Message, Talk!Questions
  <2>2. reply[m.of] \in {"answered", "stray"} => reply'[m.of] = reply[m.of]
    BY <1>1, <1>2, <2>1 DEF TalkTyped
  <2>3. m.of <= asked => m.of <= asked'
    BY <1>1, <1>2, <2>1
  <2>4. m.of <= asked => m.of # q
    BY <1>1, <2>1
  <2> QED BY <1>3, <2>2, <2>3, <2>4 DEF Sent
<1>6. Sent(reply', asked', Talk!User(q))
  BY <1>1, <1>2, <1>3 DEF Sent
<1> QED BY <1>2, <1>3, <1>5, <1>6, NewMessageTwiceNever DEF NoneTwice

LEMMA AnswerOnce ==
    ASSUME Talk!ChatConstants, TalkTyped, NoneTwice, NEW q \in Talk!Questions, Talk!Answer(q)
    PROVE  NoneTwice'
<1>1. /\ reply[q] \in {"pending", "away"} /\ asked' = asked
      /\ \A p \in Talk!Questions \ {q} : reply'[p] = reply[p]
      /\ thread' = IF Talk!Reachable THEN Append(thread, Talk!Assistant(q)) ELSE thread
  BY OverFacts DEF Talk!Answer
<1>2. Talk!Assistant(q) \in Message /\ Talk!Assistant(q).of = q /\ Talk!Assistant(q).role = "assistant"
  BY DEF Message, Talk!Assistant
<1>3. \A i \in DOMAIN thread : Sent(reply', asked', thread[i]) /\ thread[i] # Talk!Assistant(q)
  <2> SUFFICES \A m \in Message : Sent(reply, asked, m) => Sent(reply', asked', m) /\ m # Talk!Assistant(q)
    BY DEF TalkTyped, NoneTwice
  <2> TAKE m \in Message
  <2> HAVE Sent(reply, asked, m)
  <2>1. m.of \in Talk!Questions
    BY DEF Message
  <2> QED BY <1>1, <1>2, <2>1 DEF TalkTyped, Sent
<1>4. CASE Talk!Reachable
  <2>1. Sent(reply', asked', Talk!Assistant(q))
    BY <1>2, <1>4, OverFacts DEF Sent, Talk!Answer
  <2> QED BY <1>1, <1>2, <1>3, <1>4, <2>1, NewMessageTwiceNever DEF NoneTwice
<1>5. CASE ~Talk!Reachable
  BY <1>1, <1>3, <1>5 DEF NoneTwice
<1> QED BY <1>4, <1>5

LEMMA AskInCopyOnce ==
    ASSUME Talk!ChatConstants, TalkTyped, NoneTwice, Talk!AskInCopy
    PROVE  NoneTwice'
<1>1. /\ asked + 1 \in Talk!Questions /\ asked \in Nat /\ reply[asked + 1] = "unasked"
      /\ thread' = thread /\ asked' = asked + 1 /\ reply' = [reply EXCEPT ![asked + 1] = "away"]
  BY DEF TalkTyped, Talk!AskInCopy, Talk!Questions, Talk!ChatConstants
<1>2. \A m \in Message : Sent(reply, asked, m) => Sent(reply', asked', m)
  <2> TAKE m \in Message
  <2> HAVE Sent(reply, asked, m)
  <2>1. m.of \in Talk!Questions /\ m.of \in Nat
    BY DEF Message, Talk!Questions
  <2>2. reply[m.of] \in {"answered", "stray"} => reply'[m.of] = reply[m.of]
    BY <1>1, <2>1 DEF TalkTyped
  <2>3. m.of <= asked => m.of <= asked'
    BY <1>1, <2>1
  <2> QED BY <2>2, <2>3 DEF Sent
<1>3. \A i \in DOMAIN thread : thread[i] \in Message
  BY DEF TalkTyped
<1> QED BY <1>1, <1>2, <1>3 DEF NoneTwice

LEMMA RefuseOnce ==
    ASSUME Talk!ChatConstants, TalkTyped, NoneTwice, NEW q \in Talk!Questions, Talk!Refuse(q)
    PROVE  NoneTwice'
<1>1. /\ reply[q] \in {"pending", "away"} /\ asked' = asked
      /\ \A p \in Talk!Questions \ {q} : reply'[p] = reply[p]
      /\ thread' = IF Talk!Reachable THEN Talk!WithoutLast ELSE thread
  BY OverFacts DEF Talk!Refuse
<1>2. \A i \in DOMAIN thread : Sent(reply', asked', thread[i])
  <2> SUFFICES \A m \in Message : Sent(reply, asked, m) => Sent(reply', asked', m)
    BY DEF TalkTyped, NoneTwice
  <2> TAKE m \in Message
  <2> HAVE Sent(reply, asked, m)
  <2>1. m.of \in Talk!Questions
    BY DEF Message
  <2> QED BY <1>1, <2>1 DEF TalkTyped, Sent
<1>3. DOMAIN thread' \subseteq DOMAIN thread /\ \A i \in DOMAIN thread' : thread'[i] = thread[i]
  <2>1. CASE Talk!Reachable /\ thread # <<>>
    BY <1>1, <2>1, FrontFacts DEF TalkTyped, Talk!WithoutLast
  <2>2. CASE ~Talk!Reachable \/ thread = <<>>
    BY <1>1, <2>2 DEF Talk!WithoutLast
  <2> QED BY <2>1, <2>2
<1> QED BY <1>2, <1>3 DEF NoneTwice

LEMMA TalkOnce == Spec => [](Talk!ChatConstants /\ TalkTyped /\ NoneTwice)
<1>1. Talk!ChatConstants
  BY PartsAssumption
<1>2. Talk!Init => NoneTwice
  BY DEF Talk!Init, NoneTwice
<1>3. TalkInv /\ NoneTwice /\ [Talk!Next]_Talk!chatVars => NoneTwice'
  <2> SUFFICES ASSUME TalkInv, NoneTwice, [Talk!Next]_Talk!chatVars PROVE NoneTwice'
    OBVIOUS
  <2>1. CASE (\E to \in {"own", "copy", "other"} : Talk!SwitchTab(to)) \/ Talk!Unmount \/ UNCHANGED Talk!chatVars
    <3>1. UNCHANGED <<thread, reply, asked>>
      BY <2>1 DEF Talk!SwitchTab, Talk!Unmount, Talk!chatVars
    <3> QED BY <3>1 DEF NoneTwice, Sent
  <2> QED BY <1>1, <2>1, AskOnce, AskInCopyOnce, AnswerOnce, RefuseOnce DEF Talk!Next, TalkInv
<1>4. Spec => []TalkInv
  BY TalkHolds
<1>5. Talk!Spec /\ []TalkInv => []NoneTwice
  BY <1>2, <1>3, PTL DEF Talk!Spec
<1>6. Spec => [](TalkInv /\ NoneTwice)
  BY <1>4, <1>5, TalkBehaves, PTL
<1>7. TalkInv /\ NoneTwice => Talk!ChatConstants /\ TalkTyped /\ NoneTwice
  BY <1>1 DEF TalkInv
<1> QED BY <1>6, <1>7, PTL

---------------------------------------------------------------------------
(* The knowledge notebook of a SQL notebook.                               *)

Creation ==
    [pc : {"unasked", "asked", "made", "orphan", "over"}, by : Books \cup {Nobody}, called : Bound!Names \cup {Nobody},
     id : Knowledges \cup {Nobody}, binds : Books \cup {Nobody}]

BoundTyped ==
    /\ front \in Books
    /\ title \in [Books -> Titles] /\ had \in [Books -> SUBSET Titles]
    /\ name \in [Knowledges -> Bound!Names \cup {Nobody}]
    /\ listing = Nobody \/ listing \subseteq Bound!OnDisk
    /\ snapshot \subseteq Bound!OnDisk
    /\ bound \in [Books -> Bound!OnDisk \cup {Nobody}]
    /\ making \in [Bound!Creates -> Creation]

TitlesAreKept == \A n \in Books : title[n] \in had[n]

\* A create goes under a title that the notebook that asked has had.
GoesUnder(i) ==
    making[i].by \in Books /\ \E t \in had[making[i].by] : making[i].called = Bound!Called(t)

HasMade(i) == making[i].id \in Bound!OnDisk /\ name[making[i].id] = making[i].called

CreatesGoOn ==
    \A i \in Bound!Creates :
        /\ making[i].pc \in {"asked", "made", "orphan"} => GoesUnder(i)
        /\ making[i].pc = "made" => HasMade(i)

\* k is named as the knowledge of n is, or was under an earlier title.
OwnName(n, k) == \E t \in had[n] : name[k] \in Bound!FoundAs(t) \cup {Bound!Called(t)}

OwnOrMisled(n, k) == <<n, k>> \in misled \/ OwnName(n, k)

IsBoundToOwn(n) == bound[n] # Nobody => OwnOrMisled(n, bound[n])

BoundToOwn == \A n \in Books : IsBoundToOwn(n)

BoundInv == BoundTyped /\ TitlesAreKept /\ CreatesGoOn /\ BoundToOwn

LEMMA BoundInitEstablishes ==
    ASSUME Bound!BindingConstants, Bound!Init PROVE BoundInv
<1>1. BoundTyped
  <2>1. /\ name \in [Knowledges -> Bound!Names \cup {Nobody}]
        /\ bound \in [Books -> Bound!OnDisk \cup {Nobody}]
    BY DEF Bound!Init
  <2>2. had \in [Books -> SUBSET Titles]
    BY DEF Bound!Init
  <2>3. making \in [Bound!Creates -> Creation]
    BY DEF Bound!Init, Bound!NoCreate, Creation
  <2> QED BY <2>1, <2>2, <2>3 DEF Bound!Init, BoundTyped
<1>2. TitlesAreKept
  BY DEF Bound!Init, TitlesAreKept
<1>3. CreatesGoOn
  BY DEF Bound!Init, Bound!NoCreate, CreatesGoOn
<1>4. BoundToOwn
  BY DEF Bound!Init, BoundToOwn, IsBoundToOwn
<1> QED BY <1>1, <1>2, <1>3, <1>4 DEF BoundInv

\* Titles are only added to what a notebook has had, and names stay.
LEMMA NamesStay ==
    ASSUME NEW n \in Books, NEW k, had[n] \subseteq had'[n], name'[k] = name[k], misled \subseteq misled',
           OwnOrMisled(n, k)
    PROVE  OwnOrMisled(n, k)'
BY DEF OwnOrMisled, OwnName

\* What a render makes of the bindings b: those of other notebooks are left as
\* they are, that of n is kept, found by its title or cleared.
LEMMA RenderedIs ==
    ASSUME NEW n \in Books, NEW t \in Titles, NEW list, list = Nobody \/ list \subseteq Bound!OnDisk,
           NEW b \in [Books -> Bound!OnDisk \cup {Nobody}], Bound!Rendered(n, t, b, list)
    PROVE  /\ bound' \in [Books -> Bound!OnDisk \cup {Nobody}]
           /\ \A m \in Books : m # n => bound'[m] = b[m]
           /\ \/ Bound!KeepsBinding(b[n], list) /\ bound'[n] = b[n]
              \/ bound'[n] = Nobody
              \/ bound'[n] \in Bound!OnDisk /\ name[bound'[n]] \in Bound!FoundAs(t)
<1>1. CASE Bound!KeepsBinding(b[n], list) /\ bound' = b
  BY <1>1
<1>2. CASE bound' = [b EXCEPT ![n] = Nobody]
  BY <1>2
<1>3. CASE \E k \in Bound!SameName(t, list) : bound' = [b EXCEPT ![n] = k]
  <2>1. PICK k \in Bound!SameName(t, list) : bound' = [b EXCEPT ![n] = k]
    BY <1>3
  <2>2. k \in Bound!OnDisk /\ name[k] \in Bound!FoundAs(t)
    BY DEF Bound!SameName
  <2> QED BY <2>1, <2>2
<1> QED BY <1>1, <1>2, <1>3 DEF Bound!Rendered

\* A render that follows a step which leaves the names alone.
LEMMA RenderKeeps ==
    ASSUME BoundInv, NEW n \in Books, NEW t \in Titles, NEW list, list = Nobody \/ list \subseteq Bound!OnDisk,
           Bound!Rendered(n, t, bound, list), UNCHANGED <<name, misled>>, t \in had'[n],
           \A m \in Books : had[m] \subseteq had'[m]
    PROVE  /\ bound' \in [Books -> (Bound!OnDisk \cup {Nobody})']
           /\ BoundToOwn' /\ Bound!OnDisk' = Bound!OnDisk
<1>1. Bound!OnDisk' = Bound!OnDisk
  BY DEF Bound!OnDisk
<1>2. bound \in [Books -> Bound!OnDisk \cup {Nobody}]
  BY DEF BoundInv, BoundTyped
<1>3. /\ bound' \in [Books -> Bound!OnDisk \cup {Nobody}]
      /\ \A m \in Books : \/ bound'[m] \in {bound[m], Nobody}
                          \/ m = n /\ name[bound'[m]] \in Bound!FoundAs(t)
  BY <1>2, RenderedIs
<1>4. BoundToOwn'
  <2> SUFFICES ASSUME NEW m \in Books, bound'[m] # Nobody PROVE IsBoundToOwn(m)'
    BY DEF BoundToOwn, IsBoundToOwn
  <2>1. CASE bound'[m] = bound[m]
    <3>1. OwnOrMisled(m, bound[m])
      BY <2>1 DEF BoundInv, BoundToOwn, IsBoundToOwn
    <3> QED BY <2>1, <3>1 DEF IsBoundToOwn, OwnOrMisled, OwnName
  <2>2. CASE m = n /\ name[bound'[m]] \in Bound!FoundAs(t)
    BY <2>2 DEF IsBoundToOwn, OwnOrMisled, OwnName
  <2> QED BY <1>3, <2>1, <2>2
<1> QED BY <1>1, <1>3, <1>4

LEMMA TurnKeeps ==
    ASSUME Bound!BindingConstants, BoundInv, NEW n \in Books, Bound!Turn(n)
    PROVE  BoundInv'
<1>1. UNCHANGED <<title, had, name, listing, snapshot, making, misled>> /\ front' = n
  BY DEF Bound!Turn, Bound!Named, Bound!ListState
<1>2. /\ title[n] \in Titles /\ title[n] \in had'[n] /\ Bound!Rendered(n, title[n], bound, listing)
      /\ listing = Nobody \/ listing \subseteq Bound!OnDisk
      /\ \A m \in Books : had[m] \subseteq had'[m]
  BY <1>1 DEF Bound!Turn, BoundInv, BoundTyped, TitlesAreKept
<1>3. /\ bound' \in [Books -> (Bound!OnDisk \cup {Nobody})']
      /\ BoundToOwn' /\ Bound!OnDisk' = Bound!OnDisk
  BY <1>1, <1>2, RenderKeeps
<1>4. BoundTyped' /\ TitlesAreKept'
  BY <1>1, <1>3 DEF BoundInv, BoundTyped, TitlesAreKept
<1>5. CreatesGoOn'
  BY <1>1, <1>3 DEF BoundInv, CreatesGoOn, GoesUnder, HasMade
<1> QED BY <1>3, <1>4, <1>5 DEF BoundInv

\* A new title is one more that the notebook has had.
LEMMA RenameKeeps ==
    ASSUME Bound!BindingConstants, BoundInv, NEW t \in Titles, Bound!Rename(t)
    PROVE  BoundInv'
<1>1. /\ UNCHANGED <<front, name, listing, snapshot, making, misled>>
      /\ title' = [title EXCEPT ![front] = t] /\ had' = [had EXCEPT ![front] = @ \cup {t}]
      /\ Bound!Rendered(front, t, bound, listing)
  BY DEF Bound!Rename, Bound!ListState
<1>2. /\ front \in Books /\ title' \in [Books -> Titles] /\ had' \in [Books -> SUBSET Titles]
      /\ t \in had'[front] /\ \A m \in Books : had[m] \subseteq had'[m] /\ title'[m] \in had'[m]
      /\ listing = Nobody \/ listing \subseteq Bound!OnDisk
  BY <1>1 DEF BoundInv, BoundTyped, TitlesAreKept
<1>3. /\ bound' \in [Books -> (Bound!OnDisk \cup {Nobody})']
      /\ BoundToOwn' /\ Bound!OnDisk' = Bound!OnDisk
  BY <1>1, <1>2, RenderKeeps
<1>4. BoundTyped' /\ TitlesAreKept'
  BY <1>1, <1>2, <1>3 DEF BoundInv, BoundTyped, TitlesAreKept
<1>5. CreatesGoOn'
  <2>1. \A i \in Bound!Creates : GoesUnder(i) => GoesUnder(i)'
    BY <1>1, <1>2 DEF GoesUnder
  <2>2. \A i \in Bound!Creates : HasMade(i) => HasMade(i)'
    BY <1>1, <1>3 DEF HasMade
  <2> QED BY <1>1, <2>1, <2>2 DEF BoundInv, CreatesGoOn
<1> QED BY <1>3, <1>4, <1>5 DEF BoundInv

\* A create that its hook leaves is the same but for the notebook it will bind.
LEMMA LeftIs ==
    ASSUME BoundTyped, NEW i \in Bound!Creates
    PROVE  /\ Bound!Left(i) \in Creation
           /\ Bound!Left(i).pc = making[i].pc /\ Bound!Left(i).by = making[i].by
           /\ Bound!Left(i).called = making[i].called /\ Bound!Left(i).id = making[i].id
<1>1. making[i] \in Creation /\ front \in Books
  BY DEF BoundTyped
<1>2. /\ [making[i] EXCEPT !.binds = front] \in Creation
      /\ [making[i] EXCEPT !.binds = front].pc = making[i].pc
      /\ [making[i] EXCEPT !.binds = front].by = making[i].by
      /\ [making[i] EXCEPT !.binds = front].called = making[i].called
      /\ [making[i] EXCEPT !.binds = front].id = making[i].id
  BY <1>1 DEF Creation
<1> QED BY <1>1, <1>2 DEF Bound!Left

\* A step that touches the creates only, each of which stays as it is, or ends,
\* or becomes an orphan, or is left.
LEMMA CreatesKeep ==
    ASSUME BoundInv, UNCHANGED <<front, title, had, name, listing, snapshot, bound, misled>>,
           making' \in [Bound!Creates -> Creation],
           \A i \in Bound!Creates :
              \/ making'[i].pc = "over"
              \/ making'[i].pc = "orphan" /\ making[i].pc = "asked" /\ making'[i].by = making[i].by
                                          /\ making'[i].called = making[i].called
              \/ /\ making'[i].pc = making[i].pc /\ making'[i].by = making[i].by
                 /\ making'[i].called = making[i].called /\ making'[i].id = making[i].id
    PROVE  BoundInv'
<1>1. Bound!OnDisk' = Bound!OnDisk
  BY DEF Bound!OnDisk
<1>2. BoundTyped' /\ TitlesAreKept' /\ BoundToOwn'
  BY <1>1 DEF BoundInv, BoundTyped, TitlesAreKept, BoundToOwn, IsBoundToOwn, OwnOrMisled, OwnName
<1>3. CreatesGoOn'
  BY <1>1 DEF BoundInv, CreatesGoOn, GoesUnder, HasMade
<1> QED BY <1>2, <1>3 DEF BoundInv

LEMMA RemountKeeps ==
    ASSUME Bound!BindingConstants, BoundInv, Bound!Remount
    PROVE  BoundInv'
<1>1. BoundTyped /\ making' = [i \in Bound!Creates |-> Bound!Left(i)]
  BY DEF Bound!Remount, BoundInv
<1>2. making' \in [Bound!Creates -> Creation]
  BY <1>1, LeftIs
<1> QED BY <1>1, <1>2, LeftIs, CreatesKeep DEF Bound!Remount, Bound!Named, Bound!ListState

LEMMA FailsKeeps ==
    ASSUME Bound!BindingConstants, BoundInv, NEW i \in Bound!Creates, Bound!MakeFails(i)
    PROVE  BoundInv'
<1>1. making \in [Bound!Creates -> Creation] /\ making[i] \in Creation
  BY DEF BoundInv, BoundTyped
<1>2. UNCHANGED <<front, title, had, name, listing, snapshot, bound, misled>>
  BY DEF Bound!MakeFails, Bound!Named, Bound!ListState
<1>3. CASE Bound!Ended(i)
  <2>1. [Bound!NoCreate EXCEPT !.pc = "over"] \in Creation /\ [Bound!NoCreate EXCEPT !.pc = "over"].pc = "over"
    BY DEF Bound!NoCreate, Creation
  <2>2. making' = [making EXCEPT ![i] = [Bound!NoCreate EXCEPT !.pc = "over"]]
    BY <1>3 DEF Bound!Ended
  <2> HIDE DEF Creation
  <2>3. /\ making' \in [Bound!Creates -> Creation] /\ making'[i].pc = "over"
        /\ \A j \in Bound!Creates : j # i => making'[j] = making[j]
    BY <1>1, <2>1, <2>2
  <2> QED BY <1>2, <2>3, CreatesKeep
<1>4. CASE making[i].pc = "asked" /\ making' = [making EXCEPT ![i].pc = "orphan"]
  <2>1. making' \in [Bound!Creates -> Creation]
    BY <1>1, <1>4 DEF Creation
  <2>2. /\ making'[i].pc = "orphan" /\ making'[i].by = making[i].by /\ making'[i].called = making[i].called
        /\ \A j \in Bound!Creates : j # i => making'[j] = making[j]
    BY <1>1, <1>4 DEF Creation
  <2> QED BY <1>2, <1>4, <2>1, <2>2, CreatesKeep
<1> QED BY <1>3, <1>4 DEF Bound!MakeFails

LEMMA EnsureKeeps ==
    ASSUME Bound!BindingConstants, BoundInv, Bound!Ensure
    PROVE  BoundInv'
<1>1. BoundTyped /\ Bound!OnDisk' = Bound!OnDisk
  BY DEF Bound!Ensure, Bound!OnDisk, BoundInv
<1>3. ASSUME NEW i \in Bound!Creates,
             making' = [j \in Bound!Creates |->
                    IF j = i THEN [pc |-> "asked", by |-> front, called |-> Bound!Called(title[front]),
                                   id |-> Nobody, binds |-> Nobody]
                    ELSE Bound!Left(j)],
             UNCHANGED <<front, Bound!Named, name, Bound!ListState, bound, misled>>
      PROVE  BoundInv'
  <2> DEFINE c == [pc |-> "asked", by |-> front, called |-> Bound!Called(title[front]), id |-> Nobody, binds |-> Nobody]
  <2>1. UNCHANGED <<front, title, had, name, listing, snapshot, bound, misled>>
    BY <1>3 DEF Bound!Named, Bound!ListState
  <2>2. front \in Books /\ title[front] \in Titles /\ title[front] \in had[front]
    BY <1>1 DEF BoundInv, BoundTyped, TitlesAreKept
  <2>3. c \in Creation
    <3>1. Bound!Called(title[front]) \in Bound!Names
      BY <2>2 DEF Bound!Names
    <3> QED BY <2>2, <3>1 DEF Creation
  <2>4. /\ making'[i] = c /\ making' \in [Bound!Creates -> Creation]
        /\ \A j \in Bound!Creates : j # i => making'[j] = Bound!Left(j)
    BY <1>1, <1>3, <2>3, LeftIs
  <2>5. BoundTyped' /\ TitlesAreKept' /\ BoundToOwn'
    BY <1>1, <2>1, <2>4 DEF BoundInv, BoundTyped, TitlesAreKept, BoundToOwn, IsBoundToOwn, OwnOrMisled, OwnName
  <2>6. ASSUME NEW j \in Bound!Creates
        PROVE  /\ making'[j].pc \in {"asked", "made", "orphan"} => GoesUnder(j)'
               /\ making'[j].pc = "made" => HasMade(j)'
    <3>1. CASE j = i
      <4>1. making'[j].pc = "asked" /\ making'[j].by = front /\ making'[j].called = Bound!Called(title[front])
        BY <2>4, <3>1
      <4> QED BY <2>1, <2>2, <4>1 DEF GoesUnder
    <3>2. CASE j # i
      <4>1. /\ making'[j].pc = making[j].pc /\ making'[j].by = making[j].by
            /\ making'[j].called = making[j].called /\ making'[j].id = making[j].id
        BY <1>1, <2>4, <3>2, LeftIs
      <4> QED BY <1>1, <2>1, <4>1 DEF BoundInv, CreatesGoOn, GoesUnder, HasMade
    <3> QED BY <3>1, <3>2
  <2> QED BY <2>5, <2>6 DEF BoundInv, CreatesGoOn
<1> QED BY <1>3 DEF Bound!Ensure

\* A new id is that of no binding.
LEMMA MakeKeeps ==
    ASSUME Bound!BindingConstants, BoundInv, NEW i \in Bound!Creates, Bound!MakeOnServer(i)
    PROVE  BoundInv'
<1> DEFINE k == Bound!NewId
<1>1. k \in Knowledges \ Bound!OnDisk
  <2>1. Knowledges \ Bound!OnDisk # {}
    BY DEF Bound!MakeOnServer, Bound!OnDisk
  <2> QED BY <2>1 DEF Bound!NewId
<1>2. /\ making \in [Bound!Creates -> Creation] /\ making[i] \in Creation
      /\ name' = [name EXCEPT ![k] = making[i].called]
      /\ making[i].pc \in {"asked", "orphan"}
      /\ \/ making[i].pc = "orphan" /\ Bound!Ended(i)
         \/ making[i].pc = "asked" /\ making' = [making EXCEPT ![i].pc = "made", ![i].id = k]
      /\ UNCHANGED <<front, title, had, listing, snapshot, bound, misled>>
  BY DEF Bound!MakeOnServer, Bound!Named, Bound!ListState, BoundInv, BoundTyped
<1> HIDE DEF k
<1>3. /\ making[i].called \in Bound!Names
      /\ name' \in [Knowledges -> Bound!Names \cup {Nobody}] /\ name'[k] = making[i].called
      /\ \A l \in Knowledges : l # k => name'[l] = name[l]
  <2>1. GoesUnder(i) /\ \A t \in Titles : Bound!Called(t) \in Bound!Names
    BY <1>2 DEF BoundInv, CreatesGoOn, Bound!Names
  <2>2. making[i].called \in Bound!Names
    BY <2>1 DEF BoundInv, BoundTyped, GoesUnder
  <2> QED BY <1>1, <1>2, <2>2 DEF BoundInv, BoundTyped
<1>4. Bound!OnDisk' = Bound!OnDisk \cup {k} /\ \A l \in Bound!OnDisk : name'[l] = name[l]
  <2>1. Nobody \notin Bound!Names
    BY DEF Bound!BindingConstants
  <2> QED BY <1>1, <1>3, <2>1 DEF Bound!OnDisk
<1>5. /\ making' \in [Bound!Creates -> Creation]
      /\ \A j \in Bound!Creates : j # i => making'[j] = making[j]
      /\ \/ making'[i].pc = "over"
         \/ /\ making[i].pc = "asked" /\ making'[i].pc = "made" /\ making'[i].id = k
            /\ making'[i].by = making[i].by /\ making'[i].called = making[i].called
  <2>1. CASE Bound!Ended(i)
    <3>1. [Bound!NoCreate EXCEPT !.pc = "over"] \in Creation /\ [Bound!NoCreate EXCEPT !.pc = "over"].pc = "over"
      BY DEF Bound!NoCreate, Creation
    <3>2. making' = [making EXCEPT ![i] = [Bound!NoCreate EXCEPT !.pc = "over"]]
      BY <2>1 DEF Bound!Ended
    <3> QED BY <1>2, <3>1, <3>2
  <2>2. CASE making[i].pc = "asked" /\ making' = [making EXCEPT ![i].pc = "made", ![i].id = k]
    <3> DEFINE c == [making[i] EXCEPT !.pc = "made", !.id = k]
    <3>1. /\ c \in Creation /\ c.pc = "made" /\ c.id = k /\ c.by = making[i].by /\ c.called = making[i].called
      BY <1>1, <1>2 DEF Creation
    <3>2. making' = [making EXCEPT ![i] = c]
      BY <1>2, <2>2 DEF Creation
    <3> QED BY <1>2, <2>2, <3>1, <3>2
  <2> QED BY <1>2, <2>1, <2>2
<1>6. BoundTyped' /\ TitlesAreKept'
  BY <1>2, <1>3, <1>4, <1>5 DEF BoundInv, BoundTyped, TitlesAreKept
<1>7. ASSUME NEW j \in Bound!Creates
      PROVE  /\ making'[j].pc \in {"asked", "made", "orphan"} => GoesUnder(j)'
             /\ making'[j].pc = "made" => HasMade(j)'
  <2>1. CASE j # i
    BY <1>2, <1>4, <1>5, <2>1 DEF BoundInv, CreatesGoOn, GoesUnder, HasMade
  <2>2. CASE j = i
    BY <1>2, <1>3, <1>4, <1>5, <2>2 DEF BoundInv, CreatesGoOn, GoesUnder, HasMade
  <2> QED BY <2>1, <2>2
<1>8. BoundToOwn'
  <2>1. \A m \in Books : bound[m] \in Bound!OnDisk \cup {Nobody}
    BY DEF BoundInv, BoundTyped
  <2> QED BY <1>2, <1>4, <2>1 DEF BoundInv, BoundToOwn, IsBoundToOwn, OwnOrMisled, OwnName
<1> QED BY <1>6, <1>7, <1>8 DEF BoundInv, CreatesGoOn

\* A notebook is bound to the new id where it asked for it, has been misled, or
\* is the one shown, whose binding is cleared at once.
LEMMA MadeKeeps ==
    ASSUME Bound!BindingConstants, BoundInv, NEW i \in Bound!Creates, Bound!Made(i)
    PROVE  BoundInv'
<1> PICK k : k = making[i].id
  OBVIOUS
<1> PICK by : by = making[i].by
  OBVIOUS
<1> PICK n : n = IF making[i].binds = Nobody THEN front ELSE making[i].binds
  OBVIOUS
<1> DEFINE b == [bound EXCEPT ![n] = k]
<1>1. /\ making[i].pc = "made" /\ Bound!Ended(i)
      /\ Bound!Rendered(front, title[front], b, listing)
      /\ misled \subseteq misled'
      /\ n # by /\ ~(n = front /\ listing # Nobody /\ k \notin listing) => <<n, k>> \in misled'
      /\ snapshot' = {} /\ UNCHANGED <<front, title, had, name, listing>>
  BY DEF Bound!Made, Bound!Named
<1>2. /\ front \in Books /\ n \in Books /\ title[front] \in Titles /\ title[front] \in had[front]
      /\ listing = Nobody \/ listing \subseteq Bound!OnDisk
      /\ by \in Books /\ k \in Bound!OnDisk /\ k # Nobody
      /\ \E t \in had[by] : name[k] = Bound!Called(t)
      /\ bound \in [Books -> Bound!OnDisk \cup {Nobody}]
      /\ making \in [Bound!Creates -> Creation]
  BY <1>1 DEF BoundInv, BoundTyped, TitlesAreKept, CreatesGoOn, GoesUnder, HasMade, Creation, Bound!OnDisk,
              Bound!BindingConstants
<1>3. Bound!OnDisk' = Bound!OnDisk /\ OwnName(by, k) /\ OwnName(by, k)'
  <2>1. Bound!OnDisk' = Bound!OnDisk
    BY <1>1 DEF Bound!OnDisk
  <2>2. OwnName(by, k)
    BY <1>2 DEF OwnName
  <2>3. OwnName(by, k)'
    BY <1>1, <2>2 DEF OwnName
  <2> QED BY <2>1, <2>2, <2>3
<1>4. /\ b \in [Books -> Bound!OnDisk \cup {Nobody}] /\ b[n] = k
      /\ \A m \in Books : m # n => b[m] = bound[m]
  BY <1>2
<1> HIDE DEF b
<1>5. /\ bound' \in [Books -> Bound!OnDisk \cup {Nobody}]
      /\ \A m \in Books : m # front => bound'[m] = b[m]
      /\ \/ Bound!KeepsBinding(b[front], listing) /\ bound'[front] = b[front]
         \/ bound'[front] = Nobody
         \/ name[bound'[front]] \in Bound!FoundAs(title[front])
  <2>1. /\ front \in Books /\ title[front] \in Titles /\ b \in [Books -> Bound!OnDisk \cup {Nobody}]
        /\ listing = Nobody \/ listing \subseteq Bound!OnDisk
        /\ Bound!Rendered(front, title[front], b, listing)
    BY <1>1, <1>2, <1>4
  <2> QED BY ONLY <2>1, RenderedIs
<1>6. ASSUME NEW m \in Books, bound'[m] # Nobody
      PROVE  IsBoundToOwn(m)'
  <2>1. CASE m = front /\ name[bound'[front]] \in Bound!FoundAs(title[front])
    BY <1>1, <1>2, <2>1 DEF IsBoundToOwn, OwnOrMisled, OwnName
  <2>2. CASE m # n /\ bound'[m] = b[m]
    <3>1. OwnOrMisled(m, bound[m]) /\ bound'[m] = bound[m]
      BY <1>4, <1>6, <2>2 DEF BoundInv, BoundToOwn, IsBoundToOwn
    <3> QED BY <1>1, <3>1 DEF IsBoundToOwn, OwnOrMisled, OwnName
  <2>3. CASE m = n /\ bound'[m] = b[m]
    <3>1. bound'[m] = k
      BY <1>4, <2>3
    <3>2. CASE n = by
      BY <1>3, <2>3, <3>1, <3>2 DEF IsBoundToOwn, OwnOrMisled, OwnName
    <3>3. CASE n # by
      <4>1. \/ ~(n = front /\ listing # Nobody /\ k \notin listing)
            \/ name[bound'[front]] \in Bound!FoundAs(title[front]) /\ m = front
        BY <1>4, <1>5, <1>6, <2>3 DEF Bound!KeepsBinding
      <4>2. CASE ~(n = front /\ listing # Nobody /\ k \notin listing)
        BY <1>1, <2>3, <3>1, <3>3, <4>2 DEF IsBoundToOwn, OwnOrMisled
      <4> QED BY <2>1, <4>1, <4>2
    <3> QED BY <3>2, <3>3
  <2> QED BY <1>5, <1>6, <2>1, <2>2, <2>3
<1>7. BoundToOwn'
  BY <1>6 DEF BoundToOwn, IsBoundToOwn
<1>9. /\ making' \in [Bound!Creates -> Creation] /\ making'[i].pc = "over"
      /\ \A j \in Bound!Creates : j # i => making'[j] = making[j]
  <2>1. [Bound!NoCreate EXCEPT !.pc = "over"] \in Creation /\ [Bound!NoCreate EXCEPT !.pc = "over"].pc = "over"
    BY DEF Bound!NoCreate, Creation
  <2>2. making' = [making EXCEPT ![i] = [Bound!NoCreate EXCEPT !.pc = "over"]]
    BY <1>1 DEF Bound!Ended
  <2> QED BY <1>2, <2>1, <2>2
<1>11. BoundTyped' /\ TitlesAreKept'
  BY <1>1, <1>2, <1>3, <1>5, <1>9 DEF BoundInv, BoundTyped, TitlesAreKept
<1>12. CreatesGoOn'
  BY <1>1, <1>3, <1>9 DEF BoundInv, CreatesGoOn, GoesUnder, HasMade
<1> QED BY <1>7, <1>11, <1>12 DEF BoundInv

LEMMA ListedKeeps ==
    ASSUME Bound!BindingConstants, BoundInv, Bound!Listed
    PROVE  BoundInv'
<1>1. /\ UNCHANGED <<front, title, had, name, making, misled>>
      /\ listing' = snapshot /\ snapshot' = {} /\ Bound!Rendered(front, title[front], bound, snapshot)
  BY DEF Bound!Listed, Bound!Named
<1>2. /\ front \in Books /\ title[front] \in Titles /\ title[front] \in had'[front] /\ snapshot \subseteq Bound!OnDisk
      /\ \A m \in Books : had[m] \subseteq had'[m]
  BY <1>1 DEF BoundInv, BoundTyped, TitlesAreKept
<1>3. /\ bound' \in [Books -> (Bound!OnDisk \cup {Nobody})']
      /\ BoundToOwn' /\ Bound!OnDisk' = Bound!OnDisk
  BY <1>1, <1>2, RenderKeeps
<1>4. BoundTyped' /\ TitlesAreKept'
  BY <1>1, <1>2, <1>3 DEF BoundInv, BoundTyped, TitlesAreKept
<1>5. CreatesGoOn'
  BY <1>1, <1>3 DEF BoundInv, CreatesGoOn, GoesUnder, HasMade
<1> QED BY <1>3, <1>4, <1>5 DEF BoundInv

LEMMA ReadingKeeps ==
    ASSUME Bound!BindingConstants, BoundInv, Bound!ReadList \/ Bound!ListFails \/ Bound!Refetch \/ UNCHANGED Bound!bindingVars
    PROVE  BoundInv'
<1>1. /\ UNCHANGED <<front, title, had, name, listing, bound, making, misled>>
      /\ snapshot' \in {snapshot, {}, Bound!OnDisk}
  BY DEF Bound!ReadList, Bound!ListFails, Bound!Refetch, Bound!bindingVars, Bound!Named
<1>2. Bound!OnDisk' = Bound!OnDisk
  BY <1>1 DEF Bound!OnDisk
<1>3. BoundTyped' /\ TitlesAreKept' /\ CreatesGoOn'
  BY <1>1, <1>2 DEF BoundInv, BoundTyped, TitlesAreKept, CreatesGoOn, GoesUnder, HasMade
<1>4. BoundToOwn'
  BY <1>1 DEF BoundInv, BoundToOwn, IsBoundToOwn, OwnOrMisled, OwnName
<1> QED BY <1>3, <1>4 DEF BoundInv

LEMMA BoundInductive == Bound!BindingConstants /\ BoundInv /\ [Bound!Next]_Bound!bindingVars => BoundInv'
BY TurnKeeps, RenameKeeps, EnsureKeeps, RemountKeeps, MakeKeeps, MadeKeeps, FailsKeeps, ListedKeeps, ReadingKeeps
   DEF Bound!Next

\* A behaviour of the parts is one of Binding: of what the other parts do
\* it shows nothing.
LEMMA BoundBehaves == Spec => Bound!Spec
<1>1. Init => Bound!Init
  BY DEF Init
<1>2. [Next]_partsVars => [Bound!Next]_(Bound!bindingVars)
  <2>1. BoundStep => Bound!Next
    BY DEF BoundStep
  <2>2. TabsStep \/ SavedStep \/ TalkStep \/ SownStep \/ FilesStep
        \/ DrawnStep \/ FoundStep \/ ChosenStep
        \/ ListedStep \/ SignedStep \/ UNCHANGED partsVars => UNCHANGED Bound!bindingVars
    BY DEF TabsStep, SavedStep, TalkStep, SownStep,
           FilesStep, DrawnStep, FoundStep, ChosenStep,
           ListedStep, SignedStep, partsVars, boundVars, Bound!bindingVars
  <2> QED BY <2>1, <2>2 DEF Next
<1> QED BY <1>1, <1>2, PTL DEF Spec, Bound!Spec

LEMMA BoundHolds == Spec => []BoundInv
<1>1. Bound!BindingConstants
  BY PartsAssumption
<1>2. Bound!Init => BoundInv
  BY <1>1, BoundInitEstablishes
<1>3. BoundInv /\ [Bound!Next]_(Bound!bindingVars) => BoundInv'
  BY <1>1, BoundInductive
<1> QED BY <1>2, <1>3, BoundBehaves, PTL DEF Bound!Spec

\* For any notebooks, titles, creates and knowledge notebooks: what answers a
\* notebook is named after a title it has or has had, however titles are edited
\* and creates, lists and switches of tabs interleave, or else it came to the
\* notebook by a create of another one that no list objected to (misled).
THEOREM BindingAnswersUnderItsName == Spec => []AnsweredUnderItsName
<1>1. BoundInv => Bound!AnsweredUnderItsName
  <2> SUFFICES ASSUME BoundInv, NEW n \in Books, NEW k \in Bound!Answering(n) PROVE OwnOrMisled(n, k)
    BY DEF Bound!AnsweredUnderItsName, OwnOrMisled, OwnName
  <2>1. CASE k = bound[n]
    BY <2>1 DEF Bound!Answering, BoundInv, BoundToOwn, IsBoundToOwn
  <2>2. CASE \E i \in Bound!Creates : making[i].by = n /\ making[i].pc = "made" /\ k = making[i].id
    BY <2>2 DEF BoundInv, CreatesGoOn, GoesUnder, HasMade, OwnOrMisled, OwnName
  <2> QED BY <2>1, <2>2 DEF Bound!Answering
<1>2. BoundInv => AnsweredUnderItsName
  BY <1>1 DEF AnsweredUnderItsName
<1> QED BY <1>2, BoundHolds, PTL

---------------------------------------------------------------------------
(* The tables that go with a question.                                     *)

\* Keys tell connections apart.  Two connections that differ only in what the
\* key leaves out share their lists.
KeysDiffer == \A s, t \in Sites : Found!Key(s) = Found!Key(t) => s = t

---------------------------------------------------------------------------
Entry(s) == [table : Found!TablesOf(s), columns : {Unlisted} \cup {Lists[s][at] : at \in Found!TablesOf(s)}]

Entries == UNION {Entry(s) : s \in Sites}

AllLists == UNION {{Lists[s][at] : at \in DOMAIN Lists[s]} : s \in Sites}

Searches ==
    [phase : {"idle", "names", "columns", "sent"}, of : Sites \cup {Unlisted}, todo : Seq(Found!Places),
     waits : BOOLEAN, flat : Seq(Found!Places), next : Nat, lanes : [Found!Lanes -> Nat],
     out : UNION {[D -> AllLists] : D \in SUBSET Nat}, skipped : SUBSET Found!Places,
     context : Seq(Entries)]

\* What is known of a connection is what it has, and a query is put to the
\* connection of its key.
CacheIsTrue ==
    \A path \in DOMAIN cache : \A s \in Sites :
        path[1] = Found!Key(s) => cache[path] = Found!ListOf(s, path[2])

Asked ==
    \A path \in DOMAIN fetching :
        fetching[path] \in Sites /\ path[1] = Found!Key(fetching[path])

Hydrated(q) == 1 .. (IF Len(q.flat) < MaxHydrated THEN Len(q.flat) ELSE MaxHydrated)

\* What the phases of a search allow.
Phases(q) ==
    /\ q.phase # "idle" => q.of \in Sites
    /\ q.phase = "idle" => q.flat = <<>>
    /\ q.phase # "names" => q.todo = <<>> /\ ~q.waits
    /\ q.phase # "columns" => \A l \in Found!Lanes : q.lanes[l] = 0
    /\ q.phase \in {"idle", "names"} => DOMAIN q.out = {} /\ q.next = 1
    /\ q.phase # "sent" => q.context = <<>>
    /\ q.waits => q.todo # <<>>

PlacesOfSearch(q) ==
    /\ \A i \in DOMAIN q.todo : q.todo[i] \in DOMAIN Lists[q.of] /\ Len(q.todo[i]) <= 2
    /\ \A i \in DOMAIN q.flat : q.flat[i] \in Found!TablesOf(q.of)
    /\ Len(q.flat) <= MaxTables

Gets(q) ==
    /\ \A l \in Found!Lanes : q.lanes[l] \in {0} \cup Hydrated(q)
    /\ \A i \in DOMAIN q.out : i \in Hydrated(q) /\ q.out[i] = Lists[q.of][q.flat[i]]
    /\ q.next \in 1 .. MaxHydrated + 1

\* p is a place at or above at.
Above(p, at) == Len(p) <= Len(at) /\ SubSeq(at, 1, Len(p)) = p

\* The places to visit lie apart from one another and from the tables found.
PlacesApart(q) ==
    /\ Found!IsInjective(q.flat)
    /\ \A i, j \in DOMAIN q.todo : Above(q.todo[i], q.todo[j]) => i = j
    /\ \A i \in DOMAIN q.todo : \A j \in DOMAIN q.flat : ~Above(q.todo[i], q.flat[j])

Through(q, i) == i \in DOMAIN q.out \/ (\E l \in Found!Lanes : q.lanes[l] = i) \/ q.flat[i] \in q.skipped

WholeSearch(q) ==
    q.phase # "idle" /\ Len(q.flat) < MaxTables =>
        \A at \in Found!TablesOf(q.of) : Found!Covers(Found!Range(q.flat) \cup Found!Range(q.todo) \cup q.skipped, at)

Followed(q) == q.phase = "columns" => \A i \in Hydrated(q) : i < q.next => Through(q, i)

SentTables(q) == {q.context[i].table : i \in DOMAIN q.context}

Ready(q) ==
    /\ \A i \in DOMAIN q.context : q.context[i].table \in Found!TablesOf(q.of)
            /\ q.context[i].columns \in {Unlisted, Lists[q.of][q.context[i].table]}
    /\ \A i, j \in DOMAIN q.context : q.context[i].table = q.context[j].table => i = j
    /\ q.phase = "sent" /\ Len(q.flat) < MaxTables =>
            \A at \in Found!TablesOf(q.of) : Found!Covers(SentTables(q) \cup q.skipped, at)

SearchInv(q) ==
    /\ q \in Searches /\ Phases(q) /\ PlacesOfSearch(q) /\ Gets(q) /\ PlacesApart(q) /\ WholeSearch(q) /\ Followed(q)
    /\ Ready(q)

FoundPaths ==
    /\ site \in Sites /\ toggled \subseteq Found!Places
    /\ \A path \in DOMAIN cache \cup DOMAIN fetching \cup errors :
            path[1] \in {Found!Key(s) : s \in Sites} /\ path[2] \in Found!Places

FoundInv == FoundPaths /\ CacheIsTrue /\ Asked /\ SearchInv(search)

---------------------------------------------------------------------------
\* Places and lists.
LEMMA ListFacts ==
    ASSUME Found!MetadataConstants, NEW s \in Sites, NEW at \in DOMAIN Lists[s]
    PROVE  /\ at \in Seq(Found!Names) /\ Len(at) <= 3 /\ at \in Found!Places
           /\ Lists[s][at] \in Seq(Found!Names) /\ Lists[s][at] \in AllLists /\ Found!IsInjective(Lists[s][at])
           /\ Len(at) <= 2 => \A x \in Found!Range(Lists[s][at]) : Append(at, x) \in DOMAIN Lists[s]
           /\ at # <<>> => /\ Found!Front(at) \in DOMAIN Lists[s]
                           /\ Found!Last(at) \in Found!Range(Lists[s][Found!Front(at)])
BY DEF Found!MetadataConstants, Found!Stands, Found!Places, AllLists

LEMMA PlacesAre == Found!MetadataConstants => Found!Places \subseteq Seq(Found!Names)
BY ListFacts DEF Found!Places

LEMMA TablesAre ==
    ASSUME Found!MetadataConstants, NEW s \in Sites, NEW at
    PROVE  at \in Found!TablesOf(s) <=> at \in DOMAIN Lists[s] /\ Len(at) = 3
BY ListFacts DEF Found!TablesOf

LEMMA SitesAre == Found!MetadataConstants => \A s \in Sites : s # Unlisted /\ <<>> \in DOMAIN Lists[s]
BY DEF Found!MetadataConstants

\* The places above a table, and what is named there.
LEMMA PlacesAbove ==
    ASSUME Found!MetadataConstants, NEW s \in Sites, NEW at \in Found!TablesOf(s), NEW n \in 0 .. 2
    PROVE  /\ SubSeq(at, 1, n) \in DOMAIN Lists[s] /\ Len(SubSeq(at, 1, n)) = n
           /\ at[n + 1] \in Found!Range(Lists[s][SubSeq(at, 1, n)])
           /\ SubSeq(at, 1, n + 1) = Append(SubSeq(at, 1, n), at[n + 1])
<1>1. at \in DOMAIN Lists[s] /\ Len(at) = 3 /\ at \in Seq(Found!Names)
  BY TablesAre, ListFacts
<1>2. \A m \in 0 .. 3 : SubSeq(at, 1, m) \in Seq(Found!Names) /\ Len(SubSeq(at, 1, m)) = m
  BY <1>1
<1>3. \A m \in 0 .. 2 : SubSeq(at, 1, m + 1) = Append(SubSeq(at, 1, m), at[m + 1])
  BY <1>1
<1>4. \A m \in 0 .. 2 : Found!Front(SubSeq(at, 1, m + 1)) = SubSeq(at, 1, m)
                        /\ Found!Last(SubSeq(at, 1, m + 1)) = at[m + 1]
  BY <1>1 DEF Found!Front, Found!Last
<1>5. SubSeq(at, 1, 3) = at
  BY <1>1
<1>6. \A m \in 0 .. 2 : SubSeq(at, 1, m + 1) \in DOMAIN Lists[s] =>
        SubSeq(at, 1, m) \in DOMAIN Lists[s] /\ at[m + 1] \in Found!Range(Lists[s][SubSeq(at, 1, m)])
  <2> SUFFICES ASSUME NEW m \in 0 .. 2, SubSeq(at, 1, m + 1) \in DOMAIN Lists[s]
               PROVE  SubSeq(at, 1, m) \in DOMAIN Lists[s] /\ at[m + 1] \in Found!Range(Lists[s][SubSeq(at, 1, m)])
    OBVIOUS
  <2>1. SubSeq(at, 1, m + 1) # <<>>
    <3>1. m + 1 \in 0 .. 3 /\ m + 1 # 0
      OBVIOUS
    <3>2. Len(SubSeq(at, 1, m + 1)) # 0
      BY <3>1, <1>2
    <3>3. Len(<<>>) = 0
      OBVIOUS
    <3> QED BY <3>2, <3>3
  <2> QED BY <2>1, <1>4, ListFacts
<1>7. SubSeq(at, 1, 2) \in DOMAIN Lists[s] /\ at[3] \in Found!Range(Lists[s][SubSeq(at, 1, 2)])
  BY <1>1, <1>5, <1>6, 2 \in 0 .. 2, 2 + 1 = 3
<1>8. SubSeq(at, 1, 1) \in DOMAIN Lists[s] /\ at[2] \in Found!Range(Lists[s][SubSeq(at, 1, 1)])
  BY <1>7, <1>6, 1 \in 0 .. 2, 1 + 1 = 2
<1>9. SubSeq(at, 1, 0) \in DOMAIN Lists[s] /\ at[1] \in Found!Range(Lists[s][SubSeq(at, 1, 0)])
  BY <1>8, <1>6, 0 \in 0 .. 2, 0 + 1 = 1
<1> QED BY <1>2, <1>3, <1>7, <1>8, <1>9, n = 0 \/ n = 1 \/ n = 2

\* A table stays covered when a place is replaced by all that is named there.
LEMMA BelowCovers ==
    ASSUME Found!MetadataConstants, NEW s \in Sites, NEW at \in Found!TablesOf(s), NEW P, NEW Q,
           NEW p, p \in DOMAIN Lists[s], Len(p) <= 2, Found!Covers(P, at), P \ {p} \subseteq Q,
           \A x \in Found!Range(Lists[s][p]) : Append(p, x) \in Q
    PROVE  Found!Covers(Q, at)
<1>1. at \in DOMAIN Lists[s] /\ Len(at) = 3 /\ at \in Seq(Found!Names) /\ p \in Seq(Found!Names)
  BY TablesAre, ListFacts
<1>2. PICK n \in 0 .. 3 : SubSeq(at, 1, n) \in P
  BY DEF Found!Covers
<1>3. CASE SubSeq(at, 1, n) # p
  BY <1>2, <1>3 DEF Found!Covers
<1>4. CASE SubSeq(at, 1, n) = p
  <2>1. n \in 0 .. 2
    BY <1>1, <1>4
  <2>2. SubSeq(at, 1, n + 1) \in Q
    BY <2>1, <1>4, PlacesAbove
  <2> QED BY <2>1, <2>2, n + 1 \in 0 .. 3 DEF Found!Covers
<1> QED BY <1>3, <1>4

LEMMA MoreCovers ==
    ASSUME NEW P, NEW Q, P \subseteq Q, NEW at, Found!Covers(P, at)
    PROVE  Found!Covers(Q, at)
BY DEF Found!Covers

---------------------------------------------------------------------------
\* Sequences.
LEMMA SeqIs ==
    ASSUME NEW S, NEW n \in Nat, NEW f, f = [i \in 1 .. n |-> f[i]], \A i \in 1 .. n : f[i] \in S
    PROVE  f \in Seq(S) /\ Len(f) = n /\ DOMAIN f = 1 .. n
OBVIOUS

LEMMA JoinFacts ==
    ASSUME NEW S, NEW a \in Seq(S), NEW b \in Seq(S)
    PROVE  /\ a \o b \in Seq(S) /\ Len(a \o b) = Len(a) + Len(b)
           /\ \A i \in DOMAIN (a \o b) :
                \/ i \in DOMAIN a /\ (a \o b)[i] = a[i]
                \/ i \notin DOMAIN a /\ i - Len(a) \in DOMAIN b /\ (a \o b)[i] = b[i - Len(a)]
           /\ Found!Range(a \o b) = Found!Range(a) \cup Found!Range(b)
<1>1. a \o b \in Seq(S) /\ Len(a \o b) = Len(a) + Len(b)
  OBVIOUS
<1>2. \A i \in DOMAIN (a \o b) :
        \/ i \in DOMAIN a /\ (a \o b)[i] = a[i]
        \/ i \notin DOMAIN a /\ i - Len(a) \in DOMAIN b /\ (a \o b)[i] = b[i - Len(a)]
  OBVIOUS
<1>3. \A i \in DOMAIN a : i \in DOMAIN (a \o b) /\ (a \o b)[i] = a[i]
  OBVIOUS
<1>4. \A i \in DOMAIN b : i + Len(a) \in DOMAIN (a \o b) /\ (a \o b)[i + Len(a)] = b[i]
  OBVIOUS
<1>5. Found!Range(a \o b) \subseteq Found!Range(a) \cup Found!Range(b)
  BY <1>2 DEF Found!Range
<1>6. Found!Range(a) \subseteq Found!Range(a \o b) /\ Found!Range(b) \subseteq Found!Range(a \o b)
  BY <1>3, <1>4 DEF Found!Range
<1> QED BY <1>1, <1>2, <1>5, <1>6

LEMMA TailFacts ==
    ASSUME NEW S, NEW a \in Seq(S), a # <<>>
    PROVE  /\ Head(a) \in S /\ Head(a) = a[1] /\ 1 \in DOMAIN a
           /\ Tail(a) \in Seq(S) /\ Len(Tail(a)) = Len(a) - 1
           /\ \A i \in DOMAIN Tail(a) : i + 1 \in DOMAIN a /\ Tail(a)[i] = a[i + 1]
           /\ Found!Range(a) = {Head(a)} \cup Found!Range(Tail(a))
<1>1. /\ Head(a) \in S /\ Head(a) = a[1] /\ 1 \in DOMAIN a
      /\ Tail(a) \in Seq(S) /\ Len(Tail(a)) = Len(a) - 1
      /\ \A i \in DOMAIN Tail(a) : i + 1 \in DOMAIN a /\ Tail(a)[i] = a[i + 1]
  OBVIOUS
<1>2. \A i \in DOMAIN a : i = 1 \/ (i - 1 \in DOMAIN Tail(a) /\ Tail(a)[i - 1] = a[i])
  OBVIOUS
<1>3. Found!Range(a) \subseteq {Head(a)} \cup Found!Range(Tail(a))
  <2> SUFFICES ASSUME NEW i \in DOMAIN a PROVE a[i] \in {Head(a)} \cup Found!Range(Tail(a))
    BY DEF Found!Range
  <2>1. CASE i = 1
    BY <2>1, <1>1
  <2>2. CASE i # 1
    BY <2>2, <1>2 DEF Found!Range
  <2> QED BY <2>1, <2>2
<1>4. Head(a) \in Found!Range(a) /\ Found!Range(Tail(a)) \subseteq Found!Range(a)
  BY <1>1 DEF Found!Range
<1> QED BY <1>1, <1>3, <1>4

\* What the caps keep of a sequence.
LEMMA CappedFacts ==
    ASSUME Found!MetadataConstants, NEW S, NEW a \in Seq(S)
    PROVE  /\ Found!Capped(a) \in Seq(S) /\ Len(Found!Capped(a)) <= MaxTables /\ Len(Found!Capped(a)) <= Len(a)
           /\ \A i \in DOMAIN Found!Capped(a) : i \in DOMAIN a /\ Found!Capped(a)[i] = a[i]
           /\ Len(Found!Capped(a)) < MaxTables => Found!Capped(a) = a
<1>1. MaxTables \in Nat \ {0}
  BY DEF Found!MetadataConstants
<1>2. CASE Len(a) < MaxTables
  <2>1. Found!Capped(a) = a
    BY <1>2 DEF Found!Capped
  <2> QED BY <2>1, <1>1, <1>2
<1>3. CASE ~(Len(a) < MaxTables)
  <2>1. Found!Capped(a) = SubSeq(a, 1, MaxTables)
    BY <1>3 DEF Found!Capped
  <2> QED BY <2>1, <1>1, <1>3
<1> QED BY <1>2, <1>3

---------------------------------------------------------------------------
\* p stands above at, in terms of the names on the way.
LEMMA AboveIs ==
    ASSUME NEW p \in Seq(Found!Names), NEW at \in Seq(Found!Names)
    PROVE  Above(p, at) <=> Len(p) <= Len(at) /\ \A i \in 1 .. Len(p) : p[i] = at[i]
<1>1. CASE ~(Len(p) <= Len(at))
  BY <1>1 DEF Above
<1>2. CASE Len(p) <= Len(at)
  <2>1. SubSeq(at, 1, Len(p)) \in Seq(Found!Names) /\ Len(SubSeq(at, 1, Len(p))) = Len(p)
        /\ \A i \in 1 .. Len(p) : SubSeq(at, 1, Len(p))[i] = at[i]
    BY <1>2
  <2>2. p = SubSeq(at, 1, Len(p)) <=> \A i \in 1 .. Len(p) : p[i] = SubSeq(at, 1, Len(p))[i]
    BY <2>1, SeqEqual
  <2> QED BY <1>2, <2>1, <2>2 DEF Above
<1> QED BY <1>1, <1>2

LEMMA AboveItself == \A p \in Seq(Found!Names) : Above(p, p)
BY AboveIs

LEMMA AppendIs ==
    ASSUME NEW p \in Seq(Found!Names), NEW x \in Found!Names
    PROVE  /\ Append(p, x) \in Seq(Found!Names) /\ Len(Append(p, x)) = Len(p) + 1
           /\ Append(p, x)[Len(p) + 1] = x /\ \A i \in 1 .. Len(p) : Append(p, x)[i] = p[i]
OBVIOUS

\* What stands above a name of a list stands above the list, or is it.
LEMMA AboveAppend ==
    ASSUME NEW p \in Seq(Found!Names), NEW at \in Seq(Found!Names), NEW x \in Found!Names, Above(p, Append(at, x))
    PROVE  Above(p, at) \/ (p = Append(at, x) /\ Above(at, p))
<1>1. Len(p) <= Len(at) + 1 /\ \A i \in 1 .. Len(p) : p[i] = Append(at, x)[i]
  BY AboveIs, AppendIs
<1>2. CASE Len(p) <= Len(at)
  BY <1>1, <1>2, AppendIs, AboveIs
<1>3. CASE Len(p) = Len(at) + 1
  <2>1. p = Append(at, x)
    BY <1>1, <1>3, AppendIs, SeqEqual
  <2>2. /\ Append(at, x) \in Seq(Found!Names) /\ Len(at) <= Len(Append(at, x))
        /\ \A i \in 1 .. Len(at) : at[i] = Append(at, x)[i]
    BY AppendIs
  <2>3. Above(at, Append(at, x))
    BY <2>2, AboveIs
  <2> QED BY <2>1, <2>3
<1> QED BY <1>1, <1>2, <1>3, AppendIs

\* A list stands above what a name of it stands above.
LEMMA AppendAbove ==
    ASSUME NEW p \in Seq(Found!Names), NEW at \in Seq(Found!Names), NEW x \in Found!Names, Above(Append(at, x), p)
    PROVE  Above(at, p)
<1>1. Append(at, x) \in Seq(Found!Names) /\ Len(Append(at, x)) = Len(at) + 1
      /\ \A i \in 1 .. Len(at) : Append(at, x)[i] = at[i]
  BY AppendIs
<1>2. Len(at) + 1 <= Len(p) /\ \A i \in 1 .. Len(at) + 1 : Append(at, x)[i] = p[i]
  BY <1>1, AboveIs
<1>3. Len(at) \in Nat /\ Len(p) \in Nat
  OBVIOUS
<1>4. Len(at) <= Len(p) /\ \A i \in 1 .. Len(at) : at[i] = p[i]
  BY <1>1, <1>2, <1>3
<1> QED BY <1>4, AboveIs

LEMMA AppendsDiffer ==
    ASSUME NEW at \in Seq(Found!Names), NEW x \in Found!Names, NEW y \in Found!Names, Above(Append(at, x), Append(at, y))
    PROVE  x = y
<1>1. Append(at, x) \in Seq(Found!Names) /\ Append(at, y) \in Seq(Found!Names)
      /\ Len(Append(at, x)) = Len(at) + 1 /\ Len(at) \in Nat
  BY AppendIs
<1>2. \A i \in 1 .. Len(at) + 1 : Append(at, x)[i] = Append(at, y)[i]
  BY <1>1, AboveIs
<1>3. Append(at, x)[Len(at) + 1] = Append(at, y)[Len(at) + 1]
  BY <1>1, <1>2
<1> QED BY <1>3, AppendIs

---------------------------------------------------------------------------
\* The chosen one in front: the same names, none twice.
LEMMA PreferringIs ==
    ASSUME NEW S, NEW list \in Seq(S), Found!IsInjective(list), NEW k \in DOMAIN list
    PROVE  /\ Found!Preferring(list, k) \in Seq(S) /\ Len(Found!Preferring(list, k)) = Len(list)
           /\ Found!IsInjective(Found!Preferring(list, k)) /\ Found!Range(Found!Preferring(list, k)) = Found!Range(list)
<1> DEFINE l == Found!Preferring(list, k)
<1>1. DOMAIN l = DOMAIN list
      /\ \A i \in DOMAIN list : l[i] = IF i = 1 THEN list[k] ELSE IF i <= k THEN list[i - 1] ELSE list[i]
  BY DEF Found!Preferring
<1>2. DOMAIN list = 1 .. Len(list) /\ k \in 1 .. Len(list) /\ Len(list) \in Nat
  OBVIOUS
<1>3. \A i \in DOMAIN list : \E j \in DOMAIN list : l[i] = list[j]
        /\ j = IF i = 1 THEN k ELSE IF i <= k THEN i - 1 ELSE i
  <2> SUFFICES ASSUME NEW i \in DOMAIN list
               PROVE  \E j \in DOMAIN list : l[i] = list[j]
                        /\ j = IF i = 1 THEN k ELSE IF i <= k THEN i - 1 ELSE i
    OBVIOUS
  <2> HIDE DEF l
  <2>1. (IF i = 1 THEN k ELSE IF i <= k THEN i - 1 ELSE i) \in DOMAIN list
    BY <1>2
  <2> QED BY <2>1, <1>1
<1>4. \A j \in DOMAIN list : \E i \in DOMAIN list : l[i] = list[j]
  <2> SUFFICES ASSUME NEW j \in DOMAIN list PROVE \E i \in DOMAIN list : l[i] = list[j]
    OBVIOUS
  <2> HIDE DEF l
  <2>1. CASE j = k
    BY <2>1, <1>1, <1>2
  <2>2. CASE j < k
    <3>1. j + 1 \in DOMAIN list /\ j + 1 # 1 /\ j + 1 <= k /\ (j + 1) - 1 = j
      BY <2>2, <1>2
    <3> QED BY <3>1, <1>1
  <2>3. CASE j > k
    <3>1. j # 1 /\ ~(j <= k)
      BY <2>3, <1>2
    <3> QED BY <3>1, <1>1
  <2> QED BY <2>1, <2>2, <2>3, <1>2
<1> HIDE DEF l
<1>5. \A i \in DOMAIN l : l[i] \in S
  <2>1. \A j \in DOMAIN list : list[j] \in S
    OBVIOUS
  <2> QED BY <2>1, <1>1, <1>3
<1>6. l = [i \in 1 .. Len(list) |-> l[i]]
  BY <1>1, <1>2 DEF l, Found!Preferring
<1>7. l \in Seq(S) /\ Len(l) = Len(list)
  BY <1>1, <1>2, <1>5, <1>6
<1>8. Found!IsInjective(l)
  <2> SUFFICES ASSUME NEW a \in DOMAIN list, NEW b \in DOMAIN list, l[a] = l[b] PROVE a = b
    BY <1>1 DEF Found!IsInjective
  <2>1. PICK i \in DOMAIN list : l[a] = list[i] /\ i = IF a = 1 THEN k ELSE IF a <= k THEN a - 1 ELSE a
    BY <1>3
  <2>2. PICK j \in DOMAIN list : l[b] = list[j] /\ j = IF b = 1 THEN k ELSE IF b <= k THEN b - 1 ELSE b
    BY <1>3
  <2>3. i = j
    BY <2>1, <2>2 DEF Found!IsInjective
  <2> QED BY <2>1, <2>2, <2>3, <1>2
<1>9. Found!Range(l) = Found!Range(list)
  <2>1. \A i \in DOMAIN l : l[i] \in Found!Range(list)
    BY <1>1, <1>3 DEF Found!Range
  <2>2. \A j \in DOMAIN list : list[j] \in Found!Range(l)
    BY <1>1, <1>4 DEF Found!Range
  <2> QED BY <2>1, <2>2 DEF Found!Range
<1> QED BY <1>7, <1>8, <1>9 DEF l

\* The members of a list, in an order in which they are visited.
LEMMA OrdersAre ==
    ASSUME Found!MetadataConstants, NEW s \in Sites, NEW at \in DOMAIN Lists[s], Len(at) <= 2,
           NEW below \in Found!Orders(at, Lists[s][at])
    PROVE  /\ below \in Seq(Found!Places) /\ \A i \in DOMAIN below : below[i] \in DOMAIN Lists[s]
           /\ \A i \in DOMAIN below : \E x \in Found!Names : below[i] = Append(at, x)
           /\ \A i \in DOMAIN below : Len(below[i]) = Len(at) + 1
           /\ \A i, j \in DOMAIN below : Above(below[i], below[j]) => i = j
           /\ \A x \in Found!Range(Lists[s][at]) : Append(at, x) \in Found!Range(below)
<1> DEFINE list == Lists[s][at]
<1>1. list \in Seq(Found!Names) /\ Found!IsInjective(list) /\ at \in Seq(Found!Names)
      /\ \A x \in Found!Range(list) : Append(at, x) \in DOMAIN Lists[s]
  BY ListFacts
<1> HIDE DEF list
<1>2. PICK l \in Seq(Found!Names) : /\ Found!IsInjective(l) /\ Found!Range(l) = Found!Range(list)
                                    /\ below = [i \in DOMAIN l |-> Append(at, l[i])]
  <2>1. \A k \in DOMAIN list : Found!Preferring(list, k) \in Seq(Found!Names) /\ Found!IsInjective(Found!Preferring(list, k))
                                /\ Found!Range(Found!Preferring(list, k)) = Found!Range(list)
    BY <1>1, PreferringIs
  <2> QED BY <1>1, <2>1 DEF Found!Orders, list
<1>3. DOMAIN below = DOMAIN l /\ \A i \in DOMAIN l : below[i] = Append(at, l[i])
  BY <1>2
<1>4. \A i \in DOMAIN l : l[i] \in Found!Names /\ l[i] \in Found!Range(list)
  <2>1. \A i \in DOMAIN l : l[i] \in Found!Range(l)
    BY DEF Found!Range
  <2>2. \A i \in DOMAIN l : l[i] \in Found!Names
    OBVIOUS
  <2> QED BY <1>2, <2>1, <2>2
<1>5. \A i \in DOMAIN below : below[i] \in DOMAIN Lists[s] /\ below[i] \in Found!Places
  BY <1>1, <1>3, <1>4, ListFacts
<1>6. below \in Seq(Found!Places)
  <2>1. DOMAIN l = 1 .. Len(l) /\ Len(l) \in Nat
    OBVIOUS
  <2>2. below = [i \in 1 .. Len(l) |-> below[i]]
    BY <1>2, <2>1
  <2> QED BY <1>3, <1>5, <2>1, <2>2
<1>7. \A i, j \in DOMAIN below : Above(below[i], below[j]) => i = j
  BY <1>1, <1>2, <1>3, <1>4, AppendsDiffer DEF Found!IsInjective
<1>8. \A x \in Found!Range(list) : Append(at, x) \in Found!Range(below)
  BY <1>2, <1>3 DEF Found!Range
<1>9. \A i \in DOMAIN below : Len(below[i]) = Len(at) + 1
  BY <1>1, <1>3, <1>4, AppendIs
<1> QED BY <1>3, <1>4, <1>5, <1>6, <1>7, <1>8, <1>9 DEF list

---------------------------------------------------------------------------
(* The search, step by step.                                               *)

LEMMA IdleKeeps == Found!MetadataConstants => SearchInv(Found!Idle)
<1> SUFFICES ASSUME Found!MetadataConstants PROVE SearchInv(Found!Idle)
  OBVIOUS
<1>1. /\ Found!Idle.phase = "idle" /\ Found!Idle.of = Unlisted /\ Found!Idle.todo = <<>> /\ Found!Idle.waits = FALSE
      /\ Found!Idle.flat = <<>> /\ Found!Idle.next = 1 /\ Found!Idle.lanes = [l \in Found!Lanes |-> 0] /\ Found!Idle.out = <<>>
      /\ Found!Idle.skipped = {} /\ Found!Idle.context = <<>>
  BY DEF Found!Idle
<1>2. DOMAIN Found!Idle.out = {} /\ DOMAIN Found!Idle.flat = {} /\ DOMAIN Found!Idle.todo = {} /\ DOMAIN Found!Idle.context = {}
      /\ Len(Found!Idle.flat) = 0
  BY <1>1
<1>3. Found!Idle.out \in UNION {[D -> AllLists] : D \in SUBSET Nat}
  <2>1. Found!Idle.out \in [{} -> AllLists]
    BY <1>1, <1>2
  <2> QED BY <2>1
<1>4. Found!Idle \in Searches
  <2>1. Found!Idle.todo \in Seq(Found!Places) /\ Found!Idle.flat \in Seq(Found!Places) /\ Found!Idle.context \in Seq(Entries)
    BY <1>1
  <2> QED BY <1>1, <1>3, <2>1 DEF Searches, Found!Idle
<1>5. MaxTables \in Nat /\ MaxHydrated \in Nat
  BY DEF Found!MetadataConstants
<1> QED BY <1>1, <1>2, <1>4, <1>5 DEF SearchInv, Phases, PlacesOfSearch, Gets, PlacesApart, WholeSearch, Followed, Ready, Found!IsInjective

LEMMA StartKeeps ==
    ASSUME Found!MetadataConstants, NEW s \in Sites
    PROVE  SearchInv([Found!Idle EXCEPT !.phase = "names", !.of = s, !.todo = <<<<>>>>])
<1>0. Found!Idle \in Searches
  BY IdleKeeps DEF SearchInv
<1> DEFINE r == [Found!Idle EXCEPT !.phase = "names", !.of = s, !.todo = <<<<>>>>]
<1>1. <<>> \in DOMAIN Lists[s] /\ <<>> \in Found!Places
  BY SitesAre, ListFacts
<1>2. r \in Searches
  <2>1. <<<<>>>> \in Seq(Found!Places)
    BY <1>1
  <2> QED BY <1>0, <2>1 DEF Searches
<1>3. /\ r.phase = "names" /\ r.of = s /\ r.todo = <<<<>>>> /\ r.waits = FALSE
      /\ r.flat = <<>> /\ r.next = 1 /\ r.lanes = [l \in Found!Lanes |-> 0] /\ r.out = <<>>
      /\ r.skipped = {} /\ r.context = <<>>
  BY DEF Found!Idle
<1> HIDE DEF r
<1>4. DOMAIN r.out = {} /\ DOMAIN r.flat = {} /\ DOMAIN r.context = {} /\ Len(r.flat) = 0
      /\ DOMAIN r.todo = {1} /\ r.todo[1] = <<>> /\ r.todo # <<>>
  BY <1>3
<1>5. MaxTables \in Nat /\ MaxHydrated \in Nat
  BY DEF Found!MetadataConstants
<1>6. Phases(r) /\ PlacesOfSearch(r) /\ Gets(r) /\ PlacesApart(r) /\ Followed(r) /\ Ready(r)
  BY <1>1, <1>3, <1>4, <1>5 DEF Phases, PlacesOfSearch, Gets, PlacesApart, Followed, Ready, Found!IsInjective
<1>7. WholeSearch(r)
  <2> SUFFICES ASSUME NEW at \in Found!TablesOf(s)
               PROVE  Found!Covers(Found!Range(r.flat) \cup Found!Range(r.todo) \cup r.skipped, at)
    BY <1>3 DEF WholeSearch
  <2>1. <<>> \in Found!Range(r.todo)
    BY <1>4 DEF Found!Range
  <2>2. at \in Seq(Found!Names)
    BY TablesAre, ListFacts
  <2>3. SubSeq(at, 1, 0) = <<>>
    BY <2>2
  <2> QED BY <2>1, <2>3, 0 \in 0 .. 3 DEF Found!Covers
<1> QED BY <1>2, <1>6, <1>7 DEF SearchInv, r

LEMMA AsksKeeps ==
    ASSUME NEW q, SearchInv(q), q.phase = "names", q.todo # <<>>
    PROVE  SearchInv([q EXCEPT !.waits = TRUE])
<1> DEFINE r == [q EXCEPT !.waits = TRUE]
<1>0. q \in Searches
  BY DEF SearchInv
<1>1. r \in Searches /\ r.phase = q.phase /\ r.of = q.of /\ r.todo = q.todo /\ r.waits = TRUE
      /\ r.flat = q.flat /\ r.next = q.next /\ r.lanes = q.lanes /\ r.out = q.out
      /\ r.skipped = q.skipped /\ r.context = q.context
  BY <1>0 DEF Searches
<1> HIDE DEF r
<1>2. Phases(r) /\ PlacesOfSearch(r)
  BY <1>1 DEF SearchInv, Phases, PlacesOfSearch
<1>3. Gets(r) /\ PlacesApart(r)
  BY <1>1 DEF SearchInv, Gets, Hydrated, PlacesApart
<1>4. WholeSearch(r) /\ Followed(r)
  BY <1>1 DEF SearchInv, WholeSearch, Followed, Hydrated, Through
<1>5. Ready(r)
  BY <1>1 DEF SearchInv, Ready, SentTables
<1> QED BY <1>1, <1>2, <1>3, <1>4, <1>5 DEF SearchInv, r

\* What the names phase looks like.
LEMMA NamesPhase ==
    ASSUME Found!MetadataConstants, NEW q, SearchInv(q), q.phase = "names"
    PROVE  /\ q \in Searches /\ q.of \in Sites /\ DOMAIN q.out = {} /\ q.next = 1 /\ q.context = <<>>
           /\ \A l \in Found!Lanes : q.lanes[l] = 0
           /\ q.todo \in Seq(Found!Places) /\ q.flat \in Seq(Found!Places)
           /\ \A i \in DOMAIN q.todo : q.todo[i] \in Seq(Found!Names)
           /\ \A i \in DOMAIN q.flat : q.flat[i] \in Seq(Found!Names) /\ Len(q.flat[i]) = 3
<1>1. /\ q \in Searches /\ q.of \in Sites /\ DOMAIN q.out = {} /\ q.next = 1 /\ q.context = <<>>
      /\ \A l \in Found!Lanes : q.lanes[l] = 0
  BY DEF SearchInv, Phases
<1>2. q.todo \in Seq(Found!Places) /\ q.flat \in Seq(Found!Places)
  BY <1>1 DEF Searches
<1>3. \A i \in DOMAIN q.flat : Len(q.flat[i]) = 3
  BY <1>1, TablesAre DEF SearchInv, PlacesOfSearch
<1>4. (\A i \in DOMAIN q.todo : q.todo[i] \in Found!Places) /\ \A i \in DOMAIN q.flat : q.flat[i] \in Found!Places
  BY <1>2
<1> QED BY <1>1, <1>2, <1>3, <1>4, PlacesAre

\* A search in the names phase, of what it has found and has to visit.
LEMMA NamesKeep ==
    ASSUME Found!MetadataConstants, NEW q, SearchInv(q), q.phase = "names",
           NEW flat \in Seq(Found!Places), NEW ahead \in Seq(Found!Places), NEW missed \in SUBSET Found!Places,
           Len(flat) <= MaxTables, \A i \in DOMAIN flat : flat[i] \in Found!TablesOf(q.of),
           \A i \in DOMAIN ahead : ahead[i] \in DOMAIN Lists[q.of] /\ Len(ahead[i]) <= 2,
           Found!IsInjective(flat), \A i, j \in DOMAIN ahead : Above(ahead[i], ahead[j]) => i = j,
           \A i \in DOMAIN ahead : \A j \in DOMAIN flat : ~Above(ahead[i], flat[j]),
           Len(flat) < MaxTables => \A at \in Found!TablesOf(q.of) : Found!Covers(Found!Range(flat) \cup Found!Range(ahead) \cup missed, at)
    PROVE  SearchInv([q EXCEPT !.waits = FALSE, !.flat = flat, !.todo = ahead, !.skipped = missed])
<1> DEFINE r == [q EXCEPT !.waits = FALSE, !.flat = flat, !.todo = ahead, !.skipped = missed]
<1>1. r \in Searches /\ r.phase = q.phase /\ r.of = q.of /\ r.todo = ahead /\ r.waits = FALSE
      /\ r.flat = flat /\ r.next = q.next /\ r.lanes = q.lanes /\ r.out = q.out
      /\ r.skipped = missed /\ r.context = q.context
  <2>1. q \in Searches
    BY NamesPhase
  <2> QED BY <2>1 DEF Searches
<1> HIDE DEF r
<1>2. MaxHydrated \in Nat
  BY DEF Found!MetadataConstants
<1>3. Phases(r) /\ PlacesOfSearch(r) /\ Gets(r) /\ PlacesApart(r) /\ Followed(r) /\ Ready(r)
  BY <1>1, <1>2, NamesPhase DEF SearchInv, Phases, PlacesOfSearch, Gets, PlacesApart, Followed, Ready
<1>4. WholeSearch(r)
  BY <1>1 DEF WholeSearch
<1> QED BY <1>1, <1>3, <1>4 DEF SearchInv, r

\* The next list is read: its members stand in for it, or are tables.
LEMMA ReadsKeeps ==
    ASSUME Found!MetadataConstants, NEW q, SearchInv(q), q.phase = "names", q.todo # <<>>,
           NEW at, at = Head(q.todo), NEW below \in Found!Orders(at, Lists[q.of][at]),
           NEW flat, flat = Found!Capped(q.flat \o IF Len(at) = 2 THEN below ELSE <<>>)
    PROVE  SearchInv([q EXCEPT !.waits = FALSE, !.flat = flat,
                               !.todo = IF Len(flat) >= MaxTables THEN <<>>
                                        ELSE (IF Len(at) = 2 THEN <<>> ELSE below) \o Tail(@)])
<1> DEFINE tables == IF Len(at) = 2 THEN below ELSE <<>>
           lists2 == IF Len(at) = 2 THEN <<>> ELSE below
           ahead == IF Len(flat) >= MaxTables THEN <<>> ELSE lists2 \o Tail(q.todo)
           s == q.of
<1>1. /\ q \in Searches /\ s \in Sites /\ q.todo \in Seq(Found!Places) /\ q.flat \in Seq(Found!Places)
      /\ \A i \in DOMAIN q.todo : q.todo[i] \in Seq(Found!Names)
      /\ \A i \in DOMAIN q.flat : q.flat[i] \in Seq(Found!Names) /\ Len(q.flat[i]) = 3
  BY NamesPhase
<1>2. /\ at = q.todo[1] /\ 1 \in DOMAIN q.todo /\ Tail(q.todo) \in Seq(Found!Places)
      /\ \A i \in DOMAIN Tail(q.todo) : i + 1 \in DOMAIN q.todo /\ Tail(q.todo)[i] = q.todo[i + 1]
      /\ Found!Range(q.todo) = {at} \cup Found!Range(Tail(q.todo))
  BY <1>1, TailFacts
<1>3. at \in DOMAIN Lists[s] /\ Len(at) <= 2 /\ at \in Seq(Found!Names) /\ Len(at) \in Nat
  <2>1. at \in DOMAIN Lists[s] /\ Len(at) <= 2 /\ at \in Seq(Found!Names)
    BY <1>1, <1>2 DEF SearchInv, PlacesOfSearch
  <2> QED BY <2>1
<1>4. /\ below \in Seq(Found!Places) /\ \A i \in DOMAIN below : below[i] \in DOMAIN Lists[s]
      /\ \A i \in DOMAIN below : \E x \in Found!Names : below[i] = Append(at, x)
      /\ \A i \in DOMAIN below : Len(below[i]) = Len(at) + 1
      /\ \A i, j \in DOMAIN below : Above(below[i], below[j]) => i = j
      /\ \A x \in Found!Range(Lists[s][at]) : Append(at, x) \in Found!Range(below)
  BY <1>1, <1>3, OrdersAre
<1>5. \A i \in DOMAIN below : below[i] \in Seq(Found!Names) /\ Above(at, below[i])
  <2> SUFFICES ASSUME NEW i \in DOMAIN below PROVE below[i] \in Seq(Found!Names) /\ Above(at, below[i])
    OBVIOUS
  <2>1. PICK x \in Found!Names : below[i] = Append(at, x)
    BY <1>4
  <2>2. Append(at, x) \in Seq(Found!Names) /\ Above(Append(at, x), Append(at, x))
    BY <1>3, AppendIs, AboveItself
  <2> QED BY <2>1, <2>2, <1>3, AppendAbove
\* The rest lies apart from what stands at at.
<1>6. \A i \in DOMAIN Tail(q.todo) :
        /\ Tail(q.todo)[i] \in DOMAIN Lists[s] /\ Len(Tail(q.todo)[i]) <= 2
        /\ Tail(q.todo)[i] \in Seq(Found!Names)
        /\ ~Above(at, Tail(q.todo)[i]) /\ ~Above(Tail(q.todo)[i], at)
        /\ \A j \in DOMAIN q.flat : ~Above(Tail(q.todo)[i], q.flat[j])
        /\ \A j \in DOMAIN Tail(q.todo) : Above(Tail(q.todo)[i], Tail(q.todo)[j]) => i = j
  <2> SUFFICES ASSUME NEW i \in DOMAIN Tail(q.todo)
               PROVE /\ Tail(q.todo)[i] \in DOMAIN Lists[s] /\ Len(Tail(q.todo)[i]) <= 2
                     /\ Tail(q.todo)[i] \in Seq(Found!Names)
                     /\ ~Above(at, Tail(q.todo)[i]) /\ ~Above(Tail(q.todo)[i], at)
                     /\ \A j \in DOMAIN q.flat : ~Above(Tail(q.todo)[i], q.flat[j])
                     /\ \A j \in DOMAIN Tail(q.todo) : Above(Tail(q.todo)[i], Tail(q.todo)[j]) => i = j
    OBVIOUS
  <2>1. i \in Nat /\ i >= 1 /\ i + 1 # 1
    BY <1>2
  <2>2. \A j \in DOMAIN Tail(q.todo) : j \in Nat
    BY <1>2
  <2>3. /\ \A m, n \in DOMAIN q.todo : Above(q.todo[m], q.todo[n]) => m = n
        /\ \A m \in DOMAIN q.todo : \A j \in DOMAIN q.flat : ~Above(q.todo[m], q.flat[j])
        /\ \A m \in DOMAIN q.todo : q.todo[m] \in DOMAIN Lists[s] /\ Len(q.todo[m]) <= 2
    BY DEF SearchInv, PlacesApart, PlacesOfSearch
  <2>4. Tail(q.todo)[i] = q.todo[i + 1] /\ i + 1 \in DOMAIN q.todo
    BY <1>2
  <2>5. \A j \in DOMAIN Tail(q.todo) : Above(Tail(q.todo)[i], Tail(q.todo)[j]) => i = j
    <3> SUFFICES ASSUME NEW j \in DOMAIN Tail(q.todo), Above(Tail(q.todo)[i], Tail(q.todo)[j])
                 PROVE  i = j
      OBVIOUS
    <3>1. i + 1 = j + 1
      BY <1>2, <2>3, <2>4
    <3> QED BY <3>1, <2>1, <2>2
  <2> QED BY <1>1, <1>2, <2>1, <2>3, <2>4, <2>5
<1>7. /\ \A j \in DOMAIN q.flat : ~Above(at, q.flat[j])
      /\ Found!IsInjective(q.flat) /\ \A i \in DOMAIN q.flat : q.flat[i] \in Found!TablesOf(s)
  BY <1>2 DEF SearchInv, PlacesApart, PlacesOfSearch
<1>8. tables \in Seq(Found!Places) /\ lists2 \in Seq(Found!Places)
  BY <1>4
<1> HIDE DEF tables, lists2
<1> DEFINE all == q.flat \o tables
<1>9. /\ all \in Seq(Found!Places)
      /\ \A i \in DOMAIN all : \/ i \in DOMAIN q.flat /\ all[i] = q.flat[i]
                               \/ /\ i \notin DOMAIN q.flat /\ i - Len(q.flat) \in DOMAIN tables
                                  /\ all[i] = tables[i - Len(q.flat)]
      /\ Found!Range(all) = Found!Range(q.flat) \cup Found!Range(tables)
  BY <1>1, <1>8, JoinFacts
<1>10. \A i \in DOMAIN tables : /\ tables = below /\ Len(at) = 2 /\ i \in DOMAIN below
                                /\ tables[i] = below[i] /\ tables[i] \in Found!TablesOf(s)
  <2>1. CASE Len(at) = 2
    <3>1. tables = below
      BY <2>1 DEF tables
    <3>2. \A i \in DOMAIN below : Len(below[i]) = 3
      <4>1. 2 + 1 = 3
        OBVIOUS
      <4> QED BY <4>1, <2>1, <1>4
    <3>3. \A i \in DOMAIN below : below[i] \in Found!TablesOf(s)
      BY <3>2, <1>1, <1>4, TablesAre
    <3> QED BY <2>1, <3>1, <3>3
  <2>2. CASE Len(at) # 2
    BY <2>2 DEF tables
  <2> QED BY <2>1, <2>2
<1>11. \A i \in DOMAIN lists2 : /\ lists2 = below /\ i \in DOMAIN below /\ lists2[i] = below[i]
                                /\ Len(lists2[i]) <= 2 /\ lists2[i] \in DOMAIN Lists[s]
  <2>1. CASE Len(at) = 2
    BY <2>1 DEF lists2
  <2>2. CASE Len(at) # 2
    <3>1. lists2 = below
      BY <2>2 DEF lists2
    <3>2. Len(at) + 1 <= 2
      <4>1. PICK n \in Nat : n = Len(at)
        BY <1>3
      <4>2. n <= 2 /\ n # 2
        BY <4>1, <1>3, <2>2
      <4>3. n + 1 <= 2
        BY <4>2
      <4> QED BY <4>1, <4>3
    <3> QED BY <3>1, <3>2, <1>4
  <2> QED BY <2>1, <2>2
<1>12. Found!IsInjective(all) /\ \A i \in DOMAIN all : all[i] \in Found!TablesOf(s)
  <2>1. \A i \in DOMAIN all : all[i] \in Found!TablesOf(s)
    BY <1>7, <1>9, <1>10
  <2>2. \A i \in DOMAIN q.flat : \A j \in DOMAIN tables : q.flat[i] # tables[j]
    BY <1>5, <1>7, <1>10
  <2>3. \A i, j \in DOMAIN tables : tables[i] = tables[j] => i = j
    <3>1. \A i \in DOMAIN below : Above(below[i], below[i])
      BY <1>5, AboveItself
    <3> QED BY <3>1, <1>4, <1>10
  <2>4. \A i, j \in DOMAIN all : i \in Int /\ j \in Int /\ Len(q.flat) \in Nat
                                 /\ (i - Len(q.flat) = j - Len(q.flat) => i = j)
    BY <1>1, <1>9
  <2>5. \A i, j \in DOMAIN all : all[i] = all[j] => i = j
    <3> HIDE DEF all
    <3> QED BY <1>7, <1>9, <2>2, <2>3, <2>4 DEF Found!IsInjective
  <2> QED BY <2>1, <2>5 DEF Found!IsInjective
<1>13. /\ flat \in Seq(Found!Places) /\ Len(flat) <= MaxTables
       /\ \A i \in DOMAIN flat : i \in DOMAIN all /\ flat[i] = all[i]
       /\ Len(flat) < MaxTables => flat = all
  BY <1>9, CappedFacts DEF tables
<1> HIDE DEF all
<1>14. Found!IsInjective(flat) /\ \A i \in DOMAIN flat : flat[i] \in Found!TablesOf(s)
  BY <1>12, <1>13 DEF Found!IsInjective
<1> DEFINE more == lists2 \o Tail(q.todo)
<1>15. /\ more \in Seq(Found!Places)
       /\ \A i \in DOMAIN more : \/ i \in DOMAIN lists2 /\ more[i] = lists2[i]
                                 \/ /\ i \notin DOMAIN lists2 /\ i - Len(lists2) \in DOMAIN Tail(q.todo)
                                    /\ more[i] = Tail(q.todo)[i - Len(lists2)]
       /\ Found!Range(more) = Found!Range(lists2) \cup Found!Range(Tail(q.todo))
  BY <1>2, <1>8, JoinFacts
<1>16. \A i, j \in DOMAIN more : i \in Int /\ j \in Int /\ Len(lists2) \in Nat
                                 /\ (i - Len(lists2) = j - Len(lists2) => i = j)
  BY <1>8, <1>15
<1> HIDE DEF more
<1>17. \A i \in DOMAIN more : more[i] \in DOMAIN Lists[s] /\ Len(more[i]) <= 2
  BY <1>6, <1>11, <1>15
\* A place below at and one of the rest lie apart.
<1>18. \A i \in DOMAIN lists2 : \A j \in DOMAIN Tail(q.todo) :
            ~Above(lists2[i], Tail(q.todo)[j]) /\ ~Above(Tail(q.todo)[j], lists2[i])
  <2> SUFFICES ASSUME NEW i \in DOMAIN below, NEW j \in DOMAIN Tail(q.todo)
               PROVE  ~Above(below[i], Tail(q.todo)[j]) /\ ~Above(Tail(q.todo)[j], below[i])
    BY <1>11
  <2>1. PICK x \in Found!Names : below[i] = Append(at, x)
    BY <1>4
  <2>2. ~Above(below[i], Tail(q.todo)[j])
    BY <2>1, <1>3, <1>6, AppendAbove
  <2>3. ~Above(Tail(q.todo)[j], below[i])
    BY <2>1, <1>3, <1>6, AboveAppend
  <2> QED BY <2>2, <2>3
<1>19. \A i, j \in DOMAIN more : Above(more[i], more[j]) => i = j
  <2>1. \A i, j \in DOMAIN lists2 : Above(lists2[i], lists2[j]) => i = j
    BY <1>4, <1>11
  <2>2. \A i, j \in DOMAIN Tail(q.todo) : Above(Tail(q.todo)[i], Tail(q.todo)[j]) => i = j
    BY <1>6
  <2> SUFFICES ASSUME NEW i \in DOMAIN more, NEW j \in DOMAIN more, Above(more[i], more[j])
               PROVE  i = j
    OBVIOUS
  <2> QED BY <2>1, <2>2, <1>15, <1>16, <1>18
<1>20. \A i \in DOMAIN more : \A j \in DOMAIN flat : ~Above(more[i], flat[j])
  <2>1. \A i \in DOMAIN lists2 : \A j \in DOMAIN q.flat : ~Above(lists2[i], q.flat[j])
    <3> SUFFICES ASSUME NEW i \in DOMAIN below, NEW j \in DOMAIN q.flat
                 PROVE  ~Above(below[i], q.flat[j])
      BY <1>11
    <3>1. PICK x \in Found!Names : below[i] = Append(at, x)
      BY <1>4
    <3> QED BY <3>1, <1>1, <1>3, <1>7, AppendAbove
  <2>2. \A i \in DOMAIN lists2 : \A j \in DOMAIN tables : FALSE
    BY <1>3 DEF lists2, tables
  <2>3. \A i \in DOMAIN Tail(q.todo) : \A j \in DOMAIN tables : ~Above(Tail(q.todo)[i], tables[j])
    <3> SUFFICES ASSUME NEW i \in DOMAIN Tail(q.todo), NEW j \in DOMAIN below, Len(at) = 2
                 PROVE  ~Above(Tail(q.todo)[i], below[j])
      BY <1>10
    <3>1. PICK x \in Found!Names : below[j] = Append(at, x)
      BY <1>4
    <3> QED BY <3>1, <1>3, <1>6, AboveAppend
  <2> SUFFICES ASSUME NEW i \in DOMAIN more, NEW j \in DOMAIN all
               PROVE  ~Above(more[i], all[j])
    BY <1>13
  <2>4. CASE i \in DOMAIN lists2 /\ more[i] = lists2[i]
    BY <2>4, <1>9, <2>1, <2>2
  <2>5. CASE i - Len(lists2) \in DOMAIN Tail(q.todo) /\ more[i] = Tail(q.todo)[i - Len(lists2)]
    BY <2>5, <1>6, <1>9, <2>3
  <2> QED BY <1>15, <2>4, <2>5
<1> HIDE DEF ahead
<1>21. ahead \in Seq(Found!Places) /\ (\A i \in DOMAIN ahead : ahead = more /\ i \in DOMAIN more)
       /\ (Len(flat) < MaxTables => ahead = more)
  <2>1. CASE Len(flat) >= MaxTables
    <3>1. ahead = <<>>
      BY <2>1 DEF ahead
    <3>3. <<>> \in Seq(Found!Places) /\ DOMAIN <<>> = {}
      OBVIOUS
    <3>2. ~(Len(flat) < MaxTables)
      <4>1. MaxTables \in Nat /\ Len(flat) \in Nat
        BY <1>13 DEF Found!MetadataConstants
      <4>2. \A m, n \in Nat : m >= n => ~(m < n)
        OBVIOUS
      <4> QED BY <4>1, <4>2, <2>1
    <3> QED BY <3>1, <3>2, <3>3
  <2>2. CASE ~(Len(flat) >= MaxTables)
    BY <2>2, <1>15 DEF more, ahead
  <2> QED BY <2>1, <2>2
<1>22. ASSUME Len(flat) < MaxTables, NEW tab \in Found!TablesOf(s)
       PROVE  Found!Covers(Found!Range(flat) \cup Found!Range(ahead) \cup q.skipped, tab)
  <2>1. flat = all /\ ahead = more
    BY <1>22, <1>13, <1>21
  <2>2. Len(q.flat) < MaxTables
    <3>1. Len(all) = Len(q.flat) + Len(tables)
      BY <1>1, <1>8, JoinFacts DEF all
    <3>2. Len(tables) \in Nat /\ Len(q.flat) \in Nat /\ MaxTables \in Nat
      BY <1>1, <1>8 DEF Found!MetadataConstants
    <3> QED BY <3>1, <3>2, <2>1, <1>22
  <2>3. Found!Covers(Found!Range(q.flat) \cup Found!Range(q.todo) \cup q.skipped, tab)
    BY <2>2, <1>22 DEF SearchInv, WholeSearch
  <2>4. Found!Range(below) \subseteq Found!Range(tables) \cup Found!Range(lists2)
    BY DEF tables, lists2
  <2>5. (Found!Range(q.flat) \cup Found!Range(q.todo) \cup q.skipped) \ {at}
            \subseteq Found!Range(flat) \cup Found!Range(ahead) \cup q.skipped
    BY <2>1, <1>2, <1>9, <1>15
  <2>6. \A x \in Found!Range(Lists[s][at]) : Append(at, x) \in Found!Range(flat) \cup Found!Range(ahead) \cup q.skipped
    BY <2>1, <2>4, <1>4, <1>9, <1>15
  <2> DEFINE P == Found!Range(q.flat) \cup Found!Range(q.todo) \cup q.skipped
             Q == Found!Range(flat) \cup Found!Range(ahead) \cup q.skipped
  <2>7. Found!Covers(P, tab) /\ P \ {at} \subseteq Q /\ \A x \in Found!Range(Lists[s][at]) : Append(at, x) \in Q
    BY <2>3, <2>5, <2>6
  <2> HIDE DEF P, Q
  <2>8. Found!Covers(Q, tab)
    BY <2>7, <1>1, <1>3, <1>22, BelowCovers
  <2> QED BY <2>8 DEF Q
<1>23. q.skipped \in SUBSET Found!Places
  BY <1>1 DEF Searches
<1>24. SearchInv([q EXCEPT !.waits = FALSE, !.flat = flat, !.todo = ahead, !.skipped = q.skipped])
  BY <1>13, <1>14, <1>17, <1>19, <1>20, <1>21, <1>22, <1>23, NamesKeep
<1>25. [q EXCEPT !.waits = FALSE, !.flat = flat, !.todo = ahead, !.skipped = q.skipped]
       = [q EXCEPT !.waits = FALSE, !.flat = flat, !.todo = ahead]
  BY <1>1 DEF Searches
<1> QED BY <1>24, <1>25 DEF ahead, lists2

\* Ranked: the same tables in another order.
LEMMA RankKeeps ==
    ASSUME Found!MetadataConstants, NEW q, SearchInv(q), q.phase = "names", q.todo = <<>>,
           NEW ranked \in Found!Bijection(DOMAIN q.flat, Found!Range(q.flat))
    PROVE  SearchInv([q EXCEPT !.phase = "columns", !.flat = ranked])
<1> DEFINE r == [q EXCEPT !.phase = "columns", !.flat = ranked]
<1>1. /\ q \in Searches /\ q.of \in Sites /\ DOMAIN q.out = {} /\ q.next = 1 /\ q.context = <<>>
      /\ \A l \in Found!Lanes : q.lanes[l] = 0
      /\ q.flat \in Seq(Found!Places)
  BY NamesPhase
<1>2. /\ ranked \in [DOMAIN q.flat -> Found!Range(q.flat)] /\ Found!IsInjective(ranked)
      /\ \A t \in Found!Range(q.flat) : \E i \in DOMAIN q.flat : ranked[i] = t
  BY DEF Found!Bijection, Found!Injection, Found!Surjection
<1>3. DOMAIN ranked = DOMAIN q.flat /\ Found!Range(ranked) = Found!Range(q.flat)
  <2>1. \A i \in DOMAIN ranked : ranked[i] \in Found!Range(q.flat)
    BY <1>2
  <2> QED BY <1>2, <2>1 DEF Found!Range
<1>4. DOMAIN q.flat = 1 .. Len(q.flat) /\ Len(q.flat) \in Nat
      /\ \A t \in Found!Range(q.flat) : t \in Found!Places /\ t \in Found!TablesOf(q.of)
  BY <1>1 DEF Found!Range, SearchInv, PlacesOfSearch
<1>5. ranked \in Seq(Found!Places) /\ Len(ranked) = Len(q.flat)
      /\ \A i \in DOMAIN ranked : ranked[i] \in Found!TablesOf(q.of)
  BY <1>2, <1>3, <1>4
<1>6. r \in Searches /\ r.phase = "columns" /\ r.of = q.of /\ r.todo = <<>> /\ r.waits = q.waits
      /\ r.flat = ranked /\ r.next = q.next /\ r.lanes = q.lanes /\ r.out = q.out
      /\ r.skipped = q.skipped /\ r.context = q.context
  BY <1>1, <1>5 DEF Searches
<1> HIDE DEF r
<1>7. Phases(r) /\ PlacesOfSearch(r)
  <2>1. ~q.waits
    BY <1>1 DEF SearchInv, Phases, Searches
  <2> QED BY <1>1, <1>5, <1>6, <2>1 DEF SearchInv, Phases, PlacesOfSearch
<1>8. Gets(r) /\ PlacesApart(r) /\ Ready(r)
  <2>1. MaxHydrated \in Nat
    BY DEF Found!MetadataConstants
  <2> QED BY <1>1, <1>2, <1>6, <2>1 DEF Gets, PlacesApart, Ready
<1>9. WholeSearch(r) /\ Followed(r)
  <2>1. Found!Range(r.flat) \cup Found!Range(r.todo) \cup r.skipped = Found!Range(q.flat) \cup Found!Range(q.todo) \cup q.skipped
    BY <1>3, <1>6
  <2>2. \A i \in Hydrated(r) : ~(i < 1)
    BY DEF Hydrated
  <2> QED BY <1>1, <1>5, <1>6, <2>1, <2>2 DEF SearchInv, WholeSearch, Followed
<1> QED BY <1>6, <1>7, <1>8, <1>9 DEF SearchInv, r

\* What the columns phase looks like.
LEMMA ColumnsPhase ==
    ASSUME Found!MetadataConstants, NEW q, SearchInv(q), q.phase = "columns"
    PROVE  /\ q \in Searches /\ q.of \in Sites /\ q.context = <<>> /\ q.todo = <<>> /\ ~q.waits
           /\ q.flat \in Seq(Found!Places) /\ Hydrated(q) \subseteq DOMAIN q.flat
           /\ Hydrated(q) \subseteq 1 .. MaxHydrated /\ q.next \in Nat
           /\ \A i \in DOMAIN q.flat : q.flat[i] \in DOMAIN Lists[q.of] /\ q.flat[i] \in Found!TablesOf(q.of)
           /\ q.out \in [DOMAIN q.out -> AllLists] /\ DOMAIN q.out \subseteq Hydrated(q)
           /\ q.lanes \in [Found!Lanes -> {0} \cup Hydrated(q)]
<1>1. q \in Searches /\ q.of \in Sites /\ q.context = <<>> /\ q.todo = <<>> /\ ~q.waits
  BY DEF SearchInv, Phases
<1>2. q.flat \in Seq(Found!Places) /\ q.next \in Nat /\ q.out \in UNION {[D -> AllLists] : D \in SUBSET Nat}
      /\ q.lanes \in [Found!Lanes -> Nat]
  BY <1>1 DEF Searches
<1>3. \A i \in DOMAIN q.flat : q.flat[i] \in DOMAIN Lists[q.of] /\ q.flat[i] \in Found!TablesOf(q.of)
  BY <1>1, TablesAre DEF SearchInv, PlacesOfSearch
<1>4. MaxHydrated \in Nat /\ Len(q.flat) \in Nat /\ DOMAIN q.flat = 1 .. Len(q.flat)
  BY <1>2 DEF Found!MetadataConstants
<1>5. Hydrated(q) \subseteq DOMAIN q.flat /\ Hydrated(q) \subseteq 1 .. MaxHydrated
  BY <1>4 DEF Hydrated
<1>6. q.out \in [DOMAIN q.out -> AllLists]
  BY <1>2
<1>7. DOMAIN q.out \subseteq Hydrated(q) /\ \A l \in Found!Lanes : q.lanes[l] \in {0} \cup Hydrated(q)
  BY DEF SearchInv, Gets
<1> QED BY <1>1, <1>2, <1>3, <1>5, <1>6, <1>7

\* A search in the columns phase, of what its lanes do.
LEMMA ColumnsKeep ==
    ASSUME Found!MetadataConstants, NEW q, SearchInv(q), q.phase = "columns",
           NEW next \in 1 .. MaxHydrated + 1, NEW lanes \in [Found!Lanes -> {0} \cup Hydrated(q)],
           NEW out \in UNION {[D -> AllLists] : D \in SUBSET Hydrated(q)}, NEW missed \in SUBSET Found!Places,
           \A i \in DOMAIN out : out[i] = Lists[q.of][q.flat[i]], q.skipped \subseteq missed,
           \A i \in Hydrated(q) : i < next =>
                i \in DOMAIN out \/ (\E l \in Found!Lanes : lanes[l] = i) \/ q.flat[i] \in missed
    PROVE  SearchInv([q EXCEPT !.next = next, !.lanes = lanes, !.out = out, !.skipped = missed])
<1> DEFINE r == [q EXCEPT !.next = next, !.lanes = lanes, !.out = out, !.skipped = missed]
<1>1. /\ q \in Searches /\ q.of \in Sites /\ q.context = <<>> /\ q.todo = <<>> /\ ~q.waits
      /\ q.flat \in Seq(Found!Places) /\ Hydrated(q) \subseteq 1 .. MaxHydrated /\ MaxHydrated \in Nat
  BY ColumnsPhase DEF Found!MetadataConstants
<1>2. lanes \in [Found!Lanes -> Nat] /\ next \in Nat
  BY <1>1
<1>3. out \in UNION {[D -> AllLists] : D \in SUBSET Nat} /\ DOMAIN out \subseteq Hydrated(q)
  BY <1>1
<1>4. r \in Searches /\ r.phase = "columns" /\ r.of = q.of /\ r.todo = q.todo /\ r.waits = q.waits
      /\ r.flat = q.flat /\ r.next = next /\ r.lanes = lanes /\ r.out = out
      /\ r.skipped = missed /\ r.context = q.context
  BY <1>1, <1>2, <1>3 DEF Searches
<1> HIDE DEF r
<1>5. Hydrated(r) = Hydrated(q)
  BY <1>4 DEF Hydrated
<1>6. Phases(r) /\ PlacesOfSearch(r)
  BY <1>1, <1>4 DEF SearchInv, Phases, PlacesOfSearch
<1>7. Gets(r) /\ PlacesApart(r) /\ Ready(r)
  BY <1>1, <1>3, <1>4, <1>5 DEF SearchInv, Gets, PlacesApart, Ready
<1>8. Followed(r)
  BY <1>4, <1>5 DEF Followed, Through
<1>9. WholeSearch(r)
  <2> SUFFICES ASSUME Len(q.flat) < MaxTables, NEW at \in Found!TablesOf(q.of)
               PROVE  Found!Covers(Found!Range(r.flat) \cup Found!Range(r.todo) \cup r.skipped, at)
    BY <1>4 DEF WholeSearch
  <2>1. Found!Covers(Found!Range(q.flat) \cup Found!Range(q.todo) \cup q.skipped, at)
    BY DEF SearchInv, WholeSearch
  <2>2. Found!Range(q.flat) \cup Found!Range(q.todo) \cup q.skipped \subseteq Found!Range(r.flat) \cup Found!Range(r.todo) \cup r.skipped
    BY <1>4
  <2> QED BY <2>1, <2>2, MoreCovers
<1> QED BY <1>4, <1>6, <1>7, <1>8, <1>9 DEF SearchInv, r

\* A lane takes the next table, whose columns are known.
LEMMA TakeKnownKeeps ==
    ASSUME Found!MetadataConstants, NEW q, SearchInv(q), q.phase = "columns", q.next \in Hydrated(q)
    PROVE  SearchInv([q EXCEPT !.next = @ + 1,
                               !.out = Found!With(@, {q.next}, Lists[q.of][q.flat[q.next]])])
<1> DEFINE list == Lists[q.of][q.flat[q.next]]
           out == Found!With(q.out, {q.next}, list)
<1>1. /\ q \in Searches /\ q.of \in Sites /\ Hydrated(q) \subseteq DOMAIN q.flat
      /\ Hydrated(q) \subseteq 1 .. MaxHydrated /\ q.next \in Nat /\ MaxHydrated \in Nat
      /\ \A i \in DOMAIN q.flat : q.flat[i] \in DOMAIN Lists[q.of]
      /\ q.out \in [DOMAIN q.out -> AllLists] /\ DOMAIN q.out \subseteq Hydrated(q)
      /\ q.lanes \in [Found!Lanes -> {0} \cup Hydrated(q)]
  BY ColumnsPhase DEF Found!MetadataConstants
<1>2. list \in AllLists
  BY <1>1, ListFacts
<1>3. /\ DOMAIN out = DOMAIN q.out \cup {q.next}
      /\ \A i \in DOMAIN out : out[i] = IF i = q.next THEN list ELSE q.out[i]
  BY DEF Found!With
<1> HIDE DEF list
<1>4. out \in [DOMAIN out -> AllLists] /\ DOMAIN out \in SUBSET Hydrated(q)
  <2>1. \A i \in DOMAIN out : out[i] \in AllLists
    BY <1>1, <1>2, <1>3
  <2>2. out = [i \in DOMAIN out |-> out[i]]
    BY <1>3 DEF Found!With
  <2> QED BY <1>1, <1>3, <2>1, <2>2
<1> HIDE DEF out
<1>5. \A i \in DOMAIN out : out[i] = Lists[q.of][q.flat[i]]
  BY <1>3 DEF SearchInv, Gets, list
<1>6. \A i \in Hydrated(q) : i < q.next + 1 =>
        i \in DOMAIN out \/ (\E l \in Found!Lanes : q.lanes[l] = i) \/ q.flat[i] \in q.skipped
  <2> SUFFICES ASSUME NEW i \in Hydrated(q), i < q.next + 1, i # q.next
               PROVE  i \in DOMAIN out \/ (\E l \in Found!Lanes : q.lanes[l] = i) \/ q.flat[i] \in q.skipped
    BY <1>3
  <2>1. i < q.next
    BY <1>1
  <2> QED BY <2>1, <1>3 DEF SearchInv, Followed, Through
<1>7. q.skipped \in SUBSET Found!Places /\ q.next + 1 \in 1 .. MaxHydrated + 1
      /\ out \in UNION {[D -> AllLists] : D \in SUBSET Hydrated(q)}
  <2>1. q.skipped \in SUBSET Found!Places
    BY <1>1 DEF Searches
  <2>2. q.next + 1 \in 1 .. MaxHydrated + 1
    BY <1>1
  <2>3. out \in UNION {[D -> AllLists] : D \in SUBSET Hydrated(q)}
    BY <1>4
  <2> QED BY <2>1, <2>2, <2>3
<1>8. SearchInv([q EXCEPT !.next = q.next + 1, !.lanes = q.lanes, !.out = out, !.skipped = q.skipped])
  BY <1>1, <1>5, <1>6, <1>7, ColumnsKeep
<1>9. [q EXCEPT !.next = q.next + 1, !.lanes = q.lanes, !.out = out, !.skipped = q.skipped]
      = [q EXCEPT !.next = q.next + 1, !.out = out]
  BY <1>1 DEF Searches
<1> QED BY <1>8, <1>9 DEF out, list

\* A lane takes the next table, and waits for its columns.
LEMMA TakeAsksKeeps ==
    ASSUME Found!MetadataConstants, NEW q, SearchInv(q), q.phase = "columns", q.next \in Hydrated(q),
           NEW l \in Found!Lanes, q.lanes[l] = 0
    PROVE  SearchInv([q EXCEPT !.next = @ + 1, !.lanes[l] = q.next])
<1> DEFINE lanes == [q.lanes EXCEPT ![l] = q.next]
<1>1. /\ q \in Searches /\ q.of \in Sites /\ Hydrated(q) \subseteq DOMAIN q.flat
      /\ Hydrated(q) \subseteq 1 .. MaxHydrated /\ q.next \in Nat /\ MaxHydrated \in Nat
      /\ q.out \in [DOMAIN q.out -> AllLists] /\ DOMAIN q.out \subseteq Hydrated(q)
      /\ q.lanes \in [Found!Lanes -> {0} \cup Hydrated(q)]
  BY ColumnsPhase DEF Found!MetadataConstants
<1>2. lanes \in [Found!Lanes -> {0} \cup Hydrated(q)] /\ lanes[l] = q.next
      /\ \A k \in Found!Lanes : k # l => lanes[k] = q.lanes[k]
  BY <1>1
<1> HIDE DEF lanes
<1>3. \A i \in DOMAIN q.out : q.out[i] = Lists[q.of][q.flat[i]]
  BY DEF SearchInv, Gets
<1>4. \A i \in Hydrated(q) : i < q.next + 1 =>
        i \in DOMAIN q.out \/ (\E k \in Found!Lanes : lanes[k] = i) \/ q.flat[i] \in q.skipped
  <2> SUFFICES ASSUME NEW i \in Hydrated(q), i < q.next + 1, i # q.next
               PROVE  i \in DOMAIN q.out \/ (\E k \in Found!Lanes : lanes[k] = i) \/ q.flat[i] \in q.skipped
    BY <1>2
  <2>1. i < q.next /\ i # 0
    BY <1>1
  <2>2. i \in DOMAIN q.out \/ (\E k \in Found!Lanes : q.lanes[k] = i) \/ q.flat[i] \in q.skipped
    BY <2>1 DEF SearchInv, Followed, Through
  <2>3. ASSUME NEW k \in Found!Lanes, q.lanes[k] = i PROVE lanes[k] = i
    BY <2>1, <2>3, <1>2
  <2> QED BY <2>2, <2>3
<1>5. q.skipped \in SUBSET Found!Places /\ q.next + 1 \in 1 .. MaxHydrated + 1
      /\ q.out \in UNION {[D -> AllLists] : D \in SUBSET Hydrated(q)}
  <2>1. q.skipped \in SUBSET Found!Places
    BY <1>1 DEF Searches
  <2>2. q.next + 1 \in 1 .. MaxHydrated + 1
    BY <1>1
  <2>3. q.out \in UNION {[D -> AllLists] : D \in SUBSET Hydrated(q)}
    BY <1>1
  <2> QED BY <2>1, <2>2, <2>3
<1>6. SearchInv([q EXCEPT !.next = q.next + 1, !.lanes = lanes, !.out = q.out, !.skipped = q.skipped])
  BY <1>2, <1>3, <1>4, <1>5, ColumnsKeep
<1>7. [q EXCEPT !.next = q.next + 1, !.lanes = lanes, !.out = q.out, !.skipped = q.skipped]
      = [q EXCEPT !.next = q.next + 1, !.lanes[l] = q.next]
  BY <1>1 DEF Searches, lanes
<1> QED BY <1>6, <1>7

LaneWaits(q, l, path) == q.lanes[l] # 0 /\ Found!Path(q.of, q.flat[q.lanes[l]]) = path

\* Lanes that a list comes for put it with their tables.
LEMMA ListAnswerKeeps ==
    ASSUME Found!MetadataConstants, NEW q, SearchInv(q), NEW path, NEW list,
           \A l \in Found!Lanes : LaneWaits(q, l, path) => list = Lists[q.of][q.flat[q.lanes[l]]]
    PROVE  SearchInv([q EXCEPT
                !.lanes = [l \in Found!Lanes |-> IF LaneWaits(q, l, path) THEN 0 ELSE @[l]],
                !.out = Found!With(@, {q.lanes[l] : l \in {k \in Found!Lanes : LaneWaits(q, k, path)}}, list)])
<1> DEFINE got == {q.lanes[l] : l \in {k \in Found!Lanes : LaneWaits(q, k, path)}}
           lanes == [l \in Found!Lanes |-> IF LaneWaits(q, l, path) THEN 0 ELSE q.lanes[l]]
           out == Found!With(q.out, got, list)
           r == [q EXCEPT !.lanes = lanes, !.out = out]
<1>0. q \in Searches
  BY DEF SearchInv
<1>1. q.lanes \in [Found!Lanes -> Nat] /\ q.out \in UNION {[D -> AllLists] : D \in SUBSET Nat}
      /\ q.skipped \in SUBSET Found!Places /\ q.next \in Nat
  BY <1>0 DEF Searches
<1>2. /\ DOMAIN out = DOMAIN q.out \cup got
      /\ \A i \in DOMAIN out : out[i] = IF i \in got THEN list ELSE q.out[i]
      /\ out = [i \in DOMAIN q.out \cup got |-> out[i]]
  BY DEF Found!With
<1>3. CASE q.phase # "columns"
  <2>1. \A l \in Found!Lanes : ~LaneWaits(q, l, path)
    BY <1>3 DEF SearchInv, Phases, LaneWaits
  <2>2. got = {}
    BY <2>1
  <2>3. lanes = q.lanes
    BY <2>1, <1>1
  <2> HIDE DEF got
  <2>4. out = q.out
    <3>1. q.out = [i \in DOMAIN q.out |-> q.out[i]]
      BY <1>1
    <3> QED BY <1>2, <2>2, <3>1 DEF Found!With
  <2> HIDE DEF lanes, out
  <2>5. r = q
    BY <1>0, <2>3, <2>4 DEF Searches
  <2> QED BY <2>5 DEF lanes, out, got
<1>4. CASE q.phase = "columns"
  <2>1. /\ q.of \in Sites /\ Hydrated(q) \subseteq DOMAIN q.flat /\ Hydrated(q) \subseteq 1 .. MaxHydrated
        /\ \A i \in DOMAIN q.flat : q.flat[i] \in DOMAIN Lists[q.of]
        /\ q.out \in [DOMAIN q.out -> AllLists] /\ DOMAIN q.out \subseteq Hydrated(q)
        /\ q.lanes \in [Found!Lanes -> {0} \cup Hydrated(q)] /\ MaxHydrated \in Nat
    BY <1>4, ColumnsPhase DEF Found!MetadataConstants
  <2>2. \A i \in got : i \in Hydrated(q) /\ list = Lists[q.of][q.flat[i]] /\ list \in AllLists
    <3> SUFFICES ASSUME NEW l \in Found!Lanes, LaneWaits(q, l, path)
                 PROVE  /\ q.lanes[l] \in Hydrated(q) /\ list = Lists[q.of][q.flat[q.lanes[l]]]
                        /\ list \in AllLists
      OBVIOUS
    <3>1. q.lanes[l] \in Hydrated(q)
      BY <2>1 DEF LaneWaits
    <3>2. q.flat[q.lanes[l]] \in DOMAIN Lists[q.of]
      BY <3>1, <2>1
    <3>3. list = Lists[q.of][q.flat[q.lanes[l]]]
      OBVIOUS
    <3> QED BY <3>1, <3>2, <3>3, <2>1, ListFacts
  <2>3. lanes \in [Found!Lanes -> {0} \cup Hydrated(q)]
    BY <2>1
  <2>4. \A i : (\E l \in Found!Lanes : q.lanes[l] = i) => i \in got \/ \E l \in Found!Lanes : lanes[l] = i
    BY DEF LaneWaits
  <2> HIDE DEF got, lanes
  <2>5. out \in UNION {[D -> AllLists] : D \in SUBSET Hydrated(q)}
    <3>1. DOMAIN out \in SUBSET Hydrated(q)
      BY <1>2, <2>1, <2>2
    <3>2. \A i \in DOMAIN out : out[i] \in AllLists
      BY <1>2, <2>1, <2>2
    <3>3. out \in [DOMAIN out -> AllLists]
      BY <1>2, <3>2
    <3> QED BY <3>1, <3>3
  <2> HIDE DEF out
  <2>6. \A i \in DOMAIN out : out[i] = Lists[q.of][q.flat[i]]
    BY <1>2, <2>2 DEF SearchInv, Gets
  <2>7. \A i \in Hydrated(q) : i < q.next =>
            i \in DOMAIN out \/ (\E l \in Found!Lanes : lanes[l] = i) \/ q.flat[i] \in q.skipped
    BY <1>2, <1>4, <2>4 DEF SearchInv, Followed, Through
  <2>8. q.next \in 1 .. MaxHydrated + 1
    BY DEF SearchInv, Gets
  <2>9. SearchInv([q EXCEPT !.next = q.next, !.lanes = lanes, !.out = out, !.skipped = q.skipped])
    BY <1>1, <1>4, <2>3, <2>5, <2>6, <2>7, <2>8, ColumnsKeep
  <2>10. [q EXCEPT !.next = q.next, !.lanes = lanes, !.out = out, !.skipped = q.skipped]
         = [q EXCEPT !.lanes = lanes, !.out = out]
    BY <1>0 DEF Searches
  <2> QED BY <2>9, <2>10 DEF lanes, out, got
<1> QED BY <1>3, <1>4

\* The lanes that wait for a query.
Freed(q, path) == {l \in Found!Lanes : q.phase = "columns" /\ LaneWaits(q, l, path)}

\* Lanes whose columns are refused leave their table to those without.
LEMMA LanesDeniedKeep ==
    ASSUME Found!MetadataConstants, NEW q, SearchInv(q), NEW path, path[2] \in Found!Places,
           NEW freed, freed = Freed(q, path)
    PROVE  SearchInv([q EXCEPT !.lanes = [l \in Found!Lanes |-> IF l \in freed THEN 0 ELSE @[l]],
                               !.skipped = IF freed # {} THEN @ \cup {path[2]} ELSE @])
<1> DEFINE lanes == [l \in Found!Lanes |-> IF l \in freed THEN 0 ELSE q.lanes[l]]
           missed == IF freed # {} THEN q.skipped \cup {path[2]} ELSE q.skipped
<1>0. q \in Searches
  BY DEF SearchInv
<1>1. q.lanes \in [Found!Lanes -> Nat] /\ q.skipped \in SUBSET Found!Places
  BY <1>0 DEF Searches
<1>2. missed \in SUBSET Found!Places /\ q.skipped \subseteq missed
  BY <1>1
<1>3. CASE freed = {}
  <2>1. lanes = q.lanes /\ missed = q.skipped
    BY <1>1, <1>3
  <2>2. [q EXCEPT !.lanes = q.lanes, !.skipped = q.skipped] = q
    BY <1>0 DEF Searches
  <2> QED BY <2>1, <2>2
<1>4. CASE freed # {}
  <2>0. q.phase = "columns"
    BY <1>4 DEF Freed
  <2>1. /\ q.of \in Sites /\ q.out \in [DOMAIN q.out -> AllLists] /\ DOMAIN q.out \subseteq Hydrated(q)
        /\ q.lanes \in [Found!Lanes -> {0} \cup Hydrated(q)]
    BY <2>0, ColumnsPhase
  <2>2. lanes \in [Found!Lanes -> {0} \cup Hydrated(q)]
    BY <2>1
  <2>3. \A l \in freed : q.flat[q.lanes[l]] \in missed
    BY <1>4 DEF Freed, LaneWaits, Found!Path
  <2>4. \A i : (\E l \in Found!Lanes : q.lanes[l] = i) => q.flat[i] \in missed \/ \E l \in Found!Lanes : lanes[l] = i
    BY <2>3
  <2> HIDE DEF lanes, missed
  <2>5. \A i \in Hydrated(q) : i < q.next =>
            i \in DOMAIN q.out \/ (\E l \in Found!Lanes : lanes[l] = i) \/ q.flat[i] \in missed
    BY <1>2, <2>0, <2>4 DEF SearchInv, Followed, Through
  <2>6. q.out \in UNION {[D -> AllLists] : D \in SUBSET Hydrated(q)} /\ q.next \in 1 .. MaxHydrated + 1
        /\ \A i \in DOMAIN q.out : q.out[i] = Lists[q.of][q.flat[i]]
    <3>1. q.out \in UNION {[D -> AllLists] : D \in SUBSET Hydrated(q)}
      BY <2>1
    <3> QED BY <3>1 DEF SearchInv, Gets
  <2>7. SearchInv([q EXCEPT !.next = q.next, !.lanes = lanes, !.out = q.out, !.skipped = missed])
    BY <1>2, <2>0, <2>2, <2>5, <2>6, ColumnsKeep
  <2>8. [q EXCEPT !.next = q.next, !.lanes = lanes, !.out = q.out, !.skipped = missed]
         = [q EXCEPT !.lanes = lanes, !.skipped = missed]
    BY <1>0 DEF Searches
  <2> QED BY <2>7, <2>8 DEF lanes, missed
<1> QED BY <1>3, <1>4

\* A list that is refused is left out.
LEMMA ListDeniedKeeps ==
    ASSUME Found!MetadataConstants, NEW q, SearchInv(q), q.phase = "names", q.todo # <<>>,
           NEW at, at = Head(q.todo)
    PROVE  SearchInv([q EXCEPT !.waits = FALSE, !.todo = Tail(@), !.skipped = @ \cup {at}])
<1>1. /\ q \in Searches /\ q.of \in Sites /\ q.todo \in Seq(Found!Places) /\ q.flat \in Seq(Found!Places)
  BY NamesPhase
<1>2. /\ at \in Found!Places /\ Tail(q.todo) \in Seq(Found!Places)
      /\ \A i \in DOMAIN Tail(q.todo) : i + 1 \in DOMAIN q.todo /\ Tail(q.todo)[i] = q.todo[i + 1] /\ i \in Nat
      /\ Found!Range(q.todo) = {at} \cup Found!Range(Tail(q.todo))
  BY <1>1, TailFacts
<1> DEFINE ahead == Tail(q.todo)
<1> HIDE DEF ahead
<1>3. /\ Len(q.flat) <= MaxTables /\ \A i \in DOMAIN q.flat : q.flat[i] \in Found!TablesOf(q.of)
      /\ Found!IsInjective(q.flat)
  BY DEF SearchInv, PlacesOfSearch, PlacesApart
<1>4. \A i \in DOMAIN ahead : ahead[i] \in DOMAIN Lists[q.of] /\ Len(ahead[i]) <= 2
  BY <1>2 DEF SearchInv, PlacesOfSearch, ahead
<1>5. \A i, j \in DOMAIN ahead : Above(ahead[i], ahead[j]) => i = j
  <2> SUFFICES ASSUME NEW i \in DOMAIN ahead, NEW j \in DOMAIN ahead, Above(ahead[i], ahead[j])
               PROVE  i = j
    OBVIOUS
  <2>1. i + 1 = j + 1
    BY <1>2 DEF SearchInv, PlacesApart, ahead
  <2> QED BY <2>1, <1>2 DEF ahead
<1>6. \A i \in DOMAIN ahead : \A j \in DOMAIN q.flat : ~Above(ahead[i], q.flat[j])
  BY <1>2 DEF SearchInv, PlacesApart, ahead
<1>7. q.skipped \cup {at} \in SUBSET Found!Places
  BY <1>1, <1>2 DEF Searches
<1>8. Len(q.flat) < MaxTables =>
        \A tab \in Found!TablesOf(q.of) : Found!Covers(Found!Range(q.flat) \cup Found!Range(ahead) \cup (q.skipped \cup {at}), tab)
  <2>1. Found!Range(q.flat) \cup Found!Range(ahead) \cup (q.skipped \cup {at}) = Found!Range(q.flat) \cup Found!Range(q.todo) \cup q.skipped
    BY <1>2 DEF ahead
  <2> QED BY <2>1 DEF SearchInv, WholeSearch
<1>9. SearchInv([q EXCEPT !.waits = FALSE, !.flat = q.flat, !.todo = ahead, !.skipped = q.skipped \cup {at}])
  BY <1>1, <1>2, <1>3, <1>4, <1>5, <1>6, <1>7, <1>8, NamesKeep DEF ahead
<1>10. [q EXCEPT !.waits = FALSE, !.flat = q.flat, !.todo = ahead, !.skipped = q.skipped \cup {at}]
       = [q EXCEPT !.waits = FALSE, !.todo = ahead, !.skipped = q.skipped \cup {at}]
  BY <1>1 DEF Searches
<1> QED BY <1>9, <1>10 DEF ahead

\* Without the catalogs the question goes alone.
LEMMA CatalogsDeniedKeep ==
    ASSUME Found!MetadataConstants, NEW q, SearchInv(q), q.phase = "names"
    PROVE  SearchInv([q EXCEPT !.phase = "sent", !.waits = FALSE, !.todo = <<>>, !.skipped = {<<>>}])
<1> DEFINE r == [q EXCEPT !.phase = "sent", !.waits = FALSE, !.todo = <<>>, !.skipped = {<<>>}]
<1>1. /\ q \in Searches /\ q.of \in Sites /\ q.context = <<>>
      /\ \A l \in Found!Lanes : q.lanes[l] = 0
  BY NamesPhase
<1>2. <<>> \in Found!Places /\ <<>> \in Seq(Found!Places) /\ DOMAIN <<>> = {}
  BY <1>1, SitesAre, ListFacts
<1>3. r \in Searches /\ r.phase = "sent" /\ r.of = q.of /\ r.todo = <<>> /\ r.waits = FALSE
      /\ r.flat = q.flat /\ r.next = q.next /\ r.lanes = q.lanes /\ r.out = q.out
      /\ r.skipped = {<<>>} /\ r.context = q.context
  BY <1>1, <1>2 DEF Searches
<1> HIDE DEF r
<1>4. Phases(r) /\ PlacesOfSearch(r)
  BY <1>1, <1>2, <1>3 DEF SearchInv, Phases, PlacesOfSearch
<1>5. Gets(r) /\ PlacesApart(r) /\ Followed(r)
  <2>1. Hydrated(r) = Hydrated(q)
    BY <1>3 DEF Hydrated
  <2> QED BY <1>2, <1>3, <2>1 DEF SearchInv, Gets, PlacesApart, Followed
<1>6. \A at \in Found!TablesOf(q.of) : \A P : <<>> \in P => Found!Covers(P, at)
  <2> SUFFICES ASSUME NEW at \in Found!TablesOf(q.of), NEW P, <<>> \in P PROVE Found!Covers(P, at)
    OBVIOUS
  <2>1. at \in Seq(Found!Names)
    BY <1>1, TablesAre, ListFacts
  <2>2. SubSeq(at, 1, 0) = <<>>
    BY <2>1
  <2> QED BY <2>2, 0 \in 0 .. 3 DEF Found!Covers
<1>7. WholeSearch(r) /\ Ready(r)
  BY <1>1, <1>2, <1>3, <1>6 DEF WholeSearch, Ready
<1> QED BY <1>3, <1>4, <1>5, <1>7 DEF SearchInv, r

\* The entries with columns, and those without.
Filled(q, got, names, a, b) ==
    /\ a = [i \in DOMAIN got |-> [table |-> q.flat[got[i]], columns |-> q.out[got[i]]]]
    /\ b = [i \in DOMAIN names |-> [table |-> names[i], columns |-> Unlisted]]

\* The tables with columns, then the names: what goes with the question.
LEMMA EndsKeeps ==
    ASSUME Found!MetadataConstants, NEW q, SearchInv(q), q.phase = "columns",
           NEW top, Hydrated(q) = 1 .. top, top \in Nat, top <= Len(q.flat),
           q.next > top, \A l \in Found!Lanes : q.lanes[l] = 0,
           NEW n \in Nat, NEW got \in Found!Bijection(1 .. n, DOMAIN q.out),
           NEW names, names = SubSeq(q.flat, top + 1, Len(q.flat)),
           NEW a, NEW b, Filled(q, got, names, a, b)
    PROVE  SearchInv([q EXCEPT !.phase = "sent", !.context = a \o b])
<1> DEFINE context == a \o b
           r == [q EXCEPT !.phase = "sent", !.context = context]
<1>1. /\ q \in Searches /\ q.of \in Sites /\ q.context = <<>> /\ q.todo = <<>> /\ ~q.waits
      /\ q.flat \in Seq(Found!Places) /\ Hydrated(q) \subseteq DOMAIN q.flat
      /\ \A i \in DOMAIN q.flat : q.flat[i] \in DOMAIN Lists[q.of] /\ q.flat[i] \in Found!TablesOf(q.of)
      /\ DOMAIN q.out \subseteq Hydrated(q)
  BY ColumnsPhase
<1>2. /\ DOMAIN got = 1 .. n /\ Found!IsInjective(got)
      /\ \A i \in 1 .. n : got[i] \in DOMAIN q.out
      /\ \A k \in DOMAIN q.out : \E i \in 1 .. n : got[i] = k
  BY DEF Found!Bijection, Found!Injection, Found!Surjection
<1>3. /\ Len(q.flat) \in Nat /\ DOMAIN q.flat = 1 .. Len(q.flat)
      /\ \A k \in DOMAIN q.out : k \in 1 .. top /\ q.out[k] = Lists[q.of][q.flat[k]]
  BY <1>1 DEF SearchInv, Gets
<1>4. /\ names \in Seq(Found!Places) /\ Len(names) = Len(q.flat) - top
      /\ \A i \in 1 .. Len(names) : i + top \in DOMAIN q.flat /\ names[i] = q.flat[i + top] /\ i + top \notin 1 .. top
  BY <1>1, <1>3
<1>5. DOMAIN names = 1 .. Len(names) /\ Len(names) \in Nat
  BY <1>4
<1>6. /\ a = [i \in 1 .. n |-> a[i]] /\ b = [i \in 1 .. Len(names) |-> b[i]]
      /\ \A i \in 1 .. n : a[i] = [table |-> q.flat[got[i]], columns |-> q.out[got[i]]]
      /\ \A i \in 1 .. Len(names) : b[i] = [table |-> names[i], columns |-> Unlisted]
  BY <1>2, <1>5 DEF Filled
<1> HIDE DEF context, r
<1>7. \A t \in Found!TablesOf(q.of) : \A c \in {Unlisted, Lists[q.of][t]} :
            /\ [table |-> t, columns |-> c] \in Entries
            /\ [table |-> t, columns |-> c].table = t /\ [table |-> t, columns |-> c].columns = c
  BY <1>1 DEF Entries, Entry
<1>8. \A i \in 1 .. n : a[i] \in Entries /\ got[i] \in 1 .. top /\ got[i] \in DOMAIN q.flat
        /\ a[i].table = q.flat[got[i]] /\ a[i].columns = Lists[q.of][q.flat[got[i]]]
        /\ a[i].table \in Found!TablesOf(q.of)
  <2> SUFFICES ASSUME NEW i \in 1 .. n
               PROVE  a[i] \in Entries /\ got[i] \in 1 .. top /\ got[i] \in DOMAIN q.flat
                      /\ a[i].table = q.flat[got[i]] /\ a[i].columns = Lists[q.of][q.flat[got[i]]]
                      /\ a[i].table \in Found!TablesOf(q.of)
    OBVIOUS
  <2>1. got[i] \in 1 .. top /\ got[i] \in DOMAIN q.flat /\ q.out[got[i]] = Lists[q.of][q.flat[got[i]]]
        /\ q.flat[got[i]] \in Found!TablesOf(q.of)
    BY <1>1, <1>2, <1>3
  <2>2. PICK t \in Found!TablesOf(q.of) : t = q.flat[got[i]]
    BY <2>1
  <2>3. PICK c \in {Unlisted, Lists[q.of][t]} : c = q.out[got[i]] /\ c = Lists[q.of][t]
    BY <2>1, <2>2
  <2>4. a[i] = [table |-> t, columns |-> c]
    BY <2>2, <2>3, <1>6
  <2>5. a[i] \in Entries /\ a[i].table = t /\ a[i].columns = c
    <3>1. [table |-> t, columns |-> c] \in Entries
      BY <1>7
    <3>2. [table |-> t, columns |-> c].table = t
      BY <1>7
    <3>3. [table |-> t, columns |-> c].columns = c
      BY <1>7
    <3>4. a[i] \in Entries
      BY <2>4, <3>1
    <3>5. a[i].table = t
      BY <2>4
    <3>6. a[i].columns = c
      BY <2>4
    <3> QED BY <3>4, <3>5, <3>6
  <2> QED BY <2>1, <2>2, <2>3, <2>5
<1>9. \A i \in 1 .. Len(names) : b[i] \in Entries /\ b[i].table = q.flat[i + top] /\ b[i].columns = Unlisted
        /\ b[i].table \in Found!TablesOf(q.of)
  <2> SUFFICES ASSUME NEW i \in 1 .. Len(names)
               PROVE  b[i] \in Entries /\ b[i].table = q.flat[i + top] /\ b[i].columns = Unlisted
                      /\ b[i].table \in Found!TablesOf(q.of)
    OBVIOUS
  <2>1. PICK t \in Found!TablesOf(q.of) : t = names[i] /\ t = q.flat[i + top]
    BY <1>1, <1>4
  <2>2. b[i] = [table |-> t, columns |-> Unlisted]
    BY <2>1, <1>6
  <2>3. b[i] \in Entries /\ b[i].table = t /\ b[i].columns = Unlisted
    BY <2>2, <1>7
  <2> QED BY <2>1, <2>3
<1>10. a \in Seq(Entries) /\ Len(a) = n /\ b \in Seq(Entries) /\ Len(b) = Len(names)
       /\ DOMAIN a = 1 .. n /\ DOMAIN b = 1 .. Len(names)
  <2>1. \A i \in 1 .. n : a[i] \in Entries
    BY <1>8
  <2>2. \A i \in 1 .. Len(names) : b[i] \in Entries
    BY <1>9
  <2>3. a = [i \in 1 .. n |-> a[i]] /\ b = [i \in 1 .. Len(names) |-> b[i]]
    BY <1>6
  <2>4. a \in Seq(Entries) /\ Len(a) = n /\ DOMAIN a = 1 .. n
    BY <2>1, <2>3, SeqIs
  <2>5. b \in Seq(Entries) /\ Len(b) = Len(names) /\ DOMAIN b = 1 .. Len(names)
    BY <1>5, <2>2, <2>3, SeqIs
  <2> QED BY <2>4, <2>5
<1>11. /\ context \in Seq(Entries)
       /\ \A i \in DOMAIN context :
            \/ i \in DOMAIN a /\ context[i] = a[i]
            \/ i \notin DOMAIN a /\ i - Len(a) \in DOMAIN b /\ context[i] = b[i - Len(a)]
       /\ Found!Range(context) = Found!Range(a) \cup Found!Range(b)
  BY <1>10, JoinFacts DEF context
<1>12. \A i \in DOMAIN context : i \in Int
  BY <1>11
<1>13. r \in Searches /\ r.phase = "sent" /\ r.of = q.of /\ r.todo = q.todo /\ r.waits = q.waits
       /\ r.flat = q.flat /\ r.next = q.next /\ r.lanes = q.lanes /\ r.out = q.out
       /\ r.skipped = q.skipped /\ r.context = context
  BY <1>1, <1>11 DEF Searches, r
<1>14. Phases(r) /\ PlacesOfSearch(r) /\ Gets(r) /\ PlacesApart(r) /\ Followed(r)
  <2>1. Hydrated(r) = Hydrated(q)
    BY <1>13 DEF Hydrated
  <2> QED BY <1>1, <1>13, <2>1 DEF SearchInv, Phases, PlacesOfSearch, Gets, PlacesApart, Followed
<1>15. WholeSearch(r)
  BY <1>13 DEF SearchInv, WholeSearch
\* No table stands twice in the context.
<1>16. \A i, j \in DOMAIN context : context[i].table = context[j].table => i = j
  <2>1. \A i, j \in DOMAIN q.flat : q.flat[i] = q.flat[j] => i = j
    BY DEF SearchInv, PlacesApart, Found!IsInjective
  <2>2. \A i, j \in DOMAIN a : a[i].table = a[j].table => i = j
    <3> SUFFICES ASSUME NEW i \in DOMAIN a, NEW j \in DOMAIN a, a[i].table = a[j].table PROVE i = j
      OBVIOUS
    <3>1. i \in 1 .. n /\ j \in 1 .. n
      BY <1>10
    <3>2. q.flat[got[i]] = q.flat[got[j]] /\ got[i] \in DOMAIN q.flat /\ got[j] \in DOMAIN q.flat
      BY <3>1, <1>8
    <3>3. got[i] = got[j]
      BY <3>2, <2>1
    <3> QED BY <3>1, <3>3, <1>2 DEF Found!IsInjective
  <2>3. \A i, j \in DOMAIN b : b[i].table = b[j].table => i = j
    <3> SUFFICES ASSUME NEW i \in DOMAIN b, NEW j \in DOMAIN b, b[i].table = b[j].table PROVE i = j
      OBVIOUS
    <3>1. i \in 1 .. Len(names) /\ j \in 1 .. Len(names)
      BY <1>10
    <3>2. q.flat[i + top] = q.flat[j + top]
      BY <3>1, <1>9
    <3>3. i + top = j + top
      BY <3>1, <3>2, <1>4, <2>1
    <3> QED BY <3>1, <3>3
  <2>4. \A i \in DOMAIN a : \A j \in DOMAIN b : a[i].table # b[j].table
    <3> SUFFICES ASSUME NEW i \in DOMAIN a, NEW j \in DOMAIN b, a[i].table = b[j].table PROVE FALSE
      OBVIOUS
    <3>1. i \in 1 .. n /\ j \in 1 .. Len(names)
      BY <1>10
    <3>2. q.flat[got[i]] = q.flat[j + top]
      BY <3>1, <1>8, <1>9
    <3>3. got[i] \in 1 .. top /\ got[i] \in DOMAIN q.flat /\ j + top \in DOMAIN q.flat /\ j + top \notin 1 .. top
      BY <3>1, <1>4, <1>8
    <3> QED BY <3>2, <3>3, <2>1
  <2>5. \A i, j \in DOMAIN context : Len(a) \in Nat /\ (i - Len(a) = j - Len(a) => i = j)
    BY <1>10, <1>12
  <2> QED BY <1>11, <2>2, <2>3, <2>4, <2>5
<1>17. \A i \in DOMAIN context : context[i].table \in Found!TablesOf(q.of)
            /\ context[i].columns \in {Unlisted, Lists[q.of][context[i].table]}
  <2> SUFFICES ASSUME NEW i \in DOMAIN context
               PROVE  /\ context[i].table \in Found!TablesOf(q.of)
                      /\ context[i].columns \in {Unlisted, Lists[q.of][context[i].table]}
    OBVIOUS
  <2>1. CASE i \in DOMAIN a /\ context[i] = a[i]
    <3>1. i \in 1 .. n
      BY <2>1, <1>10
    <3>2. a[i].table = q.flat[got[i]] /\ a[i].columns = Lists[q.of][q.flat[got[i]]] /\ a[i].table \in Found!TablesOf(q.of)
      BY <3>1, <1>8
    <3> QED BY <2>1, <3>2
  <2>2. CASE i - Len(a) \in DOMAIN b /\ context[i] = b[i - Len(a)]
    <3>1. i - Len(a) \in 1 .. Len(names)
      BY <2>2, <1>10
    <3>2. b[i - Len(a)].columns = Unlisted /\ b[i - Len(a)].table \in Found!TablesOf(q.of)
      BY <3>1, <1>9
    <3> QED BY <2>2, <3>2
  <2> QED BY <2>1, <2>2, <1>11
<1>18. ASSUME Len(q.flat) < MaxTables, NEW at \in Found!TablesOf(q.of)
       PROVE  Found!Covers(SentTables(r) \cup r.skipped, at)
  <2>1. Found!Covers(Found!Range(q.flat) \cup Found!Range(q.todo) \cup q.skipped, at)
    BY <1>18 DEF SearchInv, WholeSearch
  <2>2. Found!Range(q.todo) = {}
    BY <1>1 DEF Found!Range
  <2>3. \A t : t \in Found!Range(a) \cup Found!Range(b) => t.table \in SentTables(r)
    <3>1. \A t \in Found!Range(context) : t.table \in SentTables(r)
      BY <1>13 DEF SentTables, Found!Range
    <3> QED BY <3>1, <1>11
  <2>4. \A k \in DOMAIN q.flat : q.flat[k] \in SentTables(r) \cup r.skipped
    <3> SUFFICES ASSUME NEW k \in DOMAIN q.flat PROVE q.flat[k] \in SentTables(r) \cup r.skipped
      OBVIOUS
    <3>1. CASE k > top
      <4>1. k - top \in 1 .. Len(names) /\ (k - top) + top = k
        BY <3>1, <1>3, <1>4
      <4>2. b[k - top].table = q.flat[k] /\ b[k - top] \in Found!Range(b)
        BY <4>1, <1>9, <1>10 DEF Found!Range
      <4> QED BY <4>2, <2>3
    <3>2. CASE k <= top
      <4>1. k \in Hydrated(q) /\ k < q.next /\ k # 0
        <5>1. q.next \in Nat
          BY ColumnsPhase
        <5> QED BY <3>2, <1>3, <5>1
      <4>2. k \in DOMAIN q.out \/ q.flat[k] \in q.skipped
        BY <4>1 DEF SearchInv, Followed, Through
      <4>3. CASE k \in DOMAIN q.out
        <5>1. PICK i \in 1 .. n : got[i] = k
          BY <4>3, <1>2
        <5>2. a[i].table = q.flat[k] /\ a[i] \in Found!Range(a)
          BY <5>1, <1>8, <1>10 DEF Found!Range
        <5> QED BY <5>2, <2>3
      <4> QED BY <4>2, <4>3, <1>13
    <3> QED BY <3>1, <3>2, <1>3
  <2>5. Found!Range(q.flat) \cup Found!Range(q.todo) \cup q.skipped \subseteq SentTables(r) \cup r.skipped
    BY <2>2, <2>4, <1>13 DEF Found!Range
  <2> QED BY <2>1, <2>5, MoreCovers
<1>19. Ready(r)
  BY <1>13, <1>16, <1>17, <1>18 DEF Ready
<1> QED BY <1>13, <1>14, <1>15, <1>19 DEF SearchInv, r, context

---------------------------------------------------------------------------
(* Every step.                                                             *)

LEMMA PathFacts ==
    ASSUME NEW s, NEW at
    PROVE  Found!Path(s, at)[1] = Found!Key(s) /\ Found!Path(s, at)[2] = at
BY DEF Found!Path

LEMMA KnownIs ==
    ASSUME FoundInv, NEW s \in Sites, NEW at \in DOMAIN Lists[s], Found!Known(s, at)
    PROVE  cache[Found!Path(s, at)] = Lists[s][at]
BY PathFacts DEF FoundInv, CacheIsTrue, Found!Known, Found!ListOf

LEMMA AsksAre ==
    ASSUME FoundInv, NEW s \in Sites, NEW at \in Found!Places, fetching' = Found!Asks(s, at)
    PROVE  /\ Asked'
           /\ \A path \in DOMAIN fetching' : path[1] \in {Found!Key(t) : t \in Sites} /\ path[2] \in Found!Places
<1>1. CASE Found!Path(s, at) \in DOMAIN fetching
  <2>1. fetching' = fetching
    BY <1>1 DEF Found!Asks
  <2> QED BY <2>1 DEF FoundInv, Asked, FoundPaths
<1>2. CASE Found!Path(s, at) \notin DOMAIN fetching
  <2>1. /\ DOMAIN fetching' = DOMAIN fetching \cup {Found!Path(s, at)}
        /\ \A path \in DOMAIN fetching' :
                fetching'[path] = IF path \in {Found!Path(s, at)} THEN s ELSE fetching[path]
    BY <1>2 DEF Found!Asks, Found!With
  <2>2. \A path \in DOMAIN fetching' :
            fetching'[path] \in Sites /\ path[1] = Found!Key(fetching'[path])
    BY <2>1, PathFacts DEF FoundInv, Asked
  <2>3. \A path \in DOMAIN fetching' : path[1] \in {Found!Key(t) : t \in Sites} /\ path[2] \in Found!Places
    BY <2>1, PathFacts DEF FoundInv, FoundPaths
  <2> QED BY <2>2, <2>3 DEF Asked
<1> QED BY <1>1, <1>2

\* A step of the search keeps its invariant, and what is asked and known.
LEMMA SearchSteps ==
    ASSUME FoundInv, SearchInv(search'), Asked',
           \A path \in DOMAIN fetching' : path[1] \in {Found!Key(s) : s \in Sites} /\ path[2] \in Found!Places,
           UNCHANGED <<site, cache, errors, toggled>>
    PROVE  FoundInv'
<1>1. SearchInv(search)'
  BY DEF SearchInv, Phases, PlacesOfSearch, Gets, Hydrated, PlacesApart, WholeSearch, Followed, Through, Ready, SentTables
<1>2. CacheIsTrue' /\ FoundPaths'
  BY DEF FoundInv, CacheIsTrue, FoundPaths
<1> QED BY <1>1, <1>2 DEF FoundInv

LEMMA QuietSearch ==
    ASSUME FoundInv, SearchInv(search'), UNCHANGED <<site, cache, fetching, errors, toggled>>
    PROVE  FoundInv'
<1>1. Asked'
  BY DEF FoundInv, Asked
<1>2. \A path \in DOMAIN fetching' : path[1] \in {Found!Key(s) : s \in Sites} /\ path[2] \in Found!Places
  BY DEF FoundInv, FoundPaths
<1> QED BY <1>1, <1>2, SearchSteps

LEMMA SearchAsksKeeps ==
    ASSUME Found!MetadataConstants, FoundInv, Found!SearchAsks
    PROVE  FoundInv'
<1>1. SearchInv(search) /\ search.phase = "names" /\ search.todo # <<>>
  BY DEF FoundInv, Found!SearchAsks
<1>2. SearchInv(search')
  BY <1>1, AsksKeeps DEF Found!SearchAsks
<1>3. Head(search.todo) \in Found!Places /\ search.of \in Sites
  BY <1>1, NamesPhase, TailFacts
<1>4. fetching' = Found!Asks(search.of, Head(search.todo)) /\ UNCHANGED <<site, cache, errors, toggled>>
  BY DEF Found!SearchAsks
<1>5. /\ Asked'
      /\ \A path \in DOMAIN fetching' : path[1] \in {Found!Key(t) : t \in Sites} /\ path[2] \in Found!Places
  BY <1>3, <1>4, AsksAre
<1> QED BY <1>2, <1>4, <1>5, SearchSteps

LEMMA SearchReadsKeeps ==
    ASSUME Found!MetadataConstants, FoundInv, Found!SearchReads
    PROVE  FoundInv'
<1> DEFINE at == Head(search.todo)
<1>1. SearchInv(search) /\ search.phase = "names" /\ search.todo # <<>> /\ Found!Known(search.of, at)
  BY DEF FoundInv, Found!SearchReads
<1>2. search.of \in Sites /\ at \in DOMAIN Lists[search.of]
  <2>1. search.of \in Sites /\ search.todo \in Seq(Found!Places)
    BY <1>1, NamesPhase
  <2>2. at = search.todo[1] /\ 1 \in DOMAIN search.todo
    BY <1>1, <2>1, TailFacts
  <2> QED BY <1>1, <2>1, <2>2 DEF SearchInv, PlacesOfSearch
<1>3. cache[Found!Path(search.of, at)] = Lists[search.of][at]
  BY <1>1, <1>2, KnownIs
<1>4. PICK below \in Found!Orders(at, Lists[search.of][at]) :
        \E flat : /\ flat = Found!Capped(search.flat \o IF Len(at) = 2 THEN below ELSE <<>>)
                  /\ search' = [search EXCEPT
                        !.waits = FALSE, !.flat = flat,
                        !.todo = IF Len(flat) >= MaxTables THEN <<>>
                                 ELSE (IF Len(at) = 2 THEN <<>> ELSE below) \o Tail(@)]
  BY <1>3 DEF Found!SearchReads
<1>5. SearchInv(search')
  <2>1. PICK here : here = at
    OBVIOUS
  <2>2. PICK flat : /\ flat = Found!Capped(search.flat \o IF Len(here) = 2 THEN below ELSE <<>>)
                    /\ search' = [search EXCEPT
                        !.waits = FALSE, !.flat = flat,
                        !.todo = IF Len(flat) >= MaxTables THEN <<>>
                                 ELSE (IF Len(here) = 2 THEN <<>> ELSE below) \o Tail(@)]
    BY <1>4, <2>1
  <2>3. below \in Found!Orders(here, Lists[search.of][here]) /\ here = Head(search.todo)
    BY <2>1
  <2>4. SearchInv([search EXCEPT
                        !.waits = FALSE, !.flat = flat,
                        !.todo = IF Len(flat) >= MaxTables THEN <<>>
                                 ELSE (IF Len(here) = 2 THEN <<>> ELSE below) \o Tail(@)])
    BY <1>1, <2>2, <2>3, ReadsKeeps
  <2> QED BY <2>2, <2>4
<1>6. UNCHANGED <<site, cache, fetching, errors, toggled>>
  BY DEF Found!SearchReads
<1> QED BY <1>5, <1>6, QuietSearch

LEMMA RankStepKeeps ==
    ASSUME Found!MetadataConstants, FoundInv, Found!Rank
    PROVE  FoundInv'
<1>1. SearchInv(search) /\ search.phase = "names" /\ search.todo = <<>>
  BY DEF FoundInv, Found!Rank
<1>2. SearchInv(search')
  BY <1>1, RankKeeps DEF Found!Rank
<1>3. UNCHANGED <<site, cache, fetching, errors, toggled>>
  BY DEF Found!Rank
<1> QED BY <1>2, <1>3, QuietSearch

LEMMA TopIs ==
    ASSUME Found!MetadataConstants, SearchInv(search)
    PROVE  Hydrated(search) = 1 .. Found!Top /\ Found!Top \in Nat /\ Found!Top <= Len(search.flat) /\ search.next \in Nat \ {0}
<1>1. Len(search.flat) \in Nat /\ MaxHydrated \in Nat
  BY DEF SearchInv, Searches, Found!MetadataConstants
<1>2. search.next \in Nat \ {0}
  BY <1>1 DEF SearchInv, Gets
<1> QED BY <1>1, <1>2 DEF Hydrated, Found!Top

LEMMA TakeKeeps ==
    ASSUME Found!MetadataConstants, FoundInv, NEW l \in Found!Lanes, Found!Take(l)
    PROVE  FoundInv'
<1> DEFINE at == search.flat[search.next]
<1>1. /\ SearchInv(search) /\ search.phase = "columns" /\ search.lanes[l] = 0 /\ search.next <= Found!Top
      /\ UNCHANGED <<site, cache, errors, toggled>>
  BY DEF FoundInv, Found!Take
<1>2. search.next \in Hydrated(search)
  BY <1>1, TopIs
<1>3. search.of \in Sites /\ at \in DOMAIN Lists[search.of]
  BY <1>1, <1>2, ColumnsPhase
<1>4. CASE Found!Known(search.of, at)
  <2>1. cache[Found!Path(search.of, at)] = Lists[search.of][at]
    BY <1>3, <1>4, KnownIs
  <2>2. search' = [search EXCEPT !.next = @ + 1,
                                 !.out = Found!With(@, {search.next}, Lists[search.of][at])]
        /\ UNCHANGED fetching
    BY <1>4, <2>1 DEF Found!Take
  <2>3. SearchInv(search')
    BY <1>1, <1>2, <2>2, TakeKnownKeeps
  <2> QED BY <1>1, <2>2, <2>3, QuietSearch
<1>5. CASE ~Found!Known(search.of, at)
  <2>1. search' = [search EXCEPT !.next = @ + 1, !.lanes[l] = search.next]
        /\ fetching' = Found!Asks(search.of, at)
    BY <1>5 DEF Found!Take
  <2>2. SearchInv(search')
    BY <1>1, <1>2, <2>1, TakeAsksKeeps
  <2>3. at \in Found!Places
    BY <1>3, ListFacts
  <2>4. /\ Asked'
        /\ \A path \in DOMAIN fetching' : path[1] \in {Found!Key(t) : t \in Sites} /\ path[2] \in Found!Places
    BY <1>3, <2>1, <2>3, AsksAre
  <2> QED BY <1>1, <2>2, <2>4, SearchSteps
<1> QED BY <1>4, <1>5

LEMMA SearchEndsKeeps ==
    ASSUME Found!MetadataConstants, FoundInv, Found!SearchEnds
    PROVE  FoundInv'
<1>1. /\ SearchInv(search) /\ search.phase = "columns" /\ search.next > Found!Top
      /\ \A l \in Found!Lanes : search.lanes[l] = 0
      /\ UNCHANGED <<site, cache, fetching, errors, toggled>>
  BY DEF FoundInv, Found!SearchEnds
<1>2. IsFiniteSet(DOMAIN search.out)
  <2>1. DOMAIN search.out \subseteq 1 .. Found!Top /\ Found!Top \in Nat
    BY <1>1, ColumnsPhase, TopIs
  <2>2. IsFiniteSet(1 .. Found!Top)
    BY <2>1, FS_Interval
  <2> QED BY <2>1, <2>2, FS_Subset
<1>3. PICK n \in Nat : n = Found!Cardinality(DOMAIN search.out)
  <2>1. \A S : Found!Cardinality(S) = Cardinality(S)
    BY DEF Found!Cardinality, Cardinality
  <2> QED BY <1>2, <2>1, FS_CardinalityType
<1>4. PICK got \in Found!Bijection(1 .. n, DOMAIN search.out) :
        search' = [search EXCEPT !.phase = "sent", !.context =
             [i \in DOMAIN got |-> [table |-> search.flat[got[i]], columns |-> search.out[got[i]]]]
             \o [i \in DOMAIN Found!NamesOnly |-> [table |-> Found!NamesOnly[i], columns |-> Unlisted]]]
  BY <1>3 DEF Found!SearchEnds
<1>5. PICK names : names = Found!NamesOnly
  OBVIOUS
<1>6. SearchInv(search')
  <2>1. PICK top : top = Found!Top
    OBVIOUS
  <2>2. Hydrated(search) = 1 .. top /\ top \in Nat /\ top <= Len(search.flat) /\ search.next > top
    BY <1>1, <2>1, TopIs
  <2>3. names = SubSeq(search.flat, top + 1, Len(search.flat))
    BY <1>5, <2>1 DEF Found!NamesOnly
  <2>4. n \in Nat /\ got \in Found!Bijection(1 .. n, DOMAIN search.out)
    BY <1>3, <1>4
  <2>5. PICK a : a = [i \in DOMAIN got |-> [table |-> search.flat[got[i]], columns |-> search.out[got[i]]]]
    OBVIOUS
  <2>6. PICK b : b = [i \in DOMAIN names |-> [table |-> names[i], columns |-> Unlisted]]
    OBVIOUS
  <2>7. SearchInv([search EXCEPT !.phase = "sent", !.context = a \o b])
    <3>1. Filled(search, got, names, a, b)
      BY <2>5, <2>6 DEF Filled
    <3>2. SearchInv(search) /\ search.phase = "columns" /\ \A l \in Found!Lanes : search.lanes[l] = 0
      BY <1>1
    <3> QED BY <2>2, <2>3, <2>4, <3>1, <3>2, EndsKeeps
  <2>8. search' = [search EXCEPT !.phase = "sent", !.context = a \o b]
    BY <1>4, <1>5, <2>5, <2>6
  <2> QED BY <2>7, <2>8
<1> QED BY <1>1, <1>6, QuietSearch

LEMMA FetchKeeps ==
    ASSUME Found!MetadataConstants, FoundInv, NEW at \in Found!Places, Found!Fetch(at)
    PROVE  FoundInv'
<1>1. /\ fetching' = Found!Asks(site, at) /\ errors' \subseteq errors
      /\ UNCHANGED <<site, cache, toggled, search>>
  BY DEF Found!Fetch
<1>2. site \in Sites
  BY DEF FoundInv, FoundPaths
<1>3. /\ Asked'
      /\ \A path \in DOMAIN fetching' : path[1] \in {Found!Key(t) : t \in Sites} /\ path[2] \in Found!Places
  BY <1>1, <1>2, AsksAre
<1>4. CacheIsTrue' /\ FoundPaths'
  BY <1>1, <1>3 DEF FoundInv, CacheIsTrue, FoundPaths
<1>5. SearchInv(search)'
  <2>1. SearchInv(search')
    BY <1>1 DEF FoundInv
  <2> QED BY <2>1 DEF SearchInv, Phases, PlacesOfSearch, Gets, Hydrated, PlacesApart, WholeSearch, Followed, Through, Ready, SentTables
<1> QED BY <1>3, <1>4, <1>5 DEF FoundInv

LEMMA ExplorerKeeps ==
    ASSUME FoundInv, (\E at \in Found!Places : Found!Toggle(at)) \/ (\E s \in Sites : Found!Activate(s))
    PROVE  FoundInv'
<1>1. /\ site' \in Sites /\ toggled' \subseteq Found!Places /\ UNCHANGED <<cache, fetching, errors, search>>
  BY DEF FoundInv, FoundPaths, Found!Toggle, Found!Activate
<1>2. CacheIsTrue' /\ FoundPaths' /\ Asked'
  BY <1>1 DEF FoundInv, CacheIsTrue, FoundPaths, Asked
<1>3. SearchInv(search)'
  <2>1. SearchInv(search')
    BY <1>1 DEF FoundInv
  <2> QED BY <2>1 DEF SearchInv, Phases, PlacesOfSearch, Gets, Hydrated, PlacesApart, WholeSearch, Followed, Through, Ready, SentTables
<1> QED BY <1>2, <1>3 DEF FoundInv

LEMMA AnswerStepKeeps ==
    ASSUME Found!MetadataConstants, KeysDiffer, FoundInv, NEW path \in DOMAIN fetching, Found!Answer(path)
    PROVE  FoundInv'
<1> DEFINE list == Found!ListOf(fetching[path], path[2])
<1>1. /\ cache' = Found!With(cache, {path}, list) /\ UNCHANGED <<site, toggled>>
      /\ fetching' = [p \in DOMAIN fetching \ {path} |-> fetching[p]]
      /\ errors' = errors \ {path}
  BY DEF Found!Answer
<1>2. fetching[path] \in Sites /\ path[1] = Found!Key(fetching[path])
  BY DEF FoundInv, Asked
<1>3. CacheIsTrue'
  <2>1. /\ DOMAIN cache' = DOMAIN cache \cup {path}
        /\ \A p \in DOMAIN cache' : cache'[p] = IF p \in {path} THEN list ELSE cache[p]
    BY <1>1 DEF Found!With
  <2>2. \A p \in DOMAIN cache' : \A s \in Sites : p[1] = Found!Key(s) => cache'[p] = Found!ListOf(s, p[2])
    BY <1>2, <2>1 DEF FoundInv, CacheIsTrue, KeysDiffer
  <2> QED BY <2>2 DEF CacheIsTrue, Found!ListOf, Found!Key
<1>4. Asked'
  BY <1>1 DEF FoundInv, Asked
<1>5. FoundPaths'
  <2>1. DOMAIN cache' = DOMAIN cache \cup {path} /\ DOMAIN fetching' \subseteq DOMAIN fetching
    BY <1>1 DEF Found!With
  <2> QED BY <1>1, <2>1 DEF FoundInv, FoundPaths
<1>6. SearchInv(search')
  <2>1. SearchInv(search) /\ search \in Searches
    BY DEF FoundInv, SearchInv
  <2>2. \A l \in Found!Lanes : LaneWaits(search, l, path) => list = Lists[search.of][search.flat[search.lanes[l]]]
    <3> SUFFICES ASSUME NEW l \in Found!Lanes, LaneWaits(search, l, path)
                 PROVE  list = Lists[search.of][search.flat[search.lanes[l]]]
      OBVIOUS
    <3>1. search.phase = "columns"
      BY <2>1 DEF SearchInv, Phases, LaneWaits
    <3>2. search.of \in Sites /\ search.flat[search.lanes[l]] \in DOMAIN Lists[search.of]
      <4>1. search.lanes[l] \in Hydrated(search)
        BY <2>1 DEF SearchInv, Gets, LaneWaits
      <4> QED BY <4>1, <2>1, <3>1, ColumnsPhase
    <3>3. path[1] = Found!Key(search.of) /\ path[2] = search.flat[search.lanes[l]]
      BY PathFacts DEF LaneWaits
    <3>4. fetching[path] = search.of
      BY <1>2, <3>2, <3>3 DEF KeysDiffer
    <3> QED BY <3>2, <3>3, <3>4 DEF Found!ListOf
  <2>3. \A l \in Found!Lanes : Found!WaitsFor(l, path) = LaneWaits(search, l, path)
    BY DEF Found!WaitsFor, LaneWaits
  <2>4. search' = [search EXCEPT
            !.lanes = [l \in Found!Lanes |-> IF Found!WaitsFor(l, path) THEN 0 ELSE @[l]],
            !.out = Found!With(@, {search.lanes[l] : l \in {k \in Found!Lanes : Found!WaitsFor(k, path)}}, list)]
    BY DEF Found!Answer
  <2> HIDE DEF list
  <2>5. {search.lanes[l] : l \in {k \in Found!Lanes : Found!WaitsFor(k, path)}}
        = {search.lanes[l] : l \in {k \in Found!Lanes : LaneWaits(search, k, path)}}
    BY <2>3
  <2>6. search' = [search EXCEPT
            !.lanes = [l \in Found!Lanes |-> IF LaneWaits(search, l, path) THEN 0 ELSE @[l]],
            !.out = Found!With(@, {search.lanes[l] : l \in {k \in Found!Lanes : LaneWaits(search, k, path)}}, list)]
    BY <2>3, <2>4, <2>5
  <2>7. SearchInv([search EXCEPT
            !.lanes = [l \in Found!Lanes |-> IF LaneWaits(search, l, path) THEN 0 ELSE @[l]],
            !.out = Found!With(@, {search.lanes[l] : l \in {k \in Found!Lanes : LaneWaits(search, k, path)}}, list)])
    BY <2>1, <2>2, ListAnswerKeeps
  <2> QED BY <2>6, <2>7
<1>7. SearchInv(search)'
  BY <1>6 DEF SearchInv, Phases, PlacesOfSearch, Gets, Hydrated, PlacesApart, WholeSearch, Followed, Through, Ready, SentTables
<1> QED BY <1>3, <1>4, <1>5, <1>7 DEF FoundInv

LEMMA DeniedKeeps ==
    ASSUME Found!MetadataConstants, FoundInv, NEW path \in DOMAIN fetching, Found!Denied(path)
    PROVE  FoundInv'
<1> DEFINE searching == /\ search.phase = "names" /\ search.waits
                        /\ Found!Path(search.of, Head(search.todo)) = path /\ path \notin DOMAIN cache
           freed == {l \in Found!Lanes : search.phase = "columns" /\ Found!WaitsFor(l, path)}
<1>1. /\ UNCHANGED <<site, cache, toggled>>
      /\ fetching' = [p \in DOMAIN fetching \ {path} |-> fetching[p]]
      /\ errors' = errors \cup {path}
  BY DEF Found!Denied
<1>2. CacheIsTrue' /\ Asked'
  BY <1>1 DEF FoundInv, CacheIsTrue, Asked
<1>3. FoundPaths'
  BY <1>1 DEF FoundInv, FoundPaths
<1>4. SearchInv(search) /\ search \in Searches /\ path[2] \in Found!Places
  BY DEF FoundInv, SearchInv, FoundPaths
<1>5. SearchInv(search')
  <2>1. ASSUME searching
        PROVE  search.todo # <<>> /\ path[2] = Head(search.todo) /\ search.phase = "names"
    BY <1>4, <2>1, PathFacts DEF SearchInv, Phases
  <2>2. CASE searching /\ path[2] = <<>>
    <3>1. search' = [search EXCEPT !.phase = "sent", !.waits = FALSE, !.todo = <<>>, !.skipped = {<<>>}]
      BY <2>2 DEF Found!Denied
    <3> QED BY <1>4, <2>1, <2>2, <3>1, CatalogsDeniedKeep
  <2>3. CASE searching /\ path[2] # <<>>
    <3>1. search' = [search EXCEPT !.waits = FALSE, !.todo = Tail(@), !.skipped = @ \cup {path[2]}]
      BY <2>3 DEF Found!Denied
    <3> QED BY <1>4, <2>1, <2>3, <3>1, ListDeniedKeeps
  <2>4. CASE ~searching
    <3>1. search' = [search EXCEPT !.lanes = [l \in Found!Lanes |-> IF l \in freed THEN 0 ELSE @[l]],
                                   !.skipped = IF freed # {} THEN @ \cup {path[2]} ELSE @]
      BY <2>4 DEF Found!Denied
    <3>2. freed = Freed(search, path)
      BY DEF Found!WaitsFor, LaneWaits, Freed
    <3>3. PICK missing : missing = freed
      OBVIOUS
    <3> HIDE DEF freed
    <3>4. SearchInv([search EXCEPT !.lanes = [l \in Found!Lanes |-> IF l \in missing THEN 0 ELSE @[l]],
                                   !.skipped = IF missing # {} THEN @ \cup {path[2]} ELSE @])
      BY <1>4, <3>2, <3>3, LanesDeniedKeep
    <3> QED BY <3>1, <3>3, <3>4
  <2> QED BY <2>2, <2>3, <2>4
<1>6. SearchInv(search)'
  BY <1>5 DEF SearchInv, Phases, PlacesOfSearch, Gets, Hydrated, PlacesApart, WholeSearch, Followed, Through, Ready, SentTables
<1> QED BY <1>2, <1>3, <1>6 DEF FoundInv

---------------------------------------------------------------------------
LEMMA FoundInductive ==
    ASSUME Found!MetadataConstants, KeysDiffer, FoundInv, [Found!Next]_Found!metadataVars
    PROVE  FoundInv'
<1>1. CASE Found!StartSearch
  <2>1. site \in Sites /\ UNCHANGED <<site, cache, fetching, errors, toggled>>
    BY <1>1 DEF FoundInv, FoundPaths, Found!StartSearch
  <2>2. SearchInv(search')
    BY <1>1, <2>1, StartKeeps DEF Found!StartSearch
  <2> QED BY <2>1, <2>2, QuietSearch
<1>2. CASE Found!NextQuestion
  <2>1. SearchInv(search') /\ UNCHANGED <<site, cache, fetching, errors, toggled>>
    BY <1>2, IdleKeeps DEF Found!NextQuestion
  <2> QED BY <2>1, QuietSearch
<1>3. CASE UNCHANGED Found!metadataVars
  <2>1. SearchInv(search') /\ UNCHANGED <<site, cache, fetching, errors, toggled>>
    BY <1>3 DEF FoundInv, Found!metadataVars
  <2> QED BY <2>1, QuietSearch
<1> QED BY <1>1, <1>2, <1>3, SearchAsksKeeps, SearchReadsKeeps, RankStepKeeps, TakeKeeps, SearchEndsKeeps,
           FetchKeeps, ExplorerKeeps, AnswerStepKeeps, DeniedKeeps DEF Found!Next

LEMMA FoundInitEstablishes == Found!MetadataConstants /\ Found!Init => FoundInv
<1> SUFFICES ASSUME Found!MetadataConstants, Found!Init PROVE FoundInv
  OBVIOUS
<1>1. SearchInv(search)
  BY IdleKeeps DEF Found!Init
<1>2. DOMAIN cache = {} /\ DOMAIN fetching = {}
  BY DEF Found!Init
<1> QED BY <1>1, <1>2 DEF FoundInv, FoundPaths, CacheIsTrue, Asked, Found!Init

LEMMA FoundInvTyped == FoundInv => Found!TypeOK
BY DEF FoundInv, FoundPaths, Asked, SearchInv, Searches, PlacesOfSearch, Gets, Found!TypeOK

LEMMA FoundInvOwn == Found!MetadataConstants /\ FoundInv => Found!ContextIsOwn
<1> SUFFICES ASSUME Found!MetadataConstants, FoundInv PROVE Found!ContextIsOwn
  OBVIOUS
<1>1. SearchInv(search)
  BY DEF FoundInv
<1>2. \A at \in Found!Range(search.todo) : at \in DOMAIN Lists[search.of]
  BY <1>1 DEF SearchInv, PlacesOfSearch, Found!Range
<1>3. \A at \in Found!Range(search.flat) : at \in DOMAIN Lists[search.of]
  <2>1. \A i \in DOMAIN search.flat : search.flat[i] \in DOMAIN Lists[search.of]
    BY <1>1 DEF SearchInv, PlacesOfSearch, Found!TablesOf
  <2> QED BY <2>1 DEF Found!Range
<1> QED BY <1>1, <1>2, <1>3 DEF Found!ContextIsOwn, SearchInv, Ready

LEMMA FoundInvComplete == FoundInv => Found!ContextIsComplete
BY DEF FoundInv, SearchInv, PlacesApart, Ready, WholeSearch, SentTables, Found!ContextIsComplete

LEMMA FoundBehaves == Spec => Found!Spec
<1>1. Init => Found!Init
  BY DEF Init
<1>2. [Next]_partsVars => [Found!Next]_(Found!metadataVars)
  <2>1. FoundStep => Found!Next
    BY DEF FoundStep
  <2>2. TabsStep \/ SavedStep \/ TalkStep \/ BoundStep \/ SownStep \/ FilesStep
        \/ DrawnStep \/ ChosenStep
        \/ ListedStep \/ SignedStep \/ UNCHANGED partsVars => UNCHANGED Found!metadataVars
    BY DEF TabsStep, SavedStep, TalkStep, BoundStep, SownStep,
           FilesStep, DrawnStep, ChosenStep,
           ListedStep, SignedStep, partsVars, foundVars, Found!metadataVars
  <2> QED BY <2>1, <2>2 DEF Next
<1> QED BY <1>1, <1>2, PTL DEF Spec, Found!Spec

LEMMA FoundHolds == KeysDiffer => (Spec => []FoundInv)
<1> SUFFICES ASSUME KeysDiffer PROVE Spec => []FoundInv
  OBVIOUS
<1>1. Found!MetadataConstants
  BY PartsAssumption
<1>2. Found!Init => FoundInv
  BY <1>1, FoundInitEstablishes
<1>3. FoundInv /\ [Found!Next]_(Found!metadataVars) => FoundInv'
  BY <1>1, FoundInductive
<1> QED BY <1>2, <1>3, FoundBehaves, PTL DEF Found!Spec

\* For any databases, any lanes and any order of the answers: where the keys of
\* the cache tell the connections apart, a question is sent the tables and
\* columns of the connection it was asked with, whatever is loaded meanwhile; no
\* table is sent twice, and with room for every name none is lost but those of a
\* list, or of columns, that was refused.
THEOREM MetadataContextIsRight == KeysDiffer => (Spec => []ContextIsRight)
<1> SUFFICES ASSUME KeysDiffer PROVE Spec => []ContextIsRight
  OBVIOUS
<1>1. FoundInv => ContextIsRight
  BY PartsAssumption, FoundInvOwn, FoundInvComplete DEF ContextIsRight
<1> QED BY <1>1, FoundHolds, PTL

=============================================================================
