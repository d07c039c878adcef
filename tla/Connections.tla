----------------------------- MODULE Connections -----------------------------
(***************************************************************************)
(* The connection in use: the connection store of the browser, the dialog  *)
(* of the sidebar that adds, edits, loads and deletes saved connections,   *)
(* and the picker of the top bar (store/connection-store.ts,               *)
(* sidebar/connection-dialog.tsx, sidebar/connection-picker.tsx).          *)
(*                                                                         *)
(* A configuration is its kind of form and a version: 0 is the default.    *)
(* The endpoints are single steps: Stores has their interleaving.          *)
(***************************************************************************)
EXTENDS Naturals

CONSTANTS
    Connections,  \* ids of saved connections
    Calls,        \* bound on the requests in flight
    MaxCalls,     \* bound on the requests sent
    MaxTyped,     \* bound on the changes typed into forms
    Nil           \* no connection, no configuration

Forms == {"duckdb", "trino", "sql"}
Configs == [form : Forms, version : 0 .. MaxTyped]
Default(f) == [form |-> f, version |-> 0]

\* What the constants are assumed to be.
ConnectionsConstants ==
    /\ {Calls, MaxCalls, MaxTyped} \subseteq Nat
    /\ Nil \notin Connections /\ \A c \in Configs : c # Nil

VARIABLES
    saved,          \* saved[c]: what the server has of c
    current, conn,  \* the store: activeConnectionId and connection
    shown, view,    \* the dialog: whether it is open, and its list or a form
    drafts,         \* drafts[f]: what the form f holds
    calls,          \* calls[i]: the request in slot i
    typed, called,  \* changes typed, requests sent
    drifted,        \* history: the connection in use is from a form changed since its save
    unsure          \* history: connections with two requests at once, or a lost answer

connectionsVars == <<saved, current, conn, shown, view, drafts, calls, typed, called,
                     drifted, unsure>>

Free == [kind |-> "none", id |-> Nil, body |-> Nil, pc |-> "free"]
List == [kind |-> "list", form |-> "trino", id |-> Nil]
Form(f, c) == [kind |-> "form", form |-> f, id |-> c]

Init ==
    /\ saved = [c \in Connections |-> Nil]
    /\ current = Nil /\ conn = Default("duckdb")
    /\ shown = FALSE /\ view = List
    /\ drafts = [f \in Forms |-> Default(f)]
    /\ calls = [i \in 1 .. Calls |-> Free]
    /\ typed = 0 /\ called = 0
    /\ drifted = FALSE /\ unsure = {}

\* currentDraft, of the form that is shown; without a form, of the Trino form.
CurrentDraft == drafts[IF view.kind = "form" THEN view.form ELSE "trino"]

InUse == {i \in 1 .. Calls : calls[i].pc # "free"}
Waiting(kinds) == \E i \in InUse : calls[i].kind \in kinds
Stored == {c \in Connections : saved[c] # Nil}

Store == <<saved, current, conn, drifted>>
Dialog == <<shown, view, drafts>>

---------------------------------------------------------------------------
(* The dialog.                                                             *)
Moves(open, v) == shown' = open /\ view' = v /\ UNCHANGED <<Store, calls, called, unsure>>

InList == shown /\ view.kind = "list"
InForm == shown /\ view.kind = "form"

OpenDialog == ~shown /\ Moves(TRUE, view) /\ UNCHANGED <<drafts, typed>>

\* The button, a click outside, or Escape; the effect goes back to the list.
CloseDialog == shown /\ Moves(FALSE, List) /\ UNCHANGED <<drafts, typed>>

\* The arrow of the form, which a pending save does not disable.
Back == InForm /\ Moves(TRUE, List) /\ UNCHANGED <<drafts, typed>>

\* openAdd.
Add(f) == /\ InList /\ Moves(TRUE, Form(f, Nil))
          /\ drafts' = [drafts EXCEPT ![f] = Default(f)] /\ UNCHANGED typed

Type == /\ InForm /\ typed < MaxTyped
        /\ typed' = typed + 1
        /\ drafts' = [drafts EXCEPT ![view.form] = [@ EXCEPT !.version = typed + 1]]
        /\ UNCHANGED <<Store, shown, view, calls, called, unsure>>

---------------------------------------------------------------------------
Changers == {"create", "update", "use", "pick", "delete"}

About(c) == {calls[i].kind : i \in {j \in InUse : calls[j].id = c}}

Call(kind, c, body) ==
    /\ InUse # 1 .. Calls /\ called < MaxCalls
    /\ calls' = [calls EXCEPT ![CHOOSE i \in 1 .. Calls : i \notin InUse] =
                    [kind |-> kind, id |-> c, body |-> body, pc |-> "sent"]]
    /\ called' = called + 1
    /\ unsure' = IF kind \in Changers /\ About(c) \cap Changers # {} /\ c # Nil
                 THEN unsure \cup {c} ELSE unsure
    /\ UNCHANGED <<Store, Dialog, typed>>

\* saveAndUse.
Save ==
    /\ InForm /\ ~Waiting({"create", "update"})
    /\ Call(IF view.id = Nil THEN "create" ELSE "update", view.id, CurrentDraft)

\* loadAndActivate in the list, and switchTo in the picker.
Use(c) == InList /\ c \in Stored /\ c # current /\ Call("use", c, Nil)
Pick(c) == ~shown /\ c \in Stored /\ ~Waiting({"pick"}) /\ Call("pick", c, Nil)

\* openEdit and removeOne.
Edit(c) == InList /\ c \in Stored /\ Call("edit", c, Nil)
Delete(c) == InList /\ c \in Stored /\ Call("delete", c, Nil)

Reply(i, pc, c, body) ==
    calls' = [calls EXCEPT ![i] = [kind |-> @.kind, id |-> c, body |-> body, pc |-> pc]]

\* The server gives ids that are new; which one does not matter.
NewIds == {c \in Connections \ Stored : c # current /\ \A j \in InUse : calls[j].id # c}
NewId == CHOOSE c \in NewIds : TRUE

Serve(i) ==
    LET q == calls[i] IN
    /\ q.pc = "sent"
    /\ \/ /\ q.kind = "create" /\ NewIds # {}
          /\ saved' = [saved EXCEPT ![NewId] = q.body] /\ Reply(i, "ok", NewId, q.body)
       \/ /\ q.kind \in {"update", "delete"}
          /\ IF q.id \in Stored
             THEN /\ saved' = [saved EXCEPT ![q.id] = IF q.kind = "update" THEN q.body ELSE Nil]
                  /\ Reply(i, "ok", q.id, q.body)
             ELSE Reply(i, "error", q.id, Nil) /\ UNCHANGED saved
       \/ /\ q.kind \in {"use", "pick", "edit"}
          /\ IF q.id \in Stored THEN Reply(i, "ok", q.id, saved[q.id]) ELSE Reply(i, "error", q.id, Nil)
          /\ UNCHANGED saved
    /\ UNCHANGED <<current, conn, drifted, Dialog, typed, called, unsure>>

---------------------------------------------------------------------------
(* Answers.  The handlers are those of the last render, so they see the    *)
(* draft and the active id of the moment of the answer.                    *)
Activate(c, config) == current' = c /\ conn' = config

Created(q) ==
    /\ q.kind = "create"
    /\ Activate(q.id, CurrentDraft)
    /\ drifted' = (CurrentDraft # q.body)
    /\ view' = List /\ UNCHANGED <<shown, drafts>>

\* Faulty: the connection in use is not refreshed.
KeepsConnection(q) == FALSE

RefreshesConnection(q) == current = q.id

Updated(q) ==
    /\ q.kind = "update"
    /\ IF RefreshesConnection(q)
       THEN conn' = CurrentDraft /\ drifted' = (CurrentDraft # q.body)
       ELSE UNCHANGED <<conn, drifted>>
    /\ view' = List /\ UNCHANGED <<current, shown, drafts>>

Loaded(q) ==
    /\ q.kind \in {"use", "pick"}
    /\ Activate(q.id, q.body)
    /\ drifted' = FALSE
    /\ \/ q.kind = "use" /\ shown' = FALSE /\ view' = IF shown THEN List ELSE view
       \/ q.kind = "pick" /\ UNCHANGED <<shown, view>>
    /\ UNCHANGED drafts

\* The form comes up wherever the user is by then, or at the next opening.
Edited(q) ==
    /\ q.kind = "edit"
    /\ drafts' = [drafts EXCEPT ![q.body.form] = q.body]
    /\ view' = Form(q.body.form, q.id)
    /\ UNCHANGED <<shown, current, conn, drifted>>

Deleted(q) ==
    /\ q.kind = "delete"
    /\ IF current = q.id THEN Activate(Nil, Nil) /\ drifted' = FALSE
       ELSE UNCHANGED <<current, conn, drifted>>
    /\ UNCHANGED Dialog

Succeed(i) ==
    LET q == calls[i] IN
    /\ q.pc = "ok"
    /\ Created(q) \/ Updated(q) \/ Loaded(q) \/ Edited(q) \/ Deleted(q)
    /\ calls' = [calls EXCEPT ![i] = Free]
    /\ UNCHANGED <<saved, typed, called, unsure>>

\* The request or its answer is lost, or refused: only a message appears.
Fail(i) ==
    /\ calls[i].pc \in {"sent", "ok", "error"}
    /\ calls' = [calls EXCEPT ![i] = Free]
    /\ unsure' = IF calls[i].pc = "ok" /\ calls[i].kind \in {"update", "delete"}
                 THEN unsure \cup {calls[i].id} ELSE unsure
    /\ UNCHANGED <<Store, Dialog, typed, called>>

Next ==
    \/ OpenDialog \/ CloseDialog \/ Back \/ Type \/ Save
    \/ \E f \in Forms : Add(f)
    \/ \E c \in Connections : Use(c) \/ Pick(c) \/ Edit(c) \/ Delete(c)
    \/ \E i \in 1 .. Calls : Serve(i) \/ Succeed(i) \/ Fail(i)

Spec == Init /\ [][Next]_connectionsVars

---------------------------------------------------------------------------
TypeOK ==
    /\ \A c \in Connections : saved[c] = Nil \/ saved[c] \in Configs
    /\ current \in Connections \cup {Nil} /\ (conn = Nil \/ conn \in Configs)
    /\ shown \in BOOLEAN /\ view.kind \in {"list", "form"} /\ view.form \in Forms
    /\ \A f \in Forms : drafts[f] \in Configs /\ drafts[f].form = f
    /\ unsure \subseteq Connections

\* What queries run with is what is saved under the name that is shown as
\* active, whatever is typed, saved, loaded or deleted meanwhile: unless the
\* form has changed, or has been left, between a save and its answer, since
\* the handler takes the draft of that moment, or two requests about the
\* connection have crossed, or an answer was lost.
ActiveIsSaved ==
    /\ current # Nil /\ About(current) \cap Changers = {}
    /\ ~drifted /\ current \notin unsure
    => conn = saved[current]

=============================================================================
