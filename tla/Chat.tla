-------------------------------- MODULE Chat --------------------------------
(***************************************************************************)
(* A conversation with the assistant: the thread of an Ask AI cell, kept   *)
(* in the notebook (notebook/ai-prompt-cell.tsx), and the chat of the      *)
(* knowledge drawer, kept in the component                                 *)
(* (notebook/notebook-knowledge.tsx).  The two share the scheme: the       *)
(* question is shown at once, the answer is appended when it arrives, and  *)
(* a failure takes the last message away.                                  *)
(***************************************************************************)
EXTENDS Naturals, Sequences, SequencesExt

CONSTANT MaxAsks  \* bound on the questions asked

\* What the constants are assumed to be.
ChatConstants == MaxAsks \in Nat

Questions == 1 .. MaxAsks

VARIABLES
    place,      \* "cell" or "drawer"
    thread,     \* the messages stored
    oneShot,    \* the cell holds the prompt and the SQL of an older version
    reply,      \* reply[q]: what has become of question q
    onScreen,      \* the active notebook: "own", an imported "copy", or any "other"
    asking,     \* the questions the component knows to be pending
    asked,      \* the number of questions asked so far
    overlapped  \* history: a question was asked beside a pending one, or the
                \* answer to one asked in a copy has come here

chatVars == <<place, thread, oneShot, reply, onScreen, asking, asked, overlapped>>

User(q) == [role |-> "user", of |-> q]
Assistant(q) == [role |-> "assistant", of |-> q]

PendingAsks == {q \in Questions : reply[q] = "pending"}

Init ==
    /\ place \in {"cell", "drawer"}
    /\ oneShot \in {FALSE, place = "cell"}
    /\ thread = <<>>
    /\ reply = [q \in Questions |-> "unasked"]
    /\ onScreen = "own"
    /\ asking = {} /\ asked = 0 /\ overlapped = FALSE

\* What is shown: an older exchange as long as there is no message.
Messages == IF thread = <<>> /\ oneShot THEN <<User(0), Assistant(0)>> ELSE thread

\* updateCell finds the cell only in the active notebook; the drawer is
\* always mounted.
Reachable == onScreen = "own"

\* Faulty: the cell does not look whether a question is pending.
SendsAlways == TRUE

\* send of the cell; in the drawer the Ask button is disabled while a
\* question is pending, but the keyboard shortcut and the infographic are not.
MaySend == place = "cell" => asking = {}

\* onMutate: appendMessage also empties the prompt.
Ask ==
    /\ onScreen = "own" /\ MaySend /\ asked < MaxAsks
    /\ asked' = asked + 1
    /\ thread' = Append(thread, User(asked + 1))
    /\ oneShot' = FALSE
    /\ reply' = [reply EXCEPT ![asked + 1] = "pending"]
    /\ asking' = asking \cup {asked + 1}
    /\ overlapped' = (overlapped \/ PendingAsks \ (IF place = "cell" THEN asking ELSE {}) # {})
    /\ UNCHANGED <<place, onScreen>>

\* The same cell in the copy, which has a thread of its own.
AskInCopy ==
    /\ onScreen = "copy" /\ MaySend /\ asked < MaxAsks
    /\ asked' = asked + 1
    /\ reply' = [reply EXCEPT ![asked + 1] = "away"]
    /\ asking' = asking \cup {asked + 1}
    /\ UNCHANGED <<place, thread, oneShot, onScreen, overlapped>>

\* The request for q is over: what comes back goes to the cell with this id in
\* the notebook that is active by then.
Over(q, outcome) ==
    /\ reply[q] \in {"pending", "away"}
    /\ reply' = [reply EXCEPT ![q] = IF @ = "away" THEN "stray" ELSE IF Reachable THEN outcome ELSE "dropped"]
    /\ asking' = asking \ {q}
    /\ overlapped' = (overlapped \/ (reply[q] = "away" /\ Reachable))
    /\ UNCHANGED <<place, oneShot, onScreen, asked>>

\* onSuccess.  An answer that does not find the cell here goes nowhere, or to
\* the copy.
Answer(q) ==
    /\ Over(q, "answered")
    /\ thread' = IF Reachable THEN Append(thread, Assistant(q)) ELSE thread

\* popLastMessage: the last message, whosever it is.
WithoutLast == IF thread = <<>> THEN <<>> ELSE Front(thread)

\* onError.
Refuse(q) ==
    /\ Over(q, "failed")
    /\ thread' = IF Reachable THEN WithoutLast ELSE thread

\* Another tab becomes active.  A cell with the same id is the same component.
SwitchTab(to) ==
    /\ place = "cell" /\ to # onScreen
    /\ onScreen' = to
    /\ UNCHANGED <<place, thread, oneShot, reply, asking, asked, overlapped>>

\* The cell has faded out: it is unmounted and forgets that it waits.
Unmount ==
    /\ onScreen = "other" /\ asking # {}
    /\ asking' = {}
    /\ UNCHANGED <<place, thread, oneShot, reply, onScreen, asked, overlapped>>

Next ==
    \/ Ask \/ AskInCopy \/ Unmount
    \/ \E q \in Questions : Answer(q) \/ Refuse(q)
    \/ \E to \in {"own", "copy", "other"} : SwitchTab(to)

Spec == Init /\ [][Next]_chatVars

---------------------------------------------------------------------------
TypeOK ==
    /\ thread \in Seq([role : {"user", "assistant"}, of : Questions])
    /\ reply \in [Questions -> {"unasked", "pending", "answered", "failed", "dropped", "away", "stray"}]
    /\ \A q \in asking : reply[q] \in {"pending", "away"}
    /\ Len(Messages) \in 0 .. 2 * MaxAsks + 2

\* As long as no question is asked beside a pending one - which the drawer
\* allows, and the cell once its tab has been left and come back to - and no
\* answer comes here that was asked for in an imported copy, every answer
\* stands right under its question, a question that failed is gone, and the one
\* that is pending is the last message.  A question whose answer came while the
\* tab was left stays without one.
QuestionsKeepTheirPlace ==
    ~overlapped => \A q \in Questions :
        LET at == {i \in DOMAIN thread : thread[i] = User(q)} IN
        CASE reply[q] \in {"unasked", "failed", "away", "stray"} -> at = {}
          [] reply[q] = "pending" -> at = {Len(thread)}
          [] reply[q] = "answered" ->
                \E i \in at : at = {i} /\ i < Len(thread) /\ thread[i + 1] = Assistant(q)
          [] reply[q] = "dropped" ->
                \E i \in at : at = {i} /\ (i < Len(thread) => thread[i + 1].role = "user")

=============================================================================
