-------------------------- MODULE NotebookHistory --------------------------
(***************************************************************************)
(* What the notebook endpoints promise a user who waits for each answer:   *)
(* a notebook reads back as it was last saved, restored or deleted, every  *)
(* save that changes it is recorded, and its timeline is never rewritten.  *)
(* Git being optional, recording may stop for good; saving goes on.        *)
(***************************************************************************)
EXTENDS Naturals, Sequences

CONSTANTS
    Notebooks,  \* ids
    Texts,      \* contents of a notebook
    Absent,     \* no file
    Empty       \* the file of a write that was cut short

VARIABLES
    saved,     \* what each notebook reads as
    draft,     \* what the next record will say of each notebook
    timeline,  \* the versions the history dialog lists, oldest first
    recording  \* does history still accumulate?

histVars == <<saved, draft, timeline, recording>>

\* A record of c: a version that does not differ from the last is not listed.
Recorded(s, c) ==
    IF c = Absent \/ (s # <<>> /\ s[Len(s)] = c) THEN s ELSE Append(s, c)

HistInit ==
    /\ saved = [n \in Notebooks |-> Absent]
    /\ draft = saved
    /\ timeline = [n \in Notebooks |-> <<>>]
    /\ recording = TRUE

Record(n, c) ==
    /\ recording
    /\ draft' = [draft EXCEPT ![n] = c]
    /\ timeline' = [k \in Notebooks |-> Recorded(timeline[k], draft'[k])]

Save(n, c) ==
    /\ saved' = [saved EXCEPT ![n] = c]
    /\ \/ Record(n, c)
       \/ ~recording /\ UNCHANGED <<draft, timeline>>
    /\ UNCHANGED recording

\* One of the listed versions becomes the notebook again.
Restore(n) == \E i \in 1 .. Len(timeline[n]) : Save(n, timeline[n][i])

\* A deletion is not recorded.
Delete(n) ==
    /\ saved' = [saved EXCEPT ![n] = Absent]
    /\ UNCHANGED <<draft, timeline, recording>>

\* The server dies while it saves, restores or deletes n.
Cut(n, c) ==
    /\ \E d \in {saved[n], c, Empty, Absent} : saved' = [saved EXCEPT ![n] = d]
    /\ draft' \in {draft, [draft EXCEPT ![n] = c]}
    /\ recording' \in {recording, FALSE}
    /\ UNCHANGED timeline

HistNext ==
    \E n \in Notebooks :
        \/ \E c \in Texts : Save(n, c) \/ Cut(n, c)
        \/ Restore(n)
        \/ Delete(n)

HistSpec == HistInit /\ [][HistNext]_histVars
=============================================================================
