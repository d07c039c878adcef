--------------------------- MODULE AutosaveProofs ---------------------------
(***************************************************************************)
(* Proofs about the autosave pipeline, for every set of notebooks and      *)
(* every bound.  The results about content assume that the user does not   *)
(* type a recorded text back (Reverts = FALSE); with it they are false.    *)
(***************************************************************************)
EXTENDS Autosave, TLAPS

\* No file is ahead of the screen, and no request either.
Ordered ==
    /\ \A n \in Notebooks : disk[n] <= doc[n] /\ doc[n] <= clock
    /\ \A r \in wire : r.copy[2] <= doc[r.copy[1]]
    /\ hook.baseline # None => hook.baseline[2] <= doc[hook.baseline[1]]

\* What the server will do with the request the client awaits: the file is
\* not ahead of it, nor is an abandoned request; once handled it is the file.
WireOrdered ==
    /\ \A r \in wire : r.state = "sent" =>
           /\ disk[r.copy[1]] <= r.copy[2]
           /\ \A a \in wire : a.state = "abandoned" /\ a.copy[1] = r.copy[1]
                                  => a.copy[2] <= r.copy[2]
    /\ \A r \in wire : r.state = "applied" =>
           disk[r.copy[1]] = r.copy[2] \/ r.copy[1] \in stale

\* After the second edit the recorded text equals the screen only because the
\* server acknowledged it, and then nothing is on its way.
Acknowledged ==
    edits = 2 /\ hook.baseline = Current =>
        Live = {} /\ (active \notin stale => disk[active] = doc[active])

\* After the second edit a text that is not recorded has a save coming, or
\* the badge shows the failure of the last one.
Owed ==
    edits = 2 /\ hook.baseline # Current =>
        \/ hook.timer \/ hook.retry
        \/ hook.inFlight /\ hook.queued
        \/ \E r \in Live : r.copy = Current
        \/ ~hook.inFlight /\ hook.status = "error"

IInv ==
    /\ TypeOK
    /\ OneSaveAtATime
    /\ Ordered
    /\ WireOrdered
    /\ edits > 0 => hook.baseline # None
    /\ Acknowledged
    /\ Owed

-----------------------------------------------------------------------------
(* What the functions of the hook do to each ref.                           *)

\* A save that is asked for leaves the baseline and the timers alone; it
\* starts when none is running, and is queued otherwise.
LEMMA PerformSaveFacts ==
    ASSUME NEW h \in Hook, NEW c \in Copy
    PROVE  /\ PerformSave(h, c) \in Hook
           /\ PerformSave(h, c).baseline = h.baseline
           /\ PerformSave(h, c).timer = h.timer
           /\ PerformSave(h, c).retry = h.retry
           /\ PerformSave(h, c).inFlight = (h.inFlight \/ c # h.baseline)
           /\ PerformSave(h, c).queued = (h.queued \/ (h.inFlight /\ c # h.baseline))
           /\ ~Sends(h, c) => PerformSave(h, c).status = h.status
    BY DEF PerformSave, Sends, Hook, Status

\* The debounce effect records the first text it sees and otherwise arms the
\* timer for a text that is not recorded.
LEMMA DebounceFacts ==
    ASSUME NEW h \in Hook, NEW c \in Copy
    PROVE  /\ DebounceEffect(h, c) \in Hook
           /\ DebounceEffect(h, c).inFlight = h.inFlight
           /\ DebounceEffect(h, c).queued = h.queued
           /\ DebounceEffect(h, c).retry = h.retry
           /\ DebounceEffect(h, c).baseline
                  = IF h.baseline = None THEN c ELSE h.baseline
           /\ DebounceEffect(h, c).timer = (h.baseline # None /\ c # h.baseline)
    BY DEF DebounceEffect, ClearTimer, Hook, Status

LEMMA SimpleFacts ==
    ASSUME NEW h \in Hook
    PROVE  /\ ClearTimer(h) \in Hook
           /\ ClearTimer(h) = [h EXCEPT !.timer = FALSE]
           /\ ResetEffect(h) \in Hook
           /\ ResetEffect(h).baseline = None
           /\ ResetEffect(h).inFlight = h.inFlight
           /\ Finally(h) \in Hook
           /\ Finally(h).baseline = h.baseline
           /\ Finally(h).timer = h.timer
           /\ Finally(h).status = h.status
           /\ Finally(h).inFlight = FALSE
           /\ Finally(h).retry = (h.retry \/ h.queued)
    BY DEF ClearTimer, ResetEffect, Finally, Hook, Status

\* A hook that has just been mounted has no baseline and nothing to run.
LEMMA MountedFacts ==
    ASSUME NEW c \in Copy
    PROVE  /\ Mounted(c) \in Hook
           /\ Mounted(c).baseline = None
           /\ Mounted(c).inFlight = FALSE
<1>1. NewHook \in Hook /\ NewHook.inFlight = FALSE
    BY DEF NewHook, Hook, Status
<1> DEFINE d == DebounceEffect(NewHook, c)
<1>2. d \in Hook /\ d.inFlight = FALSE
    BY <1>1, DebounceFacts
<1>3. Mounted(c) = ResetEffect(d)
    BY DEF Mounted
<1> HIDE DEF d
<1>4. QED
    BY <1>2, <1>3, SimpleFacts

LEMMA CurrentIsCopy == TypeOK => Current \in Copy
    BY DEF TypeOK, Current, Copy

-----------------------------------------------------------------------------

LEMMA InitIInv == Init => IInv
<1> SUFFICES ASSUME Init PROVE IInv
    OBVIOUS
<1> USE AutosaveAssumption
<1>1. Current \in Copy
    BY DEF Init, Current, Copy, Version
<1>2. TypeOK
    <2>1. hook \in Hook
        BY <1>1, MountedFacts DEF Init
    <2>2. 0 \in Version
        BY DEF Version
    <2>3. QED
        BY <2>1, <2>2 DEF Init, TypeOK
<1>3. hook.baseline = None /\ hook.inFlight = FALSE
    BY <1>1, MountedFacts DEF Init
<1>4. QED
    BY <1>2, <1>3
    DEF Init, IInv, OneSaveAtATime, Ordered, WireOrdered, Acknowledged, Owed, Live, Version

-----------------------------------------------------------------------------
(* Every action preserves IInv.                                             *)

\* Asking for a save adds at most one request, and only when none is awaited.
LEMMA WireAfterSave ==
    ASSUME IInv, NEW h \in Hook,
           h.baseline = hook.baseline, h.inFlight = hook.inFlight,
           wire' = wire \cup Requests(h, Current),
           hook'.inFlight = (h.inFlight \/ Current # h.baseline),
           UNCHANGED <<disk, stale>>
    PROVE  /\ wire' \subseteq Request
           /\ OneSaveAtATime'
           /\ WireOrdered'
           /\ \A r \in wire' : r.copy[2] <= doc[r.copy[1]]
           /\ Live \subseteq Live'
           /\ Sends(h, Current) => \E r \in Live' : r.copy = Current
<1> DEFINE q == [copy |-> Current, state |-> "sent"]
<1> USE DEF IInv
<1>1. Current \in Copy /\ q \in Request
    BY CurrentIsCopy DEF Request
<1>2. CASE ~Sends(h, Current)
    <2>1. wire' = wire
        BY <1>2 DEF Requests
    <2>2. hook'.inFlight = hook.inFlight
        BY <1>2 DEF Sends, Hook, TypeOK
    <2>3. QED
        BY <2>1, <2>2, <1>2 DEF OneSaveAtATime, WireOrdered, Live, Ordered, TypeOK
<1>3. CASE Sends(h, Current)
    <2>1. wire' = wire \cup {q}
        BY <1>3 DEF Requests
    <2>2. Live = {} /\ hook'.inFlight
        BY <1>3 DEF Sends, OneSaveAtATime, Hook
    <2>3. Live' = {q}
        BY <2>1, <2>2 DEF Live
    <2>4. disk[active] <= doc[active] /\ q.copy[1] = active /\ q.copy[2] = doc[active]
        BY DEF Ordered, TypeOK, Current
    <2>5. OneSaveAtATime'
        BY <2>2, <2>3 DEF OneSaveAtATime
    <2>6. \A r \in wire' : r.copy[2] <= doc[r.copy[1]]
        <3>1. doc[active] \in Nat
            BY DEF TypeOK, Version
        <3>2. QED
            BY <2>1, <2>4, <3>1 DEF Ordered
    <2>7. WireOrdered'
        <3>1. \A r \in wire' : r = q \/ r.state = "abandoned"
            BY <2>1, <2>2 DEF Live
        <3>2. QED
            BY <3>1, <2>4, <2>6 DEF WireOrdered
    <2>8. QED
        BY <1>1, <2>1, <2>2, <2>3, <2>5, <2>6, <2>7 DEF TypeOK
<1>4. QED
    BY <1>2, <1>3

\* Cmd-S, the debounce timer and the retry: a save of what is on the screen.
LEMMA SaveStep ==
    ASSUME IInv, NEW h \in Hook,
           h.baseline = hook.baseline, h.inFlight = hook.inFlight,
           hook' = PerformSave(h, Current),
           wire' = wire \cup Requests(h, Current),
           UNCHANGED <<doc, active, disk, clock, edits, stale>>
    PROVE  IInv'
<1>1. Current \in Copy /\ Current' = Current
    BY CurrentIsCopy DEF IInv, Current
<1>2. /\ hook' \in Hook
      /\ hook'.baseline = hook.baseline
      /\ hook'.inFlight = (h.inFlight \/ Current # h.baseline)
      /\ hook'.queued = (h.queued \/ (h.inFlight /\ Current # h.baseline))
    BY <1>1, PerformSaveFacts
<1>3. /\ wire' \subseteq Request /\ OneSaveAtATime' /\ WireOrdered'
      /\ \A r \in wire' : r.copy[2] <= doc[r.copy[1]]
      /\ Sends(h, Current) => \E r \in Live' : r.copy = Current
    BY <1>2, WireAfterSave
<1>4. TypeOK' /\ Ordered' /\ (edits > 0 => hook.baseline # None)'
    BY <1>2, <1>3 DEF IInv, TypeOK, Ordered
<1>5. Acknowledged'
    <2>1. hook.baseline = Current => Requests(h, Current) = {}
        BY DEF Requests, Sends
    <2>2. hook.baseline = Current => wire' = wire
        BY <2>1
    <2>3. QED
        BY <1>1, <1>2, <2>2 DEF IInv, Acknowledged, Live
<1>6. Owed'
    BY <1>1, <1>2, <1>3 DEF Owed, Sends, Hook
<1>7. QED
    BY <1>3, <1>4, <1>5, <1>6 DEF IInv

\* What every edit does to the screen when no recorded text comes back.
LEMMA EditFacts ==
    ASSUME ~Reverts, IInv, NEW v \in Version, Edited(v)
    PROVE  /\ v = clock + 1 /\ clock' = v /\ doc' \in [Notebooks -> Version]
           /\ edits' \in 1 .. 2 /\ (edits' = 2 => edits > 0)
           /\ Current' = <<active, v>> /\ Current' \in Copy
           /\ \A n \in Notebooks : doc[n] <= doc'[n] /\ doc'[n] <= clock'
           /\ \A n \in Notebooks : doc[n] < v
           /\ UNCHANGED <<active, disk, stale>>
<1>1. v = clock + 1 /\ clock' = v /\ clock \in Nat /\ v \in Nat
    BY DEF Edited, IInv, TypeOK, Version
<1>2. doc' = [doc EXCEPT ![active] = v] /\ UNCHANGED <<active, disk, stale>>
    BY DEF Edited
<1>3. \A n \in Notebooks : doc[n] \in Nat /\ doc[n] <= clock
    BY DEF IInv, TypeOK, Version, Ordered
<1>4. edits' \in 1 .. 2 /\ (edits' = 2 => edits > 0)
    BY DEF Edited, IInv, TypeOK
<1>5. doc' \in [Notebooks -> Version] /\ doc'[active] = v /\ active \in Notebooks
    BY <1>2 DEF IInv, TypeOK
<1>6. \A n \in Notebooks : doc[n] <= doc'[n] /\ doc'[n] <= clock'
    BY <1>1, <1>2, <1>3, <1>5 DEF IInv, TypeOK
<1>7. QED
    BY <1>1, <1>2, <1>3, <1>4, <1>5, <1>6 DEF Current, Copy

\* An edit, once the requests it causes are known to be in order.
LEMMA EditStep ==
    ASSUME ~Reverts, IInv, NEW v \in Version, Edited(v),
           NEW h \in Hook, h.baseline = hook.baseline,
           hook' = DebounceEffect(h, <<active, v>>),
           wire' \subseteq Request, OneSaveAtATime', WireOrdered',
           \A r \in wire' : r.copy[2] <= doc[r.copy[1]]
    PROVE  IInv'
<1>1. /\ v = clock + 1 /\ clock' = v /\ doc' \in [Notebooks -> Version]
      /\ edits' \in 1 .. 2 /\ (edits' = 2 => edits > 0)
      /\ Current' = <<active, v>> /\ Current' \in Copy
      /\ \A n \in Notebooks : doc[n] <= doc'[n] /\ doc'[n] <= clock'
      /\ \A n \in Notebooks : doc[n] < v
      /\ UNCHANGED <<active, disk, stale>>
    BY EditFacts
<1>2. /\ hook' \in Hook
      /\ hook'.baseline = IF h.baseline = None THEN Current' ELSE h.baseline
      /\ hook'.timer = (h.baseline # None /\ Current' # h.baseline)
    BY <1>1, DebounceFacts
<1>3. Current' # None
    BY <1>1, AutosaveAssumption
<1>4. TypeOK'
    BY <1>1, <1>2 DEF IInv, TypeOK, Version
<1>5. \A n \in Notebooks : doc[n] \in Nat /\ doc'[n] \in Nat /\ disk[n] \in Nat
    BY <1>4 DEF IInv, TypeOK, Version
<1>6. hook.baseline # None =>
          hook.baseline[1] \in Notebooks /\ hook.baseline[2] \in Nat
          /\ hook.baseline[2] <= doc[hook.baseline[1]]
    BY DEF IInv, TypeOK, Hook, Copy, Ordered, Version
<1>7. hook.baseline # Current'
    BY <1>1, <1>3, <1>5, <1>6 DEF IInv, TypeOK
<1>8. Ordered'
    <2>1. \A n \in Notebooks : disk'[n] <= doc'[n] /\ doc'[n] <= clock'
        BY <1>1, <1>5 DEF IInv, Ordered
    <2>2. \A r \in wire' : r.copy[1] \in Notebooks /\ r.copy[2] \in Nat
        BY DEF Request, Copy, Version
    <2>3. \A r \in wire' : r.copy[2] <= doc'[r.copy[1]]
        BY <1>1, <1>5, <2>2
    <2>4. hook'.baseline # None => hook'.baseline[2] <= doc'[hook'.baseline[1]]
        <3>1. CASE hook.baseline = None
            BY <3>1, <1>1, <1>2, <1>5 DEF Current, IInv, TypeOK
        <3>2. CASE hook.baseline # None
            BY <3>2, <1>1, <1>2, <1>5, <1>6
        <3>3. QED
            BY <3>1, <3>2
    <2>5. QED
        BY <2>1, <2>3, <2>4 DEF Ordered
<1>9. (edits > 0 => hook.baseline # None)'
    BY <1>2, <1>3
<1>10. edits' = 2 => hook'.baseline # Current' /\ hook'.timer
    BY <1>1, <1>2, <1>7 DEF IInv
<1>11. Acknowledged' /\ Owed'
    BY <1>10 DEF Acknowledged, Owed
<1>12. QED
    BY <1>4, <1>8, <1>9, <1>11 DEF IInv

LEMMA TypeStep ==
    ASSUME ~Reverts, IInv, NEW v \in Version, Type(v)
    PROVE  IInv'
<1>1. Edited(v) /\ hook' = DebounceEffect(hook, <<active, v>>) /\ wire' = wire
    BY DEF Type
<1>2. hook \in Hook /\ UNCHANGED <<disk, stale>>
    BY <1>1 DEF Edited, IInv, TypeOK
<1>3. hook'.inFlight = hook.inFlight
    BY <1>1, <1>2, EditFacts, DebounceFacts
<1>4. wire' \subseteq Request /\ OneSaveAtATime' /\ WireOrdered'
    BY <1>1, <1>2, <1>3 DEF IInv, TypeOK, OneSaveAtATime, WireOrdered, Live
<1>5. \A r \in wire' : r.copy[2] <= doc[r.copy[1]]
    BY <1>1 DEF IInv, Ordered
<1>6. QED
    BY <1>1, <1>2, <1>4, <1>5, EditStep

LEMMA RestructureStep ==
    ASSUME ~Reverts, IInv, NEW v \in Version, Restructure(v)
    PROVE  IInv'
<1> DEFINE h == ClearTimer(hook)
           p == PerformSave(h, Current)
<1>1. Edited(v) /\ hook' = DebounceEffect(p, <<active, v>>)
      /\ wire' = wire \cup Requests(h, Current)
    BY DEF Restructure
<1>2. h \in Hook /\ h.baseline = hook.baseline /\ h.inFlight = hook.inFlight
    BY SimpleFacts DEF IInv, TypeOK, Hook, ClearTimer
<1>3. Current \in Copy /\ <<active, v>> \in Copy /\ UNCHANGED <<disk, stale>>
    BY <1>1, EditFacts, CurrentIsCopy DEF IInv
<1> HIDE DEF h
<1>4. p \in Hook /\ p.baseline = hook.baseline
      /\ p.inFlight = (h.inFlight \/ Current # h.baseline)
    BY <1>2, <1>3, PerformSaveFacts
<1> HIDE DEF p
<1>5. hook'.inFlight = p.inFlight
    BY <1>1, <1>3, <1>4, DebounceFacts
<1>6. /\ wire' \subseteq Request /\ OneSaveAtATime' /\ WireOrdered'
      /\ \A r \in wire' : r.copy[2] <= doc[r.copy[1]]
    BY <1>1, <1>2, <1>3, <1>4, <1>5, WireAfterSave
<1>7. QED
    BY <1>1, <1>4, <1>6, EditStep

\* When the hook takes another notebook up, or starts anew, nothing is claimed
\* of its edits; what matters is that the requests stay in order.
LEMMA FreshStep ==
    ASSUME IInv, hook' \in Hook, hook'.baseline = None,
           active' \in Notebooks, edits' = 0, wire' \subseteq Request,
           OneSaveAtATime', WireOrdered',
           \A r \in wire' : r.copy[2] <= doc[r.copy[1]],
           UNCHANGED <<doc, disk, clock, stale>>
    PROVE  IInv'
    BY DEF IInv, TypeOK, Ordered, Acknowledged, Owed

LEMMA SwitchTabStep ==
    ASSUME IInv, NEW n \in Notebooks, SwitchTab(n)
    PROVE  IInv'
<1> DEFINE c == <<n, doc[n]>>
           d == DebounceEffect(hook, c)
<1>1. c \in Copy /\ hook \in Hook
    BY DEF IInv, TypeOK, Copy
<1>2. d \in Hook /\ d.inFlight = hook.inFlight
    BY <1>1, DebounceFacts
<1>3. hook' = ResetEffect(d)
    BY DEF SwitchTab
<1> HIDE DEF d, c
<1>4. hook' \in Hook /\ hook'.baseline = None /\ hook'.inFlight = hook.inFlight
    BY <1>2, <1>3, SimpleFacts
<1>5. UNCHANGED <<doc, wire, disk, clock, stale>> /\ active' = n /\ edits' = 0
    BY DEF SwitchTab
<1>6. wire' \subseteq Request /\ OneSaveAtATime' /\ WireOrdered'
    BY <1>4, <1>5 DEF IInv, TypeOK, OneSaveAtATime, WireOrdered, Live
<1>7. \A r \in wire' : r.copy[2] <= doc[r.copy[1]]
    BY <1>5 DEF IInv, Ordered
<1>8. QED
    BY <1>4, <1>5, <1>6, <1>7, FreshStep

LEMMA IndicatorStep ==
    ASSUME IInv, IndicatorExpires
    PROVE  IInv'
<1>1. hook.status = "saved" /\ hook' = [hook EXCEPT !.status = "idle"]
      /\ UNCHANGED <<doc, active, wire, disk, clock, edits, stale>>
    BY DEF IndicatorExpires
<1>2. /\ hook' \in Hook
      /\ hook'.baseline = hook.baseline /\ hook'.timer = hook.timer
      /\ hook'.inFlight = hook.inFlight /\ hook'.queued = hook.queued
      /\ hook'.retry = hook.retry
    BY <1>1 DEF IInv, TypeOK, Hook, Status
<1>3. QED
    BY <1>1, <1>2
    DEF IInv, TypeOK, OneSaveAtATime, Ordered, WireOrdered, Acknowledged, Owed, Live, Current

\* What giving requests up leaves on the wire.
LEMMA AbandonFacts ==
    ASSUME IInv, NEW rs \in SUBSET Live, Abandon(rs), Live \ rs = {},
           UNCHANGED <<disk, stale>>
    PROVE  /\ wire' \subseteq Request
           /\ Live' = {}
           /\ WireOrdered'
           /\ \A r \in wire' : r.copy[2] <= doc[r.copy[1]]
<1>1. PICK kept \in SUBSET {r \in rs : r.state = "sent"} :
          wire' = (wire \ rs) \cup {[r EXCEPT !.state = "abandoned"] : r \in kept}
    BY DEF Abandon
<1>2. \A r \in wire' : \/ (r \in wire /\ r.state = "abandoned")
                        \/ \E k \in wire : r = [k EXCEPT !.state = "abandoned"]
    BY <1>1 DEF Live
<1>3. \A k \in wire : /\ [k EXCEPT !.state = "abandoned"] \in Request
                       /\ [k EXCEPT !.state = "abandoned"].copy = k.copy
                       /\ [k EXCEPT !.state = "abandoned"].state = "abandoned"
    BY DEF IInv, TypeOK, Request
<1>4. \A r \in wire' : r \in Request /\ r.state = "abandoned"
                        /\ \E k \in wire : r.copy = k.copy
    <2> SUFFICES ASSUME NEW r \in wire'
                 PROVE  r \in Request /\ r.state = "abandoned"
                        /\ \E k \in wire : r.copy = k.copy
        OBVIOUS
    <2>1. CASE r \in wire /\ r.state = "abandoned"
        BY <2>1 DEF IInv, TypeOK
    <2>2. ASSUME NEW k \in wire, r = [k EXCEPT !.state = "abandoned"]
          PROVE  r \in Request /\ r.state = "abandoned" /\ r.copy = k.copy
        BY <2>2, <1>3
    <2>3. QED
        BY <1>2, <2>1, <2>2
<1>5. QED
    BY <1>4 DEF IInv, Ordered, WireOrdered, Live

LEMMA ReloadStep ==
    ASSUME IInv, Reload
    PROVE  IInv'
<1>1. /\ hook' = Mounted(Current) /\ edits' = 0 /\ Abandon(Live)
      /\ UNCHANGED <<doc, active, disk, clock, stale>>
    BY DEF Reload
<1>2. hook' \in Hook /\ hook'.baseline = None /\ hook'.inFlight = FALSE
    BY <1>1, CurrentIsCopy, MountedFacts DEF IInv
<1>3. /\ wire' \subseteq Request /\ Live' = {} /\ WireOrdered'
      /\ \A r \in wire' : r.copy[2] <= doc[r.copy[1]]
    BY <1>1, AbandonFacts
<1>4. OneSaveAtATime'
    BY <1>2, <1>3 DEF OneSaveAtATime
<1>5. QED
    BY <1>1, <1>2, <1>3, <1>4, FreshStep DEF IInv, TypeOK

LEMMA SaveSucceedsStep ==
    ASSUME IInv, NEW r \in wire, SaveSucceeds(r)
    PROVE  IInv'
<1> DEFINE h == [hook EXCEPT !.baseline = r.copy, !.status = "saved"]
<1>1. /\ r.state = "applied" /\ hook' = Finally(h) /\ wire' = wire \ {r}
      /\ UNCHANGED <<doc, active, disk, clock, edits, stale>>
    BY DEF SaveSucceeds
<1>2. r \in Request /\ r.copy \in Copy /\ r \in Live
    BY <1>1 DEF IInv, TypeOK, Request, Live
<1>3. h \in Hook /\ h.baseline = r.copy /\ h.timer = hook.timer
      /\ h.retry = hook.retry /\ h.queued = hook.queued
    BY <1>2 DEF IInv, TypeOK, Hook, Status
<1> HIDE DEF h
<1>4. /\ hook' \in Hook /\ hook'.baseline = r.copy /\ hook'.inFlight = FALSE
      /\ hook'.timer = hook.timer /\ hook'.retry = (hook.retry \/ hook.queued)
    BY <1>1, <1>3, SimpleFacts
<1>5. Live' = {} /\ (\A q \in Live : q = r)
    BY <1>1, <1>2 DEF IInv, OneSaveAtATime, Live
<1>6. OneSaveAtATime' /\ WireOrdered' /\ TypeOK' /\ Ordered'
    BY <1>1, <1>2, <1>4, <1>5 DEF IInv, TypeOK, OneSaveAtATime, WireOrdered, Ordered
<1>7. r.copy # None
    BY <1>2, AutosaveAssumption
<1>8. Acknowledged'
    <2>1. r.copy = Current => r.copy[1] = active /\ r.copy[2] = doc[active]
        BY DEF Current
    <2>2. disk[r.copy[1]] = r.copy[2] \/ r.copy[1] \in stale
        BY <1>1 DEF IInv, WireOrdered
    <2>3. QED
        BY <1>1, <1>4, <1>5, <2>1, <2>2 DEF Acknowledged, Current
<1>9. Owed'
    <2> SUFFICES ASSUME edits = 2, r.copy # Current
                 PROVE  hook.timer \/ hook.retry \/ hook.queued
        BY <1>1, <1>4 DEF Owed, Current
    <2>1. hook.baseline # Current
        BY <1>2 DEF IInv, Acknowledged
    <2>2. hook.inFlight
        BY <1>2 DEF IInv, OneSaveAtATime
    <2>3. QED
        BY <2>1, <2>2, <1>5 DEF IInv, Owed
<1>10. QED
    BY <1>1, <1>4, <1>6, <1>7, <1>8, <1>9 DEF IInv

LEMMA SaveFailsStep ==
    ASSUME IInv, NEW r \in wire, SaveFails(r)
    PROVE  IInv'
<1> DEFINE h == [hook EXCEPT !.status = "error"]
<1>1. /\ r \in Live /\ hook' = Finally(h) /\ Abandon({r})
      /\ UNCHANGED <<doc, active, disk, clock, edits, stale>>
    BY DEF SaveFails
<1>2. h \in Hook /\ h.baseline = hook.baseline /\ h.timer = hook.timer
      /\ h.retry = hook.retry /\ h.queued = hook.queued /\ h.status = "error"
    BY DEF IInv, TypeOK, Hook, Status
<1> HIDE DEF h
<1>3. /\ hook' \in Hook /\ hook'.baseline = hook.baseline
      /\ hook'.inFlight = FALSE /\ hook'.status = "error"
    BY <1>1, <1>2, SimpleFacts
<1>4. Live \ {r} = {}
    BY <1>1 DEF IInv, OneSaveAtATime
<1>5. /\ wire' \subseteq Request /\ Live' = {} /\ WireOrdered'
      /\ \A q \in wire' : q.copy[2] <= doc[q.copy[1]]
    BY <1>1, <1>4, AbandonFacts
<1>6. OneSaveAtATime' /\ TypeOK' /\ Ordered'
    BY <1>1, <1>3, <1>5 DEF IInv, TypeOK, OneSaveAtATime, Ordered
<1>7. Acknowledged' /\ Owed'
    BY <1>1, <1>3, <1>5 DEF IInv, Acknowledged, Owed, Current
<1>8. QED
    BY <1>1, <1>3, <1>5, <1>6, <1>7 DEF IInv

LEMMA ServerSavesStep ==
    ASSUME IInv, NEW r \in wire, ServerSaves(r)
    PROVE  IInv'
<1> DEFINE n == r.copy[1]
<1>1. /\ disk' = [disk EXCEPT ![n] = r.copy[2]]
      /\ UNCHANGED <<doc, active, hook, clock, edits>>
    BY DEF ServerSaves
<1>2. /\ r \in Request /\ n \in Notebooks /\ r.copy[2] \in Version
      /\ disk' \in [Notebooks -> Version] /\ r.copy[2] <= doc[n]
      /\ \A m \in Notebooks : doc[m] \in Nat /\ disk[m] \in Nat
    BY <1>1 DEF IInv, TypeOK, Request, Copy, Version, Ordered
<1>3. CASE r.state = "sent"
    <2> DEFINE a == [r EXCEPT !.state = "applied"]
    <2>1. wire' = (wire \ {r}) \cup {a} /\ stale' = stale \ {n}
        BY <1>3 DEF ServerSaves
    <2>2. a \in Request /\ a.copy = r.copy /\ a.state = "applied"
        BY <1>2 DEF Request
    <2>3. Live = {r} /\ Live' = {a}
        BY <1>3, <2>1, <2>2 DEF IInv, OneSaveAtATime, Live
    <2> HIDE DEF a
    <2>4. TypeOK' /\ OneSaveAtATime'
        BY <1>1, <1>2, <2>1, <2>2, <2>3 DEF IInv, TypeOK, OneSaveAtATime
    <2>5. Ordered'
        BY <1>1, <1>2, <2>1, <2>2 DEF IInv, Ordered, TypeOK
    <2>6. WireOrdered'
        <3>1. \A q \in wire' : q = a \/ q.state = "abandoned"
            BY <2>1, <2>3 DEF Live
        <3>2. disk'[n] = r.copy[2]
            BY <1>1, <1>2 DEF IInv, TypeOK
        <3>3. QED
            BY <3>1, <3>2, <2>2 DEF WireOrdered
    <2>7. Acknowledged'
        BY <1>1, <2>3 DEF IInv, Acknowledged, Current
    <2>8. Owed'
        BY <1>1, <2>2, <2>3 DEF IInv, Owed, Current
    <2>9. QED
        BY <1>1, <2>4, <2>5, <2>6, <2>7, <2>8 DEF IInv
<1>4. CASE r.state = "abandoned"
    <2>1. wire' = wire \ {r} /\ stale' = stale \cup {n}
        BY <1>4 DEF ServerSaves
    <2>2. Live' = Live
        BY <1>4, <2>1 DEF Live
    <2>3. TypeOK' /\ OneSaveAtATime'
        BY <1>1, <1>2, <2>1, <2>2 DEF IInv, TypeOK, OneSaveAtATime
    <2>4. Ordered'
        BY <1>1, <1>2, <2>1 DEF IInv, Ordered, TypeOK
    <2>5. WireOrdered'
        <3>1. ASSUME NEW q \in wire, q.state = "sent"
              PROVE  disk'[q.copy[1]] <= q.copy[2]
            BY <3>1, <1>1, <1>2, <1>4 DEF IInv, WireOrdered, TypeOK, Request, Copy
        <3>2. ASSUME NEW q \in wire, q.state = "applied"
              PROVE  disk'[q.copy[1]] = q.copy[2] \/ q.copy[1] \in stale'
            BY <3>2, <1>1, <1>2, <2>1 DEF IInv, WireOrdered, TypeOK, Request, Copy
        <3>3. QED
            BY <2>1, <3>1, <3>2 DEF IInv, WireOrdered
    <2>6. Acknowledged' /\ Owed'
        BY <1>1, <1>2, <2>1, <2>2 DEF IInv, Acknowledged, Owed, Current, TypeOK
    <2>7. QED
        BY <1>1, <2>3, <2>4, <2>5, <2>6 DEF IInv
<1>5. QED
    BY <1>3, <1>4 DEF ServerSaves

-----------------------------------------------------------------------------

LEMMA NextIInv ==
    ASSUME ~Reverts, IInv, [Next]_vars
    PROVE  IInv'
<1>1. ASSUME NEW v \in Version, Type(v) PROVE IInv'
    BY <1>1, TypeStep
<1>2. ASSUME NEW v \in Version, Restructure(v) PROVE IInv'
    BY <1>2, RestructureStep
<1>3. CASE SaveNow
    <2> DEFINE h == ClearTimer(hook)
    <2>1. h \in Hook /\ h.baseline = hook.baseline /\ h.inFlight = hook.inFlight
        BY DEF IInv, TypeOK, Hook, ClearTimer
    <2>2. QED
        BY <1>3, <2>1, SaveStep DEF SaveNow
<1>4. ASSUME NEW n \in Notebooks, SwitchTab(n) PROVE IInv'
    BY <1>4, SwitchTabStep
<1>5. CASE TimerFires
    <2> DEFINE h == ClearTimer(hook)
    <2>1. h \in Hook /\ h.baseline = hook.baseline /\ h.inFlight = hook.inFlight
        BY DEF IInv, TypeOK, Hook, ClearTimer
    <2>2. QED
        BY <1>5, <2>1, SaveStep DEF TimerFires
<1>6. CASE RetryFires
    <2> DEFINE h == [hook EXCEPT !.retry = FALSE]
    <2>1. h \in Hook /\ h.baseline = hook.baseline /\ h.inFlight = hook.inFlight
        BY DEF IInv, TypeOK, Hook
    <2>2. QED
        BY <1>6, <2>1, SaveStep DEF RetryFires
<1>7. CASE IndicatorExpires
    BY <1>7, IndicatorStep
<1>8. ASSUME NEW r \in wire, ServerSaves(r) PROVE IInv'
    BY <1>8, ServerSavesStep
<1>9. ASSUME NEW r \in wire, SaveSucceeds(r) PROVE IInv'
    BY <1>9, SaveSucceedsStep
<1>10. ASSUME NEW r \in wire, SaveFails(r) PROVE IInv'
    BY <1>10, SaveFailsStep
<1>11. CASE Reload
    BY <1>11, ReloadStep
<1>12. CASE UNCHANGED vars
    BY <1>12
    DEF vars, IInv, TypeOK, OneSaveAtATime, Ordered, WireOrdered, Acknowledged,
        Owed, Live, Current
<1>13. QED
    BY <1>1, <1>2, <1>3, <1>4, <1>5, <1>6, <1>7, <1>8, <1>9, <1>10, <1>11, <1>12
    DEF Next

\* The invariant of every behaviour, on which the theorems below rest.
LEMMA SpecIInv == ASSUME ~Reverts PROVE SafetySpec => []IInv
<1>1. Init => IInv
    BY InitIInv
<1>2. IInv /\ [Next]_vars => IInv'
    BY NextIInv
<1>3. QED
    BY <1>1, <1>2, PTL DEF SafetySpec

\* Every behaviour of the pipeline keeps its refs, requests and files typed
\* (use-autosave.ts, the refs of the hook and the requests of performSave).
THEOREM AutosaveTypeOK == ASSUME ~Reverts PROVE SafetySpec => []TypeOK
<1>1. IInv => TypeOK
    BY DEF IInv
<1>2. QED
    BY <1>1, SpecIInv, PTL

\* At most one PUT is awaited, and it is the one inFlight stands for
\* (performSave's early return and its finally block).
THEOREM AutosaveOneSave == ASSUME ~Reverts PROVE SafetySpec => []OneSaveAtATime
<1>1. IInv => OneSaveAtATime
    BY DEF IInv
<1>2. QED
    BY <1>1, SpecIInv, PTL

\* At rest, work of the active notebook that the server lacks is flagged by
\* the badge, from the second edit on (performSave, its finally block, the
\* debounce effect).
THEOREM AutosaveNoSilentLoss ==
    ASSUME ~Reverts PROVE SafetySpec => []NoSilentlyUnsavedWork
<1>1. IInv => NoSilentlyUnsavedWork
    <2> SUFFICES ASSUME IInv, edits = 2, AtRest, Unsaved, active \notin stale
                 PROVE  hook.status = "error"
        BY DEF NoSilentlyUnsavedWork
    <2>1. hook.baseline # Current
        BY DEF IInv, Acknowledged, Unsaved
    <2>2. Live = {}
        BY DEF IInv, OneSaveAtATime, AtRest
    <2>3. QED
        BY <2>1, <2>2 DEF IInv, Owed, AtRest
<1>2. QED
    BY <1>1, SpecIInv, PTL

\* A page that closes without a question has its active notebook on the
\* server, from the second edit on (onBeforeUnload).
THEOREM AutosaveSilentClose ==
    ASSUME ~Reverts PROVE SafetySpec => []SilentCloseIsSafe
<1>1. IInv => SilentCloseIsSafe
    BY DEF IInv, Acknowledged, SilentCloseIsSafe, Prompts, Unsaved
<1>2. QED
    BY <1>1, SpecIInv, PTL

\* Only a request the client had given up can take a file back to an older
\* version (performSave, one save at a time).
THEOREM AutosaveNoRegress ==
    ASSUME ~Reverts PROVE SafetySpec => ServerNeverRegresses
<1> DEFINE Kept == \A n \in Notebooks : disk'[n] < disk[n] => n \in stale'
<1>1. ASSUME IInv, [Next]_vars PROVE [Kept]_<<disk, stale>>
    <2>1. ASSUME NEW r \in wire, ServerSaves(r) PROVE Kept
        <3>1. /\ r \in Request /\ r.copy[1] \in Notebooks /\ r.copy[2] \in Nat
              /\ disk \in [Notebooks -> Nat]
            BY <1>1 DEF IInv, TypeOK, Request, Copy, Version
        <3>2. disk' = [disk EXCEPT ![r.copy[1]] = r.copy[2]]
            BY <2>1 DEF ServerSaves
        <3>3. CASE r.state = "sent"
            <4>1. disk[r.copy[1]] <= r.copy[2]
                BY <1>1, <3>3 DEF IInv, WireOrdered
            <4>2. QED
                BY <3>1, <3>2, <4>1
        <3>4. CASE r.state = "abandoned"
            <4>1. stale' = stale \cup {r.copy[1]}
                BY <2>1, <3>4 DEF ServerSaves
            <4>2. QED
                BY <3>1, <3>2, <4>1
        <3>5. QED
            BY <2>1, <3>3, <3>4 DEF ServerSaves
    <2>2. CASE ~ \E r \in wire : ServerSaves(r)
        BY <1>1, <2>2
        DEF Next, vars, Type, Restructure, Edited, SaveNow, SwitchTab, TimerFires,
            RetryFires, IndicatorExpires, SaveSucceeds, SaveFails, Reload
    <2>3. QED
        BY <2>1, <2>2
<1>2. QED
    BY <1>1, SpecIInv, PTL DEF SafetySpec, ServerNeverRegresses
=============================================================================
