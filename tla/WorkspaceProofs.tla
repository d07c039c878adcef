--------------------------- MODULE WorkspaceProofs ---------------------------
(***************************************************************************)
(* Which answers take typed text away, and that what is deleted with no    *)
(* other request beside stays deleted, for any notebooks and copies of     *)
(* them, any number of requests at once and any bounds.                    *)
(***************************************************************************)
EXTENDS Parts, SequenceTheorems, TLAPS

TabsSlot == 1 .. Slots
Distinct == \A i, j \in DOMAIN tabs : tabs[i] = tabs[j] => i = j

\* Tabs and what they show.
ScreenTyped ==
    /\ tabs \in Seq(Notebooks) /\ tabs # <<>> /\ Distinct
    /\ active \in Tabs!OpenTabs /\ Tabs!OpenTabs \subseteq used /\ used \subseteq Notebooks
    /\ book = [n \in Notebooks |-> book[n]]
    /\ \A n \in Notebooks : IF n \in Tabs!OpenTabs THEN book[n] \in Tabs!Contents ELSE book[n] = Absent

\* What the server has: a notebook with a commit has a last one.
ServerTyped ==
    /\ file = [n \in Notebooks |-> file[n]]
    /\ head = [n \in Notebooks |-> head[n]]
    /\ versions = [n \in Notebooks |-> versions[n]]
    /\ \A n \in Notebooks : /\ file[n] = Absent \/ file[n] \in Tabs!Contents
                            /\ versions[n] \subseteq Tabs!Contents
                            /\ versions[n] # {} => head[n] \in Tabs!Contents

\* A request that is under way: only one that creates has no notebook yet.
RequestTyped(q) ==
    /\ q.body \in Tabs!Contents /\ q.since \in Tabs!Contents
    /\ q.pc # "free" =>
          /\ q.kind \in Tabs!Kinds
          /\ q.nb \in used \/ (q.kind = "create" /\ q.nb = Absent /\ q.pc # "answered")
          /\ q.kind = "create" /\ q.nb # Absent => q.pc = "answered"
          /\ q.pc = "restored" => q.kind = "restore"
          /\ q.kind = "optimize" => q.pc = "answered"

FlightTyped ==
    /\ flight = [i \in TabsSlot |-> flight[i]]
    /\ \A i \in TabsSlot : flight[i] = [kind |-> flight[i].kind, nb |-> flight[i].nb, pc |-> flight[i].pc,
                                    body |-> flight[i].body, since |-> flight[i].since]
    /\ \A i \in TabsSlot : RequestTyped(flight[i])

TabsTyped == ScreenTyped /\ ServerTyped /\ FlightTyped /\ edits \in 0 .. MaxEdits

\* The requests under way about n, and those whose answers replace it.
OnIt(n) == {i \in Tabs!Busy : flight[i].nb = n}
Replacers(n) == {i \in OnIt(n) : flight[i].kind \in Tabs!Replacing}

\* One request at most replaces a notebook, as long as nothing has crossed.
OneReplaces == \A n \in Notebooks \ crossed : \A i, j \in Replacers(n) : i = j

\* What is being opened is not open yet.
OpensWhatIsClosed ==
    \A n \in Notebooks \ crossed : \A i \in OnIt(n) :
        flight[i].kind \in {"open", "create"} => n \notin Tabs!OpenTabs

\* What Optimize will put back is all there is, up to what was typed since.
OptimizeKnows ==
    \A n \in Tabs!OpenTabs \ crossed : \A i \in OnIt(n) :
        flight[i].kind = "optimize" => book[n] \subseteq flight[i].body \cup flight[i].since

\* A deletion is alone, and has removed the file once it is answered.
DeletesAlone ==
    \A n \in Notebooks \ tangled : \A i \in OnIt(n) : flight[i].kind = "delete" =>
        /\ \A j \in OnIt(n) : j = i
        /\ flight[i].pc = "answered" => file[n] = Absent

\* What is left of a deleted notebook is a click that will find nothing.
GoneForGood ==
    \A n \in deleted \ tangled :
        /\ n \in used /\ n \notin Tabs!OpenTabs /\ file[n] = Absent
        /\ \A i \in OnIt(n) : flight[i].kind = "open" /\ flight[i].pc # "answered"

TabsInv ==
    /\ TabsTyped /\ OneReplaces /\ OpensWhatIsClosed /\ OptimizeKnows
    /\ DeletesAlone /\ GoneForGood /\ lost = {}

LEMMA IndexIs ==
    ASSUME tabs \in Seq(Notebooks), NEW n \in Tabs!OpenTabs
    PROVE  Tabs!Index(n) \in 1 .. Len(tabs) /\ tabs[Tabs!Index(n)] = n
BY DEF Tabs!OpenTabs, Tabs!Index

LEMMA WithoutIs ==
    ASSUME tabs \in Seq(Notebooks), Distinct, NEW n \in Tabs!OpenTabs
    PROVE  /\ Tabs!Without(n) \in Seq(Notebooks) /\ Len(Tabs!Without(n)) = Len(tabs) - 1
           /\ \A i, j \in 1 .. Len(Tabs!Without(n)) : Tabs!Without(n)[i] = Tabs!Without(n)[j] => i = j
           /\ {Tabs!Without(n)[i] : i \in 1 .. Len(Tabs!Without(n))} = Tabs!OpenTabs \ {n}
           /\ Tabs!Without(n) # <<>> => Len(Tabs!Without(n)) > 0
           /\ Tabs!OpenTabs # {n} => Tabs!Without(n) # <<>>
<1> DEFINE k == Tabs!Index(n)
           s == Tabs!Without(n)
<1>1. k \in 1 .. Len(tabs) /\ tabs[k] = n
  BY IndexIs
<1>2. Len(tabs) \in Nat /\ DOMAIN tabs = 1 .. Len(tabs) /\ \A i \in 1 .. Len(tabs) : tabs[i] \in Notebooks
  OBVIOUS
<1>3. Len(tabs) - 1 \in Nat /\ s = [i \in 1 .. Len(tabs) - 1 |-> tabs[IF i < k THEN i ELSE i + 1]]
  BY <1>1, <1>2 DEF Tabs!Without
<1> HIDE DEF k, s
<1>4. \A i \in 1 .. Len(tabs) - 1 : s[i] = tabs[IF i < k THEN i ELSE i + 1] /\ (IF i < k THEN i ELSE i + 1) \in 1 .. Len(tabs) \ {k}
  BY <1>1, <1>2, <1>3
<1>5. s \in Seq(Notebooks) /\ Len(s) = Len(tabs) - 1
  <2>1. s \in [1 .. Len(tabs) - 1 -> Notebooks]
    BY <1>2, <1>3, <1>4
  <2> QED BY <2>1, <1>3
<1>6. \A i, j \in 1 .. Len(s) : s[i] = s[j] => i = j
  <2> TAKE i, j \in 1 .. Len(s)
  <2> HAVE s[i] = s[j]
  <2>1. (IF i < k THEN i ELSE i + 1) = (IF j < k THEN j ELSE j + 1)
    BY <1>2, <1>4, <1>5 DEF Distinct
  <2> QED BY <1>1, <1>2, <1>5, <2>1
<1>7. \A j \in 1 .. Len(tabs) \ {k} : \E i \in 1 .. Len(tabs) - 1 : s[i] = tabs[j]
  <2> TAKE j \in 1 .. Len(tabs) \ {k}
  <2>1. CASE j < k
    BY <1>1, <1>2, <1>4, <2>1
  <2>2. CASE j > k
    <3>1. j - 1 \in 1 .. Len(tabs) - 1 /\ s[j - 1] = tabs[j]
      BY <1>1, <1>2, <1>4, <2>2
    <3> QED BY <3>1
  <2> QED BY <1>1, <2>1, <2>2
<1>8. {s[i] : i \in 1 .. Len(s)} = Tabs!OpenTabs \ {n}
  <2>1. \A m \in Tabs!OpenTabs \ {n} : \E i \in 1 .. Len(s) : s[i] = m
    BY <1>1, <1>2, <1>5, <1>7 DEF Tabs!OpenTabs
  <2>2. \A i \in 1 .. Len(s) : s[i] \in Tabs!OpenTabs \ {n}
    BY <1>1, <1>2, <1>4, <1>5 DEF Tabs!OpenTabs, Distinct
  <2> QED BY <2>1, <2>2
<1>9. s # <<>> => Len(s) > 0
  BY <1>5
<1>10. Tabs!OpenTabs # {n} => s # <<>>
  BY <1>8
<1> QED BY <1>5, <1>6, <1>8, <1>9, <1>10 DEF s


\* A notebook is put on the screen.
LEMMA ReplacedIs ==
    ASSUME ScreenTyped, NEW n \in Notebooks, NEW content \in Tabs!Contents, Tabs!Replaced(n, content),
           used \subseteq used', n \in used', used' \subseteq Notebooks
    PROVE  /\ ScreenTyped' /\ Tabs!OpenTabs' = Tabs!OpenTabs \cup {n} /\ book'[n] = content
           /\ \A m \in Notebooks \ {n} : book'[m] = book[m]
<1>1. book' = [book EXCEPT ![n] = content] /\ active' = n
  BY DEF Tabs!Replaced
<1>2. /\ book' = [m \in Notebooks |-> book'[m]] /\ book'[n] = content
      /\ \A m \in Notebooks \ {n} : book'[m] = book[m]
  BY <1>1 DEF ScreenTyped
<1>3. tabs' \in Seq(Notebooks) /\ tabs' # <<>> /\ Distinct' /\ Tabs!OpenTabs' = Tabs!OpenTabs \cup {n}
  <2>1. CASE n \in Tabs!OpenTabs
    BY <2>1 DEF Tabs!Replaced, ScreenTyped, Distinct, Tabs!OpenTabs
  <2>2. CASE n \notin Tabs!OpenTabs
    <3>1. tabs' = Append(tabs, n) /\ tabs \in Seq(Notebooks)
      BY <2>2 DEF Tabs!Replaced, ScreenTyped
    <3>2. /\ tabs' \in Seq(Notebooks) /\ Len(tabs') = Len(tabs) + 1 /\ tabs'[Len(tabs) + 1] = n
          /\ \A i \in 1 .. Len(tabs) : tabs'[i] = tabs[i]
          /\ Len(tabs) \in Nat /\ DOMAIN tabs = 1 .. Len(tabs) /\ DOMAIN tabs' = 1 .. Len(tabs) + 1
      BY <3>1
    <3>3. tabs' # <<>>
      BY <3>2
    <3>4. \A i \in DOMAIN tabs : tabs[i] # n
      BY <2>2 DEF Tabs!OpenTabs
    <3>5. \A i, j \in 1 .. Len(tabs) + 1 : tabs'[i] = tabs'[j] => i = j
      <4> TAKE i, j \in 1 .. Len(tabs) + 1
      <4>1. CASE i \in 1 .. Len(tabs) /\ j \in 1 .. Len(tabs)
        BY <3>2, <4>1 DEF ScreenTyped, Distinct
      <4>2. CASE i = Len(tabs) + 1 \/ j = Len(tabs) + 1
        BY <3>2, <3>4, <4>2
      <4> QED BY <3>2, <4>1, <4>2
    <3>6. Tabs!OpenTabs' = Tabs!OpenTabs \cup {n}
      <4>1. \A i \in 1 .. Len(tabs) + 1 : tabs'[i] \in Tabs!OpenTabs \cup {n}
        BY <3>2 DEF Tabs!OpenTabs
      <4>2. \A m \in Tabs!OpenTabs \cup {n} : \E i \in 1 .. Len(tabs) + 1 : tabs'[i] = m
        BY <3>2 DEF Tabs!OpenTabs
      <4> QED BY <3>2, <4>1, <4>2 DEF Tabs!OpenTabs
    <3> QED BY <3>2, <3>3, <3>5, <3>6 DEF Distinct
  <2> QED BY <2>1, <2>2
<1>4. \A m \in Notebooks : IF m \in Tabs!OpenTabs' THEN book'[m] \in Tabs!Contents ELSE book'[m] = Absent
  BY <1>2, <1>3 DEF ScreenTyped
<1> QED BY <1>1, <1>2, <1>3, <1>4 DEF ScreenTyped

\* A tab is closed: what is on the screen then was there, or is new.
LEMMA ClosedIs ==
    ASSUME Tabs!WorkspaceConstants, ScreenTyped, NEW n \in used, Tabs!Closed(n)
    PROVE  /\ ScreenTyped' /\ n \notin Tabs!OpenTabs' /\ used \subseteq used'
           /\ \A m \in Tabs!OpenTabs' : (m \in Tabs!OpenTabs /\ book'[m] = book[m]) \/ m \notin used
<1> DEFINE kept == Tabs!Without(n)
<1>1. CASE n \notin Tabs!OpenTabs
  BY <1>1 DEF Tabs!Closed, Tabs!Screen, ScreenTyped, Tabs!OpenTabs, Distinct
<1>2. CASE n \in Tabs!OpenTabs
  <2>0. n \in Notebooks /\ tabs \in Seq(Notebooks) /\ Distinct
    BY DEF ScreenTyped
  <2>1. /\ kept \in Seq(Notebooks) /\ Len(kept) = Len(tabs) - 1
        /\ \A i, j \in 1 .. Len(kept) : kept[i] = kept[j] => i = j
        /\ {kept[i] : i \in 1 .. Len(kept)} = Tabs!OpenTabs \ {n}
        /\ kept # <<>> => Len(kept) > 0
        /\ Tabs!OpenTabs # {n} => kept # <<>>
        /\ Tabs!Index(n) \in 1 .. Len(tabs)
    BY <1>2, <2>0, WithoutIs, IndexIs
  <2> HIDE DEF kept
  <2>2. CASE kept # <<>> /\ tabs' = kept /\ used' = used
    <3>1. /\ book' = [book EXCEPT ![n] = Absent]
          /\ active' = IF active # n THEN active
                       ELSE kept[IF Tabs!Index(n) <= Len(kept) THEN Tabs!Index(n) ELSE Len(kept)]
      BY <1>2, <2>2 DEF Tabs!Closed, kept
    <3>2. Tabs!OpenTabs' = Tabs!OpenTabs \ {n}
      <4>1. DOMAIN kept = 1 .. Len(kept)
        BY <2>1
      <4> QED BY <2>1, <2>2, <4>1 DEF Tabs!OpenTabs
    <3>3. Distinct'
      BY <2>1, <2>2 DEF Distinct
    <3>4. active' \in Tabs!OpenTabs'
      <4>1. CASE active # n
        BY <3>1, <3>2, <4>1 DEF ScreenTyped
      <4>2. CASE active = n
        <5> DEFINE k == IF Tabs!Index(n) <= Len(kept) THEN Tabs!Index(n) ELSE Len(kept)
        <5>1. k \in 1 .. Len(kept) /\ active' = kept[k]
          BY <2>1, <2>2, <3>1, <4>2
        <5> QED BY <2>1, <3>2, <5>1
      <4> QED BY <4>1, <4>2
    <3>5. /\ book' = [m \in Notebooks |-> book'[m]] /\ book'[n] = Absent
          /\ \A m \in Notebooks \ {n} : book'[m] = book[m]
      BY <2>0, <3>1 DEF ScreenTyped
    <3> QED BY <2>0, <2>1, <2>2, <3>2, <3>3, <3>4, <3>5 DEF ScreenTyped
  <2>3. CASE kept = <<>>
    <3>1. PICK fresh \in Tabs!Unused :
              /\ tabs' = <<fresh>> /\ active' = fresh /\ used' = used \cup {fresh}
              /\ book' = [book EXCEPT ![n] = Absent, ![fresh] = {}]
      BY <1>2, <2>3 DEF Tabs!Closed, kept
    <3>2. Tabs!OpenTabs = {n} /\ fresh \in Notebooks /\ fresh \notin used /\ fresh # n
      BY <2>1, <2>3, <3>1 DEF Tabs!Unused
    <3>3. Tabs!OpenTabs' = {fresh} /\ tabs' \in Seq(Notebooks) /\ tabs' # <<>> /\ Distinct'
      BY <3>1, <3>2 DEF Tabs!OpenTabs, Distinct
    <3>4. /\ book' = [m \in Notebooks |-> book'[m]] /\ book'[n] = Absent /\ book'[fresh] = {}
          /\ \A m \in Notebooks \ {n, fresh} : book'[m] = book[m]
      BY <2>0, <3>1, <3>2 DEF ScreenTyped
    <3>5. {} \in Tabs!Contents
      BY DEF Tabs!Contents
    <3> QED BY <3>1, <3>2, <3>3, <3>4, <3>5 DEF ScreenTyped
  <2> QED BY <1>2, <2>2, <2>3 DEF Tabs!Closed, kept
<1> QED BY <1>1, <1>2

\* One slot changes.
LEMMA SlotIs ==
    ASSUME FlightTyped, NEW i \in TabsSlot, NEW r, flight' = [flight EXCEPT ![i] = r]
    PROVE  /\ flight'[i] = r /\ \A j \in TabsSlot \ {i} : flight'[j] = flight[j]
           /\ flight' = [j \in TabsSlot |-> flight'[j]]
           /\ \A n : /\ OnIt(n)' \ {i} = OnIt(n) \ {i} /\ OnIt(n) \subseteq TabsSlot /\ OnIt(n)' \subseteq TabsSlot
                     /\ i \in OnIt(n)' <=> r.pc # "free" /\ r.nb = n
BY DEF FlightTyped, OnIt, Tabs!Busy, TabsSlot

\* A request leaves its slot.
LEMMA FreedIs ==
    ASSUME FlightTyped, NEW i \in TabsSlot, Tabs!Freed(i), used \subseteq used'
    PROVE  /\ FlightTyped' /\ \A n : OnIt(n)' = OnIt(n) \ {i} /\ OnIt(n) \subseteq TabsSlot
           /\ \A j \in TabsSlot \ {i} : flight'[j] = flight[j]
<1>1. flight' = [flight EXCEPT ![i] = Tabs!NoRequest]
  BY DEF Tabs!Freed
<1>2. /\ Tabs!NoRequest.pc = "free" /\ Tabs!NoRequest.body = {} /\ Tabs!NoRequest.since = {}
      /\ Tabs!NoRequest = [kind |-> Tabs!NoRequest.kind, nb |-> Tabs!NoRequest.nb, pc |-> Tabs!NoRequest.pc,
                      body |-> Tabs!NoRequest.body, since |-> Tabs!NoRequest.since]
  BY DEF Tabs!NoRequest
<1>3. PICK r : r = Tabs!NoRequest
  OBVIOUS
<1>4. /\ flight'[i] = r /\ \A j \in TabsSlot \ {i} : flight'[j] = flight[j]
      /\ flight' = [j \in TabsSlot |-> flight'[j]]
      /\ \A n : /\ OnIt(n)' \ {i} = OnIt(n) \ {i} /\ OnIt(n) \subseteq TabsSlot /\ OnIt(n)' \subseteq TabsSlot
                /\ i \in OnIt(n)' <=> r.pc # "free" /\ r.nb = n
  BY <1>1, <1>3, SlotIs
<1>5. \A n : OnIt(n)' = OnIt(n) \ {i} /\ OnIt(n) \subseteq TabsSlot
  BY <1>2, <1>3, <1>4
<1>6. RequestTyped(flight[i])' /\ flight'[i] = [kind |-> flight'[i].kind, nb |-> flight'[i].nb, pc |-> flight'[i].pc,
                                    body |-> flight'[i].body, since |-> flight'[i].since]
  BY <1>2, <1>3, <1>4 DEF RequestTyped, Tabs!Contents
<1>7. \A j \in TabsSlot \ {i} : RequestTyped(flight[j])' /\ flight'[j] = [kind |-> flight'[j].kind, nb |-> flight'[j].nb, pc |-> flight'[j].pc,
                                    body |-> flight'[j].body, since |-> flight'[j].since]
  <2> TAKE j \in TabsSlot \ {i}
  <2>1. RequestTyped(flight[j]) /\ flight'[j] = flight[j]
    BY <1>4 DEF FlightTyped
  <2>2. RequestTyped(flight[j])'
    BY <2>1 DEF RequestTyped
  <2> QED BY <2>1, <2>2 DEF FlightTyped
<1> QED BY <1>4, <1>5, <1>6, <1>7 DEF FlightTyped

\* What a request is about is a notebook that is in use.
LEMMA AboutUsed ==
    ASSUME Tabs!WorkspaceConstants, TabsTyped, NEW n, OnIt(n) # {}
    PROVE  n \in used \/ n = Absent
BY DEF TabsTyped, FlightTyped, RequestTyped, OnIt, Tabs!Busy, TabsSlot

\* Requests end, tabs close, and what is put on the screen is new, or what was
\* there, or no other request is to replace it.
LEMMA ShrinkKeeps ==
    ASSUME Tabs!WorkspaceConstants, TabsInv, ScreenTyped', FlightTyped',
           UNCHANGED <<Tabs!Server, edits, tangled>>, crossed \subseteq crossed',
           used \subseteq used', lost' = {},
           \A n : /\ OnIt(n)' \subseteq OnIt(n)
                  /\ \A i \in OnIt(n)' : /\ flight'[i].kind = flight[i].kind /\ flight'[i].body = flight[i].body
                                         /\ flight'[i].since = flight[i].since
                                         /\ flight'[i].pc = "answered" => flight[i].pc = "answered",
           \A n \in Tabs!OpenTabs' : \/ n \in Tabs!OpenTabs /\ book'[n] \subseteq book[n]
                                     \/ n \notin used
                                     \/ (n \notin crossed' => Replacers(n)' = {}) /\ n \notin deleted \ tangled,
           \A n \in deleted' \ deleted :
                n \notin tangled => n \in used /\ n \notin Tabs!OpenTabs' /\ file[n] = Absent /\ OnIt(n)' = {}
    PROVE  TabsInv'
<1>1. TabsTyped'
  BY DEF TabsInv, TabsTyped, Tabs!Server, ServerTyped
<1>2. \A n \in Tabs!OpenTabs' \ used : OnIt(n) = {} /\ n \in Notebooks
  <2> TAKE n \in Tabs!OpenTabs' \ used
  <2>1. n \in Notebooks
    BY DEF ScreenTyped
  <2> QED BY <2>1, AboutUsed DEF TabsInv, Tabs!WorkspaceConstants
<1>3. OneReplaces'
  BY DEF TabsInv, OneReplaces, Replacers
<1>4. \A n \in Tabs!OpenTabs' \ crossed' :
          (n \in Tabs!OpenTabs /\ book'[n] \subseteq book[n]) \/ Replacers(n)' = {}
  BY <1>2 DEF Replacers
<1>5. OpensWhatIsClosed'
  <2> SUFFICES ASSUME NEW n \in Notebooks \ crossed', NEW i \in OnIt(n)', flight'[i].kind \in {"open", "create"},
                      n \in Tabs!OpenTabs'
               PROVE  FALSE
    BY DEF OpensWhatIsClosed
  <2>1. i \in Replacers(n)' /\ i \in OnIt(n) /\ flight[i].kind \in {"open", "create"}
    BY DEF Replacers, Tabs!Replacing
  <2> QED BY <1>4, <2>1 DEF TabsInv, OpensWhatIsClosed
<1>6. OptimizeKnows'
  <2> SUFFICES ASSUME NEW n \in Tabs!OpenTabs' \ crossed', NEW i \in OnIt(n)', flight'[i].kind = "optimize"
               PROVE  book'[n] \subseteq flight'[i].body \cup flight'[i].since
    BY DEF OptimizeKnows
  <2>1. i \in Replacers(n)' /\ i \in OnIt(n) /\ flight[i].kind = "optimize"
    BY DEF Replacers, Tabs!Replacing
  <2> QED BY <1>4, <2>1 DEF TabsInv, OptimizeKnows
<1>7. DeletesAlone'
  BY DEF TabsInv, DeletesAlone, Tabs!Server
<1>8. GoneForGood'
  BY <1>2 DEF TabsInv, GoneForGood, Tabs!Server
<1> QED BY <1>1, <1>3, <1>5, <1>6, <1>7, <1>8 DEF TabsInv

LEMMA CloseTabKeeps ==
    ASSUME Tabs!WorkspaceConstants, TabsInv, NEW n \in Notebooks, Tabs!CloseTab(n) PROVE TabsInv'
<1>1. n \in used /\ Tabs!Closed(n)
  BY DEF Tabs!CloseTab, TabsInv, TabsTyped, ScreenTyped
<1>2. /\ ScreenTyped' /\ n \notin Tabs!OpenTabs' /\ used \subseteq used'
      /\ \A m \in Tabs!OpenTabs' : (m \in Tabs!OpenTabs /\ book'[m] = book[m]) \/ m \notin used
  BY <1>1, ClosedIs DEF TabsInv, TabsTyped
<1>3. UNCHANGED <<Tabs!Server, flight, edits, crossed, tangled, deleted, lost>>
  BY DEF Tabs!CloseTab, Tabs!Counters
<1>4. \A m : OnIt(m)' = OnIt(m)
  BY <1>3 DEF OnIt, Tabs!Busy
<1>5. FlightTyped'
  BY <1>2, <1>3 DEF TabsInv, TabsTyped, FlightTyped, RequestTyped
<1>6. \A m \in Tabs!OpenTabs' : (m \in Tabs!OpenTabs /\ book'[m] \subseteq book[m]) \/ m \notin used
  BY <1>2
<1>7. lost' = {} /\ deleted' = deleted /\ flight' = flight
  BY <1>3 DEF TabsInv
<1> QED BY <1>2, <1>3, <1>4, <1>5, <1>6, <1>7, ShrinkKeeps

\* An imported notebook is new: nothing is under way about it.
LEMMA ImportKeeps ==
    ASSUME Tabs!WorkspaceConstants, TabsInv, NEW n \in Notebooks, Tabs!Import(n) PROVE TabsInv'
<1>1. PICK m \in Tabs!OpenTabs : Tabs!Replaced(n, book[m])
  BY DEF Tabs!Import
<1>2. /\ n \notin used /\ used' = used \cup {n}
      /\ UNCHANGED <<Tabs!Server, flight, edits, crossed, tangled, deleted, lost>>
  BY DEF Tabs!Import, Tabs!Counters
<1>3. book[m] \in Tabs!Contents /\ Tabs!OpenTabs \subseteq Notebooks /\ used' \subseteq Notebooks
  BY <1>2 DEF TabsInv, TabsTyped, ScreenTyped
<1>4. /\ ScreenTyped' /\ Tabs!OpenTabs' = Tabs!OpenTabs \cup {n}
      /\ \A k \in Notebooks \ {n} : book'[k] = book[k]
  BY <1>1, <1>2, <1>3, ReplacedIs DEF TabsInv, TabsTyped
<1>5. \A k : OnIt(k)' = OnIt(k)
  BY <1>2 DEF OnIt, Tabs!Busy
<1>6. FlightTyped'
  BY <1>2 DEF TabsInv, TabsTyped, FlightTyped, RequestTyped
<1>7. \A k \in Tabs!OpenTabs' : (k \in Tabs!OpenTabs /\ book'[k] \subseteq book[k]) \/ k \notin used
  BY <1>2, <1>3, <1>4
<1>8. lost' = {} /\ deleted' = deleted /\ flight' = flight
  BY <1>2 DEF TabsInv
<1> QED BY <1>2, <1>4, <1>5, <1>6, <1>7, <1>8, ShrinkKeeps

LEMMA SwitchTabKeeps ==
    ASSUME Tabs!WorkspaceConstants, TabsInv, NEW n \in Notebooks, Tabs!SwitchTab(n) PROVE TabsInv'
<1>1. UNCHANGED <<tabs, book, Tabs!Server, flight, edits, used, crossed, tangled, deleted, lost>> /\ active' \in Tabs!OpenTabs
  BY DEF Tabs!SwitchTab, Tabs!Counters
<1>2. Tabs!OpenTabs' = Tabs!OpenTabs /\ \A m : OnIt(m)' = OnIt(m)
  BY <1>1 DEF Tabs!OpenTabs, OnIt, Tabs!Busy
<1>3. ScreenTyped' /\ FlightTyped'
  BY <1>1, <1>2 DEF TabsInv, TabsTyped, ScreenTyped, FlightTyped, RequestTyped, Distinct
<1>4. book' = book /\ lost' = {} /\ deleted' = deleted /\ flight' = flight /\ used' = used
  BY <1>1 DEF TabsInv
<1> QED BY <1>1, <1>2, <1>3, <1>4, ShrinkKeeps

LEMMA VanishKeeps ==
    ASSUME Tabs!WorkspaceConstants, TabsInv, NEW i \in TabsSlot, Tabs!Vanish(i) PROVE TabsInv'
<1>1. UNCHANGED <<Tabs!Screen, Tabs!Server, edits, used, crossed, tangled, deleted, lost>> /\ Tabs!Freed(i)
  BY DEF Tabs!Vanish, Tabs!Counters
<1>2. tabs' = tabs /\ book' = book /\ lost' = {} /\ deleted' = deleted /\ used' = used /\ active' = active
  BY <1>1 DEF TabsInv, Tabs!Screen
<1>3. Tabs!OpenTabs' = Tabs!OpenTabs /\ ScreenTyped'
  BY <1>2 DEF TabsInv, TabsTyped, ScreenTyped, Tabs!OpenTabs, Distinct
<1>4. /\ FlightTyped' /\ \A n : OnIt(n)' = OnIt(n) \ {i} /\ OnIt(n) \subseteq TabsSlot
      /\ \A j \in TabsSlot \ {i} : flight'[j] = flight[j]
  BY <1>1, <1>2, FreedIs DEF TabsInv, TabsTyped
<1>5. \A n : \A j \in OnIt(n)' : flight'[j] = flight[j]
  BY <1>4
<1> QED BY <1>1, <1>2, <1>3, <1>4, <1>5, ShrinkKeeps

LEMMA ReloadKeeps == ASSUME Tabs!WorkspaceConstants, TabsInv, Tabs!Reload PROVE TabsInv'
<1>1. /\ UNCHANGED <<Tabs!Screen, Tabs!Server, edits, used, crossed, tangled, deleted, lost>>
      /\ flight' = [i \in TabsSlot |-> IF Tabs!Writes(flight[i]) THEN [flight[i] EXCEPT !.pc = "orphan"] ELSE Tabs!NoRequest]
  BY DEF Tabs!Reload, Tabs!Counters, TabsSlot
<1>2. tabs' = tabs /\ book' = book /\ lost' = {} /\ deleted' = deleted /\ used' = used /\ active' = active
  BY <1>1 DEF TabsInv, Tabs!Screen
<1>3. Tabs!OpenTabs' = Tabs!OpenTabs /\ ScreenTyped'
  BY <1>2 DEF TabsInv, TabsTyped, ScreenTyped, Tabs!OpenTabs, Distinct
<1>4. \A i \in TabsSlot : LET q == flight[i]  r == flight'[i] IN
         /\ r = [kind |-> r.kind, nb |-> r.nb, pc |-> r.pc, body |-> r.body, since |-> r.since]
         /\ \/ /\ q.pc = "sent" /\ r.pc = "orphan"
               /\ r.kind = q.kind /\ r.nb = q.nb /\ r.body = q.body /\ r.since = q.since
            \/ r.pc = "free" /\ r.body = {} /\ r.since = {}
  <2> TAKE i \in TabsSlot
  <2>1. CASE Tabs!Writes(flight[i])
    <3>1. flight'[i] = [flight[i] EXCEPT !.pc = "orphan"]
      BY <1>1, <2>1
    <3>2. flight[i] = [kind |-> flight[i].kind, nb |-> flight[i].nb, pc |-> flight[i].pc,
                       body |-> flight[i].body, since |-> flight[i].since]
      BY DEF TabsInv, TabsTyped, FlightTyped
    <3> QED BY <2>1, <3>1, <3>2 DEF Tabs!Writes
  <2>2. CASE ~Tabs!Writes(flight[i])
    <3>1. flight'[i] = Tabs!NoRequest
      BY <1>1, <2>2
    <3> QED BY <3>1 DEF Tabs!NoRequest
  <2> QED BY <2>1, <2>2
<1>5. FlightTyped'
  <2>1. \A i \in TabsSlot : RequestTyped(flight[i])'
    BY <1>2, <1>4 DEF TabsInv, TabsTyped, FlightTyped, RequestTyped, Tabs!Contents
  <2> QED BY <1>1, <1>4, <2>1 DEF FlightTyped
<1>6. \A n : OnIt(n)' \subseteq OnIt(n) /\ OnIt(n) \subseteq TabsSlot
  BY <1>4 DEF OnIt, Tabs!Busy, TabsSlot
<1>7. \A n : \A i \in OnIt(n)' : /\ flight'[i].kind = flight[i].kind /\ flight'[i].body = flight[i].body
                                 /\ flight'[i].since = flight[i].since /\ flight'[i].pc # "answered"
  BY <1>4, <1>6 DEF OnIt, Tabs!Busy
<1> QED BY <1>1, <1>2, <1>3, <1>5, <1>6, <1>7, ShrinkKeeps

\* A request is awaited by nobody any more, and is otherwise as it was.
LEMMA OrphanedIs ==
    ASSUME FlightTyped, NEW i \in TabsSlot, flight[i].pc = "sent", Tabs!Orphaned(i), used \subseteq used'
    PROVE  FlightTyped' /\ \A n : /\ OnIt(n)' \subseteq OnIt(n)
                                 /\ \A j \in OnIt(n)' :
                                       /\ flight'[j].kind = flight[j].kind /\ flight'[j].body = flight[j].body
                                       /\ flight'[j].since = flight[j].since
                                       /\ flight'[j].pc = "answered" => flight[j].pc = "answered"
<1>1. PICK r : r = [flight[i] EXCEPT !.pc = "orphan"]
  OBVIOUS
<1>2. flight[i] = [kind |-> flight[i].kind, nb |-> flight[i].nb, pc |-> flight[i].pc,
                   body |-> flight[i].body, since |-> flight[i].since]
  BY DEF FlightTyped
<1>3. /\ r = [kind |-> r.kind, nb |-> r.nb, pc |-> r.pc, body |-> r.body, since |-> r.since]
      /\ r.kind = flight[i].kind /\ r.nb = flight[i].nb /\ r.pc = "orphan"
      /\ r.body = flight[i].body /\ r.since = flight[i].since
  BY <1>1, <1>2
<1>4. /\ flight'[i] = r /\ \A j \in TabsSlot \ {i} : flight'[j] = flight[j]
      /\ flight' = [j \in TabsSlot |-> flight'[j]]
      /\ \A n : /\ OnIt(n)' \ {i} = OnIt(n) \ {i} /\ OnIt(n) \subseteq TabsSlot /\ OnIt(n)' \subseteq TabsSlot
                /\ i \in OnIt(n)' <=> r.pc # "free" /\ r.nb = n
  <2>1. flight' = [flight EXCEPT ![i] = r]
    BY <1>1 DEF Tabs!Orphaned
  <2> QED BY <2>1, SlotIs
<1>5. \A n : OnIt(n)' \subseteq OnIt(n)
  BY <1>3, <1>4 DEF OnIt, Tabs!Busy, TabsSlot
<1>6. FlightTyped'
  <2>1. RequestTyped(flight[i])'
    BY <1>3, <1>4 DEF FlightTyped, RequestTyped
  <2>2. \A j \in TabsSlot \ {i} : RequestTyped(flight[j])'
    BY <1>4 DEF FlightTyped, RequestTyped
  <2>3. \A j \in TabsSlot : flight'[j] = [kind |-> flight'[j].kind, nb |-> flight'[j].nb, pc |-> flight'[j].pc,
                                    body |-> flight'[j].body, since |-> flight'[j].since]
    BY <1>3, <1>4 DEF FlightTyped
  <2> QED BY <1>4, <2>1, <2>2, <2>3 DEF FlightTyped
<1> QED BY <1>3, <1>4, <1>5, <1>6

LEMMA ErrorKeeps ==
    ASSUME Tabs!WorkspaceConstants, TabsInv, NEW i \in TabsSlot, Tabs!Error(i) PROVE TabsInv'
<1>1. /\ UNCHANGED <<Tabs!Server, edits, crossed, tangled, deleted, lost>>
      /\ Tabs!Freed(i) \/ (flight[i].pc = "sent" /\ Tabs!Orphaned(i))
  BY DEF Tabs!Error, Tabs!Counters, Tabs!Writes
<1>2. /\ ScreenTyped' /\ used \subseteq used'
      /\ \A m \in Tabs!OpenTabs' : (m \in Tabs!OpenTabs /\ book'[m] = book[m]) \/ m \notin used
  <2>1. CASE flight[i].kind = "create"
    <3>1. PICK fresh \in Tabs!Unused : Tabs!Replaced(fresh, {}) /\ used' = used \cup {fresh}
      BY <2>1 DEF Tabs!Error, Tabs!NewLocal
    <3>2. fresh \in Notebooks /\ {} \in Tabs!Contents /\ used \subseteq used' /\ fresh \in used' /\ used' \subseteq Notebooks
      BY <3>1 DEF Tabs!Unused, Tabs!Contents, TabsInv, TabsTyped, ScreenTyped
    <3>3. /\ ScreenTyped' /\ Tabs!OpenTabs' = Tabs!OpenTabs \cup {fresh} /\ book'[fresh] = {}
          /\ \A m \in Notebooks \ {fresh} : book'[m] = book[m]
      BY <3>1, <3>2, ReplacedIs DEF TabsInv, TabsTyped
    <3>4. Tabs!OpenTabs \subseteq Notebooks /\ fresh \notin used
      BY <3>1 DEF TabsInv, TabsTyped, ScreenTyped, Tabs!Unused
    <3> QED BY <3>2, <3>3, <3>4
  <2>2. CASE flight[i].kind # "create"
    <3>1. tabs' = tabs /\ book' = book /\ used' = used /\ active' = active
      BY <2>2 DEF Tabs!Error, Tabs!Screen
    <3>2. Tabs!OpenTabs' = Tabs!OpenTabs
      BY <3>1 DEF Tabs!OpenTabs
    <3> QED BY <3>1, <3>2 DEF TabsInv, TabsTyped, ScreenTyped, Distinct
  <2> QED BY <2>1, <2>2
<1>4. FlightTyped' /\ \A n : /\ OnIt(n)' \subseteq OnIt(n)
                            /\ \A j \in OnIt(n)' :
                                  /\ flight'[j].kind = flight[j].kind /\ flight'[j].body = flight[j].body
                                  /\ flight'[j].since = flight[j].since
                                  /\ flight'[j].pc = "answered" => flight[j].pc = "answered"
  <2>1. CASE Tabs!Freed(i)
    <3>1. /\ FlightTyped' /\ \A n : OnIt(n)' = OnIt(n) \ {i} /\ OnIt(n) \subseteq TabsSlot
          /\ \A j \in TabsSlot \ {i} : flight'[j] = flight[j]
      BY <1>2, <2>1, FreedIs DEF TabsInv, TabsTyped
    <3> QED BY <3>1
  <2>2. CASE flight[i].pc = "sent" /\ Tabs!Orphaned(i)
    BY <1>2, <2>2, OrphanedIs DEF TabsInv, TabsTyped
  <2> QED BY <1>1, <2>1, <2>2
<1>6. \A m \in Tabs!OpenTabs' : (m \in Tabs!OpenTabs /\ book'[m] \subseteq book[m]) \/ m \notin used
  BY <1>2
<1>7. lost' = {} /\ deleted' = deleted
  BY <1>1 DEF TabsInv
<1> QED BY <1>1, <1>2, <1>4, <1>6, <1>7, ShrinkKeeps

LEMMA TabsSucceedKeeps ==
    ASSUME Tabs!WorkspaceConstants, TabsInv, NEW i \in TabsSlot, Tabs!Succeed(i) PROVE TabsInv'
<1> SUFFICES ASSUME NEW q, NEW n, q = flight[i], n = flight[i].nb PROVE TabsInv'
  OBVIOUS
<1>1. /\ UNCHANGED <<Tabs!Server, edits, tangled>> /\ Tabs!Freed(i) /\ q.pc = "answered"
      /\ \/ Tabs!Opened(i) \/ Tabs!Removed(i) \/ Tabs!Restored(i) \/ Tabs!Optimized(i)
         \/ q.kind = "put" /\ UNCHANGED <<Tabs!Screen, used, deleted, crossed, lost>>
  BY DEF Tabs!Succeed, Tabs!Counters
<1>2. RequestTyped(q) /\ i \in OnIt(n) /\ n \in used /\ n \in Notebooks /\ q.body \in Tabs!Contents
  BY <1>1 DEF TabsInv, TabsTyped, FlightTyped, RequestTyped, OnIt, Tabs!Busy, TabsSlot, ScreenTyped
<1>3. /\ used \subseteq used' => FlightTyped'
      /\ used \subseteq used' => \A m : OnIt(m)' = OnIt(m) \ {i} /\ OnIt(m) \subseteq TabsSlot
      /\ used \subseteq used' => \A j \in TabsSlot \ {i} : flight'[j] = flight[j]
  BY <1>1, FreedIs DEF TabsInv, TabsTyped
<1>4. used \subseteq used' => \A m : \A j \in OnIt(m)' : flight'[j] = flight[j]
  BY <1>3
\* Once the answer has been taken nothing else replaces its notebook.
<1>5. used \subseteq used' /\ q.kind \in Tabs!Replacing /\ n \notin crossed => Replacers(n)' = {}
  <2> HAVE used \subseteq used' /\ q.kind \in Tabs!Replacing /\ n \notin crossed
  <2>1. i \in Replacers(n)
    BY <1>2 DEF Replacers
  <2>2. Replacers(n)' \subseteq Replacers(n) \ {i}
    BY <1>3, <1>4 DEF Replacers
  <2> QED BY <1>2, <2>1, <2>2 DEF TabsInv, OneReplaces
<1>6. n \in deleted \ tangled => q.kind # "restore" /\ q.kind # "create" /\ q.kind # "open" /\ q.kind # "optimize"
  BY <1>1, <1>2 DEF TabsInv, GoneForGood
<1>7. CASE Tabs!Opened(i)
  <2>1. q.kind \in {"open", "create"} /\ Tabs!Replaced(n, q.body) /\ used' = used /\ deleted' = deleted
        /\ crossed' = crossed
        /\ lost' = lost \cup (IF n \in crossed THEN {} ELSE Tabs!Gone(n, q.body))
    BY <1>7 DEF Tabs!Opened
  <2>2. /\ ScreenTyped' /\ Tabs!OpenTabs' = Tabs!OpenTabs \cup {n} /\ book'[n] = q.body
        /\ \A m \in Notebooks \ {n} : book'[m] = book[m]
    BY <1>2, <2>1, ReplacedIs DEF TabsInv, TabsTyped, ScreenTyped
  <2>3. lost' = {}
    <3>1. n \notin crossed => book[n] = Absent
      BY <1>2, <2>1 DEF TabsInv, OpensWhatIsClosed, TabsTyped, ScreenTyped
    <3> QED BY <2>1, <3>1 DEF TabsInv, Tabs!Gone
  <2>4. \A m \in Tabs!OpenTabs' : \/ m \in Tabs!OpenTabs /\ book'[m] \subseteq book[m]
                                  \/ (m \notin crossed => Replacers(m)' = {}) /\ m \notin deleted \ tangled
    BY <1>5, <1>6, <2>1, <2>2 DEF Tabs!Replacing, TabsInv, TabsTyped, ScreenTyped
  <2> QED BY <1>1, <1>3, <1>4, <2>1, <2>2, <2>3, <2>4, ShrinkKeeps
<1>8. CASE Tabs!Removed(i)
  <2>1. Tabs!Closed(n) /\ q.kind = "delete" /\ deleted' = deleted \cup {n} /\ lost' = {} /\ crossed' = crossed
    BY <1>8 DEF Tabs!Removed, TabsInv
  <2>2. /\ ScreenTyped' /\ n \notin Tabs!OpenTabs' /\ used \subseteq used'
        /\ \A m \in Tabs!OpenTabs' : (m \in Tabs!OpenTabs /\ book'[m] = book[m]) \/ m \notin used
    BY <1>2, <2>1, ClosedIs DEF TabsInv, TabsTyped
  <2>3. n \notin tangled => file[n] = Absent /\ OnIt(n)' = {}
    BY <1>1, <1>2, <1>3, <2>1, <2>2 DEF TabsInv, DeletesAlone
  <2>4. \A m \in Tabs!OpenTabs' : (m \in Tabs!OpenTabs /\ book'[m] \subseteq book[m]) \/ m \notin used
    BY <2>2
  <2>5. \A m \in deleted' \ deleted :
                m \notin tangled => m \in used /\ m \notin Tabs!OpenTabs' /\ file[m] = Absent /\ OnIt(m)' = {}
    BY <1>2, <2>1, <2>2, <2>3
  <2> QED BY <1>1, <1>3, <1>4, <2>1, <2>2, <2>4, <2>5, ShrinkKeeps
<1>9. CASE Tabs!Restored(i)
  <2>1. q.kind = "restore" /\ Tabs!Replaced(n, q.body) /\ used' = used /\ deleted' = deleted /\ lost' = {}
        /\ crossed' = crossed
    BY <1>9 DEF Tabs!Restored, TabsInv
  <2>2. /\ ScreenTyped' /\ Tabs!OpenTabs' = Tabs!OpenTabs \cup {n} /\ book'[n] = q.body
        /\ \A m \in Notebooks \ {n} : book'[m] = book[m]
    BY <1>2, <2>1, ReplacedIs DEF TabsInv, TabsTyped, ScreenTyped
  <2>4. \A m \in Tabs!OpenTabs' : \/ m \in Tabs!OpenTabs /\ book'[m] \subseteq book[m]
                                  \/ (m \notin crossed => Replacers(m)' = {}) /\ m \notin deleted \ tangled
    BY <1>5, <1>6, <2>1, <2>2 DEF Tabs!Replacing, TabsInv, TabsTyped, ScreenTyped
  <2> QED BY <1>1, <1>3, <1>4, <2>1, <2>2, <2>4, ShrinkKeeps
<1>10. CASE Tabs!Optimized(i)
  <2>1. q.kind = "optimize" /\ tabs' = tabs /\ active' = active /\ used' = used /\ deleted' = deleted
    BY <1>10 DEF Tabs!Optimized
  <2>2. Tabs!OpenTabs' = Tabs!OpenTabs /\ Distinct' /\ tabs' \in Seq(Notebooks) /\ tabs' # <<>>
    BY <2>1 DEF Tabs!OpenTabs, TabsInv, TabsTyped, ScreenTyped, Distinct
  <2>3. CASE active = n
    <3>1. /\ book' = [book EXCEPT ![n] = q.body] /\ crossed' = crossed
          /\ lost' = lost \cup (IF n \in crossed THEN {} ELSE Tabs!Gone(n, q.body) \ q.since)
      BY <1>10, <2>3 DEF Tabs!Optimized, Tabs!FindsItsCell
    <3>2. /\ book' = [m \in Notebooks |-> book'[m]] /\ book'[n] = q.body
          /\ \A m \in Notebooks \ {n} : book'[m] = book[m]
      BY <3>1, <1>2 DEF TabsInv, TabsTyped, ScreenTyped
    <3>3. n \in Tabs!OpenTabs
      BY <2>3 DEF TabsInv, TabsTyped, ScreenTyped
    <3>4. ScreenTyped'
      BY <1>2, <2>1, <2>2, <3>2, <3>3 DEF TabsInv, TabsTyped, ScreenTyped
    <3>5. lost' = {}
      <4>1. n \notin crossed => book[n] \subseteq q.body \cup q.since
        BY <1>2, <2>1, <3>3 DEF TabsInv, OptimizeKnows
      <4>2. n \notin crossed => Tabs!Gone(n, q.body) \ q.since = {}
        BY <4>1 DEF Tabs!Gone
      <4> QED BY <3>1, <4>2 DEF TabsInv
    <3>6. \A m \in Tabs!OpenTabs' : \/ m \in Tabs!OpenTabs /\ book'[m] \subseteq book[m]
                                    \/ (m \notin crossed => Replacers(m)' = {}) /\ m \notin deleted \ tangled
      BY <1>5, <1>6, <2>1, <2>2, <3>2 DEF Tabs!Replacing, TabsInv, TabsTyped, ScreenTyped
    <3> QED BY <1>1, <1>3, <1>4, <2>1, <3>1, <3>4, <3>5, <3>6, ShrinkKeeps
  <2>4. CASE active # n /\ Tabs!FindsItsCell(q)
    <3>0. active \in Tabs!OpenTabs /\ active \in Notebooks
      BY DEF TabsInv, TabsTyped, ScreenTyped
    <3>1. book' = [book EXCEPT ![active] = q.body] /\ crossed' = crossed \cup {active} /\ lost' = {}
      BY <1>10, <2>4 DEF Tabs!Optimized, TabsInv
    <3>2. /\ book' = [m \in Notebooks |-> book'[m]] /\ book'[active] = q.body
          /\ \A m \in Notebooks \ {active} : book'[m] = book[m]
      BY <3>0, <3>1 DEF TabsInv, TabsTyped, ScreenTyped
    <3>3. ScreenTyped'
      BY <1>2, <2>1, <2>2, <3>0, <3>2 DEF TabsInv, TabsTyped, ScreenTyped
    <3>4. active \notin deleted \ tangled
      BY <3>0 DEF TabsInv, GoneForGood
    <3>5. \A m \in Tabs!OpenTabs' : \/ m \in Tabs!OpenTabs /\ book'[m] \subseteq book[m]
                                    \/ (m \notin crossed' => Replacers(m)' = {}) /\ m \notin deleted \ tangled
      BY <2>2, <3>1, <3>2, <3>4 DEF TabsInv, TabsTyped, ScreenTyped
    <3> QED BY <1>1, <1>3, <1>4, <2>1, <3>1, <3>3, <3>5, ShrinkKeeps
  <2>5. CASE active # n /\ ~Tabs!FindsItsCell(q)
    <3>1. book' = book /\ lost' = {} /\ crossed' = crossed
      BY <1>10, <2>5 DEF Tabs!Optimized, TabsInv
    <3>2. ScreenTyped'
      BY <2>1, <2>2, <3>1 DEF TabsInv, TabsTyped, ScreenTyped
    <3> QED BY <1>1, <1>3, <1>4, <2>1, <2>2, <3>1, <3>2, ShrinkKeeps
  <2> QED BY <2>3, <2>4, <2>5
<1>11. CASE UNCHANGED <<Tabs!Screen, used, deleted, crossed, lost>>
  <2>1. tabs' = tabs /\ active' = active /\ book' = book /\ used' = used /\ deleted' = deleted /\ lost' = {}
        /\ crossed' = crossed
    BY <1>11 DEF Tabs!Screen, TabsInv
  <2>2. Tabs!OpenTabs' = Tabs!OpenTabs /\ ScreenTyped'
    BY <2>1 DEF Tabs!OpenTabs, TabsInv, TabsTyped, ScreenTyped, Distinct
  <2> QED BY <1>1, <1>3, <1>4, <2>1, <2>2, ShrinkKeeps
<1> QED BY <1>1, <1>7, <1>8, <1>9, <1>10, <1>11

\* Typing.
LEMMA EditKeeps == ASSUME Tabs!WorkspaceConstants, TabsInv, Tabs!Edit PROVE TabsInv'
<1>1. /\ edits < MaxEdits /\ edits' = edits + 1
      /\ book' = [book EXCEPT ![active] = @ \cup {edits + 1}]
      /\ flight' = [i \in TabsSlot |-> IF flight[i].nb = active /\ flight[i].kind = "optimize"
                                   THEN [flight[i] EXCEPT !.since = @ \cup {edits + 1}] ELSE flight[i]]
      /\ UNCHANGED <<tabs, active, Tabs!Server, used, crossed, tangled, deleted, lost>>
  BY DEF Tabs!Edit, TabsSlot
<1>2. /\ book' = [m \in Notebooks |-> book'[m]] /\ book'[active] = book[active] \cup {edits + 1}
      /\ \A m \in Notebooks \ {active} : book'[m] = book[m]
  BY <1>1 DEF TabsInv, TabsTyped, ScreenTyped
<1>3. Tabs!OpenTabs' = Tabs!OpenTabs
  BY <1>1 DEF Tabs!OpenTabs
<1>4. edits + 1 \in Tabs!Edits /\ edits' \in 0 .. MaxEdits
  BY <1>1 DEF TabsInv, TabsTyped, Tabs!Edits, Tabs!WorkspaceConstants
<1>5. ScreenTyped'
  BY <1>1, <1>2, <1>3, <1>4 DEF TabsInv, TabsTyped, ScreenTyped, Distinct, Tabs!Contents
<1>6. \A i \in TabsSlot : LET q == flight[i]  r == flight'[i] IN
         /\ r = [kind |-> r.kind, nb |-> r.nb, pc |-> r.pc, body |-> r.body, since |-> r.since]
         /\ r.kind = q.kind /\ r.nb = q.nb /\ r.body = q.body /\ r.pc = q.pc
         /\ r.since = IF q.nb = active /\ q.kind = "optimize" THEN q.since \cup {edits + 1} ELSE q.since
  <2> TAKE i \in TabsSlot
  <2>1. flight[i] = [kind |-> flight[i].kind, nb |-> flight[i].nb, pc |-> flight[i].pc,
                     body |-> flight[i].body, since |-> flight[i].since]
    BY DEF TabsInv, TabsTyped, FlightTyped
  <2>2. flight'[i] = IF flight[i].nb = active /\ flight[i].kind = "optimize"
                     THEN [flight[i] EXCEPT !.since = @ \cup {edits + 1}] ELSE flight[i]
    BY <1>1
  <2> QED BY <2>1, <2>2
<1>7. FlightTyped'
  <2>1. \A i \in TabsSlot : RequestTyped(flight[i])'
    BY <1>1, <1>4, <1>6 DEF TabsInv, TabsTyped, FlightTyped, RequestTyped, Tabs!Contents
  <2>2. flight' = [i \in TabsSlot |-> flight'[i]]
    BY <1>1
  <2> QED BY <1>6, <2>1, <2>2 DEF FlightTyped
<1>8. \A n : OnIt(n)' = OnIt(n) /\ OnIt(n) \subseteq TabsSlot
  BY <1>6 DEF OnIt, Tabs!Busy, TabsSlot
<1>9. \A i \in TabsSlot : flight'[i].kind = flight[i].kind /\ flight'[i].nb = flight[i].nb
                     /\ flight'[i].body = flight[i].body /\ flight'[i].pc = flight[i].pc
  BY <1>6
<1>10. ServerTyped'
  BY <1>1 DEF TabsInv, TabsTyped, Tabs!Server, ServerTyped
<1>11. OneReplaces' /\ OpensWhatIsClosed'
  BY <1>1, <1>3, <1>8, <1>9 DEF TabsInv, OneReplaces, OpensWhatIsClosed, Replacers
<1>12. OptimizeKnows'
  <2> SUFFICES ASSUME NEW n \in Tabs!OpenTabs \ crossed, NEW i \in OnIt(n), flight[i].kind = "optimize"
               PROVE  book'[n] \subseteq flight'[i].body \cup flight'[i].since
    BY <1>1, <1>3, <1>8, <1>9 DEF OptimizeKnows
  <2>1. i \in TabsSlot /\ flight[i].nb = n /\ book[n] \subseteq flight[i].body \cup flight[i].since /\ n \in Notebooks
    BY <1>8 DEF TabsInv, OptimizeKnows, OnIt, TabsTyped, ScreenTyped
  <2> QED BY <1>2, <1>6, <2>1
<1>13. DeletesAlone' /\ GoneForGood'
  BY <1>1, <1>3, <1>8, <1>9 DEF TabsInv, DeletesAlone, GoneForGood, Tabs!Server
<1>14. lost' = {}
  BY <1>1 DEF TabsInv
<1> QED BY <1>4, <1>5, <1>7, <1>10, <1>11, <1>12, <1>13, <1>14 DEF TabsInv, TabsTyped

\* A request goes out.
LEMMA SendKeeps ==
    ASSUME Tabs!WorkspaceConstants, TabsInv, NEW kind \in Tabs!Kinds, NEW n \in used \cup {Absent}, NEW body \in Tabs!Contents,
           Tabs!Send([kind |-> kind, nb |-> n, body |-> body]), kind = "create" <=> n = Absent,
           kind = "open" => n \notin Tabs!OpenTabs,
           kind = "optimize" => n \in Tabs!OpenTabs /\ body = book[n],
           kind \in {"open", "create"} \/ n \in Tabs!OpenTabs \/ file[n] # Absent
    PROVE  TabsInv'
<1> DEFINE pc == IF kind = "optimize" THEN "answered" ELSE "sent"
           new == [kind |-> kind, nb |-> n, pc |-> pc, body |-> body, since |-> {}]
<1>1. PICK i \in TabsSlot : (\A m : i \notin OnIt(m)) /\ flight' = [flight EXCEPT ![i] = new]
  <2>1. \E i \in TabsSlot : i \notin Tabs!Busy
    BY DEF Tabs!Send, Tabs!Busy, TabsSlot
  <2>2. PICK i \in TabsSlot : i \notin Tabs!Busy /\ i = CHOOSE j \in 1 .. Slots : j \notin Tabs!Busy
    BY <2>1 DEF TabsSlot
  <2>4. PICK rec : /\ rec = [kind |-> kind, nb |-> n, body |-> body]
                   /\ rec.kind = kind /\ rec.nb = n /\ rec.body = body /\ Tabs!Send(rec)
    OBVIOUS
  <2>5. flight' = [flight EXCEPT ![i] = [kind |-> rec.kind, nb |-> rec.nb, body |-> rec.body, since |-> {},
                                   pc |-> IF rec.kind = "optimize" THEN "answered" ELSE "sent"]]
    BY <2>2, <2>4, Zenon DEF Tabs!Send
  <2>6. flight' = [flight EXCEPT ![i] = new]
    BY <2>4, <2>5
  <2> QED BY <2>2, <2>6, Zenon DEF OnIt
<1>2. PICK r : r = new
  OBVIOUS
<1>3. /\ r = [kind |-> r.kind, nb |-> r.nb, pc |-> r.pc, body |-> r.body, since |-> r.since]
      /\ r.kind = kind /\ r.nb = n /\ r.body = body /\ r.since = {} /\ r.pc # "free"
      /\ r.pc = pc
  BY <1>2
<1>4. /\ UNCHANGED <<Tabs!Screen, Tabs!Server, edits, used, deleted, lost>>
      /\ crossed \subseteq crossed' /\ tangled \subseteq tangled'
  BY DEF Tabs!Send
<1>5. /\ flight'[i] = r /\ \A j \in TabsSlot \ {i} : flight'[j] = flight[j]
      /\ flight' = [j \in TabsSlot |-> flight'[j]]
      /\ \A m : /\ OnIt(m)' \ {i} = OnIt(m) \ {i} /\ OnIt(m) \subseteq TabsSlot /\ OnIt(m)' \subseteq TabsSlot
                /\ i \in OnIt(m)' <=> r.pc # "free" /\ r.nb = m
  <2> HIDE DEF new, pc
  <2>1. flight' = [flight EXCEPT ![i] = r]
    BY <1>1, <1>2
  <2> QED BY <2>1, SlotIs DEF TabsInv, TabsTyped
<1> HIDE DEF new, pc
<1>6. \A m : OnIt(m)' = IF m = n THEN OnIt(m) \cup {i} ELSE OnIt(m)
  BY <1>1, <1>3, <1>5
<1>7. \A m : \A j \in OnIt(m) : flight'[j] = flight[j] /\ j # i
  BY <1>1, <1>5
<1>8. tabs' = tabs /\ active' = active /\ book' = book /\ used' = used /\ deleted' = deleted /\ lost' = {}
      /\ file' = file
  BY <1>4 DEF Tabs!Screen, Tabs!Server, TabsInv
<1>9. Tabs!OpenTabs' = Tabs!OpenTabs /\ ScreenTyped' /\ ServerTyped' /\ edits' = edits
  BY <1>4, <1>8 DEF Tabs!OpenTabs, TabsInv, TabsTyped, ScreenTyped, ServerTyped, Distinct, Tabs!Server
<1>10. FlightTyped'
  <2>1. RequestTyped(flight[i])'
    BY <1>3, <1>5, <1>8 DEF RequestTyped, Tabs!Contents, pc
  <2>2. \A j \in TabsSlot \ {i} : RequestTyped(flight[j])'
    BY <1>5, <1>8 DEF TabsInv, TabsTyped, FlightTyped, RequestTyped
  <2>3. \A j \in TabsSlot : flight'[j] = [kind |-> flight'[j].kind, nb |-> flight'[j].nb, pc |-> flight'[j].pc,
                                    body |-> flight'[j].body, since |-> flight'[j].since]
    BY <1>3, <1>5 DEF TabsInv, TabsTyped, FlightTyped
  <2> QED BY <1>5, <2>1, <2>2, <2>3 DEF FlightTyped
<1>11. n \in Notebooks \ crossed' /\ kind \in Tabs!Replacing => Replacers(n) = {}
  BY DEF Tabs!Send, Tabs!About, Replacers, OnIt, Tabs!WorkspaceConstants
<1>12. n \in Notebooks \ tangled' => /\ kind = "delete" => OnIt(n) = {}
                                     /\ \A j \in OnIt(n) : flight[j].kind # "delete"
  BY DEF Tabs!Send, Tabs!About, OnIt
<1>13. OneReplaces'
  <2> SUFFICES ASSUME NEW m \in Notebooks \ crossed', NEW a \in Replacers(m)', NEW b \in Replacers(m)' PROVE a = b
    BY DEF OneReplaces
  <2>1. \A c \in Replacers(m)' : c \in Replacers(m) \/ (c = i /\ m = n /\ kind \in Tabs!Replacing)
    BY <1>3, <1>5, <1>6, <1>7 DEF Replacers
  <2>2. \A c, d \in Replacers(m) : c = d
    BY <1>4 DEF TabsInv, OneReplaces
  <2> QED BY <1>11, <2>1, <2>2
<1>14. OpensWhatIsClosed'
  <2> SUFFICES ASSUME NEW m \in Notebooks \ crossed', NEW a \in OnIt(m)', flight'[a].kind \in {"open", "create"}
               PROVE  m \notin Tabs!OpenTabs
    BY <1>9 DEF OpensWhatIsClosed
  <2>1. CASE a \in OnIt(m)
    BY <1>4, <1>7, <2>1 DEF TabsInv, OpensWhatIsClosed
  <2>2. CASE a = i /\ m = n
    BY <1>3, <1>5, <2>2 DEF Tabs!WorkspaceConstants
  <2> QED BY <1>6, <2>1, <2>2
<1>15. OptimizeKnows'
  <2> SUFFICES ASSUME NEW m \in Tabs!OpenTabs \ crossed', NEW a \in OnIt(m)', flight'[a].kind = "optimize"
               PROVE  book[m] \subseteq flight'[a].body \cup flight'[a].since
    BY <1>8, <1>9 DEF OptimizeKnows
  <2>1. CASE a \in OnIt(m)
    BY <1>4, <1>7, <2>1 DEF TabsInv, OptimizeKnows
  <2>2. CASE a = i /\ m = n
    BY <1>3, <1>5, <2>2
  <2> QED BY <1>6, <2>1, <2>2
<1>16. DeletesAlone'
  <2> SUFFICES ASSUME NEW m \in Notebooks \ tangled', NEW a \in OnIt(m)', flight'[a].kind = "delete"
               PROVE  /\ \A b \in OnIt(m)' : b = a
                      /\ flight'[a].pc = "answered" => file[m] = Absent
    BY <1>8 DEF DeletesAlone
  <2>1. CASE a \in OnIt(m)
    <3>1. m # n
      BY <1>7, <1>12, <2>1
    <3> QED BY <1>4, <1>6, <1>7, <2>1, <3>1 DEF TabsInv, DeletesAlone
  <2>2. CASE a = i /\ m = n
    <3>1. OnIt(m)' = {i} /\ flight'[i].pc = "sent"
      BY <1>3, <1>5, <1>6, <1>12, <2>2 DEF pc
    <3> QED BY <2>2, <3>1
  <2> QED BY <1>6, <2>1, <2>2
<1>17. GoneForGood'
  <2> SUFFICES ASSUME NEW m \in deleted \ tangled', NEW a \in OnIt(m)'
               PROVE  flight'[a].kind = "open" /\ flight'[a].pc # "answered"
    BY <1>4, <1>8, <1>9 DEF GoneForGood, TabsInv
  <2>0. m \in used /\ m \notin Tabs!OpenTabs /\ file[m] = Absent /\ m # Absent
    BY <1>4 DEF TabsInv, GoneForGood, TabsTyped, ScreenTyped, Tabs!WorkspaceConstants
  <2>1. CASE a \in OnIt(m)
    BY <1>4, <1>7, <2>1 DEF TabsInv, GoneForGood
  <2>2. CASE a = i /\ m = n
    BY <1>3, <1>5, <2>0, <2>2 DEF pc
  <2> QED BY <1>6, <2>1, <2>2
<1> QED BY <1>8, <1>9, <1>10, <1>13, <1>14, <1>15, <1>16, <1>17 DEF TabsInv, TabsTyped

\* The user asks for something.
LEMMA TabsAskKeeps ==
    ASSUME Tabs!WorkspaceConstants, TabsInv,
           \/ Tabs!Create \/ Tabs!Save \/ Tabs!Restore \/ Tabs!Optimize \/ \E n \in Notebooks : Tabs!Click(n) \/ Tabs!Remove(n)
    PROVE  TabsInv'
<1>0. /\ {} \in Tabs!Contents /\ Tabs!Kinds = {"open", "create", "delete", "put", "restore", "optimize"}
      /\ active \in Tabs!OpenTabs /\ active \in used /\ active # Absent /\ book[active] \in Tabs!Contents
      /\ versions[active] \subseteq Tabs!Contents /\ Absent \notin used
  BY DEF Tabs!Contents, Tabs!Kinds, TabsInv, TabsTyped, ScreenTyped, ServerTyped, Tabs!WorkspaceConstants
<1>1. CASE Tabs!Create
  <2>1. Tabs!Send([kind |-> "create", nb |-> Absent, body |-> {}])
    BY <1>1 DEF Tabs!Create
  <2> QED BY <1>0, <2>1, SendKeeps
<1>2. CASE Tabs!Save
  <2>1. Tabs!Send([kind |-> "put", nb |-> active, body |-> book[active]])
    BY <1>2 DEF Tabs!Save
  <2> QED BY <1>0, <2>1, SendKeeps
<1>3. CASE Tabs!Restore
  <2>1. PICK c \in versions[active] : Tabs!Send([kind |-> "restore", nb |-> active, body |-> c])
    BY <1>3 DEF Tabs!Restore
  <2> QED BY <1>0, <2>1, SendKeeps
<1>4. CASE Tabs!Optimize
  <2>1. Tabs!Send([kind |-> "optimize", nb |-> active, body |-> book[active]])
    BY <1>4 DEF Tabs!Optimize
  <2> QED BY <1>0, <2>1, SendKeeps
<1>5. ASSUME NEW n \in Notebooks, Tabs!Click(n) PROVE TabsInv'
  <2>1. n \notin Tabs!OpenTabs /\ n \in used /\ n # Absent /\ Tabs!Send([kind |-> "open", nb |-> n, body |-> {}])
    BY <1>5 DEF Tabs!Click, Tabs!Fetches, Tabs!WorkspaceConstants
  <2> QED BY <1>0, <2>1, SendKeeps
<1>6. ASSUME NEW n \in Notebooks, Tabs!Remove(n) PROVE TabsInv'
  <2>1. file[n] # Absent /\ n \in used /\ n # Absent /\ Tabs!Send([kind |-> "delete", nb |-> n, body |-> {}])
    BY <1>6 DEF Tabs!Remove, Tabs!WorkspaceConstants
  <2> QED BY <1>0, <2>1, SendKeeps
<1> QED BY <1>1, <1>2, <1>3, <1>4, <1>5, <1>6

\* The server takes a request up.
LEMMA ServeIs ==
    ASSUME Tabs!WorkspaceConstants, TabsInv, NEW i \in TabsSlot, Tabs!Serve(i)
    PROVE  \E r : LET q == flight[i] IN
             /\ flight' = [flight EXCEPT ![i] = r]
             /\ r = [kind |-> r.kind, nb |-> r.nb, pc |-> r.pc, body |-> r.body, since |-> r.since]
             /\ r.body \in Tabs!Contents /\ r.since \in Tabs!Contents /\ q.kind # "optimize" /\ i \in OnIt(q.nb)
             /\ \/ r.pc = "free"
                \/ /\ r.kind = q.kind /\ r.since = q.since
                   /\ r.pc \in {"answered", "failed", "restored"} /\ (r.pc = "restored" => r.kind = "restore")
                   /\ \/ q.kind # "create" /\ r.nb = q.nb
                      \/ q.kind = "create" /\ r.nb \in Tabs!Unused /\ r.nb \in used' /\ r.pc = "answered"
                   /\ q.kind = "open" /\ file[q.nb] = Absent => r.pc = "failed"
                   /\ q.kind = "delete" => file'[q.nb] = Absent
             /\ ServerTyped' /\ used \subseteq used' /\ used' \subseteq Notebooks
             /\ \A n \in used : file'[n] = file[n] \/ (n = q.nb /\ q.kind # "open") \/ file'[n] = Absent
<1> SUFFICES ASSUME NEW q, q = flight[i]
             PROVE \E r :
             /\ flight' = [flight EXCEPT ![i] = r]
             /\ r = [kind |-> r.kind, nb |-> r.nb, pc |-> r.pc, body |-> r.body, since |-> r.since]
             /\ r.body \in Tabs!Contents /\ r.since \in Tabs!Contents /\ q.kind # "optimize" /\ i \in OnIt(q.nb)
             /\ \/ r.pc = "free"
                \/ /\ r.kind = q.kind /\ r.since = q.since
                   /\ r.pc \in {"answered", "failed", "restored"} /\ (r.pc = "restored" => r.kind = "restore")
                   /\ \/ q.kind # "create" /\ r.nb = q.nb
                      \/ q.kind = "create" /\ r.nb \in Tabs!Unused /\ r.nb \in used' /\ r.pc = "answered"
                   /\ q.kind = "open" /\ file[q.nb] = Absent => r.pc = "failed"
                   /\ q.kind = "delete" => file'[q.nb] = Absent
             /\ ServerTyped' /\ used \subseteq used' /\ used' \subseteq Notebooks
             /\ \A n \in used : file'[n] = file[n] \/ (n = q.nb /\ q.kind # "open") \/ file'[n] = Absent
  OBVIOUS
<1>1. q.pc \in {"sent", "orphan"} /\ i \in OnIt(q.nb) /\ RequestTyped(q) /\ q.kind # "optimize"
  BY DEF Tabs!Serve, TabsInv, TabsTyped, FlightTyped, RequestTyped, OnIt, Tabs!Busy, TabsSlot
<1>2. q.body \in Tabs!Contents /\ q.since \in Tabs!Contents /\ {} \in Tabs!Contents /\ used \subseteq Notebooks
      /\ (q.kind # "create" => q.nb \in used) /\ ServerTyped
  BY <1>1 DEF RequestTyped, Tabs!Contents, TabsInv, TabsTyped, ScreenTyped
<1>3. \A pc, n, body : Tabs!Pass(i, pc, n, body) => \E r :
             /\ flight' = [flight EXCEPT ![i] = r]
             /\ r = [kind |-> r.kind, nb |-> r.nb, pc |-> r.pc, body |-> r.body, since |-> r.since]
             /\ \/ r.pc = "free" /\ r.body = {} /\ r.since = {}
                \/ r.kind = q.kind /\ r.nb = n /\ r.pc = pc /\ r.body = body /\ r.since = q.since
  <2> TAKE pc, n, body
  <2> HAVE Tabs!Pass(i, pc, n, body)
  <2> PICK new : new = [kind |-> q.kind, nb |-> n, pc |-> pc, body |-> body, since |-> q.since]
    OBVIOUS
  <2>0. PICK none : none = Tabs!NoRequest
    OBVIOUS
  <2>1. none = [kind |-> none.kind, nb |-> none.nb, pc |-> none.pc, body |-> none.body, since |-> none.since]
        /\ none.pc = "free" /\ none.body = {} /\ none.since = {}
    BY <2>0 DEF Tabs!NoRequest
  <2>2. /\ new = [kind |-> new.kind, nb |-> new.nb, pc |-> new.pc, body |-> new.body, since |-> new.since]
        /\ new.kind = q.kind /\ new.nb = n /\ new.pc = pc /\ new.body = body /\ new.since = q.since
    OBVIOUS
  <2>3. flight' = [flight EXCEPT ![i] = none] \/ flight' = [flight EXCEPT ![i] = new]
    <3>1. flight' = [flight EXCEPT ![i] = IF q.pc = "orphan" THEN Tabs!NoRequest
                 ELSE [kind |-> q.kind, nb |-> n, pc |-> pc, body |-> body, since |-> q.since]]
      BY DEF Tabs!Pass
    <3> QED BY <2>0, <3>1
  <2>4. CASE flight' = [flight EXCEPT ![i] = none]
    BY <2>1, <2>4
  <2>5. CASE flight' = [flight EXCEPT ![i] = new]
    BY <2>2, <2>5
  <2> QED BY <2>3, <2>4, <2>5
<1>4. CASE q.kind = "open" /\ UNCHANGED <<Tabs!Server, used>>
  <2>1. file' = file /\ used' = used /\ ServerTyped'
    BY <1>2, <1>4 DEF Tabs!Server, ServerTyped
  <2>2. CASE file[q.nb] = Absent
    <3>1. Tabs!Pass(i, "failed", q.nb, {})
      BY <1>4, <2>2 DEF Tabs!Serve
    <3> QED BY <1>1, <1>2, <1>3, <1>4, <2>1, <3>1
  <2>3. CASE file[q.nb] # Absent
    <3>1. Tabs!Pass(i, "answered", q.nb, file[q.nb]) /\ file[q.nb] \in Tabs!Contents
      BY <1>2, <1>4, <2>3 DEF Tabs!Serve, ServerTyped
    <3> QED BY <1>1, <1>2, <1>3, <1>4, <2>1, <2>3, <3>1
  <2> QED BY <2>2, <2>3
<1>5. CASE q.kind = "create"
  <2>1. PICK n \in Tabs!Unused : Tabs!Written(n, {}) /\ used' = used \cup {n} /\ Tabs!Pass(i, "answered", n, {})
    BY <1>5 DEF Tabs!Serve
  <2>2. n \in Notebooks /\ n \notin used /\ ServerTyped' /\ used' \subseteq Notebooks /\ \A m \in used : file'[m] = file[m]
    BY <1>2, <2>1 DEF Tabs!Unused, Tabs!Written, ServerTyped
  <2> QED BY <1>1, <1>2, <1>3, <1>5, <2>1, <2>2
<1>6. CASE q.kind = "delete"
  <2>1. /\ file' = [file EXCEPT ![q.nb] = Absent] /\ Tabs!Pass(i, "answered", q.nb, {})
        /\ UNCHANGED <<head, versions, used>> /\ q.nb \in Notebooks
    BY <1>2, <1>6 DEF Tabs!Serve
  <2>2. ServerTyped' /\ file'[q.nb] = Absent /\ \A m \in Notebooks \ {q.nb} : file'[m] = file[m]
    BY <1>2, <2>1 DEF ServerTyped
  <2> QED BY <1>1, <1>2, <1>3, <1>6, <2>1, <2>2
<1>7. CASE q.kind \in {"put", "restore"}
  <2>1. /\ Tabs!Written(q.nb, q.body) /\ used' = used /\ q.nb \in Notebooks
        /\ Tabs!Pass(i, IF q.kind = "restore" THEN "restored" ELSE "answered", q.nb, q.body)
    BY <1>2, <1>7 DEF Tabs!Serve
  <2>2. ServerTyped' /\ \A m \in Notebooks \ {q.nb} : file'[m] = file[m]
    BY <1>2, <2>1 DEF Tabs!Written, ServerTyped
  <2>4. \E pc \in {"restored", "answered"} : (pc = "restored" => q.kind = "restore") /\ Tabs!Pass(i, pc, q.nb, q.body)
    <3>1. CASE q.kind = "restore"
      BY <2>1, <3>1
    <3>2. CASE q.kind = "put"
      BY <2>1, <3>2
    <3> QED BY <1>7, <3>1, <3>2
  <2> QED BY <1>1, <1>2, <1>3, <1>7, <2>1, <2>2, <2>4
<1> QED BY <1>1, <1>4, <1>5, <1>6, <1>7 DEF Tabs!Serve

LEMMA TabsServeKeeps ==
    ASSUME Tabs!WorkspaceConstants, TabsInv, NEW i \in TabsSlot, Tabs!Serve(i) PROVE TabsInv'
<1> SUFFICES ASSUME NEW q, q = flight[i] PROVE TabsInv'
  OBVIOUS
<1>1. PICK r :
             /\ flight' = [flight EXCEPT ![i] = r]
             /\ r = [kind |-> r.kind, nb |-> r.nb, pc |-> r.pc, body |-> r.body, since |-> r.since]
             /\ r.body \in Tabs!Contents /\ r.since \in Tabs!Contents /\ q.kind # "optimize" /\ i \in OnIt(q.nb)
             /\ \/ r.pc = "free"
                \/ /\ r.kind = q.kind /\ r.since = q.since
                   /\ r.pc \in {"answered", "failed", "restored"} /\ (r.pc = "restored" => r.kind = "restore")
                   /\ \/ q.kind # "create" /\ r.nb = q.nb
                      \/ q.kind = "create" /\ r.nb \in Tabs!Unused /\ r.nb \in used' /\ r.pc = "answered"
                   /\ q.kind = "open" /\ file[q.nb] = Absent => r.pc = "failed"
                   /\ q.kind = "delete" => file'[q.nb] = Absent
             /\ ServerTyped' /\ used \subseteq used' /\ used' \subseteq Notebooks
             /\ \A n \in used : file'[n] = file[n] \/ (n = q.nb /\ q.kind # "open") \/ file'[n] = Absent
  BY ServeIs
<1>2. UNCHANGED <<Tabs!Screen, edits, crossed, tangled, deleted, lost>>
  BY DEF Tabs!Serve, Tabs!Counters
<1>3. tabs' = tabs /\ active' = active /\ book' = book /\ lost' = {} /\ Tabs!OpenTabs' = Tabs!OpenTabs
  BY <1>2 DEF Tabs!Screen, Tabs!OpenTabs, TabsInv
<1>4. ScreenTyped'
  BY <1>1, <1>3 DEF TabsInv, TabsTyped, ScreenTyped, Distinct
<1>5. /\ flight'[i] = r /\ \A j \in TabsSlot \ {i} : flight'[j] = flight[j]
      /\ flight' = [j \in TabsSlot |-> flight'[j]]
      /\ \A m : /\ OnIt(m)' \ {i} = OnIt(m) \ {i} /\ OnIt(m) \subseteq TabsSlot /\ OnIt(m)' \subseteq TabsSlot
                /\ i \in OnIt(m)' <=> r.pc # "free" /\ r.nb = m
  BY <1>1, SlotIs DEF TabsInv, TabsTyped
<1>6. FlightTyped'
  <2>1. RequestTyped(q) /\ Absent \notin used /\ (q.kind # "create" => q.nb \in used) /\ q.kind \in Tabs!Kinds
    BY <1>1 DEF TabsInv, TabsTyped, FlightTyped, RequestTyped, ScreenTyped, Tabs!WorkspaceConstants, OnIt, Tabs!Busy
  <2>2. RequestTyped(flight[i])'
    <3>1. RequestTyped(r)'
      BY <1>1, <2>1 DEF RequestTyped, Tabs!WorkspaceConstants
    <3> QED BY <1>5, <3>1
  <2>3. \A j \in TabsSlot \ {i} : RequestTyped(flight[j])'
    BY <1>1, <1>5 DEF TabsInv, TabsTyped, FlightTyped, RequestTyped, Tabs!WorkspaceConstants
  <2>4. \A j \in TabsSlot : flight'[j] = [kind |-> flight'[j].kind, nb |-> flight'[j].nb, pc |-> flight'[j].pc,
                                    body |-> flight'[j].body, since |-> flight'[j].since]
    BY <1>1, <1>5 DEF TabsInv, TabsTyped, FlightTyped
  <2> QED BY <1>5, <2>2, <2>3, <2>4 DEF FlightTyped
\* What is on its way was on its way, or has a notebook nobody knew.
<1>7. \A m : \A j \in OnIt(m)' : flight'[j].kind = flight[j].kind /\ flight'[j].since = flight[j].since
                                 /\ (j # i => flight'[j] = flight[j])
  BY <1>1, <1>5
<1>8. \A m : \A j \in OnIt(m)' : j \in OnIt(m) \/ (j = i /\ q.kind = "create" /\ m \in Tabs!Unused)
  BY <1>1, <1>5
<1>9. \A m \in Tabs!Unused : OnIt(m) = {} /\ m \notin Tabs!OpenTabs
  BY AboutUsed DEF Tabs!Unused, TabsInv, TabsTyped, ScreenTyped, Tabs!WorkspaceConstants
<1>10. OneReplaces'
  BY <1>2, <1>7, <1>8, <1>9 DEF TabsInv, OneReplaces, Replacers
<1>11. OpensWhatIsClosed'
  BY <1>2, <1>3, <1>7, <1>8, <1>9 DEF TabsInv, OpensWhatIsClosed
<1>12. OptimizeKnows'
  BY <1>1, <1>2, <1>3, <1>7, <1>8, <1>9 DEF TabsInv, OptimizeKnows
<1>13. DeletesAlone'
  <2> SUFFICES ASSUME NEW m \in Notebooks \ tangled, NEW j \in OnIt(m)', flight'[j].kind = "delete"
               PROVE  /\ \A k \in OnIt(m)' : k = j
                      /\ flight'[j].pc = "answered" => file'[m] = Absent
    BY <1>2 DEF DeletesAlone
  <2>1. j \in OnIt(m) /\ flight[j].kind = "delete" /\ m \in used /\ m \notin Tabs!Unused
    <3>1. j \in OnIt(m)
      BY <1>1, <1>5, <1>7, <1>8
    <3>2. m \in used
      BY <3>1, AboutUsed DEF TabsInv, Tabs!WorkspaceConstants
    <3> QED BY <1>7, <3>1, <3>2 DEF Tabs!Unused
  <2>2. \A k \in OnIt(m) : k = j
    BY <1>7, <2>1 DEF TabsInv, DeletesAlone
  <2>3. \A k \in OnIt(m)' : k = j
    BY <1>8, <2>1, <2>2
  <2>4. CASE j = i
    BY <1>1, <1>5, <1>7, <2>1, <2>3, <2>4 DEF OnIt
  <2>5. CASE j # i
    <3>1. q.nb # m
      BY <1>1, <2>2, <2>5
    <3>2. flight'[j] = flight[j] /\ (file'[m] = file[m] \/ file'[m] = Absent)
      BY <1>1, <1>7, <2>1, <2>5, <3>1
    <3> QED BY <2>1, <2>3, <3>2 DEF TabsInv, DeletesAlone
  <2> QED BY <2>4, <2>5
<1>14. GoneForGood'
  <2> SUFFICES ASSUME NEW m \in deleted \ tangled
               PROVE  /\ m \in used' /\ m \notin Tabs!OpenTabs /\ file'[m] = Absent
                      /\ \A j \in OnIt(m)' : flight'[j].kind = "open" /\ flight'[j].pc # "answered"
    BY <1>2, <1>3 DEF GoneForGood
  <2>1. /\ m \in used /\ m \notin Tabs!OpenTabs /\ file[m] = Absent
        /\ \A j \in OnIt(m) : flight[j].kind = "open" /\ flight[j].pc # "answered"
    BY DEF TabsInv, GoneForGood
  <2>2. file'[m] = Absent
    BY <1>1, <2>1
  <2>3. \A j \in OnIt(m)' : j \in OnIt(m)
    BY <1>8, <2>1 DEF Tabs!Unused
  <2>4. ASSUME NEW j \in OnIt(m)' PROVE flight'[j].kind = "open" /\ flight'[j].pc # "answered"
    <3>1. CASE j = i
      <4>1. q.nb = m /\ q.kind = "open" /\ r.pc # "free"
        BY <1>5, <2>1, <2>3, <3>1 DEF OnIt
      <4> QED BY <1>1, <1>5, <2>1, <3>1, <4>1
    <3>2. CASE j # i
      BY <1>7, <2>1, <2>3, <3>2
    <3> QED BY <3>1, <3>2
  <2> QED BY <1>1, <2>1, <2>2, <2>4
<1> QED BY <1>1, <1>2, <1>3, <1>4, <1>6, <1>10, <1>11, <1>12, <1>13, <1>14 DEF TabsInv, TabsTyped

\* A restore goes on with the notebook that is shown by then.
LEMMA ReadBackKeeps ==
    ASSUME Tabs!WorkspaceConstants, TabsInv, NEW i \in TabsSlot, Tabs!ReadBack(i) PROVE TabsInv'
<1>1. /\ UNCHANGED <<Tabs!Screen, Tabs!Server, edits, used, deleted, lost>>
      /\ flight[i].pc = "restored" /\ flight[i].kind = "restore"
  BY DEF Tabs!ReadBack, Tabs!Counters, TabsInv, TabsTyped, FlightTyped, RequestTyped
<1>2. tabs' = tabs /\ active' = active /\ book' = book /\ used' = used /\ lost' = {} /\ Tabs!OpenTabs' = Tabs!OpenTabs
      /\ deleted' = deleted /\ file' = file
  BY <1>1 DEF Tabs!Screen, Tabs!Server, Tabs!OpenTabs, TabsInv
<1>3. ScreenTyped' /\ ServerTyped'
  BY <1>1, <1>2 DEF TabsInv, TabsTyped, ScreenTyped, ServerTyped, Distinct, Tabs!Server
<1>4. CASE versions[active] = {}
  <2>1. Tabs!Freed(i) /\ UNCHANGED <<crossed, tangled>>
    BY <1>4 DEF Tabs!ReadBack
  <2>2. /\ FlightTyped' /\ \A n : OnIt(n)' = OnIt(n) \ {i} /\ OnIt(n) \subseteq TabsSlot
        /\ \A j \in TabsSlot \ {i} : flight'[j] = flight[j]
    BY <1>2, <2>1, FreedIs DEF TabsInv, TabsTyped
  <2>3. \A n : \A j \in OnIt(n)' : flight'[j] = flight[j]
    BY <2>2
  <2> QED BY <1>1, <1>2, <1>3, <2>1, <2>2, <2>3, ShrinkKeeps
<1>5. CASE versions[active] # {}
  <2>1. /\ Tabs!Pass(i, "answered", active, head[active])
        /\ crossed' = IF Tabs!Beside(i) \cap Tabs!Replacing # {} THEN crossed \cup {active} ELSE crossed
        /\ tangled' = IF "delete" \in Tabs!Beside(i) THEN tangled \cup {active} ELSE tangled
    BY <1>5 DEF Tabs!ReadBack
  <2>2. active \in Tabs!OpenTabs /\ active \in used /\ active \in Notebooks /\ head[active] \in Tabs!Contents
        /\ flight[i].since \in Tabs!Contents
    BY <1>5 DEF TabsInv, TabsTyped, ScreenTyped, ServerTyped, FlightTyped, RequestTyped
  <2>3. PICK r : r = [kind |-> flight[i].kind, nb |-> active, pc |-> "answered", body |-> head[active],
                      since |-> flight[i].since]
    OBVIOUS
  <2>4. /\ r = [kind |-> r.kind, nb |-> r.nb, pc |-> r.pc, body |-> r.body, since |-> r.since]
        /\ r.kind = "restore" /\ r.nb = active /\ r.pc = "answered" /\ r.body = head[active]
        /\ r.since = flight[i].since
    BY <1>1, <2>3
  <2>5. flight' = [flight EXCEPT ![i] = r]
    BY <1>1, <2>1, <2>3 DEF Tabs!Pass
  <2>6. /\ flight'[i] = r /\ \A j \in TabsSlot \ {i} : flight'[j] = flight[j]
        /\ flight' = [j \in TabsSlot |-> flight'[j]]
        /\ \A m : /\ OnIt(m)' \ {i} = OnIt(m) \ {i} /\ OnIt(m) \subseteq TabsSlot /\ OnIt(m)' \subseteq TabsSlot
                  /\ i \in OnIt(m)' <=> r.pc # "free" /\ r.nb = m
    BY <2>5, SlotIs DEF TabsInv, TabsTyped
  <2>7. FlightTyped'
    <3>1. RequestTyped(r)'
      BY <1>2, <2>2, <2>4 DEF RequestTyped, Tabs!Kinds
    <3>2. \A j \in TabsSlot \ {i} : RequestTyped(flight[j])'
      BY <1>2, <2>6 DEF TabsInv, TabsTyped, FlightTyped, RequestTyped
    <3>3. \A j \in TabsSlot : flight'[j] = [kind |-> flight'[j].kind, nb |-> flight'[j].nb, pc |-> flight'[j].pc,
                                    body |-> flight'[j].body, since |-> flight'[j].since]
      BY <2>4, <2>6 DEF TabsInv, TabsTyped, FlightTyped
    <3>4. RequestTyped(flight[i])'
      BY <2>6, <3>1
    <3> QED BY <2>6, <3>2, <3>3, <3>4 DEF FlightTyped
  <2>8. \A m : \A j \in OnIt(m)' : (j # i /\ j \in OnIt(m) /\ flight'[j] = flight[j]) \/ (j = i /\ m = active)
    BY <2>4, <2>6
  <2>9. active \notin crossed' => \A j \in Replacers(active) : j = i
    BY <2>1 DEF Tabs!Beside, Replacers, OnIt
  <2>10. active \notin tangled' => \A j \in OnIt(active) : j # i => flight[j].kind # "delete"
    BY <2>1 DEF Tabs!Beside, OnIt
  <2>11. crossed \subseteq crossed' /\ tangled \subseteq tangled'
    BY <2>1
  <2>12. OneReplaces'
    <3> SUFFICES ASSUME NEW m \in Notebooks \ crossed', NEW a \in Replacers(m)', NEW b \in Replacers(m)' PROVE a = b
      BY DEF OneReplaces
    <3>1. \A c \in Replacers(m)' : (c # i /\ c \in Replacers(m)) \/ (c = i /\ m = active)
      BY <2>8 DEF Replacers
    <3>2. \A c, d \in Replacers(m) : c = d
      BY <2>11 DEF TabsInv, OneReplaces
    <3> QED BY <2>9, <3>1, <3>2
  <2>13. OpensWhatIsClosed'
    BY <1>2, <2>4, <2>6, <2>8, <2>11 DEF TabsInv, OpensWhatIsClosed
  <2>14. OptimizeKnows'
    BY <1>2, <2>4, <2>6, <2>8, <2>11 DEF TabsInv, OptimizeKnows
  <2>15. DeletesAlone'
    <3> SUFFICES ASSUME NEW m \in Notebooks \ tangled', NEW j \in OnIt(m)', flight'[j].kind = "delete"
                 PROVE  /\ \A k \in OnIt(m)' : k = j
                        /\ flight'[j].pc = "answered" => file[m] = Absent
      BY <1>2 DEF DeletesAlone
    <3>1. j # i /\ j \in OnIt(m) /\ flight'[j] = flight[j]
      BY <2>4, <2>6, <2>8
    <3>2. m # active
      BY <2>10, <3>1
    <3> QED BY <2>8, <2>11, <3>1, <3>2 DEF TabsInv, DeletesAlone
  <2>16. GoneForGood'
    BY <1>2, <2>2, <2>8, <2>11 DEF TabsInv, GoneForGood
  <2> QED BY <1>1, <1>2, <1>3, <2>7, <2>12, <2>13, <2>14, <2>15, <2>16 DEF TabsInv, TabsTyped
<1> QED BY <1>4, <1>5

LEMMA TabsInitEstablishes == Tabs!WorkspaceConstants /\ Tabs!Init => TabsInv
<1> SUFFICES ASSUME Tabs!WorkspaceConstants, Tabs!Init PROVE TabsInv
  OBVIOUS
<1>0. PICK n \in Notebooks \ OnServer :
        /\ tabs = <<n>> /\ active = n
        /\ book = [m \in Notebooks |-> IF m = n THEN {} ELSE Absent]
        /\ used = OnServer \cup {n}
  BY DEF Tabs!Init
<1>1. ScreenTyped
  <2>1. Tabs!OpenTabs = {n} /\ Distinct /\ tabs \in Seq(Notebooks) /\ tabs # <<>>
    BY <1>0 DEF Tabs!OpenTabs, Distinct
  <2> QED BY <1>0, <2>1 DEF ScreenTyped, Tabs!Contents, Tabs!WorkspaceConstants
<1>2. ServerTyped
  BY DEF Tabs!Init, ServerTyped, Tabs!Contents
<1>3. /\ Tabs!NoRequest.pc = "free" /\ Tabs!NoRequest.body = {} /\ Tabs!NoRequest.since = {}
      /\ Tabs!NoRequest = [kind |-> Tabs!NoRequest.kind, nb |-> Tabs!NoRequest.nb, pc |-> Tabs!NoRequest.pc,
                      body |-> Tabs!NoRequest.body, since |-> Tabs!NoRequest.since]
  BY DEF Tabs!NoRequest
<1>4. flight = [i \in TabsSlot |-> Tabs!NoRequest]
  BY DEF Tabs!Init, TabsSlot
<1>5. FlightTyped
  <2>1. RequestTyped(Tabs!NoRequest)
    BY <1>3 DEF RequestTyped, Tabs!Contents
  <2> QED BY <1>3, <1>4, <2>1 DEF FlightTyped
<1>6. Tabs!Busy = {} /\ \A m : OnIt(m) = {}
  BY <1>3, <1>4 DEF Tabs!Busy, OnIt, TabsSlot
<1>7. edits \in 0 .. MaxEdits /\ lost = {} /\ deleted = {}
  BY DEF Tabs!Init, Tabs!WorkspaceConstants
<1> QED BY <1>1, <1>2, <1>5, <1>6, <1>7
        DEF TabsInv, TabsTyped, OneReplaces, Replacers, OpensWhatIsClosed, OptimizeKnows, DeletesAlone, GoneForGood

LEMMA RestKeeps == ASSUME TabsInv, UNCHANGED Tabs!workspaceVars PROVE TabsInv'
<1>1. Tabs!OpenTabs' = Tabs!OpenTabs /\ \A n : OnIt(n)' = OnIt(n)
  BY DEF Tabs!workspaceVars, Tabs!OpenTabs, OnIt, Tabs!Busy
<1>2. TabsTyped'
  BY <1>1 DEF Tabs!workspaceVars, TabsInv, TabsTyped, ScreenTyped, Distinct, ServerTyped, FlightTyped, RequestTyped
<1>3. OneReplaces' /\ OpensWhatIsClosed' /\ OptimizeKnows'
  BY <1>1 DEF Tabs!workspaceVars, TabsInv, OneReplaces, OpensWhatIsClosed, OptimizeKnows, Replacers
<1>4. DeletesAlone' /\ GoneForGood' /\ lost' = {}
  BY <1>1 DEF Tabs!workspaceVars, TabsInv, DeletesAlone, GoneForGood
<1> QED BY <1>2, <1>3, <1>4 DEF TabsInv

LEMMA TabsInductive == ASSUME Tabs!WorkspaceConstants, TabsInv, [Tabs!Next]_Tabs!workspaceVars PROVE TabsInv'
<1>1. CASE Tabs!User
  BY <1>1, EditKeeps, TabsAskKeeps, ReloadKeeps, ImportKeeps, CloseTabKeeps, SwitchTabKeeps DEF Tabs!User
<1>2. CASE Tabs!Answers
  BY <1>2, TabsServeKeeps, ReadBackKeeps, TabsSucceedKeeps, ErrorKeeps, VanishKeeps DEF Tabs!Answers, TabsSlot
<1>3. CASE UNCHANGED Tabs!workspaceVars
  BY <1>3, RestKeeps
<1> QED BY <1>1, <1>2, <1>3 DEF Tabs!Next

LEMMA TabsInvImplies == TabsInv => Tabs!TypeOK /\ Tabs!OnlyKnownLosses /\ Tabs!DeletedStaysDeleted
<1> SUFFICES ASSUME TabsInv PROVE Tabs!TypeOK /\ Tabs!OnlyKnownLosses /\ Tabs!DeletedStaysDeleted
  OBVIOUS
<1>1. Tabs!TypeOK
  BY DEF Tabs!TypeOK, TabsInv, TabsTyped, ScreenTyped, Distinct, ServerTyped, FlightTyped, RequestTyped, TabsSlot
<1> QED BY <1>1 DEF TabsInv, Tabs!OnlyKnownLosses, Tabs!DeletedStaysDeleted, GoneForGood

\* A behaviour of the parts is one of Workspace: of what the other parts do
\* it shows nothing.
LEMMA TabsBehaves == Spec => Tabs!Spec
<1>1. Init => Tabs!Init
  BY DEF Init
<1>2. [Next]_partsVars => [Tabs!Next]_(Tabs!workspaceVars)
  <2>1. TabsStep => Tabs!Next
    BY DEF TabsStep
  <2>2. SavedStep \/ TalkStep \/ BoundStep \/ SownStep \/ FilesStep
        \/ DrawnStep \/ FoundStep \/ ChosenStep
        \/ ListedStep \/ SignedStep \/ UNCHANGED partsVars => UNCHANGED Tabs!workspaceVars
    BY DEF SavedStep, TalkStep, BoundStep, SownStep,
           FilesStep, DrawnStep, FoundStep, ChosenStep,
           ListedStep, SignedStep, partsVars, tabsVars, Tabs!workspaceVars
  <2> QED BY <2>1, <2>2 DEF Next
<1> QED BY <1>1, <1>2, PTL DEF Spec, Tabs!Spec

LEMMA TabsHolds == Spec => []TabsInv
<1>1. Tabs!WorkspaceConstants
  BY PartsAssumption
<1>2. Tabs!Init => TabsInv
  BY <1>1, TabsInitEstablishes
<1>3. TabsInv /\ [Tabs!Next]_(Tabs!workspaceVars) => TabsInv'
  BY <1>1, TabsInductive
<1> QED BY <1>2, <1>3, TabsBehaves, PTL DEF Tabs!Spec

\* The only answers that take away what the user has typed are the four that
\* the property names: that of a notebook replaced twice at once or reached by
\* the answer for its copy (crossed), an Optimize over what was typed since
\* it was asked (since), and a restore answered after its tab was left.  In
\* every other order of clicks, imports, edits, closes, refreshes, failures and
\* answers nothing is lost (store/notebook-store.ts and what calls it).
THEOREM WorkspaceOnlyKnownLosses == Spec => []OnlyKnownLosses
<1>1. TabsInv => OnlyKnownLosses
  BY TabsInvImplies DEF OnlyKnownLosses
<1> QED BY <1>1, TabsHolds, PTL

\* A notebook whose deletion was answered is neither open nor on the server
\* again, provided no other request about it was under way beside the deletion
\* (tangled): a save, answered or late, or an open may then bring it back.
THEOREM WorkspaceDeletedStaysDeleted == Spec => []DeletedStaysDeleted
<1>1. TabsInv => DeletedStaysDeleted
  BY TabsInvImplies DEF DeletedStaysDeleted
<1> QED BY <1>1, TabsHolds, PTL

=============================================================================
