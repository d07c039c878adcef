----------------------------- MODULE PartsProofs -----------------------------
(***************************************************************************)
(* That the bundled samples come once, that what an administrator chooses  *)
(* stands, that pages list what the server has, that signing in ends where *)
(* it should, that charts add up to their rows, and that each of the parts *)
(* keeps to its types, for any samples, listings, administrators, keys,    *)
(* results and requests.                                                   *)
(***************************************************************************)
EXTENDS BrowserProofs, StoresProofs, WorkspaceProofs

---------------------------------------------------------------------------
(* The bundled samples.                                                    *)

\* The types the argument needs.
SownTyped ==
    /\ written \in [Samples -> Nat]
    /\ lister \in [Listers -> {"idle", "marker", "glob", "write", "touch"}]
    /\ todo \in [Listers -> SUBSET Samples]
    /\ marker \in BOOLEAN /\ declined \in BOOLEAN

Untouched == ~declined /\ \A s \in Samples : written[s] = 0

\* Nobody has got as far as to look at the directory.
NobodyPast == \A t \in Listers : lister[t] \in {"idle", "marker"}

\* While nothing is rushed there is one lister at most, and without a marker
\* the samples written are those it has written itself.
OneAtATime == \A t, u \in Sown!Seeders : t = u

Progress ==
    /\ ~marker /\ NobodyPast => Untouched
    /\ \A t \in Listers : lister[t] \in {"glob", "write", "touch"} => ~marker
    /\ \A t \in Listers : lister[t] = "glob" => Untouched
    /\ \A t \in Listers : lister[t] = "write" =>
        ~declined /\ \A s \in todo[t] : written[s] = 0

Once == \A s \in Samples : written[s] <= IF declined THEN 0 ELSE 1

SownInv == SownTyped /\ (rushed = {} => OneAtATime /\ Progress /\ Once)

LEMMA SownInitEstablishes == Sown!Init => SownInv
<1> SUFFICES ASSUME Sown!Init PROVE SownInv
  OBVIOUS
<1>1. written = [s \in Samples |-> 0]
  BY DEF Sown!Init
<1>2. SownTyped
  <2>1. written \in [Samples -> Nat]
    BY <1>1
  <2>2. todo \in [Listers -> SUBSET Samples]
    <3>1. todo = [t \in Listers |-> {}] /\ {} \in SUBSET Samples
      BY DEF Sown!Init
    <3> QED BY <3>1
  <2>3. lister = [t \in Listers |-> "idle"] /\ marker = FALSE /\ declined = FALSE
    BY DEF Sown!Init
  <2> QED BY <2>1, <2>2, <2>3 DEF SownTyped
<1>3. Untouched /\ \A t \in Listers : lister[t] = "idle"
  BY <1>1 DEF Sown!Init, Untouched
<1>4. OneAtATime /\ Progress
  BY <1>3 DEF OneAtATime, Sown!Seeders, Progress
<1>5. Once
  BY <1>3 DEF Once, Untouched
<1> QED BY <1>2, <1>4, <1>5 DEF SownInv

\* A listing that begins alone knows nothing yet.
LEMMA BeginKeeps ==
    ASSUME SownInv, NEW t \in Listers, Sown!BeginList(t)
    PROVE  SownInv'
<1>1. SownTyped'
  BY DEF SownInv, SownTyped, Sown!BeginList, Sown!Files
<1>2. ASSUME rushed' = {} PROVE OneAtATime' /\ Progress' /\ Once'
  <2>1. rushed = {} /\ Sown!Seeders = {}
    BY <1>2 DEF Sown!BeginList
  <2>2. \A u \in Listers : lister[u] = "idle"
    BY <2>1 DEF Sown!Seeders
  <2>3. \A u \in Listers : lister'[u] = IF u = t THEN "marker" ELSE "idle"
    BY <2>2 DEF Sown!BeginList, SownInv, SownTyped
  <2>4. NobodyPast /\ (~marker => Untouched) /\ Once
    BY <2>1, <2>2 DEF SownInv, Progress, NobodyPast
  <2>5. OneAtATime'
    BY <2>3 DEF OneAtATime, Sown!Seeders
  <2>6. Progress' /\ Once'
    BY <2>3, <2>4 DEF Progress, Once, Untouched, NobodyPast, Sown!BeginList, Sown!Files
  <2> QED BY <2>5, <2>6
<1> QED BY <1>1, <1>2 DEF SownInv

LEMMA MarkerKeeps ==
    ASSUME SownInv, NEW t \in Listers, Sown!LookForMarker(t)
    PROVE  SownInv'
<1>1. SownTyped'
  BY DEF SownInv, SownTyped, Sown!LookForMarker, Sown!Goes, Sown!Files
<1>2. ASSUME rushed' = {} PROVE OneAtATime' /\ Progress' /\ Once'
  <2>1. OneAtATime /\ Progress /\ Once /\ SownTyped
    BY <1>2 DEF SownInv, Sown!LookForMarker
  <2>2. \A u \in Listers : u # t => lister[u] = "idle" /\ lister'[u] = "idle"
    BY <2>1 DEF OneAtATime, Sown!Seeders, Sown!LookForMarker, Sown!Goes, SownTyped
  <2>3. lister[t] = "marker" /\ lister'[t] = IF marker THEN "idle" ELSE "glob"
    BY <2>1 DEF Sown!LookForMarker, Sown!Goes, SownTyped
  <2>4. ~marker => Untouched
    BY <2>1, <2>2, <2>3 DEF Progress, NobodyPast
  <2>5. OneAtATime'
    BY <2>2 DEF OneAtATime, Sown!Seeders
  <2>6. Progress' /\ Once'
    BY <2>1, <2>2, <2>3, <2>4 DEF Progress, Once, Untouched, NobodyPast, Sown!LookForMarker, Sown!Files
  <2> QED BY <2>5, <2>6
<1> QED BY <1>1, <1>2 DEF SownInv

\* The listing that finds no notebook has the samples before it, and the one
\* that finds some has nothing to write.
LEMMA NotebooksKeeps ==
    ASSUME SownInv, NEW t \in Listers, Sown!LookForNotebooks(t)
    PROVE  SownInv'
<1>1. SownTyped'
  BY DEF SownInv, SownTyped, Sown!LookForNotebooks, Sown!Goes, Sown!WhenInUse, Sown!Files
<1>2. ASSUME rushed' = {} PROVE OneAtATime' /\ Progress' /\ Once'
  <2>1. OneAtATime /\ Progress /\ Once /\ SownTyped
    BY <1>2 DEF SownInv, Sown!LookForNotebooks
  <2>2. \A u \in Listers : u # t => lister[u] = "idle" /\ lister'[u] = "idle"
    BY <2>1 DEF OneAtATime, Sown!Seeders, Sown!LookForNotebooks, Sown!Goes, SownTyped
  <2>3. lister[t] = "glob" /\ ~marker /\ Untouched
    BY <2>1 DEF Sown!LookForNotebooks, Progress
  <2>4. /\ lister'[t] = IF Sown!Fresh THEN "write" ELSE "touch"
        /\ declined' = ~Sown!Fresh /\ written' = written /\ ~marker'
    BY <2>1, <2>3 DEF Sown!LookForNotebooks, Sown!Goes, Sown!WhenInUse, SownTyped, Untouched, Sown!Files
  <2>5. OneAtATime'
    BY <2>2 DEF OneAtATime, Sown!Seeders
  <2>6. Progress'
    <3>1. ~NobodyPast'
      BY <2>4 DEF NobodyPast
    <3>2. todo'[t] \subseteq Samples
      BY <1>1 DEF SownTyped
    <3> QED BY <2>2, <2>3, <2>4, <3>1, <3>2 DEF Progress, Untouched
  <2>7. Once'
    BY <2>3, <2>4 DEF Once, Untouched
  <2> QED BY <2>5, <2>6, <2>7
<1> QED BY <1>1, <1>2 DEF SownInv

LEMMA SownWriteKeeps ==
    ASSUME SownInv, NEW t \in Listers, Sown!WriteSample(t)
    PROVE  SownInv'
<1>1. SownTyped
  BY DEF SownInv
<1>2. PICK s \in todo[t] :
        /\ Sown!Goes(t, IF todo[t] = {s} THEN "touch" ELSE "write", todo[t] \ {s})
        /\ \/ written' = [written EXCEPT ![s] = @ + 1]
           \/ UNCHANGED written
  BY DEF Sown!WriteSample
<1>3. s \in Samples /\ lister[t] = "write"
  BY <1>1, <1>2 DEF SownTyped, Sown!WriteSample
<1>4. SownTyped'
  BY <1>1, <1>2, <1>3 DEF SownTyped, Sown!WriteSample, Sown!Goes
<1>5. ASSUME rushed' = {} PROVE OneAtATime' /\ Progress' /\ Once'
  <2>1. OneAtATime /\ Progress /\ Once
    BY <1>5 DEF SownInv, Sown!WriteSample
  <2>2. \A u \in Listers : u # t => lister[u] = "idle" /\ lister'[u] = "idle"
    BY <1>1, <1>2, <1>3, <2>1 DEF OneAtATime, Sown!Seeders, Sown!Goes, SownTyped
  <2>3. ~marker /\ ~declined /\ \A r \in todo[t] : written[r] = 0
    BY <1>3, <2>1 DEF Progress
  <2>4. /\ lister'[t] \in {"write", "touch"} /\ todo'[t] = todo[t] \ {s}
        /\ ~marker' /\ ~declined'
    BY <1>1, <1>2, <2>3 DEF Sown!Goes, SownTyped, Sown!WriteSample
  <2>5. \A r \in Samples : written'[r] = written[r] \/ (r = s /\ written'[r] = 1)
    BY <1>1, <1>2, <1>3, <2>3 DEF SownTyped
  <2>6. OneAtATime'
    BY <2>2 DEF OneAtATime, Sown!Seeders
  <2>7. Progress'
    <3>1. ~NobodyPast'
      BY <2>4 DEF NobodyPast
    <3>2. \A r \in todo'[t] : written'[r] = 0
      BY <1>1, <2>3, <2>4, <2>5 DEF SownTyped
    <3> QED BY <2>2, <2>4, <3>1, <3>2 DEF Progress
  <2>8. Once'
    BY <2>1, <2>3, <2>4, <2>5 DEF Once
  <2> QED BY <2>6, <2>7, <2>8
<1> QED BY <1>4, <1>5 DEF SownInv

LEMMA TouchKeeps ==
    ASSUME SownInv, NEW t \in Listers, Sown!TouchMarker(t)
    PROVE  SownInv'
<1>1. SownTyped'
  BY DEF SownInv, SownTyped, Sown!TouchMarker, Sown!Goes, Sown!Files
<1>2. ASSUME rushed' = {} PROVE OneAtATime' /\ Progress' /\ Once'
  <2>1. marker' = TRUE /\ rushed = {}
    BY <1>2 DEF Sown!TouchMarker
  <2>2. OneAtATime /\ Once /\ SownTyped
    BY <2>1 DEF SownInv
  <2>3. \A u \in Listers : lister'[u] = "idle"
    <3>1. \A u \in Listers : u # t => lister[u] = "idle"
      BY <2>2 DEF OneAtATime, Sown!Seeders, Sown!TouchMarker
    <3> QED BY <2>2, <3>1 DEF Sown!TouchMarker, Sown!Goes, SownTyped
  <2> QED BY <2>1, <2>2, <2>3 DEF OneAtATime, Sown!Seeders, Progress, Once, Sown!TouchMarker, Sown!Files
<1> QED BY <1>1, <1>2 DEF SownInv

LEMMA SownInductive == SownInv /\ [Sown!Next]_Sown!seedingVars => SownInv'
<1> SUFFICES ASSUME SownInv, [Sown!Next]_Sown!seedingVars PROVE SownInv'
  OBVIOUS
<1>1. CASE Sown!MakeOwn \/ Sown!Discard \/ UNCHANGED Sown!seedingVars
  <2>1. UNCHANGED <<written, marker, lister, todo, declined, rushed>>
    BY <1>1 DEF Sown!MakeOwn, Sown!Discard, Sown!seedingVars
  <2> QED BY <2>1 DEF SownInv, SownTyped, OneAtATime, Progress, Once, Untouched, NobodyPast, Sown!Seeders
<1>2. CASE Sown!Crash
  BY <1>2 DEF Sown!Crash, SownInv, SownTyped, Sown!Files
<1>3. CASE \E t \in Listers : Sown!BeginList(t) \/ Sown!LookForMarker(t) \/ Sown!LookForNotebooks(t)
                              \/ Sown!WriteSample(t) \/ Sown!TouchMarker(t)
  BY <1>3, BeginKeeps, MarkerKeeps, NotebooksKeeps, SownWriteKeeps, TouchKeeps
<1> QED BY <1>1, <1>2, <1>3 DEF Sown!Next

\* A behaviour of the parts is one of Seeding: of what the other parts do
\* it shows nothing.
LEMMA SownBehaves == Spec => Sown!Spec
<1>1. Init => Sown!Init
  BY DEF Init
<1>2. [Next]_partsVars => [Sown!Next]_(Sown!seedingVars)
  <2>1. SownStep => Sown!Next
    BY DEF SownStep
  <2>2. TabsStep \/ SavedStep \/ TalkStep \/ BoundStep \/ FilesStep
        \/ DrawnStep \/ FoundStep \/ ChosenStep
        \/ ListedStep \/ SignedStep \/ UNCHANGED partsVars => UNCHANGED Sown!seedingVars
    BY DEF TabsStep, SavedStep, TalkStep, BoundStep,
           FilesStep, DrawnStep, FoundStep, ChosenStep,
           ListedStep, SignedStep, partsVars, sownVars, Sown!seedingVars
  <2> QED BY <2>1, <2>2 DEF Next
<1> QED BY <1>1, <1>2, PTL DEF Spec, Sown!Spec

LEMMA SownHolds == Spec => []SownInv
<1>1. Sown!SeedingConstants
  BY PartsAssumption
<1>2. Sown!Init => SownInv
  BY <1>1, SownInitEstablishes
<1>3. SownInv /\ [Sown!Next]_(Sown!seedingVars) => SownInv'
  BY <1>1, SownInductive
<1> QED BY <1>2, <1>3, SownBehaves, PTL DEF Sown!Spec

\* However listings, the user's own notebooks and deletions interleave: as long
\* as no listing runs beside another, and none is cut short before its marker,
\* seed_if_empty writes no sample a second time, and none at all for a user
\* who had notebooks when first listed.
THEOREM SeedingOnce == Spec => []SamplesComeOnce
<1>1. SownInv => SamplesComeOnce
  BY DEF SownInv, Once, SamplesComeOnce, Sown!SamplesComeOnce
<1> QED BY <1>1, SownHolds, PTL

---------------------------------------------------------------------------
(* The types of the samples.  A listing owes each sample once, and whatever*)
(* was written was owed by a listing.                                      *)

\* The listings that may still write s.
Owing(s) == {t \in Listers : lister[t] \in {"marker", "glob"} \/ s \in todo[t]}

Paid(s) == IsFiniteSet(Owing(s)) /\ written[s] + Cardinality(Owing(s)) <= lists

SownTypes ==
    /\ SownTyped
    /\ own \in Nat /\ owns \in Nat /\ own <= owns /\ owns <= MaxOwn
    /\ present \in [Samples -> Nat] /\ \A s \in Samples : present[s] <= written[s]
    /\ lists \in Nat /\ lists <= MaxLists /\ rushed \subseteq {"overlap", "no marker"}
    /\ \A t \in Listers : todo[t] # {} => lister[t] = "write"
    /\ \A s \in Samples : Paid(s)

LEMMA SownTypesSuffice == Sown!SeedingConstants /\ SownTypes => Sown!TypeOK
<1> SUFFICES ASSUME Sown!SeedingConstants, SownTypes PROVE Sown!TypeOK
  OBVIOUS
<1>1. \A s \in Samples : present[s] \in 0 .. MaxLists /\ written[s] \in present[s] .. MaxLists
  <2> TAKE s \in Samples
  <2>1. present[s] \in Nat /\ written[s] \in Nat /\ present[s] <= written[s] /\ lists \in Nat /\ lists <= MaxLists
    BY DEF SownTypes, SownTyped
  <2>2. Cardinality(Owing(s)) \in Nat /\ written[s] + Cardinality(Owing(s)) <= lists
    BY FS_CardinalityType DEF SownTypes, Paid
  <2> QED BY <2>1, <2>2 DEF Sown!SeedingConstants
<1>2. own \in 0 .. MaxOwn /\ lists \in 0 .. MaxLists
  <2>1. own \in Nat /\ owns \in Nat /\ own <= owns /\ owns <= MaxOwn /\ lists \in Nat /\ lists <= MaxLists
    BY DEF SownTypes
  <2>2. MaxOwn \in Nat /\ MaxLists \in Nat
    BY DEF Sown!SeedingConstants
  <2> QED BY <2>1, <2>2
<1> QED BY <1>1, <1>2 DEF SownTypes, SownTyped, Sown!TypeOK

LEMMA SownInitTypes == Sown!SeedingConstants /\ Sown!Init => SownTypes
<1> SUFFICES ASSUME Sown!SeedingConstants, Sown!Init PROVE SownTypes
  OBVIOUS
<1>1. SownTyped
  BY SownInitEstablishes DEF SownInv
<1>2. \A s \in Samples : written[s] = 0 /\ present[s] = 0
  BY DEF Sown!Init
<1>3. \A s \in Samples : Owing(s) = {}
  BY DEF Sown!Init, Owing
<1>4. \A s \in Samples : Paid(s)
  BY <1>2, <1>3, FS_EmptySet DEF Paid, Sown!Init
<1> QED BY <1>1, <1>2, <1>4 DEF SownTypes, Sown!Init, Sown!SeedingConstants

\* Who owes less, or as much, has paid.
LEMMA PaidStays ==
    ASSUME NEW s, Paid(s), Owing(s)' \subseteq Owing(s), UNCHANGED <<written, lists>>,
           written[s] \in Nat, lists \in Nat
    PROVE  Paid(s)'
<1>1. /\ IsFiniteSet(Owing(s)) /\ Cardinality(Owing(s)) \in Nat
      /\ written[s] + Cardinality(Owing(s)) <= lists
  BY FS_CardinalityType DEF Paid
<1>2. /\ IsFiniteSet(Owing(s)') /\ Cardinality(Owing(s)') <= Cardinality(Owing(s))
      /\ Cardinality(Owing(s)') \in Nat
  BY <1>1, FS_Subset, FS_CardinalityType
<1>3. written[s] + Cardinality(Owing(s)') <= lists
  BY <1>1, <1>2
<1> QED BY <1>2, <1>3 DEF Paid

LEMMA BeginTypes ==
    ASSUME SownTypes, SownTyped', MaxLists \in Nat, NEW t \in Listers, Sown!BeginList(t)
    PROVE  SownTypes'
<1>1. /\ lists' = lists + 1 /\ lists < MaxLists /\ lists \in Nat
      /\ UNCHANGED <<own, owns, present, written, todo>>
      /\ lister' = [lister EXCEPT ![t] = "marker"] /\ lister[t] = "idle"
  BY DEF Sown!BeginList, Sown!Files, SownTypes
<1>2. \A s \in Samples : Paid(s)'
  <2> TAKE s \in Samples
  <2>1. Owing(s)' = Owing(s) \cup {t} /\ written[s] \in Nat
    BY <1>1 DEF Owing, SownTypes, SownTyped
  <2>2. /\ IsFiniteSet(Owing(s)) /\ Cardinality(Owing(s)) \in Nat
        /\ written[s] + Cardinality(Owing(s)) <= lists
    BY FS_CardinalityType DEF Paid, SownTypes
  <2>3. IsFiniteSet(Owing(s)') /\ Cardinality(Owing(s)') \in {Cardinality(Owing(s)), Cardinality(Owing(s)) + 1}
    BY <2>1, <2>2, FS_AddElement
  <2>4. written[s] + Cardinality(Owing(s)') <= lists'
    BY <1>1, <2>1, <2>2, <2>3
  <2> QED BY <1>1, <2>3, <2>4 DEF Paid
<1>3. \A u \in Listers : todo'[u] # {} => lister'[u] = "write"
  BY <1>1 DEF SownTypes, SownTyped
<1>4. rushed' \subseteq {"overlap", "no marker"}
  BY DEF Sown!BeginList, SownTypes
<1>5. lists' \in Nat /\ lists' <= MaxLists
  BY <1>1
<1> QED BY <1>1, <1>2, <1>3, <1>4, <1>5 DEF SownTypes

\* The step of a listing that writes nothing.
LEMMA ListingTypes ==
    ASSUME SownTypes, SownTyped', NEW t \in Listers,
           Sown!LookForMarker(t) \/ Sown!LookForNotebooks(t) \/ Sown!TouchMarker(t)
    PROVE  SownTypes'
<1>1. UNCHANGED <<own, owns, present, written, lists>>
  BY DEF Sown!LookForMarker, Sown!LookForNotebooks, Sown!TouchMarker, Sown!Files
<1> DEFINE Takes(pc, rest) ==
              /\ Sown!Goes(t, pc, rest)
              /\ \/ rest = {} /\ (pc = "glob" => lister[t] = "marker") /\ pc # "marker"
                 \/ pc = "write" /\ lister[t] = "glob"
<1>2. PICK pc, rest : Takes(pc, rest)
  <2>1. CASE Sown!LookForMarker(t)
    <3>1. Takes(IF marker THEN "idle" ELSE "glob", {})
      BY <2>1 DEF Sown!LookForMarker
    <3> QED BY <3>1
  <2>2. CASE Sown!LookForNotebooks(t)
    <3>1. Takes("write", Samples) \/ Takes("touch", {})
      BY <2>2 DEF Sown!LookForNotebooks, Sown!WhenInUse
    <3> QED BY <3>1
  <2>3. CASE Sown!TouchMarker(t)
    <3>1. Takes("idle", {})
      BY <2>3 DEF Sown!TouchMarker
    <3> QED BY <3>1
  <2> QED BY <2>1, <2>2, <2>3
<1>3. \A u \in Listers : /\ lister'[u] = IF u = t THEN pc ELSE lister[u]
                         /\ todo'[u] = IF u = t THEN rest ELSE todo[u]
  BY <1>2 DEF SownTypes, SownTyped, Sown!Goes
<1>4. \A s \in Samples : Paid(s)'
  <2> TAKE s \in Samples
  <2>1. Owing(s)' \subseteq Owing(s)
    BY <1>2, <1>3 DEF Owing
  <2> QED BY <1>1, <2>1, PaidStays DEF SownTypes, SownTyped
<1>5. \A u \in Listers : todo'[u] # {} => lister'[u] = "write"
  BY <1>2, <1>3 DEF SownTypes
<1>6. rushed' \subseteq {"overlap", "no marker"}
  BY DEF Sown!LookForMarker, Sown!LookForNotebooks, Sown!TouchMarker, SownTypes
<1> QED BY <1>1, <1>4, <1>5, <1>6 DEF SownTypes

LEMMA WriteTypes ==
    ASSUME SownTypes, SownTyped', NEW t \in Listers, Sown!WriteSample(t)
    PROVE  SownTypes'
<1>1. PICK d \in todo[t] :
        /\ Sown!Goes(t, IF todo[t] = {d} THEN "touch" ELSE "write", todo[t] \ {d})
        /\ \/ present' = [present EXCEPT ![d] = @ + 1] /\ written' = [written EXCEPT ![d] = @ + 1]
           \/ UNCHANGED <<present, written>>
  BY DEF Sown!WriteSample
<1>2. UNCHANGED <<own, owns, lists, rushed>> /\ lister[t] = "write" /\ d \in Samples
  BY DEF Sown!WriteSample, SownTypes, SownTyped
<1>3. \A u \in Listers : /\ todo'[u] = IF u = t THEN todo[t] \ {d} ELSE todo[u]
                         /\ lister'[u] = IF u # t THEN lister[u] ELSE IF todo[t] = {d} THEN "touch" ELSE "write"
  BY <1>1 DEF Sown!Goes, SownTypes, SownTyped
<1>4. \A s \in Samples : Paid(s)'
  <2> TAKE s \in Samples
  <2>0. written[s] \in Nat /\ lists \in Nat
    BY DEF SownTypes, SownTyped
  <2>1. CASE s = d
    <3>1. Owing(s)' = Owing(s) \ {t} /\ t \in Owing(s)
      BY <1>2, <1>3, <2>1 DEF Owing
    <3>2. /\ IsFiniteSet(Owing(s)) /\ Cardinality(Owing(s)) \in Nat
          /\ written[s] + Cardinality(Owing(s)) <= lists
      BY FS_CardinalityType DEF Paid, SownTypes
    <3>3. IsFiniteSet(Owing(s)') /\ Cardinality(Owing(s)') = Cardinality(Owing(s)) - 1
      BY <3>1, <3>2, FS_RemoveElement
    <3>4. written'[s] \in {written[s], written[s] + 1}
      BY <1>1, <2>1 DEF SownTypes, SownTyped
    <3>5. written'[s] + Cardinality(Owing(s)') <= lists'
      BY <1>2, <2>0, <3>2, <3>3, <3>4
    <3> QED BY <3>3, <3>5 DEF Paid
  <2>2. CASE s # d
    <3>1. Owing(s)' \subseteq Owing(s)
      BY <1>2, <1>3, <2>2 DEF Owing
    <3>2. written'[s] = written[s]
      BY <1>1, <2>2 DEF SownTypes, SownTyped
    <3>3. /\ IsFiniteSet(Owing(s)) /\ Cardinality(Owing(s)) \in Nat
          /\ written[s] + Cardinality(Owing(s)) <= lists
      BY FS_CardinalityType DEF Paid, SownTypes
    <3>4. /\ IsFiniteSet(Owing(s)') /\ Cardinality(Owing(s)') <= Cardinality(Owing(s))
          /\ Cardinality(Owing(s)') \in Nat
      BY <3>1, <3>3, FS_Subset, FS_CardinalityType
    <3>5. written'[s] + Cardinality(Owing(s)') <= lists'
      BY <1>2, <2>0, <3>2, <3>3, <3>4
    <3> QED BY <3>4, <3>5 DEF Paid
  <2> QED BY <2>1, <2>2
<1>5. \A u \in Listers : todo'[u] # {} => lister'[u] = "write"
  BY <1>3 DEF SownTypes
<1>6. present' \in [Samples -> Nat] /\ \A s \in Samples : present'[s] <= written'[s]
  <2>1. \A s \in Samples : present[s] \in Nat /\ written[s] \in Nat /\ present[s] <= written[s]
    BY DEF SownTypes, SownTyped
  <2>2. CASE UNCHANGED <<present, written>>
    BY <2>1, <2>2 DEF SownTypes
  <2>3. CASE present' = [present EXCEPT ![d] = @ + 1] /\ written' = [written EXCEPT ![d] = @ + 1]
    <3>1. present = [s \in Samples |-> present[s]] /\ written = [s \in Samples |-> written[s]]
      BY DEF SownTypes, SownTyped
    <3>2. \A s \in Samples : /\ present'[s] = IF s = d THEN present[s] + 1 ELSE present[s]
                             /\ written'[s] = IF s = d THEN written[s] + 1 ELSE written[s]
      BY <1>2, <2>3, <3>1
    <3>3. \A s \in Samples : present'[s] \in Nat /\ present'[s] <= written'[s]
      BY <2>1, <3>2
    <3>4. present' = [s \in Samples |-> present'[s]]
      BY <2>3, <3>1
    <3> QED BY <3>3, <3>4
  <2> QED BY <1>1, <2>2, <2>3
<1> QED BY <1>2, <1>4, <1>5, <1>6 DEF SownTypes

\* What the user does, and a crash.
LEMMA AroundTypes ==
    ASSUME SownTypes, SownTyped', MaxOwn \in Nat, Sown!MakeOwn \/ Sown!Discard \/ Sown!Crash
    PROVE  SownTypes'
<1>1. UNCHANGED <<written, lists>> /\ rushed' \subseteq {"overlap", "no marker"}
  BY DEF Sown!MakeOwn, Sown!Discard, Sown!Crash, Sown!Files, SownTypes
<1>2. \A t \in Listers : \/ lister'[t] = lister[t] /\ todo'[t] = todo[t]
                         \/ lister'[t] = "idle" /\ todo'[t] = {}
  BY DEF Sown!MakeOwn, Sown!Discard, Sown!Crash
<1>3. \A s \in Samples : Paid(s)'
  <2> TAKE s \in Samples
  <2>1. Owing(s)' \subseteq Owing(s)
    BY <1>2 DEF Owing
  <2> QED BY <1>1, <2>1, PaidStays DEF SownTypes, SownTyped
<1>4. \A t \in Listers : todo'[t] # {} => lister'[t] = "write"
  BY <1>2 DEF SownTypes
<1>5. own' \in Nat /\ owns' \in Nat /\ own' <= owns' /\ owns' <= MaxOwn
  <2>1. own \in Nat /\ owns \in Nat /\ own <= owns /\ owns <= MaxOwn
    BY DEF SownTypes
  <2>2. CASE Sown!MakeOwn
    <3>1. own' = own + 1 /\ owns' = owns + 1 /\ owns < MaxOwn
      BY <2>2 DEF Sown!MakeOwn
    <3> QED BY <2>1, <3>1
  <2>3. CASE Sown!Discard
    <3>1. ((own > 0 /\ own' = own - 1) \/ own' = own) /\ owns' = owns
      BY <2>3 DEF Sown!Discard
    <3> QED BY <2>1, <3>1
  <2>4. CASE Sown!Crash
    BY <2>1, <2>4 DEF Sown!Crash, Sown!Files
  <2> QED BY <2>2, <2>3, <2>4
<1>6. present' \in [Samples -> Nat] /\ \A s \in Samples : present'[s] <= written'[s]
  <2>1. \A s \in Samples : present[s] \in Nat /\ written[s] \in Nat /\ present[s] <= written[s]
    BY DEF SownTypes, SownTyped
  <2>2. present = [s \in Samples |-> present[s]]
    BY DEF SownTypes
  <2>3. CASE present' = present
    BY <1>1, <2>1, <2>2, <2>3
  <2>4. CASE \E s \in Samples : present[s] > 0 /\ present' = [present EXCEPT ![s] = @ - 1]
    <3>1. PICK d \in Samples : present[d] > 0 /\ present' = [present EXCEPT ![d] = @ - 1]
      BY <2>4
    <3>2. \A s \in Samples : present'[s] = IF s = d THEN present[s] - 1 ELSE present[s]
      BY <2>2, <3>1
    <3>3. \A s \in Samples : present'[s] \in Nat /\ present'[s] <= written'[s]
      <4> TAKE s \in Samples
      <4>1. present[s] \in Nat /\ written[s] \in Nat /\ present[s] <= written[s] /\ written'[s] = written[s]
        BY <1>1, <2>1
      <4>2. s = d => present[s] > 0
        BY <3>1
      <4> QED BY <3>2, <4>1, <4>2
    <3>4. present' = [s \in Samples |-> present'[s]]
      BY <2>2, <3>1
    <3> QED BY <3>3, <3>4
  <2> QED BY <2>3, <2>4 DEF Sown!MakeOwn, Sown!Discard, Sown!Crash, Sown!Files
<1> QED BY <1>1, <1>3, <1>4, <1>5, <1>6 DEF SownTypes

LEMMA SownTypesHold == Spec => []SownTypes
<1>1. Sown!SeedingConstants
  BY PartsAssumption
<1>2. Sown!Init => SownTypes
  BY <1>1, SownInitTypes
<1>3. SownTypes /\ SownInv /\ SownInv' /\ [Sown!Next]_Sown!seedingVars => SownTypes'
  <2> SUFFICES ASSUME SownTypes, SownInv', [Sown!Next]_Sown!seedingVars PROVE SownTypes'
    OBVIOUS
  <2>1. SownTyped' /\ MaxOwn \in Nat /\ MaxLists \in Nat
    BY <1>1 DEF SownInv, Sown!SeedingConstants
  <2>2. CASE UNCHANGED Sown!seedingVars
    BY <2>2 DEF Sown!seedingVars, SownTypes, SownTyped, Paid, Owing
  <2> QED BY <2>1, <2>2, BeginTypes, ListingTypes, WriteTypes, AroundTypes DEF Sown!Next
<1>4. Spec => []SownInv
  BY SownHolds
<1>5. Sown!Spec /\ []SownInv => []SownTypes
  BY <1>2, <1>3, PTL DEF Sown!Spec
<1> QED BY <1>4, <1>5, SownBehaves, PTL

---------------------------------------------------------------------------
(* The AI configuration.                                                   *)

\* A save under way that no other overlaps: its configuration is the stored
\* one, it sends what was touched, and only a key may come back masked.
Alone(a) ==
    /\ put[a].current = stored
    /\ put[a].body = put[a].meant
    /\ put[a].meant = [f \in DOMAIN put[a].meant |-> put[a].meant[f]]
    /\ DOMAIN put[a].meant \subseteq Chosen!Fields
    /\ \A f \in DOMAIN put[a].meant : put[a].meant[f] = Chosen!Masked => f \in Chosen!KeyFields

OneSave == \A a, b \in Admins : put[a] # Chosen!NoSave /\ put[b] # Chosen!NoSave => a = b

\* c holds the choices h, but for a provider that a key has brought.
Holds(c, h) == \A f \in Chosen!Fields : c[f] = h[f] \/ (f = "ai_provider" /\ h[f] = Empty)

ChosenTyped ==
    /\ put = [a \in Admins |-> put[a]]
    /\ together \in BOOLEAN

ChosenInv ==
    /\ ChosenTyped
    /\ ~together =>
        /\ OneSave /\ stored = [f \in Chosen!Fields |-> stored[f]] /\ Holds(stored, chosen)
        /\ \A a \in Admins : put[a] # Chosen!NoSave => Alone(a)

LEMMA ChosenInitEstablishes == Chosen!Init => ChosenInv
BY DEF Chosen!Init, ChosenInv, ChosenTyped, OneSave, Holds, Chosen!Nothing

LEMMA LoadKeeps ==
    ASSUME ChosenInv, NEW a \in Admins, Chosen!Load(a)
    PROVE  ChosenInv'
BY DEF Chosen!Load, ChosenInv, ChosenTyped, OneSave, Holds, Alone

\* A draft names fields of the form, and only the input of a key has a mask.
LEMMA DraftsAre ==
    ASSUME Chosen!SettingsConstants, NEW a \in Admins, NEW d \in Chosen!Drafts(a)
    PROVE  /\ d = [f \in DOMAIN d |-> d[f]] /\ DOMAIN d \subseteq Chosen!Fields
           /\ \A f \in DOMAIN d : d[f] = Chosen!Masked => f \in Chosen!KeyFields
<1>1. PICK fs \in SUBSET Chosen!Fields :
        /\ d \in [fs -> UNION {Chosen!Entries(a, f) : f \in fs}]
        /\ \A f \in fs : d[f] \in Chosen!Entries(a, f)
  BY DEF Chosen!Drafts
<1>2. ASSUME NEW f \in Chosen!Fields, f \notin Chosen!KeyFields PROVE Chosen!Masked \notin Chosen!Entries(a, f)
  <2>1. \A v \in Chosen!Values(f) \cup {Empty} : v # Chosen!Masked
    BY DEF Chosen!SettingsConstants
  <2>2. "ai_provider" \in Chosen!Fields /\ "ai_context_mode" \in Chosen!Fields
    BY DEF Chosen!Fields
  <2>3. Chosen!Values("ai_provider") = Chosen!Providers
    BY DEF Chosen!Values
  <2>4. f \in {"ai_provider", "ai_context_mode"}
    BY <1>2 DEF Chosen!Fields
  <2>5. f = "ai_context_mode" => Chosen!Values(f) = Plain
    BY <1>2 DEF Chosen!Values
  <2> QED BY <1>2, <2>1, <2>3, <2>4, <2>5 DEF Chosen!Entries, Chosen!ProviderEntries, Chosen!PlainEntries
<1> QED BY <1>1, <1>2

LEMMA SaveKeeps ==
    ASSUME Chosen!SettingsConstants, ChosenInv, NEW a \in Admins, Chosen!Save(a)
    PROVE  ChosenInv'
<1>1. PICK d \in Chosen!Drafts(a) :
        put' = [put EXCEPT ![a] = [body |-> d, meant |-> d, current |-> stored]]
  BY DEF Chosen!Save, Chosen!Body
<1>2. ChosenTyped'
  BY <1>1 DEF Chosen!Save, ChosenInv, ChosenTyped
<1>3. ASSUME ~together'
      PROVE  /\ OneSave' /\ stored' = [f \in Chosen!Fields |-> stored'[f]] /\ Holds(stored, chosen)'
             /\ \A b \in Admins : (put[b] # Chosen!NoSave => Alone(b))'
  <2>1. ~together /\ \A b \in Admins \ {a} : put[b] = Chosen!NoSave
    BY <1>3 DEF Chosen!Save, ChosenInv, ChosenTyped
  <2>2. /\ put'[a] = [body |-> d, meant |-> d, current |-> stored]
        /\ \A b \in Admins \ {a} : put'[b] = Chosen!NoSave
    BY <1>1, <2>1 DEF ChosenInv, ChosenTyped
  <2>3. Alone(a)'
    BY <2>2, DraftsAre DEF Alone, Chosen!Save
  <2>4. OneSave'
    BY <2>2 DEF OneSave
  <2>5. Holds(stored, chosen)' /\ stored' = [f \in Chosen!Fields |-> stored'[f]]
    BY <2>1 DEF ChosenInv, Holds, Chosen!Save
  <2> QED BY <2>2, <2>3, <2>4, <2>5
<1> QED BY <1>2, <1>3 DEF ChosenInv

\* The provider that comes with a key takes the place of none.
LEMMA AutoSwitchKeeps ==
    ASSUME Chosen!SettingsConstants, NEW q, NEW m, NEW h, Holds(m, h), m = [f \in Chosen!Fields |-> m[f]]
    PROVE  Holds(Chosen!AutoSwitch(q, m), h)
<1>1. m["ai_provider"] = Empty => h["ai_provider"] = Empty
  BY DEF Holds, Chosen!Fields
<1>2. CASE Chosen!AutoSwitch(q, m) = m
  BY <1>2
<1>3. CASE Chosen!AutoSwitch(q, m) # m
  <2>1. m["ai_provider"] = Empty
    BY <1>3 DEF Chosen!AutoSwitch
  <2>2. \A f \in Chosen!Fields : f # "ai_provider" => Chosen!AutoSwitch(q, m)[f] = m[f]
    BY DEF Chosen!AutoSwitch
  <2> QED BY <1>1, <2>1, <2>2 DEF Holds
<1> QED BY <1>2, <1>3

LEMMA AutoSwitchIsFunction ==
    ASSUME NEW q, NEW m, m = [f \in Chosen!Fields |-> m[f]]
    PROVE  Chosen!AutoSwitch(q, m) = [f \in Chosen!Fields |-> Chosen!AutoSwitch(q, m)[f]]
BY DEF Chosen!AutoSwitch

\* The fields touched get what was chosen of them, a mask what it stands for.
LEMMA UpdateKeeps ==
    ASSUME Chosen!SettingsConstants, ChosenInv, NEW a \in Admins, Chosen!Update(a)
    PROVE  ChosenInv'
<1> DEFINE q == put[a]
           m == Chosen!Over(Chosen!Incoming(q), q.current)
<1>1. stored' = Chosen!AutoSwitch(q, m)
  BY DEF Chosen!Update, Chosen!Merged
<1>2. ASSUME ~together
      PROVE  /\ stored' = [f \in Chosen!Fields |-> stored'[f]]
             /\ Holds(stored', chosen')
  <2>1. Alone(a) /\ Holds(stored, chosen) /\ stored = [f \in Chosen!Fields |-> stored[f]]
    BY <1>2 DEF ChosenInv, Chosen!Update
  <2>2. DOMAIN Chosen!Incoming(q) = DOMAIN q.meant
    BY <2>1 DEF Chosen!Incoming, Alone
  <2>3. m = [f \in Chosen!Fields |-> IF f \in DOMAIN q.meant THEN Chosen!Incoming(q)[f] ELSE stored[f]]
    <3>1. DOMAIN q.current = Chosen!Fields
      BY <2>1 DEF Alone
    <3>2. (DOMAIN Chosen!Incoming(q)) \cup (DOMAIN q.current) = Chosen!Fields
      BY <2>1, <2>2, <3>1 DEF Alone
    <3> QED BY <2>1, <2>2, <3>2 DEF Chosen!Over, Alone
  <2>4. \A f \in DOMAIN q.meant :
            Chosen!Incoming(q)[f] = IF q.meant[f] = Chosen!Masked THEN stored[f] ELSE q.meant[f]
    BY <2>1 DEF Chosen!Incoming, Alone
  <2>5. \A f \in Chosen!Fields :
            chosen'[f] = IF f \in DOMAIN q.meant /\ q.meant[f] # Chosen!Masked THEN q.meant[f] ELSE chosen[f]
    BY DEF Chosen!Update
  <2>6. Holds(m, chosen')
    <3> SUFFICES ASSUME NEW f \in Chosen!Fields
                 PROVE  m[f] = chosen'[f] \/ (f = "ai_provider" /\ chosen'[f] = Empty)
      BY DEF Holds
    <3>1. CASE f \in DOMAIN q.meant /\ q.meant[f] # Chosen!Masked
      BY <2>3, <2>4, <2>5, <3>1
    <3>2. CASE ~(f \in DOMAIN q.meant /\ q.meant[f] # Chosen!Masked)
      <4>1. m[f] = stored[f] /\ chosen'[f] = chosen[f]
        BY <2>3, <2>4, <2>5, <3>2
      <4> QED BY <2>1, <4>1 DEF Holds
    <3> QED BY <3>1, <3>2
  <2>7. m = [f \in Chosen!Fields |-> m[f]]
    BY <2>3
  <2> HIDE DEF m
  <2> QED BY <1>1, <2>6, <2>7, AutoSwitchKeeps, AutoSwitchIsFunction
<1>3. \A b \in Admins : put'[b] = IF b = a THEN Chosen!NoSave ELSE put[b]
  BY DEF Chosen!Update, ChosenInv, ChosenTyped
<1>4. ChosenTyped'
  BY DEF Chosen!Update, ChosenInv, ChosenTyped
<1>5. ~together => \A b \in Admins : put'[b] = Chosen!NoSave
  BY <1>3 DEF Chosen!Update, ChosenInv, OneSave
<1>6. together' = together
  BY DEF Chosen!Update
<1> HIDE DEF q, m
<1> QED BY <1>2, <1>4, <1>5, <1>6 DEF ChosenInv, OneSave, Holds

LEMMA ChosenInductive == Chosen!SettingsConstants /\ ChosenInv /\ [Chosen!Next]_Chosen!settingsVars => ChosenInv'
<1> SUFFICES ASSUME Chosen!SettingsConstants, ChosenInv, [Chosen!Next]_Chosen!settingsVars PROVE ChosenInv'
  OBVIOUS
<1>1. CASE UNCHANGED Chosen!settingsVars
  BY <1>1 DEF Chosen!settingsVars, ChosenInv, ChosenTyped, OneSave, Holds, Alone
<1>2. CASE Chosen!Next
  BY <1>2, LoadKeeps, SaveKeeps, UpdateKeeps DEF Chosen!Next
<1> QED BY <1>1, <1>2

\* A behaviour of the parts is one of AISettings: of what the other parts do
\* it shows nothing.
LEMMA ChosenBehaves == Spec => Chosen!Spec
<1>1. Init => Chosen!Init
  BY DEF Init
<1>2. [Next]_partsVars => [Chosen!Next]_(Chosen!settingsVars)
  <2>1. ChosenStep => Chosen!Next
    BY DEF ChosenStep
  <2>2. TabsStep \/ SavedStep \/ TalkStep \/ BoundStep \/ SownStep
        \/ FilesStep \/ DrawnStep \/ FoundStep
        \/ ListedStep \/ SignedStep \/ UNCHANGED partsVars => UNCHANGED Chosen!settingsVars
    BY DEF TabsStep, SavedStep, TalkStep, BoundStep,
           SownStep, FilesStep, DrawnStep, FoundStep,
           ListedStep, SignedStep, partsVars, chosenVars, Chosen!settingsVars
  <2> QED BY <2>1, <2>2 DEF Next
<1> QED BY <1>1, <1>2, PTL DEF Spec, Chosen!Spec

LEMMA ChosenHolds == Spec => []ChosenInv
<1>1. Chosen!SettingsConstants
  BY PartsAssumption
<1>2. Chosen!Init => ChosenInv
  BY <1>1, ChosenInitEstablishes
<1>3. ChosenInv /\ [Chosen!Next]_(Chosen!settingsVars) => ChosenInv'
  BY <1>1, ChosenInductive
<1> QED BY <1>2, <1>3, ChosenBehaves, PTL DEF Chosen!Spec

\* Unless two saves overlap, update_ai_config leaves every field as the last
\* administrator who touched it has it, and the provider chosen answers where
\* its key is; where it does not, the banner of the page says so.
THEOREM SettingsChoicesStand == Spec => []ChoicesStand
<1>1. ChosenInv => ChoicesStand
  <2> SUFFICES ASSUME ChosenInv, ~together PROVE Chosen!ChoicesStand
    BY DEF ChoicesStand, Chosen!ChoicesStand
  <2>1. Holds(stored, chosen)
    BY DEF ChosenInv
  <2>2. ASSUME NEW p \in Chosen!Providers, chosen["ai_provider"] = p
        PROVE  IF chosen[Chosen!KeyOf(p)] # Empty THEN Chosen!Answering(stored) = p ELSE Chosen!Warns(stored)
    <3>1. "ai_provider" \in Chosen!Fields /\ Chosen!KeyOf(p) \in Chosen!Fields /\ Chosen!KeyOf(p) # "ai_provider"
      BY DEF Chosen!Fields, Chosen!KeyFields, Chosen!KeyOf
    <3>2. Chosen!Values("ai_provider") = Chosen!Providers
      BY DEF Chosen!Values
    <3>3. p # Empty
      BY <3>1, <3>2, PartsAssumption DEF Chosen!SettingsConstants
    <3>4. stored["ai_provider"] = p /\ stored[Chosen!KeyOf(p)] = chosen[Chosen!KeyOf(p)]
      BY <2>1, <2>2, <3>1, <3>3 DEF Holds
    <3> QED BY <3>3, <3>4 DEF Chosen!Answering, Chosen!Warns
  <2> QED BY <2>1, <2>2 DEF Chosen!ChoicesStand, Holds
<1> QED BY <1>1, ChosenHolds, PTL

---------------------------------------------------------------------------
(* The types of the AI configuration, and of what is sent of it.           *)

IsConfiguration(c) ==
    /\ c = [f \in Chosen!Fields |-> c[f]]
    /\ \A f \in Chosen!Fields : c[f] \in Chosen!Values(f) \cup {Empty}

IsDraft(d) ==
    /\ d = [f \in DOMAIN d |-> d[f]] /\ DOMAIN d \subseteq Chosen!Fields
    /\ \A f \in DOMAIN d : d[f] \in Chosen!Values(f) \cup {Empty}
                           \/ (d[f] = Chosen!Masked /\ f \in Chosen!KeyFields)

IsAnswer(c) == \A f \in Chosen!Fields :
    c[f] \in {Empty} \cup (IF f \in Chosen!KeyFields THEN {Chosen!Masked} ELSE Chosen!Values(f))

ChosenTypes ==
    /\ IsConfiguration(stored)
    /\ seen = [a \in Admins |-> seen[a]] /\ \A a \in Admins : IsAnswer(seen[a])
    /\ put = [a \in Admins |-> put[a]]
    /\ \A a \in Admins : put[a] # Chosen!NoSave =>
            put[a].body = put[a].meant /\ IsDraft(put[a].meant) /\ IsConfiguration(put[a].current)
    /\ saves \in 0 .. MaxSaves

LEMMA ChosenTypesSuffice == ChosenTypes => Chosen!TypeOK
<1> SUFFICES ASSUME ChosenTypes PROVE Chosen!TypeOK
  OBVIOUS
<1>1. \A a \in Admins : DOMAIN put[a].meant \subseteq DOMAIN put[a].body
  BY DEF ChosenTypes, Chosen!NoSave
<1> QED BY <1>1 DEF ChosenTypes, IsConfiguration, IsAnswer, Chosen!TypeOK

LEMMA ChosenInitTypes == Chosen!SettingsConstants /\ Chosen!Init => ChosenTypes
<1> SUFFICES ASSUME Chosen!SettingsConstants, Chosen!Init PROVE ChosenTypes
  OBVIOUS
<1>1. IsConfiguration(Chosen!Nothing) /\ IsAnswer(Chosen!Nothing)
  BY DEF IsConfiguration, IsAnswer, Chosen!Nothing
<1>2. saves = 0 /\ MaxSaves \in Nat
  BY DEF Chosen!Init, Chosen!SettingsConstants
<1>3. saves \in 0 .. MaxSaves
  BY <1>2
<1> QED BY <1>1, <1>3 DEF Chosen!Init, ChosenTypes

LEMMA LoadTypes ==
    ASSUME ChosenTypes, NEW a \in Admins, Chosen!Load(a)
    PROVE  ChosenTypes'
<1>1. IsAnswer(Chosen!Answered(stored))
  BY DEF ChosenTypes, IsConfiguration, IsAnswer, Chosen!Answered
<1>2. seen' = [seen EXCEPT ![a] = Chosen!Answered(stored)]
  BY DEF Chosen!Load
<1>3. seen' = [b \in Admins |-> seen'[b]] /\ \A b \in Admins : IsAnswer(seen'[b])
  BY <1>1, <1>2 DEF ChosenTypes
<1> QED BY <1>3 DEF Chosen!Load, ChosenTypes

LEMMA EntriesAreDrafts ==
    ASSUME NEW a \in Admins, NEW d \in Chosen!Drafts(a)
    PROVE  IsDraft(d)
<1>1. PICK fs \in SUBSET Chosen!Fields :
        /\ d \in [fs -> UNION {Chosen!Entries(a, f) : f \in fs}]
        /\ \A f \in fs : d[f] \in Chosen!Entries(a, f)
  BY DEF Chosen!Drafts
<1>2. ASSUME NEW f \in Chosen!Fields, NEW v \in Chosen!Entries(a, f)
      PROVE  v \in Chosen!Values(f) \cup {Empty} \/ (v = Chosen!Masked /\ f \in Chosen!KeyFields)
  BY <1>2 DEF Chosen!Entries, Chosen!ProviderEntries, Chosen!PlainEntries, Chosen!KeyEntries, Chosen!Values,
             Chosen!Fields
<1> QED BY <1>1, <1>2 DEF IsDraft

LEMMA SaveTypes ==
    ASSUME Chosen!SettingsConstants, ChosenTypes, NEW a \in Admins, Chosen!Save(a)
    PROVE  ChosenTypes'
<1>1. PICK d \in Chosen!Drafts(a) :
        put' = [put EXCEPT ![a] = [body |-> d, meant |-> d, current |-> stored]]
  BY DEF Chosen!Save, Chosen!Body
<1>2. IsDraft(d)
  BY EntriesAreDrafts
<1>3. \A b \in Admins : put'[b] = IF b = a THEN [body |-> d, meant |-> d, current |-> stored] ELSE put[b]
  BY <1>1 DEF ChosenTypes
<1>4. put' = [b \in Admins |-> put'[b]]
  BY <1>1 DEF ChosenTypes
<1>5. saves' \in 0 .. MaxSaves
  <2>1. saves \in 0 .. MaxSaves /\ saves' = saves + 1 /\ saves < MaxSaves
    BY DEF Chosen!Save, ChosenTypes
  <2>2. MaxSaves \in Nat
    BY DEF Chosen!SettingsConstants
  <2> QED BY <2>1, <2>2
<1>6. UNCHANGED <<stored, seen>>
  BY DEF Chosen!Save
<1> QED BY <1>2, <1>3, <1>4, <1>5, <1>6 DEF ChosenTypes

LEMMA AutoSwitchTypes ==
    ASSUME NEW q, NEW m, IsConfiguration(m)
    PROVE  IsConfiguration(Chosen!AutoSwitch(q, m))
<1>1. {"anthropic", "openai"} \subseteq Chosen!Values("ai_provider") /\ "ai_provider" \in Chosen!Fields
  BY DEF Chosen!Values, Chosen!Providers, Chosen!Fields
<1>2. PICK p \in {"anthropic", "openai"} :
        Chosen!AutoSwitch(q, m) = m \/ Chosen!AutoSwitch(q, m) = [m EXCEPT !["ai_provider"] = p]
  BY DEF Chosen!AutoSwitch
<1>3. \A f \in Chosen!Fields : [m EXCEPT !["ai_provider"] = p][f] = IF f = "ai_provider" THEN p ELSE m[f]
  BY DEF IsConfiguration
<1>4. IsConfiguration([m EXCEPT !["ai_provider"] = p])
  BY <1>1, <1>3 DEF IsConfiguration
<1> QED BY <1>2, <1>4

LEMMA UpdateTypes ==
    ASSUME ChosenTypes, NEW a \in Admins, Chosen!Update(a)
    PROVE  ChosenTypes'
<1> DEFINE q == put[a]
           m == Chosen!Over(Chosen!Incoming(q), q.current)
<1>1. stored' = Chosen!AutoSwitch(q, m)
  BY DEF Chosen!Update, Chosen!Merged
<1>2. q.body = q.meant /\ IsDraft(q.meant) /\ IsConfiguration(q.current)
  BY DEF Chosen!Update, ChosenTypes
<1>3. DOMAIN Chosen!Incoming(q) = DOMAIN q.meant
      /\ \A f \in DOMAIN q.meant : Chosen!Incoming(q)[f] \in Chosen!Values(f) \cup {Empty}
  BY <1>2 DEF Chosen!Incoming, IsDraft, IsConfiguration
<1>4. (DOMAIN Chosen!Incoming(q)) \cup (DOMAIN q.current) = Chosen!Fields
  BY <1>2, <1>3 DEF IsDraft, IsConfiguration
<1>5. m = [f \in Chosen!Fields |-> IF f \in DOMAIN q.meant THEN Chosen!Incoming(q)[f] ELSE q.current[f]]
  BY <1>3, <1>4 DEF Chosen!Over
<1>6. IsConfiguration(m)
  BY <1>2, <1>3, <1>5 DEF IsConfiguration
<1>7. put' = [b \in Admins |-> put'[b]] /\ \A b \in Admins : put'[b] = IF b = a THEN Chosen!NoSave ELSE put[b]
  BY DEF Chosen!Update, ChosenTypes
<1>8. UNCHANGED <<seen, saves>>
  BY DEF Chosen!Update
<1> HIDE DEF q, m
<1>9. IsConfiguration(stored')
  BY <1>1, <1>6, AutoSwitchTypes
<1> QED BY <1>7, <1>8, <1>9 DEF ChosenTypes

LEMMA ChosenTypesHold == Spec => []ChosenTypes
<1>1. Chosen!SettingsConstants
  BY PartsAssumption
<1>2. Chosen!Init => ChosenTypes
  BY <1>1, ChosenInitTypes
<1>3. ChosenTypes /\ [Chosen!Next]_Chosen!settingsVars => ChosenTypes'
  <2>1. ASSUME ChosenTypes, UNCHANGED Chosen!settingsVars PROVE ChosenTypes'
    BY <2>1 DEF Chosen!settingsVars, ChosenTypes
  <2> QED BY <1>1, <2>1, LoadTypes, SaveTypes, UpdateTypes DEF Chosen!Next
<1>4. Chosen!Spec => []ChosenTypes
  BY <1>2, <1>3, PTL DEF Chosen!Spec
<1> QED BY <1>4, ChosenBehaves, PTL

---------------------------------------------------------------------------
(* The types of a cell's chart.                                            *)

OfferedTypes == ChartTypes \cup {"time_series", "area", "line", "bar", "donut", "scatter", "histogram", "kpi"}

IsChart(c) ==
    /\ c.type \in OfferedTypes
    /\ c = [type |-> c.type, x |-> c.x, y |-> c.y, color |-> c.color, agg |-> c.agg, title |-> c.title]

DrawnTypes ==
    /\ result \in Results /\ IsChart(config)
    /\ mode \in {"grid", "full", "custom"} /\ page \in Nat /\ picked \in BOOLEAN
    /\ canvas # NoChart => Drawn!Mounted(mode, config)

\* A recommendation is a chart, and there are finitely many of them.
LEMMA SetsOfCharts ==
    ASSUME NEW r
    PROVE  \A d \in Drawn!Candidates(r) : IsChart(d.chart)
<1>1. \A type \in OfferedTypes : \A x, y, agg : IsChart(Drawn!Chart(type, x, y, agg))
  BY DEF IsChart, Drawn!Chart
<1>2. \A c, v : IsChart(c) => IsChart([c EXCEPT !.color = v])
  BY DEF IsChart
<1>3. \A s, c : Drawn!Rated(s, c).chart = c
  BY DEF Drawn!Rated
<1>4. {"time_series", "area", "line", "bar", "donut", "scatter", "histogram", "kpi"} \subseteq OfferedTypes
  BY DEF OfferedTypes
<1>5. \A times, low, numbers : \A d \in Drawn!TimeCharts(r, times, low, numbers) : IsChart(d.chart)
  BY <1>1, <1>2, <1>3, <1>4 DEF Drawn!TimeCharts
<1>6. \A low, mid, numbers : \A d \in Drawn!CategoryCharts(r, low, mid, numbers) : IsChart(d.chart)
  BY <1>1, <1>2, <1>3, <1>4 DEF Drawn!CategoryCharts
<1>7. \A times, low, numbers : \A d \in Drawn!NumberCharts(r, times, low, numbers) : IsChart(d.chart)
  BY <1>1, <1>2, <1>3, <1>4 DEF Drawn!NumberCharts
<1> QED BY <1>1, <1>3, <1>4, <1>5, <1>6, <1>7 DEF Drawn!Candidates

LEMMA FinitelyMany ==
    ASSUME NEW r
    PROVE  IsFiniteSet(Drawn!Candidates(r))
<1>1. IsFiniteSet({}) /\ \A x : IsFiniteSet({x})
  BY FS_EmptySet, FS_Singleton
<1>2. \A S, T : IsFiniteSet(S) /\ IsFiniteSet(T) => IsFiniteSet(S \cup T)
  BY FS_Union
<1>3. \A times, low, numbers : IsFiniteSet(Drawn!TimeCharts(r, times, low, numbers))
  BY <1>1, <1>2 DEF Drawn!TimeCharts
<1>4. \A low, mid, numbers : IsFiniteSet(Drawn!CategoryCharts(r, low, mid, numbers))
  BY <1>1, <1>2 DEF Drawn!CategoryCharts
<1>5. \A times, low, numbers : IsFiniteSet(Drawn!NumberCharts(r, times, low, numbers))
  BY <1>1, <1>2 DEF Drawn!NumberCharts
<1> QED BY <1>1, <1>2, <1>3, <1>4, <1>5 DEF Drawn!Candidates

LEMMA PageExists ==
    ASSUME Drawn!ChartsConstants, NEW r, NEW n \in Nat
    PROVE  n % Drawn!Pages(r) \in Nat
<1>1. PageSize \in Nat \ {0}
  BY DEF Drawn!ChartsConstants
<1>2. Cardinality(Drawn!Candidates(r)) \in Nat
  BY FinitelyMany, FS_CardinalityType
<1>3. Drawn!Candidates(r) # {} => Cardinality(Drawn!Candidates(r)) # 0
  BY FinitelyMany, FS_EmptySet
<1>4. Cardinality(Drawn!Candidates(r)) = Drawn!Cardinality(Drawn!Candidates(r))
  BY DEF Cardinality, Drawn!Cardinality
<1>5. \A k \in Nat : k \div PageSize \in Nat
  BY <1>1
<1>6. Drawn!Pages(r) \in Nat \ {0}
  <2>1. CASE Drawn!Candidates(r) = {}
    BY <2>1 DEF Drawn!Pages
  <2>2. CASE Drawn!Candidates(r) # {}
    <3>1. PICK k \in Nat : k = Cardinality(Drawn!Candidates(r)) - 1
      BY <1>2, <1>3, <2>2
    <3>2. Drawn!Pages(r) = 1 + (k \div PageSize)
      BY <1>4, <2>2, <3>1 DEF Drawn!Pages
    <3> QED BY <1>5, <3>2
  <2> QED BY <2>1, <2>2
<1>7. \A k \in Nat \ {0} : n % k \in Nat
  OBVIOUS
<1> QED BY <1>6, <1>7

\* What a rendering draws stands on a chart that is mounted.
LEMMA RenderedTypes ==
    ASSUME NEW r \in Results, NEW c, IsChart(c), NEW m \in {"grid", "full", "custom"},
           Drawn!Rendered(r, c, m), page' \in Nat, picked' \in BOOLEAN
    PROVE  DrawnTypes'
<1>1. result' = r /\ config' = c /\ mode' = m
  BY DEF Drawn!Rendered
<1>2. canvas' # NoChart => Drawn!Mounted(m, c)
  BY DEF Drawn!Rendered
<1>3. Drawn!Mounted(mode, config)' <=> Drawn!Mounted(m, c)
  BY <1>1 DEF Drawn!Mounted, Drawn!Unconfigured
<1> QED BY <1>1, <1>2, <1>3 DEF DrawnTypes, IsChart

LEMMA DrawnInitTypes == Drawn!Init => DrawnTypes
<1> SUFFICES ASSUME Drawn!Init PROVE DrawnTypes
  OBVIOUS
<1>1. IsChart(Drawn!DefaultChart)
  BY DEF IsChart, Drawn!DefaultChart, OfferedTypes
<1> QED BY <1>1 DEF Drawn!Init, DrawnTypes

LEMMA DrawnStepTypes ==
    ASSUME Drawn!ChartsConstants, DrawnTypes, Drawn!Next
    PROVE  DrawnTypes'
<1>0. result \in Results /\ IsChart(config) /\ mode \in {"grid", "full", "custom"} /\ page \in Nat /\ picked \in BOOLEAN
  BY DEF DrawnTypes
<1>1. CASE Drawn!Run
  <2>1. PICK r \in Results : Drawn!Rendered(r, config, mode)
    BY <1>1 DEF Drawn!Run
  <2>2. page' \in Nat /\ picked' \in BOOLEAN
    BY <1>0, <1>1 DEF Drawn!Run
  <2> QED BY <1>0, <2>1, <2>2, RenderedTypes
<1>2. CASE Drawn!Reopen
  <2>1. PICK m \in {"grid", "full"} : mode' = m /\ (canvas' # NoChart => Drawn!Mounted(m, config))
    BY <1>2 DEF Drawn!Reopen
  <2>2. UNCHANGED <<result, config, picked>> /\ page' = 0
    BY <1>2 DEF Drawn!Reopen
  <2>3. Drawn!Mounted(mode, config)' <=> Drawn!Mounted(m, config)
    BY <2>1, <2>2 DEF Drawn!Mounted, Drawn!Unconfigured
  <2> QED BY <1>0, <2>1, <2>2, <2>3 DEF DrawnTypes, IsChart
<1>3. CASE Drawn!AnotherSet
  <2>1. page' \in Nat
    <3>1. page' = (page + 1) % Drawn!Pages(result) /\ page + 1 \in Nat
      BY <1>0, <1>3 DEF Drawn!AnotherSet
    <3> QED BY <3>1, PageExists
  <2>2. UNCHANGED <<result, config, mode, canvas, picked>>
    BY <1>3 DEF Drawn!AnotherSet
  <2> QED BY <2>1, <2>2 DEF DrawnTypes, IsChart, Drawn!Mounted, Drawn!Unconfigured
<1>4. CASE Drawn!Pick
  <2>1. PICK d \in Drawn!Candidates(result) : Drawn!Rendered(result, d.chart, "full")
    BY <1>4 DEF Drawn!Pick
  <2>2. page' \in Nat /\ picked' \in BOOLEAN
    BY <1>0, <1>4 DEF Drawn!Pick
  <2>3. IsChart(d.chart)
    BY SetsOfCharts
  <2> QED BY <1>0, <2>1, <2>2, <2>3, RenderedTypes
<1>5. CASE Drawn!SetMode
  <2>1. PICK m \in {"grid", "custom"} : Drawn!Rendered(result, config, m)
    BY <1>5 DEF Drawn!SetMode
  <2>2. page' \in Nat /\ picked' \in BOOLEAN
    BY <1>0, <1>5 DEF Drawn!SetMode
  <2> QED BY <1>0, <2>1, <2>2, RenderedTypes
<1>6. CASE Drawn!Build
  <2>1. PICK c : /\ \/ \E t \in ChartTypes : c = [config EXCEPT !.type = t]
                    \/ \E v : c \in {[config EXCEPT !.x = v], [config EXCEPT !.y = v], [config EXCEPT !.agg = v]}
                 /\ Drawn!Rendered(result, c, mode)
    BY <1>6 DEF Drawn!Build
  <2>2. page' \in Nat /\ picked' \in BOOLEAN
    BY <1>0, <1>6 DEF Drawn!Build
  <2>3. IsChart(c)
    BY <1>0, <2>1 DEF IsChart, OfferedTypes
  <2> QED BY <1>0, <2>1, <2>2, <2>3, RenderedTypes
<1>7. CASE Drawn!Rename
  <2>1. PICK t : Drawn!Rendered(result, [config EXCEPT !.title = t], mode)
    BY <1>7 DEF Drawn!Rename
  <2>2. page' \in Nat /\ picked' \in BOOLEAN
    BY <1>0, <1>7 DEF Drawn!Rename
  <2>3. IsChart([config EXCEPT !.title = t])
    BY <1>0 DEF IsChart
  <2> QED BY <1>0, <2>1, <2>2, <2>3, RenderedTypes
<1> QED BY <1>1, <1>2, <1>3, <1>4, <1>5, <1>6, <1>7 DEF Drawn!Next

LEMMA DrawnBehaves == Spec => Drawn!Spec
<1>1. Init => Drawn!Init
  BY DEF Init
<1>2. [Next]_partsVars => [Drawn!Next]_(Drawn!chartsVars)
  <2>1. DrawnStep => Drawn!Next
    BY DEF DrawnStep
  <2>2. TabsStep \/ SavedStep \/ TalkStep \/ BoundStep \/ SownStep
        \/ FilesStep \/ FoundStep \/ ChosenStep
        \/ ListedStep \/ SignedStep \/ UNCHANGED partsVars => UNCHANGED Drawn!chartsVars
    BY DEF TabsStep, SavedStep, TalkStep, BoundStep,
           SownStep, FilesStep, FoundStep, ChosenStep,
           ListedStep, SignedStep, partsVars, drawnVars, Drawn!chartsVars
  <2> QED BY <2>1, <2>2 DEF Next
<1> QED BY <1>1, <1>2, PTL DEF Spec, Drawn!Spec

LEMMA DrawnTypesHold == Spec => []DrawnTypes
<1>1. Drawn!ChartsConstants
  BY PartsAssumption
<1>2. DrawnTypes /\ [Drawn!Next]_(Drawn!chartsVars) => DrawnTypes'
  <2>1. ASSUME DrawnTypes, UNCHANGED Drawn!chartsVars PROVE DrawnTypes'
    BY <2>1 DEF Drawn!chartsVars, DrawnTypes, IsChart, Drawn!Mounted, Drawn!Unconfigured
  <2> QED BY <1>1, <2>1, DrawnStepTypes
<1> QED BY <1>2, DrawnInitTypes, DrawnBehaves, PTL DEF Drawn!Spec

---------------------------------------------------------------------------
(* The canvas.                                                             *)

\* A mounted chart shows the result as its configuration has it, up to the
\* title, which the option is not memoised by.
CanvasIsCurrent ==
    IF Drawn!Mounted(mode, config)
    THEN \E t : canvas = Drawn!Option(result, [config EXCEPT !.title = t])
    ELSE canvas = NoChart

\* Configurations with one key differ in their titles only.
LEMMA KeyDetermines ==
    ASSUME NEW c, NEW d, NEW t, IsChart(c), IsChart(d), Drawn!Key(c) = Drawn!Key(d)
    PROVE  [c EXCEPT !.title = t] = [d EXCEPT !.title = t]
<1>1. c.type = d.type /\ c.x = d.x /\ c.y = d.y /\ c.color = d.color /\ c.agg = d.agg
  BY DEF Drawn!Key
<1>2. [c EXCEPT !.title = t] = [type |-> c.type, x |-> c.x, y |-> c.y, color |-> c.color, agg |-> c.agg, title |-> t]
  BY DEF IsChart
<1>3. [d EXCEPT !.title = t] = [type |-> d.type, x |-> d.x, y |-> d.y, color |-> d.color, agg |-> d.agg, title |-> t]
  BY DEF IsChart
<1> QED BY <1>1, <1>2, <1>3

LEMMA OwnTitle ==
    ASSUME NEW c, IsChart(c)
    PROVE  [c EXCEPT !.title = c.title] = c
BY DEF IsChart

LEMMA RenderedIsCurrent ==
    ASSUME DrawnTypes, CanvasIsCurrent, NEW r, NEW c, IsChart(c), NEW m, Drawn!Rendered(r, c, m)
    PROVE  CanvasIsCurrent'
<1>1. result' = r /\ config' = c /\ mode' = m
  BY DEF Drawn!Rendered
<1>2. Drawn!Mounted(mode, config)' <=> Drawn!Mounted(m, c)
  BY <1>1 DEF Drawn!Mounted, Drawn!Unconfigured
<1>3. SUFFICES IF Drawn!Mounted(m, c) THEN \E t : canvas' = Drawn!Option(r, [c EXCEPT !.title = t])
               ELSE canvas' = NoChart
  BY <1>1, <1>2 DEF CanvasIsCurrent, Drawn!Option, Drawn!KPI, Drawn!Series
<1>4. CASE ~Drawn!Mounted(m, c)
  BY <1>4 DEF Drawn!Rendered
<1>5. CASE Drawn!Mounted(m, c) /\ Drawn!Mounted(mode, config) /\ m = mode /\ r = result
           /\ Drawn!Key(c) = Drawn!Key(config)
  <2>1. PICK t : canvas = Drawn!Option(result, [config EXCEPT !.title = t])
    BY <1>5 DEF CanvasIsCurrent
  <2>2. [c EXCEPT !.title = t] = [config EXCEPT !.title = t]
    BY <1>5, KeyDetermines DEF DrawnTypes
  <2>3. canvas' = canvas
    BY <1>5 DEF Drawn!Rendered
  <2> QED BY <1>5, <2>1, <2>2, <2>3
<1>6. CASE Drawn!Mounted(m, c) /\ ~(Drawn!Mounted(mode, config) /\ m = mode /\ r = result
           /\ Drawn!Key(c) = Drawn!Key(config))
  <2>1. canvas' = Drawn!Option(r, c)
    BY <1>6 DEF Drawn!Rendered
  <2> QED BY <1>6, <2>1, OwnTitle
<1> QED BY <1>4, <1>5, <1>6

LEMMA CanvasStays ==
    ASSUME CanvasIsCurrent, UNCHANGED <<result, config, mode, canvas>>
    PROVE  CanvasIsCurrent'
BY DEF CanvasIsCurrent, Drawn!Mounted, Drawn!Unconfigured

LEMMA CanvasStep ==
    ASSUME DrawnTypes, CanvasIsCurrent, Drawn!Next
    PROVE  CanvasIsCurrent'
<1>1. IsChart(config) /\ \A t : IsChart([config EXCEPT !.title = t])
  BY DEF DrawnTypes, IsChart
<1>2. CASE Drawn!AnotherSet
  BY <1>2, CanvasStays DEF Drawn!AnotherSet
<1>3. CASE Drawn!Reopen
  <2>1. PICK m : /\ UNCHANGED <<result, config>> /\ mode' = m
                 /\ canvas' = IF Drawn!Mounted(m, config) THEN Drawn!Option(result, config) ELSE NoChart
    BY <1>3 DEF Drawn!Reopen
  <2>2. Drawn!Mounted(mode, config)' <=> Drawn!Mounted(m, config)
    BY <2>1 DEF Drawn!Mounted, Drawn!Unconfigured
  <2> QED BY <1>1, <2>1, <2>2, OwnTitle DEF CanvasIsCurrent
<1>4. CASE Drawn!Run \/ Drawn!SetMode \/ Drawn!Rename
  BY <1>1, <1>4, RenderedIsCurrent DEF Drawn!Run, Drawn!SetMode, Drawn!Rename
<1>5. CASE Drawn!Pick
  BY <1>5, SetsOfCharts, RenderedIsCurrent DEF Drawn!Pick
<1>6. CASE Drawn!Build
  <2>1. PICK c : /\ \/ \E t \in ChartTypes : c = [config EXCEPT !.type = t]
                    \/ \E v : c \in {[config EXCEPT !.x = v], [config EXCEPT !.y = v], [config EXCEPT !.agg = v]}
                 /\ Drawn!Rendered(result, c, mode)
    BY <1>6 DEF Drawn!Build
  <2>2. IsChart(c)
    BY <1>1, <2>1 DEF IsChart, OfferedTypes
  <2> QED BY <2>1, <2>2, RenderedIsCurrent
<1> QED BY <1>2, <1>3, <1>4, <1>5, <1>6 DEF Drawn!Next

\* However a cell is run, reopened, picked for, built and renamed, useMemo
\* never leaves on the canvas what an earlier result or configuration gave.
THEOREM ChartsCanvasIsCurrent == Spec => []CanvasIsCurrent
<1>1. Drawn!Init => CanvasIsCurrent
  BY DEF Drawn!Init, CanvasIsCurrent, Drawn!Mounted
<1>2. DrawnTypes /\ CanvasIsCurrent /\ [Drawn!Next]_(Drawn!chartsVars) => CanvasIsCurrent'
  <2>1. ASSUME CanvasIsCurrent, UNCHANGED Drawn!chartsVars PROVE CanvasIsCurrent'
    BY <2>1, CanvasStays DEF Drawn!chartsVars
  <2> QED BY <2>1, CanvasStep
<1>3. Drawn!Spec /\ []DrawnTypes => []CanvasIsCurrent
  BY <1>1, <1>2, PTL DEF Drawn!Spec
<1> QED BY <1>3, DrawnTypesHold, DrawnBehaves, PTL

---------------------------------------------------------------------------
(* Sums over finite sets.                                                  *)

\* Of some subsets of a finite set, one contains none of the others.
LEMMA SmallestSubset ==
    ASSUME NEW S, IsFiniteSet(S), NEW L, L \subseteq SUBSET S, L # {}
    PROVE  \E T \in L : \A U \in SUBSET T : U \in L => U = T
<1>1. IsWellFoundedOn(StrictSubsetOrdering(S), SUBSET S)
  BY FS_StrictSubsetOrderingWellFounded, FS_FiniteSubsetsOfFinite
<1>2. \E T \in L : \A U \in L : ~ (<<U, T>> \in StrictSubsetOrdering(S))
  BY <1>1, WFMin
<1> QED BY <1>2 DEF StrictSubsetOrdering

\* A family has every subset of a finite set if it has those whose smaller ones it has.
LEMMA SubsetsInduction ==
    ASSUME NEW S, IsFiniteSet(S), NEW F,
           \A T \in SUBSET S : (\A U \in SUBSET T : U # T => U \in F) => T \in F
    PROVE  SUBSET S \subseteq F
<1> DEFINE L == (SUBSET S) \ F
<1>1. SUFFICES ASSUME L # {} PROVE FALSE
  OBVIOUS
<1>2. \E T \in L : \A U \in SUBSET T : U \in L => U = T
  <2>1. L \subseteq SUBSET S
    OBVIOUS
  <2> HIDE DEF L
  <2> QED BY <1>1, <2>1, SmallestSubset
<1> QED BY <1>2

\* The member with which a sum over T begins, and what is left of T.
StartOf(T) == CHOOSE x \in T : TRUE
OthersOf(T) == T \ {StartOf(T)}

LEMMA StartIsIn ==
    ASSUME NEW T, T # {}
    PROVE  /\ StartOf(T) \in T /\ OthersOf(T) \subseteq T /\ OthersOf(T) # T
           /\ T = OthersOf(T) \cup {StartOf(T)} /\ StartOf(T) \notin OthersOf(T)
BY DEF StartOf, OthersOf

LEMMA FewerWithout ==
    ASSUME NEW T, IsFiniteSet(T), T # {}
    PROVE  /\ IsFiniteSet(OthersOf(T)) /\ Cardinality(T) \in Nat
           /\ Cardinality(OthersOf(T)) = Cardinality(T) - 1 /\ Cardinality(OthersOf(T)) \in Nat
BY StartIsIn, FS_RemoveElement, FS_CardinalityType DEF OthersOf

IntegersOn(f, S) == \A x \in S : f[x] \in Int

\* What g has to be at T to be a sum of f, and Total's own recursive function.
Begun(g, T, f) == IF T = {} THEN 0 ELSE f[StartOf(T)] + g[OthersOf(T)]

IsSum(g, S, f) == g = [T \in SUBSET S |-> Begun(g, T, f)]

LEMMA SumIs ==
    ASSUME NEW S, NEW f
    PROVE  Drawn!Total(S, f) = (CHOOSE g : IsSum(g, S, f))[S]
BY DEF Drawn!Total, Drawn!MapThenSumSet, Drawn!MapThenFoldSet, IsSum, Begun, StartOf, OthersOf

\* There is such a function: it is found one cardinality after the other.
UpTo(n, S) == {T \in SUBSET S : Cardinality(T) <= n}

LEMMA SumExists ==
    ASSUME NEW S, IsFiniteSet(S), NEW f, IntegersOn(f, S)
    PROVE  \E g \in [SUBSET S -> Int] : IsSum(g, S, f)
<1> DEFINE Sums(n) == \E g \in [UpTo(n, S) -> Int] : \A T \in UpTo(n, S) : g[T] = Begun(g, T, f)
           F == {T \in SUBSET S : Sums(Cardinality(T))}
<1>1. \A T \in SUBSET S : IsFiniteSet(T) /\ Cardinality(T) \in Nat /\ Cardinality(T) <= Cardinality(S)
  BY FS_Subset, FS_CardinalityType
<1>2. ASSUME NEW T \in SUBSET S, \A U \in SUBSET T : U # T => U \in F PROVE T \in F
  <2>1. CASE T = {}
    <3>1. Cardinality(T) = 0
      BY <2>1, FS_EmptySet
    <3>2. UpTo(0, S) = {{}}
      BY <1>1, FS_EmptySet DEF UpTo
    <3> DEFINE g == [U \in UpTo(0, S) |-> 0]
    <3>3. g \in [UpTo(0, S) -> Int] /\ \A U \in UpTo(0, S) : g[U] = Begun(g, U, f)
      BY <3>2 DEF Begun
    <3> QED BY <3>1, <3>3
  <2>2. CASE T # {}
    <3> DEFINE n == Cardinality(OthersOf(T))
    <3>1. n \in Nat /\ Cardinality(T) = n + 1
      BY <1>1, <2>2, FewerWithout
    <3>2. Sums(n)
      BY <1>2, <2>2, StartIsIn
    <3>3. PICK h \in [UpTo(n, S) -> Int] : \A U \in UpTo(n, S) : h[U] = Begun(h, U, f)
      BY <3>2
    <3>4. ASSUME NEW U \in UpTo(n + 1, S), U # {} PROVE OthersOf(U) \in UpTo(n, S) /\ f[StartOf(U)] \in Int
      <4>1. U \in SUBSET S /\ Cardinality(U) <= n + 1
        BY DEF UpTo
      <4> HIDE DEF n
      <4> QED BY <1>1, <3>1, <3>4, <4>1, StartIsIn, FewerWithout DEF UpTo, IntegersOn
    <3> DEFINE g == [U \in UpTo(n + 1, S) |-> Begun(h, U, f)]
    <3>5. \A U \in UpTo(n, S) : U \in UpTo(n + 1, S) /\ g[U] = h[U]
      <4> HIDE DEF n
      <4> QED BY <1>1, <3>1, <3>3 DEF UpTo
    <3>6. g \in [UpTo(n + 1, S) -> Int]
      BY <3>3, <3>4 DEF Begun
    <3>7. \A U \in UpTo(n + 1, S) : g[U] = Begun(g, U, f)
      BY <3>4, <3>5 DEF Begun
    <3> HIDE DEF g
    <3> QED BY <3>1, <3>6, <3>7
  <2> QED BY <2>1, <2>2
<1>3. S \in F
  <2> HIDE DEF F
  <2> QED BY <1>2, SubsetsInduction
<1>4. UpTo(Cardinality(S), S) = SUBSET S
  BY <1>1 DEF UpTo
<1>5. PICK g \in [SUBSET S -> Int] : \A T \in SUBSET S : g[T] = Begun(g, T, f)
  BY <1>3, <1>4
<1>6. g = [T \in SUBSET S |-> Begun(g, T, f)]
  BY <1>5
<1> QED BY <1>6 DEF IsSum

\* Total's function over T has integers.
SumOver(T, f) == CHOOSE g : IsSum(g, T, f)

LEMMA SumHasIntegers ==
    ASSUME NEW T, IsFiniteSet(T), NEW f, IntegersOn(f, T)
    PROVE  /\ SumOver(T, f) \in [SUBSET T -> Int] /\ Drawn!Total(T, f) = SumOver(T, f)[T]
           /\ \A U \in SUBSET T : SumOver(T, f)[U] = Begun(SumOver(T, f), U, f)
<1> DEFINE sum == SumOver(T, f)
<1>1. IsSum(sum, T, f)
  <2>1. \E g : IsSum(g, T, f)
    BY SumExists
  <2> QED BY <2>1 DEF SumOver
<1>2. Drawn!Total(T, f) = sum[T]
  BY SumIs DEF SumOver
<1> HIDE DEF sum
<1>3. DOMAIN sum = SUBSET T /\ \A U \in SUBSET T : sum[U] = Begun(sum, U, f)
  BY <1>1 DEF IsSum
<1>4. sum = [U \in SUBSET T |-> sum[U]]
  BY <1>1, <1>3 DEF IsSum
<1> DEFINE F == {U \in SUBSET T : sum[U] \in Int}
<1>5. ASSUME NEW U \in SUBSET T, \A V \in SUBSET U : V # U => V \in F PROVE U \in F
  <2>1. U = {} => sum[U] = 0
    BY <1>3 DEF Begun
  <2>2. U # {} => OthersOf(U) \in F /\ f[StartOf(U)] \in Int
    BY <1>5, StartIsIn DEF IntegersOn
  <2>3. U # {} => sum[U] = f[StartOf(U)] + sum[OthersOf(U)]
    BY <1>3 DEF Begun
  <2> QED BY <2>1, <2>2, <2>3
<1>6. SUBSET T \subseteq F
  <2> HIDE DEF F
  <2> QED BY <1>5, SubsetsInduction
<1>7. sum \in [SUBSET T -> Int]
  BY <1>4, <1>6
<1> QED BY <1>2, <1>3, <1>7 DEF sum

\* A sum over a set is also the function of a larger set, at the smaller one.
LEMMA SumsAgree ==
    ASSUME NEW S, IsFiniteSet(S), NEW f, IntegersOn(f, S), NEW T \in SUBSET S
    PROVE  Drawn!Total(T, f) = SumOver(S, f)[T]
<1>1. /\ IsFiniteSet(T) /\ IntegersOn(f, T)
      /\ \A U \in SUBSET T : SumOver(T, f)[U] = Begun(SumOver(T, f), U, f)
      /\ Drawn!Total(T, f) = SumOver(T, f)[T]
  BY FS_Subset, SumHasIntegers DEF IntegersOn
<1>2. \A U \in SUBSET T : SumOver(S, f)[U] = Begun(SumOver(S, f), U, f)
  BY SumHasIntegers
<1> DEFINE F == {U \in SUBSET T : SumOver(T, f)[U] = SumOver(S, f)[U]}
<1>3. ASSUME NEW U \in SUBSET T, \A V \in SUBSET U : V # U => V \in F PROVE U \in F
  <2>1. U # {} => OthersOf(U) \in F
    BY <1>3, StartIsIn
  <2> QED BY <1>1, <1>2, <2>1 DEF Begun
<1>4. SUBSET T \subseteq F
  <2> HIDE DEF F
  <2> QED BY <1>1, <1>3, SubsetsInduction
<1> QED BY <1>1, <1>4

\* A sum is an integer, and any member may be the one added last.
LEMMA SumOfMembers ==
    ASSUME NEW S, IsFiniteSet(S), NEW f, IntegersOn(f, S)
    PROVE  /\ \A T \in SUBSET S : Drawn!Total(T, f) \in Int
           /\ Drawn!Total({}, f) = 0
           /\ \A T \in SUBSET S : \A x \in T : Drawn!Total(T, f) = f[x] + Drawn!Total(T \ {x}, f)
<1> DEFINE g == SumOver(S, f)
<1>1. g \in [SUBSET S -> Int] /\ \A T \in SUBSET S : g[T] = Begun(g, T, f)
  BY SumHasIntegers
<1>2. \A T \in SUBSET S : Drawn!Total(T, f) = g[T]
  BY SumsAgree
<1> HIDE DEF g
<1>3. g[{}] = 0
  BY <1>1 DEF Begun
<1> DEFINE F == {T \in SUBSET S : \A x \in T : g[T] = f[x] + g[T \ {x}]}
<1>4. ASSUME NEW T \in SUBSET S, \A U \in SUBSET T : U # T => U \in F, NEW x \in T
      PROVE  g[T] = f[x] + g[T \ {x}]
  <2>1. PICK h \in T : g[T] = f[h] + g[T \ {h}]
    BY <1>1, StartIsIn DEF OthersOf, Begun
  <2>2. CASE h = x
    BY <2>1, <2>2
  <2>3. CASE h # x
    <3>1. T \ {h} \in F /\ x \in T \ {h} /\ T \ {x} \in F /\ h \in T \ {x}
      BY <1>4, <2>3
    <3>2. (T \ {h}) \ {x} = (T \ {x}) \ {h}
      OBVIOUS
    <3>3. g[T \ {h}] = f[x] + g[(T \ {h}) \ {x}] /\ g[T \ {x}] = f[h] + g[(T \ {x}) \ {h}]
      BY <3>1
    <3>4. PICK i \in Int : i = g[(T \ {h}) \ {x}] /\ i = g[(T \ {x}) \ {h}]
      BY <1>1, <3>2
    <3>5. f[x] \in Int /\ f[h] \in Int
      BY DEF IntegersOn
    <3>6. f[h] + (f[x] + i) = f[x] + (f[h] + i)
      BY <3>5
    <3>7. g[T \ {h}] = f[x] + i /\ g[T \ {x}] = f[h] + i
      BY <3>3, <3>4
    <3> QED BY <2>1, <3>6, <3>7
  <2> QED BY <2>2, <2>3
<1>5. SUBSET S \subseteq F
  <2>1. \A T \in SUBSET S : (\A U \in SUBSET T : U # T => U \in F) => T \in F
    BY <1>4
  <2> HIDE DEF F
  <2> QED BY <2>1, SubsetsInduction
<1> QED BY <1>1, <1>2, <1>3, <1>5

\* A sum depends on what is summed alone.
LEMMA SumsAlike ==
    ASSUME NEW S, IsFiniteSet(S), NEW f, IntegersOn(f, S), NEW h, \A x \in S : h[x] = f[x]
    PROVE  Drawn!Total(S, h) = Drawn!Total(S, f)
<1>1. IntegersOn(h, S)
  BY DEF IntegersOn
<1> DEFINE F == {T \in SUBSET S : Drawn!Total(T, h) = Drawn!Total(T, f)}
<1>2. ASSUME NEW T \in SUBSET S, \A U \in SUBSET T : U # T => U \in F PROVE T \in F
  <2>1. T # {} => \E x \in T : x \in S /\ T \ {x} \in F
    BY <1>2
  <2>2. T \in SUBSET S
    OBVIOUS
  <2>3. T = {} => T \in F
    BY <1>1, SumOfMembers
  <2>4. ASSUME NEW x \in T, T \ {x} \in F PROVE T \in F
    <3>1. /\ Drawn!Total(T, h) = h[x] + Drawn!Total(T \ {x}, h)
          /\ Drawn!Total(T, f) = f[x] + Drawn!Total(T \ {x}, f)
      BY <1>1, SumOfMembers
    <3> QED BY <2>4, <3>1
  <2> QED BY <2>1, <2>3, <2>4
<1>3. S \in F
  <2> HIDE DEF F
  <2> QED BY <1>2, SubsetsInduction
<1> QED BY <1>3

\* The sum over two sets that have nothing in common.
LEMMA SumsAdd ==
    ASSUME NEW S, IsFiniteSet(S), NEW f, IntegersOn(f, S), NEW A \in SUBSET S, NEW B \in SUBSET S, A \cap B = {}
    PROVE  Drawn!Total(A \cup B, f) = Drawn!Total(A, f) + Drawn!Total(B, f)
<1> DEFINE F == {T \in SUBSET S : A \cap T = {} => Drawn!Total(A \cup T, f) = Drawn!Total(A, f) + Drawn!Total(T, f)}
<1>1. ASSUME NEW T \in SUBSET S, \A U \in SUBSET T : U # T => U \in F PROVE T \in F
  <2>1. SUFFICES ASSUME A \cap T = {} PROVE Drawn!Total(A \cup T, f) = Drawn!Total(A, f) + Drawn!Total(T, f)
    OBVIOUS
  <2>2. CASE T = {}
    <3>1. A \cup T = A /\ Drawn!Total(T, f) = 0 /\ Drawn!Total(A, f) \in Int
      BY <2>2, SumOfMembers
    <3> QED BY <3>1
  <2>3. CASE T # {}
    <3>1. PICK x \in T : x \in S
      BY <2>3
    <3>2. /\ (A \cup T) \ {x} = A \cup (T \ {x}) /\ A \cap (T \ {x}) = {} /\ T \ {x} \in F
          /\ A \cup T \in SUBSET S /\ x \in A \cup T /\ T \ {x} \in SUBSET S
      BY <1>1, <2>1, <3>1
    <3>3. /\ Drawn!Total(A \cup T, f) = f[x] + Drawn!Total((A \cup T) \ {x}, f)
          /\ Drawn!Total(T, f) = f[x] + Drawn!Total(T \ {x}, f)
      BY <3>2, SumOfMembers
    <3>4. Drawn!Total((A \cup T) \ {x}, f) = Drawn!Total(A, f) + Drawn!Total(T \ {x}, f)
      BY <3>2
    <3>5. Drawn!Total(A, f) \in Int /\ Drawn!Total(T \ {x}, f) \in Int /\ f[x] \in Int
      BY <3>1, <3>2, SumOfMembers DEF IntegersOn
    <3> QED BY <3>3, <3>4, <3>5
  <2> QED BY <2>2, <2>3
<1>2. B \in F
  <2> HIDE DEF F
  <2> QED BY <1>1, SubsetsInduction
<1> QED BY <1>2

\* Marks that share the rows of a chart out among them.
SharesOut(M, R) ==
    /\ \A m \in M : m.rows \subseteq R /\ m.rows # {}
    /\ \A m, n \in M : m # n => m.rows \cap n.rows = {}

RowsOf(M) == UNION {m.rows : m \in M}

Values(M) == [m \in M |-> m.value]

LEMMA MarksAreFinite ==
    ASSUME NEW R, IsFiniteSet(R), NEW M, SharesOut(M, R)
    PROVE  IsFiniteSet(M)
<1> DEFINE share == [m \in M |-> m.rows]
<1>1. share \in Injection(M, SUBSET R)
  BY DEF SharesOut, Injection, IsInjective
<1>2. IsFiniteSet(SUBSET R)
  BY FS_SUBSET
<1> HIDE DEF share
<1> QED BY <1>1, <1>2, FS_Injection

\* One mark more.
LEMMA OneMarkMore ==
    ASSUME NEW R, NEW M, SharesOut(M, R), NEW N \in SUBSET M, NEW m \in N
    PROVE  /\ RowsOf(N) = RowsOf(N \ {m}) \cup m.rows /\ RowsOf(N \ {m}) \cap m.rows = {}
           /\ RowsOf(N) \subseteq R
BY DEF SharesOut, RowsOf

LEMMA SumOfSums ==
    ASSUME NEW R, IsFiniteSet(R), NEW f, IntegersOn(f, R), NEW M, SharesOut(M, R),
           \A m \in M : m.value = Drawn!Total(m.rows, f)
    PROVE  Drawn!Total(M, Values(M)) = Drawn!Total(RowsOf(M), f)
<1>1. IsFiniteSet(M)
  BY MarksAreFinite
<1>2. IntegersOn(Values(M), M)
  BY SumOfMembers DEF IntegersOn, Values, SharesOut
<1> DEFINE F == {N \in SUBSET M : Drawn!Total(N, Values(M)) = Drawn!Total(RowsOf(N), f)}
<1>3. ASSUME NEW N \in SUBSET M, \A U \in SUBSET N : U # N => U \in F PROVE N \in F
  <2>1. CASE N = {}
    <3>1. RowsOf(N) = {}
      BY <2>1 DEF RowsOf
    <3> QED BY <1>1, <1>2, <2>1, <3>1, SumOfMembers
  <2>2. CASE N # {}
    <3>1. PICK m \in N : m \in M /\ N \ {m} \in F
      BY <1>3, <2>2
    <3>2. Drawn!Total(N, Values(M)) = Values(M)[m] + Drawn!Total(N \ {m}, Values(M))
      BY <1>1, <1>2, <3>1, SumOfMembers
    <3>3. Values(M)[m] = Drawn!Total(m.rows, f)
      BY <3>1 DEF Values
    <3>4. Drawn!Total(N \ {m}, Values(M)) = Drawn!Total(RowsOf(N \ {m}), f)
      BY <3>1
    <3>5. RowsOf(N) = RowsOf(N \ {m}) \cup m.rows /\ RowsOf(N \ {m}) \cap m.rows = {} /\ RowsOf(N) \subseteq R
      BY OneMarkMore
    <3>6. RowsOf(N \ {m}) \in SUBSET R /\ m.rows \in SUBSET R
      BY <3>5
    <3>7. Drawn!Total(RowsOf(N), f) = Drawn!Total(RowsOf(N \ {m}), f) + Drawn!Total(m.rows, f)
      <4> DEFINE A == RowsOf(N \ {m})
                 B == m.rows
      <4>1. A \in SUBSET R /\ B \in SUBSET R /\ A \cap B = {} /\ RowsOf(N) = A \cup B
        BY <3>5, <3>6
      <4> HIDE DEF A, B
      <4>2. Drawn!Total(A \cup B, f) = Drawn!Total(A, f) + Drawn!Total(B, f)
        BY <4>1, SumsAdd
      <4> QED BY <4>1, <4>2 DEF A, B
    <3>8. Drawn!Total(RowsOf(N \ {m}), f) \in Int /\ Drawn!Total(m.rows, f) \in Int
      BY <3>6, SumOfMembers
    <3> QED BY <3>2, <3>3, <3>4, <3>7, <3>8
  <2> QED BY <2>1, <2>2
<1>4. M \in F
  <2> HIDE DEF F
  <2> QED BY <1>1, <1>3, SubsetsInduction
<1> QED BY <1>4

LEMMA SumOfCounts ==
    ASSUME NEW R, IsFiniteSet(R), NEW M, SharesOut(M, R),
           \A m \in M : m.value = Cardinality(m.rows)
    PROVE  Drawn!Total(M, Values(M)) = Cardinality(RowsOf(M))
<1>1. IsFiniteSet(M)
  BY MarksAreFinite
<1>2. \A T \in SUBSET R : IsFiniteSet(T) /\ Cardinality(T) \in Nat
  BY FS_Subset, FS_CardinalityType
<1>3. IntegersOn(Values(M), M)
  BY <1>2 DEF IntegersOn, Values, SharesOut
<1> DEFINE F == {N \in SUBSET M : Drawn!Total(N, Values(M)) = Cardinality(RowsOf(N))}
<1>4. ASSUME NEW N \in SUBSET M, \A U \in SUBSET N : U # N => U \in F PROVE N \in F
  <2>1. CASE N = {}
    <3>1. RowsOf(N) = {}
      BY <2>1 DEF RowsOf
    <3> QED BY <1>1, <1>3, <2>1, <3>1, SumOfMembers, FS_EmptySet
  <2>2. CASE N # {}
    <3>1. PICK m \in N : m \in M /\ N \ {m} \in F
      BY <1>4, <2>2
    <3>2. Drawn!Total(N, Values(M)) = Values(M)[m] + Drawn!Total(N \ {m}, Values(M))
      BY <1>1, <1>3, <3>1, SumOfMembers
    <3>3. Values(M)[m] = Cardinality(m.rows) /\ Drawn!Total(N \ {m}, Values(M)) = Cardinality(RowsOf(N \ {m}))
      BY <3>1 DEF Values
    <3>4. RowsOf(N) = RowsOf(N \ {m}) \cup m.rows /\ RowsOf(N \ {m}) \cap m.rows = {} /\ RowsOf(N) \subseteq R
      BY OneMarkMore
    <3>5. RowsOf(N \ {m}) \in SUBSET R /\ m.rows \in SUBSET R
      BY <3>4
    <3>6. Cardinality(RowsOf(N)) = Cardinality(m.rows) + Cardinality(RowsOf(N \ {m}))
      <4> DEFINE A == RowsOf(N \ {m})
                 B == m.rows
      <4>1. /\ A \cap B = {} /\ RowsOf(N) = A \cup B /\ IsFiniteSet(A) /\ IsFiniteSet(B)
            /\ Cardinality(A) \in Nat /\ Cardinality(B) \in Nat
        BY <1>2, <3>4, <3>5
      <4> HIDE DEF A, B
      <4>2. Cardinality(A \cup B) = Cardinality(A) + Cardinality(B) - Cardinality(A \cap B)
        BY <4>1, FS_Union
      <4>3. Cardinality(A \cap B) = 0
        BY <4>1, FS_EmptySet
      <4>4. Cardinality(A \cup B) = Cardinality(B) + Cardinality(A)
        BY <4>1, <4>2, <4>3
      <4> QED BY <4>1, <4>4 DEF A, B
    <3> QED BY <3>1, <3>2, <3>3, <3>6
  <2> QED BY <2>1, <2>2
<1>5. M \in F
  <2> HIDE DEF F
  <2> QED BY <1>1, <1>4, SubsetsInduction
<1> QED BY <1>5

\* A greatest number is Max; finitely many rows have one.
LEMMA MaxIs ==
    ASSUME NEW V \in SUBSET Int, NEW x \in V, \A y \in V : x >= y
    PROVE  Drawn!Max(V) = x
<1>1. PICK z \in V : z = Drawn!Max(V) /\ \A y \in V : z >= y
  BY DEF Drawn!Max
<1> QED BY <1>1

LEMMA GreatestRow ==
    ASSUME NEW R, IsFiniteSet(R), NEW f, IntegersOn(f, R), NEW T \in SUBSET R, T # {}
    PROVE  \E i \in T : \A j \in T : f[i] >= f[j]
<1> DEFINE F == {U \in SUBSET R : U # {} => \E i \in U : \A j \in U : f[i] >= f[j]}
<1>1. ASSUME NEW U \in SUBSET R, \A V \in SUBSET U : V # U => V \in F PROVE U \in F
  <2>1. SUFFICES ASSUME U # {} PROVE \E i \in U : \A j \in U : f[i] >= f[j]
    OBVIOUS
  <2>2. PICK k \in U : U \ {k} \in F
    <3>1. PICK k \in U : U \ {k} \in SUBSET U /\ U \ {k} # U
      BY <2>1
    <3>2. U \ {k} \in F
      BY <1>1, <3>1
    <3> QED BY <3>2
  <2>3. \A i \in U : f[i] \in Int
    BY DEF IntegersOn
  <2>4. CASE U \ {k} = {}
    BY <2>3, <2>4
  <2>5. CASE U \ {k} # {}
    <3>1. PICK i \in U \ {k} : \A j \in U \ {k} : f[i] >= f[j]
      BY <2>2, <2>5
    <3>2. CASE f[i] >= f[k]
      BY <3>1, <3>2
    <3>3. CASE f[k] > f[i]
      BY <2>3, <3>1, <3>3
    <3> QED BY <2>3, <3>2, <3>3
  <2> QED BY <2>4, <2>5
<1>2. T \in F
  <2> HIDE DEF F
  <2> QED BY <1>1, SubsetsInduction
<1> QED BY <1>2

HighestOf(f, T) == Drawn!Max({f[i] : i \in T})
HighestMark(M) == Drawn!Max({m.value : m \in M})

LEMMA MaxOfMaxima ==
    ASSUME NEW R, IsFiniteSet(R), R # {}, NEW f, IntegersOn(f, R), NEW M, SharesOut(M, R), RowsOf(M) = R,
           \A m \in M : m.value = HighestOf(f, m.rows)
    PROVE  HighestMark(M) = HighestOf(f, R)
<1>1. ASSUME NEW T \in SUBSET R, NEW i \in T, \A j \in T : f[i] >= f[j]
      PROVE  HighestOf(f, T) = f[i]
  <2> DEFINE V == {f[j] : j \in T}
  <2>1. V \in SUBSET Int /\ f[i] \in V /\ \A y \in V : f[i] >= y
    BY <1>1 DEF IntegersOn
  <2> HIDE DEF V
  <2>2. Drawn!Max(V) = f[i]
    BY <2>1, MaxIs
  <2> QED BY <2>2 DEF V, HighestOf
<1>2. R \in SUBSET R
  OBVIOUS
<1>3. PICK i \in R : \A j \in R : f[i] >= f[j]
  BY <1>2, GreatestRow
<1>4. ASSUME NEW m \in M PROVE \E k \in m.rows : m.value = f[k] /\ \A j \in m.rows : f[k] >= f[j]
  <2>1. m.rows \in SUBSET R /\ m.rows # {}
    BY DEF SharesOut
  <2>2. PICK k \in m.rows : \A j \in m.rows : f[k] >= f[j]
    BY <2>1, GreatestRow
  <2> QED BY <1>1, <2>1, <2>2
<1>5. PICK m \in M : i \in m.rows
  BY <1>3 DEF RowsOf
<1>6. \A n \in M : n.rows \subseteq R
  BY DEF SharesOut
<1>7. \A n \in M : n.value \in Int /\ f[i] >= n.value
  BY <1>3, <1>4, <1>6 DEF IntegersOn
<1>8. m.value = f[i]
  <2>1. PICK k \in m.rows : m.value = f[k] /\ \A j \in m.rows : f[k] >= f[j]
    BY <1>4
  <2>2. f[k] >= f[i] /\ f[i] >= f[k] /\ f[i] \in Int /\ f[k] \in Int
    BY <1>3, <1>5, <1>6, <2>1 DEF IntegersOn
  <2> QED BY <2>1, <2>2
<1> DEFINE V == {n.value : n \in M}
<1>9. V \in SUBSET Int /\ f[i] \in V /\ \A y \in V : f[i] >= y
  BY <1>7, <1>8
<1>10. Drawn!Max(V) = f[i]
  <2> HIDE DEF V
  <2> QED BY <1>9, MaxIs
<1>11. HighestOf(f, R) = f[i]
  BY <1>1, <1>2, <1>3
<1> QED BY <1>10, <1>11 DEF HighestMark

---------------------------------------------------------------------------
(* What is drawn of a result adds up to it.                                *)

\* The rows of a result that have a number in a column, and their numbers.
Counted(r, y) == {i \in DOMAIN r.rows : Drawn!NumberOf(Drawn!At(r.rows[i], y)) # NaN}
NumbersOf(r, y) == [i \in Counted(r, y) |-> Drawn!NumberOf(Drawn!At(r.rows[i], y))]

LEMMA NumbersAreIntegers ==
    ASSUME Drawn!ChartsConstants, NEW r \in Results, NEW y
    PROVE  IsFiniteSet(Counted(r, y)) /\ IntegersOn(NumbersOf(r, y), Counted(r, y))
<1>1. IsFiniteSet(DOMAIN r.rows)
  BY DEF Drawn!ChartsConstants, IsFiniteSet, Drawn!IsFiniteSet
<1>2. ASSUME NEW i \in DOMAIN r.rows PROVE Drawn!NumberOf(Drawn!At(r.rows[i], y)) \in Int \cup {NaN}
  <2>1. CASE y \in DOMAIN r.rows[i]
    <3>1. Drawn!At(r.rows[i], y).text \in DOMAIN Parse
      BY <2>1 DEF Drawn!ChartsConstants, Drawn!At
    <3>2. Parse[Drawn!At(r.rows[i], y).text] \in Int \cup {NaN}
      BY <3>1 DEF Drawn!ChartsConstants
    <3> QED BY <3>2 DEF Drawn!NumberOf
  <2>2. CASE y \notin DOMAIN r.rows[i]
    BY <2>2 DEF Drawn!At, Drawn!Undefined, Drawn!NumberOf
  <2> QED BY <2>1, <2>2
<1> QED BY <1>1, <1>2, FS_Subset DEF Counted, NumbersOf, IntegersOn

\* The value of a mark in terms of the numbers of all the rows.
LEMMA ValueOfMark ==
    ASSUME Drawn!ChartsConstants, NEW r \in Results, NEW y, NEW agg, NEW T \in SUBSET Counted(r, y)
    PROVE  /\ agg \in {"sum", NoChart} => Drawn!Drawn(r, y, agg, T) = Drawn!Total(T, NumbersOf(r, y))
           /\ agg = "count" => Drawn!Drawn(r, y, agg, T) = Cardinality(T)
           /\ agg = "max" => Drawn!Drawn(r, y, agg, T) = HighestOf(NumbersOf(r, y), T)
<1> DEFINE num == [i \in T |-> Drawn!NumberOf(Drawn!At(r.rows[i], y))]
           all == NumbersOf(r, y)
<1>1. \A i \in T : num[i] = all[i]
  BY DEF NumbersOf
<1>2. IsFiniteSet(T) /\ IntegersOn(all, T)
  BY NumbersAreIntegers, FS_Subset DEF IntegersOn
<1>3. Drawn!Total(T, num) = Drawn!Total(T, all)
  <2> HIDE DEF num, all
  <2> QED BY <1>1, <1>2, SumsAlike
<1>4. {num[i] : i \in T} = {all[i] : i \in T}
  <2> HIDE DEF num, all
  <2> QED BY <1>1
<1>5. NoChart \notin {"sum", "count", "min", "max", "avg"}
  BY DEF Drawn!ChartsConstants
<1>6. agg \in {"sum", NoChart} => Drawn!Drawn(r, y, agg, T) = Drawn!Total(T, num)
  BY <1>5 DEF Drawn!Drawn
<1>7. agg = "count" => Drawn!Drawn(r, y, agg, T) = Drawn!Cardinality(T)
  BY DEF Drawn!Drawn
<1>8. agg = "max" => Drawn!Drawn(r, y, agg, T) = Drawn!Max({num[i] : i \in T})
  BY DEF Drawn!Drawn
<1>9. Drawn!Cardinality(T) = Cardinality(T)
  BY DEF Drawn!Cardinality, Cardinality
<1> QED BY <1>3, <1>4, <1>6, <1>7, <1>8, <1>9 DEF HighestOf

\* The bars, points and slices of a chart share its rows out.
LEMMA SeriesSharesOut ==
    ASSUME NEW r, NEW c
    PROVE  /\ SharesOut(Drawn!Series(r, c).marks, Counted(r, c.y))
           /\ RowsOf(Drawn!Series(r, c).marks) = Counted(r, c.y)
           /\ \A m \in Drawn!Series(r, c).marks : m.value = Drawn!Drawn(r, c.y, c.agg, m.rows)
<1> DEFINE groups == Drawn!Aggregate(r, c.x, c.y)
           mark(g) == [at |-> Drawn!Position(c.type, g), value |-> Drawn!Drawn(r, c.y, c.agg, groups[g]), rows |-> groups[g]]
           textOf(i) == Drawn!At(r.rows[i], c.x).text
           R == Counted(r, c.y)
<1>1. /\ DOMAIN groups = {textOf(i) : i \in R}
      /\ \A g \in DOMAIN groups : groups[g] = {i \in R : textOf(i) = g}
  BY DEF Drawn!Aggregate, Counted
<1>2. Drawn!Series(r, c).marks = {mark(g) : g \in DOMAIN groups}
  BY DEF Drawn!Series
<1> HIDE DEF groups, textOf, R
<1>3. \A g \in DOMAIN groups : mark(g).rows = groups[g] /\ mark(g).value = Drawn!Drawn(r, c.y, c.agg, groups[g])
  OBVIOUS
<1> HIDE DEF mark
<1>4. \A g \in DOMAIN groups : groups[g] \subseteq R /\ groups[g] # {}
  BY <1>1
<1>5. \A g, h \in DOMAIN groups : g # h => groups[g] \cap groups[h] = {}
  BY <1>1
<1>6. \A i \in R : \E g \in DOMAIN groups : i \in groups[g]
  BY <1>1
<1>7. SharesOut({mark(g) : g \in DOMAIN groups}, R)
  BY <1>3, <1>4, <1>5 DEF SharesOut
<1>8. RowsOf({mark(g) : g \in DOMAIN groups}) = R
  BY <1>3, <1>4, <1>6 DEF RowsOf
<1>9. \A m \in {mark(g) : g \in DOMAIN groups} : m.value = Drawn!Drawn(r, c.y, c.agg, m.rows)
  BY <1>3
<1> QED BY <1>2, <1>7, <1>8, <1>9 DEF R

\* What the option of a chart adds up to.
LEMMA SeriesAddsUp ==
    ASSUME Drawn!ChartsConstants, NEW r \in Results, NEW c
    PROVE  LET M == Drawn!Series(r, c).marks
               R == Counted(r, c.y)
           IN  /\ c.agg \in {"sum", NoChart} => Drawn!Total(M, Values(M)) = Drawn!Total(R, NumbersOf(r, c.y))
               /\ c.agg = "count" => Drawn!Total(M, Values(M)) = Cardinality(R)
               /\ c.agg = "max" /\ R # {} =>
                    HighestMark(M) = HighestOf(NumbersOf(r, c.y), R)
<1> DEFINE M == Drawn!Series(r, c).marks
           R == Counted(r, c.y)
           f == NumbersOf(r, c.y)
<1>1. SharesOut(M, R) /\ RowsOf(M) = R /\ \A m \in M : m.value = Drawn!Drawn(r, c.y, c.agg, m.rows)
  BY SeriesSharesOut
<1>2. IsFiniteSet(R) /\ IntegersOn(f, R)
  BY NumbersAreIntegers
<1>3. \A m \in M : m.rows \in SUBSET R
  BY <1>1 DEF SharesOut
<1>4. ASSUME NEW m \in M
      PROVE  /\ c.agg \in {"sum", NoChart} => m.value = Drawn!Total(m.rows, f)
             /\ c.agg = "count" => m.value = Cardinality(m.rows)
             /\ c.agg = "max" => m.value = HighestOf(f, m.rows)
  <2> DEFINE T == m.rows
  <2>1. T \in SUBSET Counted(r, c.y)
    BY <1>3
  <2>2. m.value = Drawn!Drawn(r, c.y, c.agg, T)
    BY <1>1
  <2> HIDE DEF T, M, R
  <2>3. /\ c.agg \in {"sum", NoChart} => Drawn!Drawn(r, c.y, c.agg, T) = Drawn!Total(T, f)
        /\ c.agg = "count" => Drawn!Drawn(r, c.y, c.agg, T) = Cardinality(T)
        /\ c.agg = "max" => Drawn!Drawn(r, c.y, c.agg, T) = HighestOf(f, T)
    BY <2>1, ValueOfMark
  <2> QED BY <2>2, <2>3 DEF T
<1> HIDE DEF M, R, f
<1>5. c.agg \in {"sum", NoChart} => Drawn!Total(M, Values(M)) = Drawn!Total(R, f)
  BY <1>1, <1>2, <1>4, SumOfSums
<1>6. c.agg = "count" => Drawn!Total(M, Values(M)) = Cardinality(R)
  BY <1>1, <1>2, <1>4, SumOfCounts
<1>7. c.agg = "max" /\ R # {} => HighestMark(M) = HighestOf(f, R)
  <2> SUFFICES ASSUME c.agg = "max", R # {}
               PROVE  HighestMark(M) = HighestOf(f, R)
    OBVIOUS
  <2>1. \A m \in M : m.value = HighestOf(f, m.rows)
    BY <1>4
  <2> QED BY <1>1, <1>2, <2>1, MaxOfMaxima
<1> QED BY <1>5, <1>6, <1>7 DEF M, R, f

LEMMA NumberAddsUp ==
    ASSUME Drawn!ChartsConstants, NEW r \in Results, NEW c
    PROVE  LET M == Drawn!KPI(r, c).marks
           IN  Drawn!Total(M, Values(M)) = Drawn!Total(Counted(r, c.y), NumbersOf(r, c.y))
<1> DEFINE R == Counted(r, c.y)
           m == [at |-> "", value |-> Drawn!Drawn(r, c.y, "sum", R), rows |-> R]
<1>1. Drawn!KPI(r, c).marks = {m}
  BY DEF Drawn!KPI, Counted
<1>2. m.value = Drawn!Total(R, NumbersOf(r, c.y))
  BY ValueOfMark
<1>3. m.value \in Int
  <2>1. IsFiniteSet(R) /\ IntegersOn(NumbersOf(r, c.y), R) /\ R \in SUBSET R
    BY NumbersAreIntegers
  <2> QED BY <1>2, <2>1, SumOfMembers
<1> HIDE DEF m
<1>4. Values({m})[m] = m.value /\ IntegersOn(Values({m}), {m}) /\ IsFiniteSet({m}) /\ {m} \ {m} = {} /\ {m} \in SUBSET {m}
  BY <1>3, FS_Singleton DEF Values, IntegersOn
<1>5. Drawn!Total({m}, Values({m})) = m.value + Drawn!Total({}, Values({m})) /\ Drawn!Total({}, Values({m})) = 0
  BY <1>4, SumOfMembers
<1> QED BY <1>1, <1>2, <1>3, <1>5

LEMMA CanvasAddsUp ==
    ASSUME Drawn!ChartsConstants, DrawnTypes, CanvasIsCurrent
    PROVE  Drawn!ChartAddsUp
<1> DEFINE R == Counted(result, config.y)
           f == NumbersOf(result, config.y)
           M == canvas.marks
<1>1. SUFFICES ASSUME canvas # NoChart
               PROVE  IF config.type = "kpi" \/ config.agg \in {"sum", NoChart}
                      THEN Drawn!Total(M, Values(M)) = Drawn!Total(R, f)
                      ELSE IF config.agg = "count" THEN Drawn!Total(M, Values(M)) = Cardinality(R)
                      ELSE config.agg = "max" /\ R # {} =>
                             HighestMark(M) = HighestOf(f, R)
  <2>1. Drawn!Cardinality(R) = Cardinality(R)
    BY DEF Drawn!Cardinality, Cardinality
  <2> QED BY <2>1 DEF Drawn!ChartAddsUp, Values, Counted, NumbersOf, HighestMark, HighestOf
<1>2. PICK t : canvas = Drawn!Option(result, [config EXCEPT !.title = t])
  BY <1>1 DEF CanvasIsCurrent
<1> DEFINE c == [config EXCEPT !.title = t]
<1>3. c.type = config.type /\ c.y = config.y /\ c.agg = config.agg /\ result \in Results
  BY DEF DrawnTypes, IsChart
<1>4. canvas = IF c.type = "kpi" THEN Drawn!KPI(result, c) ELSE Drawn!Series(result, c)
  BY <1>1, <1>2 DEF Drawn!Option
<1> HIDE DEF c
<1>5. CASE config.type = "kpi"
  BY <1>3, <1>4, <1>5, NumberAddsUp
<1>6. CASE config.type # "kpi"
  BY <1>3, <1>4, <1>6, SeriesAddsUp
<1> QED BY <1>5, <1>6

\* The bars of a chart add up to the column or to the number of its values, its
\* highest is the highest, whatever result, configuration and order of rows.
THEOREM PartsChartAddsUp == Spec => []ChartAddsUp
<1>1. Drawn!ChartsConstants
  BY PartsAssumption
<1>2. DrawnTypes /\ CanvasIsCurrent => ChartAddsUp
  BY <1>1, CanvasAddsUp DEF ChartAddsUp
<1> QED BY <1>2, DrawnTypesHold, ChartsCanvasIsCurrent, PTL

---------------------------------------------------------------------------
(* A query of the cache.                                                   *)

\* What the cache takes for current is: what is on its way, and what is there
\* and not to be asked for again.
TrueTo(q, truth) ==
    ~q.missed =>
        /\ q.phase = "read" => q.read = truth
        /\ q.phase = "idle" /\ q.data # Unknown /\ ~q.invalid => q.data = truth

\* What is done to a query keeps its types.
LEMMA QueryTypes ==
    ASSUME NEW V, NEW q \in Listed!CachedQueries(V)
    PROVE  /\ Listed!NoQuery \in Listed!CachedQueries(V)
           /\ \A old \in BOOLEAN : Listed!Mounted(q, old) \in Listed!CachedQueries(V)
           /\ \A v, t \in V : Listed!ReadAs(q, v, t) \in Listed!CachedQueries(V)
           /\ q.phase = "read" => Listed!Arrived(q) \in Listed!CachedQueries(V)
           /\ Listed!Failures(q) \subseteq Listed!CachedQueries(V)
           /\ \A on \in BOOLEAN : Listed!Invalidated(q, on) \in Listed!CachedQueries(V)
           /\ Listed!Behind(q) \in Listed!CachedQueries(V)
<1>1. /\ q.phase \in {"idle", "asked", "read"} /\ q.again \in BOOLEAN /\ q.invalid \in BOOLEAN
      /\ q.missed \in BOOLEAN /\ q.data \in V \cup {Unknown} /\ q.read \in V \cup {Unknown}
      /\ q = [data |-> q.data, phase |-> q.phase, read |-> q.read, again |-> q.again,
              invalid |-> q.invalid, missed |-> q.missed]
  BY DEF Listed!CachedQueries
<1>2. Listed!NoQuery \in Listed!CachedQueries(V)
  BY DEF Listed!NoQuery, Listed!CachedQueries
<1>3. Listed!Asked(q) \in Listed!CachedQueries(V)
  BY DEF Listed!Asked, Listed!CachedQueries
<1>4. \A old \in BOOLEAN : Listed!Mounted(q, old) \in Listed!CachedQueries(V)
  BY <1>3 DEF Listed!Mounted
<1>5. \A v, t \in V : Listed!ReadAs(q, v, t) \in Listed!CachedQueries(V)
  BY DEF Listed!ReadAs, Listed!CachedQueries
<1>6. Listed!Arrived(q) \in Listed!CachedQueries(V)
  BY DEF Listed!Arrived, Listed!NoQuery, Listed!CachedQueries
<1>7. Listed!Failures(q) \subseteq Listed!CachedQueries(V)
  BY DEF Listed!Failures, Listed!CachedQueries
<1>8. \A on \in BOOLEAN : Listed!Invalidated(q, on) \in Listed!CachedQueries(V)
  BY <1>1 DEF Listed!Invalidated, Listed!CachedQueries
<1>9. Listed!Behind(q) \in Listed!CachedQueries(V)
  BY <1>1 DEF Listed!Behind, Listed!CachedQueries
<1> QED BY <1>2, <1>4, <1>5, <1>6, <1>7, <1>8, <1>9

\* What a query goes through by itself keeps it true, and the cache being told,
\* or never told, of a change makes it true to whatever it has become.
LEMMA QueryTruth ==
    ASSUME NEW V, NEW q \in Listed!CachedQueries(V), NEW truth \in V
    PROVE  /\ TrueTo(Listed!NoQuery, truth) /\ TrueTo(Listed!Behind(q), truth)
           /\ \A on \in BOOLEAN : TrueTo(Listed!Invalidated(q, on), truth)
           /\ TrueTo(Listed!ReadAs(q, truth, truth), truth)
           /\ TrueTo(q, truth) =>
                /\ \A old \in BOOLEAN : TrueTo(Listed!Mounted(q, old), truth)
                /\ q.phase = "read" => TrueTo(Listed!Arrived(q), truth)
                /\ \A p \in Listed!Failures(q) : TrueTo(p, truth)
<1>1. /\ q.phase \in {"idle", "asked", "read"} /\ q.again \in BOOLEAN /\ q.invalid \in BOOLEAN
      /\ q.missed \in BOOLEAN
      /\ q = [data |-> q.data, phase |-> q.phase, read |-> q.read, again |-> q.again,
              invalid |-> q.invalid, missed |-> q.missed]
  BY DEF Listed!CachedQueries
<1>2. TrueTo(Listed!NoQuery, truth)
  BY DEF TrueTo, Listed!NoQuery
<1>3. TrueTo(Listed!Behind(q), truth)
  BY <1>1 DEF TrueTo, Listed!Behind
<1>4. \A on \in BOOLEAN : TrueTo(Listed!Invalidated(q, on), truth)
  BY <1>1, <1>2 DEF TrueTo, Listed!Invalidated
<1>5. TrueTo(Listed!ReadAs(q, truth, truth), truth)
  BY <1>1 DEF TrueTo, Listed!ReadAs
<1>6. ASSUME TrueTo(q, truth) PROVE \A old \in BOOLEAN : TrueTo(Listed!Mounted(q, old), truth)
  BY <1>1, <1>6 DEF TrueTo, Listed!Mounted, Listed!Asked
<1>7. ASSUME TrueTo(q, truth), q.phase = "read" PROVE TrueTo(Listed!Arrived(q), truth)
  BY <1>1, <1>7 DEF TrueTo, Listed!Arrived, Listed!NoQuery
<1>8. ASSUME TrueTo(q, truth), NEW p \in Listed!Failures(q) PROVE TrueTo(p, truth)
  BY <1>1, <1>8 DEF TrueTo, Listed!Failures
<1> QED BY <1>2, <1>3, <1>4, <1>5, <1>6, <1>7, <1>8

---------------------------------------------------------------------------
(* Lists.                                                                  *)

\* No request of the page has been served without its having been told.
AllTold == \A q \in changes : q.pc # "served"

ListIsTrue == AllTold => TrueTo(fetched, Listed!Server)

\* Only one thing is minted at a time, and its dialog is not over the page.
OneMinted ==
    /\ slip # 0 => what \in {"tokens", "invites"} /\ ~Listed!Pending("make")
    /\ what \in {"tokens", "invites"} =>
          \A q, r \in changes : q.kind = "make" /\ r.kind = "make" /\ q.here /\ r.here => q = r

ListInv == Listed!TypeOK /\ ListIsTrue /\ OneMinted

LEMMA ListedInitEstablishes == Listed!ListingsConstants /\ Listed!Init => ListInv
<1> SUFFICES ASSUME Listed!ListingsConstants, Listed!Init PROVE ListInv
  OBVIOUS
<1>1. Listed!Server \in Listed!Contents
  BY DEF Listed!Init, Listed!Server, Listed!Contents, Listed!ListingsConstants
<1>2. Listed!NoQuery \in Listed!CachedQueries(Listed!Contents) /\ TrueTo(Listed!NoQuery, Listed!Server)
  BY DEF Listed!NoQuery, Listed!CachedQueries, TrueTo
<1>3. Listed!TypeOK
  <2>1. 0 \in 0 .. MaxThings
    BY DEF Listed!ListingsConstants
  <2>2. /\ slip = 0 /\ selected = 0 /\ previews = {} /\ changes = {} /\ open = FALSE /\ fetched = Listed!NoQuery
        /\ what \in {"links", "versions", "tokens", "invites", "uploads"}
    BY DEF Listed!Init
  <2> QED BY <1>1, <1>2, <2>1, <2>2 DEF Listed!TypeOK
<1>4. OneMinted
  BY DEF Listed!Init, OneMinted
<1> QED BY <1>2, <1>3, <1>4 DEF ListInv, ListIsTrue, Listed!Init

\* Nothing about requests, or what the server has, changes.
LEMMA ListingStepKeeps ==
    ASSUME Listed!ListingsConstants, ListInv,
           UNCHANGED <<what, made, gone, changes, slip>>,
           open' \in BOOLEAN, selected' \in 0 .. MaxThings, previews' \subseteq 0 .. MaxThings,
           fetched' \in Listed!CachedQueries(Listed!Contents),
           TrueTo(fetched, Listed!Server) => TrueTo(fetched', Listed!Server)
    PROVE  ListInv'
<1>1. Listed!Server' = Listed!Server /\ (AllTold' <=> AllTold)
  BY DEF Listed!Server, AllTold
<1>2. Listed!TypeOK'
  BY <1>1 DEF ListInv, Listed!TypeOK
<1>3. ListIsTrue'
  BY <1>1 DEF ListInv, ListIsTrue, TrueTo
<1>4. OneMinted'
  BY DEF ListInv, OneMinted, Listed!Pending
<1> QED BY <1>2, <1>3, <1>4 DEF ListInv

LEMMA SelectionTypes ==
    ASSUME Listed!ListingsConstants, selected \in 0 .. MaxThings, NEW d \in Listed!Contents \cup {Unknown}
    PROVE  Listed!SelectedAfter(d) \in 0 .. MaxThings
BY DEF Listed!SelectedAfter, Listed!Contents

LEMMA ListingOnlyKeeps ==
    ASSUME Listed!ListingsConstants, ListInv,
           \/ Listed!Open \/ Listed!ServerReads \/ Listed!ListArrives \/ Listed!ListFails
           \/ Listed!Preview \/ \E i \in Listed!Things : Listed!Select(i)
    PROVE  ListInv'
<1>1. /\ fetched \in Listed!CachedQueries(Listed!Contents) /\ Listed!Server \in Listed!Contents
      /\ selected \in 0 .. MaxThings /\ open \in BOOLEAN /\ previews \subseteq 0 .. MaxThings
  BY DEF ListInv, Listed!TypeOK
<1>2. fetched.data \in Listed!Contents \cup {Unknown} /\ fetched.read \in Listed!Contents \cup {Unknown}
  BY <1>1 DEF Listed!CachedQueries
<1>3. CASE Listed!Open
  <2>1. PICK old \in BOOLEAN : fetched' = Listed!Mounted(fetched, old)
    BY <1>3 DEF Listed!Open, Listed!InDialog
  <2>2. /\ fetched' \in Listed!CachedQueries(Listed!Contents)
        /\ TrueTo(fetched, Listed!Server) => TrueTo(fetched', Listed!Server)
    BY <1>1, <2>1, QueryTypes, QueryTruth
  <2>3. selected' \in 0 .. MaxThings
    BY <1>1, <1>2, <1>3, SelectionTypes DEF Listed!Open
  <2> QED BY <1>1, <1>3, <2>2, <2>3, ListingStepKeeps DEF Listed!Open
<1>4. CASE Listed!ServerReads
  <2>1. fetched' = Listed!ReadAs(fetched, Listed!Server, Listed!Server)
    BY <1>4 DEF Listed!ServerReads
  <2>2. fetched' \in Listed!CachedQueries(Listed!Contents) /\ TrueTo(fetched', Listed!Server)
    BY <1>1, <2>1, QueryTypes, QueryTruth
  <2> QED BY <1>1, <1>4, <2>2, ListingStepKeeps DEF Listed!ServerReads
<1>5. CASE Listed!ListArrives
  <2>1. fetched' = Listed!Arrived(fetched) /\ fetched.phase = "read"
    BY <1>5 DEF Listed!ListArrives
  <2>2. /\ fetched' \in Listed!CachedQueries(Listed!Contents)
        /\ TrueTo(fetched, Listed!Server) => TrueTo(fetched', Listed!Server)
    BY <1>1, <2>1, QueryTypes, QueryTruth
  <2>3. selected' \in 0 .. MaxThings
    BY <1>1, <1>2, <1>5, SelectionTypes DEF Listed!ListArrives
  <2> QED BY <1>1, <1>5, <2>2, <2>3, ListingStepKeeps DEF Listed!ListArrives
<1>6. CASE Listed!ListFails
  <2>1. fetched' \in Listed!Failures(fetched)
    BY <1>6 DEF Listed!ListFails
  <2>2. /\ fetched' \in Listed!CachedQueries(Listed!Contents)
        /\ TrueTo(fetched, Listed!Server) => TrueTo(fetched', Listed!Server)
    BY <1>1, <2>1, QueryTypes, QueryTruth
  <2> QED BY <1>1, <1>6, <2>2, ListingStepKeeps DEF Listed!ListFails
<1>7. CASE Listed!Preview
  BY <1>1, <1>7, ListingStepKeeps DEF Listed!Preview
<1>8. CASE \E i \in Listed!Things : Listed!Select(i)
  <2>1. PICK i \in Listed!Things : Listed!Select(i)
    BY <1>8
  <2>2. selected' \in 0 .. MaxThings
    BY <2>1 DEF Listed!Select, Listed!Things, Listed!ListingsConstants
  <2> QED BY <1>1, <2>1, <2>2, ListingStepKeeps DEF Listed!Select
<1> QED BY <1>3, <1>4, <1>5, <1>6, <1>7, <1>8

\* A request leaves.
LEMMA ListingSendKeeps ==
    ASSUME Listed!ListingsConstants, ListInv, NEW kind \in {"make", "end"}, NEW i \in 0 .. MaxThings,
           Listed!Send(kind, i),
           kind = "make" /\ what \in {"tokens", "invites"} => slip = 0 /\ ~Listed!Pending("make")
    PROVE  ListInv'
<1> DEFINE new == [kind |-> kind, of |-> i, pc |-> "sent", here |-> TRUE]
<1>1. /\ changes' = changes \cup {new}
      /\ UNCHANGED <<what, made, gone, fetched, open, slip, selected, previews>>
  BY DEF Listed!Send
<1>2. new \in Listed!Requests
  BY DEF Listed!Requests
<1>3. Listed!TypeOK'
  BY <1>1, <1>2 DEF ListInv, Listed!TypeOK, Listed!Server
<1>4. ListIsTrue'
  <2>1. AllTold' => AllTold
    BY <1>1 DEF AllTold
  <2>2. Listed!Server' = Listed!Server
    BY <1>1 DEF Listed!Server
  <2> QED BY <1>1, <2>1, <2>2 DEF ListInv, ListIsTrue, TrueTo
<1>5. OneMinted'
  <2>1. new.kind = kind /\ new.here
    OBVIOUS
  <2>2. slip' # 0 => what' \in {"tokens", "invites"} /\ ~(\E q \in changes' : q.kind = "make" /\ q.here)
    BY <1>1, <2>1 DEF ListInv, OneMinted, Listed!Pending
  <2>3. ASSUME what' \in {"tokens", "invites"}, NEW q \in changes', NEW r \in changes',
               q.kind = "make", r.kind = "make", q.here, r.here
        PROVE  q = r
    <3>1. CASE kind = "make"
      <4>1. ~(\E p \in changes : p.kind = "make" /\ p.here)
        BY <1>1, <2>3, <3>1 DEF Listed!Pending
      <4> QED BY <1>1, <2>3, <4>1
    <3>2. CASE kind = "end"
      BY <1>1, <2>1, <2>3, <3>2 DEF ListInv, OneMinted
    <3> QED BY <3>1, <3>2
  <2> QED BY <2>2, <2>3 DEF OneMinted, Listed!Pending
<1> QED BY <1>3, <1>4, <1>5 DEF ListInv

LEMMA ListingAskKeeps ==
    ASSUME Listed!ListingsConstants, ListInv,
           \/ Listed!PublishNotebook \/ Listed!MintToken \/ Listed!MintInvite \/ Listed!RestoreVersion
           \/ \E i \in Listed!Things : \/ Listed!RevokeLink(i) \/ Listed!RevokeToken(i)
                                      \/ Listed!UploadFile(i) \/ Listed!DeleteUpload(i)
    PROVE  ListInv'
<1>1. 0 \in 0 .. MaxThings /\ \A i \in Listed!Things : i \in 0 .. MaxThings
  BY DEF Listed!ListingsConstants, Listed!Things
<1>2. CASE Listed!PublishNotebook \/ Listed!RestoreVersion \/ Listed!MintToken \/ Listed!MintInvite
  <2>1. Listed!Send("make", 0) /\ (what \in {"tokens", "invites"} => slip = 0) /\ ~Listed!Pending("make")
    BY <1>2 DEF Listed!PublishNotebook, Listed!RestoreVersion, Listed!MintToken, Listed!MintInvite
  <2> QED BY <1>1, <2>1, ListingSendKeeps
<1>3. ASSUME NEW i \in Listed!Things,
             Listed!RevokeLink(i) \/ Listed!RevokeToken(i) \/ Listed!DeleteUpload(i)
      PROVE  ListInv'
  <2>1. Listed!Send("end", i)
    BY <1>3 DEF Listed!RevokeLink, Listed!RevokeToken, Listed!DeleteUpload
  <2> QED BY <1>1, <2>1, ListingSendKeeps
<1>4. ASSUME NEW i \in Listed!Things, Listed!UploadFile(i) PROVE ListInv'
  <2>1. Listed!Send("make", i) /\ what = "uploads"
    BY <1>4 DEF Listed!UploadFile
  <2> QED BY <1>1, <2>1, ListingSendKeeps
<1> QED BY <1>2, <1>3, <1>4

\* The page is left, or the whole application.
LEMMA ListingLeaveKeeps ==
    ASSUME Listed!ListingsConstants, ListInv, Listed!Close \/ Listed!Reload \/ Listed!PutAway
    PROVE  ListInv'
<1>1. /\ fetched \in Listed!CachedQueries(Listed!Contents) /\ Listed!Server \in Listed!Contents
      /\ changes \subseteq Listed!Requests /\ 0 \in 0 .. MaxThings
  BY DEF ListInv, Listed!TypeOK, Listed!ListingsConstants
<1>2. UNCHANGED <<what, made, gone>> /\ Listed!Server' = Listed!Server
  BY DEF Listed!Close, Listed!Reload, Listed!PutAway, Listed!Server
<1>3. \A q \in changes :
        /\ [q EXCEPT !.here = FALSE] \in Listed!Requests
        /\ [q EXCEPT !.pc = "orphan", !.here = FALSE] \in Listed!Requests
        /\ [q EXCEPT !.here = FALSE].pc = q.pc /\ ~[q EXCEPT !.here = FALSE].here
        /\ ~[q EXCEPT !.pc = "orphan", !.here = FALSE].here
  <2> TAKE q \in changes
  <2>1. q \in [kind : {"make", "end"}, of : 0 .. MaxThings, pc : {"sent", "served", "orphan"},
               here : BOOLEAN]
    BY <1>1 DEF Listed!Requests
  <2>2. /\ [q EXCEPT !.here = FALSE] \in Listed!Requests
        /\ [q EXCEPT !.pc = "orphan", !.here = FALSE] \in Listed!Requests
    BY <2>1 DEF Listed!Requests
  <2>3. /\ [q EXCEPT !.here = FALSE].pc = q.pc /\ ~[q EXCEPT !.here = FALSE].here
        /\ ~[q EXCEPT !.pc = "orphan", !.here = FALSE].here
    BY <2>1
  <2> QED BY <2>2, <2>3
<1>4. CASE Listed!Close
  <2>1. changes' \subseteq Listed!Requests /\ (AllTold' => AllTold)
    BY <1>1, <1>3, <1>4 DEF Listed!Close, Listed!Kept, AllTold
  <2>2. Listed!TypeOK'
    BY <1>1, <1>2, <1>4, <2>1 DEF Listed!Close, ListInv, Listed!TypeOK
  <2>3. ListIsTrue'
    BY <1>2, <1>4, <2>1 DEF Listed!Close, ListInv, ListIsTrue, TrueTo
  <2>4. OneMinted'
    <3>1. slip' = 0
      BY <1>4 DEF Listed!Close
    <3>2. changes' = changes \/ \A q \in changes' : ~q.here
      BY <1>3, <1>4 DEF Listed!Close, Listed!Kept
    <3> QED BY <1>2, <3>1, <3>2 DEF ListInv, OneMinted
  <2> QED BY <2>2, <2>3, <2>4 DEF ListInv
<1>5. CASE Listed!Reload
  <2>1. changes' \subseteq Listed!Requests /\ \A q \in changes' : ~q.here
    <3>1. changes' = {[q EXCEPT !.pc = "orphan", !.here = FALSE] : q \in {r \in changes : r.pc # "served"}}
      BY <1>5 DEF Listed!Reload
    <3> QED BY <1>3, <3>1
  <2>2. fetched' = Listed!NoQuery /\ slip' = 0 /\ open' = FALSE /\ selected' = 0 /\ previews' = {}
    BY <1>5 DEF Listed!Reload
  <2>3. fetched' \in Listed!CachedQueries(Listed!Contents) /\ TrueTo(fetched', Listed!Server)
    BY <1>1, <2>2, QueryTypes, QueryTruth
  <2>4. Listed!TypeOK'
    BY <1>1, <1>2, <2>1, <2>2, <2>3 DEF ListInv, Listed!TypeOK
  <2>5. ListIsTrue'
    BY <1>2, <2>3 DEF ListIsTrue, TrueTo
  <2>6. OneMinted'
    BY <2>1, <2>2 DEF OneMinted
  <2> QED BY <2>4, <2>5, <2>6 DEF ListInv
<1>6. CASE Listed!PutAway
  <2>1. slip' = 0 /\ UNCHANGED <<fetched, open, changes, selected, previews>>
    BY <1>6 DEF Listed!PutAway
  <2>2. Listed!TypeOK'
    BY <1>1, <1>2, <2>1 DEF ListInv, Listed!TypeOK
  <2>3. ListIsTrue'
    BY <1>2, <2>1 DEF ListInv, ListIsTrue, AllTold, TrueTo
  <2>4. OneMinted'
    BY <1>2, <2>1 DEF ListInv, OneMinted
  <2> QED BY <2>2, <2>3, <2>4 DEF ListInv
<1> QED BY <1>4, <1>5, <1>6

\* The server's part.
LEMMA ListingServerTypes ==
    ASSUME Listed!ListingsConstants, Listed!Server \in Listed!Contents,
           Listed!Make \/ \E i \in Nat : Listed!End(i)
    PROVE  Listed!Server' \in Listed!Contents
<1>1. MaxThings \in Nat /\ made \in 0 .. MaxThings /\ gone \subseteq Listed!Things
  BY DEF Listed!ListingsConstants, Listed!Server, Listed!Contents
<1>2. CASE Listed!Make
  <2>1. made' \in 0 .. MaxThings /\ gone' = gone
    BY <1>1, <1>2 DEF Listed!Make
  <2> QED BY <1>1, <2>1 DEF Listed!Server, Listed!Contents
<1>3. ASSUME NEW i \in Nat, Listed!End(i) PROVE Listed!Server' \in Listed!Contents
  <2>1. i \in 1 .. made /\ gone' = gone \cup {i} /\ made' = made
    BY <1>3 DEF Listed!End
  <2>2. i \in Listed!Things
    BY <1>1, <2>1 DEF Listed!Things
  <2> QED BY <1>1, <2>1, <2>2 DEF Listed!Server, Listed!Contents
<1> QED BY <1>2, <1>3

LEMMA ListingServeKeeps ==
    ASSUME Listed!ListingsConstants, ListInv,
           Listed!Elsewhere \/ \E q \in changes : Listed!Serve(q)
    PROVE  ListInv'
<1>1. /\ fetched \in Listed!CachedQueries(Listed!Contents) /\ Listed!Server \in Listed!Contents
      /\ changes \subseteq Listed!Requests /\ MaxThings \in Nat
  BY DEF ListInv, Listed!TypeOK, Listed!ListingsConstants
<1>2. Listed!Make \/ \E i \in Nat : Listed!End(i)
  <2>1. CASE Listed!Elsewhere
    BY <1>1, <2>1 DEF Listed!Elsewhere, Listed!Things
  <2>2. ASSUME NEW q \in changes, Listed!Serve(q) PROVE Listed!Make \/ Listed!End(q.of)
    BY <2>2 DEF Listed!Serve
  <2>3. \A q \in changes : q.of \in Nat
    BY <1>1 DEF Listed!Requests
  <2> QED BY <2>1, <2>2, <2>3
<1>3. Listed!Server' \in Listed!Contents
  BY <1>1, <1>2, ListingServerTypes
<1>4. Listed!Behind(fetched) \in Listed!CachedQueries(Listed!Contents) /\ TrueTo(Listed!Behind(fetched), Listed!Server')
  BY <1>1, <1>3, QueryTypes, QueryTruth
<1>5. CASE Listed!Elsewhere
  <2>1. fetched' = Listed!Behind(fetched) /\ UNCHANGED <<what, open, changes, slip, selected, previews>>
    BY <1>5 DEF Listed!Elsewhere
  <2>2. Listed!TypeOK'
    BY <1>1, <1>3, <1>4, <2>1 DEF ListInv, Listed!TypeOK
  <2>3. ListIsTrue'
    BY <1>4, <2>1 DEF ListIsTrue, TrueTo
  <2>4. OneMinted'
    BY <2>1 DEF ListInv, OneMinted, Listed!Pending
  <2> QED BY <2>2, <2>3, <2>4 DEF ListInv
<1>6. ASSUME NEW q \in changes, Listed!Serve(q) PROVE ListInv'
  <2> DEFINE told == [q EXCEPT !.pc = "served", !.of = IF q.kind = "make" THEN made' ELSE @]
  <2>1. q \in Listed!Requests /\ UNCHANGED <<what, open, slip, selected, previews>>
    BY <1>1, <1>6 DEF Listed!Serve
  <2>2. made' \in 0 .. MaxThings
    BY <1>3 DEF Listed!Server, Listed!Contents
  <2>3. /\ told \in Listed!Requests /\ told.pc = "served"
        /\ told.kind = q.kind /\ told.here = q.here
    BY <2>1, <2>2 DEF Listed!Requests
  <2>4. /\ changes' = (changes \ {q}) \cup IF q.pc = "orphan" THEN {} ELSE {told}
        /\ fetched' = IF q.pc = "orphan" THEN Listed!Behind(fetched) ELSE fetched
    BY <1>6 DEF Listed!Serve
  <2>5. Listed!TypeOK'
    BY <1>1, <1>3, <1>4, <2>1, <2>3, <2>4 DEF ListInv, Listed!TypeOK
  <2>6. ListIsTrue'
    <3>1. CASE q.pc = "orphan"
      BY <1>4, <2>4, <3>1 DEF ListIsTrue, TrueTo
    <3>2. CASE q.pc # "orphan"
      BY <2>3, <2>4, <3>2 DEF ListIsTrue, AllTold
    <3> QED BY <3>1, <3>2
  <2>7. OneMinted'
    BY <2>1, <2>3, <2>4 DEF ListInv, OneMinted, Listed!Pending
  <2> QED BY <2>5, <2>6, <2>7 DEF ListInv
<1> QED BY <1>5, <1>6

\* An answer arrives, or none.
LEMMA ListingAnswerKeeps ==
    ASSUME Listed!ListingsConstants, ListInv, NEW q \in changes,
           \/ Listed!NotebookPublished(q) \/ Listed!LinkRevoked(q) \/ Listed!TokenMinted(q)
           \/ Listed!TokenRevoked(q) \/ Listed!InviteMinted(q) \/ Listed!VersionRestored(q)
           \/ Listed!FileUploaded(q) \/ Listed!UploadDeleted(q) \/ Listed!Unanswered(q)
    PROVE  ListInv'
<1>1. /\ fetched \in Listed!CachedQueries(Listed!Contents) /\ Listed!Server \in Listed!Contents
      /\ changes \subseteq Listed!Requests /\ 0 \in 0 .. MaxThings /\ open \in BOOLEAN
      /\ q.of \in 0 .. MaxThings /\ slip \in 0 .. MaxThings /\ selected \in 0 .. MaxThings
  BY DEF ListInv, Listed!TypeOK, Listed!ListingsConstants, Listed!Requests
<1>2. UNCHANGED <<what, made, gone, previews>> /\ changes' = changes \ {q} /\ Listed!Server' = Listed!Server
  BY DEF Listed!NotebookPublished, Listed!LinkRevoked, Listed!TokenMinted, Listed!TokenRevoked,
         Listed!InviteMinted, Listed!VersionRestored, Listed!FileUploaded, Listed!UploadDeleted,
         Listed!Unanswered, Listed!Answered, Listed!Server
<1>3. CASE Listed!Unanswered(q)
  <2>1. /\ UNCHANGED <<open, slip, selected>>
        /\ fetched' = IF q.pc = "served" THEN Listed!Behind(fetched) ELSE fetched
    BY <1>3 DEF Listed!Unanswered
  <2>2. Listed!Behind(fetched) \in Listed!CachedQueries(Listed!Contents) /\ TrueTo(Listed!Behind(fetched), Listed!Server)
    BY <1>1, QueryTypes, QueryTruth
  <2>3. Listed!TypeOK'
    BY <1>1, <1>2, <2>1, <2>2 DEF ListInv, Listed!TypeOK
  <2>4. ListIsTrue'
    <3>1. CASE q.pc = "served"
      BY <1>2, <2>1, <2>2, <3>1 DEF ListIsTrue, TrueTo
    <3>2. CASE q.pc # "served"
      BY <1>2, <2>1, <3>2 DEF ListInv, ListIsTrue, AllTold, TrueTo
    <3> QED BY <3>1, <3>2
  <2>5. OneMinted'
    BY <1>2, <2>1 DEF ListInv, OneMinted, Listed!Pending
  <2> QED BY <2>3, <2>4, <2>5 DEF ListInv
<1>4. CASE ~Listed!Unanswered(q)
  <2>1. fetched' = Listed!Invalidated(fetched, open)
    BY <1>4 DEF Listed!NotebookPublished, Listed!LinkRevoked, Listed!TokenMinted, Listed!TokenRevoked,
         Listed!InviteMinted, Listed!VersionRestored, Listed!FileUploaded, Listed!UploadDeleted, Listed!Refetch
  <2>2. fetched' \in Listed!CachedQueries(Listed!Contents) /\ TrueTo(fetched', Listed!Server)
    BY <1>1, <2>1, QueryTypes, QueryTruth
  <2>3. /\ open' \in BOOLEAN /\ selected' \in 0 .. MaxThings
        /\ slip' = slip \/ (slip' = q.of /\ q.here /\ q.kind = "make" /\ what \in {"tokens", "invites"})
    BY <1>1, <1>4 DEF Listed!NotebookPublished, Listed!LinkRevoked, Listed!TokenMinted, Listed!TokenRevoked,
         Listed!InviteMinted, Listed!VersionRestored, Listed!FileUploaded, Listed!UploadDeleted
  <2>4. Listed!TypeOK'
    BY <1>1, <1>2, <2>2, <2>3 DEF ListInv, Listed!TypeOK
  <2>5. ListIsTrue'
    BY <1>2, <2>2 DEF ListIsTrue, TrueTo
  <2>6. OneMinted'
    BY <1>2, <2>3 DEF ListInv, OneMinted, Listed!Pending
  <2> QED BY <2>4, <2>5, <2>6 DEF ListInv
<1> QED BY <1>3, <1>4

LEMMA ListedInductive ==
    ASSUME Listed!ListingsConstants, ListInv, [Listed!Next]_Listed!listingsVars
    PROVE  ListInv'
<1>1. CASE UNCHANGED Listed!listingsVars
  <2>1. UNCHANGED <<what, made, gone, fetched, open, changes, slip, selected, previews>>
    BY <1>1 DEF Listed!listingsVars
  <2> QED BY <2>1, ListingStepKeeps DEF ListInv, Listed!TypeOK
<1>2. CASE Listed!Next
  BY <1>2, ListingOnlyKeeps, ListingAskKeeps, ListingLeaveKeeps, ListingServeKeeps, ListingAnswerKeeps DEF Listed!Next
<1> QED BY <1>1, <1>2

LEMMA ListInvImplies == ListInv => Listed!TypeOK /\ Listed!ListIsCurrent /\ Listed!SecretsAreShown
BY DEF ListInv, ListIsTrue, AllTold, TrueTo, OneMinted, Listed!ListIsCurrent, Listed!Settled, Listed!SecretsAreShown

LEMMA ListedBehaves == Spec => Listed!Spec
<1>1. Init => Listed!Init
  BY DEF Init
<1>2. [Next]_partsVars => [Listed!Next]_(Listed!listingsVars)
  <2>1. ListedStep => Listed!Next
    BY DEF ListedStep
  <2>2. TabsStep \/ SavedStep \/ TalkStep \/ BoundStep \/ SownStep \/ FilesStep
        \/ DrawnStep \/ FoundStep \/ ChosenStep
        \/ SignedStep \/ UNCHANGED partsVars => UNCHANGED Listed!listingsVars
    BY DEF TabsStep, SavedStep, TalkStep, BoundStep, SownStep,
           FilesStep, DrawnStep, FoundStep, ChosenStep,
           SignedStep, partsVars, listedVars, Listed!listingsVars
  <2> QED BY <2>1, <2>2 DEF Next
<1> QED BY <1>1, <1>2, PTL DEF Spec, Listed!Spec

LEMMA ListedHolds == Spec => []ListInv
<1>1. Listed!ListingsConstants
  BY PartsAssumption
<1>2. Listed!Init => ListInv
  BY <1>1, ListedInitEstablishes
<1>3. ListInv /\ [Listed!Next]_(Listed!listingsVars) => ListInv'
  BY <1>1, ListedInductive
<1> QED BY <1>2, <1>3, ListedBehaves, PTL DEF Listed!Spec

\* However many links, tokens, invites, versions and files are made and ended,
\* whatever is left, come back to and answered late: a list that is taken for
\* current is what the server has, unless the cache has missed a change: one
\* whose answer was lost, that was made elsewhere, or that was answered while the
\* first list was on its way.  And, without exception, no second secret takes the
\* place of one that is still on display.
THEOREM ListingsRight == Spec => []ListingsAreRight
<1>1. ListInv => ListingsAreRight
  BY ListInvImplies DEF ListingsAreRight
<1> QED BY <1>1, ListedHolds, PTL

---------------------------------------------------------------------------
(* Who is signed in.                                                       *)

\* The two caches are of one kind.
LEMMA SameCache ==
    /\ Signed!NoQuery = Listed!NoQuery
    /\ \A V : Signed!CachedQueries(V) = Listed!CachedQueries(V)
    /\ \A q :
        /\ Signed!Asked(q) = Listed!Asked(q)
        /\ \A old : Signed!Mounted(q, old) = Listed!Mounted(q, old)
        /\ \A v, t : Signed!ReadAs(q, v, t) = Listed!ReadAs(q, v, t)
        /\ Signed!Arrived(q) = Listed!Arrived(q)
        /\ Signed!Failures(q) = Listed!Failures(q)
        /\ \A on : Signed!Invalidated(q, on) = Listed!Invalidated(q, on)
        /\ Signed!Behind(q) = Listed!Behind(q)
BY DEF Signed!NoQuery, Listed!NoQuery, Signed!CachedQueries, Listed!CachedQueries,
       Signed!Asked, Listed!Asked, Signed!Mounted, Listed!Mounted, Signed!ReadAs, Listed!ReadAs,
       Signed!Arrived, Listed!Arrived, Signed!Failures, Listed!Failures,
       Signed!Invalidated, Listed!Invalidated, Signed!Behind, Listed!Behind

\* Nothing has changed who is signed in without the page having been told.
AsTold == \A q \in signing : q.pc = "sent"

StatusIsTrue == AsTold => TrueTo(status, Signed!Truth)

\* A page that is not being left is one for the status it was last given.
OnRightPage ==
    going \in {Stay, where} /\ ~dropped /\ status.data # Unknown => Signed!Redirect(where, status.data) = Stay

\* Who has signed up has an account.
ServedHaveTheirs == \A q \in signing : q.pc = "served" => q.as \in accounts

SignInv == Signed!TypeOK /\ StatusIsTrue /\ OnRightPage /\ ServedHaveTheirs

\* A page sends nobody to itself.
LEMMA RedirectIs ==
    ASSUME Signed!SignInConstants, NEW p \in Signed!Pages, NEW d
    PROVE  /\ Signed!Redirect(p, d) \in Signed!Pages \cup {Stay}
           /\ Signed!Redirect(p, d) # p
           /\ Signed!Redirect(p, Unknown) = Stay
<1>1. Stay # p /\ p \in {"home", "tokens", "admin", "login", "register", "invited"}
  BY DEF Signed!SignInConstants, Signed!Pages
<1>2. /\ Signed!AuthRequired(d) \in {Stay, "login", "register"}
      /\ Signed!AdminRequired(d) \in {Stay, "login", "register", "home"}
      /\ Signed!LoginLeft(d) \in {Stay, "home", "register"}
      /\ \A i : Signed!RegisterLeft(d, i) \in {Stay, "home", "login"}
  BY DEF Signed!AuthRequired, Signed!AdminRequired, Signed!LoginLeft, Signed!RegisterLeft
<1>3. Signed!Redirect(p, Unknown) = Stay
  BY DEF Signed!Redirect
<1>4. CASE d = Unknown
  BY <1>1, <1>3, <1>4
<1>5. CASE d # Unknown
  <2>1. CASE p \in {"home", "tokens"}
    <3>1. Signed!Redirect(p, d) = Signed!AuthRequired(d)
      BY <1>5, <2>1 DEF Signed!Redirect
    <3> QED BY <1>1, <1>2, <1>3, <2>1, <3>1 DEF Signed!Pages
  <2>2. CASE p = "admin"
    <3>1. Signed!Redirect(p, d) = Signed!AdminRequired(d)
      BY <1>5, <2>2 DEF Signed!Redirect
    <3> QED BY <1>1, <1>2, <1>3, <2>2, <3>1 DEF Signed!Pages
  <2>3. CASE p = "login"
    <3>1. Signed!Redirect(p, d) = Signed!LoginLeft(d)
      BY <1>5, <2>3 DEF Signed!Redirect
    <3> QED BY <1>1, <1>2, <1>3, <2>3, <3>1 DEF Signed!Pages
  <2>4. CASE p \in {"register", "invited"}
    <3>1. PICK i : Signed!Redirect(p, d) = Signed!RegisterLeft(d, i)
      BY <1>5, <2>4 DEF Signed!Redirect
    <3> QED BY <1>1, <1>2, <1>3, <2>4, <3>1 DEF Signed!Pages
  <2> QED BY <1>1, <2>1, <2>2, <2>3, <2>4
<1> QED BY <1>4, <1>5

LEMMA SignTruthTypes == ASSUME Signed!TypeOK PROVE Signed!Truth \in Signed!Statuses
BY DEF Signed!TypeOK, Signed!Truth, Signed!Statuses, Signed!Roles

LEMMA SignedInitEstablishes == Signed!SignInConstants /\ Signed!Init => SignInv
<1> SUFFICES ASSUME Signed!SignInConstants, Signed!Init PROVE SignInv
  OBVIOUS
<1>1. status.data = Unknown /\ status.phase = "asked" /\ status \in Signed!CachedQueries(Signed!Statuses)
  BY DEF Signed!Init, Signed!Asked, Signed!NoQuery, Signed!CachedQueries
<1>2. Signed!TypeOK
  BY <1>1 DEF Signed!Init, Signed!TypeOK
<1>3. ServedHaveTheirs
  BY DEF Signed!Init, ServedHaveTheirs
<1> QED BY <1>1, <1>2, <1>3 DEF SignInv, StatusIsTrue, TrueTo, OnRightPage

\* The accounts and the cookie stay as they are, and the page where it is.
LEMMA SignStepKeeps ==
    ASSUME Signed!SignInConstants, SignInv,
           UNCHANGED <<house, accounts, cookie, where>>,
           status' \in Signed!CachedQueries(Signed!Statuses), signing' \subseteq Signed!Requests,
           going' \in Signed!Pages \cup {Stay}, dropped' \in BOOLEAN,
           AsTold' => TrueTo(status', Signed!Truth), OnRightPage', ServedHaveTheirs'
    PROVE  SignInv'
<1>1. Signed!Truth' = Signed!Truth
  BY DEF Signed!Truth
<1>2. Signed!TypeOK'
  BY DEF SignInv, Signed!TypeOK
<1>3. StatusIsTrue'
  BY <1>1 DEF StatusIsTrue, TrueTo
<1> QED BY <1>2, <1>3 DEF SignInv

LEMMA StatusFacts ==
    ASSUME SignInv
    PROVE  /\ status \in Listed!CachedQueries(Signed!Statuses) /\ Signed!Truth \in Signed!Statuses
           /\ status.data \in Signed!Statuses \cup {Unknown} /\ status.read \in Signed!Statuses \cup {Unknown}
<1>1. status \in Listed!CachedQueries(Signed!Statuses)
  BY SameCache DEF SignInv, Signed!TypeOK
<1>2. Signed!Truth \in Signed!Statuses
  BY SignTruthTypes DEF SignInv
<1> QED BY <1>1, <1>2 DEF Listed!CachedQueries

\* The query goes on.
LEMMA StatusKeeps ==
    ASSUME Signed!SignInConstants, SignInv,
           \/ Signed!Focus \/ Signed!Rerender \/ Signed!StatusRead \/ Signed!StatusArrives \/ Signed!StatusFails
    PROVE  SignInv'
<1>1. /\ status \in Listed!CachedQueries(Signed!Statuses) /\ Signed!Truth \in Signed!Statuses
      /\ status.data \in Signed!Statuses \cup {Unknown} /\ status.read \in Signed!Statuses \cup {Unknown}
  BY StatusFacts
<1>2. /\ where \in Signed!Pages /\ going \in Signed!Pages \cup {Stay} /\ dropped \in BOOLEAN
      /\ signing \subseteq Signed!Requests
  BY DEF SignInv, Signed!TypeOK
<1>3. UNCHANGED <<house, accounts, cookie, where, signing, dropped>> /\ (AsTold' <=> AsTold)
  BY DEF Signed!Focus, Signed!Rerender, Signed!StatusRead, Signed!StatusArrives, Signed!StatusFails,
         Signed!Server, AsTold
<1>4. \A p, d : Signed!Redirect(p, d)' = Signed!Redirect(p, d)
  BY <1>3 DEF Signed!Redirect, Signed!AuthRequired, Signed!AdminRequired, Signed!LoginLeft,
              Signed!RegisterLeft, Signed!Out
<1>5. /\ status' \in Listed!CachedQueries(Signed!Statuses)
      /\ TrueTo(status, Signed!Truth) => TrueTo(status', Signed!Truth)
  <2>1. CASE Signed!Focus \/ Signed!Rerender
    <3>1. status' = Listed!Mounted(status, TRUE)
      BY <2>1, SameCache DEF Signed!Focus, Signed!Rerender, Listed!Mounted
    <3> QED BY <1>1, <3>1, QueryTypes, QueryTruth
  <2>2. CASE Signed!StatusRead
    <3>1. status' = Listed!ReadAs(status, Signed!Truth, Signed!Truth)
      BY <2>2, SameCache DEF Signed!StatusRead
    <3> QED BY <1>1, <3>1, QueryTypes, QueryTruth
  <2>3. CASE Signed!StatusArrives
    <3>1. status' = Listed!Arrived(status) /\ status.phase = "read"
      BY <2>3, SameCache DEF Signed!StatusArrives
    <3> QED BY <1>1, <3>1, QueryTypes, QueryTruth
  <2>4. CASE Signed!StatusFails
    <3>1. status' \in Listed!Failures(status)
      BY <2>4, SameCache DEF Signed!StatusFails
    <3> QED BY <1>1, <3>1, QueryTypes, QueryTruth
  <2> QED BY <2>1, <2>2, <2>3, <2>4
<1>6. going' \in Signed!Pages \cup {Stay} /\ OnRightPage'
  <2>1. CASE Signed!StatusArrives
    <3>1. status'.data = status.read
      BY <2>1 DEF Signed!StatusArrives, Signed!Arrived, Signed!NoQuery
    <3>2. going' = IF status.read = status.data \/ Signed!Redirect(where, status.read) = Stay THEN going
                   ELSE Signed!Redirect(where, status.read)
      BY <2>1 DEF Signed!StatusArrives
    <3>3. Signed!Redirect(where, status.read) \in Signed!Pages \cup {Stay} /\ Signed!Redirect(where, status.read) # where
      BY <1>2, RedirectIs
    <3> QED BY <1>2, <1>3, <1>4, <3>1, <3>2, <3>3 DEF SignInv, OnRightPage
  <2>2. CASE ~Signed!StatusArrives
    <3>1. going' = going /\ status'.data = status.data
      BY <1>1, <2>2 DEF Signed!Focus, Signed!Rerender, Signed!StatusRead, Signed!StatusFails, Signed!Asked,
                        Signed!ReadAs, Signed!Failures, Listed!CachedQueries
    <3> QED BY <1>2, <1>3, <1>4, <3>1 DEF SignInv, OnRightPage
  <2> QED BY <2>1, <2>2
<1>7. AsTold' => TrueTo(status', Signed!Truth)
  BY <1>3, <1>5 DEF SignInv, StatusIsTrue
<1>8. ServedHaveTheirs'
  BY <1>3 DEF SignInv, ServedHaveTheirs
<1> QED BY <1>2, <1>3, <1>5, <1>6, <1>7, <1>8, SignStepKeeps, SameCache

\* A page mounts.
LEMMA SignArriveKeeps ==
    ASSUME Signed!SignInConstants, SignInv, Signed!Arrive
    PROVE  SignInv'
<1>1. /\ status \in Listed!CachedQueries(Signed!Statuses) /\ Signed!Truth \in Signed!Statuses
      /\ status.data \in Signed!Statuses \cup {Unknown} /\ status.read \in Signed!Statuses \cup {Unknown}
  BY StatusFacts
<1>2. /\ where \in Signed!Pages /\ going \in Signed!Pages /\ dropped \in BOOLEAN
      /\ signing \subseteq Signed!Requests /\ Stay \notin Signed!Pages
  BY DEF SignInv, Signed!TypeOK, Signed!SignInConstants, Signed!Arrive
<1>3. UNCHANGED <<house, accounts, cookie>> /\ Signed!Truth' = Signed!Truth
  BY DEF Signed!Arrive, Signed!Server, Signed!Truth
<1>4. \A p, d : Signed!Redirect(p, d)' = Signed!Redirect(p, d)
  BY <1>3 DEF Signed!Redirect, Signed!AuthRequired, Signed!AdminRequired, Signed!LoginLeft,
              Signed!RegisterLeft, Signed!Out
<1>5. signing' \subseteq Signed!Requests /\ (AsTold' => AsTold) /\ ServedHaveTheirs'
  <2>1. signing' = {[q EXCEPT !.here = FALSE] : q \in signing}
    BY DEF Signed!Arrive
  <2>2. ASSUME NEW q \in signing
        PROVE  /\ [q EXCEPT !.here = FALSE] \in Signed!Requests
               /\ [q EXCEPT !.here = FALSE].pc = q.pc /\ [q EXCEPT !.here = FALSE].as = q.as
    BY <1>2, <2>2 DEF Signed!Requests
  <2> QED BY <1>3, <2>1, <2>2 DEF AsTold, ServedHaveTheirs, SignInv
<1>6. CASE going = where
  <2>1. going' = Stay /\ UNCHANGED <<where, status, dropped>>
    BY <1>6 DEF Signed!Arrive
  <2>2. OnRightPage'
    BY <1>2, <1>4, <1>6, <2>1 DEF SignInv, OnRightPage
  <2>3. AsTold' => TrueTo(status', Signed!Truth)
    BY <1>5, <2>1 DEF SignInv, StatusIsTrue
  <2>4. status \in Signed!CachedQueries(Signed!Statuses)
    BY DEF SignInv, Signed!TypeOK
  <2> QED BY <1>2, <1>3, <1>5, <2>1, <2>2, <2>3, <2>4, SignStepKeeps
<1>7. CASE going # where
  <2>1. PICK old \in BOOLEAN : /\ where' = going /\ status' = Signed!Mounted(status, old)
                               /\ going' = Signed!Redirect(going, status.data) /\ dropped' = FALSE
    BY <1>7 DEF Signed!Arrive, Signed!Mount
  <2>2. status' = Listed!Mounted(status, old)
    BY <2>1, SameCache
  <2>3. /\ status' \in Listed!CachedQueries(Signed!Statuses)
        /\ TrueTo(status, Signed!Truth) => TrueTo(status', Signed!Truth)
    BY <1>1, <2>2, QueryTypes, QueryTruth
  <2>4. status'.data = status.data
    BY <1>1, <2>2 DEF Listed!Mounted, Listed!Asked, Listed!CachedQueries
  <2>5. /\ Signed!Redirect(going, status.data) \in Signed!Pages \cup {Stay}
        /\ Signed!Redirect(going, status.data) # going
    BY <1>2, RedirectIs
  <2>6. Signed!Redirect(where, status.data)' = going'
    <3>1. Signed!Redirect(where, status.data)' = Signed!Redirect(where', status'.data)
      BY <1>3 DEF Signed!Redirect, Signed!AuthRequired, Signed!AdminRequired, Signed!LoginLeft,
                  Signed!RegisterLeft, Signed!Out
    <3> QED BY <2>1, <2>4, <3>1
  <2>7. OnRightPage'
    BY <2>1, <2>5, <2>6 DEF OnRightPage
  <2>8. StatusIsTrue'
    BY <1>3, <1>5, <2>3 DEF SignInv, StatusIsTrue, TrueTo
  <2>9. Signed!TypeOK'
    BY <1>2, <1>3, <1>5, <2>1, <2>3, <2>5, SameCache DEF SignInv, Signed!TypeOK
  <2> QED BY <1>5, <2>7, <2>8, <2>9 DEF SignInv
<1> QED BY <1>6, <1>7

\* The browser loads a page anew.
LEMMA SignLoadKeeps ==
    ASSUME Signed!SignInConstants, SignInv, NEW p \in Signed!Pages, Signed!Load(p)
    PROVE  SignInv'
<1>1. /\ where' = p /\ going' = Stay /\ dropped' = FALSE /\ signing' = {}
      /\ UNCHANGED <<house, accounts, cookie>>
  BY DEF Signed!Load, Signed!Server
<1>2. status' \in Signed!CachedQueries(Signed!Statuses) /\ status'.data = Unknown /\ status'.phase = "asked"
  BY DEF Signed!Load, Signed!Asked, Signed!NoQuery, Signed!CachedQueries
<1>3. Signed!TypeOK'
  BY <1>1, <1>2 DEF SignInv, Signed!TypeOK
<1>4. StatusIsTrue' /\ OnRightPage' /\ ServedHaveTheirs'
  BY <1>1, <1>2 DEF StatusIsTrue, TrueTo, OnRightPage, ServedHaveTheirs
<1> QED BY <1>3, <1>4 DEF SignInv

\* A link is followed, or a form sent.
LEMMA SignUserKeeps ==
    ASSUME Signed!SignInConstants, SignInv,
           \/ Signed!LogIn \/ Signed!SignUp \/ Signed!LogOut
           \/ \E p \in Signed!Pages : Signed!Follow(p)
    PROVE  SignInv'
<1>1. UNCHANGED <<house, accounts, cookie, where, status, dropped>>
  BY DEF Signed!LogIn, Signed!SignUp, Signed!LogOut, Signed!Follow, Signed!Send, Signed!Server
<1>2. /\ status \in Signed!CachedQueries(Signed!Statuses) /\ where \in Signed!Pages
      /\ going \in Signed!Pages \cup {Stay} /\ dropped \in BOOLEAN /\ signing \subseteq Signed!Requests
  BY DEF SignInv, Signed!TypeOK
<1>3. \A p, d : Signed!Redirect(p, d)' = Signed!Redirect(p, d)
  BY <1>1 DEF Signed!Redirect, Signed!AuthRequired, Signed!AdminRequired, Signed!LoginLeft,
              Signed!RegisterLeft, Signed!Out
<1>4. CASE \E p \in Signed!Pages : Signed!Follow(p)
  <2>1. PICK p \in Signed!Pages : p \in Signed!Links /\ going' = p /\ signing' = signing
    BY <1>4 DEF Signed!Follow
  <2>2. p # where
    BY <2>1 DEF Signed!Links
  <2>3. OnRightPage'
    BY <1>1, <2>1, <2>2 DEF OnRightPage, Signed!SignInConstants
  <2>4. ServedHaveTheirs' /\ (AsTold' => TrueTo(status', Signed!Truth))
    BY <1>1, <2>1 DEF SignInv, ServedHaveTheirs, StatusIsTrue, AsTold
  <2> QED BY <1>1, <1>2, <2>1, <2>3, <2>4, SignStepKeeps
<1>5. CASE Signed!LogIn \/ Signed!SignUp \/ Signed!LogOut
  <2>1. PICK kind \in {"login", "register", "logout"} : Signed!Send(kind)
    BY <1>5 DEF Signed!LogIn, Signed!SignUp, Signed!LogOut
  <2>2. going' = going /\ signing' = signing \cup
            {[kind |-> kind, pc |-> "sent", as |-> "none", here |-> TRUE, invited |-> where = "invited"]}
    BY <2>1 DEF Signed!Send
  <2>3. /\ signing' \subseteq Signed!Requests /\ (AsTold' => AsTold)
        /\ \A q \in signing' : q.pc = "served" => q \in signing
    <3>1. (where = "invited") \in BOOLEAN
      OBVIOUS
    <3>2. [kind |-> kind, pc |-> "sent", as |-> "none", here |-> TRUE, invited |-> where = "invited"]
            \in Signed!Requests
      BY <2>1, <3>1 DEF Signed!Requests
    <3>3. signing' \subseteq Signed!Requests
      BY <1>2, <2>2, <3>2
    <3>4. \A q \in signing' : q.pc = "sent" \/ q \in signing
      BY <2>2
    <3> QED BY <2>2, <3>3, <3>4 DEF AsTold
  <2>4. ServedHaveTheirs' /\ (AsTold' => TrueTo(status', Signed!Truth))
    BY <1>1, <2>3 DEF SignInv, ServedHaveTheirs, StatusIsTrue
  <2>5. OnRightPage'
    BY <1>1, <1>3, <2>2 DEF SignInv, OnRightPage
  <2> QED BY <1>1, <1>2, <2>2, <2>3, <2>4, <2>5, SignStepKeeps
<1> QED BY <1>4, <1>5

\* The server signs up, the answer is on its way, or another window is heard of.
LEMMA SignAnswerKeeps ==
    ASSUME Signed!SignInConstants, SignInv, NEW q \in signing,
           Signed!Register(q) \/ Signed!CookieSet(q) \/ Signed!Unanswered(q)
    PROVE  SignInv'
<1>1. /\ status \in Listed!CachedQueries(Signed!Statuses) /\ where \in Signed!Pages
      /\ house \in [auth : BOOLEAN, signup : BOOLEAN]
      /\ accounts \subseteq Signed!Roles /\ cookie \in accounts \cup {"none"}
      /\ going \in Signed!Pages \cup {Stay} /\ dropped \in BOOLEAN /\ signing \subseteq Signed!Requests
      /\ q \in Signed!Requests /\ ServedHaveTheirs
  BY SameCache DEF SignInv, Signed!TypeOK
<1>2. UNCHANGED <<house, where, going, dropped>>
  BY DEF Signed!Register, Signed!Registered, Signed!CookieSet, Signed!Unanswered, Signed!Server
<1>3. \A p, d : Signed!Redirect(p, d)' = Signed!Redirect(p, d)
  BY <1>2 DEF Signed!Redirect, Signed!AuthRequired, Signed!AdminRequired, Signed!LoginLeft,
              Signed!RegisterLeft, Signed!Out
<1>4. \A kind \in {"login", "register", "logout"} :
        Signed!ToTell(kind) \in Signed!Requests /\ Signed!ToTell(kind).pc = "answered"
  BY DEF Signed!ToTell, Signed!Requests
<1>5. q.kind \in {"login", "register", "logout"}
  BY <1>1 DEF Signed!Requests
<1>6. CASE Signed!Register(q)
  <2>1. PICK role \in IF accounts = {} THEN {"admin"} ELSE Signed!Roles :
            /\ Signed!Registered(role)
            /\ signing' = (signing \ {q}) \cup {[q EXCEPT !.pc = "served", !.as = role]}
    BY <1>6 DEF Signed!Register
  <2>2. role \in Signed!Roles /\ accounts' = accounts \cup {role} /\ cookie' = cookie /\ status' = status
    BY <1>6, <2>1 DEF Signed!Register, Signed!Registered, Signed!Roles
  <2>3. /\ [q EXCEPT !.pc = "served", !.as = role] \in Signed!Requests
        /\ [q EXCEPT !.pc = "served", !.as = role].pc = "served"
        /\ [q EXCEPT !.pc = "served", !.as = role].as = role
    BY <1>1, <2>2 DEF Signed!Requests
  <2>4. ~AsTold'
    BY <2>1, <2>3 DEF AsTold
  <2>5. ServedHaveTheirs'
    BY <1>1, <2>1, <2>2, <2>3 DEF ServedHaveTheirs
  <2>6. OnRightPage'
    BY <1>2, <1>3, <2>2 DEF SignInv, OnRightPage
  <2>7. Signed!TypeOK'
    BY <1>1, <1>2, <2>1, <2>2, <2>3, SameCache DEF Signed!TypeOK
  <2> QED BY <2>4, <2>5, <2>6, <2>7 DEF SignInv, StatusIsTrue
<1>7. CASE Signed!CookieSet(q)
  <2>1. /\ signing' = (signing \ {q}) \cup {Signed!ToTell(q.kind)} /\ accounts' = accounts
        /\ status' = status /\ cookie' \in accounts \cup {"none"}
    BY <1>1, <1>7 DEF Signed!CookieSet, ServedHaveTheirs
  <2>2. ~AsTold'
    BY <1>4, <1>5, <2>1 DEF AsTold
  <2>3. ServedHaveTheirs'
    BY <1>1, <1>4, <1>5, <2>1 DEF ServedHaveTheirs
  <2>4. OnRightPage'
    BY <1>2, <1>3, <2>1 DEF SignInv, OnRightPage
  <2>5. Signed!TypeOK'
    BY <1>1, <1>2, <1>4, <1>5, <2>1, SameCache DEF Signed!TypeOK
  <2> QED BY <2>2, <2>3, <2>4, <2>5 DEF SignInv, StatusIsTrue
<1>8. CASE Signed!Unanswered(q)
  <2>1. /\ signing' = (signing \ {q}) \cup IF q.kind = "logout" THEN {Signed!ToTell("logout")} ELSE {}
        /\ status' = IF q.pc = "served" THEN Listed!Behind(status) ELSE status
        /\ UNCHANGED <<accounts, cookie>> /\ q.pc # "answered"
    BY <1>8, SameCache DEF Signed!Unanswered, Signed!Server
  <2>2. Signed!Truth' = Signed!Truth /\ Signed!Truth \in Signed!Statuses
    BY <1>2, <2>1, SignTruthTypes DEF Signed!Truth, SignInv
  <2>3. /\ Listed!Behind(status) \in Listed!CachedQueries(Signed!Statuses)
        /\ TrueTo(Listed!Behind(status), Signed!Truth)
    BY <1>1, <2>2, QueryTypes, QueryTruth
  <2>4. Listed!Behind(status).data = status.data
    BY <1>1 DEF Listed!Behind, Listed!CachedQueries
  <2>5. OnRightPage'
    BY <1>2, <1>3, <2>1, <2>4 DEF SignInv, OnRightPage
  <2>6. signing' \subseteq Signed!Requests /\ ServedHaveTheirs'
    BY <1>1, <1>4, <2>1 DEF ServedHaveTheirs
  <2>7. AsTold' => TrueTo(status', Signed!Truth)
    <3>1. CASE q.pc = "served"
      BY <2>1, <2>3, <3>1
    <3>2. CASE q.pc # "served"
      <4>1. AsTold' => AsTold
        BY <1>1, <2>1, <3>2 DEF AsTold, Signed!Requests
      <4> QED BY <2>1, <3>2, <4>1 DEF SignInv, StatusIsTrue
    <3> QED BY <3>1, <3>2
  <2>8. status' \in Signed!CachedQueries(Signed!Statuses)
    BY <1>1, <2>1, <2>3, SameCache
  <2> QED BY <1>1, <1>2, <2>1, <2>5, <2>6, <2>7, <2>8, SignStepKeeps
<1> QED BY <1>6, <1>7, <1>8

LEMMA SignElsewhereKeeps ==
    ASSUME Signed!SignInConstants, SignInv, Signed!Elsewhere
    PROVE  SignInv'
<1>1. /\ status \in Listed!CachedQueries(Signed!Statuses) /\ where \in Signed!Pages
      /\ house \in [auth : BOOLEAN, signup : BOOLEAN]
      /\ accounts \subseteq Signed!Roles /\ cookie \in accounts \cup {"none"}
      /\ going \in Signed!Pages \cup {Stay} /\ dropped \in BOOLEAN /\ signing \subseteq Signed!Requests
      /\ ServedHaveTheirs
  BY SameCache DEF SignInv, Signed!TypeOK
<1>2. UNCHANGED <<house, where, going, dropped, signing>> /\ status' = Listed!Behind(status)
  BY SameCache DEF Signed!Elsewhere, Signed!Registered
<1>3. accounts' \subseteq Signed!Roles /\ cookie' \in accounts' \cup {"none"} /\ accounts \subseteq accounts'
  BY <1>1 DEF Signed!Elsewhere, Signed!Registered, Signed!Roles
<1>4. status' \in Listed!CachedQueries(Signed!Statuses)
  <2>1. Signed!Truth \in Signed!Statuses
    BY SignTruthTypes DEF SignInv
  <2> QED BY <1>1, <1>2, <2>1, QueryTypes
<1>5. Signed!TypeOK'
  BY <1>1, <1>2, <1>3, <1>4, SameCache DEF Signed!TypeOK
<1>6. StatusIsTrue'
  <2>1. Signed!Truth' \in Signed!Statuses
    BY <1>5 DEF Signed!TypeOK, Signed!Truth, Signed!Statuses, Signed!Roles
  <2>2. TrueTo(Listed!Behind(status), Signed!Truth')
    BY <1>1, <2>1, QueryTruth
  <2> QED BY <1>2, <2>2 DEF StatusIsTrue, TrueTo
<1>7. OnRightPage'
  <2>1. \A p, d : Signed!Redirect(p, d)' = Signed!Redirect(p, d)
    BY <1>2 DEF Signed!Redirect, Signed!AuthRequired, Signed!AdminRequired, Signed!LoginLeft,
                Signed!RegisterLeft, Signed!Out
  <2>2. status'.data = status.data
    BY <1>1, <1>2 DEF Listed!Behind, Listed!CachedQueries
  <2> QED BY <1>2, <2>1, <2>2 DEF SignInv, OnRightPage
<1>8. ServedHaveTheirs'
  BY <1>1, <1>2, <1>3 DEF ServedHaveTheirs
<1> QED BY <1>5, <1>6, <1>7, <1>8 DEF SignInv

\* The page is told.
LEMMA SignToldKeeps ==
    ASSUME Signed!SignInConstants, SignInv, NEW q \in signing, Signed!SignedIn(q) \/ Signed!SignedOut(q)
    PROVE  SignInv'
<1>1. /\ status \in Listed!CachedQueries(Signed!Statuses) /\ Signed!Truth \in Signed!Statuses
      /\ where \in Signed!Pages /\ going \in Signed!Pages \cup {Stay} /\ dropped \in BOOLEAN
      /\ signing \subseteq Signed!Requests /\ ServedHaveTheirs /\ Stay \notin Signed!Pages
  BY StatusFacts DEF SignInv, Signed!TypeOK, Signed!SignInConstants
<1>2. PICK p \in {"home", "login"} : Signed!Replace(p)
  BY DEF Signed!SignedIn, Signed!SignedOut
<1>3. /\ UNCHANGED <<house, accounts, cookie, where>> /\ going' = p /\ p \in Signed!Pages
      /\ dropped' = (dropped \/ (p = where /\ going \notin {Stay, p})) /\ signing' = signing \ {q}
  BY <1>2 DEF Signed!SignedIn, Signed!SignedOut, Signed!Told, Signed!Replace, Signed!Server, Signed!Pages
<1>4. /\ status' \in Listed!CachedQueries(Signed!Statuses) /\ TrueTo(status', Signed!Truth)
      /\ status'.data \in {status.data, Unknown}
  <2>1. CASE Signed!SignedIn(q)
    <3>1. status' = Listed!Invalidated(status, TRUE)
      BY <2>1, SameCache DEF Signed!SignedIn
    <3>2. status'.data = status.data
      BY <1>1, <3>1 DEF Listed!Invalidated, Listed!CachedQueries
    <3> QED BY <1>1, <3>1, <3>2, QueryTypes, QueryTruth
  <2>2. CASE Signed!SignedOut(q)
    <3>1. status' = Listed!NoQuery
      BY <2>2, SameCache DEF Signed!SignedOut
    <3>2. Listed!NoQuery.data = Unknown
      BY DEF Listed!NoQuery
    <3> QED BY <1>1, <3>1, <3>2, QueryTypes, QueryTruth
  <2> QED BY <2>1, <2>2
<1>5. OnRightPage'
  <2>1. \A r, d : Signed!Redirect(r, d)' = Signed!Redirect(r, d)
    BY <1>3 DEF Signed!Redirect, Signed!AuthRequired, Signed!AdminRequired, Signed!LoginLeft,
                Signed!RegisterLeft, Signed!Out
  <2>2. going' \in {Stay, where} /\ ~dropped' => going \in {Stay, where} /\ ~dropped
    BY <1>1, <1>3
  <2> QED BY <1>3, <1>4, <2>1, <2>2 DEF SignInv, OnRightPage
<1>6. ServedHaveTheirs'
  BY <1>1, <1>3 DEF ServedHaveTheirs
<1>7. dropped' \in BOOLEAN /\ going' \in Signed!Pages \cup {Stay} /\ signing' \subseteq Signed!Requests
  BY <1>1, <1>3
<1> QED BY <1>3, <1>4, <1>5, <1>6, <1>7, SignStepKeeps, SameCache

LEMMA SignedInductive ==
    ASSUME Signed!SignInConstants, SignInv, [Signed!Next]_Signed!signInVars
    PROVE  SignInv'
<1>1. CASE UNCHANGED Signed!signInVars
  <2>1. UNCHANGED <<house, accounts, cookie, status, where, going, signing, dropped>>
    BY <1>1 DEF Signed!signInVars
  <2>2. SignInv' <=> SignInv
    BY <2>1 DEF SignInv, Signed!TypeOK, StatusIsTrue, AsTold, TrueTo, Signed!Truth, OnRightPage, Signed!Redirect,
       Signed!AuthRequired, Signed!AdminRequired, Signed!LoginLeft, Signed!RegisterLeft, Signed!Out,
       ServedHaveTheirs
  <2> QED BY <2>2
<1>2. CASE Signed!Next
  BY <1>2, SignArriveKeeps, SignLoadKeeps, StatusKeeps, SignUserKeeps, SignAnswerKeeps, SignElsewhereKeeps, SignToldKeeps DEF Signed!Next
<1> QED BY <1>1, <1>2

LEMMA SignInvImplies == Signed!SignInConstants /\ SignInv => Signed!TypeOK /\ Signed!SettledIsRight
<1> SUFFICES ASSUME Signed!SignInConstants, SignInv,
                    Signed!Settled(status), going = Stay, ~dropped, AsTold
             PROVE  Signed!Redirect(where, Signed!Truth) = Stay
  BY DEF SignInv, Signed!SettledIsRight, AsTold
<1>1. status.data = Signed!Truth /\ status.data # Unknown
  BY DEF SignInv, StatusIsTrue, TrueTo, Signed!Settled
<1>2. Signed!Redirect(where, status.data) = Stay
  BY <1>1 DEF SignInv, OnRightPage
<1> QED BY <1>1, <1>2

LEMMA SignedBehaves == Spec => Signed!Spec
<1>1. Init => Signed!Init
  BY DEF Init
<1>2. [Next]_partsVars => [Signed!Next]_(Signed!signInVars)
  <2>1. SignedStep => Signed!Next
    BY DEF SignedStep
  <2>2. TabsStep \/ SavedStep \/ TalkStep \/ BoundStep \/ SownStep \/ FilesStep
        \/ DrawnStep \/ FoundStep \/ ChosenStep
        \/ ListedStep \/ UNCHANGED partsVars => UNCHANGED Signed!signInVars
    BY DEF TabsStep, SavedStep, TalkStep, BoundStep, SownStep,
           FilesStep, DrawnStep, FoundStep, ChosenStep,
           ListedStep, partsVars, signedVars, Signed!signInVars
  <2> QED BY <2>1, <2>2 DEF Next
<1> QED BY <1>1, <1>2, PTL DEF Spec, Signed!Spec

LEMMA SignedHolds == Spec => []SignInv
<1>1. Signed!SignInConstants
  BY PartsAssumption
<1>2. Signed!Init => SignInv
  BY <1>1, SignedInitEstablishes
<1>3. SignInv /\ [Signed!Next]_(Signed!signInVars) => SignInv'
  BY <1>1, SignedInductive
<1> QED BY <1>2, <1>3, SignedBehaves, PTL DEF Signed!Spec

\* With any number of requests under way, in whatever order the cookie, the
\* status and the pages change: a window at rest does not stand on a page that
\* would send its user elsewhere, unless its status has missed a change (one that
\* another window made, or whose answer was lost) or a page's redirect was
\* overtaken by one to where the window was (dropped).
THEOREM SignInSettlesRight == Spec => []SettledIsRight
<1>1. SignInv => SettledIsRight
  BY PartsAssumption, SignInvImplies DEF SettledIsRight
<1> QED BY <1>1, SignedHolds, PTL

---------------------------------------------------------------------------
(* The parts together.                                                     *)

\* Each part keeps to its types: the hooks and stores of the browser, the
\* files of the server and the requests between them hold what their readers
\* expect.  For Metadata that takes keys that tell connections apart.
THEOREM PartsTypeOK == KeysDiffer => (Spec => []TypeOK)
<1> SUFFICES ASSUME KeysDiffer PROVE Spec => []TypeOK
  OBVIOUS
<1>1. Spec => [](TabsInv /\ SavedTypes /\ BoundInv /\ SownTypes)
  BY TabsHolds, SavedTypesHold, BoundHolds, SownTypesHold, PTL
<1>2. Spec => [](Talk!ChatConstants /\ TalkTyped /\ NoneTwice)
  BY TalkOnce
<1>3. Spec => [](Files!StoresConstants /\ Sound)
  BY FilesSound
<1>4. Spec => [](DrawnTypes /\ ChosenTypes)
  BY DrawnTypesHold, ChosenTypesHold, PTL
<1>5. Spec => []FoundInv
  BY FoundHolds
<1>6. Spec => [](Listed!TypeOK /\ Signed!TypeOK)
  <2>1. ListInv /\ SignInv => Listed!TypeOK /\ Signed!TypeOK
    BY DEF ListInv, SignInv
  <2> QED BY <2>1, ListedHolds, SignedHolds, PTL
<1>7. TabsInv => Tabs!TypeOK
  BY DEF TabsInv, TabsTyped, ScreenTyped, Distinct, ServerTyped, FlightTyped, TabsSlot, RequestTyped, Tabs!TypeOK
<1>8. BoundInv => Bound!TypeOK
  BY DEF BoundInv, BoundTyped, TitlesAreKept, CreatesGoOn, HasMade, Bound!TypeOK, Bound!OnDisk
<1>9. SavedTypes /\ SownTypes /\ DrawnTypes /\ ChosenTypes =>
        Saved!TypeOK /\ Sown!TypeOK /\ Drawn!TypeOK /\ Chosen!TypeOK
  <2>1. DrawnTypes => Drawn!TypeOK
    BY DEF DrawnTypes, IsChart, OfferedTypes, Drawn!TypeOK
  <2>2. Sown!SeedingConstants
    BY PartsAssumption
  <2> QED BY <2>1, <2>2, SavedTypesSuffice, SownTypesSuffice, ChosenTypesSuffice
<1>10. TabsInv /\ SavedTypes /\ BoundInv /\ SownTypes /\ (Talk!ChatConstants /\ TalkTyped /\ NoneTwice)
      /\ (Files!StoresConstants /\ Sound) /\ DrawnTypes /\ ChosenTypes /\ FoundInv
      /\ (Listed!TypeOK /\ Signed!TypeOK) => TypeOK
  BY <1>7, <1>8, <1>9, TalkTypesSuffice, SoundIsTyped, FoundInvTyped DEF TypeOK
<1> QED BY <1>1, <1>2, <1>3, <1>4, <1>5, <1>6, <1>10, PTL

=============================================================================
