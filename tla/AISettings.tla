----------------------------- MODULE AISettings -----------------------------
(***************************************************************************)
(* The AI configuration of the administrators: the form                    *)
(* (app/settings/admin/ai/page.tsx), which sends only the fields touched,  *)
(* and the endpoints behind it (server/routers/admin.py), which mask the   *)
(* keys they return and merge what they are sent into what is stored.      *)
(*                                                                         *)
(* The fields are the active provider, the two keys, and one that stands   *)
(* for every other.  The encrypted file below is one of those of Stores:   *)
(* here a read or a write of it is one step.                               *)
(***************************************************************************)
EXTENDS Naturals, FiniteSets

CONSTANTS
    Admins,    \* administrators, each with the page open
    Keys,      \* API keys
    Plain,     \* values of the other field
    MaxSaves,  \* bound on the saves
    MaxTouch,  \* bound on the fields changed in one save
    Empty      \* null, no value

Providers == {"openai", "anthropic"}
KeyOf(p) == IF p = "openai" THEN "openai_api_key" ELSE "anthropic_api_key"
KeyFields == {KeyOf(p) : p \in Providers}
Fields == {"ai_provider", "ai_context_mode"} \cup KeyFields

\* _mask_secret, and what is left of a mask that was typed into: any text
\* with a bullet in it.
Masked == "masked"
Values(f) == IF f = "ai_provider" THEN Providers ELSE IF f \in KeyFields THEN Keys ELSE Plain

\* What the constants are assumed to be.
SettingsConstants ==
    /\ {MaxSaves, MaxTouch} \subseteq Nat /\ Empty # Masked
    /\ \A f \in Fields : \A v \in Values(f) : v # Empty /\ v # Masked

VARIABLES
    stored,   \* the stored value of each field
    seen,     \* seen[a]: the answer of the GET the page of a shows
    put,      \* put[a]: the save of a: what is sent, and what was touched
    saves,    \* the number of saves so far
    chosen,   \* history: what was last saved by an administrator who touched the field
    together  \* history: two saves have overlapped

settingsVars == <<stored, seen, put, saves, chosen, together>>

NoSave == [body |-> <<>>, meant |-> <<>>, current |-> <<>>]

Nothing == [f \in Fields |-> Empty]

\* get_ai_config.
Answered(c) == [f \in Fields |-> IF f \in KeyFields /\ c[f] # Empty THEN Masked ELSE c[f]]

Init ==
    /\ stored = Nothing /\ chosen = Nothing
    /\ seen = [a \in Admins |-> Nothing]
    /\ put = [a \in Admins |-> NoSave]
    /\ saves = 0 /\ together = FALSE

\* resolve_settings and get_provider, over an .env that names the mock and has
\* no key: a provider whose key is missing raises, and the mock answers.
Answering(c) ==
    LET p == c["ai_provider"] IN
    IF p \in Providers /\ c[KeyOf(p)] # Empty THEN p ELSE "mock"

\* The banner of the page, once it shows the configuration stored: the provider
\* configured is not the one that answers.
Warns(c) == Answering(c) = "mock" /\ c["ai_provider"] # Empty

\* The configuration is fetched again, after a save or when the page is opened.
Load(a) ==
    /\ seen[a] # Answered(stored)
    /\ seen' = [seen EXCEPT ![a] = Answered(stored)]
    /\ UNCHANGED <<stored, put, saves, chosen, together>>

\* The selector of the provider; its first entry is the default of the .env.
ProviderEntries == Providers \cup {Empty}

\* The input of a key and the button beside it: a key typed over the text
\* shown or into it, which leaves the bullets of a mask, or the text cleared.
KeyEntries(a, f) == Keys \cup {Empty} \cup (IF seen[a][f] = Masked THEN {Masked} ELSE {})

\* The models, the address of Ollama, the privacy options.
PlainEntries == Plain \cup {Empty}

Entries(a, f) ==
    IF f = "ai_provider" THEN ProviderEntries ELSE IF f \in KeyFields THEN KeyEntries(a, f) ELSE PlainEntries

\* The drafts: the fields touched, which a page may have typed by the time it
\* saves.  An answer that drops the draft only has it typed again.
Drafts(a) ==
    LET touched == {fs \in SUBSET Fields : Cardinality(fs) \in 1 .. MaxTouch} IN
    UNION {{d \in [fs -> UNION {Entries(a, f) : f \in fs}] : \A f \in fs : d[f] \in Entries(a, f)} :
           fs \in touched}

\* { ...base, ...changes }
Over(changes, base) ==
    [f \in (DOMAIN changes) \cup (DOMAIN base) |-> IF f \in DOMAIN changes THEN changes[f] ELSE base[f]]

\* Faulty: the page sends everything it shows.
WholeView(a, d) == Over(d, seen[a])

\* Only the fields the administrator has touched.
Body(a, d) == d

\* Save changes, and update_ai_config up to its store.get.  A request that is
\* lost on its way is none.
Save(a) ==
    /\ put[a] = NoSave /\ saves < MaxSaves
    /\ \E d \in Drafts(a) : put' = [put EXCEPT ![a] = [body |-> Body(a, d), meant |-> d, current |-> stored]]
    /\ saves' = saves + 1
    /\ together' = (together \/ \E b \in Admins \ {a} : put[b] # NoSave)
    /\ UNCHANGED <<stored, seen, chosen>>

\* A key that comes back masked stands for the one that is stored.
Incoming(q) ==
    [f \in DOMAIN q.body |-> IF f \in KeyFields /\ q.body[f] = Masked THEN q.current[f] ELSE q.body[f]]

\* The provider whose key has just come, where none is chosen.
AutoSwitch(q, merged) ==
    LET given == {p \in Providers : KeyOf(p) \in DOMAIN q.body /\ Incoming(q)[KeyOf(p)] # Empty} IN
    IF merged["ai_provider"] # Empty \/ given = {} THEN merged
    ELSE [merged EXCEPT !["ai_provider"] = IF "anthropic" \in given THEN "anthropic" ELSE "openai"]

Merged(q) == AutoSwitch(q, Over(Incoming(q), q.current))

\* The rest of update_ai_config.  The page learns of it when it loads: the
\* answer only has the configuration fetched again.
Update(a) ==
    /\ put[a] # NoSave
    /\ stored' = Merged(put[a])
    /\ chosen' = [f \in Fields |->
                    IF f \in DOMAIN put[a].meant /\ put[a].meant[f] # Masked
                    THEN put[a].meant[f] ELSE chosen[f]]
    /\ put' = [put EXCEPT ![a] = NoSave]
    /\ UNCHANGED <<seen, saves, together>>

Next ==
    \E a \in Admins : Load(a) \/ Save(a) \/ Update(a)

Spec == Init /\ [][Next]_settingsVars

---------------------------------------------------------------------------
TypeOK ==
    /\ \A f \in Fields : stored[f] \in Values(f) \cup {Empty}
    /\ \A a \in Admins :
        /\ DOMAIN put[a].meant \subseteq DOMAIN put[a].body
        /\ \A f \in Fields : seen[a][f] \in {Empty} \cup (IF f \in KeyFields THEN {Masked} ELSE Values(f))
    /\ saves \in 0 .. MaxSaves

\* Unless two saves overlap, what an administrator last saved of a field
\* stands: not replaced by another's page that was loaded before, by a key
\* that comes back masked, or by the provider that goes with a new key.  Only
\* where no provider is chosen may there be one that a key has brought.  So the
\* provider chosen answers where its key is, and where it does not the page
\* says so.
ChoicesStand ==
    ~together =>
        /\ \A f \in Fields :
            stored[f] = chosen[f] \/ (f = "ai_provider" /\ chosen[f] = Empty)
        /\ \A p \in Providers :
            chosen["ai_provider"] = p =>
                IF chosen[KeyOf(p)] # Empty THEN Answering(stored) = p ELSE Warns(stored)

=============================================================================
