------------------------------ MODULE Metadata ------------------------------
(***************************************************************************)
(* What the browser knows of the catalogs, schemas, tables and columns of  *)
(* a connection: the explorer of the sidebar                               *)
(* (sidebar/metadata-explorer.tsx), and the search for the tables that go  *)
(* with an Ask AI question (lib/ai-context.ts).  Both fill and read one    *)
(* cache of queries, keyed by connectionKey (lib/connection.ts).           *)
(*                                                                         *)
(* A list stands at a place: <<>> for the catalogs, <<c>> for the schemas  *)
(* of c, <<c, s>> for its tables, <<c, s, t>> for its columns.  The        *)
(* databases do not change, and a question keeps the connection it was     *)
(* asked with.                                                             *)
(***************************************************************************)
EXTENDS Naturals, Sequences, FiniteSets, SequencesExt, Functions

CONSTANTS
    Sites,         \* configured connections: records of the fields of one
    Lists,         \* Lists[s]: the list at each place of s
    MaxTables,     \* MAX_TABLES_NAMES
    MaxHydrated,   \* MAX_TABLES_WITH_COLUMNS
    Concurrency,   \* COLUMN_FETCH_CONCURRENCY
    MaxRefusals,   \* bound on the requests that fail
    Unlisted       \* no list of columns, no connection

\* The names that stand in a list.
Names == UNION {UNION {Range(Lists[s][at]) : at \in DOMAIN Lists[s]} : s \in Sites}

\* A list names nothing twice; what it names has a list of its own, down to the
\* columns; and its place is named in the list above.
Stands(s, at) ==
    /\ at \in Seq(Names) /\ Len(at) <= 3
    /\ Lists[s][at] \in Seq(Names) /\ IsInjective(Lists[s][at])
    /\ Len(at) <= 2 => \A x \in Range(Lists[s][at]) : Append(at, x) \in DOMAIN Lists[s]
    /\ at # <<>> => /\ Front(at) \in DOMAIN Lists[s]
                    /\ Last(at) \in Range(Lists[s][Front(at)])

\* What the constants are assumed to be.
MetadataConstants ==
    /\ {MaxTables, MaxHydrated, Concurrency} \subseteq Nat \ {0} /\ MaxRefusals \in Nat
    /\ \A s \in Sites : s # Unlisted /\ <<>> \in DOMAIN Lists[s]
    /\ \A s \in Sites : \A at \in DOMAIN Lists[s] : Stands(s, at)

VARIABLES
    site,       \* the active connection
    cache,      \* the query cache: the list under each key and place known
    fetching,   \* the queries in flight: the connection each is put to
    errors,     \* the queries whose last fetch failed
    toggled,    \* the nodes of the explorer not in their default state
    search,     \* the search for the tables of a question
    refusals    \* the number of requests failed so far

metadataVars == <<site, cache, fetching, errors, toggled, search, refusals>>

Lanes == 1 .. Concurrency
Places == UNION {DOMAIN Lists[s] : s \in Sites}
ListOf(s, at) == IF at \in DOMAIN Lists[s] THEN Lists[s][at] ELSE <<>>
TablesOf(s) == {at \in Places : Len(at) = 3 /\ at \in DOMAIN Lists[s]}

\* Faulty: the key leaves the user out.
KeyWithoutUser(s) == <<s.connector_type, s.host, s.database>>

\* connectionKey of a SQLAlchemy connection: host, database, user (and schema);
\* nothing of a port, an account, a project or a service.
Key(s) == <<s.connector_type, s.host, s.database, s.username>>

Path(s, at) == <<Key(s), at>>
Known(s, at) == Path(s, at) \in DOMAIN cache

\* f, with value at each of keys.
With(f, keys, value) == [k \in DOMAIN f \cup keys |-> IF k \in keys THEN value ELSE f[k]]

Idle == [phase |-> "idle", of |-> Unlisted, todo |-> <<>>, waits |-> FALSE, flat |-> <<>>,
         next |-> 1, lanes |-> [l \in Lanes |-> 0], out |-> <<>>, skipped |-> {}, context |-> <<>>]

Init ==
    /\ site \in Sites
    /\ cache = <<>> /\ fetching = <<>> /\ errors = {} /\ toggled = {}
    /\ search = Idle /\ refusals = 0

---------------------------------------------------------------------------
(* The explorer.                                                           *)

\* A node that is the only one of its list is open from the start.
OnlyChild(at) == Len(cache[Path(site, Front(at))]) = 1
Open(at) == (at \in toggled) # OnlyChild(at)

\* The list at a place is rendered: every node above it is, and is open.
Rendered(at) ==
    \A i \in 1 .. Len(at) :
        LET node == SubSeq(at, 1, i) IN
        /\ Known(site, Front(node)) /\ Path(site, Front(node)) \notin errors
        /\ Last(node) \in Range(cache[Path(site, Front(node))])
        /\ Open(node)

\* A node of the explorer, a catalog or a schema.
Listed(at) ==
    /\ Len(at) \in 1 .. 2 /\ Rendered(Front(at))
    /\ Known(site, Front(at)) /\ Path(site, Front(at)) \notin errors
    /\ Last(at) \in Range(cache[Path(site, Front(at))])

Toggle(at) ==
    /\ Listed(at)
    /\ toggled' = IF at \in toggled THEN toggled \ {at} ELSE toggled \cup {at}
    /\ UNCHANGED <<site, cache, fetching, errors, search, refusals>>

Asks(s, at) == IF Path(s, at) \in DOMAIN fetching THEN fetching ELSE With(fetching, {Path(s, at)}, s)

\* A list is mounted without data or with data of more than 30 seconds, or
\* its error row is asked to retry.
Fetch(at) ==
    /\ Len(at) <= 2 /\ Rendered(at) /\ Path(site, at) \notin DOMAIN fetching
    /\ fetching' = Asks(site, at)
    /\ errors' = IF Known(site, at) THEN errors ELSE errors \ {Path(site, at)}
    /\ UNCHANGED <<site, cache, toggled, search, refusals>>

\* Another connection is loaded.  Nodes of the same name keep their state if
\* the list they stand in is known under the new key.
Activate(s) ==
    /\ s # site
    /\ site' = s
    /\ toggled' = {at \in toggled : \A i \in 1 .. Len(at) :
                        /\ Known(s, SubSeq(at, 1, i - 1))
                        /\ at[i] \in Range(cache[Path(s, SubSeq(at, 1, i - 1))])}
    /\ UNCHANGED <<cache, fetching, errors, search, refusals>>

---------------------------------------------------------------------------
(* loadAvailableTables.                                                    *)

\* Sorted with the chosen catalog or schema, the k-th, in front.
Preferring(list, k) ==
    [i \in DOMAIN list |-> IF i = 1 THEN list[k] ELSE IF i <= k THEN list[i - 1] ELSE list[i]]

\* The places one level below, in the order they are visited: the catalog and
\* the schema last chosen in the explorer, whatever they are, come first.
Orders(at, list) ==
    LET lists == {list} \cup (IF Len(at) = 2 THEN {} ELSE {Preferring(list, k) : k \in DOMAIN list})
    IN  {[i \in DOMAIN l |-> Append(at, l[i])] : l \in lists}

\* The loops break off as soon as there are MAX_TABLES_NAMES.
Capped(tables) == SubSeq(tables, 1, IF Len(tables) < MaxTables THEN Len(tables) ELSE MaxTables)

StartSearch ==
    /\ search.phase = "idle"
    /\ search' = [Idle EXCEPT !.phase = "names", !.of = site, !.todo = <<<<>>>>]
    /\ UNCHANGED <<site, cache, fetching, errors, toggled, refusals>>

\* ensureQueryData of the next list, which is not known: it is asked for.
SearchAsks ==
    LET at == Head(search.todo) IN
    /\ search.phase = "names" /\ search.todo # <<>> /\ ~search.waits /\ ~Known(search.of, at)
    /\ search' = [search EXCEPT !.waits = TRUE]
    /\ fetching' = Asks(search.of, at)
    /\ UNCHANGED <<site, cache, errors, toggled, refusals>>

\* The next list is known: its members are visited before its siblings.
SearchReads ==
    LET at == Head(search.todo) IN
    /\ search.phase = "names" /\ search.todo # <<>> /\ Known(search.of, at)
    /\ \E below \in Orders(at, cache[Path(search.of, at)]) :
        LET flat == Capped(search.flat \o IF Len(at) = 2 THEN below ELSE <<>>) IN
        search' = [search EXCEPT
                    !.waits = FALSE, !.flat = flat,
                    !.todo = IF Len(flat) >= MaxTables THEN <<>>
                             ELSE (IF Len(at) = 2 THEN <<>> ELSE below) \o Tail(@)]
    /\ UNCHANGED <<site, cache, fetching, errors, toggled, refusals>>

\* rankTables: any order, and columns for those in front.
Rank ==
    /\ search.phase = "names" /\ search.todo = <<>>
    /\ \E ranked \in Bijection(DOMAIN search.flat, Range(search.flat)) :
        search' = [search EXCEPT !.phase = "columns", !.flat = ranked]
    /\ UNCHANGED <<site, cache, fetching, errors, toggled, refusals>>

Top == IF Len(search.flat) < MaxHydrated THEN Len(search.flat) ELSE MaxHydrated

\* runWithConcurrency: a lane takes the next table and waits for its columns
\* unless they are known.
Take(l) ==
    LET i == search.next
        at == search.flat[i]
    IN
    /\ search.phase = "columns" /\ search.lanes[l] = 0 /\ i <= Top
    /\ IF Known(search.of, at)
       THEN /\ search' = [search EXCEPT !.next = @ + 1,
                                        !.out = With(@, {i}, cache[Path(search.of, at)])]
            /\ UNCHANGED fetching
       ELSE /\ search' = [search EXCEPT !.next = @ + 1, !.lanes[l] = i]
            /\ fetching' = Asks(search.of, at)
    /\ UNCHANGED <<site, cache, errors, toggled, refusals>>

\* The tables that go without columns.
NamesOnly == SubSeq(search.flat, Top + 1, Len(search.flat))

\* All lanes are through.  A table whose columns failed is left out.
SearchEnds ==
    /\ search.phase = "columns" /\ search.next > Top /\ \A l \in Lanes : search.lanes[l] = 0
    /\ \E got \in Bijection(1 .. Cardinality(DOMAIN search.out), DOMAIN search.out) :
        /\ \A i, j \in DOMAIN got : i < j => got[i] < got[j]
        /\ search' = [search EXCEPT !.phase = "sent", !.context =
             [i \in DOMAIN got |-> [table |-> search.flat[got[i]], columns |-> search.out[got[i]]]]
             \o [i \in DOMAIN NamesOnly |-> [table |-> NamesOnly[i], columns |-> Unlisted]]]
    /\ UNCHANGED <<site, cache, fetching, errors, toggled, refusals>>

\* The model has answered; another question may follow.
NextQuestion ==
    /\ search.phase = "sent" /\ search' = Idle
    /\ UNCHANGED <<site, cache, fetching, errors, toggled, refusals>>

---------------------------------------------------------------------------
(* The queries, shared by both.                                            *)

\* The lanes that wait for a query are those of the search with its key.
WaitsFor(l, path) == search.lanes[l] # 0 /\ Path(search.of, search.flat[search.lanes[l]]) = path

Answer(path) ==
    /\ path \in DOMAIN fetching
    /\ LET list == ListOf(fetching[path], path[2]) IN
       /\ cache' = With(cache, {path}, list)
       /\ search' = [search EXCEPT
                        !.lanes = [l \in Lanes |-> IF WaitsFor(l, path) THEN 0 ELSE @[l]],
                        !.out = With(@, {search.lanes[l] : l \in {k \in Lanes : WaitsFor(k, path)}}, list)]
    /\ fetching' = [p \in DOMAIN fetching \ {path} |-> fetching[p]]
    /\ errors' = errors \ {path}
    /\ UNCHANGED <<site, toggled, refusals>>

\* A search that cannot list the catalogs goes without any table; a list
\* below that fails is skipped.
Denied(path) ==
    LET at == path[2]
        searching == /\ search.phase = "names" /\ search.waits
                     /\ Path(search.of, Head(search.todo)) = path /\ path \notin DOMAIN cache
        lanes == {l \in Lanes : search.phase = "columns" /\ WaitsFor(l, path)}
    IN
    /\ path \in DOMAIN fetching /\ refusals < MaxRefusals
    /\ refusals' = refusals + 1
    /\ search' =
        IF searching /\ at = <<>> THEN [search EXCEPT !.phase = "sent", !.waits = FALSE,
                                                       !.todo = <<>>, !.skipped = {at}]
        ELSE IF searching THEN [search EXCEPT !.waits = FALSE, !.todo = Tail(@),
                                             !.skipped = @ \cup {at}]
        ELSE [search EXCEPT !.lanes = [l \in Lanes |-> IF l \in lanes THEN 0 ELSE @[l]],
                            !.skipped = IF lanes # {} THEN @ \cup {at} ELSE @]
    /\ fetching' = [p \in DOMAIN fetching \ {path} |-> fetching[p]]
    /\ errors' = errors \cup {path}
    /\ UNCHANGED <<site, cache, toggled>>

Next ==
    \/ StartSearch \/ SearchAsks \/ SearchReads \/ Rank \/ SearchEnds \/ NextQuestion
    \/ \E l \in Lanes : Take(l)
    \/ \E s \in Sites : Activate(s)
    \/ \E at \in Places : Toggle(at) \/ Fetch(at)
    \/ \E path \in DOMAIN fetching : Answer(path) \/ Denied(path)

Spec == Init /\ [][Next]_metadataVars

---------------------------------------------------------------------------
TypeOK ==
    /\ site \in Sites
    /\ \A path \in DOMAIN cache \cup DOMAIN fetching \cup errors :
            path[1] \in {Key(s) : s \in Sites} /\ path[2] \in Places
    /\ \A path \in DOMAIN fetching : fetching[path] \in Sites
    /\ toggled \subseteq Places
    /\ search.phase \in {"idle", "names", "columns", "sent"}
    /\ Len(search.flat) <= MaxTables /\ search.next \in 1 .. MaxHydrated + 1

\* A question looks for tables only where its connection has them, whatever
\* is loaded meanwhile and whoever filled the cache, and goes with tables and
\* columns of that connection.
ContextIsOwn ==
    /\ \A at \in Range(search.todo) \cup Range(search.flat) : at \in DOMAIN Lists[search.of]
    /\ \A i \in DOMAIN search.context :
        LET entry == search.context[i] IN
        /\ entry.table \in TablesOf(search.of)
        /\ entry.columns \in {Unlisted, Lists[search.of][entry.table]}

\* Something in places covers the table at at: the table itself, or a list above it.
Covers(places, at) == \E n \in 0 .. 3 : SubSeq(at, 1, n) \in places

\* With room for every name, no table is lost on the way, nor met twice: it is
\* found, still to be found, or refused with a list it stands in; and in the
\* end it goes with the question unless its own columns are refused too.
ContextIsComplete ==
    LET found == Range(search.flat)
        sent == {search.context[i].table : i \in DOMAIN search.context}
    IN
    /\ IsInjective(search.flat)
    /\ \A i, j \in DOMAIN search.context :
            search.context[i].table = search.context[j].table => i = j
    /\ search.phase # "idle" /\ Len(search.flat) < MaxTables =>
            \A at \in TablesOf(search.of) :
                /\ Covers(found \cup Range(search.todo) \cup search.skipped, at)
                /\ search.phase = "sent" => Covers(sent \cup search.skipped, at)

\* connection.ts: the key changes when the connection does, so the explorer
\* lists what the active connection has.
ListsAreOfTheConnection ==
    \A at \in Places : Len(at) <= 2 /\ Rendered(at) /\ Known(site, at) =>
        cache[Path(site, at)] = ListOf(site, at)

=============================================================================
