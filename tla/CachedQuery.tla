----------------------------- MODULE CachedQuery -----------------------------
(***************************************************************************)
(* One query of the cache that components/providers.tsx sets up            *)
(* (@tanstack/react-query), as what is done to it makes another of it.     *)
(***************************************************************************)

CONSTANT Unknown   \* undefined: no data yet

\* A query the cache has no entry of.
NoQuery == [data |-> Unknown,    \* what the page is given
            phase |-> "idle",    \* of its request: "idle", "asked", or "read" by the server
            read |-> Unknown,    \* what the server has answered
            again |-> FALSE,     \* the request is the second attempt
            invalid |-> FALSE,   \* isInvalidated: asked again when a page mounts
            missed |-> FALSE]    \* history: it is behind, and has not been told

\* Asked for; who comes second is given the answer of the first.
Asked(q) == IF q.phase = "idle" THEN [q EXCEPT !.phase = "asked"] ELSE q

\* A page that reads it mounts: it is fetched if there is nothing yet, or what
\* there is has been invalidated, or is too old.
Mounted(q, old) == IF q.data = Unknown \/ q.invalid \/ old THEN Asked(q) ELSE q

\* The server answers with value, when the truth is truth.
ReadAs(q, value, truth) == [q EXCEPT !.phase = "read", !.read = value, !.missed = value # truth]

Arrived(q) == [NoQuery EXCEPT !.data = q.read, !.missed = q.missed]

\* A request fails: a second attempt, or an error beside what there was.  Too
\* many requests (429) are not tried again.
Failures(q) ==
    {[q EXCEPT !.phase = "idle", !.read = Unknown, !.again = FALSE, !.invalid = TRUE]}
    \cup (IF q.again THEN {} ELSE {[q EXCEPT !.phase = "asked", !.read = Unknown, !.again = TRUE]})

\* invalidateQueries: what a page has on display is asked for anew, and a
\* request under way dropped; but the very first request goes on, as does that
\* of a page that has been left, and its answer counts.
Invalidated(q, onDisplay) ==
    IF q = NoQuery THEN q
    ELSE IF onDisplay /\ (q.phase = "idle" \/ q.data # Unknown)
    THEN [q EXCEPT !.phase = "asked", !.read = Unknown, !.again = FALSE, !.invalid = TRUE]
    ELSE [q EXCEPT !.invalid = TRUE, !.missed = @ \/ q.phase # "idle"]

\* The server changes what it would answer, and nobody tells the cache.
Behind(q) == [q EXCEPT !.missed = @ \/ q.phase = "read" \/ (q.phase = "idle" /\ q.data # Unknown)]

\* Nothing is under way, and what there is is taken for the truth.
Settled(q) == q.phase = "idle" /\ q.data # Unknown /\ ~q.invalid /\ ~q.missed

CachedQueries(values) ==
    [data : values \cup {Unknown}, phase : {"idle", "asked", "read"}, read : values \cup {Unknown},
     again : BOOLEAN, invalid : BOOLEAN, missed : BOOLEAN]

=============================================================================
