------------------------------- MODULE SignIn -------------------------------
(***************************************************************************)
(* Who is signed in, as the pages see it: the query of the status and the  *)
(* guards of the pages (hooks/use-auth.ts), signing in (login/page.tsx),   *)
(* signing up (register/page.tsx) and signing out (topbar/user-menu.tsx,   *)
(* command-palette.tsx), in one window.                                    *)
(*                                                                         *)
(* A page sends the user elsewhere from an effect, which runs when the     *)
(* page mounts and when the status it is given becomes another one.  The   *)
(* server's endpoints are single steps (Accounts has theirs), and an       *)
(* account is told apart by its role.  The status is read with the cookie  *)
(* the server sees, which is that of the window as it reads: the answer to *)
(* a request sent under an earlier one is that of a read before the cookie *)
(* changed, for what else it tells, that the first account is to be made,  *)
(* is settled before there is any.                                         *)
(***************************************************************************)
EXTENDS Naturals, FiniteSets, CachedQuery

CONSTANTS
    MaxSignings,  \* bound on the requests under way
    Stay          \* no navigation

VARIABLES
    house,     \* settings: auth_enabled, allow_self_signup
    accounts,  \* the roles of the accounts there are
    cookie,    \* the role of the session the browser has, or "none"
    status,    \* the query of the status
    where,     \* the page
    going,     \* where the router has been told to go, or Stay
    signing,   \* the requests under way to sign in, up or out
    dropped    \* history: a page's redirect was replaced by one to where it was

signInVars == <<house, accounts, cookie, status, where, going, signing, dropped>>

Roles == {"admin", "member"}

\* "invited" is /register with a token, "admin" any of /settings/admin.
Pages == {"home", "tokens", "admin", "login", "register", "invited"}

\* /auth/status, for these settings.
Truth == [first |-> house.auth /\ accounts = {}, who |-> IF house.auth THEN cookie ELSE "none"]

Statuses == [first : BOOLEAN, who : Roles \cup {"none"}]

\* What the constants are assumed to be.
SignInConstants == MaxSignings \in Nat /\ Unknown \notin Statuses /\ Stay \notin Pages

---------------------------------------------------------------------------
(* Where a page that is given the status d sends the user.                 *)

Out(d) == house.auth /\ d.who = "none"

\* useRequireAuth.
AuthRequired(d) == IF ~Out(d) THEN Stay ELSE IF d.first THEN "register" ELSE "login"

\* useRequireAdmin.
AdminRequired(d) == IF house.auth /\ d.who = "member" THEN "home" ELSE AuthRequired(d)

LoginLeft(d) == IF ~Out(d) THEN "home" ELSE IF d.first THEN "register" ELSE Stay

\* Of two replacements, the second counts.
RegisterLeft(d, invited) ==
    IF house.auth /\ ~d.first /\ ~invited /\ ~house.signup THEN "login"
    ELSE IF ~Out(d) THEN "home" ELSE Stay

Redirect(p, d) ==
    IF d = Unknown THEN Stay
    ELSE IF p \in {"home", "tokens"} THEN AuthRequired(d)
    ELSE IF p = "admin" THEN AdminRequired(d)
    ELSE IF p = "login" THEN LoginLeft(d)
    ELSE RegisterLeft(d, p = "invited")

---------------------------------------------------------------------------
Init ==
    /\ house \in [auth : BOOLEAN, signup : BOOLEAN]
    /\ accounts \in SUBSET Roles /\ cookie \in accounts \cup {"none"}
    /\ accounts # {} => "admin" \in accounts
    /\ ~house.auth => accounts = {}
    /\ status = Asked(NoQuery)
    /\ where \in Pages /\ going = Stay
    /\ signing = {} /\ dropped = FALSE

Server == <<house, accounts, cookie>>

\* A page mounts, with a status that is taken as it is for 30 seconds.
Mount(p) == \E old \in BOOLEAN :
    /\ where' = p
    /\ status' = Mounted(status, old)
    /\ going' = Redirect(p, status.data)
    /\ dropped' = FALSE

\* The router gets there; where the page is already, nothing mounts.
Arrive ==
    /\ going # Stay
    /\ IF going = where
       THEN going' = Stay /\ UNCHANGED <<where, status, dropped>>
       ELSE Mount(going)
    /\ signing' = {[q EXCEPT !.here = FALSE] : q \in signing}
    /\ UNCHANGED Server

\* The browser loads a page anew, be it on the way back from GitHub.  Nothing
\* is heard of the requests of the page before.
Load(p) ==
    /\ where' = p /\ going' = Stay /\ dropped' = FALSE
    /\ status' = Asked(NoQuery)
    /\ signing' = {}
    /\ UNCHANGED Server

\* The window gets the focus when the status is more than 30 seconds old.
Focus ==
    /\ status.data # Unknown
    /\ status' = Asked(status)
    /\ UNCHANGED <<Server, where, going, signing, dropped>>

\* After qc.clear() the page is given what it was, until it renders.
Rerender ==
    /\ status = NoQuery
    /\ status' = Asked(status)
    /\ UNCHANGED <<Server, where, going, signing, dropped>>

StatusRead ==
    /\ status.phase = "asked"
    /\ status' = ReadAs(status, Truth, Truth)
    /\ UNCHANGED <<Server, where, going, signing, dropped>>

\* An equal status is the same object: the effect does not run.
StatusArrives ==
    /\ status.phase = "read"
    /\ status' = Arrived(status)
    /\ going' = IF status.read = status.data \/ Redirect(where, status.read) = Stay THEN going
                ELSE Redirect(where, status.read)
    /\ UNCHANGED <<Server, where, signing, dropped>>

StatusFails ==
    /\ status.phase # "idle"
    /\ status' \in Failures(status)
    /\ UNCHANGED <<Server, where, going, signing, dropped>>

---------------------------------------------------------------------------
(* What the user does.                                                     *)

\* The page shows its contents: a guard of its own, which lets those in who
\* were given an error.
Rendered ==
    \/ where \in {"login", "register", "invited"}
    \/ status.data = Unknown /\ status.phase = "idle"
    \/ status.data # Unknown /\ (where = "tokens" \/ ~Out(status.data))
                             /\ (where = "admin" /\ house.auth => status.data.who = "admin")

Known == status.data # Unknown

\* The links and buttons from page to page.
Links ==
    IF where = "login" THEN (IF Known /\ house.signup THEN {"register"} ELSE {})
    ELSE IF where \in {"register", "invited"} THEN {"login"}
    ELSE IF where = "home"
    THEN {"tokens"} \cup IF ~Known \/ ~house.auth \/ status.data.who = "admin" THEN {"admin"} ELSE {}
    ELSE {"home"}

Follow(p) ==
    /\ Rendered /\ p \in Links
    /\ going' = p
    /\ UNCHANGED <<Server, where, status, signing, dropped>>

Pending(kind) == \E q \in signing : q.kind = kind /\ q.here

Send(kind) ==
    /\ Cardinality(signing) < MaxSignings
    /\ signing' = signing \cup {[kind |-> kind, pc |-> "sent", as |-> "none", here |-> TRUE,
                                 invited |-> where = "invited"]}
    /\ UNCHANGED <<Server, where, status, going, dropped>>

\* The forms, disabled while one of theirs is under way.
LogIn == where = "login" /\ ~Pending("login") /\ Send("login")
SignUp == where \in {"register", "invited"} /\ ~Pending("register") /\ Send("register")

\* "Sign out" of the user menu and of the palette.
LogOut == where = "home" /\ Rendered /\ Known /\ house.auth /\ Send("logout")

---------------------------------------------------------------------------
(* The server and the browser.                                             *)

\* An answered request: only what it was matters.
ToTell(kind) == [kind |-> kind, pc |-> "answered", as |-> "none", here |-> FALSE, invited |-> FALSE]

Registered(role) ==
    /\ accounts' = accounts \cup {IF accounts = {} THEN "admin" ELSE role}
    /\ UNCHANGED <<house, cookie>>

\* The server signs up; not who has no invite, unless there is nobody yet, or
\* everybody may.
Register(q) ==
    /\ q \in signing /\ q.kind = "register" /\ q.pc = "sent" /\ house.auth
    /\ accounts = {} \/ house.signup \/ q.invited
    /\ \E role \in IF accounts = {} THEN {"admin"} ELSE Roles :
        /\ Registered(role)
        /\ signing' = (signing \ {q}) \cup {[q EXCEPT !.pc = "served", !.as = role]}
    /\ UNCHANGED <<where, status, going, dropped>>

\* The answer sets or clears the cookie, before the page is told.
CookieSet(q) ==
    /\ q \in signing /\ house.auth
    /\ \/ q.kind = "login" /\ q.pc = "sent" /\ cookie' \in accounts
       \/ q.kind = "register" /\ q.pc = "served" /\ cookie' = q.as
       \/ q.kind = "logout" /\ q.pc = "sent" /\ cookie' = "none"
    /\ signing' = (signing \ {q}) \cup {ToTell(q.kind)}
    /\ UNCHANGED <<house, accounts, where, status, going, dropped>>

\* No answer, or a refusal; signing out goes on as after an answer.
Unanswered(q) ==
    /\ q \in signing /\ q.pc # "answered"
    /\ signing' = (signing \ {q}) \cup
                    IF q.kind = "logout" THEN {ToTell("logout")} ELSE {}
    /\ status' = IF q.pc = "served" THEN Behind(status) ELSE status
    /\ UNCHANGED <<Server, where, going, dropped>>

\* In another window somebody signs in or out, or up; a session expires.
Elsewhere ==
    /\ house.auth
    /\ \/ \E c \in accounts \cup {"none"} : cookie' = c /\ UNCHANGED <<house, accounts>>
       \/ \E role \in Roles : Registered(role)
    /\ status' = Behind(status)
    /\ UNCHANGED <<where, going, signing, dropped>>

---------------------------------------------------------------------------
(* The page is told, even one that has been left.                          *)

Replace(p) ==
    /\ going' = p
    /\ dropped' = (dropped \/ (p = where /\ going \notin {Stay, p}))
    /\ UNCHANGED <<Server, where>>

Told(q) == q \in signing /\ q.pc = "answered" /\ signing' = signing \ {q}

\* Faulty: the status is left as it was.
SignedInQuietly(q) ==
    /\ q.kind # "logout" /\ Told(q)
    /\ UNCHANGED status
    /\ Replace("home")

\* login.onSuccess and register.onSuccess.
SignedIn(q) ==
    /\ q.kind # "logout" /\ Told(q)
    /\ status' = Invalidated(status, TRUE)
    /\ Replace("home")

SignedOut(q) ==
    /\ q.kind = "logout" /\ Told(q)
    /\ status' = NoQuery
    /\ Replace("login")

Next ==
    \/ Arrive \/ Focus \/ Rerender \/ StatusRead \/ StatusArrives \/ StatusFails
    \/ LogIn \/ SignUp \/ LogOut \/ Elsewhere
    \/ \E p \in Pages : Load(p) \/ Follow(p)
    \/ \E q \in signing :
        Register(q) \/ CookieSet(q) \/ Unanswered(q) \/ SignedIn(q) \/ SignedOut(q)

Spec == Init /\ [][Next]_signInVars

---------------------------------------------------------------------------
Requests == [kind : {"login", "register", "logout"}, pc : {"sent", "served", "answered"},
             as : Roles \cup {"none"}, here : BOOLEAN, invited : BOOLEAN]

\* Types.
TypeOK ==
    /\ house \in [auth : BOOLEAN, signup : BOOLEAN]
    /\ accounts \subseteq Roles /\ cookie \in accounts \cup {"none"}
    /\ status \in CachedQueries(Statuses)
    /\ where \in Pages /\ going \in Pages \cup {Stay}
    /\ signing \subseteq Requests /\ dropped \in BOOLEAN

\* When nothing is under way, the user is on a page that is theirs to see, and
\* not one they have no use for: signed in or out in whatever order, the window
\* does not end at a form or at a page that waits for somebody else.  Except
\* that it has not been told of what another window did, or that a page's
\* redirect was overtaken by one to the page itself.
SettledIsRight ==
    Settled(status) /\ going = Stay /\ ~dropped /\ (\A q \in signing : q.pc = "sent")
        => Redirect(where, Truth) = Stay

=============================================================================
