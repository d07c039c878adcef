------------------------------ MODULE Accounts ------------------------------
(***************************************************************************)
(* Accounts, invites and API tokens: rednotebook/auth/store.py and the     *)
(* endpoints that use it (routers/auth.py, oauth.py, me.py and the         *)
(* require_user dependency), with authentication enabled.                  *)
(*                                                                         *)
(* Three JSON files, each read whole, changed and written back in place.   *)
(* Every request builds a UserStore of its own, so the lock of the store   *)
(* excludes nobody, and requests interleave at every read and write.  Time *)
(* stamps are left out, but for the expiry of an invite; a GitHub account  *)
(* is told apart by its address.                                           *)
(***************************************************************************)
EXTENDS Naturals, FiniteSets

CONSTANTS
    Reqs,         \* requests
    Seeds,        \* ids of what an installation starts with
    Installs,     \* the contents the three files may start with
    Emails,
    SelfSignup,   \* settings.allow_self_signup
    OAuthRole,    \* settings.oauth_default_role
    InviteRoles,  \* the roles that invites are issued with
    Truncated,    \* a file opened for writing and not written yet
    Garbled,      \* a file two writers have mixed up: not JSON
    None,
    Refused,      \* a change the store raises on
    MaxCrashes    \* bound on the restarts of the server

Files == {"users", "invites", "tokens"}
Roles == {"admin", "member"}
Ids == Reqs \cup Seeds
Unreadable == {Truncated, Garbled}

User == [id : Ids, email : Emails, role : Roles, provider : {"local", "github"}]
Invite == [id : Ids, email : Emails \cup {None}, role : Roles, usedBy : Ids \cup {None}]
Token == [id : Ids, owner : Ids, revoked : BOOLEAN]
Contents == [users |-> SUBSET User, invites |-> SUBSET Invite, tokens |-> SUBSET Token]

DistinctEmails(c) == \A u, v \in c : u.email = v.email => u = v

ASSUME AccountsAssumption ==
    /\ Installs \subseteq [Files -> SUBSET (User \cup Invite \cup Token)]
    /\ \A i \in Installs : \A f \in Files : i[f] \in Contents[f]
    /\ \A i \in Installs : DistinctEmails(i.users) /\ \A u \in i.users : u.id \in Seeds
    /\ Reqs \cap Seeds = {} /\ None \notin Ids \cup Emails
    /\ Truncated # Garbled
    /\ \A i \in Installs, f \in Files : i[f] \notin Unreadable \cup {Refused}
    /\ SelfSignup \in BOOLEAN /\ OAuthRole \in Roles /\ InviteRoles \subseteq Roles
    /\ MaxCrashes \in Nat

VARIABLES
    files,    \* files[f]: a set of records, or unreadable
    req,      \* req[r]: the request r and how far it has come
    expired,  \* invites that are past their date
    crashes,  \* restarts so far
    mixed     \* history: files two requests have changed at once, or a crash cut short

vars == <<files, req, expired, crashes, mixed>>

Kinds == {"login", "register", "github", "invite", "mint", "revoke", "call"}
Ops == {"add_user", "update_user", "add_invite", "consume_invite",
        "add_token", "revoke_token", "touch_token"}

FileOf == [o \in Ops |->
    IF o \in {"add_user", "update_user"} THEN "users"
    ELSE IF o \in {"add_invite", "consume_invite"} THEN "invites" ELSE "tokens"]

\* Where a request stands: what it is about to read, the three steps of a
\* change (read a copy, open the file, write it), or how it has ended.
Reads == [account |-> "users", first |-> "users", email |-> "users", subject |-> "users",
          session |-> "users", owner |-> "users", invite |-> "invites", lookup |-> "tokens"]
Ended == {"ok", "failed", "lost"}
Pcs == DOMAIN Reads \cup {"idle", "github.com", "copy", "open", "write"} \cup Ended

Idle == [kind |-> "login", pc |-> "idle", op |-> "update_user", email |-> None, ref |-> None,
         who |-> None, role |-> "member", first |-> FALSE, copy |-> {}, after |-> {}]

SigningUp(q) == q.kind = "register" \/ (q.kind = "github" /\ q.op = "add_user")

Answered(k) == {r \in Reqs : req[r].kind = k /\ req[r].pc = "ok"}

SignedUp == {r \in Reqs : SigningUp(req[r]) /\ req[r].pc = "ok"}

---------------------------------------------------------------------------
\* The changes of auth/store.py, each as what is written over a copy c.

\* Faulty: the address is not looked for again before the user is appended.
AddUserUnchecked(c, u) == c \cup {u}

AddUser(c, u) == IF \E v \in c : v.email = u.email THEN Refused ELSE c \cup {u}

UpdateUser(c, i) == IF \E v \in c : v.id = i THEN c ELSE Refused

AddInvite(c, i) == c \cup {i}

\* Faulty: an invite is refused only when it is past its date.
ValidUntilExpired(i) == i.id \notin expired

Valid(i) == i.usedBy = None /\ i.id \notin expired

ConsumeInvite(c, i, u) ==
    IF \E v \in c : v.id = i /\ Valid(v)
    THEN {IF v.id = i THEN [v EXCEPT !.usedBy = u] ELSE v : v \in c}
    ELSE Refused

\* Faulty: a token is stored without its owner.
AddTokenUnowned(c, t) == c \cup {[t EXCEPT !.owner = None]}

AddToken(c, t) == c \cup {t}

RevokeToken(c, i, u) ==
    IF \E t \in c : t.id = i /\ t.owner = u
    THEN {IF t.id = i THEN [t EXCEPT !.revoked = TRUE] ELSE t : t \in c}
    ELSE Refused

TouchToken(c, i) == IF \E t \in c : t.id = i THEN c ELSE Refused

\* What the request r, which is at the change req[r].op, makes of a copy.
Changed(r, c) ==
    LET q == req[r] IN
    CASE q.op = "add_user" ->
            AddUser(c, [id |-> r, email |-> q.email, role |-> q.role,
                        provider |-> IF q.kind = "github" THEN "github" ELSE "local"])
      [] q.op = "update_user" -> UpdateUser(c, q.who)
      [] q.op = "add_invite" ->
            AddInvite(c, [id |-> r, email |-> q.email, role |-> q.role, usedBy |-> None])
      [] q.op = "consume_invite" -> ConsumeInvite(c, q.ref, r)
      [] q.op = "add_token" -> AddToken(c, [id |-> r, owner |-> q.who, revoked |-> FALSE])
      [] q.op = "revoke_token" -> RevokeToken(c, q.ref, q.who)
      [] q.op = "touch_token" -> TouchToken(c, q.ref)

---------------------------------------------------------------------------
Init ==
    /\ files \in Installs
    /\ req = [r \in Reqs |-> Idle]
    /\ expired = {}
    /\ crashes = 0
    /\ mixed = {}

Goto(r, pc) == req' = [req EXCEPT ![r].pc = pc]

OnlyReads == UNCHANGED <<files, expired, crashes, mixed>>

\* The invites and tokens that have been handed out: those of the
\* installation, and those a request was answered with.
Known(f, k) == {x \in Seeds : \E i \in Installs : \E y \in i[f] : y.id = x} \cup Answered(k)

Arrive(r, q) ==
    /\ req[r].pc = "idle"
    /\ req' = [req EXCEPT ![r] = [q EXCEPT !.after = SignedUp]]
    /\ OnlyReads

Login(r) == \E e \in Emails :
    Arrive(r, [Idle EXCEPT !.kind = "login", !.pc = "account", !.email = e])

Register(r) == \E e \in Emails, i \in Known("invites", "invite") \cup {None} :
    Arrive(r, [Idle EXCEPT !.kind = "register", !.pc = "first", !.op = "add_user",
                           !.email = e, !.ref = i])

GithubCallback(r) == \E e \in Emails :
    Arrive(r, [Idle EXCEPT !.kind = "github", !.pc = "github.com", !.email = e])

CreateInvite(r) == \E e \in Emails \cup {None}, role \in InviteRoles :
    Arrive(r, [Idle EXCEPT !.kind = "invite", !.pc = "session", !.op = "add_invite",
                           !.email = e, !.role = role])

CreateToken(r) == Arrive(r, [Idle EXCEPT !.kind = "mint", !.pc = "session", !.op = "add_token"])

Revoke(r) == \E t \in Known("tokens", "mint") :
    Arrive(r, [Idle EXCEPT !.kind = "revoke", !.pc = "session", !.op = "revoke_token", !.ref = t])

ApiCall(r) == \E t \in Known("tokens", "mint") :
    Arrive(r, [Idle EXCEPT !.kind = "call", !.pc = "lookup", !.op = "touch_token", !.ref = t])

\* json.loads raises on a file that is being written: the request fails, but
\* for touch_token, which swallows its errors.
FileRead(q) == IF q.pc = "copy" THEN FileOf[q.op] ELSE Reads[q.pc]

\* Faulty: a file that cannot be parsed is taken for one without entries.
ReadOrEmpty(f) == IF files[f] \in Unreadable THEN {} ELSE files[f]

Read(f) == files[f]

ReadFails(r) ==
    /\ req[r].pc \in DOMAIN Reads \cup {"copy"}
    /\ Read(FileRead(req[r])) \in Unreadable
    /\ Goto(r, IF req[r].op = "touch_token" /\ req[r].pc = "copy" THEN "owner" ELSE "failed")
    /\ OnlyReads

\* Request r stands at pc and can read its file.
At(r, pc) == req[r].pc = pc /\ Read(FileRead(req[r])) \notin Unreadable

\* get_user_by_email and the password; a wrong password fails.
LoginReads(r) ==
    /\ At(r, "account")
    /\ \/ \E u \in Read("users") :
            /\ u.email = req[r].email /\ u.provider = "local"
            /\ req' = [req EXCEPT ![r].pc = "copy", ![r].who = u.id]
       \/ Goto(r, "failed")
    /\ OnlyReads

\* is_first_signup, in both kinds of sign-up.
FirstSignup(r) ==
    /\ At(r, "first")
    /\ LET first == Read("users") = {}
           github == req[r].kind = "github"
       IN  \/ /\ first \/ github
              /\ req' = [req EXCEPT ![r].first = first,
                                    ![r].role = IF first THEN "admin" ELSE OAuthRole,
                                    ![r].pc = IF github THEN "copy" ELSE "email",
                                    ![r].ref = None]
           \/ /\ ~first /\ ~github
              /\ Goto(r, IF req[r].ref # None THEN "invite"
                         ELSE IF SelfSignup THEN "email" ELSE "failed")
    /\ OnlyReads

\* get_invite and its checks.
InviteReads(r) ==
    /\ At(r, "invite")
    /\ LET fit == {i \in Read("invites") : /\ i.id = req[r].ref /\ Valid(i)
                                           /\ i.email \in {None, req[r].email}}
       IN  \/ \E i \in fit : req' = [req EXCEPT ![r].pc = "email", ![r].role = i.role]
           \/ fit = {} /\ Goto(r, "failed")
    /\ OnlyReads

\* get_user_by_email, in both kinds of sign-up: a known address is refused.
EmailReads(r) ==
    /\ At(r, "email")
    /\ Goto(r, IF \E u \in Read("users") : u.email = req[r].email THEN "failed"
               ELSE IF req[r].kind = "github" THEN "first" ELSE "copy")
    /\ OnlyReads

\* github_callback is a coroutine: what follows GitHub's answer runs on the
\* event loop without an await, so it excludes its like, and no other request.
OnTheLoop(q) == q.kind = "github" /\ q.pc \notin {"idle", "github.com"} \cup Ended

GithubAnswers(r) ==
    /\ req[r].pc = "github.com"
    /\ \/ (\A s \in Reqs : ~OnTheLoop(req[s])) /\ Goto(r, "subject")
       \/ Goto(r, "failed")
    /\ OnlyReads

SubjectReads(r) ==
    /\ At(r, "subject")
    /\ LET mine == {u \in Read("users") : u.provider = "github" /\ u.email = req[r].email}
       IN  \/ \E u \in mine : req' = [req EXCEPT ![r].pc = "copy", ![r].who = u.id]
           \/ mine = {} /\ req' = [req EXCEPT ![r].pc = "email", ![r].op = "add_user"]
    /\ OnlyReads

\* require_user with a session: of any account that is still there; only an
\* administrator's creates invites.
SessionReads(r) ==
    /\ At(r, "session")
    /\ \/ \E u \in Read("users") :
            /\ req[r].kind = "invite" => u.role = "admin"
            /\ req' = [req EXCEPT ![r].pc = "copy", ![r].who = u.id]
       \/ Goto(r, "failed")
    /\ OnlyReads

\* _user_from_api_token: the token, the touch, and the token's owner.
TokenReads(r) ==
    /\ At(r, "lookup")
    /\ LET live == {t \in Read("tokens") : t.id = req[r].ref /\ ~t.revoked}
       IN  \/ \E t \in live : req' = [req EXCEPT ![r].pc = "copy", ![r].who = t.owner]
           \/ live = {} /\ Goto(r, "failed")
    /\ OnlyReads

OwnerReads(r) ==
    /\ At(r, "owner")
    /\ Goto(r, IF \E u \in Read("users") : u.id = req[r].who THEN "ok" ELSE "failed")
    /\ OnlyReads

---------------------------------------------------------------------------
Changing(f) == {r \in Reqs : req[r].pc \in {"open", "write"} /\ FileOf[req[r].op] = f}

\* The change is made on a copy; the store raises, or touch_token returns,
\* when there is nothing to change.
TakeCopy(r) ==
    LET f == FileOf[req[r].op]
        new == Changed(r, Read(f))
    IN  /\ At(r, "copy")
        /\ \/ /\ new # Refused
              /\ req' = [req EXCEPT ![r].pc = "open", ![r].copy = new]
              /\ mixed' = mixed \cup (IF Changing(f) = {} THEN {} ELSE {f})
           \/ /\ new = Refused
              /\ Goto(r, IF req[r].op = "touch_token" THEN "owner" ELSE "failed")
              /\ UNCHANGED mixed
        /\ UNCHANGED <<files, expired, crashes>>

\* write_text: open, which empties the file, ...
Open(r) ==
    /\ req[r].pc = "open"
    /\ Goto(r, "write")
    /\ files' = [files EXCEPT ![FileOf[req[r].op]] = Truncated]
    /\ UNCHANGED <<expired, crashes, mixed>>

\* Faulty: a sign-up is answered without using up its invite.
AfterWriteForgets(q) == IF q.op = "touch_token" THEN "owner" ELSE "ok"

AfterWrite(q) ==
    IF q.op = "touch_token" THEN "owner"
    ELSE IF q.op = "add_user" /\ q.ref # None THEN "copy" ELSE "ok"

\* ... and write.  What another writer put there since is overwritten from the
\* start: a shorter text leaves the end of the longer.
Write(r) ==
    LET f == FileOf[req[r].op] IN
    /\ req[r].pc = "write"
    /\ \E left \in IF files[f] = Truncated THEN {req[r].copy} ELSE {req[r].copy, Garbled} :
        files' = [files EXCEPT ![f] = left]
    /\ req' = [req EXCEPT ![r].pc = AfterWrite(req[r]), ![r].copy = {},
                          ![r].op = IF AfterWrite(req[r]) = "copy" THEN "consume_invite" ELSE @]
    /\ UNCHANGED <<expired, crashes, mixed>>

Expire == \E i \in Ids :
    /\ files["invites"] \notin Unreadable
    /\ \E v \in files["invites"] : v.id = i
    /\ i \notin expired
    /\ expired' = expired \cup {i}
    /\ UNCHANGED <<files, req, crashes, mixed>>

\* The server is killed and restarted: its requests are gone, its files stay.
Crash ==
    /\ crashes < MaxCrashes
    /\ crashes' = crashes + 1
    /\ mixed' = mixed \cup {f \in Files : files[f] = Truncated}
    /\ req' = [r \in Reqs |-> IF req[r].pc \in {"idle"} \cup Ended THEN req[r]
                              ELSE [req[r] EXCEPT !.pc = "lost", !.copy = {}]]
    /\ UNCHANGED <<files, expired>>

Arrives(r) == \/ Login(r) \/ Register(r) \/ GithubCallback(r) \/ CreateInvite(r)
              \/ CreateToken(r) \/ Revoke(r) \/ ApiCall(r)

Looks(r) == \/ ReadFails(r) \/ LoginReads(r) \/ FirstSignup(r) \/ InviteReads(r)
            \/ EmailReads(r) \/ GithubAnswers(r) \/ SubjectReads(r) \/ SessionReads(r)
            \/ TokenReads(r) \/ OwnerReads(r)

Changes(r) == TakeCopy(r) \/ Open(r) \/ Write(r)

Next == (\E r \in Reqs : Arrives(r) \/ Looks(r) \/ Changes(r)) \/ Expire \/ Crash

Spec == Init /\ [][Next]_vars

---------------------------------------------------------------------------
(* The history `after` is not part of the code: the sign-ups that had been *)
(* answered when the request arrived.                                      *)

RequestOK(q) ==
    /\ q.kind \in Kinds /\ q.pc \in Pcs /\ q.op \in Ops
    /\ q.email \in Emails \cup {None} /\ q.ref \in Ids \cup {None}
    /\ q.who \in Ids \cup {None} /\ q.role \in Roles
    /\ q.first \in BOOLEAN /\ q.after \subseteq Reqs

\* Files hold records of their kind or are unreadable; so does the copy of a
\* request that is about to write one.
TypeOK ==
    /\ DOMAIN files = Files
    /\ \A f \in Files : files[f] \in Unreadable \cup Contents[f]
    /\ DOMAIN req = Reqs
    /\ \A r \in Reqs : RequestOK(req[r])
    /\ \A r \in Reqs : req[r].pc \in {"open", "write"} => req[r].copy \in Contents[FileOf[req[r].op]]
    /\ expired \subseteq Ids /\ mixed \subseteq Files /\ crashes \in 0 .. MaxCrashes

\* No two accounts share an address, though get_user_by_email of a sign-up is
\* long out of date when add_user runs: add_user looks again, on the copy it
\* writes, so whatever requests mix up, every list they write is free of doubles.
EmailsUnique == files["users"] \notin Unreadable => DistinctEmails(files["users"])

\* Once a sign-up has been answered, no sign-up that arrives later is taken for
\* the first and made administrator: not while users.json is open and empty,
\* not after a crash that left it so, and not when a write has been lost.
BootstrapCloses == \A r \in Reqs : req[r].first => req[r].after = {}

\* What a file says once the one that is writing it has finished.
Settled(f) == IF files[f] \in Unreadable
              THEN UNION {req[r].copy : r \in Changing(f)} ELSE files[f]

\* Once a registration with an invite has been answered, one with the same invite
\* that arrives later makes no account, answered or not.  Two that arrive before
\* both may: get_invite finds it valid for all that ask before the first has
\* consumed it, and the account is added before consume_invite looks again and
\* raises.  Two changes of invites.json at once void this.
InviteCloses ==
    "invites" \notin mixed =>
        \A r \in Reqs :
            /\ req[r].kind = "register" /\ req[r].ref # None
            /\ \E s \in req[r].after : req[s].ref = req[r].ref
            => \A u \in Settled("users") : u.id # r

AccountKept(r) == \E u \in Settled("users") : u.id = r /\ u.email = req[r].email
InviteKept(i) == \E v \in Settled("invites") : v.id = i
UseKept(r) == \E v \in Settled("invites") : v.id = req[r].ref /\ v.usedBy = r
TokenKept(t) == \E x \in Settled("tokens") : x.id = t
RevokedKept(t) == \A x \in Settled("tokens") : x.id = t => x.revoked

\* What was answered lasts: accounts, invites and their use, tokens and their
\* revocation (which a use of the token, writing last_used_at, could undo),
\* unless two requests have changed the file at once or a crash emptied it.
AnswersLast ==
    /\ "users" \notin mixed => \A r \in SignedUp : AccountKept(r)
    /\ "invites" \notin mixed =>
        /\ \A r \in Answered("invite") : InviteKept(r)
        /\ \A r \in Answered("register") : req[r].ref # None => UseKept(r)
    /\ "tokens" \notin mixed =>
        /\ \A r \in Answered("mint") : TokenKept(r)
        /\ \A r \in Answered("revoke") : RevokedKept(req[r].ref)

=============================================================================
