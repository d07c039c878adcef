--------------------------- MODULE AccountsProofs ---------------------------
(***************************************************************************)
(* What the account files guarantee for any accounts, any number of        *)
(* requests and any number of crashes, however the reads and writes of     *)
(* requests interleave: addresses are unique, the installation never opens *)
(* again to a first sign-up, an invite is closed to those that come after  *)
(* its use, and what was answered lasts.                                   *)
(***************************************************************************)
EXTENDS Accounts, TLAPS

Entry == User \cup Invite \cup Token

Request == [kind : Kinds, pc : Pcs, op : Ops, email : Emails \cup {None}, ref : Ids \cup {None},
            who : Ids \cup {None}, role : Roles, first : BOOLEAN, copy : SUBSET Entry,
            after : SUBSET Reqs]

\* The changes a request of each kind makes.
OpsOf == [login |-> {"update_user"}, register |-> {"add_user", "consume_invite"},
          github |-> {"update_user", "add_user"}, invite |-> {"add_invite"},
          mint |-> {"add_token"}, revoke |-> {"revoke_token"}, call |-> {"touch_token"}]

\* What is about to be written over a file: records of its kind, and of
\* accounts at least one, no two with an address.
CopySound(q) ==
    q.pc \in {"open", "write"} =>
        /\ q.copy \in Contents[FileOf[q.op]]
        /\ FileOf[q.op] = "users" => DistinctEmails(q.copy) /\ q.copy # {}

Sound(q) ==
    /\ q \in Request
    /\ q.op \in OpsOf[q.kind]
    /\ q.kind \in {"register", "github"} => q.email \in Emails
    /\ q.kind = "github" => q.ref = None
    /\ q.op = "add_token" /\ q.pc = "copy" => q.who \in Ids
    /\ q.pc = "owner" => q.kind = "call"
    /\ q.pc \in {"github.com", "subject"} => q.kind = "github"
    /\ q.pc \in {"first", "invite", "email"} => q.kind \in {"register", "github"}
    /\ q.first => q.after = {}
    /\ CopySound(q)

\* The request q has added an account, or has come after one that had.
Past(q) == q.after # {} \/ q.op = "consume_invite" \/ (SigningUp(q) /\ q.pc = "ok")

\* Nobody can find the list of accounts empty.
UsersThere == files["users"] \in Unreadable \/ files["users"] # {}

FilesInv ==
    /\ files \in [Files -> Unreadable \cup SUBSET Entry]
    /\ \A f \in Files : files[f] \in Unreadable \cup Contents[f]
    /\ EmailsUnique

Bookkeeping == expired \subseteq Ids /\ mixed \subseteq Files /\ crashes \in 0 .. MaxCrashes

RequestsInv == req \in [Reqs -> Request] /\ \A r \in Reqs : Sound(req[r])

IInv ==
    /\ FilesInv /\ RequestsInv /\ Bookkeeping
    /\ \A r \in Reqs : Past(req[r]) => UsersThere

-----------------------------------------------------------------------------
(* The tables of the model, written out.                                   *)

LEMMA PcsFacts ==
    Pcs = {"account", "first", "email", "subject", "session", "owner", "invite", "lookup",
           "idle", "github.com", "copy", "open", "write", "ok", "failed", "lost"}
    BY DEF Pcs, Reads, Ended

LEMMA FileOfFacts ==
    /\ FileOf["add_user"] = "users" /\ FileOf["update_user"] = "users"
    /\ FileOf["add_invite"] = "invites" /\ FileOf["consume_invite"] = "invites"
    /\ FileOf["add_token"] = "tokens" /\ FileOf["revoke_token"] = "tokens"
    /\ FileOf["touch_token"] = "tokens"
    BY DEF FileOf, Ops

LEMMA FileOfType == \A o \in Ops : FileOf[o] \in Files
    BY FileOfFacts DEF Ops, Files

LEMMA ContentsFacts ==
    /\ Contents["users"] = SUBSET User
    /\ Contents["invites"] = SUBSET Invite
    /\ Contents["tokens"] = SUBSET Token
    BY DEF Contents

LEMMA ContentsType == \A f \in Files : Contents[f] \subseteq SUBSET Entry
    BY ContentsFacts DEF Files, Entry

LEMMA OpsOfFacts ==
    /\ OpsOf["login"] = {"update_user"} /\ OpsOf["register"] = {"add_user", "consume_invite"}
    /\ OpsOf["github"] = {"update_user", "add_user"} /\ OpsOf["invite"] = {"add_invite"}
    /\ OpsOf["mint"] = {"add_token"} /\ OpsOf["revoke"] = {"revoke_token"}
    /\ OpsOf["call"] = {"touch_token"}
    BY DEF OpsOf

LEMMA IdleSound == Sound(Idle) /\ ~Past(Idle)
    BY PcsFacts, OpsOfFacts
    DEF Sound, Past, Idle, Request, Kinds, Ops, Roles, CopySound, SigningUp, Entry

-----------------------------------------------------------------------------
(* The changes of the store.                                               *)

\* add_user keeps the addresses distinct and leaves an account.
LEMMA AddUserKeeps ==
    ASSUME NEW c \in SUBSET User, NEW u \in User, DistinctEmails(c), AddUser(c, u) # Refused
    PROVE  /\ AddUser(c, u) \in SUBSET User /\ AddUser(c, u) # {}
           /\ DistinctEmails(AddUser(c, u))
    BY DEF AddUser, DistinctEmails

\* consume_invite only marks an invite.
LEMMA ConsumeInviteKeeps ==
    ASSUME NEW c \in SUBSET Invite, NEW i, NEW u \in Ids, ConsumeInvite(c, i, u) # Refused
    PROVE  ConsumeInvite(c, i, u) \in SUBSET Invite
<1>1. \A v \in c : [v EXCEPT !.usedBy = u] \in Invite
    BY DEF Invite
<1>2. QED
    BY <1>1 DEF ConsumeInvite

\* revoke_token only marks a token.
LEMMA RevokeTokenKeeps ==
    ASSUME NEW c \in SUBSET Token, NEW i, NEW u, RevokeToken(c, i, u) # Refused
    PROVE  RevokeToken(c, i, u) \in SUBSET Token
<1>1. \A t \in c : [t EXCEPT !.revoked = TRUE] \in Token
    BY DEF Token
<1>2. QED
    BY <1>1 DEF RevokeToken

\* Whatever a request changes, what it writes back is sound.
LEMMA ChangedSound ==
    ASSUME NEW r \in Reqs, Sound(req[r]), NEW c \in Contents[FileOf[req[r].op]],
           req[r].pc = "copy",
           FileOf[req[r].op] = "users" => DistinctEmails(c),
           Changed(r, c) # Refused
    PROVE  /\ Changed(r, c) \in Contents[FileOf[req[r].op]]
           /\ FileOf[req[r].op] = "users" => DistinctEmails(Changed(r, c)) /\ Changed(r, c) # {}
<1> DEFINE q == req[r]
<1>0. /\ r \in Ids /\ q.op \in Ops /\ q.op \in OpsOf[q.kind] /\ q.kind \in Kinds
      /\ q.email \in Emails \cup {None} /\ q.role \in Roles
    BY DEF Sound, Request, Ids
<1>1. CASE q.op = "add_user"
    <2>1. Changed(r, c) = AddUser(c, [id |-> r, email |-> q.email, role |-> q.role,
                                      provider |-> IF q.kind = "github" THEN "github" ELSE "local"])
        BY <1>1 DEF Changed
    <2>2. q.kind \in {"register", "github"}
        BY <1>0, <1>1, OpsOfFacts DEF Kinds
    <2>3. q.email \in Emails
        BY <2>2 DEF Sound
    <2>4. [id |-> r, email |-> q.email, role |-> q.role,
           provider |-> IF q.kind = "github" THEN "github" ELSE "local"] \in User
        BY <1>0, <2>3 DEF User
    <2>5. c \in SUBSET User /\ DistinctEmails(c)
        BY <1>1, FileOfFacts, ContentsFacts
    <2>6. QED
        BY <1>1, <2>1, <2>4, <2>5, AddUserKeeps, FileOfFacts, ContentsFacts
<1>2. CASE q.op = "update_user"
    <2>1. Changed(r, c) = UpdateUser(c, q.who)
        BY <1>2 DEF Changed
    <2>2. Changed(r, c) = c /\ c # {}
        BY <2>1 DEF UpdateUser
    <2>3. QED
        BY <1>2, <2>2
<1>3. CASE q.op = "add_invite"
    <2>1. Changed(r, c) = AddInvite(c, [id |-> r, email |-> q.email, role |-> q.role, usedBy |-> None])
        BY <1>3 DEF Changed
    <2>2. [id |-> r, email |-> q.email, role |-> q.role, usedBy |-> None] \in Invite
        BY <1>0 DEF Invite
    <2>3. QED
        BY <1>3, <2>1, <2>2, FileOfFacts, ContentsFacts DEF AddInvite
<1>4. CASE q.op = "consume_invite"
    <2>1. Changed(r, c) = ConsumeInvite(c, q.ref, r)
        BY <1>4 DEF Changed
    <2>2. QED
        BY <1>0, <1>4, <2>1, ConsumeInviteKeeps, FileOfFacts, ContentsFacts
<1>5. CASE q.op = "add_token"
    <2>1. Changed(r, c) = AddToken(c, [id |-> r, owner |-> q.who, revoked |-> FALSE])
        BY <1>5 DEF Changed
    <2>2. [id |-> r, owner |-> q.who, revoked |-> FALSE] \in Token
        BY <1>0, <1>5 DEF Token, Sound
    <2>3. QED
        BY <1>5, <2>1, <2>2, FileOfFacts, ContentsFacts DEF AddToken
<1>6. CASE q.op = "revoke_token"
    <2>1. Changed(r, c) = RevokeToken(c, q.ref, q.who)
        BY <1>6 DEF Changed
    <2>2. QED
        BY <1>6, <2>1, RevokeTokenKeeps, FileOfFacts, ContentsFacts
<1>7. CASE q.op = "touch_token"
    <2>1. Changed(r, c) = TouchToken(c, q.ref)
        BY <1>7 DEF Changed
    <2>2. QED
        BY <1>7, <2>1, FileOfFacts, ContentsFacts DEF TouchToken
<1>8. QED
    BY <1>0, <1>1, <1>2, <1>3, <1>4, <1>5, <1>6, <1>7 DEF Ops

-----------------------------------------------------------------------------
(* One request moves.                                                      *)

LEMMA MoveKeeps ==
    ASSUME IInv, NEW r \in Reqs, NEW q, Sound(q), Past(q) => UsersThere,
           req' = [req EXCEPT ![r] = q], OnlyReads
    PROVE  IInv'
<1>1. req' \in [Reqs -> Request] /\ \A s \in Reqs : req'[s] = IF s = r THEN q ELSE req[s]
    BY DEF IInv, RequestsInv, Sound
<1>2. RequestsInv'
    BY <1>1 DEF IInv, RequestsInv, Sound, CopySound
<1>3. FilesInv' /\ Bookkeeping' /\ (UsersThere' <=> UsersThere)
    BY DEF IInv, OnlyReads, FilesInv, EmailsUnique, Bookkeeping, UsersThere
<1>4. \A s \in Reqs : Past(req'[s]) => UsersThere'
    BY <1>1, <1>3 DEF IInv
<1>5. QED
    BY <1>2, <1>3, <1>4 DEF IInv, Past, SigningUp

\* A request arrives.
LEMMA ArriveKeeps ==
    ASSUME IInv, NEW r \in Reqs, NEW q, Arrive(r, q), Sound(q), ~Past(q), q.first = FALSE
    PROVE  IInv'
<1> DEFINE p == [q EXCEPT !.after = SignedUp]
<1>1. Sound(p)
    <2>1. SignedUp \subseteq Reqs
        BY DEF SignedUp
    <2> QED BY <2>1 DEF Sound, Request, CopySound
<1>2. ASSUME p.after # {} PROVE UsersThere
    <2>1. PICK s \in Reqs : SigningUp(req[s]) /\ req[s].pc = "ok"
        <3>1. p.after = SignedUp
            BY DEF Sound, Request
        <3> QED BY <1>2, <3>1 DEF SignedUp
    <2>2. QED
        BY <2>1 DEF IInv, Past
<1>3. Past(p) => p.after # {}
    BY DEF Past, SigningUp, Sound, Request
<1>4. QED
    BY <1>1, <1>2, <1>3, MoveKeeps DEF Arrive

\* A request goes on to another step of the same work without writing.
LEMMA GoesOn ==
    ASSUME IInv, NEW r \in Reqs, NEW pc \in Pcs \ {"open", "write"},
           pc = "owner" => req[r].kind = "call",
           pc \in {"github.com", "subject"} => req[r].kind = "github",
           pc \in {"first", "invite", "email"} => req[r].kind \in {"register", "github"},
           pc = "ok" => ~SigningUp(req[r]),
           pc = "copy" => req[r].op # "add_token",
           Goto(r, pc), OnlyReads
    PROVE  IInv'
<1> DEFINE q == [req[r] EXCEPT !.pc = pc]
<1>1. Sound(req[r]) /\ (Past(req[r]) => UsersThere)
    BY DEF IInv, RequestsInv
<1>2. Sound(q)
    BY <1>1 DEF Sound, Request, CopySound
<1>3. Past(q) => Past(req[r])
    BY <1>1 DEF Past, SigningUp, Sound, Request
<1>4. QED
    BY <1>1, <1>2, <1>3, MoveKeeps DEF Goto

\* A request finds the account it acts for, and goes on to its change.
LEMMA ActsFor ==
    ASSUME IInv, NEW r \in Reqs, NEW u \in Ids,
           req' = [req EXCEPT ![r].pc = "copy", ![r].who = u], OnlyReads
    PROVE  IInv'
<1> DEFINE q == [req[r] EXCEPT !.pc = "copy", !.who = u]
<1>1. Sound(req[r]) /\ (Past(req[r]) => UsersThere)
    BY DEF IInv, RequestsInv
<1>2. Sound(q)
    BY <1>1, PcsFacts DEF Sound, Request, CopySound
<1>3. Past(q) => Past(req[r])
    BY <1>1 DEF Past, SigningUp, Sound, Request
<1>4. req' = [req EXCEPT ![r] = q]
    OBVIOUS
<1>5. QED
    BY <1>1, <1>2, <1>3, <1>4, MoveKeeps

-----------------------------------------------------------------------------
(* The handlers.                                                           *)

\* What the requests are asked for is well formed.
LEMMA KnownFacts ==
    /\ Known("invites", "invite") \subseteq Ids
    /\ Known("tokens", "mint") \subseteq Ids
    BY DEF Known, Answered, Ids

LEMMA ArrivesKeeps ==
    ASSUME IInv, NEW r \in Reqs, Arrives(r)
    PROVE  IInv'
<1>1. CASE Login(r)
    <2>1. PICK e \in Emails : Arrive(r, [Idle EXCEPT !.kind = "login", !.pc = "account", !.email = e])
        BY <1>1 DEF Login
    <2> DEFINE q == [Idle EXCEPT !.kind = "login", !.pc = "account", !.email = e]
    <2>2. Sound(q) /\ ~Past(q) /\ q.first = FALSE
        BY IdleSound, PcsFacts DEF Sound, Past, Request, CopySound, SigningUp, Idle, Kinds
    <2>3. QED
        BY <2>1, <2>2, ArriveKeeps
<1>2. CASE Register(r)
    <2>1. PICK e \in Emails, i \in Known("invites", "invite") \cup {None} :
            Arrive(r, [Idle EXCEPT !.kind = "register", !.pc = "first", !.op = "add_user",
                                   !.email = e, !.ref = i])
        BY <1>2 DEF Register
    <2> DEFINE q == [Idle EXCEPT !.kind = "register", !.pc = "first", !.op = "add_user",
                                 !.email = e, !.ref = i]
    <2>2. Sound(q) /\ ~Past(q) /\ q.first = FALSE
        BY IdleSound, PcsFacts, OpsOfFacts, KnownFacts
        DEF Sound, Past, Request, CopySound, SigningUp, Idle, Kinds, Ops
    <2>3. QED
        BY <2>1, <2>2, ArriveKeeps
<1>3. CASE GithubCallback(r)
    <2>1. PICK e \in Emails : Arrive(r, [Idle EXCEPT !.kind = "github", !.pc = "github.com", !.email = e])
        BY <1>3 DEF GithubCallback
    <2> DEFINE q == [Idle EXCEPT !.kind = "github", !.pc = "github.com", !.email = e]
    <2>2. Sound(q) /\ ~Past(q) /\ q.first = FALSE
        BY IdleSound, PcsFacts, OpsOfFacts
        DEF Sound, Past, Request, CopySound, SigningUp, Idle, Kinds, Ops
    <2>3. QED
        BY <2>1, <2>2, ArriveKeeps
<1>4. CASE CreateInvite(r)
    <2>1. PICK e \in Emails \cup {None}, role \in InviteRoles :
            Arrive(r, [Idle EXCEPT !.kind = "invite", !.pc = "session", !.op = "add_invite",
                                   !.email = e, !.role = role])
        BY <1>4 DEF CreateInvite
    <2> DEFINE q == [Idle EXCEPT !.kind = "invite", !.pc = "session", !.op = "add_invite",
                                 !.email = e, !.role = role]
    <2>2. Sound(q) /\ ~Past(q) /\ q.first = FALSE
        BY IdleSound, PcsFacts, OpsOfFacts, AccountsAssumption
        DEF Sound, Past, Request, CopySound, SigningUp, Idle, Kinds, Ops
    <2>3. QED
        BY <2>1, <2>2, ArriveKeeps
<1>5. CASE CreateToken(r)
    <2> DEFINE q == [Idle EXCEPT !.kind = "mint", !.pc = "session", !.op = "add_token"]
    <2>1. Sound(q) /\ ~Past(q) /\ q.first = FALSE
        BY IdleSound, PcsFacts, OpsOfFacts
        DEF Sound, Past, Request, CopySound, SigningUp, Idle, Kinds, Ops
    <2>2. QED
        BY <1>5, <2>1, ArriveKeeps DEF CreateToken
<1>6. CASE Revoke(r)
    <2>1. PICK t \in Known("tokens", "mint") :
            Arrive(r, [Idle EXCEPT !.kind = "revoke", !.pc = "session", !.op = "revoke_token", !.ref = t])
        BY <1>6 DEF Revoke
    <2> DEFINE q == [Idle EXCEPT !.kind = "revoke", !.pc = "session", !.op = "revoke_token", !.ref = t]
    <2>2. Sound(q) /\ ~Past(q) /\ q.first = FALSE
        BY IdleSound, PcsFacts, OpsOfFacts, KnownFacts
        DEF Sound, Past, Request, CopySound, SigningUp, Idle, Kinds, Ops
    <2>3. QED
        BY <2>1, <2>2, ArriveKeeps
<1>7. CASE ApiCall(r)
    <2>1. PICK t \in Known("tokens", "mint") :
            Arrive(r, [Idle EXCEPT !.kind = "call", !.pc = "lookup", !.op = "touch_token", !.ref = t])
        BY <1>7 DEF ApiCall
    <2> DEFINE q == [Idle EXCEPT !.kind = "call", !.pc = "lookup", !.op = "touch_token", !.ref = t]
    <2>2. Sound(q) /\ ~Past(q) /\ q.first = FALSE
        BY IdleSound, PcsFacts, OpsOfFacts, KnownFacts
        DEF Sound, Past, Request, CopySound, SigningUp, Idle, Kinds, Ops
    <2>3. QED
        BY <2>1, <2>2, ArriveKeeps
<1>8. QED
    BY <1>1, <1>2, <1>3, <1>4, <1>5, <1>6, <1>7 DEF Arrives

\* The records of a file that can be read.
LEMMA ReadFacts ==
    ASSUME IInv, NEW f \in Files, Read(f) \notin Unreadable
    PROVE  Read(f) \in Contents[f]
    BY DEF IInv, FilesInv, Read

\* What a request's kind says of its change.
LEMMA KindFacts ==
    ASSUME IInv, NEW r \in Reqs
    PROVE  /\ Sound(req[r]) /\ req[r].kind \in Kinds /\ req[r].op \in OpsOf[req[r].kind]
           /\ req[r].op = "touch_token" => req[r].kind = "call"
           /\ req[r].kind = "call" => ~SigningUp(req[r])
           /\ req[r].kind \in {"register", "github"} => req[r].op # "add_token"
    BY OpsOfFacts DEF IInv, RequestsInv, Sound, Request, Kinds, SigningUp

LEMMA ReadFailsKeeps ==
    ASSUME IInv, NEW r \in Reqs, ReadFails(r)
    PROVE  IInv'
<1>1. CASE req[r].op = "touch_token" /\ req[r].pc = "copy"
    BY <1>1, KindFacts, GoesOn, PcsFacts DEF ReadFails
<1>2. CASE ~(req[r].op = "touch_token" /\ req[r].pc = "copy")
    BY <1>2, GoesOn, PcsFacts DEF ReadFails
<1>3. QED
    BY <1>1, <1>2

\* A request that acts for an account of the list, or is turned away.
LEMMA AccountReadsKeep ==
    ASSUME IInv, NEW r \in Reqs, LoginReads(r) \/ SessionReads(r)
    PROVE  IInv'
<1> DEFINE pc == req[r].pc
<1>1. OnlyReads /\ pc \in {"account", "session"} /\ Read("users") \notin Unreadable
    BY DEF LoginReads, SessionReads, At, FileRead, Reads
<1>2. \A u \in Read("users") : u.id \in Ids
    BY <1>1, ReadFacts, ContentsFacts DEF Files, User
<1>3. CASE Goto(r, "failed")
    BY <1>1, <1>3, GoesOn, PcsFacts
<1>4. CASE \E u \in Read("users") : req' = [req EXCEPT ![r].pc = "copy", ![r].who = u.id]
    BY <1>1, <1>2, <1>4, ActsFor
<1>5. QED
    BY <1>3, <1>4 DEF LoginReads, SessionReads

LEMMA FirstSignupKeeps ==
    ASSUME IInv, NEW r \in Reqs, FirstSignup(r)
    PROVE  IInv'
<1> DEFINE first == Read("users") = {}
           github == req[r].kind = "github"
           q == [req[r] EXCEPT !.first = first, !.role = IF first THEN "admin" ELSE OAuthRole,
                               !.pc = IF github THEN "copy" ELSE "email", !.ref = None]
<1>0. /\ OnlyReads /\ req[r].pc = "first" /\ Read("users") \notin Unreadable
      /\ Sound(req[r]) /\ (Past(req[r]) => UsersThere)
    <2>1. OnlyReads /\ At(r, "first")
        BY DEF FirstSignup
    <2>2. QED
        BY <2>1, KindFacts DEF At, FileRead, Reads, IInv
<1>1. /\ OnlyReads /\ req[r].pc = "first" /\ Read("users") \notin Unreadable
      /\ Sound(req[r]) /\ (Past(req[r]) => UsersThere)
      /\ req[r].kind \in {"register", "github"} /\ req[r].op # "add_token"
    BY <1>0, KindFacts DEF Sound
<1>2. first => ~Past(req[r])
    BY <1>1 DEF UsersThere, Read
<1>3. CASE (first \/ github) /\ req' = [req EXCEPT ![r] = q]
    <2>1. Sound(q)
        BY <1>1, <1>2, <1>3, PcsFacts, AccountsAssumption
        DEF Sound, Request, CopySound, Past, Roles
    <2>2. Past(q) => Past(req[r])
        BY <1>1 DEF Past, SigningUp, Sound, Request
    <2>3. QED
        BY <1>1, <1>3, <2>1, <2>2, MoveKeeps
<1>4. CASE Goto(r, IF req[r].ref # None THEN "invite" ELSE IF SelfSignup THEN "email" ELSE "failed")
    <2>1. \E pc \in {"invite", "email", "failed"} : Goto(r, pc)
        BY <1>4
    <2>2. QED
        BY <1>1, <2>1, GoesOn, PcsFacts
<1>5. QED
    BY <1>3, <1>4 DEF FirstSignup

LEMMA InviteReadsKeeps ==
    ASSUME IInv, NEW r \in Reqs, InviteReads(r)
    PROVE  IInv'
<1>1. /\ OnlyReads /\ req[r].pc = "invite" /\ Read("invites") \notin Unreadable
      /\ Sound(req[r]) /\ (Past(req[r]) => UsersThere)
    BY KindFacts DEF InviteReads, At, FileRead, Reads, IInv
<1>2. CASE Goto(r, "failed")
    BY <1>1, <1>2, GoesOn, PcsFacts
<1>3. CASE \E i \in Read("invites") : req' = [req EXCEPT ![r].pc = "email", ![r].role = i.role]
    <2>1. PICK i \in Read("invites") : req' = [req EXCEPT ![r].pc = "email", ![r].role = i.role]
        BY <1>3
    <2> DEFINE q == [req[r] EXCEPT !.pc = "email", !.role = i.role]
    <2>2. i.role \in Roles
        BY <1>1, ReadFacts, ContentsFacts DEF Files, Invite
    <2>3. Sound(q)
        BY <1>1, <2>2, PcsFacts DEF Sound, Request, CopySound
    <2>4. Past(q) => Past(req[r])
        BY <1>1 DEF Past, SigningUp, Sound, Request
    <2>5. req' = [req EXCEPT ![r] = q]
        BY <2>1
    <2>6. QED
        BY <1>1, <2>3, <2>4, <2>5, MoveKeeps
<1>4. QED
    BY <1>2, <1>3 DEF InviteReads

LEMMA EmailReadsKeeps ==
    ASSUME IInv, NEW r \in Reqs, EmailReads(r)
    PROVE  IInv'
<1>1. /\ OnlyReads /\ req[r].pc = "email"
      /\ req[r].kind \in {"register", "github"} /\ req[r].op # "add_token"
    BY KindFacts DEF EmailReads, At, Sound
<1>2. \E pc \in {"failed", "first", "copy"} : Goto(r, pc)
    BY DEF EmailReads
<1>3. QED
    BY <1>1, <1>2, GoesOn, PcsFacts

LEMMA GithubAnswersKeeps ==
    ASSUME IInv, NEW r \in Reqs, GithubAnswers(r)
    PROVE  IInv'
<1>1. OnlyReads /\ req[r].kind = "github"
    BY KindFacts DEF GithubAnswers, Sound
<1>2. \E pc \in {"subject", "failed"} : Goto(r, pc)
    BY DEF GithubAnswers
<1>3. QED
    BY <1>1, <1>2, GoesOn, PcsFacts

LEMMA SubjectReadsKeeps ==
    ASSUME IInv, NEW r \in Reqs, SubjectReads(r)
    PROVE  IInv'
<1> DEFINE q == [req[r] EXCEPT !.pc = "email", !.op = "add_user"]
<1>1. /\ OnlyReads /\ req[r].pc = "subject" /\ Read("users") \notin Unreadable
      /\ Sound(req[r]) /\ (Past(req[r]) => UsersThere) /\ req[r].kind = "github"
    BY KindFacts DEF SubjectReads, At, FileRead, Reads, IInv, Sound
<1>2. CASE \E u \in Read("users") : req' = [req EXCEPT ![r].pc = "copy", ![r].who = u.id]
    <2>1. \A u \in Read("users") : u.id \in Ids
        BY <1>1, ReadFacts, ContentsFacts DEF Files, User
    <2>2. QED
        BY <1>1, <1>2, <2>1, ActsFor
<1>3. CASE req' = [req EXCEPT ![r].pc = "email", ![r].op = "add_user"]
    <2>1. Sound(q)
        BY <1>1, PcsFacts, OpsOfFacts DEF Sound, Request, CopySound, Ops
    <2>2. Past(q) => Past(req[r])
        BY <1>1 DEF Past, SigningUp, Sound, Request
    <2>3. req' = [req EXCEPT ![r] = q]
        BY <1>3
    <2>4. QED
        BY <1>1, <2>1, <2>2, <2>3, MoveKeeps
<1>4. QED
    BY <1>2, <1>3 DEF SubjectReads

LEMMA TokenReadsKeeps ==
    ASSUME IInv, NEW r \in Reqs, TokenReads(r)
    PROVE  IInv'
<1>1. OnlyReads /\ req[r].pc = "lookup" /\ Read("tokens") \notin Unreadable
    BY DEF TokenReads, At, FileRead, Reads
<1>2. \A t \in Read("tokens") : t.owner \in Ids
    BY <1>1, ReadFacts, ContentsFacts DEF Files, Token
<1>3. CASE Goto(r, "failed")
    BY <1>1, <1>3, GoesOn, PcsFacts
<1>4. CASE \E t \in Read("tokens") : req' = [req EXCEPT ![r].pc = "copy", ![r].who = t.owner]
    BY <1>1, <1>2, <1>4, ActsFor
<1>5. QED
    BY <1>3, <1>4 DEF TokenReads

LEMMA OwnerReadsKeeps ==
    ASSUME IInv, NEW r \in Reqs, OwnerReads(r)
    PROVE  IInv'
<1>1. OnlyReads /\ req[r].kind = "call" /\ ~SigningUp(req[r])
    BY KindFacts DEF OwnerReads, At, Sound
<1>2. \E pc \in {"ok", "failed"} : Goto(r, pc)
    BY DEF OwnerReads
<1>3. QED
    BY <1>1, <1>2, GoesOn, PcsFacts

-----------------------------------------------------------------------------
(* The steps of a change.                                                  *)

LEMMA TakeCopyKeeps ==
    ASSUME IInv, NEW r \in Reqs, TakeCopy(r)
    PROVE  IInv'
<1> DEFINE f == FileOf[req[r].op]
           new == Changed(r, Read(f))
<1>1. /\ req[r].pc = "copy" /\ Read(f) \notin Unreadable /\ f \in Files
      /\ Sound(req[r]) /\ (Past(req[r]) => UsersThere) /\ req[r] \in Request
    BY KindFacts, FileOfType DEF TakeCopy, At, FileRead, IInv, Sound, Request
<1>2. CASE /\ new # Refused /\ req' = [req EXCEPT ![r].pc = "open", ![r].copy = new]
           /\ mixed' = mixed \cup (IF Changing(f) = {} THEN {} ELSE {f})
    <2> DEFINE q == [req[r] EXCEPT !.pc = "open", !.copy = new]
    <2>1. Read(f) \in Contents[f] /\ (f = "users" => DistinctEmails(Read(f)))
        BY <1>1, ReadFacts DEF IInv, FilesInv, EmailsUnique, Read
    <2>2. new \in Contents[f] /\ (f = "users" => DistinctEmails(new) /\ new # {})
        BY <1>1, <1>2, <2>1, ChangedSound
    <2>3. new \in SUBSET Entry
        BY <1>1, <2>2, ContentsType
    <2> HIDE DEF new
    <2>4. q \in Request
        BY <1>1, <2>3, PcsFacts DEF Request
    <2>5. Sound(q)
        BY <1>1, <2>2, <2>4 DEF Sound, CopySound, Request
    <2>6. Past(q) => Past(req[r])
        BY <1>1 DEF Past, SigningUp, Request
    <2>7. \A s \in Reqs : Sound(req'[s]) /\ (Past(req'[s]) => UsersThere)
        BY <1>1, <1>2, <2>5, <2>6 DEF IInv, RequestsInv
    <2>8. req' \in [Reqs -> Request]
        BY <1>2, <2>4 DEF IInv, RequestsInv
    <2>9. UNCHANGED <<files, expired, crashes>> /\ mixed' \subseteq Files
        BY <1>1, <1>2 DEF TakeCopy, IInv, Bookkeeping
    <2>10. RequestsInv'
        BY <2>7, <2>8 DEF RequestsInv, Sound, CopySound
    <2>11. FilesInv' /\ Bookkeeping' /\ (UsersThere' <=> UsersThere)
        BY <2>9 DEF IInv, FilesInv, EmailsUnique, Bookkeeping, UsersThere
    <2>12. QED
        BY <2>7, <2>10, <2>11 DEF IInv, Past, SigningUp
<1>3. CASE /\ Goto(r, IF req[r].op = "touch_token" THEN "owner" ELSE "failed")
           /\ UNCHANGED mixed
    <2>1. OnlyReads
        BY <1>3 DEF TakeCopy, OnlyReads
    <2>2. CASE req[r].op = "touch_token"
        BY <1>3, <2>1, <2>2, KindFacts, GoesOn, PcsFacts
    <2>3. CASE req[r].op # "touch_token"
        BY <1>3, <2>1, <2>3, GoesOn, PcsFacts
    <2>4. QED
        BY <2>2, <2>3
<1>4. QED
    BY <1>2, <1>3 DEF TakeCopy

LEMMA OpenKeeps ==
    ASSUME IInv, NEW r \in Reqs, Open(r)
    PROVE  IInv'
<1> DEFINE f == FileOf[req[r].op]
           q == [req[r] EXCEPT !.pc = "write"]
<1>1. /\ req[r].pc = "open" /\ f \in Files /\ Sound(req[r]) /\ req[r] \in Request
      /\ (Past(req[r]) => UsersThere)
    BY KindFacts, FileOfType DEF Open, IInv, Sound, Request
<1>2. Sound(q) /\ (Past(q) => Past(req[r]))
    BY <1>1, PcsFacts DEF Sound, CopySound, Request, Past, SigningUp
<1>3. req' \in [Reqs -> Request] /\ \A s \in Reqs : req'[s] = IF s = r THEN q ELSE req[s]
    BY <1>2 DEF Open, Goto, IInv, RequestsInv, Sound
<1>4. RequestsInv'
    BY <1>2, <1>3 DEF IInv, RequestsInv, Sound, CopySound
<1>5. files' \in [Files -> Unreadable \cup SUBSET Entry]
      /\ \A g \in Files : files'[g] = IF g = f THEN Truncated ELSE files[g]
    BY <1>1 DEF Open, IInv, FilesInv, Unreadable
<1>6. FilesInv' /\ (UsersThere => UsersThere')
    BY <1>5 DEF IInv, FilesInv, EmailsUnique, UsersThere, Unreadable, Files
<1>7. Bookkeeping'
    BY DEF Open, IInv, Bookkeeping
<1>8. \A s \in Reqs : Past(req'[s]) => UsersThere'
    BY <1>1, <1>2, <1>3, <1>6 DEF IInv
<1>9. QED
    BY <1>4, <1>6, <1>7, <1>8 DEF IInv, Past, SigningUp

LEMMA WriteKeeps ==
    ASSUME IInv, NEW r \in Reqs, Write(r)
    PROVE  IInv'
<1> DEFINE x == req[r]
           f == FileOf[x.op]
           q == [x EXCEPT !.pc = AfterWrite(x), !.copy = {},
                          !.op = IF AfterWrite(x) = "copy" THEN "consume_invite" ELSE @]
<1>1. /\ x.pc = "write" /\ f \in Files /\ Sound(x) /\ x \in Request
      /\ (Past(x) => UsersThere)
    BY KindFacts, FileOfType DEF Write, IInv, Sound, Request
<1>2. PICK left \in {x.copy, Garbled} : files' = [files EXCEPT ![f] = left]
    BY DEF Write
<1>3. /\ x.copy \in Contents[f] /\ x.copy \in SUBSET Entry
      /\ f = "users" => DistinctEmails(x.copy) /\ x.copy # {}
    BY <1>1, ContentsType DEF Sound, CopySound
<1>4. files' \in [Files -> Unreadable \cup SUBSET Entry]
      /\ \A g \in Files : files'[g] = IF g = f THEN left ELSE files[g]
    BY <1>1, <1>2, <1>3 DEF IInv, FilesInv, Unreadable
<1>5. FilesInv'
    BY <1>2, <1>3, <1>4 DEF IInv, FilesInv, EmailsUnique, Unreadable, Files
<1>6. UsersThere => UsersThere'
    BY <1>2, <1>3, <1>4 DEF UsersThere, Unreadable, Files
<1>7. f = "users" => UsersThere'
    BY <1>2, <1>3, <1>4 DEF UsersThere, Unreadable, Files
<1>8. x.kind \in Kinds /\ x.op \in OpsOf[x.kind] /\ x.op \in Ops
    BY <1>1 DEF Sound, Request
<1>9. /\ AfterWrite(x) \in {"owner", "copy", "ok"}
      /\ AfterWrite(x) = "owner" => x.kind = "call"
      /\ AfterWrite(x) = "copy" => x.op = "add_user" /\ x.ref # None
      /\ AfterWrite(x) = "ok" => x.op # "touch_token"
    BY <1>8, KindFacts DEF AfterWrite
<1>10. q \in Request
    BY <1>1, <1>9, PcsFacts DEF Request, Ops
<1>11. q.pc \in {"owner", "copy", "ok"}
    BY <1>1, <1>9 DEF Request
<1>12. q.pc = "copy" => q.op = "consume_invite" /\ x.op = "add_user"
    BY <1>1, <1>9 DEF Request
<1>13. q.kind = x.kind /\ q.after = x.after /\ q.first = x.first /\ q.email = x.email
       /\ (q.pc = "owner" => q.kind = "call") /\ (q.pc # "copy" => q.op = x.op)
    BY <1>1, <1>9 DEF Request
<1>14. q.pc = "copy" => q.kind = "register"
    BY <1>1, <1>8, <1>9, <1>11, OpsOfFacts DEF Sound, Kinds, Request
<1>15. Sound(q)
    BY <1>1, <1>10, <1>11, <1>12, <1>13, <1>14, OpsOfFacts DEF Sound, CopySound, Request
<1>16. Past(q) => UsersThere'
    <2>1. q.after # {} => UsersThere'
        BY <1>1, <1>6, <1>13 DEF Past
    <2>2. q.op = "consume_invite" => UsersThere'
        <3>1. CASE x.op = "add_user"
            BY <3>1, <1>7, FileOfFacts
        <3>2. CASE x.op = "consume_invite"
            BY <3>2, <1>1, <1>6 DEF Past
        <3>3. QED
            BY <3>1, <3>2, <1>12, <1>13
    <2>3. SigningUp(q) /\ q.pc = "ok" => UsersThere'
        <3>1. SUFFICES ASSUME SigningUp(q), q.pc = "ok" PROVE UsersThere'
            OBVIOUS
        <3>2. x.op \in {"add_user", "consume_invite"}
            BY <3>1, <1>8, <1>13, OpsOfFacts DEF SigningUp
        <3>3. CASE x.op = "add_user"
            BY <3>3, <1>7, FileOfFacts
        <3>4. CASE x.op = "consume_invite"
            BY <3>4, <1>1, <1>6 DEF Past
        <3>5. QED
            BY <3>2, <3>3, <3>4
    <2>4. QED
        BY <2>1, <2>2, <2>3 DEF Past
<1> HIDE DEF q
<1>17. req' \in [Reqs -> Request] /\ \A s \in Reqs : req'[s] = IF s = r THEN q ELSE req[s]
    BY <1>10 DEF Write, IInv, RequestsInv, q
<1>18. RequestsInv'
    BY <1>15, <1>17 DEF IInv, RequestsInv, Sound, CopySound
<1>19. Bookkeeping'
    BY DEF Write, IInv, Bookkeeping
<1>20. \A s \in Reqs : Past(req'[s]) => UsersThere'
    BY <1>6, <1>16, <1>17 DEF IInv
<1>21. QED
    BY <1>5, <1>18, <1>19, <1>20 DEF IInv, Past, SigningUp

LEMMA ExpireKeeps == IInv /\ Expire => IInv'
    BY DEF IInv, Expire, FilesInv, EmailsUnique, RequestsInv, Bookkeeping, UsersThere, Past,
           SigningUp, Sound, CopySound

LEMMA CrashKeeps ==
    ASSUME IInv, Crash
    PROVE  IInv'
<1> DEFINE Cut(x) == IF x.pc \in {"idle"} \cup Ended THEN x
                     ELSE [x EXCEPT !.pc = "lost", !.copy = {}]
<1>1. ASSUME NEW x, Sound(x)
      PROVE  Sound(Cut(x)) /\ (Past(Cut(x)) => Past(x))
    BY <1>1, PcsFacts DEF Sound, CopySound, Request, Past, SigningUp
<1>2. req' = [r \in Reqs |-> Cut(req[r])]
    BY DEF Crash
<1> HIDE DEF Cut
<1>3. \A r \in Reqs : Sound(req'[r]) /\ (Past(req'[r]) => UsersThere)
    BY <1>1, <1>2 DEF IInv, RequestsInv
<1>4. RequestsInv'
    BY <1>2, <1>3 DEF RequestsInv, Sound, CopySound
<1>5. FilesInv' /\ (UsersThere' <=> UsersThere)
    BY DEF Crash, IInv, FilesInv, EmailsUnique, UsersThere
<1>6. Bookkeeping'
    <2>1. MaxCrashes \in Nat
        BY AccountsAssumption
    <2>2. crashes' \in 0 .. MaxCrashes
        <3>1. crashes \in 0 .. MaxCrashes
            BY DEF IInv, Bookkeeping
        <3>2. crashes < MaxCrashes /\ crashes' = crashes + 1
            BY DEF Crash
        <3>3. QED
            BY <2>1, <3>1, <3>2
    <2>3. mixed' \subseteq Files /\ expired' \subseteq Ids
        BY DEF Crash, IInv, Bookkeeping
    <2>4. QED
        BY <2>2, <2>3 DEF Bookkeeping
<1>7. QED
    BY <1>3, <1>4, <1>5, <1>6 DEF IInv, Past, SigningUp

-----------------------------------------------------------------------------
LEMMA InitIInv == Init => IInv
<1> SUFFICES ASSUME Init PROVE IInv
    OBVIOUS
<1>1. /\ files \in [Files -> SUBSET Entry] /\ \A f \in Files : files[f] \in Contents[f]
      /\ DistinctEmails(files.users)
    BY AccountsAssumption DEF Init, Entry
<1>2. FilesInv
    BY <1>1 DEF FilesInv, EmailsUnique
<1>3. RequestsInv /\ \A r \in Reqs : ~Past(req[r])
    BY IdleSound DEF Init, RequestsInv, Sound
<1>4. Bookkeeping
    BY AccountsAssumption DEF Init, Bookkeeping
<1>5. QED
    BY <1>2, <1>3, <1>4 DEF IInv

LEMMA NextIInv == IInv /\ [Next]_vars => IInv'
<1> SUFFICES ASSUME IInv, [Next]_vars PROVE IInv'
    OBVIOUS
<1>1. CASE \E r \in Reqs : Arrives(r)
    BY <1>1, ArrivesKeeps
<1>2. CASE \E r \in Reqs : Looks(r)
    BY <1>2, ReadFailsKeeps, AccountReadsKeep, FirstSignupKeeps, InviteReadsKeeps, EmailReadsKeeps,
       GithubAnswersKeeps, SubjectReadsKeeps, TokenReadsKeeps, OwnerReadsKeeps DEF Looks
<1>3. CASE \E r \in Reqs : Changes(r)
    BY <1>3, TakeCopyKeeps, OpenKeeps, WriteKeeps DEF Changes
<1>4. CASE Expire
    BY <1>4, ExpireKeeps
<1>5. CASE Crash
    BY <1>5, CrashKeeps
<1>6. CASE UNCHANGED vars
    BY <1>6 DEF vars, IInv, FilesInv, EmailsUnique, RequestsInv, Bookkeeping, UsersThere, Past,
                SigningUp, Sound, CopySound
<1>7. QED
    BY <1>1, <1>2, <1>3, <1>4, <1>5, <1>6 DEF Next

\* The invariant holds of every behaviour.
LEMMA SpecIInv == Spec => []IInv
    BY InitIInv, NextIInv, PTL DEF Spec

-----------------------------------------------------------------------------
LEMMA IInvTypeOK == IInv => TypeOK
<1> SUFFICES ASSUME IInv PROVE TypeOK
    OBVIOUS
<1>1. \A r \in Reqs : RequestOK(req[r])
    BY DEF IInv, RequestsInv, Request, RequestOK
<1>2. \A r \in Reqs : req[r].pc \in {"open", "write"} => req[r].copy \in Contents[FileOf[req[r].op]]
    BY DEF IInv, RequestsInv, Sound, CopySound
<1>3. QED
    BY <1>1, <1>2 DEF IInv, FilesInv, RequestsInv, Bookkeeping, TypeOK

\* Files hold records of their kind or are unreadable, and what a request is
\* about to write over one is of that kind (auth/store.py).
THEOREM AccountsTypeOK == Spec => []TypeOK
    BY SpecIInv, IInvTypeOK, PTL

\* No two accounts share an address, though every sign-up looks for it long
\* before it writes (register and github_callback, UserStore.add_user).
THEOREM AccountsEmailsUnique == Spec => []EmailsUnique
<1>1. IInv => EmailsUnique
    BY DEF IInv, FilesInv
<1>2. QED
    BY <1>1, SpecIInv, PTL

\* No sign-up that arrives after another was answered is taken for the first,
\* which would make it administrator (UserStore.is_first_signup).
THEOREM AccountsBootstrapCloses == Spec => []BootstrapCloses
<1>1. IInv => BootstrapCloses
    BY DEF IInv, RequestsInv, Sound, BootstrapCloses
<1>2. QED
    BY <1>1, SpecIInv, PTL

-----------------------------------------------------------------------------
(* What was answered lasts.  A version of a file is what it holds, or what *)
(* a request is about to write over it: every version holds what was       *)
(* answered, as long as no two requests have changed the file at once.     *)

\* The text of a file that is cut short or mixed up is no set of records:
\* what the constants that stand for it are assumed to be.
TextsAreNoRecords == \A text \in Unreadable : text \notin SUBSET Entry

\* r has added its account, and r has been answered after using its invite.
Shown(r) == req[r].op = "consume_invite" \/ (SigningUp(req[r]) /\ req[r].pc = "ok")
UsesInvite(r) == r \in Answered("register") /\ req[r].ref # None

Versions(f) == ({files[f]} \ Unreadable) \cup {req[r].copy : r \in Changing(f)}

AccountIn(r, c) == \E u \in c : u.id = r /\ u.email = req[r].email
RecordIn(r, c) == \E v \in c : v.id = r
UseIn(r, c) == /\ \E v \in c : v.id = req[r].ref
               /\ \A v \in c : v.id = req[r].ref => v.usedBy = r
RevokedIn(r, c) == \A t \in c : t.id = req[r].ref => t.revoked

\* An invite that a request uses, and a token that one revokes, has been
\* handed out before.
RefKnown(q) ==
    /\ q.kind = "register" /\ q.ref # None => q.ref \in Seeds \cup Answered("invite")
    /\ q.kind = "revoke" => q.ref \in Seeds \cup Answered("mint")

RefsKnown == \A r \in Reqs : RefKnown(req[r])

\* A registration with an invite is answered after it has used the invite.
WayOf(q) ==
    /\ q.kind = "register" /\ q.pc = "ok" /\ q.ref # None => q.op = "consume_invite"
    /\ q.op = "consume_invite" => q.ref # None /\ q.pc \in {"copy", "open", "write"} \cup Ended

Ways == \A r \in Reqs : WayOf(req[r])

\* What a request is about to write has its own change in it.
Own(r, c) ==
    /\ req[r].op = "add_user" => AccountIn(r, c)
    /\ req[r].op \in {"add_invite", "add_token"} => RecordIn(r, c)
    /\ req[r].op = "consume_invite" => UseIn(r, c)
    /\ req[r].op = "revoke_token" => RevokedIn(r, c)

OwnChange == \A r \in Reqs : req[r].pc \in {"open", "write"} => Own(r, req[r].copy)

\* A file is changed by one request at a time, and cut short only meanwhile.
OneWriter ==
    \A f \in Files \ mixed :
        /\ \A r, s \in Changing(f) : r = s
        /\ \A r \in Changing(f) :
              IF req[r].pc = "write" THEN files[f] = Truncated ELSE files[f] \notin Unreadable
        /\ Changing(f) = {} => files[f] \notin Unreadable

\* What the version c of the file f says of what was answered.
Says(f, c) ==
    /\ f = "users" => \A r \in Reqs : Shown(r) => AccountIn(r, c)
    /\ f = "invites" => /\ \A r \in Answered("invite") : RecordIn(r, c)
                        /\ \A r \in Reqs : UsesInvite(r) => UseIn(r, c)
    /\ f = "tokens" => /\ \A r \in Answered("mint") : RecordIn(r, c)
                       /\ \A r \in Answered("revoke") : RevokedIn(r, c)

Lasting == \A f \in Files \ mixed : \A c \in Versions(f) : Says(f, c)

Lasts == RefsKnown /\ Ways /\ OwnChange /\ OneWriter /\ Lasting

\* What a step that neither writes nor answers makes q of the request p.
Quiet(p, q) ==
    /\ p.pc \notin {"open", "write", "ok"} /\ q.pc \notin {"open", "write"}
    /\ q.pc = "ok" => q.kind = "call"
    /\ q.op = "consume_invite" =>
          /\ p.op = "consume_invite" /\ q.pc = "failed"
          /\ q.email = p.email /\ q.ref = p.ref /\ q.kind = p.kind

LEMMA QuietKeeps ==
    ASSUME IInv, Lasts, NEW r \in Reqs, NEW q, Quiet(req[r], q), RefKnown(q),
           req' = [req EXCEPT ![r] = q], UNCHANGED <<files, mixed>>
    PROVE  Lasts'
<1>1. req'[r] = q /\ \A s \in Reqs \ {r} : req'[s] = req[s]
    BY DEF IInv, RequestsInv
<1>2. \A k \in {"invite", "mint", "register", "revoke"} : Answered(k)' = Answered(k)
    BY <1>1 DEF Answered, Quiet
<1>3. \A f : Changing(f)' = Changing(f) /\ r \notin Changing(f)
    BY <1>1 DEF Changing, Quiet
<1>4. \A f : \A s \in Changing(f) : s \in Reqs /\ req'[s] = req[s]
    BY <1>1, <1>3 DEF Changing
<1>5. \A f : Versions(f)' = Versions(f)
    BY <1>3, <1>4 DEF Versions
<1>6. ASSUME NEW s \in Reqs
      PROVE  /\ Shown(s)' => Shown(s) /\ req'[s].email = req[s].email
             /\ UsesInvite(s)' => UsesInvite(s) /\ req'[s] = req[s]
    BY <1>1, <1>2 DEF Shown, UsesInvite, Quiet, SigningUp, Answered
<1>7. RefsKnown'
    BY <1>1, <1>2 DEF Lasts, RefsKnown, RefKnown
<1>8. Ways'
    BY <1>1 DEF Lasts, Ways, WayOf, Quiet, Ended
<1>9. OwnChange'
    <2>1. ASSUME NEW s \in Reqs, req'[s].pc \in {"open", "write"} PROVE req'[s] = req[s]
        BY <1>1, <2>1 DEF Quiet
    <2> QED BY <2>1 DEF Lasts, OwnChange, Own, AccountIn, RecordIn, UseIn, RevokedIn
<1>10. OneWriter'
    BY <1>3, <1>4 DEF Lasts, OneWriter
<1>11. Lasting'
    <2>1. ASSUME NEW s \in Answered("revoke") PROVE req'[s] = req[s]
        BY <1>1, <2>1 DEF Answered, Quiet
    <2>2. ASSUME NEW f, NEW c, Says(f, c) PROVE Says(f, c)'
        <3>1. f = "users" => \A s \in Reqs : Shown(s)' => AccountIn(s, c)'
            BY <1>6, <2>2 DEF Says, AccountIn
        <3>2. f = "invites" => /\ \A s \in Answered("invite")' : RecordIn(s, c)'
                               /\ \A s \in Reqs : UsesInvite(s)' => UseIn(s, c)'
            BY <1>2, <1>6, <2>2 DEF Says, RecordIn, UseIn
        <3>3. f = "tokens" => /\ \A s \in Answered("mint")' : RecordIn(s, c)'
                              /\ \A s \in Answered("revoke")' : RevokedIn(s, c)'
            BY <1>2, <2>1, <2>2 DEF Says, RecordIn, RevokedIn
        <3> QED BY <3>1, <3>2, <3>3 DEF Says
    <2> QED BY <1>5, <2>2 DEF Lasts, Lasting
<1> QED BY <1>7, <1>8, <1>9, <1>10, <1>11 DEF Lasts

\* A request goes on without writing, or acts for the account it has found.
LEMMA GoesQuietly ==
    ASSUME IInv, Lasts, NEW r \in Reqs, NEW pc, pc \notin {"open", "write"},
           req[r].pc \notin {"open", "write", "ok"},
           pc = "ok" => req[r].kind = "call",
           req[r].op = "consume_invite" => pc = "failed",
           Goto(r, pc), UNCHANGED <<files, mixed>>
    PROVE  Lasts'
<1> DEFINE q == [req[r] EXCEPT !.pc = pc]
<1>1. req[r] \in Request
    BY DEF IInv, RequestsInv
<1>2. /\ q.pc = pc /\ q.kind = req[r].kind /\ q.op = req[r].op /\ q.email = req[r].email
      /\ q.ref = req[r].ref /\ req' = [req EXCEPT ![r] = q]
    BY <1>1 DEF Request, Goto
<1> HIDE DEF q
<1>3. Quiet(req[r], q) /\ RefKnown(q)
    BY <1>2 DEF Quiet, RefKnown, Lasts, RefsKnown
<1> QED BY <1>2, <1>3, QuietKeeps

LEMMA ActsQuietly ==
    ASSUME IInv, Lasts, NEW r \in Reqs, NEW u,
           req[r].pc \notin {"open", "write", "ok"}, req[r].op # "consume_invite",
           req' = [req EXCEPT ![r].pc = "copy", ![r].who = u], UNCHANGED <<files, mixed>>
    PROVE  Lasts'
<1> DEFINE q == [req[r] EXCEPT !.pc = "copy", !.who = u]
<1>1. req[r] \in Request
    BY DEF IInv, RequestsInv
<1>2. /\ q.pc = "copy" /\ q.kind = req[r].kind /\ q.op = req[r].op /\ q.email = req[r].email
      /\ q.ref = req[r].ref
    BY <1>1 DEF Request
<1>3. req' = [req EXCEPT ![r] = q]
    OBVIOUS
<1> HIDE DEF q
<1>4. Quiet(req[r], q) /\ RefKnown(q)
    BY <1>2 DEF Quiet, RefKnown, Lasts, RefsKnown
<1> QED BY <1>3, <1>4, QuietKeeps

\* A request that arrives names an invite or a token that was handed out.
LEMMA KnownIs ==
    /\ Known("invites", "invite") \subseteq Seeds \cup Answered("invite")
    /\ Known("tokens", "mint") \subseteq Seeds \cup Answered("mint")
    BY DEF Known

LEMMA ArriveLasts ==
    ASSUME IInv, Lasts, NEW r \in Reqs, NEW q \in Request, Arrive(r, q), q.op # "consume_invite",
           q.pc \notin {"open", "write", "ok"}, RefKnown(q)
    PROVE  Lasts'
<1> DEFINE p == [q EXCEPT !.after = SignedUp]
<1>1. /\ p.pc = q.pc /\ p.kind = q.kind /\ p.op = q.op /\ p.ref = q.ref
      /\ req' = [req EXCEPT ![r] = p] /\ req[r].pc = "idle" /\ UNCHANGED <<files, mixed>>
    BY DEF Arrive, Request, OnlyReads
<1> HIDE DEF p
<1>2. Quiet(req[r], p) /\ RefKnown(p)
    BY <1>1 DEF Quiet, RefKnown
<1> QED BY <1>1, <1>2, QuietKeeps

LEMMA ArrivesLasts ==
    ASSUME IInv, Lasts, NEW r \in Reqs, Arrives(r)
    PROVE  Lasts'
<1>0. Idle \in Request
    BY IdleSound DEF Sound
<1>1. CASE Login(r)
    <2>1. PICK e \in Emails : Arrive(r, [Idle EXCEPT !.kind = "login", !.pc = "account", !.email = e])
        BY <1>1 DEF Login
    <2> DEFINE q == [Idle EXCEPT !.kind = "login", !.pc = "account", !.email = e]
    <2>2. /\ q \in Request /\ q.op # "consume_invite" /\ q.pc \notin {"open", "write", "ok"}
          /\ RefKnown(q)
        BY <1>0, PcsFacts DEF Request, Idle, Kinds, RefKnown
    <2> QED BY <2>1, <2>2, ArriveLasts
<1>2. CASE Register(r)
    <2>1. PICK e \in Emails, i \in Known("invites", "invite") \cup {None} :
            Arrive(r, [Idle EXCEPT !.kind = "register", !.pc = "first", !.op = "add_user",
                                   !.email = e, !.ref = i])
        BY <1>2 DEF Register
    <2> DEFINE q == [Idle EXCEPT !.kind = "register", !.pc = "first", !.op = "add_user",
                                 !.email = e, !.ref = i]
    <2>2. /\ q \in Request /\ q.op # "consume_invite" /\ q.pc \notin {"open", "write", "ok"}
          /\ RefKnown(q)
        BY <1>0, PcsFacts, KnownFacts, KnownIs DEF Request, Idle, Kinds, Ops, RefKnown
    <2> QED BY <2>1, <2>2, ArriveLasts
<1>3. CASE GithubCallback(r)
    <2>1. PICK e \in Emails : Arrive(r, [Idle EXCEPT !.kind = "github", !.pc = "github.com", !.email = e])
        BY <1>3 DEF GithubCallback
    <2> DEFINE q == [Idle EXCEPT !.kind = "github", !.pc = "github.com", !.email = e]
    <2>2. /\ q \in Request /\ q.op # "consume_invite" /\ q.pc \notin {"open", "write", "ok"}
          /\ RefKnown(q)
        BY <1>0, PcsFacts DEF Request, Idle, Kinds, RefKnown
    <2> QED BY <2>1, <2>2, ArriveLasts
<1>4. CASE CreateInvite(r)
    <2>1. PICK e \in Emails \cup {None}, role \in InviteRoles :
            Arrive(r, [Idle EXCEPT !.kind = "invite", !.pc = "session", !.op = "add_invite",
                                   !.email = e, !.role = role])
        BY <1>4 DEF CreateInvite
    <2> DEFINE q == [Idle EXCEPT !.kind = "invite", !.pc = "session", !.op = "add_invite",
                                 !.email = e, !.role = role]
    <2>2. /\ q \in Request /\ q.op # "consume_invite" /\ q.pc \notin {"open", "write", "ok"}
          /\ RefKnown(q)
        BY <1>0, PcsFacts, AccountsAssumption DEF Request, Idle, Kinds, Ops, RefKnown
    <2> QED BY <2>1, <2>2, ArriveLasts
<1>5. CASE CreateToken(r)
    <2> DEFINE q == [Idle EXCEPT !.kind = "mint", !.pc = "session", !.op = "add_token"]
    <2>1. /\ q \in Request /\ q.op # "consume_invite" /\ q.pc \notin {"open", "write", "ok"}
          /\ RefKnown(q)
        BY <1>0, PcsFacts DEF Request, Idle, Kinds, Ops, RefKnown
    <2> QED BY <1>5, <2>1, ArriveLasts DEF CreateToken
<1>6. CASE Revoke(r)
    <2>1. PICK t \in Known("tokens", "mint") :
            Arrive(r, [Idle EXCEPT !.kind = "revoke", !.pc = "session", !.op = "revoke_token", !.ref = t])
        BY <1>6 DEF Revoke
    <2> DEFINE q == [Idle EXCEPT !.kind = "revoke", !.pc = "session", !.op = "revoke_token", !.ref = t]
    <2>2. /\ q \in Request /\ q.op # "consume_invite" /\ q.pc \notin {"open", "write", "ok"}
          /\ RefKnown(q)
        BY <1>0, PcsFacts, KnownFacts, KnownIs DEF Request, Idle, Kinds, Ops, RefKnown
    <2> QED BY <2>1, <2>2, ArriveLasts
<1>7. CASE ApiCall(r)
    <2>1. PICK t \in Known("tokens", "mint") :
            Arrive(r, [Idle EXCEPT !.kind = "call", !.pc = "lookup", !.op = "touch_token", !.ref = t])
        BY <1>7 DEF ApiCall
    <2> DEFINE q == [Idle EXCEPT !.kind = "call", !.pc = "lookup", !.op = "touch_token", !.ref = t]
    <2>2. /\ q \in Request /\ q.op # "consume_invite" /\ q.pc \notin {"open", "write", "ok"}
          /\ RefKnown(q)
        BY <1>0, PcsFacts, KnownFacts DEF Request, Idle, Kinds, Ops, RefKnown
    <2> QED BY <2>1, <2>2, ArriveLasts
<1> QED BY <1>1, <1>2, <1>3, <1>4, <1>5, <1>6, <1>7 DEF Arrives

\* What is looked for before the change is not looked for by a request that
\* uses its invite.
LEMMA LooksBefore ==
    ASSUME Lasts, NEW r \in Reqs, req[r].pc \notin {"copy", "open", "write"} \cup Ended
    PROVE  req[r].op # "consume_invite"
    BY DEF Lasts, Ways, WayOf

LEMMA FirstSignupLasts ==
    ASSUME IInv, Lasts, NEW r \in Reqs, FirstSignup(r)
    PROVE  Lasts'
<1> DEFINE first == Read("users") = {}
           github == req[r].kind = "github"
           q == [req[r] EXCEPT !.first = first, !.role = IF first THEN "admin" ELSE OAuthRole,
                               !.pc = IF github THEN "copy" ELSE "email", !.ref = None]
<1>1. UNCHANGED <<files, mixed>> /\ req[r].pc = "first" /\ req[r] \in Request
    BY KindFacts DEF FirstSignup, At, OnlyReads, Sound
<1>2. req[r].op # "consume_invite"
    BY <1>1, LooksBefore DEF Ended
<1>3. CASE req' = [req EXCEPT ![r] = q]
    <2>1. q.pc \in {"copy", "email"} /\ q.kind = req[r].kind /\ q.op = req[r].op /\ q.ref = None
        BY <1>1 DEF Request
    <2>2. q.kind # "revoke"
        BY <1>1, <2>1, KindFacts DEF Sound
    <2> HIDE DEF q
    <2>3. Quiet(req[r], q) /\ RefKnown(q)
        BY <1>1, <1>2, <2>1, <2>2 DEF Quiet, RefKnown
    <2> QED BY <1>1, <1>3, <2>3, QuietKeeps
<1>4. CASE \E pc \in {"invite", "email", "failed"} : Goto(r, pc)
    BY <1>1, <1>2, <1>4, GoesQuietly
<1> QED BY <1>3, <1>4 DEF FirstSignup

LEMMA LooksLasts ==
    ASSUME IInv, Lasts, NEW r \in Reqs, Looks(r)
    PROVE  Lasts'
<1>0. req[r] \in Request /\ Sound(req[r])
    BY DEF IInv, RequestsInv
<1>1. CASE ReadFails(r)
    <2>1. /\ UNCHANGED <<files, mixed>> /\ \E pc \in {"owner", "failed"} : Goto(r, pc)
          /\ req[r].pc \in DOMAIN Reads \cup {"copy"}
          /\ req[r].op # "touch_token" => Goto(r, "failed")
        BY <1>1 DEF ReadFails, OnlyReads
    <2>2. req[r].pc \notin {"open", "write", "ok"}
        BY <2>1 DEF Reads
    <2>3. CASE req[r].op = "consume_invite"
        BY <2>1, <2>2, <2>3, GoesQuietly
    <2> QED BY <2>1, <2>2, <2>3, GoesQuietly
<1>2. CASE LoginReads(r) \/ SessionReads(r) \/ TokenReads(r)
    <2>1. /\ UNCHANGED <<files, mixed>> /\ req[r].pc \in {"account", "session", "lookup"}
          /\ \/ \E u : req' = [req EXCEPT ![r].pc = "copy", ![r].who = u]
             \/ Goto(r, "failed")
        BY <1>2 DEF LoginReads, SessionReads, TokenReads, At, OnlyReads
    <2> QED BY <2>1, LooksBefore, GoesQuietly, ActsQuietly DEF Ended
<1>3. CASE FirstSignup(r)
    BY <1>3, FirstSignupLasts
<1>4. CASE InviteReads(r)
    <2>1. UNCHANGED <<files, mixed>> /\ req[r].pc = "invite"
        BY <1>4 DEF InviteReads, At, OnlyReads
    <2>2. CASE Goto(r, "failed")
        BY <2>1, <2>2, GoesQuietly
    <2>3. CASE \E i \in Read("invites") : req' = [req EXCEPT ![r].pc = "email", ![r].role = i.role]
        <3>1. PICK i \in Read("invites") : req' = [req EXCEPT ![r].pc = "email", ![r].role = i.role]
            BY <2>3
        <3> DEFINE q == [req[r] EXCEPT !.pc = "email", !.role = i.role]
        <3>2. /\ q.pc = "email" /\ q.kind = req[r].kind /\ q.op = req[r].op /\ q.email = req[r].email
              /\ q.ref = req[r].ref
            BY <1>0 DEF Request
        <3>3. req' = [req EXCEPT ![r] = q]
            BY <3>1
        <3> HIDE DEF q
        <3>4. Quiet(req[r], q) /\ RefKnown(q)
            BY <2>1, <3>2, LooksBefore DEF Quiet, RefKnown, Lasts, RefsKnown, Ended
        <3> QED BY <2>1, <3>3, <3>4, QuietKeeps
    <2> QED BY <1>4, <2>2, <2>3 DEF InviteReads
<1>5. CASE EmailReads(r)
    <2>1. /\ UNCHANGED <<files, mixed>> /\ \E pc \in {"failed", "first", "copy"} : Goto(r, pc)
          /\ req[r].pc = "email"
        BY <1>5 DEF EmailReads, At, OnlyReads
    <2> QED BY <2>1, LooksBefore, GoesQuietly DEF Ended
<1>6. CASE GithubAnswers(r)
    <2>1. /\ UNCHANGED <<files, mixed>> /\ \E pc \in {"subject", "failed"} : Goto(r, pc)
          /\ req[r].pc = "github.com"
        BY <1>6 DEF GithubAnswers, OnlyReads
    <2> QED BY <2>1, LooksBefore, GoesQuietly DEF Ended
<1>7. CASE SubjectReads(r)
    <2>1. UNCHANGED <<files, mixed>> /\ req[r].pc = "subject"
        BY <1>7 DEF SubjectReads, At, OnlyReads
    <2>2. CASE \E u : req' = [req EXCEPT ![r].pc = "copy", ![r].who = u]
        BY <2>1, <2>2, LooksBefore, ActsQuietly DEF Ended
    <2>3. CASE req' = [req EXCEPT ![r].pc = "email", ![r].op = "add_user"]
        <3> DEFINE q == [req[r] EXCEPT !.pc = "email", !.op = "add_user"]
        <3>1. q.pc = "email" /\ q.kind = req[r].kind /\ q.op = "add_user" /\ q.ref = req[r].ref
            BY <1>0 DEF Request
        <3>2. req' = [req EXCEPT ![r] = q]
            BY <2>3
        <3> HIDE DEF q
        <3>3. Quiet(req[r], q) /\ RefKnown(q)
            BY <2>1, <3>1 DEF Quiet, RefKnown, Lasts, RefsKnown
        <3> QED BY <2>1, <3>2, <3>3, QuietKeeps
    <2> QED BY <1>7, <2>2, <2>3 DEF SubjectReads
<1>8. CASE OwnerReads(r)
    <2>1. /\ UNCHANGED <<files, mixed>> /\ \E pc \in {"ok", "failed"} : Goto(r, pc)
          /\ req[r].pc = "owner" /\ req[r].kind = "call"
        BY <1>0, <1>8 DEF OwnerReads, At, OnlyReads, Sound
    <2> QED BY <2>1, LooksBefore, GoesQuietly DEF Ended
<1> QED BY <1>1, <1>2, <1>3, <1>4, <1>5, <1>6, <1>7, <1>8 DEF Looks

\* What a request makes of a version of its file has its own change in it,
\* and still says what the version says of what was answered: ids are those
\* of requests, so an invite or a token that was handed out has no new record
\* of its id, and an invite that was used is not used again.
LEMMA ChangedSays ==
    ASSUME IInv, Lasts, NEW r \in Reqs, req[r].pc = "copy",
           NEW c \in Contents[FileOf[req[r].op]], Changed(r, c) # Refused
    PROVE  /\ Own(r, Changed(r, c))
           /\ Says(FileOf[req[r].op], c) => Says(FileOf[req[r].op], Changed(r, c))
<1> DEFINE x == req[r]
           new == Changed(r, c)
<1>0. /\ x.op \in Ops /\ Sound(x) /\ RefKnown(x) /\ WayOf(x) /\ r \in Ids
      /\ x.kind = "revoke" => x.op = "revoke_token"
      /\ x.op = "revoke_token" => x.kind = "revoke"
    BY KindFacts, OpsOfFacts DEF Sound, Request, Lasts, RefsKnown, Ways, Ids, Kinds
<1>1. \A s \in Answered("register") \cup Answered("revoke") : (s \in Reqs /\ req[s].ref # r) \/ req[s].ref = None
    <2> SUFFICES ASSUME NEW s \in Answered("register") \cup Answered("revoke"), req[s].ref # None
                 PROVE  req[s].ref # r
        BY DEF Answered
    <2>1. RefKnown(req[s]) /\ s \in Reqs /\ req[s].kind \in {"register", "revoke"}
        BY DEF Answered, Lasts, RefsKnown
    <2>2. r \notin Answered("invite") \cup Answered("mint") \cup Seeds
        BY AccountsAssumption DEF Answered
    <2> QED BY <2>1, <2>2 DEF RefKnown
<1>2. CASE x.op \in {"update_user", "touch_token"}
    <2>1. new = c
        BY <1>2 DEF Changed, UpdateUser, TouchToken
    <2> QED BY <1>2, <2>1 DEF Own
<1>3. CASE x.op = "add_user"
    <2> DEFINE u == [id |-> r, email |-> x.email, role |-> x.role,
                     provider |-> IF x.kind = "github" THEN "github" ELSE "local"]
    <2>1. new = c \cup {u} /\ u.id = r /\ u.email = x.email
        BY <1>3 DEF Changed, AddUser
    <2>2. FileOf[x.op] = "users"
        BY <1>3, FileOfFacts
    <2> HIDE DEF u
    <2> QED BY <1>3, <2>1, <2>2 DEF Own, Says, AccountIn
<1>4. CASE x.op = "add_invite"
    <2> DEFINE v == [id |-> r, email |-> x.email, role |-> x.role, usedBy |-> None]
    <2>1. new = c \cup {v} /\ v.id = r
        BY <1>4 DEF Changed, AddInvite
    <2>2. FileOf[x.op] = "invites"
        BY <1>4, FileOfFacts
    <2> HIDE DEF v
    <2>3. Says("invites", c) => Says("invites", new)
        BY <1>1, <2>1, <2>2 DEF Says, RecordIn, UseIn, UsesInvite
    <2>4. Own(r, new)
        BY <1>4, <2>1 DEF Own, RecordIn
    <2> QED BY <2>2, <2>3, <2>4
<1>5. CASE x.op = "add_token"
    <2> DEFINE t == [id |-> r, owner |-> x.who, revoked |-> FALSE]
    <2>1. new = c \cup {t} /\ t.id = r
        BY <1>5 DEF Changed, AddToken
    <2>2. FileOf[x.op] = "tokens"
        BY <1>5, FileOfFacts
    <2> HIDE DEF t
    <2>3. Says("tokens", c) => Says("tokens", new)
        <3>1. \A s \in Answered("revoke") : req[s].ref # r
            <4> TAKE s \in Answered("revoke")
            <4>1. RefKnown(req[s]) /\ req[s].kind = "revoke"
                BY DEF Answered, Lasts, RefsKnown
            <4> QED BY <4>1, AccountsAssumption DEF RefKnown, Answered
        <3> QED BY <2>1, <2>2, <3>1 DEF Says, RecordIn, RevokedIn
    <2>4. Own(r, new)
        BY <1>5, <2>1 DEF Own, RecordIn
    <2> QED BY <2>2, <2>3, <2>4
<1>6. CASE x.op = "consume_invite"
    <2> DEFINE used(v) == IF v.id = x.ref THEN [v EXCEPT !.usedBy = r] ELSE v
    <2>1. new = {used(v) : v \in c} /\ (\E v \in c : v.id = x.ref /\ v.usedBy = None)
        BY <1>6 DEF Changed, ConsumeInvite, Valid
    <2>2. FileOf[x.op] = "invites" /\ c \subseteq Invite
        BY <1>6, FileOfFacts, ContentsFacts
    <2>3. \A v \in c : /\ used(v).id = v.id
                       /\ v.id = x.ref => used(v).usedBy = r
                       /\ v.id # x.ref => used(v) = v
        BY <2>2 DEF Invite
    <2> HIDE DEF used
    <2>4. Own(r, new)
        BY <1>6, <2>1, <2>3 DEF Own, UseIn
    <2>5. Says("invites", c) => \A s \in Reqs : UsesInvite(s) => UseIn(s, new)
        <3> SUFFICES ASSUME Says("invites", c), NEW s \in Reqs, UsesInvite(s) PROVE UseIn(s, new)
            OBVIOUS
        <3>1. UseIn(s, c) /\ s # None
            BY <2>2, AccountsAssumption DEF Says, Ids
        <3>2. req[s].ref # x.ref
            BY <2>1, <3>1 DEF UseIn
        <3> QED BY <2>1, <2>3, <3>1, <3>2 DEF UseIn
    <2>6. Says("invites", c) => Says("invites", new)
        BY <2>1, <2>2, <2>3, <2>5 DEF Says, RecordIn
    <2> QED BY <2>2, <2>4, <2>6
<1>7. CASE x.op = "revoke_token"
    <2> DEFINE cut(t) == IF t.id = x.ref THEN [t EXCEPT !.revoked = TRUE] ELSE t
    <2>1. new = {cut(t) : t \in c}
        BY <1>7 DEF Changed, RevokeToken
    <2>2. FileOf[x.op] = "tokens" /\ c \subseteq Token
        BY <1>7, FileOfFacts, ContentsFacts
    <2>3. \A t \in c : /\ cut(t).id = t.id
                       /\ t.id = x.ref => cut(t).revoked
                       /\ t.revoked => cut(t).revoked
        BY <2>2 DEF Token
    <2> HIDE DEF cut
    <2>4. Own(r, new)
        BY <1>7, <2>1, <2>3 DEF Own, RevokedIn
    <2>5. Says("tokens", c) => Says("tokens", new)
        BY <2>1, <2>2, <2>3 DEF Says, RecordIn, RevokedIn
    <2> QED BY <2>2, <2>4, <2>5
<1> QED BY <1>0, <1>2, <1>3, <1>4, <1>5, <1>6, <1>7 DEF Ops

LEMMA TakeCopyLasts ==
    ASSUME IInv, Lasts, NEW r \in Reqs, TakeCopy(r)
    PROVE  Lasts'
<1> DEFINE x == req[r]
           f == FileOf[x.op]
           new == Changed(r, Read(f))
<1>1. /\ x.pc = "copy" /\ Read(f) \notin Unreadable /\ f \in Files
      /\ Sound(x) /\ x \in Request /\ files' = files
    BY KindFacts, FileOfType DEF TakeCopy, At, FileRead, Sound, Request
<1>2. CASE /\ new # Refused /\ req' = [req EXCEPT ![r].pc = "open", ![r].copy = new]
           /\ mixed' = mixed \cup (IF Changing(f) = {} THEN {} ELSE {f})
    <2> DEFINE q == [x EXCEPT !.pc = "open", !.copy = new]
    <2>1. req' = [req EXCEPT ![r] = q] /\ q.pc = "open" /\ q.copy = new
          /\ q.kind = x.kind /\ q.op = x.op /\ q.email = x.email /\ q.ref = x.ref
        BY <1>1, <1>2 DEF Request
    <2> HIDE DEF q, new
    <2>2. req'[r] = q /\ \A s \in Reqs \ {r} : req'[s] = req[s]
        BY <2>1 DEF IInv, RequestsInv
    <2>3. ASSUME NEW s \in Reqs
          PROVE  /\ req'[s].kind = req[s].kind /\ req'[s].op = req[s].op
                 /\ req'[s].email = req[s].email /\ req'[s].ref = req[s].ref
                 /\ req'[s].pc = "ok" <=> req[s].pc = "ok"
        BY <1>1, <2>1, <2>2
    <2>4. /\ \A k : Answered(k)' = Answered(k)
          /\ \A s \in Reqs : (Shown(s)' <=> Shown(s)) /\ (UsesInvite(s)' <=> UsesInvite(s))
        BY <2>3 DEF Answered, Shown, SigningUp, UsesInvite
    <2>5. \A s \in Reqs : \A c :
                             /\ AccountIn(s, c)' <=> AccountIn(s, c)
                             /\ RecordIn(s, c)' <=> RecordIn(s, c)
                             /\ UseIn(s, c)' <=> UseIn(s, c)
                             /\ RevokedIn(s, c)' <=> RevokedIn(s, c)
                             /\ Own(s, c)' <=> Own(s, c)
        BY <2>3 DEF AccountIn, RecordIn, UseIn, RevokedIn, Own
    <2>6. \A g, c : Says(g, c)' <=> Says(g, c)
        <3>1. Answered("revoke") \subseteq Reqs
            BY DEF Answered
        <3> QED BY <2>4, <2>5, <3>1 DEF Says, RecordIn
    <2>7. \A g : Changing(g)' = IF g = f THEN Changing(g) \cup {r} ELSE Changing(g)
        BY <1>1, <2>1, <2>2 DEF Changing
    <2>8. \A g : r \notin Changing(g) /\ \A s \in Changing(g) : s \in Reqs \ {r}
        BY <1>1 DEF Changing
    <2>9. f \notin mixed' => f \notin mixed /\ Changing(f) = {}
        BY <1>2
    <2>10. \A g : Versions(g)' \subseteq IF g = f THEN Versions(g) \cup {new} ELSE Versions(g)
        BY <1>1, <2>1, <2>2, <2>7, <2>8 DEF Versions
    <2>11. Own(r, new) /\ (Says(f, Read(f)) => Says(f, new))
        <3>1. Read(f) \in Contents[f]
            BY <1>1, ReadFacts
        <3> QED BY <1>1, <1>2, <3>1, ChangedSays DEF new
    <2>12. f \notin mixed => Says(f, new)
        <3>1. Read(f) \in Versions(f)
            BY <1>1 DEF Read, Versions
        <3> QED BY <1>1, <2>11, <3>1 DEF Lasts, Lasting
    <2>13. RefsKnown' /\ Ways'
        BY <2>1, <2>2, <2>3, <2>4 DEF Lasts, RefsKnown, RefKnown, Ways, WayOf, Ended
    <2>14. OwnChange'
        BY <2>1, <2>2, <2>5, <2>11 DEF Lasts, OwnChange
    <2>15. OneWriter'
        <3> SUFFICES ASSUME NEW g \in Files \ mixed'
                     PROVE  /\ \A s, t \in Changing(g)' : s = t
                            /\ \A s \in Changing(g)' :
                                  IF req'[s].pc = "write" THEN files[g] = Truncated ELSE files[g] \notin Unreadable
                            /\ Changing(g)' = {} => files[g] \notin Unreadable
            BY <1>1 DEF OneWriter
        <3>1. CASE g = f
            BY <1>1, <2>1, <2>2, <2>7, <2>9, <3>1 DEF Read
        <3>2. CASE g # f
            BY <1>2, <2>2, <2>7, <2>8, <3>2 DEF Lasts, OneWriter
        <3> QED BY <3>1, <3>2
    <2>16. Lasting'
        BY <1>2, <2>6, <2>9, <2>10, <2>12 DEF Lasts, Lasting
    <2> QED BY <2>13, <2>14, <2>15, <2>16 DEF Lasts
<1>3. CASE /\ Goto(r, IF x.op = "touch_token" THEN "owner" ELSE "failed")
           /\ UNCHANGED mixed
    BY <1>1, <1>3, GoesQuietly
<1> QED BY <1>2, <1>3 DEF TakeCopy

LEMMA OpenLasts ==
    ASSUME IInv, Lasts, NEW r \in Reqs, Open(r)
    PROVE  Lasts'
<1> DEFINE f == FileOf[req[r].op]
           q == [req[r] EXCEPT !.pc = "write"]
<1>1. /\ req[r].pc = "open" /\ f \in Files /\ req[r] \in Request /\ mixed' = mixed
    BY KindFacts, FileOfType DEF Open, Sound, Request
<1>2. /\ q.pc = "write" /\ q.kind = req[r].kind /\ q.op = req[r].op /\ q.email = req[r].email
      /\ q.ref = req[r].ref /\ q.copy = req[r].copy /\ req' = [req EXCEPT ![r] = q]
    BY <1>1 DEF Request, Open, Goto
<1> HIDE DEF q
<1>3. req'[r] = q /\ \A s \in Reqs \ {r} : req'[s] = req[s]
    BY <1>2 DEF IInv, RequestsInv
<1>4. files'[f] = Truncated /\ \A g \in Files \ {f} : files'[g] = files[g]
    BY <1>1 DEF Open, IInv, FilesInv
<1>5. ASSUME NEW s \in Reqs
      PROVE  /\ req'[s].kind = req[s].kind /\ req'[s].op = req[s].op
             /\ req'[s].email = req[s].email /\ req'[s].ref = req[s].ref /\ req'[s].copy = req[s].copy
             /\ req'[s].pc = "ok" <=> req[s].pc = "ok"
             /\ req'[s].pc \in {"open", "write"} <=> req[s].pc \in {"open", "write"}
    BY <1>1, <1>2, <1>3
<1>6. /\ \A k : Answered(k)' = Answered(k)
      /\ \A s \in Reqs : (Shown(s)' <=> Shown(s)) /\ (UsesInvite(s)' <=> UsesInvite(s))
    BY <1>5 DEF Answered, Shown, SigningUp, UsesInvite
<1>7. \A s \in Reqs : \A c :
                         /\ AccountIn(s, c)' <=> AccountIn(s, c)
                         /\ UseIn(s, c)' <=> UseIn(s, c)
                         /\ RevokedIn(s, c)' <=> RevokedIn(s, c)
                         /\ Own(s, c)' <=> Own(s, c)
    BY <1>5 DEF AccountIn, RecordIn, UseIn, RevokedIn, Own
<1>8. \A g, c : Says(g, c)' <=> Says(g, c)
    <2>1. Answered("revoke") \subseteq Reqs
        BY DEF Answered
    <2> QED BY <1>6, <1>7, <2>1 DEF Says, RecordIn
<1>9. \A g : Changing(g)' = Changing(g)
    BY <1>5 DEF Changing
<1>10. \A g \in Files : Versions(g)' \subseteq Versions(g)
    BY <1>4, <1>5, <1>9 DEF Versions, Changing, Unreadable
<1>11. RefsKnown' /\ Ways'
    BY <1>1, <1>2, <1>3, <1>5, <1>6 DEF Lasts, RefsKnown, RefKnown, Ways, WayOf, Ended
<1>12. OwnChange'
    BY <1>5, <1>7 DEF Lasts, OwnChange
<1>13. OneWriter'
    <2>1. r \in Changing(f) /\ \A g : g # f => r \notin Changing(g)
        BY <1>1 DEF Changing
    <2>2. ASSUME NEW g \in Files \ mixed, g # f, NEW s \in Changing(g)
          PROVE  req'[s] = req[s] /\ files'[g] = files[g]
        BY <1>3, <1>4, <2>1, <2>2 DEF Changing
    <2>3. ASSUME f \notin mixed, NEW s \in Changing(f) PROVE s = r
        BY <1>1, <2>1, <2>3 DEF Lasts, OneWriter
    <2> SUFFICES ASSUME NEW g \in Files \ mixed
                 PROVE  /\ \A s, t \in Changing(g) : s = t
                        /\ \A s \in Changing(g) :
                              IF req'[s].pc = "write" THEN files'[g] = Truncated ELSE files'[g] \notin Unreadable
                        /\ Changing(g) = {} => files'[g] \notin Unreadable
        BY <1>1, <1>9 DEF OneWriter
    <2>4. CASE g = f
        BY <1>2, <1>3, <1>4, <2>1, <2>3, <2>4
    <2>5. CASE g # f
        BY <1>4, <2>2, <2>5 DEF Lasts, OneWriter
    <2> QED BY <2>4, <2>5
<1>14. Lasting'
    BY <1>1, <1>8, <1>10 DEF Lasts, Lasting
<1> QED BY <1>11, <1>12, <1>13, <1>14 DEF Lasts

\* The write puts the only version of the file in its place, with the change
\* that is answered, if it is, in it.
LEMMA WriteLasts ==
    ASSUME TextsAreNoRecords, IInv, Lasts, NEW r \in Reqs, Write(r)
    PROVE  Lasts'
<1> DEFINE x == req[r]
           f == FileOf[x.op]
           q == [x EXCEPT !.pc = AfterWrite(x), !.copy = {},
                          !.op = IF AfterWrite(x) = "copy" THEN "consume_invite" ELSE @]
<1>1. /\ x.pc = "write" /\ f \in Files /\ Sound(x) /\ x \in Request /\ WayOf(x)
      /\ x.op \in Ops /\ x.op \in OpsOf[x.kind] /\ x.kind \in Kinds /\ mixed' = mixed
    BY KindFacts, FileOfType DEF Write, Sound, Request, Lasts, Ways
<1>2. /\ q.pc = AfterWrite(x) /\ q.kind = x.kind /\ q.email = x.email /\ q.ref = x.ref
      /\ q.op = IF AfterWrite(x) = "copy" THEN "consume_invite" ELSE x.op
    BY <1>1 DEF Request
<1>3. req' = [req EXCEPT ![r] = q]
    BY DEF Write
<1> HIDE DEF q
<1>4. req'[r] = q /\ \A s \in Reqs \ {r} : req'[s] = req[s]
    BY <1>3 DEF IInv, RequestsInv
<1>5. /\ AfterWrite(x) \in {"owner", "copy", "ok"}
      /\ AfterWrite(x) = "owner" => x.op = "touch_token" /\ x.kind = "call"
      /\ AfterWrite(x) = "copy" => x.op = "add_user" /\ x.ref # None
      /\ AfterWrite(x) = "ok" => x.op # "touch_token" /\ (x.op = "add_user" => x.ref = None)
    BY <1>1, KindFacts DEF AfterWrite
<1>6. /\ x.op = "add_invite" <=> x.kind = "invite"
      /\ x.op = "add_token" <=> x.kind = "mint"
      /\ x.op = "revoke_token" <=> x.kind = "revoke"
      /\ x.op = "consume_invite" => x.kind = "register"
      /\ x.kind = "register" => x.op \in {"add_user", "consume_invite"}
      /\ x.op = "add_user" => SigningUp(x)
      /\ SigningUp(x) => x.op \in {"add_user", "consume_invite"}
    BY <1>1, OpsOfFacts DEF Kinds, SigningUp
<1>7. \A g : /\ Changing(g)' = Changing(g) \ {r}
             /\ g # f => r \notin Changing(g)
             /\ r \in Changing(f)
    BY <1>1, <1>2, <1>4, <1>5 DEF Changing
<1>8. \A g : \A s \in Changing(g) \ {r} : s \in Reqs \ {r} /\ req'[s] = req[s]
    BY <1>4 DEF Changing
<1>9. Own(r, x.copy) /\ x.copy \in SUBSET Entry
    BY <1>1, ContentsType DEF Lasts, OwnChange, Sound, CopySound
<1>10. f \notin mixed => /\ files'[f] = x.copy /\ Changing(f) = {r} /\ files'[f] \notin Unreadable
    <2> SUFFICES ASSUME f \notin mixed
                 PROVE  files'[f] = x.copy /\ Changing(f) = {r} /\ files'[f] \notin Unreadable
        OBVIOUS
    <2>1. files[f] = Truncated /\ Changing(f) = {r}
        BY <1>1, <1>7 DEF Lasts, OneWriter
    <2>2. files' = [files EXCEPT ![f] = x.copy]
        BY <2>1 DEF Write
    <2> QED BY <1>1, <1>9, <2>1, <2>2 DEF IInv, FilesInv, TextsAreNoRecords
<1>11. \A g \in Files \ {f} : files'[g] = files[g]
    BY <1>1 DEF Write, IInv, FilesInv
<1>12. \A g \in Files \ mixed : Versions(g)' \subseteq Versions(g)
    <2>1. x.copy \in Versions(f)
        BY <1>7 DEF Versions
    <2> QED BY <1>1, <1>7, <1>8, <1>10, <1>11, <2>1 DEF Versions
<1>13. \A k : Answered(k) \subseteq Answered(k)' /\ \A s \in Answered(k)' : s \in Answered(k) \/ s = r
    BY <1>1, <1>4 DEF Answered
<1>14. RefsKnown'
    BY <1>2, <1>4, <1>13 DEF Lasts, RefsKnown, RefKnown
<1>15. Ways'
    <2>1. WayOf(q)
        BY <1>1, <1>2, <1>5, <1>6 DEF WayOf, Ended
    <2> QED BY <1>4, <2>1 DEF Lasts, Ways, WayOf
<1>16. OwnChange'
    <2>1. ASSUME NEW s \in Reqs, req'[s].pc \in {"open", "write"} PROVE req'[s] = req[s]
        BY <1>2, <1>4, <1>5, <2>1
    <2> QED BY <2>1 DEF Lasts, OwnChange, Own, AccountIn, RecordIn, UseIn, RevokedIn
<1>17. OneWriter'
    <2> SUFFICES ASSUME NEW g \in Files \ mixed
                 PROVE  /\ \A s, t \in Changing(g)' : s = t
                        /\ \A s \in Changing(g)' :
                              IF req'[s].pc = "write" THEN files'[g] = Truncated ELSE files'[g] \notin Unreadable
                        /\ Changing(g)' = {} => files'[g] \notin Unreadable
        BY <1>1 DEF OneWriter
    <2>1. CASE g = f
        BY <1>7, <1>10, <2>1
    <2>2. CASE g # f
        BY <1>7, <1>8, <1>11, <2>2 DEF Lasts, OneWriter
    <2> QED BY <2>1, <2>2
<1>18. Lasting'
    <2> SUFFICES ASSUME NEW g \in Files \ mixed, NEW c \in Versions(g)' PROVE Says(g, c)'
        BY <1>1 DEF Lasting
    <2>1. Says(g, c) /\ c \in Versions(g)
        BY <1>12 DEF Lasts, Lasting
    <2>2. g = f => c = x.copy
        BY <1>7, <1>10 DEF Versions
    <2>3. \A s \in Reqs \ {r} : /\ AccountIn(s, c)' <=> AccountIn(s, c)
                                /\ UseIn(s, c)' <=> UseIn(s, c)
                                /\ RevokedIn(s, c)' <=> RevokedIn(s, c)
                                /\ Shown(s)' <=> Shown(s)
                                /\ UsesInvite(s)' <=> UsesInvite(s)
        BY <1>4 DEF AccountIn, UseIn, RevokedIn, Shown, SigningUp, UsesInvite, Answered
    <2>4. /\ AccountIn(r, c)' <=> AccountIn(r, c)
          /\ UseIn(r, c)' <=> UseIn(r, c)
          /\ RevokedIn(r, c)' <=> RevokedIn(r, c)
        BY <1>2, <1>4 DEF AccountIn, UseIn, RevokedIn
    <2>5. ASSUME g = "users", Shown(r)' PROVE AccountIn(r, c)
        <3>1. CASE x.op = "add_user"
            BY <1>9, <2>2, <2>5, <3>1, FileOfFacts DEF Own
        <3>2. CASE x.op = "consume_invite"
            BY <2>1, <2>5, <3>2 DEF Says, Shown
        <3>3. x.op \in {"add_user", "consume_invite"}
            BY <1>1, <1>2, <1>4, <1>5, <1>6, <2>5 DEF Shown, SigningUp
        <3> QED BY <3>1, <3>2, <3>3
    <2>6. ASSUME g = "invites" PROVE /\ r \in Answered("invite")' => RecordIn(r, c)
                                     /\ UsesInvite(r)' => UseIn(r, c)
        <3>1. r \in Answered("invite")' => x.op = "add_invite"
            BY <1>2, <1>4, <1>6 DEF Answered
        <3>2. UsesInvite(r)' => x.op = "consume_invite"
            BY <1>2, <1>4, <1>5, <1>6 DEF UsesInvite, Answered
        <3> QED BY <1>9, <2>2, <2>6, <3>1, <3>2, FileOfFacts DEF Own
    <2>7. ASSUME g = "tokens" PROVE /\ r \in Answered("mint")' => RecordIn(r, c)
                                    /\ r \in Answered("revoke")' => RevokedIn(r, c)
        <3>1. /\ r \in Answered("mint")' => x.op = "add_token"
              /\ r \in Answered("revoke")' => x.op = "revoke_token"
            BY <1>2, <1>4, <1>6 DEF Answered
        <3> QED BY <1>9, <2>2, <2>7, <3>1, FileOfFacts DEF Own
    <2>8. \A k : \A s \in Answered(k)' : s \in Reqs
        BY DEF Answered
    <2>9. g = "users" => \A s \in Reqs : Shown(s)' => AccountIn(s, c)'
        BY <2>1, <2>3, <2>4, <2>5 DEF Says
    <2>10. g = "invites" => /\ \A s \in Answered("invite")' : RecordIn(s, c)'
                            /\ \A s \in Reqs : UsesInvite(s)' => UseIn(s, c)'
        BY <1>13, <2>1, <2>3, <2>4, <2>6 DEF Says, RecordIn
    <2>11. g = "tokens" => /\ \A s \in Answered("mint")' : RecordIn(s, c)'
                           /\ \A s \in Answered("revoke")' : RevokedIn(s, c)'
        BY <1>13, <2>1, <2>3, <2>4, <2>7, <2>8 DEF Says, RecordIn
    <2> QED BY <2>9, <2>10, <2>11 DEF Says
<1> QED BY <1>14, <1>15, <1>16, <1>17, <1>18 DEF Lasts

\* A restart leaves no request that changes a file; a file it leaves cut short
\* counts as mixed from then on.
LEMMA CrashLasts ==
    ASSUME IInv, Lasts, Crash
    PROVE  Lasts'
<1>1. files' = files /\ mixed' = mixed \cup {f \in Files : files[f] = Truncated}
    BY DEF Crash
<1>2. ASSUME NEW r \in Reqs
      PROVE  /\ req'[r].kind = req[r].kind /\ req'[r].op = req[r].op
             /\ req'[r].email = req[r].email /\ req'[r].ref = req[r].ref
             /\ req'[r].pc = "ok" <=> req[r].pc = "ok"
             /\ req'[r].pc \notin {"open", "write"}
             /\ req[r].pc \in {"copy", "open", "write"} \cup Ended => req'[r].pc \in Ended
    <2>1. req[r] \in Request
        BY DEF IInv, RequestsInv
    <2>2. req'[r] = IF req[r].pc \in {"idle"} \cup Ended THEN req[r]
                    ELSE [req[r] EXCEPT !.pc = "lost", !.copy = {}]
        BY DEF Crash
    <2> QED BY <2>1, <2>2 DEF Request, Ended
<1>3. \A f : Changing(f)' = {}
    BY <1>2 DEF Changing
<1>4. /\ \A k : Answered(k)' = Answered(k)
      /\ \A s \in Reqs : (Shown(s)' <=> Shown(s)) /\ (UsesInvite(s)' <=> UsesInvite(s))
    BY <1>2 DEF Answered, Shown, SigningUp, UsesInvite
<1>5. \A s \in Reqs : \A c :
                         /\ AccountIn(s, c)' <=> AccountIn(s, c)
                         /\ UseIn(s, c)' <=> UseIn(s, c)
                         /\ RevokedIn(s, c)' <=> RevokedIn(s, c)
    BY <1>2 DEF AccountIn, UseIn, RevokedIn
<1>6. \A g, c : Says(g, c)' <=> Says(g, c)
    <2>1. Answered("revoke") \subseteq Reqs
        BY DEF Answered
    <2> QED BY <1>4, <1>5, <2>1 DEF Says, RecordIn
<1>7. RefsKnown' /\ Ways'
    BY <1>2, <1>4 DEF Lasts, RefsKnown, RefKnown, Ways, WayOf
<1>8. OwnChange'
    BY <1>2 DEF OwnChange
<1>9. OneWriter'
    <2>1. \A f \in Files \ mixed : files[f] # Truncated => files[f] \notin Unreadable
        <3> SUFFICES ASSUME NEW f \in Files \ mixed, files[f] # Truncated
                     PROVE  files[f] \notin Unreadable
            OBVIOUS
        <3>1. CASE Changing(f) = {}
            BY <3>1 DEF Lasts, OneWriter
        <3>2. CASE Changing(f) # {}
            BY <3>2 DEF Lasts, OneWriter
        <3> QED BY <3>1, <3>2
    <2> QED BY <1>1, <1>3, <2>1 DEF OneWriter
<1>10. Lasting'
    BY <1>1, <1>3, <1>6 DEF Lasts, Lasting, Versions
<1> QED BY <1>7, <1>8, <1>9, <1>10 DEF Lasts

\* Nothing the argument looks at changes.
LEMMA RestLasts ==
    ASSUME Lasts, UNCHANGED <<files, req, mixed>>
    PROVE  Lasts'
<1>1. \A k : Answered(k)' = Answered(k)
    BY DEF Answered
<1>2. \A f : Changing(f)' = Changing(f) /\ Versions(f)' = Versions(f)
    BY DEF Changing, Versions
<1>3. \A f, c : Says(f, c)' <=> Says(f, c)
    BY <1>1 DEF Says, Shown, SigningUp, UsesInvite, AccountIn, RecordIn, UseIn, RevokedIn
<1>4. RefsKnown' /\ Ways'
    BY <1>1 DEF Lasts, RefsKnown, RefKnown, Ways, WayOf
<1>5. OwnChange'
    BY DEF Lasts, OwnChange, Own, AccountIn, RecordIn, UseIn, RevokedIn
<1>6. OneWriter' /\ Lasting'
    BY <1>2, <1>3 DEF Lasts, OneWriter, Lasting
<1> QED BY <1>4, <1>5, <1>6 DEF Lasts

LEMMA InitLasts == Init => Lasts
<1> SUFFICES ASSUME Init PROVE Lasts
    OBVIOUS
<1>1. \A r \in Reqs : req[r] = Idle
    BY DEF Init
<1>2. Idle.pc = "idle" /\ Idle.kind = "login" /\ Idle.op = "update_user"
    BY DEF Idle
<1>3. (\A f : Changing(f) = {}) /\ (\A k : Answered(k) = {}) /\ (\A r \in Reqs : ~Shown(r) /\ ~UsesInvite(r))
    BY <1>1, <1>2 DEF Changing, Answered, Shown, SigningUp, UsesInvite
<1>4. \A f \in Files : files[f] \notin Unreadable
    BY AccountsAssumption DEF Init
<1>5. RefsKnown /\ Ways /\ OwnChange
    BY <1>1, <1>2 DEF RefsKnown, RefKnown, Ways, WayOf, OwnChange
<1>6. OneWriter /\ Lasting
    BY <1>3, <1>4 DEF OneWriter, Lasting, Says
<1> QED BY <1>5, <1>6 DEF Lasts

LEMMA NextLasts == TextsAreNoRecords /\ IInv /\ Lasts /\ [Next]_vars => Lasts'
<1> SUFFICES ASSUME TextsAreNoRecords, IInv, Lasts, [Next]_vars PROVE Lasts'
    OBVIOUS
<1>1. CASE \E r \in Reqs : Arrives(r) \/ Looks(r)
    BY <1>1, ArrivesLasts, LooksLasts
<1>2. CASE \E r \in Reqs : Changes(r)
    BY <1>2, TakeCopyLasts, OpenLasts, WriteLasts DEF Changes
<1>3. CASE Expire \/ UNCHANGED vars
    BY <1>3, RestLasts DEF Expire, vars
<1>4. CASE Crash
    BY <1>4, CrashLasts
<1> QED BY <1>1, <1>2, <1>3, <1>4 DEF Next

LEMMA SpecLasts == TextsAreNoRecords => (Spec => []Lasts)
<1> SUFFICES ASSUME TextsAreNoRecords PROVE Spec => []Lasts
    OBVIOUS
<1>1. IInv /\ Lasts /\ [Next]_vars => Lasts'
    BY NextLasts
<1> QED BY <1>1, InitLasts, SpecIInv, PTL DEF Spec

\* What a file settles to is one of its versions.
LEMMA SettledIs ==
    ASSUME IInv, Lasts, NEW f \in Files \ mixed
    PROVE  Says(f, Settled(f))
<1>1. CASE files[f] \notin Unreadable
    BY <1>1 DEF Settled, Versions, Lasts, Lasting
<1>2. CASE files[f] \in Unreadable
    <2>1. PICK r \in Changing(f) : \A s \in Changing(f) : s = r
        BY <1>2 DEF Lasts, OneWriter
    <2>2. Settled(f) = req[r].copy
        <3>1. {req[s].copy : s \in Changing(f)} = {req[r].copy}
            BY <2>1
        <3> QED BY <1>2, <3>1 DEF Settled
    <2> QED BY <2>1, <2>2 DEF Versions, Lasts, Lasting
<1> QED BY <1>1, <1>2

-----------------------------------------------------------------------------
(* A registration that comes after its invite was used makes no account.   *)
(* It cannot be the first, since there are accounts; get_invite finds its   *)
(* invite used, in whatever version of the file it reads; and no account    *)
(* has its id before it has come to add_user.                               *)

\* An account of request i is in the file, or about to be written to it.
Traced(i) == \E c \in Versions("users") : RecordIn(i, c)

\* The invite of r was used up when r arrived.
Closed(r) == /\ req[r].kind = "register" /\ req[r].ref # None
             /\ \E s \in req[r].after : req[s].ref = req[r].ref

\* As far as such a registration comes.
Shut == {"first", "invite", "failed", "lost"}

Closing ==
    /\ \A r \in Reqs : \A s \in req[r].after : s \in SignedUp
    /\ \A r \in Reqs : req[r].pc = "idle" => req[r].after = {} /\ ~Traced(r)
    /\ "invites" \notin mixed =>
          \A r \in Reqs : Closed(r) => req[r].pc \in Shut /\ ~Traced(r)

\* What a step leaves as it was of the request p that it moves to q.
Moves(p, q) ==
    /\ p.pc \notin {"idle"} \cup Ended /\ q.pc # "idle"
    /\ q.kind = p.kind /\ q.after = p.after /\ q.ref \in {p.ref, None}

\* The step moves the request r, not to a change, and not on if it is shut out.
MovesOn(r) ==
    \E q : /\ req' = [req EXCEPT ![r] = q] /\ Moves(req[r], q) /\ q.pc \notin {"open", "write"}
           /\ "invites" \notin mixed /\ Closed(r) => q.pc \in Shut

LEMMA MovesClose ==
    ASSUME IInv, Closing, NEW r \in Reqs, NEW q, Moves(req[r], q),
           req' = [req EXCEPT ![r] = q], mixed \subseteq mixed',
           "invites" \notin mixed /\ Closed(r) => q.pc \in Shut,
           \A i \in Reqs : Traced(i)' => Traced(i) \/ (i = r /\ req[r].pc = "copy")
    PROVE  Closing'
<1>1. req'[r] = q /\ \A s \in Reqs \ {r} : req'[s] = req[s]
    BY DEF IInv, RequestsInv
<1>2. \A s \in SignedUp : s \in Reqs /\ s # r /\ req'[s] = req[s] /\ s \in SignedUp'
    BY <1>1 DEF SignedUp, SigningUp, Moves, Ended
<1>3. \A s \in Reqs : req'[s].after = req[s].after
    BY <1>1 DEF Moves
<1>4. \A t \in Reqs : \A s \in req'[t].after : s \in SignedUp'
    BY <1>2, <1>3 DEF Closing
<1>5. \A t \in Reqs : req'[t].pc = "idle" => req'[t].after = {} /\ ~Traced(t)'
    BY <1>1 DEF Closing, Moves
<1>6. \A t \in Reqs : Closed(t)' => Closed(t)
    <2> SUFFICES ASSUME NEW t \in Reqs, Closed(t)' PROVE Closed(t)
        OBVIOUS
    <2>1. req[t].kind = "register" /\ req[t].ref # None /\ req'[t].ref = req[t].ref
        BY <1>1 DEF Closed, Moves
    <2>2. \A s \in req[t].after : req'[s] = req[s]
        BY <1>2 DEF Closing
    <2> QED BY <1>3, <2>1, <2>2 DEF Closed
<1>7. ASSUME "invites" \notin mixed', NEW t \in Reqs, Closed(t)'
      PROVE  req'[t].pc \in Shut /\ ~Traced(t)'
    <2>1. Closed(t) /\ req[t].pc \in Shut /\ ~Traced(t) /\ "invites" \notin mixed
        BY <1>6, <1>7 DEF Closing
    <2>2. req[t].pc # "copy"
        BY <2>1 DEF Shut
    <2> QED BY <1>1, <2>1, <2>2
<1> QED BY <1>4, <1>5, <1>7 DEF Closing

\* A step that only moves one request leaves no new trace.
LEMMA ReadsLeaveNoTrace ==
    ASSUME IInv, NEW r \in Reqs, NEW q, req' = [req EXCEPT ![r] = q], files' = files,
           q.pc \notin {"open", "write"}
    PROVE  \A i \in Reqs : Traced(i)' => Traced(i)
<1>1. req'[r] = q /\ \A s \in Reqs \ {r} : req'[s] = req[s]
    BY DEF IInv, RequestsInv
<1>2. \A s \in Changing("users")' : s \in Changing("users") /\ req'[s] = req[s]
    BY <1>1 DEF Changing
<1>3. Versions("users")' \subseteq Versions("users")
    BY <1>2 DEF Versions
<1> QED BY <1>3 DEF Traced, RecordIn

LEMMA MovesOnClose ==
    ASSUME IInv, Closing, NEW r \in Reqs, MovesOn(r), UNCHANGED <<files, mixed>>
    PROVE  Closing'
<1>1. PICK q : /\ req' = [req EXCEPT ![r] = q] /\ Moves(req[r], q) /\ q.pc \notin {"open", "write"}
               /\ "invites" \notin mixed /\ Closed(r) => q.pc \in Shut
    BY DEF MovesOn
<1>2. \A i \in Reqs : Traced(i)' => Traced(i)
    BY <1>1, ReadsLeaveNoTrace
<1> QED BY <1>1, <1>2, MovesClose

\* A request arrives: one whose invite has been used is at its first step, and
\* has added no account.
LEMMA ArriveCloses ==
    ASSUME IInv, Closing, NEW r \in Reqs, NEW q \in Request, Arrive(r, q),
           q.pc \notin {"idle", "open", "write"}, q.kind = "register" => q.pc = "first"
    PROVE  Closing'
<1> DEFINE p == [q EXCEPT !.after = SignedUp]
<1>1. /\ p.pc = q.pc /\ p.kind = q.kind /\ p.after = SignedUp
      /\ req' = [req EXCEPT ![r] = p] /\ req[r].pc = "idle" /\ UNCHANGED <<files, mixed>>
    BY DEF Arrive, Request, OnlyReads
<1> HIDE DEF p
<1>2. req'[r] = p /\ \A s \in Reqs \ {r} : req'[s] = req[s]
    BY <1>1 DEF IInv, RequestsInv
<1>3. \A s \in SignedUp : s \in Reqs /\ s # r /\ req'[s] = req[s] /\ s \in SignedUp'
    BY <1>1, <1>2 DEF SignedUp, SigningUp
<1>4. \A i \in Reqs : Traced(i)' => Traced(i)
    BY <1>1, ReadsLeaveNoTrace
<1>5. \A t \in Reqs : \A s \in req'[t].after : s \in SignedUp'
    BY <1>1, <1>2, <1>3 DEF Closing
<1>6. \A t \in Reqs : req'[t].pc = "idle" => req'[t].after = {} /\ ~Traced(t)'
    BY <1>1, <1>2, <1>4 DEF Closing
<1>7. ASSUME "invites" \notin mixed', NEW t \in Reqs, Closed(t)'
      PROVE  req'[t].pc \in Shut /\ ~Traced(t)'
    <2>1. CASE t = r
        BY <1>1, <1>2, <1>4, <1>7, <2>1 DEF Closed, Closing, Shut
    <2>2. CASE t # r
        <3>1. req'[t] = req[t] /\ \A s \in req[t].after : req'[s] = req[s]
            BY <1>2, <1>3, <2>2 DEF Closing
        <3>2. Closed(t)
            BY <1>7, <3>1 DEF Closed
        <3> QED BY <1>1, <1>4, <1>7, <3>1, <3>2 DEF Closing
    <2> QED BY <2>1, <2>2
<1> QED BY <1>5, <1>6, <1>7 DEF Closing

LEMMA ArrivesCloses ==
    ASSUME IInv, Closing, NEW r \in Reqs, Arrives(r)
    PROVE  Closing'
<1>1. PICK q \in Request : /\ Arrive(r, q) /\ q.pc \notin {"idle", "open", "write"}
                           /\ q.kind = "register" => q.pc = "first"
    <2>0. Idle \in Request
        BY IdleSound DEF Sound
    <2>1. CASE Login(r)
        <3>1. PICK e \in Emails : Arrive(r, [Idle EXCEPT !.kind = "login", !.pc = "account", !.email = e])
            BY <2>1 DEF Login
        <3> DEFINE q == [Idle EXCEPT !.kind = "login", !.pc = "account", !.email = e]
        <3>2. q \in Request /\ q.pc = "account" /\ q.kind = "login"
            BY <2>0, PcsFacts DEF Request, Idle, Kinds
        <3> QED BY <3>1, <3>2
    <2>2. CASE Register(r)
        <3>1. PICK e \in Emails, i \in Known("invites", "invite") \cup {None} :
                Arrive(r, [Idle EXCEPT !.kind = "register", !.pc = "first", !.op = "add_user",
                                       !.email = e, !.ref = i])
            BY <2>2 DEF Register
        <3> DEFINE q == [Idle EXCEPT !.kind = "register", !.pc = "first", !.op = "add_user",
                                     !.email = e, !.ref = i]
        <3>2. q \in Request /\ q.pc = "first"
            BY <2>0, PcsFacts, KnownFacts DEF Request, Idle, Kinds, Ops
        <3> QED BY <3>1, <3>2
    <2>3. CASE GithubCallback(r)
        <3>1. PICK e \in Emails : Arrive(r, [Idle EXCEPT !.kind = "github", !.pc = "github.com", !.email = e])
            BY <2>3 DEF GithubCallback
        <3> DEFINE q == [Idle EXCEPT !.kind = "github", !.pc = "github.com", !.email = e]
        <3>2. q \in Request /\ q.pc = "github.com" /\ q.kind = "github"
            BY <2>0, PcsFacts DEF Request, Idle, Kinds
        <3> QED BY <3>1, <3>2
    <2>4. CASE CreateInvite(r)
        <3>1. PICK e \in Emails \cup {None}, role \in InviteRoles :
                Arrive(r, [Idle EXCEPT !.kind = "invite", !.pc = "session", !.op = "add_invite",
                                       !.email = e, !.role = role])
            BY <2>4 DEF CreateInvite
        <3> DEFINE q == [Idle EXCEPT !.kind = "invite", !.pc = "session", !.op = "add_invite",
                                     !.email = e, !.role = role]
        <3>2. q \in Request /\ q.pc = "session" /\ q.kind = "invite"
            BY <2>0, PcsFacts, AccountsAssumption DEF Request, Idle, Kinds, Ops
        <3> QED BY <3>1, <3>2
    <2>5. CASE CreateToken(r)
        <3> DEFINE q == [Idle EXCEPT !.kind = "mint", !.pc = "session", !.op = "add_token"]
        <3>1. q \in Request /\ q.pc = "session" /\ q.kind = "mint"
            BY <2>0, PcsFacts DEF Request, Idle, Kinds, Ops
        <3>2. Arrive(r, q)
            BY <2>5 DEF CreateToken
        <3> QED BY <3>1, <3>2
    <2>6. CASE Revoke(r)
        <3>1. PICK t \in Known("tokens", "mint") :
                Arrive(r, [Idle EXCEPT !.kind = "revoke", !.pc = "session", !.op = "revoke_token", !.ref = t])
            BY <2>6 DEF Revoke
        <3> DEFINE q == [Idle EXCEPT !.kind = "revoke", !.pc = "session", !.op = "revoke_token", !.ref = t]
        <3>2. q \in Request /\ q.pc = "session" /\ q.kind = "revoke"
            BY <2>0, PcsFacts, KnownFacts DEF Request, Idle, Kinds, Ops
        <3> QED BY <3>1, <3>2
    <2>7. CASE ApiCall(r)
        <3>1. PICK t \in Known("tokens", "mint") :
                Arrive(r, [Idle EXCEPT !.kind = "call", !.pc = "lookup", !.op = "touch_token", !.ref = t])
            BY <2>7 DEF ApiCall
        <3> DEFINE q == [Idle EXCEPT !.kind = "call", !.pc = "lookup", !.op = "touch_token", !.ref = t]
        <3>2. q \in Request /\ q.pc = "lookup" /\ q.kind = "call"
            BY <2>0, PcsFacts, KnownFacts DEF Request, Idle, Kinds, Ops
        <3> QED BY <3>1, <3>2
    <2> QED BY <2>1, <2>2, <2>3, <2>4, <2>5, <2>6, <2>7 DEF Arrives
<1> QED BY <1>1, ArriveCloses

\* Where a registration stands whose invite was used up when it arrived.
LEMMA ClosedStands ==
    ASSUME IInv, Lasts, Closing, NEW r \in Reqs, "invites" \notin mixed, Closed(r)
    PROVE  /\ req[r].pc \in Shut /\ UsersThere
           /\ req[r].op # "touch_token"
           /\ \A c \in Versions("invites") : \A v \in c : v.id = req[r].ref => ~Valid(v)
<1>1. PICK s \in req[r].after : req[s].ref = req[r].ref
    BY DEF Closed
<1>2. s \in Reqs /\ SigningUp(req[s]) /\ req[s].pc = "ok" /\ req[s].ref # None /\ s # None
    BY <1>1, AccountsAssumption DEF Closing, SignedUp, Closed, Ids
<1>3. UsesInvite(s)
    BY <1>2 DEF UsesInvite, Answered, SigningUp, IInv, RequestsInv, Sound
<1>4. \A c \in Versions("invites") : UseIn(s, c)
    BY <1>2, <1>3 DEF Lasts, Lasting, Says, Files
<1>5. UsersThere
    BY <1>2 DEF IInv, Past
<1>6. req[r].op # "touch_token"
    BY KindFacts DEF Closed
<1> QED BY <1>1, <1>2, <1>4, <1>5, <1>6 DEF Closing, UseIn, Valid

\* A request reads.
LEMMA LooksCloses ==
    ASSUME IInv, Lasts, Closing, NEW r \in Reqs, Looks(r)
    PROVE  Closing'
<1> DEFINE p == req[r]
<1>0. p \in Request
    BY DEF IInv, RequestsInv
<1>1. OnlyReads /\ p.pc \notin {"idle"} \cup Ended
    BY DEF Looks, ReadFails, LoginReads, FirstSignup, InviteReads, EmailReads, GithubAnswers,
           SubjectReads, SessionReads, TokenReads, OwnerReads, At, Reads, Ended
<1>2. MovesOn(r)
    <2>1. ASSUME NEW pc, pc \notin {"idle", "open", "write"}, Goto(r, pc),
                 "invites" \notin mixed /\ Closed(r) => pc \in Shut
          PROVE  MovesOn(r)
        <3> DEFINE q == [p EXCEPT !.pc = pc]
        <3>1. req' = [req EXCEPT ![r] = q] /\ Moves(p, q) /\ q.pc = pc
            BY <1>0, <1>1, <2>1 DEF Request, Goto, Moves
        <3> QED BY <2>1, <3>1 DEF MovesOn
    <2>2. ASSUME p.pc \notin Shut, NEW u, req' = [req EXCEPT ![r].pc = "copy", ![r].who = u]
          PROVE  MovesOn(r)
        <3> DEFINE q == [p EXCEPT !.pc = "copy", !.who = u]
        <3>1. Moves(p, q) /\ q.pc = "copy"
            BY <1>0, <1>1 DEF Request, Moves
        <3>2. req' = [req EXCEPT ![r] = q]
            BY <2>2
        <3> QED BY <2>2, <3>1, <3>2, ClosedStands DEF MovesOn
    <2>3. CASE ReadFails(r)
        <3>1. \E pc \in {"owner", "failed"} : Goto(r, pc) /\ (pc = "owner" => p.op = "touch_token")
            BY <2>3 DEF ReadFails
        <3> QED BY <2>1, <3>1, ClosedStands DEF Shut
    <2>4. CASE LoginReads(r) \/ SessionReads(r) \/ TokenReads(r)
        <3>1. /\ p.pc \in {"account", "session", "lookup"}
              /\ \/ \E u : req' = [req EXCEPT ![r].pc = "copy", ![r].who = u]
                 \/ Goto(r, "failed")
            BY <2>4 DEF LoginReads, SessionReads, TokenReads, At
        <3> QED BY <2>1, <2>2, <3>1 DEF Shut
    <2>5. CASE FirstSignup(r)
        <3> DEFINE first == Read("users") = {}
                   github == p.kind = "github"
                   q == [p EXCEPT !.first = first, !.role = IF first THEN "admin" ELSE OAuthRole,
                                  !.pc = IF github THEN "copy" ELSE "email", !.ref = None]
        <3>1. p.pc = "first" /\ Read("users") \notin Unreadable
            <4>1. At(r, "first")
                BY <2>5 DEF FirstSignup
            <4> QED BY <4>1 DEF At, FileRead, Reads
        <3>2. CASE (first \/ github) /\ req' = [req EXCEPT ![r] = q]
            <4>1. Moves(p, q) /\ q.pc \in {"copy", "email"}
                BY <1>0, <1>1 DEF Request, Moves
            <4>2. ~("invites" \notin mixed /\ Closed(r))
                BY <3>1, <3>2, ClosedStands DEF UsersThere, Read, Closed
            <4> QED BY <3>2, <4>1, <4>2 DEF MovesOn
        <3>3. CASE Goto(r, IF p.ref # None THEN "invite" ELSE IF SelfSignup THEN "email" ELSE "failed")
            <4>1. PICK pc \in {"invite", "email", "failed"} : Goto(r, pc) /\ (p.ref # None => pc = "invite")
                BY <3>3
            <4> QED BY <2>1, <4>1 DEF Closed, Shut
        <3> QED BY <2>5, <3>2, <3>3 DEF FirstSignup
    <2>6. CASE InviteReads(r)
        <3>1. p.pc = "invite" /\ Read("invites") \notin Unreadable
            BY <2>6 DEF InviteReads, At, FileRead, Reads
        <3>2. CASE Goto(r, "failed")
            BY <2>1, <3>2 DEF Shut
        <3>3. CASE \E i \in Read("invites") : /\ i.id = p.ref /\ Valid(i)
                                              /\ req' = [req EXCEPT ![r].pc = "email", ![r].role = i.role]
            <4>1. PICK i \in Read("invites") : /\ i.id = p.ref /\ Valid(i)
                                               /\ req' = [req EXCEPT ![r].pc = "email", ![r].role = i.role]
                BY <3>3
            <4> DEFINE q == [p EXCEPT !.pc = "email", !.role = i.role]
            <4>2. Moves(p, q) /\ q.pc = "email"
                BY <1>0, <1>1 DEF Request, Moves
            <4>3. Read("invites") \in Versions("invites")
                BY <3>1 DEF Read, Versions
            <4>4. ~("invites" \notin mixed /\ Closed(r))
                BY <4>1, <4>3, ClosedStands
            <4>5. req' = [req EXCEPT ![r] = q]
                BY <4>1
            <4> QED BY <4>2, <4>4, <4>5 DEF MovesOn
        <3> QED BY <2>6, <3>2, <3>3 DEF InviteReads
    <2>7. CASE EmailReads(r) \/ GithubAnswers(r) \/ OwnerReads(r)
        <3>1. /\ p.pc \in {"email", "github.com", "owner"}
              /\ \E pc \in {"failed", "first", "copy", "subject", "ok"} : Goto(r, pc)
            BY <2>7 DEF EmailReads, GithubAnswers, OwnerReads, At
        <3>2. ~("invites" \notin mixed /\ Closed(r))
            BY <3>1, ClosedStands DEF Shut
        <3> QED BY <2>1, <3>1, <3>2
    <2>8. CASE SubjectReads(r)
        <3>1. p.pc = "subject"
            BY <2>8 DEF SubjectReads, At
        <3>2. CASE \E u : req' = [req EXCEPT ![r].pc = "copy", ![r].who = u]
            BY <2>2, <3>1, <3>2 DEF Shut
        <3>3. CASE req' = [req EXCEPT ![r].pc = "email", ![r].op = "add_user"]
            <4> DEFINE q == [p EXCEPT !.pc = "email", !.op = "add_user"]
            <4>1. Moves(p, q) /\ q.pc = "email"
                BY <1>0, <1>1 DEF Request, Moves
            <4>2. ~("invites" \notin mixed /\ Closed(r))
                BY <3>1, ClosedStands DEF Shut
            <4>3. req' = [req EXCEPT ![r] = q]
                BY <3>3
            <4> QED BY <4>1, <4>2, <4>3 DEF MovesOn
        <3> QED BY <2>8, <3>2, <3>3 DEF SubjectReads
    <2> QED BY <2>3, <2>4, <2>5, <2>6, <2>7, <2>8 DEF Looks
<1> QED BY <1>1, <1>2, MovesOnClose DEF OnlyReads

\* A request changes a file: one that adds an account leaves the trace of its
\* own id, and no other.
LEMMA ChangesCloses ==
    ASSUME IInv, Lasts, Closing, NEW r \in Reqs, Changes(r)
    PROVE  Closing'
<1> DEFINE p == req[r]
           f == FileOf[p.op]
<1>0. /\ p \in Request /\ f \in Files /\ p.pc \in {"copy", "open", "write"} /\ p.op \in Ops
      /\ mixed \subseteq mixed'
    BY KindFacts, FileOfType DEF Changes, TakeCopy, Open, Write, At, Sound, Request
<1>1. ~("invites" \notin mixed /\ Closed(r)) /\ p.pc \notin {"idle"} \cup Ended
    BY <1>0, ClosedStands DEF Shut, Ended
<1>2. CASE TakeCopy(r)
    <2> DEFINE new == Changed(r, Read(f))
               q == [p EXCEPT !.pc = "open", !.copy = new]
    <2>1. p.pc = "copy" /\ Read(f) \notin Unreadable /\ files' = files
        BY <1>2 DEF TakeCopy, At, FileRead
    <2>2. CASE new # Refused /\ req' = [req EXCEPT ![r].pc = "open", ![r].copy = new]
        <3>1. /\ q.pc = "open" /\ q.copy = new /\ q.op = p.op /\ Moves(p, q)
              /\ req' = [req EXCEPT ![r] = q]
            BY <1>0, <1>1, <2>2 DEF Request, Moves
        <3>2. f = "users" => \A i : RecordIn(i, new) => RecordIn(i, Read(f)) \/ i = r
            <4>1. f = "users" => p.op \in {"add_user", "update_user"}
                BY <1>0, FileOfFacts DEF Ops
            <4>2. CASE p.op = "add_user"
                <5> DEFINE u == [id |-> r, email |-> p.email, role |-> p.role,
                                 provider |-> IF p.kind = "github" THEN "github" ELSE "local"]
                <5>1. new = Read(f) \cup {u} /\ u.id = r
                    BY <2>2, <4>2 DEF Changed, AddUser
                <5> QED BY <5>1 DEF RecordIn
            <4>3. CASE p.op = "update_user"
                BY <2>2, <4>3 DEF Changed, UpdateUser
            <4> QED BY <4>1, <4>2, <4>3
        <3> HIDE DEF new, q
        <3>3. req'[r] = q /\ \A s \in Reqs \ {r} : req'[s] = req[s]
            BY <3>1 DEF IInv, RequestsInv
        <3>4. \A s \in Changing("users")' : IF s = r THEN f = "users" /\ req'[s].copy = new
                                           ELSE s \in Changing("users") /\ req'[s] = req[s]
            BY <3>1, <3>3 DEF Changing
        <3>5. Versions("users")' \subseteq
                  Versions("users") \cup (IF f = "users" THEN {new} ELSE {})
            BY <2>1, <3>4 DEF Versions
        <3>6. f = "users" => Read(f) \in Versions("users")
            BY <2>1 DEF Read, Versions
        <3>7. \A i \in Reqs : Traced(i)' => Traced(i) \/ (i = r /\ p.pc = "copy")
            BY <2>1, <3>2, <3>5, <3>6 DEF Traced, RecordIn
        <3> QED BY <1>0, <1>1, <3>1, <3>7, MovesClose
    <2>3. CASE Goto(r, IF p.op = "touch_token" THEN "owner" ELSE "failed") /\ UNCHANGED mixed
        <3>1. PICK pc \in {"owner", "failed"} : Goto(r, pc)
            BY <2>3
        <3> DEFINE g == [p EXCEPT !.pc = pc]
        <3>2. req' = [req EXCEPT ![r] = g] /\ Moves(p, g) /\ g.pc = pc
            BY <1>0, <1>1, <3>1 DEF Request, Goto, Moves
        <3>3. MovesOn(r)
            BY <1>1, <3>2 DEF MovesOn
        <3> QED BY <2>1, <2>3, <3>3, MovesOnClose
    <2> QED BY <1>2, <2>2, <2>3 DEF TakeCopy
<1>3. CASE Open(r)
    <2> DEFINE q == [p EXCEPT !.pc = "write"]
    <2>1. /\ q.pc = "write" /\ q.op = p.op /\ q.copy = p.copy /\ Moves(p, q) /\ p.pc = "open"
          /\ req' = [req EXCEPT ![r] = q]
        BY <1>0, <1>1, <1>3 DEF Request, Moves, Open, Goto
    <2> HIDE DEF q
    <2>2. req'[r] = q /\ \A s \in Reqs \ {r} : req'[s] = req[s]
        BY <2>1 DEF IInv, RequestsInv
    <2>3. \A s \in Changing("users")' : s \in Changing("users") /\ req'[s].copy = req[s].copy
        BY <2>1, <2>2 DEF Changing
    <2>4. files'["users"] \in {files["users"], Truncated}
        BY <1>0, <1>3 DEF Open, IInv, FilesInv, Files
    <2>5. Versions("users")' \subseteq Versions("users")
        BY <2>3, <2>4 DEF Versions, Unreadable
    <2> QED BY <1>0, <1>1, <2>1, <2>5, MovesClose DEF Traced, RecordIn
<1>4. CASE Write(r)
    <2> DEFINE q == [p EXCEPT !.pc = AfterWrite(p), !.copy = {},
                              !.op = IF AfterWrite(p) = "copy" THEN "consume_invite" ELSE @]
    <2>1. /\ q.pc \in {"owner", "copy", "ok"} /\ Moves(p, q) /\ p.pc = "write"
          /\ req' = [req EXCEPT ![r] = q]
        BY <1>0, <1>1, <1>4 DEF Request, Moves, Write, AfterWrite
    <2> HIDE DEF q
    <2>2. req'[r] = q /\ \A s \in Reqs \ {r} : req'[s] = req[s]
        BY <2>1 DEF IInv, RequestsInv
    <2>3. \A s \in Changing("users")' : s \in Changing("users") /\ req'[s].copy = req[s].copy
        BY <2>1, <2>2 DEF Changing
    <2>4. \/ files'["users"] \in {files["users"], Garbled}
          \/ files'["users"] = p.copy /\ r \in Changing("users")
        <3>1. PICK left \in {p.copy, Garbled} : files' = [files EXCEPT ![f] = left]
            BY <1>4 DEF Write
        <3>2. f = "users" => r \in Changing("users")
            BY <2>1 DEF Changing
        <3> QED BY <1>0, <3>1, <3>2 DEF IInv, FilesInv, Files
    <2>5. Versions("users")' \subseteq Versions("users")
        BY <2>3, <2>4 DEF Versions, Unreadable
    <2> QED BY <1>0, <1>1, <2>1, <2>5, MovesClose DEF Traced, RecordIn
<1> QED BY <1>2, <1>3, <1>4 DEF Changes

\* A restart loses the requests on their way, and the copies they held.
LEMMA CrashCloses ==
    ASSUME IInv, Closing, Crash
    PROVE  Closing'
<1>1. files' = files /\ mixed \subseteq mixed'
    BY DEF Crash
<1>2. ASSUME NEW r \in Reqs
      PROVE  /\ req'[r].kind = req[r].kind /\ req'[r].op = req[r].op
             /\ req'[r].ref = req[r].ref /\ req'[r].after = req[r].after
             /\ req[r].pc \in {"idle"} \cup Ended => req'[r] = req[r]
             /\ req[r].pc \notin {"idle"} \cup Ended => req'[r].pc = "lost"
    <2>1. req[r] \in Request
        BY DEF IInv, RequestsInv
    <2>2. req'[r] = IF req[r].pc \in {"idle"} \cup Ended THEN req[r]
                    ELSE [req[r] EXCEPT !.pc = "lost", !.copy = {}]
        BY DEF Crash
    <2> QED BY <2>1, <2>2 DEF Request
<1>3. \A s \in SignedUp : s \in SignedUp' /\ s \in Reqs
    BY <1>2 DEF SignedUp, Ended
<1>4. Changing("users")' = {}
    BY <1>2 DEF Changing, Ended
<1>5. Versions("users")' \subseteq Versions("users")
    BY <1>1, <1>4 DEF Versions
<1>6. \A i \in Reqs : Traced(i)' => Traced(i)
    BY <1>5 DEF Traced, RecordIn
<1>7. \A t \in Reqs : Closed(t)' => Closed(t)
    BY <1>2, <1>3 DEF Closing, Closed
<1>8. \A t \in Reqs : req[t].pc \in Shut => req'[t].pc \in Shut
    BY <1>2 DEF Shut
<1>9. \A t \in Reqs : req'[t].pc = "idle" => req[t].pc = "idle"
    BY <1>2
<1> QED BY <1>1, <1>2, <1>3, <1>6, <1>7, <1>8, <1>9 DEF Closing

LEMMA RestCloses ==
    ASSUME Closing, UNCHANGED <<files, req, mixed>>
    PROVE  Closing'
<1>1. \A i : Traced(i)' <=> Traced(i)
    BY DEF Traced, Versions, Changing, RecordIn
<1>2. \A r \in Reqs : Closed(r)' <=> Closed(r)
    BY DEF Closed
<1> QED BY <1>1, <1>2 DEF Closing, SignedUp, SigningUp

LEMMA InitClosing == Init => Closing
<1> SUFFICES ASSUME Init PROVE Closing
    OBVIOUS
<1>1. \A r \in Reqs : req[r].pc = "idle" /\ req[r].after = {}
    BY DEF Init, Idle
<1>2. Versions("users") \subseteq {files["users"]}
    BY <1>1 DEF Versions, Changing
<1>3. \A r \in Reqs : ~Traced(r)
    <2>1. \A u \in files["users"] : u.id \in Seeds
        BY AccountsAssumption DEF Init
    <2> QED BY <1>2, <2>1, AccountsAssumption DEF Traced, RecordIn
<1> QED BY <1>1, <1>3 DEF Closing, Closed

LEMMA NextClosing == IInv /\ Lasts /\ Closing /\ [Next]_vars => Closing'
<1> SUFFICES ASSUME IInv, Lasts, Closing, [Next]_vars PROVE Closing'
    OBVIOUS
<1>1. CASE \E r \in Reqs : Arrives(r) \/ Looks(r) \/ Changes(r)
    BY <1>1, ArrivesCloses, LooksCloses, ChangesCloses
<1>2. CASE Expire \/ UNCHANGED vars
    BY <1>2, RestCloses DEF Expire, vars
<1>3. CASE Crash
    BY <1>3, CrashCloses
<1> QED BY <1>1, <1>2, <1>3 DEF Next

\* A registration that arrives once another with its invite has been answered
\* makes no account, answered or not (register, UserStore.consume_invite), for any
\* number of requests and restarts, as long as no two have changed invites.json at
\* the same time.  Two that arrive before either is answered may make two.
THEOREM AccountsInviteCloses == TextsAreNoRecords => (Spec => []InviteCloses)
<1> SUFFICES ASSUME TextsAreNoRecords PROVE Spec => []InviteCloses
    OBVIOUS
<1>1. IInv /\ Closing => InviteCloses
    <2> SUFFICES ASSUME IInv, Closing, "invites" \notin mixed, NEW r \in Reqs, Closed(r),
                        NEW u \in Settled("users"), u.id = r
                 PROVE  FALSE
        BY DEF InviteCloses, Closed
    <2>1. ~Traced(r)
        BY DEF Closing
    <2>2. \E c \in Versions("users") : u \in c
        BY DEF Settled, Versions
    <2> QED BY <2>1, <2>2 DEF Traced, RecordIn
<1>2. Spec => []Lasts
    BY SpecLasts
<1>3. Spec => []Closing
    BY <1>2, InitClosing, NextClosing, SpecIInv, PTL DEF Spec
<1> QED BY <1>1, <1>3, SpecIInv, PTL

-----------------------------------------------------------------------------
\* What was answered lasts, however requests interleave and the server is
\* restarted: the account of a sign-up, an invite and its use, a token and its
\* revocation are in the file, or in what the one request that is writing it
\* puts there (UserStore of auth/store.py), unless two requests have changed
\* the file at once or a restart has cut it short.
THEOREM AccountsAnswersLast == TextsAreNoRecords => (Spec => []AnswersLast)
<1> SUFFICES ASSUME TextsAreNoRecords PROVE Spec => []AnswersLast
    OBVIOUS
<1>1. IInv /\ Lasts => AnswersLast
    <2> SUFFICES ASSUME IInv, Lasts PROVE AnswersLast
        OBVIOUS
    <2>1. \A f \in Files \ mixed : Says(f, Settled(f))
        BY SettledIs
    <2>2. "users" \notin mixed => \A r \in SignedUp : AccountKept(r)
        BY <2>1 DEF Files, Says, SignedUp, Shown, AccountIn, AccountKept
    <2>3. "invites" \notin mixed =>
              /\ \A r \in Answered("invite") : InviteKept(r)
              /\ \A r \in Answered("register") : req[r].ref # None => UseKept(r)
        <3> SUFFICES ASSUME "invites" \notin mixed, Says("invites", Settled("invites"))
                     PROVE  /\ \A r \in Answered("invite") : InviteKept(r)
                            /\ \A r \in Answered("register") : req[r].ref # None => UseKept(r)
            BY <2>1 DEF Files
        <3>1. \A r \in Answered("invite") : InviteKept(r)
            BY DEF Says, RecordIn, InviteKept
        <3>2. \A r \in Answered("register") : r \in Reqs
            BY DEF Answered
        <3> QED BY <3>1, <3>2 DEF Says, UsesInvite, UseIn, UseKept
    <2>4. "tokens" \notin mixed =>
              /\ \A r \in Answered("mint") : TokenKept(r)
              /\ \A r \in Answered("revoke") : RevokedKept(req[r].ref)
        BY <2>1 DEF Files, Says, RecordIn, RevokedIn, TokenKept, RevokedKept
    <2> QED BY <2>2, <2>3, <2>4 DEF AnswersLast
<1>2. Spec => []Lasts
    BY SpecLasts
<1> QED BY <1>1, <1>2, SpecIInv, PTL

=============================================================================
