----------------------------- MODULE MCAccounts -----------------------------
(* Three requests on a fresh installation, and on one with an administrator,  *)
(* an invite and a token.                                                     *)
EXTENDS Accounts, TLC

CONSTANTS r1, r2, r3, seed, e1, e2

Fresh == [users |-> {}, invites |-> {}, tokens |-> {}]

Established ==
    [users   |-> {[id |-> seed, email |-> e1, role |-> "admin", provider |-> "local"]},
     invites |-> {[id |-> seed, email |-> None, role |-> "member", usedBy |-> None]},
     tokens  |-> {[id |-> seed, owner |-> seed, revoked |-> FALSE]}]

MCInstalls == {Fresh, Established}

\* Requests are interchangeable: none is chosen or compared by its name.
Symmetric == Permutations({r1, r2, r3})
=============================================================================
