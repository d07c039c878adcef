SPECIFICATION Spec
CONSTANTS
    r1 = r1
    r2 = r2
    r3 = r3
    seed = seed
    e1 = e1
    e2 = e2
    None = None
    Truncated = Truncated
    Garbled = Garbled
    Refused = Refused
    Reqs = {r1, r2, r3}
    Seeds = {seed}
    Installs <- MCInstalls
    Emails = {e1, e2}
    SelfSignup = FALSE
    OAuthRole = "member"
    InviteRoles = {"member"}
    MaxCrashes = 1
SYMMETRY Symmetric
\* The run ends when its requests are used up; no request waits for another.
CHECK_DEADLOCK FALSE
INVARIANTS
    TypeOK
    EmailsUnique
    BootstrapCloses
    InviteCloses
    AnswersLast
