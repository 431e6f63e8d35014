\* Two connections that may do anything to one address.
SPECIFICATION Spec
CONSTANTS
    r1 = r1
    r2 = r2
    r3 = r3
    v1 = v1
    v2 = v2
    k1 = k1
    k2 = k2
    p1 = p1
    p2 = p2
    None = None
    Reqs = {r1, r2}
    Ops = {"register", "verify", "login", "google", "me", "forgot", "reset"}
    VTokens = {v1, v2}
    RTokens = {k1}
    Passwords = {p1, p2}
    Faults = {"error", "unacked", "crash", "mail", "expiry"}
SYMMETRY AccountSymmetry
INVARIANTS
    AccountHasIdentity
    InactiveWasMailed
    AnswersAreTrue
    ConflictMeansAccountExists
    SessionFindsAccount
PROPERTIES
    TokenSpentWithEffect
    MailedResetTokenIsSaved
    ImplementsAccount
