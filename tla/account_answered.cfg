\* Three connections on one address under fairness; liveness is checked without symmetry.
SPECIFICATION FairSpec
CONSTANTS
    r1 = r1
    r2 = r2
    r3 = r3
    v1 = v1
    v2 = v2
    k1 = k1
    k2 = k2
    p1 = p1
    p2 = p2
    None = None
    Reqs = {r1, r2, r3}
    Ops = {"register", "verify", "forgot", "reset", "google"}
    VTokens = {v1}
    RTokens = {k1}
    Passwords = {p1}
    Faults = {"error"}
INVARIANTS
    IInv
PROPERTIES
    AnsweredOrMailing
