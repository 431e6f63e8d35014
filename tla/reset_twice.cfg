\* Two resets with one link at once.
SPECIFICATION Spec
CONSTANTS
    r1 = r1
    r2 = r2
    r3 = r3
    v1 = v1
    v2 = v2
    k1 = k1
    k2 = k2
    p1 = p1
    p2 = p2
    None = None
    Reqs = {r1, r2}
    Ops = {"register", "forgot", "reset"}
    VTokens = {v1}
    RTokens = {k1}
    Passwords = {p1, p2}
    Faults = {}
SYMMETRY AccountSymmetry
PROPERTIES
    ResetTokenWorksOnce
