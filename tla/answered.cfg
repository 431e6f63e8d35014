\* Three connections on one word over two days, with failures, under fairness; no symmetry.
SPECIFICATION FairSpec
CONSTANTS
    r1 = r1
    r2 = r2
    r3 = r3
    w1 = w1
    w2 = w2
    t1 = t1
    t2 = t2
    d1 = d1
    d2 = d2
    None = None
    Gone = Gone
    Keep = Keep
    Reqs = {r1, r2, r3}
    Editors = {r1}
    Deleters = {r1, r2}
    Reviewers = {r3}
    WordIds = {w1}
    Terms = {t1}
    Defs = {d1, d2}
    MaxDay = 1
    Faults = {"error", "unacked", "crash"}
INVARIANTS
    IInv
PROPERTIES
    EveryRequestAnswered
