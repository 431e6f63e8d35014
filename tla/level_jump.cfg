\* Two reviews of one word at once.
SPECIFICATION Spec
CONSTANTS
    r1 = r1
    r2 = r2
    r3 = r3
    w1 = w1
    w2 = w2
    t1 = t1
    t2 = t2
    d1 = d1
    d2 = d2
    None = None
    Gone = Gone
    Keep = Keep
    Reqs = {r1, r2}
    Editors = {r1}
    Deleters = {}
    Reviewers = {r1, r2}
    WordIds = {w1}
    Terms = {t1}
    Defs = {d1}
    MaxDay = 0
    Faults = {}
SYMMETRY WordSymmetry
PROPERTIES
    LevelClimbsOneRung
