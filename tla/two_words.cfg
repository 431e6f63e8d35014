\* Two connections that may do anything to two words.
SPECIFICATION RaceSpec
CONSTANTS
    r1 = r1
    r2 = r2
    r3 = r3
    w1 = w1
    w2 = w2
    t1 = t1
    t2 = t2
    d1 = d1
    d2 = d2
    None = None
    Gone = Gone
    Keep = Keep
    Reqs = {r1, r2}
    Editors = {r1, r2}
    Deleters = {r1, r2}
    Reviewers = {r1, r2}
    WordIds = {w1, w2}
    Terms = {t1, t2}
    Defs = {d1}
    MaxDay = 0
    Faults = {"error", "unacked", "crash"}
SYMMETRY Symmetry
INVARIANTS
    TypeOK
    EveryLiveWordIsScheduled
    DeleteAcknowledged
    NotFoundMeansDeleted
PROPERTIES
    DeletedWordIsFrozen
    ImplementsLifecycle
    DuplicateOnlyIfOvertaken
