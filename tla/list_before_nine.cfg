\* Nine hours ahead of UTC: a word on the morning of its review day.
SPECIFICATION Spec
CONSTANTS
    r1 = r1
    w1 = w1
    w2 = w2
    None = None
    Gone = Gone
    Readers = {r1}
    WordIds = {w1}
    ReviewLimit = 1
    SummaryLimit = 2
    Offset = 9
    Tick = 3
    MaxHour = 96
INVARIANTS
    DueFromMidnight
