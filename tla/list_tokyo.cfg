\* Nine hours ahead of UTC: two words, one of which fits in the list, over four days.
SPECIFICATION Spec
CONSTANTS
    r1 = r1
    w1 = w1
    w2 = w2
    None = None
    Gone = Gone
    Readers = {r1}
    WordIds = {w1, w2}
    ReviewLimit = 1
    SummaryLimit = 2
    Offset = 9
    Tick = 3
    MaxHour = 96
SYMMETRY ListSymmetry
INVARIANTS
    TypeOK
    NewWordsAreListable
    NeverEarly
    LessThanADayLate
PROPERTIES
    SummaryMatchesList
