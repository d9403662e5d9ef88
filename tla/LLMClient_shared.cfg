SPECIFICATION Spec
CONSTANTS
    c1 = c1
    c2 = c2
    k1 = k1
    k2 = k2
    a1 = a1
    a2 = a2
    Clients <- Pair
    Keys <- Questions
    Answers <- Possible
    MaxStops = 1
    MayCut = TRUE
    MaxPaid = 2
SYMMETRY Swap
INVARIANTS
    AnswerWasGiven
    LastCallIsThisOne
