CONSTANTS
    Callers = {c1, c2, c3, c4}
    Keys = {k1, k2}
    None = None
SPECIFICATION FairSpec
INVARIANTS SingleFlight SharedOutcome
PROPERTIES NoOneHangs
