SPECIFICATION FairSpec
CONSTANTS
    ann = ann
    bob = bob
    amy = amy
    a = a
    an = an
    Users = {ann, bob, amy}
    Queries = {a, an}
    Matching <- MCMatching
    NoQuery = NoQuery
    NoUser = NoUser
    MaxSearches = 3
    MaxChanges = 1
    MaxFaults = 1
INVARIANTS
    IndicatorIsAwaited
    RowsAreResults
    LastSearchIsShown
PROPERTIES
    SpinnerEnds
CHECK_DEADLOCK FALSE
