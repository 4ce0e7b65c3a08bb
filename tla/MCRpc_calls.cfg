SPECIFICATION FairSpec
CONSTANTS
    Calls = {c1, c2, c3}
    Backlog = 0
    MaxStops = 2
    ClientsDie = TRUE
INVARIANTS TypeOK AnsweredMeansServed RepeatedForKilled
PROPERTIES ConnectedCallReturns
CHECK_DEADLOCK FALSE
