SPECIFICATION FairSpec
CONSTANTS
    d1 = d1
    d2 = d2
    d3 = d3
    Runs = {d1, d2}
    NFlows = 2
    MaxAttempts = 2
    Faults = {"crash", "dbError", "lostCommit"}
    Dispatch = "inline"
CHECK_DEADLOCK FALSE
PROPERTIES
    ClaimedJobSettles
