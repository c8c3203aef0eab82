SPECIFICATION Spec
CONSTANTS
    d1 = d1
    d2 = d2
    d3 = d3
    Runs = {d1, d2, d3}
    NFlows = 3
    MaxAttempts = 3
    Faults = {"crash", "dbError"}
    Dispatch = "cloud_tasks"
SYMMETRY Symmetry
CHECK_DEADLOCK FALSE
INVARIANTS
    TypeOK
    SingleOwner
    CompletedIsPublished
PROPERTIES
    ImplementsLifecycle
