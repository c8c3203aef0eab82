SPECIFICATION PageSpec
CONSTANTS
    MaxTyped = 2
    MaxVisits = 2
    MaxIncidents = 0
    MaxEvents = 4
    LastVersion = 2
    MaxRetries = 0
INVARIANTS
    OwnWorkIsShown
CHECK_DEADLOCK FALSE
