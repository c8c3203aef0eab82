SPECIFICATION FairPageSpec
CONSTANTS
    MaxTyped = 2
    MaxVisits = 2
    MaxIncidents = 2
    MaxEvents = 4
    LastVersion = 3
    MaxRetries = 1
INVARIANTS
    PageTypeOK
    SavedMeansSaved
CHECK_DEADLOCK FALSE
PROPERTIES
    SavedOrTold
