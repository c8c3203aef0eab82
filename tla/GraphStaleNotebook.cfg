SPECIFICATION Spec
CONSTANTS
    Forms = {"nb_classification"}
    MaxRuns = 2
    MaxSoft = 1
INVARIANT ShippedNotebookRan
CHECK_DEADLOCK FALSE
