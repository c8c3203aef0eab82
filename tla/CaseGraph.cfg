SPECIFICATION FairSpec
CONSTANTS
    Forms = {"harvard_only", "eda", "nb_classification", "nb_clustering", "nb_other"}
    MaxRuns = 2
    MaxSoft = 2
INVARIANTS
    TypeOK
    InputsDecided
    QuestionsFromRealRun
    MadeTogetherAgree
    FinishedIsComplete
PROPERTIES
    KeepsPaidWork
    EveryRunEnds
\* The graph stops for good when the job is done or failed.
CHECK_DEADLOCK FALSE
