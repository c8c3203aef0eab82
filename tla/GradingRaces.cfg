\* Three concurrent requests on a case that is written again with other questions.
SPECIFICATION FairSpec
CONSTANTS
    t1 = t1
    t2 = t2
    t3 = t3
    Requests <- ThreeRequests
    Questions = {"q1", "q2", "q3"}
    Grades = {"half", "full"}
    NEditions = 2
    Gradeable <- TwoEditions
    DbFaults = TRUE
INVARIANTS TypeOK RollupOfRows
PROPERTIES ImplementsGradeSheet RequestsAnswered
CHECK_DEADLOCK FALSE
