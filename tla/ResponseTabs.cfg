\* Two tabs write and submit one response while the clock goes on.
SPECIFICATION Spec
CONSTANTS
    c1 = c1
    c2 = c2
    Clients <- TwoTabs
    Answers = {"a","b"}
    MaxVersion = 2
    MaxTime = 1
    Faults = {"dbError", "lostReply"}
INVARIANTS TypeOK
PROPERTIES ImplementsVersionedDraft StampsFollowVersions
CHECK_DEADLOCK FALSE
