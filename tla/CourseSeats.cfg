SPECIFICATION Spec
CONSTANTS
    r1 = r1  r2 = r2  r3 = r3  s1 = s1  s2 = s2
    Requests = {r1, r2, r3}
    Students = {s1, s2}
    Limits = {1, 2}
    Faults = {"database"}
SYMMETRY Symmetry
INVARIANTS
    TypeOK
    SeatWithinLimit
    ConsumedHasEnrolled
    OneActiveLink
    DeadlocksAreOfOneStudent
PROPERTIES
    NoAccountLeaks
CHECK_DEADLOCK FALSE
