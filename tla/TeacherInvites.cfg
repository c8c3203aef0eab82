SPECIFICATION Spec
CONSTANTS
    r1 = r1  r2 = r2  p1 = p1  p2 = p2  c1 = c1  c2 = c2
    Requests = {r1, r2}
    People = {p1, p2}
    Courses = {c1, c2}
INVARIANTS
    TypeOK
    NoCourseWaitsInVain
    PostsAreHeld
PROPERTY ImplementsPosts
SYMMETRY Symmetry
CHECK_DEADLOCK FALSE
