SPECIFICATION Spec
CONSTANTS
    t1 = t1
    t2 = t2
    m1 = m1
    m2 = m2
    c1 = c1
    g1 = g1
    g2 = g2
    Tabs = {t1, t2}
    Modules = {m1, m2}
    MaxRevision = 2
    MaxTyped = 2
    MaxVisits = 2
    MaxTroubles = 1
    NoDetail = NoDetail
    Cases = {c1}
    Regens = {g1, g2}
    NoModule = NoModule
    NoCase = NoCase
SYMMETRY Symmetry
CHECK_DEADLOCK FALSE
INVARIANTS
    TypeOK
    OnlyOvertakenIntakesFail
    NotebookTellsTruth
PROPERTIES
    OnlyTypedChanges
