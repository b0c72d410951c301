SPECIFICATION Spec
CONSTANTS
    qsort = qsort
    Jobs = 2
    Shape <- MCShape
    Counts <- MCCounts
    Actions = {"invoke", "assign_param"}
    MaxDepth = 3
    MaxTests = 1
INVARIANTS
    HiddenFromOthers
    ArmingExclusive
PROPERTIES
    ImplementsMockBook
