SPECIFICATION Spec
CONSTANTS
    s1 = s1
    s2 = s2
    f1 = f1
    f2 = f2
    p1 = p1
    p2 = p2
    None = None
    Tabs <- TwoTabs
    Files <- TwoFiles
    Paths <- OnePath
    Chunks = 1
    MaxRequests = 0
    MaxDrops = 0
SYMMETRY Symmetry
INVARIANT SavedIsIntact
CHECK_DEADLOCK FALSE
