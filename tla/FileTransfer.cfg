SPECIFICATION Spec
CONSTANTS
    s1 = s1
    s2 = s2
    f1 = f1
    f2 = f2
    p1 = p1
    p2 = p2
    None = None
    Tabs <- TwoTabs
    Files <- OneFile
    Paths <- TwoPaths
    Chunks = 2
    MaxRequests = 1
    MaxDrops = 1
SYMMETRY Symmetry
INVARIANT TypeOK
INVARIANT DownloadsStayApart
PROPERTY UploadsAreWhole
CHECK_DEADLOCK FALSE
