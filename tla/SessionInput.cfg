SPECIFICATION Spec
CONSTANTS
    t1 = t1
    t2 = t2
    t3 = t3
    f1 = f1
    f2 = f2
    None = None
    TerminalTabs <- ThreeTerminals
    FileTabs <- NoFile
    MaxLinks = 1
    MaxInput = 1
    MaxOutput = 0
    MaxDrops = 0
SYMMETRY Symmetry
INVARIANT InputStaysInSession
CHECK_DEADLOCK FALSE
