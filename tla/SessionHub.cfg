SPECIFICATION Spec
CONSTANTS
    t1 = t1
    t2 = t2
    t3 = t3
    f1 = f1
    f2 = f2
    None = None
    TerminalTabs <- TwoTerminals
    FileTabs <- OneFile
    MaxLinks = 2
    MaxInput = 1
    MaxOutput = 1
    MaxDrops = 1
SYMMETRY Symmetry
CONSTRAINT Scene
INVARIANT TypeOK
INVARIANT OutputStaysInSession
INVARIANT OneShell
PROPERTY KeepsShellContract
INVARIANT NewestLinkRegistered
CHECK_DEADLOCK FALSE
