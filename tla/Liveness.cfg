SPECIFICATION LiveSpec
CONSTANTS
    t1 = t1
    t2 = t2
    t3 = t3
    f1 = f1
    f2 = f2
    None = None
    TerminalTabs <- NoTerminal
    FileTabs <- TwoFiles
    MaxLinks = 1
    MaxInput = 1
    MaxOutput = 1
    MaxDrops = 1
    c1 = c1
    k1 = k1
    Parts <- MCParts
    Packed <- NoNewDocs
    MaxVersion = 2
    Checks <- OneCheck
    Clicks <- OneClick
    Loop = Loop
    MaxSetbacks = 1
    Visitors = {v1, v2}
    Pages = {p1, p2}
    MaxTokens = 2
    MaxOutages = 1
INVARIANT InstallIsWhole
PROPERTY HandlersFinishInHub
PROPERTY AutoModeUpdatesServer
PROPERTY LockFollowsPolls
CHECK_DEADLOCK FALSE
