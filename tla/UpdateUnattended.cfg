SPECIFICATION UpdateSpec
CONSTANTS
    c1 = c1
    k1 = k1
    Parts <- MCParts
    Packed <- NoNewDocs
    MaxVersion = 2
    Checks <- OneCheck
    Clicks <- OneClick
    Loop = Loop
    MaxSetbacks = 0
PROPERTY AutoModeUpdatesAlone
