SPECIFICATION MCSpec
CONSTANTS
    n1 = n1
    g1 = g1
    g2 = g2
    Inherit = Inherit
    NoReading = NoReading
    Invalid = Invalid
    Nodes <- OneNode
    Rules = {1}
    Groups <- TwoGroups
    Kinds = {"node_offline", "cpu_high"}
    Levels = {1, 2}
    Thresholds = {1, 2}
    Default = 1
    Earlier <- NoneOrBoth
    MaxUpsets = 2
INVARIANT TypeOK
INVARIANT OneOpenEvent
PROPERTY EventsFollowNodes
