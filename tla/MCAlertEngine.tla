---------------------------- MODULE MCAlertEngine ----------------------------
EXTENDS AlertEngine

CONSTANTS n1, g1, g2

OneNode   == {n1}
OneGroup  == {g1}
TwoGroups == {g1, g2}

\* A rule without overrides, or with one of each group.
NoneOrBoth ==
    {<<>>,
     <<[group |-> g1, enabled |-> FALSE, threshold |-> Inherit, saved |-> -1],
       [group |-> g2, enabled |-> TRUE, threshold |-> 2, saved |-> 0]>>}

\* The nodes are in every group at the start; a change takes them out.
InGroups == Init /\ \A n \in Nodes : node[n].groups = Groups

MCSpec == InGroups /\ [][Next]_vars /\ WF_vars(Evaluate)
=============================================================================
