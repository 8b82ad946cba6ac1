---------------------------- MODULE MCFileTransfer ----------------------------
EXTENDS FileTransfer, TLC

CONSTANTS s1, s2, f1, f2, p1, p2

OneTab   == {s1}
TwoTabs  == {s1, s2}
TwoFiles == {f1, f2}
OneFile  == {f1}
OnePath  == {p1}
TwoPaths == {p1, p2}

Symmetry == Permutations(Tabs) \union Permutations(Files) \union Permutations(Paths)
=============================================================================
