----------------------------- MODULE MCSessionHub -----------------------------
EXTENDS SessionHub, TLC

CONSTANTS t1, t2, t3, f1, f2

TwoTerminals   == {t1, t2}
ThreeTerminals == {t1, t2, t3}
NoTerminal     == {}
NoFile         == {}
OneFile        == {f1}
TwoFiles       == {f1, f2}

Symmetry == Permutations(TerminalTabs)

\* What is explored: two terminal tabs with two channels of which one drops, or a
\* file tab that may send a frame, on the first channel.
Scene ==
    /\ budget.input < MaxInput => \E b \in FileTabs : tab[b].on # None
    /\ (\E b \in FileTabs : tab[b].at # "idle") =>
         /\ \A b \in TerminalTabs : tab[b].at = "idle"
         /\ budget.drops = MaxDrops
=============================================================================
