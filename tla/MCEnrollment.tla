---------------------------- MODULE MCEnrollment ----------------------------
EXTENDS Enrollment, TLC

CONSTANTS m1, m2, single, shared, a1, a2, a3

OneMachine  == {m1}
TwoMachines == {m1, m2}
OwnSerial   == [m \in Machines |-> m]
OneToken    == {shared}
TwoTokens   == {single, shared}
Limits      == [t \in Tokens |-> IF t = single THEN 1 ELSE 0]
SharedOnly  == {shared}
TwoAttempts == {a1, a2}
ThreeAttempts == {a1, a2, a3}

Symmetry == Permutations(Attempts) \union Permutations(Machines)
=============================================================================
