---------------------------- MODULE MCDreamShift ----------------------------
\* Two processes; one strategy of each shape.
EXTENDS DreamShift, TLC

CONSTANTS p1, p2, contradict, forget, lane1

MCProcs == {p1, p2}
MCSymmetry == Permutations(MCProcs)

\* The three in the order PIPELINE runs them; and `--phase contradict'.
MCOrder == {<<contradict, forget, lane1>>}
MCPhase == {<<contradict>>}
=============================================================================
