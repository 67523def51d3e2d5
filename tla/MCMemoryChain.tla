--------------------------- MODULE MCMemoryChain ---------------------------
\* One user and the dream; texts and keys are interchangeable.
EXTENDS MemoryChain, TLC

CONSTANTS user, dream, tea, coffee, likes

Symmetry == Permutations(Texts) \cup Permutations(Keys)
=============================================================================
