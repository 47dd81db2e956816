----------------------------- MODULE MCSharedPM -----------------------------
EXTENDS SharedPM, TLC

CONSTANTS p1, p2, p3

MCProcs == {p1, p2, p3}

\* The processes started later are interchangeable.
Symmetry == Permutations({p2, p3})
=============================================================================
