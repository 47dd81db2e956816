----------------------------- MODULE MCThreadDB -----------------------------
EXTENDS ThreadDB, TLC

CONSTANTS i1, i2, i3, p0, p1, p2

MCTids == {i1, i2, i3}
MCStructs == {p0, p1, p2}

\* The threads are interchangeable, and so are the ids other than the main thread's and
\* the structures from the heap.
Symmetry ==
    Permutations(Threads) \union Permutations({i2, i3}) \union Permutations({p1, p2})
=============================================================================
