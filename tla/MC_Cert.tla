------------------------------ MODULE MC_Cert ------------------------------
EXTENDS Cert, TLC

CONSTANTS c1, c2, a1, a2, o1, o2

MCCallers == {c1, c2}
MCAddrs == {a1, a2}
MCNameObjs == {o1, o2}

\* Addresses and name objects are interchangeable; goroutines are not
\* permuted since serials are compared across them.
MCSymmetry == Permutations(MCAddrs) \cup Permutations(MCNameObjs)

=============================================================================
