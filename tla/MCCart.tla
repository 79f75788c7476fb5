------------------------------- MODULE MCCart -------------------------------
EXTENDS Cart, TLC

CONSTANTS s1, s2

\* B2B offers two of either.
MCShelf == [s \in {s1, s2} |-> 2]

MCSymmetry == Permutations(Requests) \cup Permutations(Skus)
=============================================================================
