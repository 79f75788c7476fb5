----------------------------- MODULE MCSessions -----------------------------
EXTENDS Sessions, TLC

CONSTANTS e1, e2, i1

\* Two sellers who give the same INN.
MCInnOf == [e \in {e1, e2} |-> i1]

MCSymmetry == Permutations(Requests) \cup Permutations(Emails)
=============================================================================
