------------------------------- MODULE MCSam3 -------------------------------
EXTENDS Sam3Properties, TLC
Symmetry == Permutations(Conns) \cup Permutations(Sessions)
=============================================================================
