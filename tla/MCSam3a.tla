------------------------------ MODULE MCSam3a ------------------------------
EXTENDS Sam3aProperties, TLC
Symmetry == Permutations(Conns)
=============================================================================
