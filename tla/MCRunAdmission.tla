--------------------------- MODULE MCRunAdmission ---------------------------
EXTENDS RunAdmission, TLC

\* The names of the runs are interchangeable.
RunSymmetry == Permutations(Runs)
=============================================================================
