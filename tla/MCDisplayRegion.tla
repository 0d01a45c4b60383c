--------------------------- MODULE MCDisplayRegion ---------------------------
EXTENDS DisplayRegion, TLC

\* A number the first submission has and one it has not, at either buffer.
MCLeftWords == [seq : {1, 2}, idx : {0, 1}]

\* No mode is special, and the run checks no liveness.
ModeSymmetry == Permutations(Modes)
=============================================================================
