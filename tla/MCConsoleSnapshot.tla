------------------------- MODULE MCConsoleSnapshot -------------------------
EXTENDS ConsoleSnapshot, TLC

\* Clients and buffers are alike.
Symmetric == Permutations(Clients) \cup Permutations(Buffers)
=============================================================================
