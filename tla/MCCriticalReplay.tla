--------------------------- MODULE MCCriticalReplay ---------------------------
EXTENDS CriticalReplay, TLC

\* Producers are interchangeable; used only where no liveness is checked.
ProducerSymmetry == Permutations(Producers)
=============================================================================
