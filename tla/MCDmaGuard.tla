----------------------------- MODULE MCDmaGuard -----------------------------
EXTENDS DmaGuard
=============================================================================
