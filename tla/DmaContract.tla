---------------------------- MODULE DmaContract ----------------------------
(***************************************************************************)
(* What the DMA guard promises of the host (src/docs/ih-dma-lifetime.md):  *)
(* the mapping of guest memory outlives the guest and every DMA source the *)
(* guest may have left running, whoever dies and in whatever order.        *)
(***************************************************************************)
VARIABLES
  context,   \* guest memory is mapped for the device
  guest,     \* some vCPU may run
  dma        \* some DMA source of the device may be writing

Init == ~context /\ ~guest /\ ~dma

Open      == ~context /\ context' /\ UNCHANGED <<guest, dma>>
RunGuest  == context /\ guest' /\ UNCHANGED <<context, dma>>
Drive     == guest /\ dma' /\ UNCHANGED <<context, guest>>
StopGuest == ~guest' /\ UNCHANGED <<context, dma>>
\* Sources are stopped only once nothing can start them again.
Quiet     == ~guest /\ ~dma' /\ UNCHANGED <<context, guest>>
Close     == ~guest /\ ~dma /\ ~context' /\ UNCHANGED <<guest, dma>>

Next == Open \/ RunGuest \/ Drive \/ StopGuest \/ Quiet \/ Close
Spec == Init /\ [][Next]_<<context, guest, dma>>
=============================================================================
