-------------------------- MODULE ExposureContract --------------------------
(***************************************************************************)
(* What admission promises (src/docs/running-an-experiment.md): one guest  *)
(* at a time has the GPU, and a GPU that a guest has used is given to the  *)
(* next one only after a recovery proved it quiet or the host was booted   *)
(* again.                                                                  *)
(***************************************************************************)
CONSTANT Runs

VARIABLES
  exposed,  \* the runs whose guest has the GPU
  used      \* a guest has had it since it was last proved quiet

Init == exposed = {} /\ ~used

Expose  == exposed = {} /\ ~used /\ (\E r \in Runs : exposed' = {r}) /\ used'
Release == exposed' = {} /\ UNCHANGED used
Recover == exposed = {} /\ ~used' /\ UNCHANGED exposed
Reboot  == exposed' = {} /\ ~used'

Next == Expose \/ Release \/ Recover \/ Reboot
Spec == Init /\ [][Next]_<<exposed, used>>
=============================================================================
