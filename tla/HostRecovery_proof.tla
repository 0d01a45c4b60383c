------------------------- MODULE HostRecovery_proof -------------------------
(***************************************************************************)
(* Proofs about HostRecovery, for every set of queues, every assignment of *)
(* them to the two MECs, every bound on the attempts and every choice of   *)
(* units that may ignore writes.                                           *)
(*                                                                         *)
(* The argument.  Each phase of quiesce_gc ends the attempt unless its     *)
(* readback shows the unit down, and no later phase starts one again       *)
(* (UnitsDown).  Once the command processors are halted the firmware that  *)
(* wakes a queue or maps the ring is halted too, so what the scrub and the *)
(* final scan saw stays true (QueuesDown), also after the receipt          *)
(* (Authorized).  Inside the transaction of the temporary queue the order  *)
(* of the steps carries the rest: the marker is read back next to the      *)
(* first store (MarkerOrder), a queue active behind the rescan woke after  *)
(* it (RescanOrder), the fence is raised only by the doorbell of this      *)
(* transaction and only once (FenceOrder), and the cleanup takes every     *)
(* unit down that obeys (CleanOrder).                                      *)
(***************************************************************************)
EXTENDS HostRecovery, TLAPS

(***************************************************************************)
(* The inductive invariant.                                                *)
(***************************************************************************)

\* What is left to do once the command processors are halted, the gates closed,
\* the scrub done, the queues found inactive.
AfterScan  == {"commands", "ihFinal", "receipt"}
AfterScrub == AfterScan \cup {"force", "final"}
AfterClose == AfterScrub \cup {"scrub"}
AfterHalt  == AfterClose \cup {"close"}
AfterSdma  == AfterHalt \cup {"halt"}
AfterKiq   == AfterSdma \cup {"idle", "sdma"}

\* Each phase leaves its unit down, and nothing after it starts one again.
UnitsDown ==
  /\ pc \notin {"idle", "ih"} => "ih" \notin running
  /\ pc \in AfterSdma => "sdma" \notin running
  /\ pc \in AfterHalt => running = {}
  /\ pc \in AfterClose => gates = {}

\* With every engine halted a queue or a ring seen inactive stays inactive.
QueuesDown ==
  /\ pc = "final" => \A q \in Selectors \ left : ~hqd[q]
  /\ pc \in AfterScan => \A q \in Selectors : ~hqd[q]
  /\ pc \in AfterScrub /\ ringClean => gfx = "unmapped"

\* The receipt is the last thing an attempt writes, and no other follows it.
Authorized == receipt = "recovered" => pc = "idle" /\ AuthorizedMeansQuiet

\* The marker is withdrawn once, and seen withdrawn up to the first store.
MarkerOrder ==
  /\ marker = "VALD" => withdrawn = "no"
  /\ pc = "kiqScratch" \/ scratch => withdrawn # "early"

\* A queue that the rescan has passed and that is active is stuck, or woke later.
RescanOrder ==
  /\ pc = "rescan" => \A q \in Selectors \ left : hqd[q] => q \in stuck \cup unseen
  /\ pc \in {"kiqPrepare"} \cup TryPcs => \A q \in Queues : hqd[q] => q \in unseen

\* The ring is not mapped, or was mapped anew by firmware that may do so once.
RingRetired ==
  /\ ~rung /\ gfx # "unmapping"
  /\ gfx = "mapped" => "gfx" \notin restless

\* A fence that is seen is the fence of this transaction, so the packet before it
\* has been executed and is not executed again.
FenceOrder ==
  /\ pc \in {"kiqRecheck", "kiqScratch", "kiqProgram", "kiqGate", "kiqStart"} =>
       running \cap Mecs = {}
  /\ pc \in {"kiqProgram", "kiqGate", "kiqStart", "kiqRing"} => ~fence
  /\ pc \in {"kiqGate", "kiqStart", "kiqRing", "kiqUnmap"} => ~rung
  /\ pc = "kiqWait" => ~(fence /\ rung)
  /\ pc = "kiqRetire" \/ (pc \in CleanPcs /\ ~failure) \/ kiq = "retired" => RingRetired
  /\ kiq # "none" => pc \in AfterKiq

\* The cleanup takes down what obeys, one step after the other.
CleanOrder ==
  /\ pc \in CleanPcs \ {"cleanHalt"} \/ (pc = "sdma" /\ kiq \in {"retired", "failed"}) =>
       running \cap Mecs \subseteq ignores
  /\ pc \in {"cleanGates", "cleanVerify"} \/ (pc = "sdma" /\ kiq \in {"retired", "failed"}) =>
       (hqd[Kiq] => ignores \cap {"hqd", "mec2"} # {})
  /\ pc = "cleanVerify" \/ (pc = "sdma" /\ kiq \in {"retired", "failed"}) =>
       gates \subseteq ignores

IInv ==
  /\ TypeOK /\ UnitsDown /\ QueuesDown /\ Authorized
  /\ MarkerOrder /\ RescanOrder /\ FenceOrder /\ CleanOrder

-----------------------------------------------------------------------------
(***************************************************************************)
(* Every step keeps the invariant, part by part.                           *)
(***************************************************************************)

\* Every step keeps the types.
LEMMA TypeKept == ASSUME TypeOK, [Next]_vars PROVE TypeOK'
<1>1. ASSUME NEW q \in Selectors, Wake(q) PROVE TypeOK'
  BY <1>1 DEF TypeOK, Wake, scanVars, kiqVars, outcomeVars, Engine
<1>2. ASSUME NEW q \in Selectors, Drain(q) PROVE TypeOK'
  BY <1>2 DEF TypeOK, Drain, scanVars, kiqVars, outcomeVars, history, Engine
<1>3. CASE ExecuteKiq
  <2>1. fence' \in BOOLEAN /\ rung' \in BOOLEAN
    BY <1>3 DEF TypeOK, ExecuteKiq
  <2>2. gfx' \in {"mapped", "unmapping", "unmapped"}
    BY <1>3 DEF TypeOK, ExecuteKiq
  <2> QED
    BY <1>3, <2>1, <2>2 DEF TypeOK, ExecuteKiq, scanVars, kiqVars, outcomeVars, history
<1>4. CASE GfxIdle
  BY <1>4 DEF TypeOK, GfxIdle, scanVars, kiqVars, outcomeVars, history
<1>5. CASE WakeGfx
  BY <1>5 DEF TypeOK, WakeGfx, scanVars, kiqVars, outcomeVars, history
<1>6. CASE LateAbort
  BY <1>6 DEF TypeOK, LateAbort, gpuVars, scanVars, kiqVars, outcomeVars
<1>7. CASE Start
  <2>1. needsUnmap' \in BOOLEAN /\ ringClean' \in BOOLEAN
    BY <1>7 DEF TypeOK, Start
  <2>2. failure' \in BOOLEAN /\ scratch' \in BOOLEAN
    BY <1>7 DEF TypeOK, Start
  <2>3. attempts' \in 0..MaxAttempts
    BY <1>7, UnitsAssumption DEF TypeOK, Start
  <2>4. at' \in Selectors /\ left' \subseteq Selectors
    BY <1>7 DEF TypeOK, Start, Selectors
  <2>5. pc' \in Pcs
    BY <1>7 DEF TypeOK, Start, Pcs
  <2>6. stuck' \subseteq Selectors /\ unseen' \subseteq Selectors
    BY <1>7 DEF TypeOK, Start
  <2>7. kiq' = "none"
    BY <1>7 DEF TypeOK, Start
  <2> QED
    BY <1>7, <2>1, <2>2, <2>3, <2>4, <2>5, <2>6, <2>7 DEF TypeOK, Start, gpuVars
<1>8. CASE StopIh
  BY <1>8 DEF TypeOK, Pcs, TryPcs, CleanPcs, StopIh, Halt, Raise, scanVars, kiqVars,
    outcomeVars, history
<1>9. CASE Authenticate
  BY <1>9 DEF TypeOK, Pcs, TryPcs, CleanPcs, Authenticate, ReadMarker, Raise, gpuVars,
    scanVars, kiqVars, outcomeVars, history
<1>10. CASE Recheck
  BY <1>10 DEF TypeOK, Pcs, TryPcs, CleanPcs, Recheck, ReadMarker, Raise, gpuVars, scanVars,
    kiqVars, outcomeVars, history
<1>11. CASE Snapshot
  BY <1>11 DEF TypeOK, Pcs, TryPcs, CleanPcs, Snapshot, gpuVars, scanVars, kiqVars, history
<1>12. CASE ClosePolling
  BY <1>12 DEF TypeOK, Pcs, TryPcs, CleanPcs, ClosePolling, Shut, Raise, kiqVars,
    outcomeVars, history
<1>13. CASE PollDequeue
  BY <1>13 DEF TypeOK, Pcs, TryPcs, CleanPcs, PollDequeue, kiqVars, outcomeVars, history
<1>14. CASE EndScan
  BY <1>14 DEF TypeOK, Pcs, TryPcs, CleanPcs, EndScan, gpuVars, kiqVars, outcomeVars, history
<1>15. CASE ChooseRetirement
  BY <1>15 DEF TypeOK, Pcs, TryPcs, CleanPcs, ChooseRetirement, gpuVars, scanVars,
    outcomeVars, history
<1>16. CASE KiqPrepare
  BY <1>16 DEF TypeOK, Pcs, TryPcs, CleanPcs, KiqPrepare, gpuVars, scanVars, outcomeVars,
    history
<1>17. CASE KiqHalt
  <2>1. pc' \in Pcs /\ failure' \in BOOLEAN
    BY <1>17 DEF TypeOK, KiqHalt, Fail, Pcs, TryPcs, CleanPcs
  <2>2. running' \subseteq Engines
    BY <1>17 DEF TypeOK, KiqHalt, Halt
  <2> QED
    BY <1>17, <2>1, <2>2 DEF TypeOK, KiqHalt, scanVars, outcomeVars, history
<1>18. CASE KiqRecheck
  <2>1. pc' \in Pcs /\ failure' \in BOOLEAN
    BY <1>18 DEF TypeOK, KiqRecheck, Fail, Pcs, TryPcs, CleanPcs
  <2> QED
    BY <1>18, <2>1 DEF TypeOK, KiqRecheck, gpuVars, scanVars, outcomeVars, history
<1>19. CASE KiqScratch
  <2>1. pc' \in Pcs /\ failure' \in BOOLEAN
    BY <1>19 DEF TypeOK, KiqScratch, Fail, Pcs, TryPcs, CleanPcs
  <2>2. scratch' \in BOOLEAN /\ fence' \in BOOLEAN
    BY <1>19 DEF TypeOK, KiqScratch
  <2> QED
    BY <1>19, <2>1, <2>2 DEF TypeOK, KiqScratch, scanVars, outcomeVars, history
<1>20. CASE KiqProgram
  <2>1. pc' \in Pcs /\ failure' \in BOOLEAN
    BY <1>20 DEF TypeOK, KiqProgram, Fail, Pcs, TryPcs, CleanPcs
  <2>2. gates' \subseteq Gates
    BY <1>20 DEF TypeOK, KiqProgram, Shut
  <2>3. hqd' \in [Selectors -> BOOLEAN]
    BY <1>20 DEF TypeOK, KiqProgram
  <2>4. rung' \in BOOLEAN
    BY <1>20 DEF TypeOK, KiqProgram
  <2> QED
    BY <1>20, <2>1, <2>2, <2>3, <2>4 DEF TypeOK, KiqProgram, scanVars, outcomeVars, history
<1>21. CASE KiqGate
  <2>1. pc' \in Pcs /\ failure' \in BOOLEAN
    BY <1>21 DEF TypeOK, KiqGate, Fail, Pcs, TryPcs, CleanPcs
  <2>2. gates' \subseteq Gates
    BY <1>21 DEF TypeOK, KiqGate, Gates
  <2> QED
    BY <1>21, <2>1, <2>2 DEF TypeOK, KiqGate, scanVars, outcomeVars, history
<1>22. CASE KiqStart
  <2>1. pc' \in Pcs /\ failure' \in BOOLEAN
    BY <1>22 DEF TypeOK, KiqStart, Fail, Pcs, TryPcs, CleanPcs
  <2>2. running' \subseteq Engines
    BY <1>22 DEF TypeOK, KiqStart, Engines
  <2> QED
    BY <1>22, <2>1, <2>2 DEF TypeOK, KiqStart, scanVars, outcomeVars, history
<1>23. CASE KiqRing
  <2>1. pc' \in Pcs /\ failure' \in BOOLEAN
    BY <1>23 DEF TypeOK, KiqRing, Fail, Pcs, TryPcs, CleanPcs
  <2>2. rung' \in BOOLEAN
    BY <1>23 DEF TypeOK, KiqRing
  <2> QED
    BY <1>23, <2>1, <2>2 DEF TypeOK, KiqRing, scanVars, outcomeVars, history
<1>24. CASE KiqFence
  <2>1. pc' \in Pcs /\ failure' \in BOOLEAN
    BY <1>24 DEF TypeOK, KiqFence, Fail, Pcs, TryPcs, CleanPcs
  <2> QED
    BY <1>24, <2>1 DEF TypeOK, KiqFence, gpuVars, scanVars, outcomeVars, history
<1>25. CASE KiqUnmap
  <2>1. pc' \in Pcs /\ failure' \in BOOLEAN
    BY <1>25 DEF TypeOK, KiqUnmap, Fail, Pcs, TryPcs, CleanPcs
  <2>2. dequeue' \subseteq Selectors
    BY <1>25 DEF TypeOK, KiqUnmap, Selectors
  <2> QED
    BY <1>25, <2>1, <2>2 DEF TypeOK, KiqUnmap, scanVars, outcomeVars, history
<1>26. CASE KiqRetire
  <2>1. pc' \in Pcs /\ failure' \in BOOLEAN
    BY <1>26 DEF TypeOK, KiqRetire, Fail, Pcs, TryPcs, CleanPcs
  <2> QED
    BY <1>26, <2>1 DEF TypeOK, KiqRetire, gpuVars, scanVars, outcomeVars, history
<1>27. CASE KiqFault
  <2>1. pc' \in Pcs /\ failure' \in BOOLEAN
    BY <1>27 DEF TypeOK, KiqFault, Fail, Pcs, TryPcs, CleanPcs
  <2> QED
    BY <1>27, <2>1 DEF TypeOK, KiqFault, gpuVars, scanVars, outcomeVars, history
<1>28. CASE CleanHalt
  BY <1>28 DEF TypeOK, Pcs, TryPcs, CleanPcs, CleanHalt, Halt, scanVars, kiqVars,
    outcomeVars, history
<1>29. CASE CleanQueue
  <2>1. hqd' \in [Selectors -> BOOLEAN]
    BY <1>29 DEF TypeOK, CleanQueue, Deactivate, StillOn
  <2>2. rung' \in BOOLEAN /\ dequeue' \subseteq Selectors
    BY <1>29 DEF TypeOK, CleanQueue
  <2>3. pc' \in Pcs
    BY <1>29 DEF TypeOK, CleanQueue, Pcs, CleanPcs
  <2> QED
    BY <1>29, <2>1, <2>2, <2>3 DEF TypeOK, CleanQueue, scanVars, kiqVars, outcomeVars, history
<1>30. CASE CleanGates
  BY <1>30 DEF TypeOK, Pcs, TryPcs, CleanPcs, CleanGates, Shut, scanVars, kiqVars,
    outcomeVars, history
<1>31. CASE CleanVerify
  BY <1>31 DEF TypeOK, Pcs, TryPcs, CleanPcs, CleanVerify, gpuVars, scanVars, outcomeVars,
    history
<1>32. CASE StopSdma
  BY <1>32 DEF TypeOK, Pcs, TryPcs, CleanPcs, StopSdma, HaltPhase, Halt, Raise, scanVars,
    kiqVars, outcomeVars, history
<1>33. CASE HaltCps
  BY <1>33 DEF TypeOK, Pcs, TryPcs, CleanPcs, HaltCps, HaltPhase, Halt, Raise, scanVars,
    kiqVars, outcomeVars, history
<1>34. CASE CloseGates
  BY <1>34 DEF TypeOK, Pcs, TryPcs, CleanPcs, CloseGates, Shut, Raise, scanVars, kiqVars,
    outcomeVars, history
<1>35. CASE Scrub
  BY <1>35 DEF TypeOK, Pcs, TryPcs, CleanPcs, Scrub, gpuVars, kiqVars, history
<1>36. CASE EndForce
  BY <1>36 DEF TypeOK, Pcs, TryPcs, CleanPcs, EndForce, gpuVars, kiqVars, outcomeVars,
    history
<1>37. CASE EndFinal
  BY <1>37 DEF TypeOK, Pcs, TryPcs, CleanPcs, EndFinal, gpuVars, scanVars, kiqVars,
    outcomeVars, history
<1>38. CASE Commands
  BY <1>38 DEF TypeOK, Pcs, TryPcs, CleanPcs, Commands, gpuVars, scanVars, kiqVars,
    outcomeVars, history
<1>39. CASE InspectIh
  BY <1>39 DEF TypeOK, Pcs, TryPcs, CleanPcs, InspectIh, Raise, gpuVars, scanVars, kiqVars,
    outcomeVars, history
<1>40. CASE WriteReceipt
  BY <1>40 DEF TypeOK, Pcs, TryPcs, CleanPcs, WriteReceipt, gpuVars, scanVars, kiqVars,
    history
<1>41. CASE Abandon
  BY <1>41 DEF TypeOK, Pcs, TryPcs, CleanPcs, Abandon, Raise, gpuVars, scanVars, kiqVars,
    outcomeVars, history
<1>42. ASSUME NEW q \in Selectors, Inspect(q) PROVE TypeOK'
  BY <1>42 DEF TypeOK, Pcs, TryPcs, CleanPcs, Inspect, kiqVars, outcomeVars, history
<1>43. ASSUME NEW q \in Selectors, Rescan(q) PROVE TypeOK'
  BY <1>43 DEF TypeOK, Rescan, gpuVars, kiqVars, outcomeVars, history
<1>44. ASSUME NEW q \in Selectors, ForceInactive(q) PROVE TypeOK'
  BY <1>44 DEF TypeOK, Pcs, TryPcs, CleanPcs, ForceInactive, Deactivate, StillOn, Raise,
    kiqVars, outcomeVars
<1>45. ASSUME NEW q \in Selectors, FinalScan(q) PROVE TypeOK'
  BY <1>45 DEF TypeOK, Pcs, TryPcs, CleanPcs, FinalScan, Raise, gpuVars, kiqVars,
    outcomeVars, history
<1>46. CASE UNCHANGED vars
  BY <1>46 DEF TypeOK, vars, gpuVars, scanVars, kiqVars, outcomeVars, history
<1> QED
  BY <1>1, <1>2, <1>3, <1>4, <1>5, <1>6, <1>7, <1>8, <1>9, <1>10, <1>11, <1>12, <1>13, <1>14,
    <1>15, <1>16, <1>17, <1>18, <1>19, <1>20, <1>21, <1>22, <1>23, <1>24, <1>25, <1>26,
    <1>27, <1>28, <1>29, <1>30, <1>31, <1>32, <1>33, <1>34, <1>35, <1>36, <1>37, <1>38,
    <1>39, <1>40, <1>41, <1>42, <1>43, <1>44, <1>45, <1>46 DEF Next, Gpu, Host, Transaction

\* Each phase leaves its engines halted or its gates closed, or the attempt ends.
LEMMA UnitsDownKept == ASSUME IInv, [Next]_vars PROVE UnitsDown'
<1>1. ASSUME NEW q \in Selectors, Wake(q) \/ Drain(q) PROVE UnitsDown'
  BY <1>1 DEF IInv, UnitsDown, TryPcs, CleanPcs, Mecs, Engines, Gates, TypeOK, AfterScan,
    AfterScrub, AfterClose, AfterHalt, AfterSdma, Wake, Drain, scanVars, kiqVars,
    outcomeVars, Engine, history
<1>2. CASE ExecuteKiq \/ GfxIdle \/ WakeGfx \/ LateAbort
  BY <1>2 DEF IInv, UnitsDown, TryPcs, CleanPcs, Mecs, Engines, Gates, TypeOK, AfterScan,
    AfterScrub, AfterClose, AfterHalt, AfterSdma, ExecuteKiq, GfxIdle, WakeGfx, LateAbort,
    scanVars, kiqVars, outcomeVars, history, gpuVars
<1>3. CASE Start \/ Authenticate \/ Recheck \/ Snapshot
  BY <1>3 DEF IInv, UnitsDown, TryPcs, CleanPcs, Mecs, Engines, Gates, TypeOK, AfterScan,
    AfterScrub, AfterClose, AfterHalt, AfterSdma, Start, Authenticate, Recheck, Snapshot,
    gpuVars, ReadMarker, Raise, scanVars, kiqVars, outcomeVars, history
<1>4. CASE PollDequeue \/ EndScan \/ ChooseRetirement \/ KiqPrepare
  BY <1>4 DEF IInv, UnitsDown, TryPcs, CleanPcs, Mecs, Engines, Gates, TypeOK, AfterScan,
    AfterScrub, AfterClose, AfterHalt, AfterSdma, PollDequeue, EndScan, ChooseRetirement,
    KiqPrepare, kiqVars, outcomeVars, history, gpuVars, scanVars
<1>5. CASE KiqHalt \/ KiqRecheck \/ KiqScratch \/ KiqRing
  BY <1>5 DEF IInv, UnitsDown, TryPcs, CleanPcs, Mecs, Engines, Gates, TypeOK, AfterScan,
    AfterScrub, AfterClose, AfterHalt, AfterSdma, KiqHalt, KiqRecheck, KiqScratch, KiqRing,
    Halt, Fail, scanVars, outcomeVars, history, gpuVars
<1>6. CASE KiqFence \/ KiqUnmap \/ KiqRetire \/ KiqFault
  BY <1>6 DEF IInv, UnitsDown, TryPcs, CleanPcs, Mecs, Engines, Gates, TypeOK, AfterScan,
    AfterScrub, AfterClose, AfterHalt, AfterSdma, KiqFence, KiqUnmap, KiqRetire, KiqFault,
    Fail, gpuVars, scanVars, outcomeVars, history
<1>7. CASE CleanHalt \/ CleanQueue \/ CleanGates \/ CleanVerify
  BY <1>7 DEF IInv, UnitsDown, TryPcs, CleanPcs, Mecs, Engines, Gates, TypeOK, AfterScan,
    AfterScrub, AfterClose, AfterHalt, AfterSdma, CleanHalt, CleanQueue, CleanGates,
    CleanVerify, Halt, scanVars, kiqVars, outcomeVars, history, Deactivate, StillOn, Shut,
    gpuVars
<1>8. CASE EndForce \/ EndFinal \/ Commands \/ InspectIh
  BY <1>8 DEF IInv, UnitsDown, TryPcs, CleanPcs, Mecs, Engines, Gates, TypeOK, AfterScan,
    AfterScrub, AfterClose, AfterHalt, AfterSdma, EndForce, EndFinal, Commands, InspectIh,
    gpuVars, kiqVars, outcomeVars, history, scanVars, Raise
<1>9. CASE WriteReceipt \/ Abandon
  BY <1>9 DEF IInv, UnitsDown, TryPcs, CleanPcs, Mecs, Engines, Gates, TypeOK, AfterScan,
    AfterScrub, AfterClose, AfterHalt, AfterSdma, WriteReceipt, Abandon, gpuVars, scanVars,
    kiqVars, history, Raise, outcomeVars
<1>10. ASSUME NEW q \in Selectors, Inspect(q) \/ Rescan(q) \/ ForceInactive(q) \/
  FinalScan(q) PROVE UnitsDown'
  BY <1>10 DEF IInv, UnitsDown, TryPcs, CleanPcs, Mecs, Engines, Gates, TypeOK, AfterScan,
    AfterScrub, AfterClose, AfterHalt, AfterSdma, Inspect, Rescan, ForceInactive, FinalScan,
    kiqVars, outcomeVars, history, gpuVars, Deactivate, StillOn, Raise
<1>11. CASE StopIh
  BY <1>11 DEF IInv, UnitsDown, TryPcs, CleanPcs, Mecs, Engines, Gates, TypeOK, AfterScan,
    AfterScrub, AfterClose, AfterHalt, AfterSdma, StopIh, Halt, Raise, scanVars, kiqVars,
    outcomeVars, history
<1>12. CASE ClosePolling
  BY <1>12 DEF IInv, UnitsDown, TryPcs, CleanPcs, Mecs, Engines, Gates, TypeOK, AfterScan,
    AfterScrub, AfterClose, AfterHalt, AfterSdma, ClosePolling, Shut, Raise, kiqVars,
    outcomeVars, history
<1>13. CASE KiqProgram
  BY <1>13 DEF IInv, UnitsDown, TryPcs, CleanPcs, Mecs, Engines, Gates, TypeOK, AfterScan,
    AfterScrub, AfterClose, AfterHalt, AfterSdma, KiqProgram, Fail, Shut, scanVars,
    outcomeVars, history
<1>14. CASE KiqGate
  BY <1>14 DEF IInv, UnitsDown, TryPcs, CleanPcs, Mecs, Engines, Gates, TypeOK, AfterScan,
    AfterScrub, AfterClose, AfterHalt, AfterSdma, KiqGate, Fail, scanVars, outcomeVars,
    history
<1>15. CASE KiqStart
  BY <1>15 DEF IInv, UnitsDown, TryPcs, CleanPcs, Mecs, Engines, Gates, TypeOK, AfterScan,
    AfterScrub, AfterClose, AfterHalt, AfterSdma, KiqStart, Fail, scanVars, outcomeVars,
    history
<1>16. CASE StopSdma
  BY <1>16 DEF IInv, UnitsDown, TryPcs, CleanPcs, Mecs, Engines, Gates, TypeOK, AfterScan,
    AfterScrub, AfterClose, AfterHalt, AfterSdma, StopSdma, HaltPhase, Halt, Raise, scanVars,
    kiqVars, outcomeVars, history
<1>17. CASE HaltCps
  <2>1. /\ running' \subseteq running /\ gates' = gates
        /\ \/ pc' = "close" /\ running' \cap ({"me"} \cup Mecs) = {}
           \/ pc' = "idle"
    BY <1>17 DEF HaltCps, HaltPhase, Halt, Raise
  <2>2. running \subseteq Engines /\ "ih" \notin running /\ "sdma" \notin running
    BY <1>17 DEF IInv, TypeOK, UnitsDown, HaltCps, HaltPhase, AfterSdma
  <2>3. pc' = "close" => running' = {}
    BY <2>1, <2>2 DEF Engines, Mecs
  <2>4. pc' = "close" \/ pc' = "idle"
    BY <2>1
  <2> QED
    BY <2>1, <2>2, <2>3, <2>4
       DEF UnitsDown, AfterScan, AfterScrub, AfterClose, AfterHalt, AfterSdma
<1>18. CASE CloseGates
  BY <1>18 DEF IInv, UnitsDown, TryPcs, CleanPcs, Mecs, Engines, Gates, TypeOK, AfterScan,
    AfterScrub, AfterClose, AfterHalt, AfterSdma, CloseGates, Shut, Raise, scanVars, kiqVars,
    outcomeVars, history
<1>19. CASE Scrub
  BY <1>19 DEF IInv, UnitsDown, TryPcs, CleanPcs, Mecs, Engines, Gates, TypeOK, AfterScan,
    AfterScrub, AfterClose, AfterHalt, AfterSdma, Scrub, gpuVars, kiqVars, history
<1>20. CASE UNCHANGED vars
  BY <1>20 DEF IInv, UnitsDown, TryPcs, CleanPcs, Mecs, Engines, Gates, TypeOK, AfterScan,
    AfterScrub, AfterClose, AfterHalt, AfterSdma, vars, gpuVars, scanVars, kiqVars,
    outcomeVars, history
<1> QED
  BY <1>1, <1>2, <1>3, <1>4, <1>5, <1>6, <1>7, <1>8, <1>9, <1>10, <1>11, <1>12, <1>13, <1>14,
    <1>15, <1>16, <1>17, <1>18, <1>19, <1>20 DEF Next, Gpu, Host, Transaction

\* With the engines halted, what the scrub and the final scan saw stays so.
LEMMA QueuesDownKept == ASSUME IInv, [Next]_vars PROVE QueuesDown'
<1>1. CASE GfxIdle \/ LateAbort \/ Start \/ StopIh
  BY <1>1 DEF IInv, UnitsDown, QueuesDown, TypeOK, TryPcs, CleanPcs, Selectors, AfterScan,
    AfterScrub, AfterClose, AfterHalt, AfterSdma, GfxIdle, LateAbort, Start, StopIh,
    scanVars, kiqVars, outcomeVars, history, gpuVars, Halt, Raise
<1>2. CASE Authenticate \/ Recheck \/ Snapshot \/ ClosePolling
  BY <1>2 DEF IInv, UnitsDown, QueuesDown, TypeOK, TryPcs, CleanPcs, Selectors, AfterScan,
    AfterScrub, AfterClose, AfterHalt, AfterSdma, Authenticate, Recheck, Snapshot,
    ClosePolling, ReadMarker, Raise, gpuVars, scanVars, kiqVars, outcomeVars, history, Shut
<1>3. CASE PollDequeue \/ EndScan \/ ChooseRetirement \/ KiqPrepare
  BY <1>3 DEF IInv, UnitsDown, QueuesDown, TypeOK, TryPcs, CleanPcs, Selectors, AfterScan,
    AfterScrub, AfterClose, AfterHalt, AfterSdma, PollDequeue, EndScan, ChooseRetirement,
    KiqPrepare, kiqVars, outcomeVars, history, gpuVars, scanVars
<1>4. CASE KiqHalt \/ KiqRecheck \/ KiqScratch \/ KiqGate
  BY <1>4 DEF IInv, UnitsDown, QueuesDown, TypeOK, TryPcs, CleanPcs, Selectors, AfterScan,
    AfterScrub, AfterClose, AfterHalt, AfterSdma, KiqHalt, KiqRecheck, KiqScratch, KiqGate,
    Halt, Fail, scanVars, outcomeVars, history, gpuVars
<1>5. CASE KiqStart \/ KiqRing \/ KiqFence \/ KiqUnmap
  BY <1>5 DEF IInv, UnitsDown, QueuesDown, TypeOK, TryPcs, CleanPcs, Selectors, AfterScan,
    AfterScrub, AfterClose, AfterHalt, AfterSdma, KiqStart, KiqRing, KiqFence, KiqUnmap,
    Fail, scanVars, outcomeVars, history, gpuVars
<1>6. CASE KiqRetire \/ KiqFault \/ CleanHalt \/ CleanGates
  BY <1>6 DEF IInv, UnitsDown, QueuesDown, TypeOK, TryPcs, CleanPcs, Selectors, AfterScan,
    AfterScrub, AfterClose, AfterHalt, AfterSdma, KiqRetire, KiqFault, CleanHalt, CleanGates,
    Fail, gpuVars, scanVars, outcomeVars, history, Halt, kiqVars, Shut
<1>7. CASE CleanVerify \/ StopSdma \/ HaltCps \/ CloseGates
  BY <1>7 DEF IInv, UnitsDown, QueuesDown, TypeOK, TryPcs, CleanPcs, Selectors, AfterScan,
    AfterScrub, AfterClose, AfterHalt, AfterSdma, CleanVerify, StopSdma, HaltCps, CloseGates,
    gpuVars, scanVars, outcomeVars, history, HaltPhase, Halt, Raise, kiqVars, Shut
<1>8. CASE Commands \/ InspectIh \/ WriteReceipt \/ Abandon
  BY <1>8 DEF IInv, UnitsDown, QueuesDown, TypeOK, TryPcs, CleanPcs, Selectors, AfterScan,
    AfterScrub, AfterClose, AfterHalt, AfterSdma, Commands, InspectIh, WriteReceipt, Abandon,
    gpuVars, scanVars, kiqVars, outcomeVars, history, Raise
<1>9. ASSUME NEW q \in Selectors, Inspect(q) \/ Rescan(q) \/ ForceInactive(q) PROVE
  QueuesDown'
  BY <1>9 DEF IInv, UnitsDown, QueuesDown, TypeOK, TryPcs, CleanPcs, Selectors, AfterScan,
    AfterScrub, AfterClose, AfterHalt, AfterSdma, Inspect, Rescan, ForceInactive, kiqVars,
    outcomeVars, history, gpuVars, Deactivate, StillOn, Raise
<1>10. ASSUME NEW q \in Selectors, Wake(q) PROVE QueuesDown'
  BY <1>10 DEF IInv, UnitsDown, QueuesDown, TypeOK, TryPcs, CleanPcs, Selectors, AfterScan,
    AfterScrub, AfterClose, AfterHalt, AfterSdma, Wake, scanVars, kiqVars, outcomeVars,
    Engine
<1>11. ASSUME NEW q \in Selectors, Drain(q) PROVE QueuesDown'
  BY <1>11 DEF IInv, UnitsDown, QueuesDown, TypeOK, TryPcs, CleanPcs, Selectors, AfterScan,
    AfterScrub, AfterClose, AfterHalt, AfterSdma, Drain, scanVars, kiqVars, outcomeVars,
    history, Engine
<1>12. CASE ExecuteKiq
  BY <1>12 DEF IInv, UnitsDown, QueuesDown, TypeOK, TryPcs, CleanPcs, Selectors, AfterScan,
    AfterScrub, AfterClose, AfterHalt, AfterSdma, ExecuteKiq, scanVars, kiqVars, outcomeVars,
    history
<1>13. CASE WakeGfx
  BY <1>13 DEF IInv, UnitsDown, QueuesDown, TypeOK, TryPcs, CleanPcs, Selectors, AfterScan,
    AfterScrub, AfterClose, AfterHalt, AfterSdma, WakeGfx, scanVars, kiqVars, outcomeVars,
    history
<1>14. CASE KiqProgram
  BY <1>14 DEF IInv, UnitsDown, QueuesDown, TypeOK, TryPcs, CleanPcs, Selectors, AfterScan,
    AfterScrub, AfterClose, AfterHalt, AfterSdma, KiqProgram, Fail, Shut, scanVars,
    outcomeVars, history
<1>15. CASE CleanQueue
  BY <1>15 DEF IInv, UnitsDown, QueuesDown, TypeOK, TryPcs, CleanPcs, Selectors, AfterScan,
    AfterScrub, AfterClose, AfterHalt, AfterSdma, CleanQueue, Deactivate, StillOn, scanVars,
    kiqVars, outcomeVars, history
<1>16. CASE Scrub
  BY <1>16 DEF IInv, UnitsDown, QueuesDown, TypeOK, TryPcs, CleanPcs, Selectors, AfterScan,
    AfterScrub, AfterClose, AfterHalt, AfterSdma, Scrub, gpuVars, kiqVars, history
<1>17. CASE EndForce
  BY <1>17 DEF IInv, UnitsDown, QueuesDown, TypeOK, TryPcs, CleanPcs, Selectors, AfterScan,
    AfterScrub, AfterClose, AfterHalt, AfterSdma, EndForce, gpuVars, kiqVars, outcomeVars,
    history
<1>18. CASE EndFinal
  BY <1>18 DEF IInv, UnitsDown, QueuesDown, TypeOK, TryPcs, CleanPcs, Selectors, AfterScan,
    AfterScrub, AfterClose, AfterHalt, AfterSdma, EndFinal, gpuVars, scanVars, kiqVars,
    outcomeVars, history
<1>19. ASSUME NEW q \in Selectors, FinalScan(q) PROVE QueuesDown'
  BY <1>19 DEF IInv, UnitsDown, QueuesDown, TypeOK, TryPcs, CleanPcs, Selectors, AfterScan,
    AfterScrub, AfterClose, AfterHalt, AfterSdma, FinalScan, Raise, gpuVars, kiqVars,
    outcomeVars, history
<1>20. CASE UNCHANGED vars
  BY <1>20 DEF IInv, UnitsDown, QueuesDown, TypeOK, TryPcs, CleanPcs, Selectors, AfterScan,
    AfterScrub, AfterClose, AfterHalt, AfterSdma, vars, gpuVars, scanVars, kiqVars,
    outcomeVars, history
<1> QED
  BY <1>1, <1>2, <1>3, <1>4, <1>5, <1>6, <1>7, <1>8, <1>9, <1>10, <1>11, <1>12, <1>13, <1>14,
    <1>15, <1>16, <1>17, <1>18, <1>19, <1>20 DEF Next, Gpu, Host, Transaction

\* The receipt is written on what was proved, and nothing wakes after it.
LEMMA AuthorizedKept == ASSUME IInv, [Next]_vars PROVE Authorized'
<1>1. ASSUME NEW q \in Selectors, Drain(q) PROVE Authorized'
  BY <1>1 DEF IInv, UnitsDown, QueuesDown, Authorized, AuthorizedMeansQuiet, SafeForReuse,
    TryPcs, AfterScan, AfterScrub, AfterClose, AfterHalt, AfterSdma, Drain, scanVars,
    kiqVars, outcomeVars, history, Engine
<1>2. CASE ExecuteKiq \/ GfxIdle \/ LateAbort \/ StopIh
  BY <1>2 DEF IInv, UnitsDown, QueuesDown, Authorized, AuthorizedMeansQuiet, SafeForReuse,
    TryPcs, AfterScan, AfterScrub, AfterClose, AfterHalt, AfterSdma, ExecuteKiq, GfxIdle,
    LateAbort, StopIh, scanVars, kiqVars, outcomeVars, history, gpuVars, Halt, Raise
<1>3. CASE Authenticate \/ Recheck \/ Snapshot \/ ClosePolling
  BY <1>3 DEF IInv, UnitsDown, QueuesDown, Authorized, AuthorizedMeansQuiet, SafeForReuse,
    TryPcs, AfterScan, AfterScrub, AfterClose, AfterHalt, AfterSdma, Authenticate, Recheck,
    Snapshot, ClosePolling, ReadMarker, Raise, gpuVars, scanVars, kiqVars, outcomeVars,
    history, Shut
<1>4. CASE PollDequeue \/ EndScan \/ ChooseRetirement \/ KiqPrepare
  BY <1>4 DEF IInv, UnitsDown, QueuesDown, Authorized, AuthorizedMeansQuiet, SafeForReuse,
    TryPcs, AfterScan, AfterScrub, AfterClose, AfterHalt, AfterSdma, PollDequeue, EndScan,
    ChooseRetirement, KiqPrepare, kiqVars, outcomeVars, history, gpuVars, scanVars
<1>5. CASE KiqHalt \/ KiqRecheck \/ KiqScratch \/ KiqGate
  BY <1>5 DEF IInv, UnitsDown, QueuesDown, Authorized, AuthorizedMeansQuiet, SafeForReuse,
    TryPcs, AfterScan, AfterScrub, AfterClose, AfterHalt, AfterSdma, KiqHalt, KiqRecheck,
    KiqScratch, KiqGate, Halt, Fail, scanVars, outcomeVars, history, gpuVars
<1>6. CASE KiqStart \/ KiqRing \/ KiqFence \/ KiqUnmap
  BY <1>6 DEF IInv, UnitsDown, QueuesDown, Authorized, AuthorizedMeansQuiet, SafeForReuse,
    TryPcs, AfterScan, AfterScrub, AfterClose, AfterHalt, AfterSdma, KiqStart, KiqRing,
    KiqFence, KiqUnmap, Fail, scanVars, outcomeVars, history, gpuVars
<1>7. CASE KiqRetire \/ KiqFault \/ CleanHalt \/ CleanQueue
  BY <1>7 DEF IInv, UnitsDown, QueuesDown, Authorized, AuthorizedMeansQuiet, SafeForReuse,
    TryPcs, AfterScan, AfterScrub, AfterClose, AfterHalt, AfterSdma, KiqRetire, KiqFault,
    CleanHalt, CleanQueue, Fail, gpuVars, scanVars, outcomeVars, history, Halt, kiqVars,
    Deactivate, StillOn
<1>8. CASE CleanGates \/ CleanVerify \/ StopSdma \/ HaltCps
  BY <1>8 DEF IInv, UnitsDown, QueuesDown, Authorized, AuthorizedMeansQuiet, SafeForReuse,
    TryPcs, AfterScan, AfterScrub, AfterClose, AfterHalt, AfterSdma, CleanGates, CleanVerify,
    StopSdma, HaltCps, Shut, scanVars, kiqVars, outcomeVars, history, gpuVars, HaltPhase,
    Halt, Raise
<1>9. CASE CloseGates \/ Scrub \/ EndForce \/ EndFinal
  BY <1>9 DEF IInv, UnitsDown, QueuesDown, Authorized, AuthorizedMeansQuiet, SafeForReuse,
    TryPcs, AfterScan, AfterScrub, AfterClose, AfterHalt, AfterSdma, CloseGates, Scrub,
    EndForce, EndFinal, Shut, Raise, scanVars, kiqVars, outcomeVars, history, gpuVars
<1>10. CASE Commands \/ InspectIh \/ Abandon
  BY <1>10 DEF IInv, UnitsDown, QueuesDown, Authorized, AuthorizedMeansQuiet, SafeForReuse,
    TryPcs, AfterScan, AfterScrub, AfterClose, AfterHalt, AfterSdma, Commands, InspectIh,
    Abandon, gpuVars, scanVars, kiqVars, outcomeVars, history, Raise
<1>11. ASSUME NEW q \in Selectors, Inspect(q) \/ Rescan(q) \/ ForceInactive(q) \/
  FinalScan(q) PROVE Authorized'
  BY <1>11 DEF IInv, UnitsDown, QueuesDown, Authorized, AuthorizedMeansQuiet, SafeForReuse,
    TryPcs, AfterScan, AfterScrub, AfterClose, AfterHalt, AfterSdma, Inspect, Rescan,
    ForceInactive, FinalScan, kiqVars, outcomeVars, history, gpuVars, Deactivate, StillOn,
    Raise
<1>12. ASSUME NEW q \in Selectors, Wake(q) PROVE Authorized'
  BY <1>12 DEF IInv, UnitsDown, QueuesDown, Authorized, AuthorizedMeansQuiet, SafeForReuse,
    TryPcs, AfterScan, AfterScrub, AfterClose, AfterHalt, AfterSdma, Wake, scanVars, kiqVars,
    outcomeVars, Engine
<1>13. CASE WakeGfx
  BY <1>13 DEF IInv, UnitsDown, QueuesDown, Authorized, AuthorizedMeansQuiet, SafeForReuse,
    TryPcs, AfterScan, AfterScrub, AfterClose, AfterHalt, AfterSdma, WakeGfx, scanVars,
    kiqVars, outcomeVars, history
<1>14. CASE Start
  BY <1>14 DEF IInv, UnitsDown, QueuesDown, Authorized, AuthorizedMeansQuiet, SafeForReuse,
    TryPcs, AfterScan, AfterScrub, AfterClose, AfterHalt, AfterSdma, Start, gpuVars
<1>15. CASE KiqProgram
  BY <1>15 DEF IInv, UnitsDown, QueuesDown, Authorized, AuthorizedMeansQuiet, SafeForReuse,
    TryPcs, AfterScan, AfterScrub, AfterClose, AfterHalt, AfterSdma, KiqProgram, Fail, Shut,
    scanVars, outcomeVars, history
<1>16. CASE WriteReceipt
  BY <1>16 DEF IInv, UnitsDown, QueuesDown, Authorized, AuthorizedMeansQuiet, SafeForReuse,
    TryPcs, AfterScan, AfterScrub, AfterClose, AfterHalt, AfterSdma, WriteReceipt, gpuVars,
    scanVars, kiqVars, history
<1>17. CASE UNCHANGED vars
  BY <1>17 DEF IInv, UnitsDown, QueuesDown, Authorized, AuthorizedMeansQuiet, SafeForReuse,
    TryPcs, AfterScan, AfterScrub, AfterClose, AfterHalt, AfterSdma, vars, gpuVars, scanVars,
    kiqVars, outcomeVars, history
<1> QED
  BY <1>1, <1>2, <1>3, <1>4, <1>5, <1>6, <1>7, <1>8, <1>9, <1>10, <1>11, <1>12, <1>13, <1>14,
    <1>15, <1>16, <1>17 DEF Next, Gpu, Host, Transaction

\* A withdrawal before the last readback of the marker is seen there.
LEMMA MarkerOrderKept == ASSUME IInv, [Next]_vars PROVE MarkerOrder'
<1>1. ASSUME NEW q \in Selectors, Wake(q) \/ Drain(q) PROVE MarkerOrder'
  BY <1>1 DEF IInv, TypeOK, MarkerOrder, TryPcs, Wake, Drain, scanVars, kiqVars, outcomeVars,
    Engine, history
<1>2. CASE ExecuteKiq \/ GfxIdle \/ WakeGfx \/ StopIh
  BY <1>2 DEF IInv, TypeOK, MarkerOrder, TryPcs, ExecuteKiq, GfxIdle, WakeGfx, StopIh,
    scanVars, kiqVars, outcomeVars, history, Halt, Raise
<1>3. CASE Authenticate \/ Recheck \/ Snapshot \/ ClosePolling
  BY <1>3 DEF IInv, TypeOK, MarkerOrder, TryPcs, Authenticate, Recheck, Snapshot,
    ClosePolling, ReadMarker, Raise, gpuVars, scanVars, kiqVars, outcomeVars, history, Shut
<1>4. CASE PollDequeue \/ EndScan \/ ChooseRetirement \/ KiqPrepare
  BY <1>4 DEF IInv, TypeOK, MarkerOrder, TryPcs, PollDequeue, EndScan, ChooseRetirement,
    KiqPrepare, kiqVars, outcomeVars, history, gpuVars, scanVars
<1>5. CASE KiqHalt \/ KiqProgram \/ KiqGate \/ KiqStart
  BY <1>5 DEF IInv, TypeOK, MarkerOrder, TryPcs, KiqHalt, KiqProgram, KiqGate, KiqStart,
    Halt, Fail, scanVars, outcomeVars, history, Shut
<1>6. CASE KiqRing \/ KiqFence \/ KiqUnmap \/ KiqRetire
  BY <1>6 DEF IInv, TypeOK, MarkerOrder, TryPcs, KiqRing, KiqFence, KiqUnmap, KiqRetire,
    Fail, scanVars, outcomeVars, history, gpuVars
<1>7. CASE KiqFault \/ CleanHalt \/ CleanQueue \/ CleanGates
  BY <1>7 DEF IInv, TypeOK, MarkerOrder, TryPcs, KiqFault, CleanHalt, CleanQueue, CleanGates,
    Fail, gpuVars, scanVars, outcomeVars, history, Halt, kiqVars, Deactivate, StillOn, Shut
<1>8. CASE CleanVerify \/ StopSdma \/ HaltCps \/ CloseGates
  BY <1>8 DEF IInv, TypeOK, MarkerOrder, TryPcs, CleanVerify, StopSdma, HaltCps, CloseGates,
    gpuVars, scanVars, outcomeVars, history, HaltPhase, Halt, Raise, kiqVars, Shut
<1>9. CASE Scrub \/ EndForce \/ EndFinal \/ Commands
  BY <1>9 DEF IInv, TypeOK, MarkerOrder, TryPcs, Scrub, EndForce, EndFinal, Commands,
    gpuVars, kiqVars, history, outcomeVars, scanVars
<1>10. CASE InspectIh \/ WriteReceipt \/ Abandon
  BY <1>10 DEF IInv, TypeOK, MarkerOrder, TryPcs, InspectIh, WriteReceipt, Abandon, Raise,
    gpuVars, scanVars, kiqVars, outcomeVars, history
<1>11. ASSUME NEW q \in Selectors, Inspect(q) \/ Rescan(q) \/ ForceInactive(q) \/
  FinalScan(q) PROVE MarkerOrder'
  BY <1>11 DEF IInv, TypeOK, MarkerOrder, TryPcs, Inspect, Rescan, ForceInactive, FinalScan,
    kiqVars, outcomeVars, history, gpuVars, Deactivate, StillOn, Raise
<1>12. CASE LateAbort
  BY <1>12 DEF IInv, TypeOK, MarkerOrder, TryPcs, LateAbort, gpuVars, scanVars, kiqVars,
    outcomeVars
<1>13. CASE Start
  BY <1>13 DEF IInv, TypeOK, MarkerOrder, TryPcs, Start, gpuVars
<1>14. CASE KiqRecheck
  BY <1>14 DEF IInv, TypeOK, MarkerOrder, TryPcs, KiqRecheck, Fail, gpuVars, scanVars,
    outcomeVars, history
<1>15. CASE KiqScratch
  BY <1>15 DEF IInv, TypeOK, MarkerOrder, TryPcs, KiqScratch, Fail, scanVars, outcomeVars,
    history
<1>16. CASE UNCHANGED vars
  BY <1>16 DEF IInv, TypeOK, MarkerOrder, TryPcs, vars, gpuVars, scanVars, kiqVars,
    outcomeVars, history
<1> QED
  BY <1>1, <1>2, <1>3, <1>4, <1>5, <1>6, <1>7, <1>8, <1>9, <1>10, <1>11, <1>12, <1>13, <1>14,
    <1>15, <1>16 DEF Next, Gpu, Host, Transaction

\* The rescan leaves no active queue behind but the stuck and the late ones.
LEMMA RescanOrderKept == ASSUME IInv, [Next]_vars PROVE RescanOrder'
<1>1. ASSUME NEW q \in Selectors, Drain(q) PROVE RescanOrder'
  BY <1>1 DEF IInv, TypeOK, RescanOrder, TryPcs, Selectors, Drain, scanVars, kiqVars,
    outcomeVars, history, Engine
<1>2. CASE ExecuteKiq \/ GfxIdle \/ WakeGfx \/ LateAbort
  BY <1>2 DEF IInv, TypeOK, RescanOrder, TryPcs, Selectors, ExecuteKiq, GfxIdle, WakeGfx,
    LateAbort, scanVars, kiqVars, outcomeVars, history, gpuVars
<1>3. CASE StopIh \/ Authenticate \/ Recheck \/ Snapshot
  BY <1>3 DEF IInv, TypeOK, RescanOrder, TryPcs, Selectors, StopIh, Authenticate, Recheck,
    Snapshot, Halt, Raise, scanVars, kiqVars, outcomeVars, history, ReadMarker, gpuVars
<1>4. CASE ClosePolling \/ PollDequeue \/ KiqHalt \/ KiqRecheck
  BY <1>4 DEF IInv, TypeOK, RescanOrder, TryPcs, Selectors, ClosePolling, PollDequeue,
    KiqHalt, KiqRecheck, Shut, Raise, kiqVars, outcomeVars, history, Halt, Fail, scanVars,
    gpuVars
<1>5. CASE KiqScratch \/ KiqGate \/ KiqStart \/ KiqRing
  BY <1>5 DEF IInv, TypeOK, RescanOrder, TryPcs, Selectors, KiqScratch, KiqGate, KiqStart,
    KiqRing, Fail, scanVars, outcomeVars, history
<1>6. CASE KiqFence \/ KiqUnmap \/ KiqRetire \/ KiqFault
  BY <1>6 DEF IInv, TypeOK, RescanOrder, TryPcs, Selectors, KiqFence, KiqUnmap, KiqRetire,
    KiqFault, Fail, gpuVars, scanVars, outcomeVars, history
<1>7. CASE CleanHalt \/ CleanQueue \/ CleanGates \/ CleanVerify
  BY <1>7 DEF IInv, TypeOK, RescanOrder, TryPcs, Selectors, CleanHalt, CleanQueue,
    CleanGates, CleanVerify, Halt, scanVars, kiqVars, outcomeVars, history, Deactivate,
    StillOn, Shut, gpuVars
<1>8. CASE StopSdma \/ HaltCps \/ CloseGates \/ Scrub
  BY <1>8 DEF IInv, TypeOK, RescanOrder, TryPcs, Selectors, StopSdma, HaltCps, CloseGates,
    Scrub, HaltPhase, Halt, Raise, scanVars, kiqVars, outcomeVars, history, Shut, gpuVars
<1>9. CASE EndForce \/ EndFinal \/ Commands \/ InspectIh
  BY <1>9 DEF IInv, TypeOK, RescanOrder, TryPcs, Selectors, EndForce, EndFinal, Commands,
    InspectIh, gpuVars, kiqVars, outcomeVars, history, scanVars, Raise
<1>10. CASE WriteReceipt \/ Abandon
  BY <1>10 DEF IInv, TypeOK, RescanOrder, TryPcs, Selectors, WriteReceipt, Abandon, gpuVars,
    scanVars, kiqVars, history, Raise, outcomeVars
<1>11. ASSUME NEW q \in Selectors, Inspect(q) \/ ForceInactive(q) \/ FinalScan(q) PROVE
  RescanOrder'
  BY <1>11 DEF IInv, TypeOK, RescanOrder, TryPcs, Selectors, Inspect, ForceInactive,
    FinalScan, kiqVars, outcomeVars, history, Deactivate, StillOn, Raise, gpuVars
<1>12. ASSUME NEW q \in Selectors, Wake(q) PROVE RescanOrder'
  BY <1>12 DEF IInv, TypeOK, RescanOrder, TryPcs, Selectors, Wake, scanVars, kiqVars,
    outcomeVars, Engine
<1>13. CASE Start
  BY <1>13 DEF IInv, TypeOK, RescanOrder, TryPcs, Selectors, Start, gpuVars
<1>14. CASE EndScan
  BY <1>14 DEF IInv, TypeOK, RescanOrder, TryPcs, Selectors, EndScan, gpuVars, kiqVars,
    outcomeVars, history
<1>15. CASE ChooseRetirement
  BY <1>15 DEF IInv, TypeOK, RescanOrder, TryPcs, Selectors, ChooseRetirement, gpuVars,
    scanVars, outcomeVars, history
<1>16. CASE KiqPrepare
  BY <1>16 DEF IInv, TypeOK, RescanOrder, TryPcs, Selectors, KiqPrepare, gpuVars, scanVars,
    outcomeVars, history
<1>17. CASE KiqProgram
  <2>1. /\ pc = "kiqProgram" /\ unseen' = unseen
        /\ hqd' = hqd \/ \E b \in BOOLEAN : hqd' = [hqd EXCEPT ![Kiq] = b]
        /\ pc' \in {"kiqGate", "cleanHalt"}
    BY <1>17 DEF KiqProgram, Fail, history
  <2>2. \A q \in Queues : hqd'[q] = hqd[q]
    BY <2>1, UnitsAssumption DEF IInv, TypeOK, Selectors
  <2> QED
    BY <2>1, <2>2 DEF IInv, RescanOrder, TryPcs
<1>18. ASSUME NEW q \in Selectors, Rescan(q) PROVE RescanOrder'
  BY <1>18 DEF IInv, TypeOK, RescanOrder, TryPcs, Selectors, Rescan, gpuVars, kiqVars,
    outcomeVars, history
<1>19. CASE UNCHANGED vars
  BY <1>19 DEF IInv, TypeOK, RescanOrder, TryPcs, Selectors, vars, gpuVars, scanVars,
    kiqVars, outcomeVars, history
<1> QED
  BY <1>1, <1>2, <1>3, <1>4, <1>5, <1>6, <1>7, <1>8, <1>9, <1>10, <1>11, <1>12, <1>13, <1>14,
    <1>15, <1>16, <1>17, <1>18, <1>19 DEF Next, Gpu, Host, Transaction

\* A fence seen is this transaction's own: an earlier doorbell cannot have raised
\* it while the MECs were halted, and the queue was rung once after that.
LEMMA FenceOrderKept == ASSUME IInv, [Next]_vars PROVE FenceOrder'
<1>1. ASSUME NEW q \in Selectors, Wake(q) \/ Drain(q) PROVE FenceOrder'
  BY <1>1 DEF IInv, TypeOK, FenceOrder, RingRetired, TryPcs, CleanPcs, Mecs, AfterKiq,
    AfterScan, AfterScrub, AfterClose, AfterHalt, AfterSdma, Wake, Drain, scanVars, kiqVars,
    outcomeVars, Engine, history
<1>2. CASE GfxIdle \/ LateAbort \/ Authenticate \/ Recheck
  BY <1>2 DEF IInv, TypeOK, FenceOrder, RingRetired, TryPcs, CleanPcs, Mecs, AfterKiq,
    AfterScan, AfterScrub, AfterClose, AfterHalt, AfterSdma, GfxIdle, LateAbort,
    Authenticate, Recheck, scanVars, kiqVars, outcomeVars, history, gpuVars, ReadMarker,
    Raise
<1>3. CASE Snapshot \/ ClosePolling \/ PollDequeue \/ EndScan
  BY <1>3 DEF IInv, TypeOK, FenceOrder, RingRetired, TryPcs, CleanPcs, Mecs, AfterKiq,
    AfterScan, AfterScrub, AfterClose, AfterHalt, AfterSdma, Snapshot, ClosePolling,
    PollDequeue, EndScan, gpuVars, scanVars, kiqVars, history, Shut, Raise, outcomeVars
<1>4. CASE KiqRecheck \/ KiqGate \/ KiqFault \/ CleanHalt
  BY <1>4 DEF IInv, TypeOK, FenceOrder, RingRetired, TryPcs, CleanPcs, Mecs, AfterKiq,
    AfterScan, AfterScrub, AfterClose, AfterHalt, AfterSdma, KiqRecheck, KiqGate, KiqFault,
    CleanHalt, Fail, gpuVars, scanVars, outcomeVars, history, Halt, kiqVars
<1>5. CASE CleanGates \/ CloseGates \/ Scrub \/ EndForce
  BY <1>5 DEF IInv, TypeOK, FenceOrder, RingRetired, TryPcs, CleanPcs, Mecs, AfterKiq,
    AfterScan, AfterScrub, AfterClose, AfterHalt, AfterSdma, CleanGates, CloseGates, Scrub,
    EndForce, Shut, scanVars, kiqVars, outcomeVars, history, Raise, gpuVars
<1>6. CASE EndFinal \/ Commands \/ InspectIh \/ WriteReceipt
  BY <1>6 DEF IInv, TypeOK, FenceOrder, RingRetired, TryPcs, CleanPcs, Mecs, AfterKiq,
    AfterScan, AfterScrub, AfterClose, AfterHalt, AfterSdma, EndFinal, Commands, InspectIh,
    WriteReceipt, gpuVars, scanVars, kiqVars, outcomeVars, history, Raise
<1>7. CASE Abandon
  BY <1>7 DEF IInv, TypeOK, FenceOrder, RingRetired, TryPcs, CleanPcs, Mecs, AfterKiq,
    AfterScan, AfterScrub, AfterClose, AfterHalt, AfterSdma, Abandon, Raise, gpuVars,
    scanVars, kiqVars, outcomeVars, history
<1>8. ASSUME NEW q \in Selectors, Inspect(q) \/ Rescan(q) \/ FinalScan(q) PROVE FenceOrder'
  BY <1>8 DEF IInv, TypeOK, FenceOrder, RingRetired, TryPcs, CleanPcs, Mecs, AfterKiq,
    AfterScan, AfterScrub, AfterClose, AfterHalt, AfterSdma, Inspect, Rescan, FinalScan,
    kiqVars, outcomeVars, history, gpuVars, Raise
<1>9. CASE ExecuteKiq
  BY <1>9 DEF IInv, TypeOK, FenceOrder, RingRetired, TryPcs, CleanPcs, Mecs, AfterKiq,
    AfterScan, AfterScrub, AfterClose, AfterHalt, AfterSdma, ExecuteKiq, scanVars, kiqVars,
    outcomeVars, history
<1>10. CASE WakeGfx
  BY <1>10 DEF IInv, TypeOK, FenceOrder, RingRetired, TryPcs, CleanPcs, Mecs, AfterKiq,
    AfterScan, AfterScrub, AfterClose, AfterHalt, AfterSdma, WakeGfx, scanVars, kiqVars,
    outcomeVars, history
<1>11. CASE Start
  BY <1>11 DEF IInv, TypeOK, FenceOrder, RingRetired, TryPcs, CleanPcs, Mecs, AfterKiq,
    AfterScan, AfterScrub, AfterClose, AfterHalt, AfterSdma, Start, gpuVars
<1>12. CASE StopIh
  BY <1>12 DEF IInv, TypeOK, FenceOrder, RingRetired, TryPcs, CleanPcs, Mecs, AfterKiq,
    AfterScan, AfterScrub, AfterClose, AfterHalt, AfterSdma, StopIh, Halt, Raise, scanVars,
    kiqVars, outcomeVars, history
<1>13. CASE ChooseRetirement
  BY <1>13 DEF IInv, TypeOK, FenceOrder, RingRetired, TryPcs, CleanPcs, Mecs, AfterKiq,
    AfterScan, AfterScrub, AfterClose, AfterHalt, AfterSdma, ChooseRetirement, gpuVars,
    scanVars, outcomeVars, history
<1>14. CASE KiqPrepare
  BY <1>14 DEF IInv, TypeOK, FenceOrder, RingRetired, TryPcs, CleanPcs, Mecs, AfterKiq,
    AfterScan, AfterScrub, AfterClose, AfterHalt, AfterSdma, KiqPrepare, gpuVars, scanVars,
    outcomeVars, history
<1>15. CASE KiqHalt
  BY <1>15 DEF IInv, TypeOK, FenceOrder, RingRetired, TryPcs, CleanPcs, Mecs, AfterKiq,
    AfterScan, AfterScrub, AfterClose, AfterHalt, AfterSdma, KiqHalt, Halt, Fail, scanVars,
    outcomeVars, history
<1>16. CASE KiqScratch
  BY <1>16 DEF IInv, TypeOK, FenceOrder, RingRetired, TryPcs, CleanPcs, Mecs, AfterKiq,
    AfterScan, AfterScrub, AfterClose, AfterHalt, AfterSdma, KiqScratch, Fail, scanVars,
    outcomeVars, history
<1>17. CASE KiqProgram
  BY <1>17 DEF IInv, TypeOK, FenceOrder, RingRetired, TryPcs, CleanPcs, Mecs, AfterKiq,
    AfterScan, AfterScrub, AfterClose, AfterHalt, AfterSdma, KiqProgram, Fail, Shut,
    scanVars, outcomeVars, history
<1>18. CASE KiqStart
  BY <1>18 DEF IInv, TypeOK, FenceOrder, RingRetired, TryPcs, CleanPcs, Mecs, AfterKiq,
    AfterScan, AfterScrub, AfterClose, AfterHalt, AfterSdma, KiqStart, Fail, scanVars,
    outcomeVars, history
<1>19. CASE KiqRing
  BY <1>19 DEF IInv, TypeOK, FenceOrder, RingRetired, TryPcs, CleanPcs, Mecs, AfterKiq,
    AfterScan, AfterScrub, AfterClose, AfterHalt, AfterSdma, KiqRing, Fail, scanVars,
    outcomeVars, history
<1>20. CASE KiqFence
  <2>1. /\ pc = "kiqWait" /\ UNCHANGED <<rung, fence, gfx, restless, running, kiq>>
        /\ \/ pc' = "kiqUnmap" /\ fence
           \/ pc' = "cleanHalt" /\ failure'
    <3>1. /\ pc = "kiqWait" /\ UNCHANGED <<rung, fence, gfx, restless, running, kiq>>
          /\ fence \in BOOLEAN
      BY <1>20 DEF KiqFence, gpuVars, IInv, TypeOK
    <3>2. PICK seen \in {fence, FALSE} : Fail(seen, "kiqUnmap")
      BY <1>20 DEF KiqFence
    <3>3. pc' = "kiqUnmap" \/ (pc' = "cleanHalt" /\ failure')
      BY <3>2 DEF Fail
    <3>4. CASE fence = TRUE
      BY <3>1, <3>3, <3>4
    <3>5. CASE fence = FALSE
      <4>1. seen = FALSE
        BY <3>2, <3>5
      <4>2. pc' = "cleanHalt" /\ failure' = TRUE
        BY <3>2, <4>1 DEF Fail
      <4> QED
        BY <3>1, <4>2
    <3> QED
      BY <3>1, <3>4, <3>5
  <2>2. pc' = "kiqUnmap" => ~rung'
    BY <2>1 DEF IInv, FenceOrder
  <2> QED
    BY <2>1, <2>2 DEF IInv, FenceOrder, RingRetired, CleanPcs, AfterKiq, AfterSdma, AfterHalt,
                      AfterClose, AfterScrub, AfterScan
<1>21. CASE KiqUnmap
  BY <1>21 DEF IInv, TypeOK, FenceOrder, RingRetired, TryPcs, CleanPcs, Mecs, AfterKiq,
    AfterScan, AfterScrub, AfterClose, AfterHalt, AfterSdma, KiqUnmap, Fail, scanVars,
    outcomeVars, history
<1>22. CASE KiqRetire
  BY <1>22 DEF IInv, TypeOK, FenceOrder, RingRetired, TryPcs, CleanPcs, Mecs, AfterKiq,
    AfterScan, AfterScrub, AfterClose, AfterHalt, AfterSdma, KiqRetire, Fail, gpuVars,
    scanVars, outcomeVars, history
<1>23. CASE CleanQueue
  BY <1>23 DEF IInv, TypeOK, FenceOrder, RingRetired, TryPcs, CleanPcs, Mecs, AfterKiq,
    AfterScan, AfterScrub, AfterClose, AfterHalt, AfterSdma, CleanQueue, Deactivate, StillOn,
    scanVars, kiqVars, outcomeVars, history
<1>24. CASE CleanVerify
  BY <1>24 DEF IInv, TypeOK, FenceOrder, RingRetired, TryPcs, CleanPcs, Mecs, AfterKiq,
    AfterScan, AfterScrub, AfterClose, AfterHalt, AfterSdma, CleanVerify, gpuVars, scanVars,
    outcomeVars, history
<1>25. CASE StopSdma
  BY <1>25 DEF IInv, TypeOK, FenceOrder, RingRetired, TryPcs, CleanPcs, Mecs, AfterKiq,
    AfterScan, AfterScrub, AfterClose, AfterHalt, AfterSdma, StopSdma, HaltPhase, Halt,
    Raise, scanVars, kiqVars, outcomeVars, history
<1>26. CASE HaltCps
  BY <1>26 DEF IInv, TypeOK, FenceOrder, RingRetired, TryPcs, CleanPcs, Mecs, AfterKiq,
    AfterScan, AfterScrub, AfterClose, AfterHalt, AfterSdma, HaltCps, HaltPhase, Halt, Raise,
    scanVars, kiqVars, outcomeVars, history
<1>27. ASSUME NEW q \in Selectors, ForceInactive(q) PROVE FenceOrder'
  BY <1>27 DEF IInv, TypeOK, FenceOrder, RingRetired, TryPcs, CleanPcs, Mecs, AfterKiq,
    AfterScan, AfterScrub, AfterClose, AfterHalt, AfterSdma, ForceInactive, Deactivate,
    StillOn, Raise, kiqVars, outcomeVars
<1>28. CASE UNCHANGED vars
  BY <1>28 DEF IInv, TypeOK, FenceOrder, RingRetired, TryPcs, CleanPcs, Mecs, AfterKiq,
    AfterScan, AfterScrub, AfterClose, AfterHalt, AfterSdma, vars, gpuVars, scanVars,
    kiqVars, outcomeVars, history
<1> QED
  BY <1>1, <1>2, <1>3, <1>4, <1>5, <1>6, <1>7, <1>8, <1>9, <1>10, <1>11, <1>12, <1>13, <1>14,
    <1>15, <1>16, <1>17, <1>18, <1>19, <1>20, <1>21, <1>22, <1>23, <1>24, <1>25, <1>26,
    <1>27, <1>28 DEF Next, Gpu, Host, Transaction

\* The cleanup takes down what obeys, and what it took down stays down.
LEMMA CleanOrderKept == ASSUME IInv, [Next]_vars PROVE CleanOrder'
<1>1. ASSUME NEW q \in Selectors, Drain(q) PROVE CleanOrder'
  BY <1>1 DEF IInv, TypeOK, FenceOrder, CleanOrder, TryPcs, CleanPcs, Mecs, Gates, Selectors,
    AfterKiq, AfterScan, AfterScrub, AfterClose, AfterHalt, AfterSdma, Drain, scanVars,
    kiqVars, outcomeVars, history, Engine
<1>2. CASE ExecuteKiq \/ GfxIdle \/ WakeGfx \/ LateAbort
  BY <1>2 DEF IInv, TypeOK, FenceOrder, CleanOrder, TryPcs, CleanPcs, Mecs, Gates, Selectors,
    AfterKiq, AfterScan, AfterScrub, AfterClose, AfterHalt, AfterSdma, ExecuteKiq, GfxIdle,
    WakeGfx, LateAbort, scanVars, kiqVars, outcomeVars, history, gpuVars
<1>3. CASE Start \/ StopIh \/ Authenticate \/ Recheck
  BY <1>3 DEF IInv, TypeOK, FenceOrder, CleanOrder, TryPcs, CleanPcs, Mecs, Gates, Selectors,
    AfterKiq, AfterScan, AfterScrub, AfterClose, AfterHalt, AfterSdma, Start, StopIh,
    Authenticate, Recheck, gpuVars, Halt, Raise, scanVars, kiqVars, outcomeVars, history,
    ReadMarker
<1>4. CASE Snapshot \/ ClosePolling \/ PollDequeue \/ EndScan
  BY <1>4 DEF IInv, TypeOK, FenceOrder, CleanOrder, TryPcs, CleanPcs, Mecs, Gates, Selectors,
    AfterKiq, AfterScan, AfterScrub, AfterClose, AfterHalt, AfterSdma, Snapshot,
    ClosePolling, PollDequeue, EndScan, gpuVars, scanVars, kiqVars, history, Shut, Raise,
    outcomeVars
<1>5. CASE ChooseRetirement \/ KiqPrepare \/ KiqHalt \/ KiqRecheck
  BY <1>5 DEF IInv, TypeOK, FenceOrder, CleanOrder, TryPcs, CleanPcs, Mecs, Gates, Selectors,
    AfterKiq, AfterScan, AfterScrub, AfterClose, AfterHalt, AfterSdma, ChooseRetirement,
    KiqPrepare, KiqHalt, KiqRecheck, gpuVars, scanVars, outcomeVars, history, Halt, Fail
<1>6. CASE KiqScratch \/ KiqRing \/ KiqFence \/ KiqUnmap
  BY <1>6 DEF IInv, TypeOK, FenceOrder, CleanOrder, TryPcs, CleanPcs, Mecs, Gates, Selectors,
    AfterKiq, AfterScan, AfterScrub, AfterClose, AfterHalt, AfterSdma, KiqScratch, KiqRing,
    KiqFence, KiqUnmap, Fail, scanVars, outcomeVars, history, gpuVars
<1>7. CASE KiqRetire \/ KiqFault \/ StopSdma \/ HaltCps
  BY <1>7 DEF IInv, TypeOK, FenceOrder, CleanOrder, TryPcs, CleanPcs, Mecs, Gates, Selectors,
    AfterKiq, AfterScan, AfterScrub, AfterClose, AfterHalt, AfterSdma, KiqRetire, KiqFault,
    StopSdma, HaltCps, Fail, gpuVars, scanVars, outcomeVars, history, HaltPhase, Halt, Raise,
    kiqVars
<1>8. CASE CloseGates \/ Scrub \/ EndForce \/ EndFinal
  BY <1>8 DEF IInv, TypeOK, FenceOrder, CleanOrder, TryPcs, CleanPcs, Mecs, Gates, Selectors,
    AfterKiq, AfterScan, AfterScrub, AfterClose, AfterHalt, AfterSdma, CloseGates, Scrub,
    EndForce, EndFinal, Shut, Raise, scanVars, kiqVars, outcomeVars, history, gpuVars
<1>9. CASE Commands \/ InspectIh \/ WriteReceipt \/ Abandon
  BY <1>9 DEF IInv, TypeOK, FenceOrder, CleanOrder, TryPcs, CleanPcs, Mecs, Gates, Selectors,
    AfterKiq, AfterScan, AfterScrub, AfterClose, AfterHalt, AfterSdma, Commands, InspectIh,
    WriteReceipt, Abandon, gpuVars, scanVars, kiqVars, outcomeVars, history, Raise
<1>10. ASSUME NEW q \in Selectors, Inspect(q) \/ Rescan(q) \/ FinalScan(q) PROVE CleanOrder'
  BY <1>10 DEF IInv, TypeOK, FenceOrder, CleanOrder, TryPcs, CleanPcs, Mecs, Gates,
    Selectors, AfterKiq, AfterScan, AfterScrub, AfterClose, AfterHalt, AfterSdma, Inspect,
    Rescan, FinalScan, kiqVars, outcomeVars, history, gpuVars, Raise
<1>11. ASSUME NEW q \in Selectors, Wake(q) PROVE CleanOrder'
  <2>1. /\ UNCHANGED <<running, gates, ignores, pc, kiq>> /\ Engine(q) \in running
        /\ hqd' = [hqd EXCEPT ![q] = TRUE]
    BY <1>11 DEF Wake, kiqVars
  <2>2. hqd'[Kiq] => hqd[Kiq] \/ "mec2" \in running
    <3>1. CASE q = Kiq
      BY <2>1, <3>1, UnitsAssumption DEF Engine
    <3>2. CASE q # Kiq
      BY <2>1, <3>2 DEF IInv, TypeOK, Selectors
    <3> QED
      BY <3>1, <3>2
  <2> QED
    BY <2>1, <2>2 DEF IInv, CleanOrder, CleanPcs, Mecs
<1>12. CASE KiqProgram
  BY <1>12 DEF IInv, TypeOK, FenceOrder, CleanOrder, TryPcs, CleanPcs, Mecs, Gates,
    Selectors, AfterKiq, AfterScan, AfterScrub, AfterClose, AfterHalt, AfterSdma, KiqProgram,
    Fail, Shut, scanVars, outcomeVars, history
<1>13. CASE KiqGate
  BY <1>13 DEF IInv, TypeOK, FenceOrder, CleanOrder, TryPcs, CleanPcs, Mecs, Gates,
    Selectors, AfterKiq, AfterScan, AfterScrub, AfterClose, AfterHalt, AfterSdma, KiqGate,
    Fail, scanVars, outcomeVars, history
<1>14. CASE KiqStart
  BY <1>14 DEF IInv, TypeOK, FenceOrder, CleanOrder, TryPcs, CleanPcs, Mecs, Gates,
    Selectors, AfterKiq, AfterScan, AfterScrub, AfterClose, AfterHalt, AfterSdma, KiqStart,
    Fail, scanVars, outcomeVars, history
<1>15. CASE CleanHalt
  BY <1>15 DEF IInv, TypeOK, FenceOrder, CleanOrder, TryPcs, CleanPcs, Mecs, Gates,
    Selectors, AfterKiq, AfterScan, AfterScrub, AfterClose, AfterHalt, AfterSdma, CleanHalt,
    Halt, scanVars, kiqVars, outcomeVars, history
<1>16. CASE CleanQueue
  BY <1>16 DEF IInv, TypeOK, FenceOrder, CleanOrder, TryPcs, CleanPcs, Mecs, Gates,
    Selectors, AfterKiq, AfterScan, AfterScrub, AfterClose, AfterHalt, AfterSdma, CleanQueue,
    Deactivate, StillOn, scanVars, kiqVars, outcomeVars, history
<1>17. CASE CleanGates
  BY <1>17 DEF IInv, TypeOK, FenceOrder, CleanOrder, TryPcs, CleanPcs, Mecs, Gates,
    Selectors, AfterKiq, AfterScan, AfterScrub, AfterClose, AfterHalt, AfterSdma, CleanGates,
    Shut, scanVars, kiqVars, outcomeVars, history
<1>18. CASE CleanVerify
  BY <1>18 DEF IInv, TypeOK, FenceOrder, CleanOrder, TryPcs, CleanPcs, Mecs, Gates,
    Selectors, AfterKiq, AfterScan, AfterScrub, AfterClose, AfterHalt, AfterSdma,
    CleanVerify, gpuVars, scanVars, outcomeVars, history
<1>19. ASSUME NEW q \in Selectors, ForceInactive(q) PROVE CleanOrder'
  BY <1>19 DEF IInv, TypeOK, FenceOrder, CleanOrder, TryPcs, CleanPcs, Mecs, Gates,
    Selectors, AfterKiq, AfterScan, AfterScrub, AfterClose, AfterHalt, AfterSdma,
    ForceInactive, Deactivate, StillOn, Raise, kiqVars, outcomeVars
<1>20. CASE UNCHANGED vars
  BY <1>20 DEF IInv, TypeOK, FenceOrder, CleanOrder, TryPcs, CleanPcs, Mecs, Gates,
    Selectors, AfterKiq, AfterScan, AfterScrub, AfterClose, AfterHalt, AfterSdma, vars,
    gpuVars, scanVars, kiqVars, outcomeVars, history
<1> QED
  BY <1>1, <1>2, <1>3, <1>4, <1>5, <1>6, <1>7, <1>8, <1>9, <1>10, <1>11, <1>12, <1>13, <1>14,
    <1>15, <1>16, <1>17, <1>18, <1>19, <1>20 DEF Next, Gpu, Host, Transaction

\* The inductive invariant holds in every reachable state.
THEOREM InvariantHolds == Spec => []IInv
<1>1. Init => IInv
  <2>1. ASSUME Init PROVE TypeOK
    <3>1. running \subseteq Engines
      BY <2>1 DEF Init, Engines
    <3>2. ignores \subseteq MayIgnore
      BY <2>1 DEF Init
    <3>3. attempts \in 0..MaxAttempts
      BY <2>1, UnitsAssumption DEF Init
    <3>4. pc \in Pcs /\ at \in Selectors /\ gates \subseteq Gates
      BY <2>1 DEF Init, Pcs, Selectors
    <3> QED
      BY <2>1, <3>1, <3>2, <3>3, <3>4 DEF Init, TypeOK
  <2>2. Init => UnitsDown /\ QueuesDown /\ Authorized /\ MarkerOrder
    BY DEF Init, UnitsDown, QueuesDown, Authorized, MarkerOrder, AfterScan, AfterScrub,
           AfterClose, AfterHalt, AfterSdma
  <2>3. Init => RescanOrder /\ FenceOrder /\ CleanOrder
    BY DEF Init, RescanOrder, FenceOrder, CleanOrder, TryPcs, CleanPcs
  <2> QED
    BY <2>1, <2>2, <2>3 DEF IInv
<1>2. ASSUME IInv, [Next]_vars PROVE IInv'
  <2>1. TypeOK'
    BY <1>2, TypeKept DEF IInv
  <2> QED
    BY <1>2, <2>1, UnitsDownKept, QueuesDownKept, AuthorizedKept, MarkerOrderKept,
       RescanOrderKept, FenceOrderKept, CleanOrderKept DEF IInv
<1> QED
  BY <1>1, <1>2, PTL DEF Spec

-----------------------------------------------------------------------------
(***************************************************************************)
(* What the run checks, for every value of the constants.                  *)
(***************************************************************************)

\* Every variable keeps its type.
THEOREM TypeCorrect == Spec => []TypeOK
<1>1. IInv => TypeOK
  BY DEF IInv
<1> QED
  BY <1>1, InvariantHolds, PTL

\* The receipt that authorizes the next launch (vfio-recover.py perform_recovery)
\* is written only over a GPU at rest, and the GPU stays at rest.
THEOREM AuthorizedMeansQuietAlways == Spec => []AuthorizedMeansQuiet
<1>1. IInv => AuthorizedMeansQuiet
  BY DEF IInv, Authorized, AuthorizedMeansQuiet
<1> QED
  BY <1>1, InvariantHolds, PTL

\* The temporary queue (retire_legacy_gfx_with_host_kiq): its scratch is used
\* behind the marker, it starts behind the rescan, its verdict is behind its own
\* fence, and every unit that obeys is down again after it.
THEOREM KiqOrderedAlways == Spec => []KiqOrdered
<1>1. ASSUME IInv PROVE KiqOrdered
  <2>1. ScratchBehindMarker
    BY <1>1 DEF IInv, MarkerOrder, ScratchBehindMarker
  <2>2. KiqStartsBehindRescan
    BY <1>1 DEF IInv, RescanOrder, TryPcs, KiqStartsBehindRescan
  <2>3. RetiredMeansUnmapped
    BY <1>1 DEF IInv, FenceOrder, RingRetired, RetiredMeansUnmapped
  <2>4. TriedMeansDown
    BY <1>1 DEF IInv, CleanOrder, TriedMeansDown
  <2> QED
    BY <2>1, <2>2, <2>3, <2>4 DEF KiqOrdered
<1> QED
  BY <1>1, InvariantHolds, PTL
=============================================================================
