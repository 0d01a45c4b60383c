---------------------------- MODULE HostRecovery ----------------------------
(***************************************************************************)
(* The host takes the GPU back after a guest is gone (vfio-recover.py):    *)
(* with the lifetime marker of the run still VALID it drains the compute   *)
(* queues, removes the graphics ring's scheduler mapping with a temporary  *)
(* kernel queue (KIQ) in the guest's excluded memory, halts every engine,  *)
(* closes every gate and writes the receipt the next launch needs.  The    *)
(* GPU's firmware runs next to it: queues wake and drain by themselves, an *)
(* unmap may complete late, a unit may ignore what is written to it.  The  *)
(* recovery can raise or be killed between any two register phases; as     *)
(* long as there is no receipt it may be started again.                    *)
(***************************************************************************)
EXTENDS Naturals

CONSTANTS
  Queues,      \* hardware queue descriptors (HQDs) besides the temporary KIQ's
  Mec1Queues,  \* those run by MEC1; the others and the KIQ are run by MEC2
  Kiq,         \* HOST_KIQ_SELECTOR
  MaxAttempts, \* bound: how often the recovery of one run is started
  MayIgnore    \* the units that may ignore writes, at most one in a behaviour

Engines == {"me", "mec1", "mec2", "sdma", "ih"}
\* Write-pointer polling, and the PQ doorbell gate with the ranges closed beside it.
Gates   == {"poll", "doorbell"}

ASSUME UnitsAssumption ==
  /\ Kiq \notin Queues /\ Mec1Queues \subseteq Queues
  /\ MaxAttempts \in Nat
  /\ MayIgnore \subseteq Engines \cup Gates \cup {"hqd"}

Selectors == Queues \cup {Kiq}
Mecs == {"mec1", "mec2"}
Engine(q) == IF q \in Mec1Queues THEN "mec1" ELSE "mec2"

VARIABLES
  \* the GPU
  running,    \* engines that are not halted
  gates,      \* ingress gates that are open
  hqd,        \* CP_HQD_ACTIVE of each selector
  dequeue,    \* selectors with a pending CP_HQD_DEQUEUE request
  gfx,        \* the graphics ring: mapped, being unmapped, unmapped
  rung,       \* the KIQ's ring has the UNMAP packet and its doorbell was rung
  fence,      \* the fence of the current packet is in video memory
  ignores,    \* units that ignore writes
  restless,   \* bound: queues, and "gfx", that may still wake by themselves
  \* the lifetime marker in video memory
  marker,
  \* the recovery
  pc,
  attempts,   \* how often it was started
  left,       \* selectors the current scan has still to visit
  at,         \* the selector whose dequeue is being polled
  stuck,      \* selectors found active that did not drain
  needsUnmap, \* gfx_needs_unmap, from the first snapshot
  kiq,        \* host_kiq status
  failure,    \* the body of the KIQ transaction raised
  scratch,    \* it wrote to the scratch arena
  ringClean,  \* gfx_ring_clean
  receipt,    \* the receipt of the run: none, recovered, incomplete
  \* history
  withdrawn,  \* the marker was withdrawn: no, early, or late (in the last gap)
  unseen,     \* selectors that woke after this attempt's rescan of them
  forced      \* some attempt cleared an active queue by force

gpuVars     == <<running, gates, hqd, dequeue, gfx, rung, fence, ignores, restless>>
scanVars    == <<left, at, stuck>>
kiqVars     == <<kiq, failure, scratch>>
outcomeVars == <<attempts, needsUnmap, ringClean, receipt>>
history     == <<withdrawn, unseen, forced>>
vars == <<gpuVars, marker, pc, scanVars, kiqVars, outcomeVars, history>>

\* The body of the transaction in retire_legacy_gfx_with_host_kiq's try.
TryPcs == {"kiqHalt", "kiqRecheck", "kiqScratch", "kiqProgram", "kiqGate", "kiqStart",
           "kiqRing", "kiqWait", "kiqUnmap", "kiqRetire"}
CleanPcs == {"cleanHalt", "cleanQueue", "cleanGates", "cleanVerify"}
Pcs == {"idle", "ih", "authenticate", "recheck", "snapshot", "poll", "scan", "drain",
        "rescan", "kiqPrepare", "sdma", "halt", "close", "scrub", "force", "final",
        "commands", "ihFinal", "receipt"} \cup TryPcs \cup CleanPcs

\* Any state a stopped guest and the DMA guard can leave the GPU in.
Init ==
  /\ running \in {{}, Engines, {"me", "sdma", "ih"}}
  /\ gates = Gates
  /\ hqd \in [Selectors -> BOOLEAN]
  /\ dequeue = {}
  /\ gfx \in {"mapped", "unmapped"}
  /\ rung = FALSE /\ fence = FALSE
  /\ ignores \in {{}} \cup {{u} : u \in MayIgnore}
  /\ restless = Selectors \cup {"gfx"}
  /\ marker \in {"VALD", "ABRT"}
  /\ pc = "idle" /\ attempts = 0
  /\ left = {} /\ at = Kiq /\ stuck = {}
  /\ needsUnmap = FALSE /\ kiq = "none" /\ failure = FALSE /\ scratch = FALSE
  /\ ringClean = FALSE /\ receipt = "none"
  /\ withdrawn = "no" /\ unseen = {} /\ forced = FALSE

\* A store to units that may ignore it.
Halt(units) == running' = running \ (units \ ignores)
Shut(units) == gates' = gates \ (units \ ignores)
StillOn(q)  == hqd[q] /\ "hqd" \in ignores
Deactivate(q) == hqd' = [hqd EXCEPT ![q] = StillOn(q)]

\* A RecoveryError outside the KIQ transaction: no receipt is written.
Raise == pc' = "idle"
-----------------------------------------------------------------------------
(***************************************************************************)
(* The GPU's own steps.                                                    *)
(***************************************************************************)
\* Firmware that still runs maps a queue: "a queue could become active while
\* the first pass is walking the other selectors".
Wake(q) ==
  /\ q \in restless /\ ~hqd[q] /\ Engine(q) \in running
  /\ hqd' = [hqd EXCEPT ![q] = TRUE]
  /\ restless' = restless \ {q}
  /\ unseen' = IF (pc = "rescan" /\ q \notin left) \/ pc \in {"kiqPrepare"} \cup TryPcs
               THEN unseen \cup {q} ELSE unseen
  /\ UNCHANGED <<running, gates, dequeue, gfx, rung, fence, ignores, marker, pc,
                 scanVars, kiqVars, outcomeVars, withdrawn, forced>>

\* A requested dequeue completes, perhaps after its polls ran out.
Drain(q) ==
  /\ q \in dequeue /\ hqd[q] /\ Engine(q) \in running
  /\ hqd' = [hqd EXCEPT ![q] = FALSE]
  /\ UNCHANGED <<running, gates, dequeue, gfx, rung, fence, ignores, restless, marker,
                 pc, scanVars, kiqVars, outcomeVars, history>>

\* MEC2 executes the two packets: UNMAP_QUEUES, then the fence.
ExecuteKiq ==
  /\ rung /\ hqd[Kiq] /\ "mec2" \in running /\ "doorbell" \in gates
  /\ fence' = TRUE /\ rung' = FALSE
  /\ gfx' = IF gfx = "mapped" THEN "unmapping" ELSE gfx
  /\ UNCHANGED <<running, gates, hqd, dequeue, ignores, restless, marker, pc,
                 scanVars, kiqVars, outcomeVars, history>>

\* The graphics ring reports inactive some time after the fence, or never.
GfxIdle ==
  /\ gfx = "unmapping"
  /\ gfx' = "unmapped"
  /\ UNCHANGED <<running, gates, hqd, dequeue, rung, fence, ignores, restless, marker,
                 pc, scanVars, kiqVars, outcomeVars, history>>

WakeGfx ==
  /\ "gfx" \in restless /\ gfx = "unmapped" /\ "me" \in running
  /\ gfx' = "mapped"
  /\ restless' = restless \ {"gfx"}
  /\ UNCHANGED <<running, gates, hqd, dequeue, rung, fence, ignores, marker, pc,
                 scanVars, kiqVars, outcomeVars, history>>

\* A late guest ABORT reaches video memory.
LateAbort ==
  /\ marker = "VALD"
  /\ marker' = "ABRT"
  /\ withdrawn' = IF pc = "kiqScratch" \/ scratch THEN "late" ELSE "early"
  /\ UNCHANGED <<gpuVars, pc, scanVars, kiqVars, outcomeVars, unseen, forced>>

Gpu == \/ \E q \in Selectors : Wake(q) \/ Drain(q)
       \/ ExecuteKiq \/ GfxIdle \/ WakeGfx \/ LateAbort

-----------------------------------------------------------------------------
(***************************************************************************)
(* recover and perform_recovery, up to the register phases.                *)
(***************************************************************************)
\* recover: refused only if a receipt exists; what an attempt knew is gone.
Start ==
  /\ pc = "idle" /\ receipt = "none" /\ attempts < MaxAttempts
  /\ attempts' = attempts + 1
  /\ pc' = "ih"
  /\ left' = {} /\ stuck' = {} /\ at' = Kiq
  /\ needsUnmap' = FALSE /\ ringClean' = FALSE
  /\ kiq' = "none" /\ failure' = FALSE /\ scratch' = FALSE
  /\ unseen' = {}
  /\ UNCHANGED <<gpuVars, marker, receipt, withdrawn, forced>>

\* ih-vfio-recover stops the interrupt rings when the device is opened.
StopIh ==
  /\ pc = "ih"
  /\ Halt({"ih"})
  /\ IF "ih" \in running' THEN Raise ELSE pc' = "authenticate"
  /\ UNCHANGED <<gates, hqd, dequeue, gfx, rung, fence, ignores, restless, marker,
                 scanVars, kiqVars, outcomeVars, history>>

ReadMarker(from, to) ==
  /\ pc = from
  /\ IF marker = "VALD" THEN pc' = to ELSE Raise
  /\ UNCHANGED <<gpuVars, marker, scanVars, kiqVars, outcomeVars, history>>

\* authenticate_v3_host_kiq_lease and the graphics pipe guard.
Authenticate == ReadMarker("authenticate", "recheck")
\* _recheck_v3_lifetime, before quiesce_gc.
Recheck == ReadMarker("recheck", "snapshot")

(***************************************************************************)
(* quiesce_gc: drain the queues.                                           *)
(***************************************************************************)
Snapshot ==
  /\ pc = "snapshot"
  /\ needsUnmap' = (gfx # "unmapped")
  /\ pc' = "poll"
  /\ UNCHANGED <<gpuVars, marker, scanVars, kiqVars, attempts, ringClean, receipt, history>>

ClosePolling ==
  /\ pc = "poll"
  /\ Shut({"poll"})
  /\ IF "poll" \in gates' THEN Raise /\ left' = left ELSE pc' = "scan" /\ left' = Selectors
  /\ UNCHANGED <<running, hqd, dequeue, gfx, rung, fence, ignores, restless, marker,
                 at, stuck, kiqVars, outcomeVars, history>>

\* The first pass: an active queue is asked to dequeue.
Inspect(q) ==
  /\ pc = "scan" /\ q \in left
  /\ IF hqd[q]
     THEN pc' = "drain" /\ at' = q /\ dequeue' = dequeue \cup {q} /\ left' = left
     ELSE left' = left \ {q} /\ UNCHANGED <<pc, at, dequeue>>
  /\ UNCHANGED <<running, gates, hqd, gfx, rung, fence, ignores, restless, marker,
                 stuck, kiqVars, outcomeVars, history>>

\* Mutant: the whole row is kept where the selector is compared.
PollDequeueRow ==
  /\ pc = "drain"
  /\ \/ ~hqd[at] /\ dequeue' = dequeue \ {at} /\ stuck' = stuck
     \/ hqd[at] /\ dequeue' = dequeue /\ stuck' = stuck \cup {<<at, "stuck">>}
  /\ left' = left \ {at} /\ pc' = "scan"
  /\ UNCHANGED <<running, gates, hqd, gfx, rung, fence, ignores, restless, marker, at,
                 kiqVars, outcomeVars, history>>

\* Seen inactive, or the polls run out: then the request stays pending.
PollDequeue ==
  /\ pc = "drain"
  /\ \/ ~hqd[at] /\ dequeue' = dequeue \ {at} /\ stuck' = stuck
     \/ hqd[at] /\ dequeue' = dequeue /\ stuck' = stuck \cup {at}
  /\ left' = left \ {at} /\ pc' = "scan"
  /\ UNCHANGED <<running, gates, hqd, gfx, rung, fence, ignores, restless, marker, at,
                 kiqVars, outcomeVars, history>>

EndScan ==
  /\ pc = "scan" /\ left = {}
  /\ pc' = "rescan" /\ left' = Selectors
  /\ UNCHANGED <<gpuVars, marker, at, stuck, kiqVars, outcomeVars, history>>

\* The second pass: "Never start MEC2 ... while any earlier queue is still live".
Rescan(q) ==
  /\ pc = "rescan" /\ q \in left
  /\ left' = left \ {q}
  /\ stuck' = IF hqd[q] THEN stuck \cup {q} ELSE stuck
  /\ UNCHANGED <<gpuVars, marker, pc, at, kiqVars, outcomeVars, history>>

ChooseRetirement ==
  /\ pc = "rescan" /\ left = {}
  /\ IF needsUnmap /\ stuck = {}
     THEN pc' = "kiqPrepare" /\ kiq' = kiq
     ELSE pc' = "sdma" /\ kiq' = IF needsUnmap THEN "blocked" ELSE "not-needed"
  /\ UNCHANGED <<gpuVars, marker, scanVars, failure, scratch, outcomeVars, history>>

-----------------------------------------------------------------------------
(***************************************************************************)
(* retire_legacy_gfx_with_host_kiq.                                        *)
(***************************************************************************)
Fail(ok, next) == IF ok THEN pc' = next /\ failure' = failure
                        ELSE pc' = "cleanHalt" /\ failure' = TRUE

\* The lease is authenticated again; a refusal here happens before the try.
KiqPrepare ==
  /\ pc = "kiqPrepare"
  /\ IF marker = "VALD" THEN pc' = "kiqHalt" /\ kiq' = kiq
                        ELSE pc' = "sdma" /\ kiq' = "refused"
  /\ UNCHANGED <<gpuVars, marker, scanVars, failure, scratch, outcomeVars, history>>

KiqHalt ==
  /\ pc = "kiqHalt"
  /\ Halt(Mecs)
  /\ Fail(running' \cap Mecs = {}, "kiqRecheck")
  /\ UNCHANGED <<gates, hqd, dequeue, gfx, rung, fence, ignores, restless, marker,
                 scanVars, kiq, scratch, outcomeVars, history>>

\* "This full readback is deliberately adjacent to the first scratch write."
KiqRecheck ==
  /\ pc = "kiqRecheck"
  /\ Fail(marker = "VALD", "kiqScratch")
  /\ UNCHANGED <<gpuVars, marker, scanVars, kiq, scratch, outcomeVars, history>>

KiqScratch ==
  /\ pc = "kiqScratch"
  /\ scratch' = TRUE /\ fence' = FALSE
  /\ Fail(TRUE, "kiqProgram")
  /\ UNCHANGED <<running, gates, hqd, dequeue, gfx, rung, ignores, restless, marker,
                 scanVars, kiq, outcomeVars, history>>

\* The queue's registers, ending with ACTIVE and its readback.
KiqProgram ==
  /\ pc = "kiqProgram"
  /\ \/ hqd[Kiq] /\ UNCHANGED <<gates, hqd, rung>> /\ Fail(FALSE, "kiqGate")
     \/ /\ ~hqd[Kiq]
        /\ Shut({"poll"})
        /\ hqd' = [hqd EXCEPT ![Kiq] = {"poll", "hqd"} \cap (gates' \cup ignores) = {}]
        /\ rung' = FALSE
        /\ Fail(hqd'[Kiq], "kiqGate")
  /\ UNCHANGED <<running, dequeue, gfx, fence, ignores, restless, marker, scanVars,
                 kiq, scratch, outcomeVars, history>>

KiqGate ==
  /\ pc = "kiqGate"
  /\ gates' = gates \cup ({"doorbell"} \ ignores)
  /\ Fail("doorbell" \in gates', "kiqStart")
  /\ UNCHANGED <<running, hqd, dequeue, gfx, rung, fence, ignores, restless, marker,
                 scanVars, kiq, scratch, outcomeVars, history>>

\* "Leave MEC1 halted and start only MEC2."
KiqStart ==
  /\ pc = "kiqStart"
  /\ running' = running \cup ({"mec2"} \ ignores)
  /\ Fail("mec2" \in running', "kiqRing")
  /\ UNCHANGED <<gates, hqd, dequeue, gfx, rung, fence, ignores, restless, marker,
                 scanVars, kiq, scratch, outcomeVars, history>>

KiqRing ==
  /\ pc = "kiqRing"
  /\ rung' = TRUE
  /\ Fail(TRUE, "kiqWait")
  /\ UNCHANGED <<running, gates, hqd, dequeue, gfx, fence, ignores, restless, marker,
                 scanVars, kiq, scratch, outcomeVars, history>>

\* Each poll loop ends with what it waits for, or runs out.
KiqFence ==
  /\ pc = "kiqWait"
  /\ \E seen \in {fence, FALSE} : Fail(seen, "kiqUnmap")
  /\ UNCHANGED <<gpuVars, marker, scanVars, kiq, scratch, outcomeVars, history>>

\* Mutant: the fence is taken for the ring being inactive.
KiqUnmapAssumed ==
  /\ pc = "kiqUnmap"
  /\ dequeue' = dequeue \cup {Kiq}
  /\ Fail(TRUE, "kiqRetire")
  /\ UNCHANGED <<running, gates, hqd, gfx, rung, fence, ignores, restless, marker,
                 scanVars, kiq, scratch, outcomeVars, history>>

\* "The graphics ring must report inactive before any scrub can count."
KiqUnmap ==
  /\ pc = "kiqUnmap"
  /\ \E seen \in {gfx = "unmapped", FALSE} :
       /\ dequeue' = IF seen THEN dequeue \cup {Kiq} ELSE dequeue
       /\ Fail(seen, "kiqRetire")
  /\ UNCHANGED <<running, gates, hqd, gfx, rung, fence, ignores, restless, marker,
                 scanVars, kiq, scratch, outcomeVars, history>>

KiqRetire ==
  /\ pc = "kiqRetire"
  /\ \E seen \in {~hqd[Kiq], FALSE} : Fail(seen, "cleanHalt")
  /\ UNCHANGED <<gpuVars, marker, scanVars, kiq, scratch, outcomeVars, history>>

\* Any access in the try can raise, after its store took effect.
KiqFault ==
  /\ pc \in TryPcs
  /\ Fail(FALSE, pc)
  /\ UNCHANGED <<gpuVars, marker, scanVars, kiq, scratch, outcomeVars, history>>

\* The cleanup, which runs to its end whatever each of its actions raises.
CleanHalt ==
  /\ pc = "cleanHalt"
  /\ Halt(Mecs)
  /\ pc' = "cleanQueue"
  /\ UNCHANGED <<gates, hqd, dequeue, gfx, rung, fence, ignores, restless, marker,
                 scanVars, kiqVars, outcomeVars, history>>

CleanQueue ==
  /\ pc = "cleanQueue"
  /\ Deactivate(Kiq)
  /\ dequeue' = dequeue \ {Kiq} /\ rung' = FALSE
  /\ pc' = "cleanGates"
  /\ UNCHANGED <<running, gates, gfx, fence, ignores, restless, marker, scanVars,
                 kiqVars, outcomeVars, history>>

CleanGates ==
  /\ pc = "cleanGates"
  /\ Shut(Gates)
  /\ pc' = "cleanVerify"
  /\ UNCHANGED <<running, hqd, dequeue, gfx, rung, fence, ignores, restless, marker,
                 scanVars, kiqVars, outcomeVars, history>>

\* The readbacks; any of them, or the proof after them, can also just raise.
CleanVerify ==
  /\ pc = "cleanVerify"
  /\ \/ /\ ~failure /\ running \cap Mecs = {} /\ ~hqd[Kiq] /\ gates = {}
        /\ kiq' = "retired"
     \/ kiq' = "failed"
  /\ pc' = "sdma"
  /\ UNCHANGED <<gpuVars, marker, scanVars, failure, scratch, outcomeVars, history>>

Transaction ==
  \/ KiqPrepare \/ KiqHalt \/ KiqRecheck \/ KiqScratch \/ KiqProgram \/ KiqGate
  \/ KiqStart \/ KiqRing \/ KiqFence \/ KiqUnmap \/ KiqRetire \/ KiqFault
  \/ CleanHalt \/ CleanQueue \/ CleanGates \/ CleanVerify

-----------------------------------------------------------------------------
(***************************************************************************)
(* quiesce_gc: close, halt, scrub, and prove.                              *)
(***************************************************************************)
\* Each phase raises if its readback still shows what it closed.
HaltPhase(from, engines, to) ==
  /\ pc = from
  /\ Halt(engines)
  /\ IF running' \cap engines = {} THEN pc' = to ELSE Raise
  /\ UNCHANGED <<gates, hqd, dequeue, gfx, rung, fence, ignores, restless, marker,
                 scanVars, kiqVars, outcomeVars, history>>

StopSdma == HaltPhase("sdma", {"sdma"}, "halt")
HaltCps  == HaltPhase("halt", {"me"} \cup Mecs, "close")

CloseGates ==
  /\ pc = "close"
  /\ Shut({"doorbell"})
  /\ IF gates' = {} THEN pc' = "scrub" ELSE Raise
  /\ UNCHANGED <<running, hqd, dequeue, gfx, rung, fence, ignores, restless, marker,
                 scanVars, kiqVars, outcomeVars, history>>

\* Mutant: the ring is judged by the snapshot the recovery started with.
ScrubStale ==
  /\ pc = "scrub"
  /\ ringClean' = (~needsUnmap \/ kiq = "retired")
  /\ left' = stuck /\ pc' = "force"
  /\ UNCHANGED <<gpuVars, marker, at, stuck, kiqVars, attempts, needsUnmap, receipt, history>>

\* The legacy ring's registers ignore the scrub while the ring is mapped, so
\* the snapshot after it is clean only if the ring is not.
Scrub ==
  /\ pc = "scrub"
  /\ ringClean' = (gfx = "unmapped")
  /\ left' = stuck /\ pc' = "force"
  /\ UNCHANGED <<gpuVars, marker, at, stuck, kiqVars, attempts, needsUnmap, receipt, history>>

\* A queue that did not drain is made inactive by its registers.
ForceInactive(q) ==
  /\ pc = "force" /\ q \in left
  /\ Deactivate(q)
  /\ dequeue' = dequeue \ {q}
  /\ rung' = (rung /\ q # Kiq)
  /\ forced' = (forced \/ (hqd[q] /\ ~hqd'[q]))
  /\ IF hqd'[q] THEN Raise /\ left' = left ELSE pc' = pc /\ left' = left \ {q}
  /\ UNCHANGED <<running, gates, gfx, fence, ignores, restless, marker, at, stuck,
                 kiqVars, outcomeVars, withdrawn, unseen>>

EndForce ==
  /\ pc = "force" /\ left = {}
  /\ left' = Selectors /\ pc' = "final"
  /\ UNCHANGED <<gpuVars, marker, at, stuck, kiqVars, outcomeVars, history>>

FinalScan(q) ==
  /\ pc = "final" /\ q \in left
  /\ IF hqd[q] THEN Raise /\ left' = left ELSE pc' = pc /\ left' = left \ {q}
  /\ UNCHANGED <<gpuVars, marker, at, stuck, kiqVars, outcomeVars, history>>

EndFinal ==
  /\ pc = "final" /\ left = {}
  /\ pc' = "commands"
  /\ UNCHANGED <<gpuVars, marker, scanVars, kiqVars, outcomeVars, history>>

(***************************************************************************)
(* perform_recovery: the PSP commands, the last gates, the receipt.        *)
(***************************************************************************)
Commands ==
  /\ pc = "commands"
  /\ pc' = "ihFinal"
  /\ UNCHANGED <<gpuVars, marker, scanVars, kiqVars, outcomeVars, history>>

InspectIh ==
  /\ pc = "ihFinal"
  /\ IF "ih" \in running THEN Raise ELSE pc' = "receipt"
  /\ UNCHANGED <<gpuVars, marker, scanVars, kiqVars, outcomeVars, history>>

\* safe_for_reuse; every register it also compares has been read back above.
SafeForReuse ==
  /\ stuck = {}
  /\ ringClean
  /\ needsUnmap => kiq = "retired"

\* CP or SDMA status may still read busy.
WriteReceipt ==
  /\ pc = "receipt"
  /\ \E idle \in BOOLEAN :
       receipt' = IF SafeForReuse /\ idle THEN "recovered" ELSE "incomplete"
  /\ pc' = "idle"
  /\ UNCHANGED <<gpuVars, marker, scanVars, kiqVars, attempts, needsUnmap, ringClean, history>>

\* A timeout, a fault in a journal or host gate, an exception of the transport,
\* or the death of the process: the attempt ends where it is, without a receipt.
Abandon ==
  /\ pc # "idle"
  /\ Raise
  /\ UNCHANGED <<gpuVars, marker, scanVars, kiqVars, outcomeVars, history>>

Host ==
  \/ Start \/ StopIh \/ Authenticate \/ Recheck \/ Snapshot \/ ClosePolling
  \/ PollDequeue \/ EndScan \/ ChooseRetirement \/ Transaction
  \/ StopSdma \/ HaltCps \/ CloseGates \/ Scrub \/ EndForce \/ EndFinal
  \/ Commands \/ InspectIh \/ WriteReceipt \/ Abandon
  \/ \E q \in Selectors : Inspect(q) \/ Rescan(q) \/ ForceInactive(q) \/ FinalScan(q)

Next == Gpu \/ Host

Spec == Init /\ [][Next]_vars

-----------------------------------------------------------------------------
(***************************************************************************)
(* Properties.                                                             *)
(***************************************************************************)

\* Every variable keeps its type.
TypeOK ==
  /\ running \subseteq Engines /\ gates \subseteq Gates
  /\ hqd \in [Selectors -> BOOLEAN] /\ dequeue \subseteq Selectors
  /\ gfx \in {"mapped", "unmapping", "unmapped"}
  /\ rung \in BOOLEAN /\ fence \in BOOLEAN /\ needsUnmap \in BOOLEAN
  /\ failure \in BOOLEAN /\ scratch \in BOOLEAN /\ ringClean \in BOOLEAN
  /\ forced \in BOOLEAN
  /\ ignores \subseteq MayIgnore /\ restless \subseteq Selectors \cup {"gfx"}
  /\ marker \in {"VALD", "ABRT"}
  /\ pc \in Pcs /\ attempts \in 0..MaxAttempts
  /\ left \subseteq Selectors /\ at \in Selectors /\ stuck \subseteq Selectors
  /\ kiq \in {"none", "not-needed", "blocked", "refused", "failed", "retired"}
  /\ receipt \in {"none", "recovered", "incomplete"}
  /\ withdrawn \in {"no", "early", "late"} /\ unseen \subseteq Selectors

\* A receipt that authorizes the next launch is true, and stays true: no engine
\* runs, no gate is open, no queue is active and the graphics ring is not mapped,
\* whatever woke, drained late, ignored a store or was left by earlier attempts.
AuthorizedMeansQuiet ==
  receipt = "recovered" =>
    /\ running = {} /\ gates = {}
    /\ \A q \in Selectors : ~hqd[q]
    /\ gfx = "unmapped"

\* "A late guest ABORT cannot race an earlier authentication and leave the host
\* using the dynamic scratch arena": only one that arrives in the gap between
\* the last readback and the first store, or after it, is missed.
ScratchBehindMarker == scratch => withdrawn # "early"

\* A transaction that was entered leaves the MECs halted, its queue inactive and
\* the gates closed on every path ("Its finally block leaves MEC1/MEC2 halted,
\* disables the temporary doorbell"), as far as the registers obey.
TriedMeansDown ==
  pc = "sdma" /\ kiq \in {"retired", "failed"} =>
    /\ running \cap Mecs \subseteq ignores
    /\ gates \subseteq ignores
    /\ hqd[Kiq] => ignores \cap {"hqd", "mec2"} # {}

\* "Never start MEC2 for the temporary KIQ while any earlier queue is still
\* live": only a queue that woke after its rescan and before the MECs halted.
KiqStartsBehindRescan ==
  pc \in {"kiqRing", "kiqWait", "kiqUnmap", "kiqRetire"} =>
    \A q \in Queues : hqd[q] => q \in unseen

\* A transaction reported as retired saw the ring inactive behind its own fence:
\* a mapping found later is a new one.
RetiredMeansUnmapped ==
  kiq = "retired" => gfx # "unmapping" /\ (gfx = "mapped" => "gfx" \notin restless)

\* The temporary queue is used in order: its scratch behind the marker, its start behind
\* the rescan, its verdict behind its own fence, and everything down again after it.
KiqOrdered ==
  ScratchBehindMarker /\ KiqStartsBehindRescan /\ RetiredMeansUnmapped /\ TriedMeansDown

\* Documented: "A forced HQD clear remains diagnostic only and can never
\* authorize another launch".
ForcedNeverAuthorizes == receipt = "recovered" => ~forced
=============================================================================
