# Verification of the Raphael iGPU kext and its host tools

The repository runs macOS in a virtual machine on the integrated GPU of a Ryzen
processor.  A Lilu plugin in the guest (`src/`) repairs Apple's driver for this
GPU; host tools (`tools/`) launch the machine, capture its logs, take the GPU
back when it ends, and decide from the evidence whether the next launch is safe.
The GPU cannot be reset: a queue or a DMA engine that was left running can write
into memory that is no longer the guest's, and a recovery that touches memory
the guest still uses can hang the host.  What has to be right is therefore the
*hand-over*: who may touch the GPU's memory and queues, when, and on what proof.
These modules are about the hand-over.

## 1. Inventory

| Component | State | Operations | Meets |
|---|---|---|---|
| Recovery lease and lifetime marker (`src/RecoveryLease.hpp`, `RecoveryLifetime.hpp`, callbacks in `RaphaelGPU.cpp`) | atomic lease phase, atomic gate word, three records in video memory, pool status | claim, clear, publish OWNED, reserve pools, publish POOL ACTIVE, publish VALID, commit, invalidate, abort | driver threads; the host reads the records after the guest is gone |
| DMA guard (`tools/dma-guard.py`, the QEMU patch, `tools/vm-supervision.py`) | descriptors held by three processes, a socket, a receipt file, a reservation | start, connect, arm, STOP/SAFE, death, quiesce, release, retain | QEMU, Docker, systemd, the GPU's DMA sources |
| Critical log and replay (`DiagnosticRecords.hpp`, `CriticalReplay.hpp`, `CriticalUart.hpp`; `critical-replay.py`, `critical-transport.py`, `sercat.py`, `experiment.py`) | slots and counters, UART state, replay number, request file, capture | append, snapshot, token, acknowledge, parse, receipt | driver threads, worker thread, collector, run loop |
| Address planning (`HostMemoryReservation.hpp`, `GartAddresses.hpp`, `KiqAddresses.hpp`, `VmEntryUpdate.hpp`, part of `RecoveryLease.hpp`, hooks in `RaphaelGPU.cpp`) | the limit handed to Apple, predicted ranges | plan the host's tail, predict and compare a reservation, convert an address | Apple's allocators, VM manager and page-table updater |
| KIQ queue preparation (`KiqQueuePreparation.hpp`, `prepareKiq`, `wrapKiqStart`) | queue registers, the MEC control word, one transaction | deactivate, reset, halt, enter Apple's `startKIQ`, verify, release or contain | Apple's driver, the compute firmware, the recovery lease |
| Run admission (`experiment.py`, `vm-supervision.py`, `vfio-recover.py`, `mode2-noqueue-recover.py`) | ledger, reservations, receipts, output directories, services | admit, reserve, launch, reconcile, stop, recover | everything above |
| Host recovery (`vfio-recover.py`, `ih-vfio-recover.py`, `recovery_lease_v2.py`, `recovery_lifetime_v3.py` and variants) | GPU registers, records in video memory, one receipt per run | authenticate, recheck, drain queues, retire the graphics ring, halt, scrub, prove, write the receipt | the records of the guest, firmware that still runs |
| Virtual console (`src/ConsoleBridge.cpp`, the Bochs snapshot patch) | owner, epoch, sequence, buffers and their references, the device | open, map, arm, commit, close, client death, termination, stop | user clients, QEMU |
| Display writeback (`WritebackDisplay.hpp`, `SdmaCopyPackets.hpp`, pollers and power handler in `RaphaelGPU.cpp`, the QEMU display patch) | writeback engine, copy queue, control page, QEMU's reading of it | start, publish, copy, hang, power off, load, configure, forced stop | macOS modes, QEMU |
| Supervision and capture (`vm-supervision.py`, `guest-shutdown.py`, `sercat.py`) | units, containers, markers | launch, stop, archive | Docker, systemd |
| Video, libvirt, desktop helpers, native framebuffer, diagnostics | their own | see PROJECT.json | |
| Payloads, tables, build and staging tools, past experiments | data | | |

PROJECT.json lists all components and, under `hazards`, what is hard to test in
them.  The hard behaviours are: driver callbacks on any thread, with a lock-free
word between them; a guest that can be stopped between any two stores; video
memory that keeps the records of the run before; a QEMU that can die while its
DMA mappings are live; a serial line that can be cut at any byte; and requests,
receipts and timeouts that cross.

What makes each part correct, in a sentence: the host never accepts a marker of
a guest that did not exclude the lease, and never again one that was withdrawn;
no DMA source runs without a mapping that somebody alive owns; what the host
accepts from the serial line is what the guest logged, up to a point the host
asked for; nobody is given video memory that somebody else has; Apple's driver
starts a compute queue only where the queue is quiet or the engine held, and what
is borrowed for that is given back; a frame that is shown is whole; and a GPU a
guest has used is not given to another before it is proved quiet.

## 2. Plan

1. **Done** `GuestRecovery` over `DurableRecord`, implementing `RecoveryContract`:
   checked, and every safety property and the refinement proved.
2. **Done** `DmaGuard`, implementing `DmaContract`: checked, and every safety property
   and the refinement proved.
3. **Done** `CriticalReplay` over `CriticalCapture`: checked, and every safety property
   proved.
4. **Done** `HostRecovery` for a schema-3 lease: checked, and every safety property of
   its passing run proved.  Left of it: the clearing of a stopped write pointer, which can confirm a failed retirement, and
   the fixed reservation that is consumed.
5. **Done** `VramAddresses` and `VramLayout`: checked, and all its invariants proved.
6. **Done** `KiqStart`: checked, and all its invariants proved.
7. **Done** `ConsoleSnapshot` and `DisplayRegion`: checked, and every safety property
   proved.
8. **Done** `RunAdmission`, implementing `ExposureContract`: checked, and its
   inductive invariant and the refinement proved.
9. Left: the warm and continued forms of admission and the host's registry of
   reconciled launches; the libvirt hand-over; submission diagnostics
   (`SubmissionTracker`), which observe and decide nothing.

## 3. The modules and the code

### 3.1 The guest: `DurableRecord`, `GuestRecovery`

`DurableRecord` is one 64-byte record in video memory as words that are stored
one at a time, and the publication and clearing protocols of `RecoveryLease.hpp`
and `RecoveryLifetime.hpp`: state word, body in any order, commit word, readback.
`GuestRecovery` is the phase word of `LeaseState`, the control word of
`LifetimeGate`, the three records (OWNED, POOL, LIFE) and the driver callbacks.
One member of `ReadyCalls` is one call of `wrapVmmSetVSReady`, one member of
`EnableCalls` one of `wrapHwMemEnable`; `pc` is where that call is, `job` the
publication it is in the middle of, `acquisitionExpected` the value it read of
`canAcquire()`.  A step is one atomic operation, one store or one readback.

| Code | Actions |
|---|---|
| `wrapVmmSetVSReady`, `establishBeforeVmm` | `ReadyStart` to the store of the owners |
| `wrapHwMemEnable`, `beginPool`, `finishPool`, pool status | `EnableStart`, `BeginPool`, `NativePools`, `FinishPool`, `ActivePublished`; `RefusePool`, `FailPool`, `PublishInvalid`, `PoolInvalidate` on refusal |
| `authorizeRecoveryClients` | `Authorize`, `BeginValid`, `FinishValid`, `CheckGate`, `Commit` |
| `abortRecoveryLifetime` | `RequestAbort`, `InvalidateForAbort`, `FinishAbort` |
| publishing or clearing one record | `JobCheck`, `JobMark`, `JobStore`, `JobCommit`, `JobVerify` |
| `authenticate_v3_host_kiq_lease` on the host | the predicate `HostAccepts` of a state |

The guest can be stopped by force at any time.  That needs no action: the state
reached is the state the host finds, so `HostAccepts` is asked of every state.
Video memory starts with nothing or with the records of an earlier run of the
same lease.  Access to the BAR can be lost at any point: stores and reads fail
from then on.

Left out: `recoveryLeaseElement` is a global that a second enable call can set to
null under the first; this is inside the free choice of what the native pools
find.  The early return for another hardware object (`self != hwMemObject`), the
re-checks of `publishRecoveryPoolStatus`, calls with `ready = 0`, and all addresses
(plan, item 6).  The window in which the publisher of VALID has taken over a
deferred abort while its requester has not yet invalidated the lease is in the
model: the design note says that the lease is invalidated before ABORTING is
written, which is not so there, but the lease is still `PoolVerified`, no KIQ
start is admitted (`WithdrawnClosesKiq`) and nothing follows from it.

### 3.2 The DMA guard: `DmaGuard`

Per launch: `service` is where `start`, `launch` and `cleanup` of
`vm-supervision.py` are, `qemu` where the patched QEMU is, `guard` where `serve()` of
`dma-guard.py` is; `conn`, `toGuard` and `toQemu` are the socket and its two
directions, `receipt` the guard's file, `pending` the reservation.  `Held` says
whether the guard holds the descriptor; what keeps the mapping alive (`Context`)
counts a descriptor in a message nobody has read.  `active` is one set for the
device: the display, the interrupt rings, the engines.

The register sequences (`ih_dma.py`, `dma_engines.py`, the display stop) are one step
per group of sources.  Left out: an eject of the device from a vCPU thread; the
death of the guard itself, which the documentation places outside the qualified
shutdown paths; `-no-shutdown` (the libvirt plan destroys on every event); capture,
timers and archiving of the supervision.

### 3.3 The critical log: `CriticalReplay` over `CriticalCapture`

Producers append in four steps (`Append1`: take a number, copy, publish, or count a
drop).  The worker samples the three counters in three loads, emits a snapshot
line by line, and after a token compares the counters in three more loads before
it acknowledges.  A write can be cut at any byte (`Write`: a line arrives "full", "part"
or "short", with its terminator open, half or whole), after which the UART
stays silent to the end of the attempt.  The host sends the token byte by byte
into a FIFO of limited length that a retry resets, and reads the capture.
`CriticalCapture` is the parser of `critical-replay.py` and `quiesced_state`: what a
capture of such lines is taken to say.  A record fits one chunk and its digest is
the record itself; delay in the collector is the host reading earlier.  Left out:
a UART that fails to initialise after the boot, the open-attempt tolerance,
replay over COM1.

Stalls, and with them the FIFO reset of a retry, occur in `critical_replay` only.
The liveness run has none: that the request is answered in spite of resets is not shown.

A snapshot that samples `truncated` before a reserved slot is cut can end with a
manifest of no loss over a cut record.  `AckFresh` shows that only the comparison
before the acknowledgement notices this: a capture without an acknowledgement
proves less.

### 3.4 The host's recovery: `HostRecovery`

The GPU is a set of running engines, open gates, one bit and one pending dequeue
per queue, and the graphics ring (`mapped`, `unmapping`, `unmapped`).  The recovery is
`pc` and what one attempt remembers (`stuck`, `needsUnmap`, `kiq`, `ringClean`); the
receipt is all that outlives an attempt.

| Code | Actions |
|---|---|
| `recover` | `Start`, `WriteReceipt` |
| `ih-vfio-recover` | `StopIh`, `InspectIh` |
| `authenticate_v3_host_kiq_lease`, `_recheck_v3_lifetime` | `Authenticate`, `Recheck`, `KiqPrepare`, `KiqRecheck` |
| `quiesce_gc`, queues | `Snapshot`, `ClosePolling`, `Inspect`, `PollDequeue`, `Rescan`, `ChooseRetirement` |
| `retire_legacy_gfx_with_host_kiq` | `KiqHalt` to `KiqRetire`, `KiqFault` for a raise anywhere in the `try`, then `CleanHalt` to `CleanVerify` whatever happened |
| `quiesce_gc`, the rest | `StopSdma`, `HaltCps`, `CloseGates`, `Scrub`, `ForceInactive`, `EndForce`, `FinalScan`, `EndFinal` |
| `perform_recovery` | `Commands`, `SafeForReuse` |
| any raise, timeout, failed host gate or kill | `Abandon` |

Beside it: queues of an engine that runs can wake (`Wake`) and drain late (`Drain`),
MEC2 executes the packets, the graphics ring goes idle some time after the
fence or never, or becomes mapped again, and a late abort of the guest reaches the
marker.  One unit per behaviour may ignore all its writes, which is what the
readbacks are for.

Abstractions: a register phase and its readback are one step, so an attempt ends
between phases; the order of the selectors is free; the GRBM selector is not
kept; graphics pipe 1 is idle; the scrub is ignored while the ring is mapped, as
the source says was measured; PSP commands are one step that can raise.  Lease
schema 2, the fixed reservation and the clearing of a stopped write pointer are
left out; the last is another way to a receipt, about which nothing is claimed.
`unseen`, `withdrawn` and `forced` are history: no action reads them.

The comment at `vfio-recover.py:2543` says "Never start MEC2 for the temporary KIQ
while any earlier queue is still live".  What holds is `KiqStartsBehindRescan`:
a queue that wakes between its rescan and the halt of the MECs is live when MEC2
is started, and only the final scan keeps it from a receipt.

### 3.5 Video memory: `VramAddresses`, `VramLayout`

`VramAddresses` holds the predicates as operators on integers: `ValidAperture`,
`Plannable` (`KiqAddresses.hpp`), `HasEntry` (`GartAddresses.hpp`), `TailPlannable`
(`HostMemoryReservation.hpp`), `Converted` (`VmEntryUpdate.hpp`), `TopDown` and
`VmmPredicted` (`RecoveryLease.hpp`).  The comparisons are the code's; that no sum or
product wraps a 64-bit word is proved where it matters (`SpanFits`).  `VramLayout`
is the order in which the driver applies them: `ReserveTail` is
`wrapGmmSetMemoryAttributes`; `Append`, `Validate`, `NativeVmm`, `Check` are
`wrapVmmSetVSReady` around Apple's manager; `PlanImage` is in `prepareKiq`;
`UpdateEntries` is `wrapVmmUpdateEntries`.  Other native clients reserve from
either cursor at any time (`OtherReserve`), and a native reservation may land
elsewhere than expected (`Misplaced`).

The native allocator is taken not to give a client a range that another one has.
That is an assumption on Apple's code: were it to return such a range at
the predicted offset, nothing in the driver could see it.  Where else it may land is
free, and the theorems hold for every `Misplaced`.  Left out: decoding of register
fields, and the firmware handshakes before the tail is planned.

### 3.6 The compute interface queue: `KiqStart`

`pc` walks through `prepareKiq`, `prepareQueueForNativeStart`, `beginHaltedNative`,
Apple's `startKIQ` (any control writes, any queue it may program, any return) and
the rest of `wrapKiqStart`.  Between any two steps the firmware drains or fetches,
something submits through an open ingress, the bus is lost, the lease is withdrawn,
or the queue image is rewritten (`Mishap`); one unit per behaviour may ignore
single stores; the halt word has two bits of which one may latch.  A snapshot of
all queue registers is one step with the store it leads to.  Calls come one at a
time.

The guard of a probe (`preserveNativeMecHalt`) knows one control write, by caller,
client, flag and context, and sits in `wrapGcCgsWrite2` alone.  `NativeControl`
therefore chooses whether a write is the audited one: `Effective` halts only that
one, any other lands as it is and is remembered in the history `stray`.  What
`ProbeContained` claims is divided accordingly.  A probe never reports a started
queue.  The MEC is halted throughout as long as no stray write came.  With stray
writes the MEC may run inside the native call; what is claimed is that the returned
call has halted it again and closed the ingress, where these stores land.

The comment at `KiqQueuePreparation.hpp:75` says that a setup failure after the halt
write must not leave the MEC halted.  `SetupFailureRestores` is this for every
setup in which nothing changes beneath the call and the MEC's own stores land: any
other unit may ignore its stores (an ACTIVE clear that is ignored is the case of
the repository's test), and the word is given back.  It is not so for a PQ address that
changed during the setup: `prepareKiq` returns with the word in hand and the MEC
halted, which is the finding of `kiq_moved_pq`.  `HeldMeansHalted` is what remains
there: a call that keeps the word leaves the MEC halted, never running over a queue
nobody verified.

One observation.  After a contained failure a second call can report "started"
while the MEC is halted: `StartedMeansSound` claims the control word only for a call
that held it.

### 3.7 The console: `ConsoleSnapshot`

User clients (`client`) lease QEMU's snapshot window one after the other.  What runs
under the driver's lock is one step, allocation before the lock and mappings
outside it are steps of their own, and so are client death, termination of the
provider (`Terminate`, then `Stop` some time later), device publications and accesses
that are not the driver's (`Stray`).  `refs` counts what `retain` and `release` count.
The Bochs device has no reset handler, so the initial states include a device the
driver before this boot left armed or retired.  Left out: `mode()`, pixel contents,
and the patch that copies without the lock.

### 3.8 The display: `DisplayRegion`

The three threads of the guest (`wbTick`, `sdmaTick`, the power handler) run between
each other's stores: a publication is its stop list, flag, two halves of the
geometry and `guestSeq`, one store each.  QEMU reads the page in steps (`Load`,
`SnapSize`, `Configure`) and stops the listed sources when it exits, wherever the
virtual CPUs are.

Observations.  The comment at `WritebackDisplay.hpp:104`, "guestSeq is written last so
QEMU never sees a torn update", is not so: QEMU loads `guest_seq` first, copies the
page after it and does not look again, so it can configure a mixture of two
geometries; the next refresh mends it, which is `SettledGeometry`.  The comment at
`RaphaelGPU.cpp:10056`, "even a forced stop leaves no DMA source running", has
windows: writeback starts before the list is published, a refill of the list sets its
count to zero for a moment, and before the first publication the page has no
magic; `ForcedStopQuiet` says what holds.  A poller past its check can switch the
queue or writeback on again after the power handler switched it off, and the
result of `sdmaWaitIdle` is not used.  Left out: following the window size, the
viewer's heartbeat, cursor position, detile buffers, wrap of the ring,
register tables.

The region is found blank, as QEMU zeroes it, or as an earlier boot of the guest under
the same QEMU left it.  Nothing in stage 2 clears the status word at +0x184:
`sdmaStageA` of stage 1 does, while `sdmaQueueUp` clears only the rings, and
`sdmaSeq` and `sdmaLastIdx` start at 0 again.  A left region therefore comes with any
word of `LeftWords`, with half written buffers, and with a QEMU that waits or shows
what it was told.  Without an exception `PictureWhole` fails there:

- The word names a buffer that the earlier boot left half written, or buffer 1, to which
  the first frame of this boot is copied.  It stays so when that copy hangs.
- The word's number is 1, that of the first submission (`RaphaelGPU.cpp:10583`).  The
  copy counts as landed before it is; a cursor image in it is announced before it is
  there; the next submission comes to stand behind it in the ring (`behind`); and
  while it runs the stop list is rewritten for the next geometry, so that a forced exit
  finds an empty list.

So `PictureWhole` claims nothing of a left word until the first frame of this boot has
landed, and in such a boot nothing of the cursor; `ForcedStopQuiet` claims nothing of the
queue until then.  `word` is the history that says which of these a behaviour is
in: "zeroed", "left", or "renewed" by the first frame.  From the first frame on everything
is claimed, also with the second copy behind the first.  The repository's text
says nothing of a region that was used before, so this is an observation and not a
finding.

A left page is one after a whole publication: a boot that ended in the middle of one is
not among the initial states.  The queue is off at the start; `sdmaQueueUp` refuses
one that is on.  macOS may change or switch off the mode at any time, which the model
does where the driver looks (`Setup`, `StopWriteback`, `Sample`).

### 3.9 Who gets the GPU: `RunAdmission` under `ExposureContract`

Per run: the coordinator's place in `run_one` and `start_locked` (`pc`), the service,
the container; per boot: ledger (`rows`, `torn`), receipts, output directories; and
what outlives a boot, reservations and manifests.  `Recover` is `vfio-recover.py` and
`mode2-noqueue-recover.py`.  Any process can be killed at any step (`Crash`,
`ServiceEnds`, `RecoveryFails`), a ledger or a receipt can stay half written, a
`docker run` whose cleanup failed can still come up, and the host can be booted
again.  The contract is two variables: who has the GPU, and whether it was used
since it was last proved quiet.

Taken from outside: systemd has processed a `systemd-run` before a later `stop` or
`show`; a `docker run` in flight comes up only behind a cleanup that was not
confirmed, because a confirmed one has ended its guard (3.2); only one QEMU
can hold the device while a recovery opens it.  The registers of a recovery are
one step here and 3.4 there.  Left out: the continued, warm and qualification
forms of a run, with the admission by a proof of no queue use (`--noqueue-reuse`,
`experiment.py:3007`), which takes the place of a recovery receipt, the revision of the cap of launches per boot, receipts of a
retained KIQ, the byte checks of receipts, the boot disk of a candidate,
`cleanup` by hand and `start --gpu`, which pass by the ledger.

Observations.  `docs/running-an-experiment.md:121` says that an abort before QEMU
starts must not consume a ledger entry; a kill, or an error of another kind,
between the row and systemd does consume it.  A reservation file whose write
failed, or that a power loss left, blocks every launch until somebody removes
it.  A run that fails gives the lock back before its guest is down and its
recovery begins, so another coordinator can take it and that recovery fails.  A
torn ledger refuses everything for the rest of the boot.

## 4. Runs

All properties of a passing run hold in every reachable state of its instance.

| Run | Instance | Shows |
|---|---|---|
| `guest_recovery` | 2 ready, 2 enable calls, BAR may be lost, stale or clean memory, fair | all safety of the guest, the refinement of `RecoveryContract`, and that an accepted abort reaches video memory |
| `guest_late_invalidation` | the same | **finding** |
| `dma_guard` | 2 launches, every operation may fail; the guard and the death of the first are fair | mapping outlives DMA, receipts tell the truth, refinement of `DmaContract`, a dead QEMU's device is let go or kept for good |
| `host_recovery` | 1 queue and the KIQ's, 2 attempts, any one unit deaf | the receipt is true; the KIQ transaction is closed on all paths |
| `host_recovery_forced` | the same | **finding** |
| `critical_replay` | 2 producers of 1 record, 2 slots, 2 replays, 1 cut | what is accepted is what was logged |
| `critical_replay_liveness` | 2 producers, 1 slot (so drops occur), 3 replays, no cut, fair | acknowledgements hide no loss and come |
| `queue_memory` | 16 units of memory in pages of 2, 31 layouts of memory and firmware windows, 2 other clients; all 4 modes of `startKIQ`, any one unit deaf, 2 calls, 1 mishap | nothing that is handed out is in use; Apple's code starts on a quiet or held queue; what was borrowed is given back |
| `kiq_moved_pq` | 1 call in halted mode, every store lands, 1 mishap | **finding** |
| `console_snapshot` | 4 clients, 3 connections, 3 buffers, 3 epochs, 1 stray access | one live owner of the window, exact counts, agreement with the device |
| `display_region` | 2 modes, 2 buffers, guest numbers up to 3, 2 copies, a blank region or one left with any of 4 status words | what is shown is whole; a forced stop stops the sources |
| `run_admission` | 2 runs, 2 host boots | one guest at a time, on a GPU proved quiet |

Bounds.  Two calls of each kind are what a race on a word needs: every shared word
has a winner and a loser, and a call is used once; the proofs of section 6 remove
the bound.  Two launches are an owner and a successor, and launches meet only
through the device and the reservation.  Two producers are one that holds a slot
open while another publishes the next; one slot makes the second a drop.
`TokenLength` 2 and `RxLimit` 2 let a token be split, cut and overlap a second one.
Two attempts of the recovery are one that leaves something behind and one that
finds it, with a memory of nothing but the GPU, the marker and the receipt.  One queue beside the
KIQ's is enough for the scans because they treat the selectors alike and the only
interaction of two queues is through `stuck = {}`; each queue and the ring wake
once (`restless`), in whichever phase hurts.  A queue of MEC1 is not in the
instance (`Mec1Queues`): MEC1 is halted with MEC2 and never started again, so
its queues can do less; with `Mec1Queues = {q1}` the same properties hold.

Video memory of sixteen units with words up to 127 puts every edge of every range
within reach of every other, and the theorems remove the size.  `MCQueueMemory` joins
the memory and the queue in one run: they share no variable, so each behaviour moves one
(`part`) while the other rests in one initial state.  Of the queue the
second call is what finds the queue as the first one left it, and one mishap falls at
any place (a PQ address that is empty from the start is left to the mishap that empties it); the theorems remove both bounds.  Four clients at three connections let
one be refused and one reuse a freed identity; the fourth buffer is what a broken
limit would take.  Two buffers of the region are the one shown and the one
written; two modes are the old and the new.  The left status words are both buffers with the
number the first submission has and with one it has not; two copies are the one
taken for landed and the one behind it, or the two that share the buffers; a left page
starts at number 1, so three is two publications more.  Two runs are the one that leaves the GPU
behind and the one that asks for it; with two boots each may be prepared in one and
launched in the other.  Three runs are beyond a run of minutes, and beyond the
code's cap of launches only by its revision.

Symmetry is used only where no liveness is checked.  Deadlock is checked
in the guest, guard and admission runs; in the others the system really ends:
with the worker or the receipt, the last call, the last client, the accepted
layout, the exit of QEMU.

### Fairness

`GuestRecovery`: a call that was started keeps running (`WF` on each call), since
a driver callback returns; no call need start and the BAR need not fail.
`DmaGuard`: the guard process of the watched launch runs on and its QEMU, when it is
dying, dies; nothing is assumed of the guest, Docker or the supervisor.  Operations may
still fail, so the promise is an end, not a release: the device is let go, or the
receipt is terminal and the device is kept.  `CriticalReplay`: threads are
scheduled, the collector sends and the host reads; the end of the window
(`WindowEnds`, `GiveUp`) is not fair, so an answer is owed only while an attempt is
left and the log is quiet (`Answered`).  The other modules have no
liveness property: a recovery that raises, a call that refuses and a launch that is
not admitted are correct outcomes.

## 5. Findings

- `guest_late_invalidation`: a second ready call that read `canAcquire()` as true
  before the first one claimed the lease invalidates the lease later and starts no
  abort, because `wrapVmmSetVSReady` decides on the old read; the marker stays VALID.
- `host_recovery_forced`: a recovery that cleared a live queue by force and then
  failed leaves no record; the next attempt finds everything quiet and its
  receipt authorizes a launch, which the design excludes for a forced clear.
- `kiq_moved_pq`: a setup that is refused because the PQ address of the queue image
  changed behind the halt write leaves the MEC halted and its word with nobody, which the
  comment on the transaction (`KiqQueuePreparation.hpp:75`) excludes.

Three more disagreements were met in modules that are checked, and have no run of
their own.  The launch reservation is removed at readiness, while the message of a
cleanup that cannot confirm the release says it is retained (`vm-supervision.py:888`).
The worker replays every ten seconds with or without new records, while the
parser refuses a capture on the belief that it does not (`critical-replay.py:265`).
An acknowledgement cut before its line end is completed by the delimiter of the next
attempt (`CriticalUart.hpp:142`), so the host has a receipt that says "stopped
replay" of a worker that goes on; what the receipt holds is true all the same, and stays
in the capture (`ReceiptStands`).  The observations in 3.6, 3.8 and 3.9 are of the
same kind.

## 6. Proofs

Every invariant, action property and refinement that a passing run checks is also a
theorem; eight modules hold the proofs of the nine specifications.  TLAPS checks them for
every value of the constants that the named assumption of the module admits.  Each
inductive invariant was checked by TLC on the instance of the module's run before it was
proved; `guest_recovery` and `run_admission` still check theirs (`IInv`), so that the
strengthening is seen to be reachable and is kept with the model.

### The guest

`GuestRecovery_proof` is for any sets of ready and enable calls.  The only assumption
is `CallsAssumption`: the two sets are disjoint and `BarMayFail` is a Boolean.

`TypeOK` is inductive alone (`TypeCorrect`).  None of the other invariants is: that
the host accepts only an excluded lease depends on who may store to which record,
and that on who owns the phase word and the gate.  `IInv` in
`GuestRecoveryInvariant` says this in layers, each proved from the ones before:

1. `LeaseExclusion`: at most one call between a won claim and its last CAS, at most
   one behind a won `BeginPool`, never both.
2. `GateExclusion`: one owner of the gate and one of the abort; the gate opens only
   behind a verified lease.
3. `JobBinding`, `ReasonBinding`: which publication a label is in the middle of, and
   that the abort carries the first reason.
4. `Progress`: how much of a record is in memory at each step of its publication.
5. `MarkerState`: the marker of this boot against the gate and the lease.
6. `RecordsKept`: OWNED and POOL, once complete, are never stored to again.
7. `Carried`: while the BAR works no publication of the marker fails, and an
   accepted abort has a call that will write it.

From `Spec => []IInv` follow `OneWriter`, `WithdrawnClosesKiq`,
`AcceptedMeansExcluded`, `ActiveBehindMarker`, `PoolRecordKept`,
`FirstReasonDurable`, `AbortedWhenQuiet`, and the action properties
`FirstReasonKept` and `WithdrawnForGood`.  `ContractImplemented` is by step
simulation: the step that finishes the marker maps to `Authorize`, the store of
ABORTING to `Withdraw`, the native pools to `Exclude`, a commit to `Admit`, every
other step to a stutter; two lemmas say which steps move the marker and which
leave it.

`CleanBootAdmits` says that a boot is not lost for nothing: where no more than one call of
each kind started, the BAR works and the native pools were reserved, a quiet state is an
admitted one that the host accepts, whatever an earlier run left in memory.  It needs two
invariants beside `IInv`.  `ActiveLands`: while the BAR works, a publication of the pool
record does not fail and what it verifies is in memory.  `CleanPath`: before the enable
call starts, the ready call moves the lease alone (`ReadyAlone`); once it has left an
owner it has returned, and `EnableAlone` gives lease and gate at each place of
the enable call and says that no place of a refusal or an abort is reached
with the pools reserved.

### Video memory

`QueueMemory_proof` holds the proofs about `VramLayout` and about `KiqStart`, the memory the
queue image lies in and the queue; the two do not refer to each other.  The first takes
`WordAssumption` and `LayoutAssumption`: sizes are positive, addresses are words, windows
are of known form.  It starts with the arithmetic of division and products, shows what
each predicate of `VramAddresses` guarantees once it accepts (`TailPlanned`, `SpanFits`, `ForwardedWhole`, `EntryInTable`,
`ImageVisible`), and carries that through the boot with `LayoutInv`: a range is
recorded once, checked once and never moved.  From it follow `FirmwareTailKept`,
`UpdatesMoveWhole`, `LeaseStaysApart` and `ImageStaysApart`.  `ArenaInv` adds what the two
cursors mean: each is inside its pool, every range another client has lies above it,
and a prediction is a range of the pool it was made for.  With it an arena that was
accepted is apart from all of them (`RangesStayApart`), and the numbers stay natural
(`LayoutTypeCorrect`).

### The queue

The second half of `QueueMemory_proof` takes `KiqAssumption`: modes and units are of known
names.  It is for any set of modes, whichever one unit ignores stores, and any number of
calls and mishaps.  `TypeOK` is inductive only with `WordKnown` (a store of the saved word needs a saved word), and the properties need,
place by place, what the call knows of the queue (`QueueKnown`), of the control word
(`WordKnown`) and, in a probe, of the halt and the guard (`ProbeKnown`).  The argument
for `KiqEnteredQuiet` is that an inactive queue without ingress cannot become
active or pointed by itself.  `KiqProbeContained` has two halves: without a stray
write a halted MEC stays halted under a store of the halt word whichever bits latch;
with one, the last step of the call halts it again, and between calls nothing writes
the word.  What a call reports needs three
more parts (`OutcomeInv`): the selector is put back while there is a bus
(`SelectorKnown`); on the way to "started" the word is no longer held and the queue is the
one that was verified (`ReturnKnown`); and before Apple's code nothing but a mishap
changes what the call read (`SetupKnown`), so that a setup refused without one has found
its word unchanged or put it back.  They give `KiqOutcomesSound` and
`KiqBorrowedGivenBack`.

### The critical log

`CriticalReplay_proof` takes `LimitAssumption`: capacity, window, token and FIFO are
positive, attempts are left when the window ends, and a token fits into the FIFO.  The
number of producers, their appends and the stalls are free; producers need not even be
finitely many.  No property is inductive alone, and `TypeOK` is no exception: that dropped
and cut appends do not outnumber the reservations needs the appends that have still to be
counted (`Counted`), and that a producer writes an unpublished slot needs the
`Discipline` of all of them.  The invariant follows a record to the host:

1. `Discipline`, `CutCounted`: a slot has one writer until it is published and none
   after, and a cut record was counted before it is published.
2. `Truthful`: so a chunk on the wire says for ever what its slot says, and the digest of a
   manifest what the slots it counts say.
3. `Numbered`, `Current`: lines come in the order of their snapshots, and none is ahead of
   the worker.
4. `EndsWhole`: a stall silences the UART for the rest of the attempt, so a manifest in
   full text has all its chunks before it.  With 2 this is `EndMeansWhole`, with 3
   `CaptureConsistent`.
5. `Requested`, `Answerable`, `Emitted`, `Acked`: a token is only seen after the request, so
   the samples of a final attempt cover what the host is owed, its manifest is in the capture
   before the counters are compared, and of the comparison the truncation counter is what
   keeps an earlier sample of no loss from being acknowledged over a cut record.  `AckFresh`
   follows where the host reads the capture.

`ReceiptStands`, a part of `CaptureSound`, is what is left of a receipt where the replay goes
on after it: the manifest that was accepted ended well, no write touches such a line
(`CaptureGrows`), and no other manifest of its number exists (`Standing`, `RecordsAre`).

`HandshakeSoundAlways` is for `MaxStalls = 0`, the case its comment states: with stalls
`ReceiptMeansStopped` is false, as section 5 says.  It adds `Smooth`: no line is cut, every
snapshot the worker has left is ended, and an acknowledgement is the last line.  Then the
capture is valid, the parser accepts it in either mode, its latest snapshot is the one
that was acknowledged, and the only way to a refusal is a counter that is not zero.

What the token matcher and the parser compute over a sequence needs an induction over its
length.  The library's theorems for that take an operator; `LeastMember` (a set of natural
numbers has a least member, from the well-foundedness of `<`) does not, and a set of
counterexamples without a least member is empty.  `Scan` is proved in this way.

### The DMA guard

`DmaGuard_proof` takes `WatchedAssumption` (the launch that fairness is about is a launch)
and `FailureAssumption` (`MayFail` is a Boolean); fairness is not used.  VFIO admits one
holder of the group, so at most one launch has a context (`OneContext`).  Within a launch
the socket carries the order: what is in flight says where the other side is
(`QemuOrder`, `Socket`), so a virtual CPU that runs has an armed guard, also between the
close of the socket and the last exit of a thread (`GuestArmed`).  Hence nothing
restarts a source the guard has passed (`Stages`), and what still writes has a launch
whose guard holds the mapping (`Driven`).  This is `Protected`; with `Reported`, what a
receipt or its absence says of the guard, it is `ReceiptsTrue`.  `ImplementsAlways` is by
step simulation.

### The host's recovery

`HostRecovery_proof` takes `UnitsAssumption`: the temporary queue is none of the guest's, and
units are of known names.  It is for any queues on either MEC, any number of
attempts, and whichever one unit is deaf.  A phase ends the attempt unless its readback
shows the unit down and no later phase starts one again (`UnitsDown`); with the
processors halted, a queue or ring seen inactive stays so (`QueuesDown`), also behind the
receipt (`Authorized`).  That is `AuthorizedMeansQuiet`.  For `KiqOrdered` the order inside
the transaction is what counts: `MarkerOrder` (the marker is read back next to the
first store), `RescanOrder` (a queue active behind the rescan woke after it),
`FenceOrder` with `RingRetired` (the fence that is seen is the one of this transaction,
and its packet is not executed twice), and `CleanOrder` (the cleanup takes down what
obeys).

### The console

`ConsoleSnapshot_proof` takes `ConsoleAssumption`: finitely many clients and buffers, limits
that are natural numbers.  The counts need finiteness, since a buffer's count is a
cardinality.  A connection arms once (`Connected`), the owner is open and the driver
copies from its private buffer (`Owned`), no two connections refer to one buffer
(`Apart`), and every retain and release moves the count with exactly one reference
(`RefsExact`).  While there is an owner the device is in its epoch and in step, so a
retirement cannot fail (`Followed`).  From these follow `LeaseSoundAlways`,
`InAgreementAlways` and, as an action property, `PoisonedForGoodAlways`.

### The display

`DisplayRegion_proof` takes `DisplayAssumption`: two buffers or more, any geometries, any
left status words, any bounds.  Until a power-off is announced one thread publishes
(`Roles`), so the page behind its place is its geometry (`Halfway`), and what QEMU read is
not newer than the page, and if as new, the same (`Read`, `Agreed`): `SettledGeometry`.

For the picture the invariant separates the words that are this boot's (`Ours`: zeroed or
renewed) from one left over.  The poller submits only with nothing in flight
(`Sampled`).  Where the word is ours, the fence then stands at the last submission and
names its buffer (`Fenced`), the next frame goes to another (`Flying`), and the one named
stays whole (`Framed`, `Imaged`), also when the queue is taken away.  Where it is left over, one
copy may be taken for landed and a second come to stand behind it (`Queued`): the
second goes to another buffer, or carries a cursor only and names the same.  This is what
makes `Framed` true at the moment the first frame lands: `PictureWhole`.

The list names what runs, or the thread that started it is on its way to put it there
(`Listed`, `QueueListed`, `Stopped`): `ForcedStopQuiet`.

### Who gets the GPU

`RunAdmission_proof` takes `NoRunAssumption` and `BootsAssumption`, so the number of
runs and of boots is free.  `Admission` is not inductive alone: `Untouched` says what a
run without a row, or before systemd, cannot have left behind, and that every
launch systemd has accepted leaves its reservation until its container is there;
`OfThisBoot` ties a lease in VRAM to a row of this boot or to an earlier boot; and
`RecoveryBound` says that from `Quiesce` on (in the MODE2 recovery from its start on)
nobody can come up.  The argument: a step makes nobody able to come up who was not,
except the coordinator whose row it writes (`ExposeStep`); that row follows a receipt
of the row before; and a receipt is written only where nobody may come up, which
the ordinary recovery knows because it took the lease of exactly this run, and
the one through MODE2 because no reservation is left.  `ContractImplemented` follows by step
simulation: `ContainerUp` maps to `Expose`, a stopped container to `Release`,
`Quiesce` to `Recover`, everything else but a reboot to a stutter.

### What is only model-checked

- The liveness properties `AbortReachesVram`, `DeathReleases` and `Answered`: they need
  fairness and ENABLED, which are beyond the prover.
- The three findings, which are counterexamples on an instance.

## 7. Not modelled

PROJECT.json gives the reason for each component: data and generated tables,
searches in binaries that are not in the repository, user interface helpers, and
what the plan still has.  By lines most of the implementation is data: firmware images
and register programs (`VcnFirmware.hpp`, `DmubReinitPayload.hpp`,
`DmubPspPayload.hpp`, `DcnTranslationTable.hpp`) are two thirds of it, and much of
`RaphaelGPU.cpp` is hook installation, logging and register sequences without a
decision that could be wrong in an order of steps.  Of the modelled components, what is left out is at
the end of each part of section 3.  Registers are modelled as the units they
switch; that a halt bit stops an engine, that a closed gate admits no doorbell and
that an unmapped ring stays unmapped unless its engine maps it are taken of the
hardware.

Each property has a mutant in PROJECT.json: the definition it replaces, and the
plausible mistake (stated beside it in the module) that the property finds.
