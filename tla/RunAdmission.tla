---------------------------- MODULE RunAdmission ----------------------------
(***************************************************************************)
(* Which run gets the GPU next.  Every run has a coordinator               *)
(* (tools/experiment.py run_one) which asks the ledger of this host boot   *)
(* and the recovery receipt of the ledger's last run for admission, writes *)
(* its own row, and starts a systemd user service (vm-supervision.py) that *)
(* brings up the container.  Recoveries (vfio-recover.py and               *)
(* mode2-noqueue-recover.py) write the receipts.  Coordinators and         *)
(* recoveries exclude each other with one lock; services and containers    *)
(* live on without it, and any process may be killed at any step.          *)
(***************************************************************************)
EXTENDS Naturals, Sequences, SequencesExt

CONSTANTS Runs,      \* run identities
          NoRun,     \* none of them
          MaxBoots   \* host boots that are followed

ASSUME NoRunAssumption == NoRun \notin Runs
ASSUME BootsAssumption == MaxBoots \in Nat \ {0}

VARIABLES
  boot,       \* the host's boot
  prepared,   \* the boot in each run's manifest, 0 before it is prepared
  rows,       \* runs in run/used-gpu-boots/<boot>.json, oldest first
  torn,       \* that file exists and is not complete JSON
  receipt,    \* the newest recovery receipt of each run in this boot
  pending,    \* the reservation files in run/launch-pending, by run
  pc,         \* where each run's coordinator is
  auth,       \* the run whose receipt it was admitted with
  evidence,   \* each run's complete output directories, by how it ended
  service,    \* each run's launch service
  container,  \* each run's container and the guest in it
  vram,       \* the run whose recovery lease can be authenticated in VRAM
  used,       \* runs that had the GPU since it was last proved quiet
  recovery    \* the recovery in progress

ledger == <<rows, torn>>
machine == <<service, container, vram, used>>
vars == <<boot, prepared, ledger, receipt, pending, pc, auth, evidence, machine, recovery>>

\* The coordinator holds run/experiment.lock at these places, ...
Asking    == {"pending", "host", "authorize", "reserve", "writing"}
Launching == {"archive", "hold", "reconcile", "systemd", "ready", "stop", "clean", "session"}
Locked    == Asking \cup Launching
\* ... and has let go of it while it stops the guest and records the outcome.
Ending    == {"abort", "down", "stopped", "lost"}

Existing == rows # <<>> \/ torn           \* the ledger file exists
Rows     == ToSet(rows)
Latest   == IF rows = <<>> THEN NoRun ELSE Last(rows)
LockFree == recovery.pc = "off" /\ \A r \in Runs : pc[r] \notin Locked
Exposed  == {r \in Runs : container[r] = "up"}
Units    == {r \in Runs : service[r] \in {"starting", "up", "ready", "post"}}

NoRecovery == [pc |-> "off", run |-> NoRun, mode2 |-> FALSE]

Init ==
  /\ boot = 1
  /\ prepared = [r \in Runs |-> 0]
  /\ rows = <<>>
  /\ torn = FALSE
  /\ receipt = [r \in Runs |-> "none"]
  /\ pending = {}
  /\ pc = [r \in Runs |-> "idle"]
  /\ auth = [r \in Runs |-> NoRun]
  /\ evidence = [r \in Runs |-> {}]
  /\ service = [r \in Runs |-> "none"]
  /\ container = [r \in Runs |-> "none"]
  /\ vram = NoRun
  /\ used = {}
  /\ recovery = NoRecovery

Goto(r, label) == pc' = [pc EXCEPT ![r] = label]

------------------------------------------------------------------------------
(***************************************************************************)
(* Admission: run_one up to the ledger row.                                *)
(***************************************************************************)

\* prepare, under the media lock, which a coordinator holds up to its session:
\* the manifest names the boot it was prepared in.
Prepare(r) ==
  /\ prepared[r] = 0 /\ pending = {} /\ Exposed = {}
  /\ \A q \in Runs : pc[q] \notin Locked \ {"session"}
  /\ prepared' = [prepared EXCEPT ![r] = boot]
  /\ UNCHANGED <<boot, ledger, receipt, pending, pc, auth, evidence, machine, recovery>>

TakeLock(r) ==
  /\ pc[r] = "idle" /\ prepared[r] # 0 /\ LockFree
  /\ Goto(r, "pending")
  /\ auth' = [auth EXCEPT ![r] = NoRun]
  /\ UNCHANGED <<boot, prepared, ledger, receipt, pending, evidence, machine, recovery>>

PendingCheck(r) ==
  /\ pc[r] = "pending"
  /\ Goto(r, IF pending = {} THEN "host" ELSE "idle")
  /\ UNCHANGED <<boot, prepared, ledger, receipt, pending, auth, evidence, machine, recovery>>

\* host_snapshot and admit: the prepared boot, and no VM container.
HostCheck(r) ==
  /\ pc[r] = "host"
  /\ Goto(r, IF prepared[r] = boot /\ Exposed = {} THEN "authorize" ELSE "idle")
  /\ UNCHANGED <<boot, prepared, ledger, receipt, pending, auth, evidence, machine, recovery>>

\* The latest run's receipt admits a run that the ledger does not know.
Reusable(r) == ~torn /\ r \notin Rows /\ Latest # NoRun /\ receipt[Latest] = "valid"

Authorize(r) ==
  /\ pc[r] = "authorize"
  /\ IF ~Existing \/ Reusable(r)
       THEN Goto(r, "reserve") /\ auth' = [auth EXCEPT ![r] = Latest]
       ELSE Goto(r, "idle") /\ UNCHANGED auth
  /\ UNCHANGED <<boot, prepared, ledger, receipt, pending, evidence, machine, recovery>>

\* reserve_boot: the first row creates the file, which is not complete before
\* WriteLedger; a later row is appended by an atomic replacement after the
\* receipt in hand was validated again against the last row.
Reserve(r) ==
  /\ pc[r] = "reserve"
  /\ IF ~Existing
       THEN Goto(r, "writing") /\ torn' = TRUE /\ UNCHANGED rows
       ELSE IF auth[r] = Latest /\ Reusable(r)
              THEN Goto(r, "archive") /\ rows' = Append(rows, r) /\ UNCHANGED torn
              ELSE Goto(r, "idle") /\ UNCHANGED ledger
  /\ UNCHANGED <<boot, prepared, receipt, pending, auth, evidence, machine, recovery>>

WriteLedger(r) ==
  /\ pc[r] = "writing"
  /\ rows' = <<r>> /\ torn' = FALSE
  /\ Goto(r, "archive")
  /\ UNCHANGED <<boot, prepared, receipt, pending, auth, evidence, machine, recovery>>

------------------------------------------------------------------------------
(***************************************************************************)
(* start_locked: archive, reservation file, systemd, readiness.            *)
(***************************************************************************)

\* A stopped container of the familiar name is renamed; a failure is recorded
\* as one before exposure, unless that record fails as well.
Archive(r) ==
  /\ pc[r] = "archive"
  /\ \E label \in {"hold", "reconcile", "idle"} : Goto(r, label)
  /\ UNCHANGED <<boot, prepared, ledger, receipt, pending, auth, evidence, machine, recovery>>

\* A failing write or fsync leaves the reservation file behind.
HoldReservation(r) ==
  /\ pc[r] = "hold"
  /\ \/ Goto(r, "systemd") /\ pending' = pending \cup {r}
     \/ \E label \in {"reconcile", "idle"} :
          Goto(r, label) /\ pending' \in {pending, pending \cup {r}}
  /\ UNCHANGED <<boot, prepared, ledger, receipt, auth, evidence, machine, recovery>>

Unexposed(r) == pending = {} /\ Units = {} /\ Exposed = {} /\ ~torn /\ Latest = r

\* reconcile_preexposure_failure takes the row back; the only row leaves no file.
Reconcile(r) ==
  /\ pc[r] = "reconcile"
  /\ \/ Unexposed(r) /\ rows' = Front(rows)
     \/ UNCHANGED rows
  /\ Goto(r, "idle")
  /\ UNCHANGED <<boot, prepared, torn, receipt, pending, auth, evidence, machine, recovery>>

\* systemd-run accepts, refuses, or fails although the unit was accepted.
Systemd(r) ==
  /\ pc[r] = "systemd"
  /\ \/ Goto(r, "ready") /\ service' = [service EXCEPT ![r] = "starting"]
     \/ Goto(r, "stop") /\ service' \in {service, [service EXCEPT ![r] = "starting"]}
  /\ UNCHANGED <<boot, prepared, ledger, receipt, pending, auth, evidence, container, vram,
                 used, recovery>>

\* The published state is verified and the reservation removed, or the wait
\* ends: the service is gone, 160 seconds are over, the verification fails.
Ready(r) ==
  /\ pc[r] = "ready"
  /\ \/ /\ service[r] = "ready" /\ container[r] = "up"
        /\ pending' = pending \ {r} /\ Goto(r, "session")
     \/ Goto(r, "stop") /\ UNCHANGED pending
  /\ UNCHANGED <<boot, prepared, ledger, receipt, auth, evidence, machine, recovery>>

------------------------------------------------------------------------------
(***************************************************************************)
(* The ends of a launch.                                                   *)
(***************************************************************************)

\* stop_exact: the container does not run any more.
ContainerStopped(r) ==
  container' = [container EXCEPT ![r] = IF @ = "up" THEN "down" ELSE @]

\* cleanup: the container stopped and the guard let go, then the reservation.
CleanedUp(r) ==
  /\ ContainerStopped(r)
  /\ service' = [service EXCEPT ![r] = IF @ = "none" THEN @ ELSE "over"]
  /\ pending' = pending \ {r}

\* ExecStopPost's cleanup could not establish that the container stopped.
CleanupFailed(r) ==
  /\ service' = [service EXCEPT ![r] = "stuck"]
  /\ UNCHANGED <<container, pending>>

\* A failed start stops the unit; a stop that is neither confirmed nor explained
\* by an unknown unit leaves everything to the service.
StopService(r) ==
  /\ pc[r] = "stop"
  /\ \/ r \in Units /\ (CleanedUp(r) \/ CleanupFailed(r)) /\ Goto(r, "clean")
     \/ r \notin Units /\ Goto(r, "clean") /\ UNCHANGED <<service, container, pending>>
     \/ Goto(r, "lost") /\ UNCHANGED <<service, container, pending>>
  /\ UNCHANGED <<boot, prepared, ledger, receipt, auth, evidence, vram, used, recovery>>

Clean(r) ==
  /\ pc[r] = "clean"
  /\ CleanedUp(r) \/ UNCHANGED <<service, container, pending>>
  /\ Goto(r, "stopped")
  /\ UNCHANGED <<boot, prepared, ledger, receipt, auth, evidence, vram, used, recovery>>

\* The bounded session ends with the guest's shutdown under the lock, or with an
\* exception that gives the lock back first.
SessionEnds(r) ==
  /\ pc[r] = "session"
  /\ \/ ContainerStopped(r) /\ Goto(r, "down")
     \/ UNCHANGED container /\ Goto(r, "abort")
  /\ UNCHANGED <<boot, prepared, ledger, receipt, pending, auth, evidence, service, vram,
                 used, recovery>>

Abort(r) ==
  /\ pc[r] = "abort"
  /\ \/ ContainerStopped(r) /\ Goto(r, "down")
     \/ UNCHANGED container /\ Goto(r, "lost")
  /\ UNCHANGED <<boot, prepared, ledger, receipt, pending, auth, evidence, service, vram,
                 used, recovery>>

\* SIGTERM before anything was launched.
Cancel(r) ==
  /\ pc[r] \in Asking
  /\ Goto(r, "stopped")
  /\ UNCHANGED <<boot, prepared, ledger, receipt, pending, auth, evidence, machine, recovery>>

\* The last files of the output directory.  A directory that some later recovery
\* accepts names a confirmed stop, or a start cancelled with no VM left; the
\* files of other outcomes are refused (mode2-noqueue-recover.py input_evidence).
Record(r) ==
  /\ pc[r] \in {"down", "stopped", "lost"}
  /\ Goto(r, "idle")
  /\ \/ pc[r] = "down" /\ evidence' = [evidence EXCEPT ![r] = @ \cup {"stopped"}]
     \/ /\ pc[r] = "stopped" /\ Exposed = {}
        /\ evidence' = [evidence EXCEPT ![r] = @ \cup {"cancelled"}]
     \/ UNCHANGED evidence
  /\ UNCHANGED <<boot, prepared, ledger, receipt, pending, auth, machine, recovery>>

\* The coordinator is killed; its lock is free, its files stay as they are.
Crash(r) ==
  /\ pc[r] # "idle"
  /\ Goto(r, "idle")
  /\ UNCHANGED <<boot, prepared, ledger, receipt, pending, auth, evidence, machine, recovery>>

Coordinator(r) ==
  \/ Prepare(r) \/ TakeLock(r) \/ PendingCheck(r) \/ HostCheck(r) \/ Authorize(r)
  \/ Reserve(r) \/ WriteLedger(r) \/ Archive(r) \/ HoldReservation(r) \/ Reconcile(r)
  \/ Systemd(r) \/ Ready(r) \/ StopService(r) \/ Clean(r) \/ SessionEnds(r) \/ Abort(r)
  \/ Cancel(r) \/ Record(r) \/ Crash(r)

------------------------------------------------------------------------------
(***************************************************************************)
(* The launch service and its container.                                   *)
(***************************************************************************)

Service(r, label) ==
  /\ service' = [service EXCEPT ![r] = label]
  /\ UNCHANGED <<boot, prepared, ledger, receipt, pc, auth, evidence, vram, used, recovery>>

ServiceStarts(r) == service[r] = "starting" /\ Service(r, "up") /\ UNCHANGED <<container, pending>>
ServiceReady(r)  == service[r] = "up" /\ container[r] = "up" /\ Service(r, "ready")
                    /\ UNCHANGED <<container, pending>>
\* The child ended, a step failed, the bound is reached, or it was killed.
ServiceEnds(r)   == service[r] \in {"up", "ready"} /\ Service(r, "post")
                    /\ UNCHANGED <<container, pending>>

ServiceStops(r) ==
  /\ service[r] = "post"
  /\ CleanedUp(r) \/ CleanupFailed(r)
  /\ UNCHANGED <<boot, prepared, ledger, receipt, pc, auth, evidence, vram, used, recovery>>

\* The requested container comes up and opens the GPU, even behind a cleanup
\* that could not be confirmed; behind a confirmed one its guard is gone.
ContainerUp(r) ==
  /\ service[r] \in {"up", "stuck"} /\ container[r] = "none"
  /\ container' = [container EXCEPT ![r] = "up"]
  /\ used' = used \cup {r}
  /\ UNCHANGED <<boot, prepared, ledger, receipt, pending, pc, auth, evidence, service, vram,
                 recovery>>

ContainerExits(r) ==
  /\ container[r] = "up" /\ ContainerStopped(r)
  /\ UNCHANGED <<boot, prepared, ledger, receipt, pending, pc, auth, evidence, service, vram,
                 used, recovery>>

\* The guest publishes its recovery lease, named for its run.
Publish(r) ==
  /\ container[r] = "up"
  /\ vram' = r
  /\ UNCHANGED <<boot, prepared, ledger, receipt, pending, pc, auth, evidence, service,
                 container, used, recovery>>

Launch(r) ==
  \/ ServiceStarts(r) \/ ServiceReady(r) \/ ServiceEnds(r) \/ ServiceStops(r)
  \/ ContainerUp(r) \/ ContainerExits(r) \/ Publish(r)

------------------------------------------------------------------------------
(***************************************************************************)
(* Recovery of the latest run, by its coordinator once the lock is free or *)
(* by the operator.                                                        *)
(***************************************************************************)

Recovery(label) == recovery' = [recovery EXCEPT !.pc = label]

\* Mutant: an output directory that says nothing about the stop will do.
RecoveryStartsAnyhow(p, mode2) ==
  /\ LockFree /\ ~torn /\ Latest = p /\ Exposed = {}
  /\ (~mode2 => receipt[p] = "none")
  /\ recovery' = [pc |-> "open", run |-> p, mode2 |-> mode2]
  /\ UNCHANGED <<boot, prepared, ledger, receipt, pending, pc, auth, evidence, machine>>

\* The ordinary recovery wants no receipt yet; the one through a MODE2 reset
\* wants a complete output directory and no reservation, and may renew a receipt.
RecoveryStarts(p, mode2) ==
  /\ LockFree /\ ~torn /\ Latest = p /\ Exposed = {}
  /\ IF mode2 THEN evidence[p] # {} /\ pending = {} ELSE receipt[p] = "none"
  /\ recovery' = [pc |-> "open", run |-> p, mode2 |-> mode2]
  /\ UNCHANGED <<boot, prepared, ledger, receipt, pending, pc, auth, evidence, machine>>

\* Mutant: any lease found in VRAM will do, or none.
QuiesceUnnamed ==
  /\ recovery.pc = "open" /\ Exposed = {}
  /\ used' = {}
  /\ vram' = IF recovery.mode2 THEN vram ELSE NoRun
  /\ Recovery("gate")
  /\ UNCHANGED <<boot, prepared, ledger, receipt, pending, pc, auth, evidence, service,
                 container>>

\* The device can be opened while no QEMU has it.  The ordinary recovery takes
\* the lease of exactly this run out of VRAM.
Quiesce ==
  /\ recovery.pc = "open" /\ Exposed = {}
  /\ recovery.mode2 \/ vram = recovery.run
  /\ used' = {}
  /\ vram' = IF recovery.mode2 THEN vram ELSE NoRun
  /\ Recovery("gate")
  /\ UNCHANGED <<boot, prepared, ledger, receipt, pending, pc, auth, evidence, service,
                 container>>

\* The host is looked at again before the receipt file is created.
CreateReceipt ==
  /\ recovery.pc = "gate" /\ Exposed = {}
  /\ receipt' = [receipt EXCEPT ![recovery.run] = "torn"]
  /\ Recovery("write")
  /\ UNCHANGED <<boot, prepared, ledger, pending, pc, auth, evidence, machine>>

WriteReceipt ==
  /\ recovery.pc = "write"
  /\ receipt' = [receipt EXCEPT ![recovery.run] = "valid"]
  /\ recovery' = NoRecovery
  /\ UNCHANGED <<boot, prepared, ledger, pending, pc, auth, evidence, machine>>

\* It refuses, fails or is killed; the lease may be consumed all the same.
RecoveryFails ==
  /\ recovery.pc # "off"
  /\ recovery' = NoRecovery
  /\ vram' \in (IF recovery.pc = "open" THEN {vram, NoRun} ELSE {vram})
  /\ UNCHANGED <<boot, prepared, ledger, receipt, pending, pc, auth, evidence, service,
                 container, used>>

Recover ==
  \/ \E p \in Runs, mode2 \in BOOLEAN : RecoveryStarts(p, mode2)
  \/ Quiesce \/ CreateReceipt \/ WriteReceipt \/ RecoveryFails

\* The host boots again: a ledger and receipts of its own, the GPU initialised
\* by amdgpu first.  Reservations, manifests and perhaps VRAM survive.
Reboot ==
  /\ boot < MaxBoots
  /\ boot' = boot + 1
  /\ rows' = <<>> /\ torn' = FALSE
  /\ receipt' = [r \in Runs |-> "none"]
  /\ pc' = [r \in Runs |-> "idle"]
  /\ evidence' = [r \in Runs |-> {}]
  /\ service' = [r \in Runs |-> "none"]
  /\ container' = [r \in Runs |-> "none"]
  /\ vram' \in {vram, NoRun}
  /\ used' = {}
  /\ recovery' = NoRecovery
  /\ UNCHANGED <<prepared, pending, auth>>

Next ==
  \/ \E r \in Runs : Coordinator(r) \/ Launch(r)
  \/ Recover
  \/ Reboot

Spec == Init /\ [][Next]_vars

------------------------------------------------------------------------------
(***************************************************************************)
(* Properties.                                                             *)
(***************************************************************************)

TypeOK ==
  /\ boot \in 1..MaxBoots
  /\ prepared \in [Runs -> 0..boot]
  /\ rows \in Seq(Runs) /\ torn \in BOOLEAN
  /\ receipt \in [Runs -> {"none", "torn", "valid"}]
  /\ pending \subseteq Runs
  /\ pc \in [Runs -> {"idle"} \cup Locked \cup Ending]
  /\ auth \in [Runs -> Runs \cup {NoRun}]
  /\ evidence \in [Runs -> SUBSET {"stopped", "cancelled"}]
  /\ service \in [Runs -> {"none", "starting", "up", "ready", "post", "stuck", "over"}]
  /\ container \in [Runs -> {"none", "up", "down"}]
  /\ vram \in Runs \cup {NoRun}
  /\ used \subseteq Runs
  /\ recovery \in [pc : {"off", "open", "gate", "write"}, run : Runs \cup {NoRun},
                   mode2 : BOOLEAN]

\* One process at a time decides.
LockHeldOnce ==
  /\ \A r, q \in Runs : pc[r] \in Locked /\ pc[q] \in Locked => r = q
  /\ recovery.pc # "off" => \A r \in Runs : pc[r] \notin Locked

\* The guest of this run has the GPU or may still get it.
MayExpose(r) ==
  \/ container[r] = "up"
  \/ container[r] = "none" /\ (pc[r] \in Launching \/ r \in Units \/ service[r] = "stuck")

\* Only the ledger's last run may have the GPU, and not once it is receipted.
OnlyLatest ==
  \A r \in Runs : MayExpose(r) => Latest = r /\ ~torn /\ receipt[r] # "valid"

\* A ledger row follows a receipt of the row before; what the coordinator holds
\* in its hand is still what the ledger says.
Chained ==
  /\ \A i, j \in DOMAIN rows : rows[i] = rows[j] => i = j
  /\ \A i \in 1..(Len(rows) - 1) : receipt[rows[i]] = "valid"
  /\ \A r \in Rows : prepared[r] = boot
  /\ torn => rows = <<>>
  /\ \A r \in Runs : pc[r] \in Launching => Latest = r

\* Only the last run can have left the GPU in use, and a receipt of it, written
\* or about to be written, says that it is quiet and stays so.
Settled ==
  /\ used \subseteq {Latest}
  /\ Latest # NoRun /\ receipt[Latest] = "valid" => used = {}
  /\ recovery.pc \in {"gate", "write"} => used = {} /\ recovery.run = Latest

\* A lease in VRAM that names a run of this ledger is of a guest that was there.
LeaseSeen == vram \in Rows => container[vram] # "none"

\* A run without a row, and one whose launch has not reached systemd, has left
\* no trace in this boot; whoever may still come up has its reservation.
Untouched ==
  /\ \A r \in Runs : r \notin Rows \/ pc[r] \in {"archive", "hold", "reconcile", "systemd"} =>
       container[r] = "none" /\ service[r] = "none" /\ receipt[r] = "none"
  /\ \A r \in Runs : container[r] = "none" => r \notin used
  /\ \A r \in Runs : pc[r] = "systemd" \/ r \in Units \/ service[r] = "stuck" =>
       container[r] # "none" \/ r \in pending

\* A coordinator past HostCheck was prepared in this boot; a lease in VRAM is of
\* a run with a row in this boot or of one prepared in an earlier boot.
OfThisBoot ==
  /\ \A r \in Runs : pc[r] \in {"authorize", "reserve", "writing"} => prepared[r] = boot
  /\ \A r \in Runs : pc[r] = "writing" => torn
  /\ vram # NoRun => prepared[vram] # 0 /\ (prepared[vram] = boot => vram \in Rows)

\* A recovery is of the last run, and from the moment it takes the GPU for quiet
\* nobody can come up.
RecoveryBound ==
  recovery.pc # "off" =>
    /\ recovery.run = Latest /\ Latest # NoRun
    /\ recovery.mode2 \/ recovery.pc # "open" => \A r \in Runs : ~MayExpose(r)

\* One guest at a time, and only on a GPU that is proved quiet: what every
\* decision of coordinator, service and recovery preserves.
Admission == LockHeldOnce /\ OnlyLatest /\ Chained /\ Settled /\ LeaseSeen

\* The inductive invariant.
IInv == TypeOK /\ Admission /\ Untouched /\ OfThisBoot /\ RecoveryBound

Contract == INSTANCE ExposureContract WITH exposed <- Exposed, used <- used # {}

\* One guest at a time has the GPU, and a used GPU is proved quiet, or the host
\* booted again, before the next one has it.
ImplementsContract == Contract!Spec
=============================================================================
