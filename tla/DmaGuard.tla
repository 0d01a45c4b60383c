------------------------------ MODULE DmaGuard ------------------------------
(***************************************************************************)
(* Ownership of the GPU's DMA mappings across the end of a virtual         *)
(* machine.  Three processes per launch: the supervisor (vm-supervision    *)
(* start, launch and cleanup), QEMU with the guard client of the VFIO      *)
(* patch, and the guard process (dma-guard.py), which receives a copy of   *)
(* the device descriptor and holds it until every DMA source is stopped.   *)
(* They share a socket, the guard's receipt file and the reservation file; *)
(* QEMU can die, and each wait can time out, between any two steps.        *)
(***************************************************************************)
CONSTANTS Launches,   \* unique launch names
          Watched,    \* the launch whose progress is followed
          MayFail     \* whether a register, file or Docker operation may fail

ASSUME WatchedAssumption == Watched \in Launches
ASSUME FailureAssumption == MayFail \in BOOLEAN

VARIABLES
  pending,    \* run/launch-pending: reserved launch names
  service,    \* where start, launch and cleanup are
  requested,  \* docker run was issued
  published,  \* run/<name>.cid exists
  qemu,       \* where QEMU is in rgpu-dma-guard.c
  vcpus,      \* whether its vCPUs may run
  unmapped,   \* QEMU removed guest memory from the container itself
  conn,       \* the socket between QEMU and the guard, seen from QEMU's end
  toGuard,    \* the message the guard has not read
  toQemu,     \* the message QEMU has not read
  guard,      \* where serve() is
  command,    \* what ended the guard's wait
  sigterm,    \* systemctl stop of the guard's unit is on its way
  receipt,    \* status in run/dma-guards/<name>.json
  active      \* device sources that may be writing to memory

vars == <<pending, service, requested, published, qemu, vcpus, unmapped, conn,
          toGuard, toQemu, guard, command, sigterm, receipt, active>>

Sources == {"display", "ih", "engines"}

ServicePcs == {"none", "guard", "run", "supervise", "stop", "unstopped", "wait",
               "clean", "blocked"}
QemuPcs  == {"absent", "realize", "connected", "waitArm", "timedOut", "failed",
             "guest", "waitSafe", "hold", "cleanup", "dying", "dead"}
HoldingPcs == {"identity", "own", "arm", "command", "awaitDeath", "display", "ih",
               "engines", "report", "ack", "close", "retained"}
GuardPcs == {"none", "starting", "accept", "recv", "final", "gone"} \cup HoldingPcs
Receipts == {"none", "waiting", "owned", "quiesced", "released", "retained", "failed"}
Terminal == {"released", "failed"}

\* The guard's held_fds is not empty.
Held(l) == guard[l] \in HoldingPcs
\* QEMU's process is gone, or was never created: what stop_exact establishes.
Stopped(l) == qemu[l] \in {"absent", "dead"}
\* QEMU's own descriptors of the group, container and device are open.
QemuOwns(l) == qemu[l] \notin {"absent", "dying", "dead"}
\* A copy in a message nobody has read keeps the device open too.
Context(l) == QemuOwns(l) \/ toGuard[l] = "RIG1" \/ Held(l)
\* Guest memory is mapped: the container lives and QEMU did not unmap.
Mapped(l) == Context(l) /\ ~unmapped[l]

Init ==
  /\ pending = {}
  /\ service = [l \in Launches |-> "none"]
  /\ requested = [l \in Launches |-> FALSE]
  /\ published = [l \in Launches |-> FALSE]
  /\ qemu = [l \in Launches |-> "absent"]
  /\ vcpus = [l \in Launches |-> FALSE]
  /\ unmapped = [l \in Launches |-> FALSE]
  /\ conn = [l \in Launches |-> "none"]
  /\ toGuard = [l \in Launches |-> "none"]
  /\ toQemu = [l \in Launches |-> "none"]
  /\ guard = [l \in Launches |-> "none"]
  /\ command = [l \in Launches |-> "none"]
  /\ sigterm = [l \in Launches |-> FALSE]
  /\ receipt = [l \in Launches |-> "none"]
  /\ active = {}

Service(l, label) == service' = [service EXCEPT ![l] = label]
Qemu(l, label)    == qemu' = [qemu EXCEPT ![l] = label]
Guard(l, label)   == guard' = [guard EXCEPT ![l] = label]
Report(l, status) == receipt' = [receipt EXCEPT ![l] = status]

superVars  == <<pending, service, requested, published>>
qemuVars   == <<qemu, vcpus, unmapped>>
socketVars == <<conn, toGuard, toQemu>>
guardVars  == <<guard, command, receipt>>

-----------------------------------------------------------------------------
(***************************************************************************)
(* The supervisor: start, launch, cleanup.                                 *)
(***************************************************************************)
\* start: no reservation, no container alive; then the reservation and the unit.
Start(l) ==
  /\ service[l] = "none"
  /\ pending = {}
  /\ \A d \in Launches : Stopped(d)
  /\ pending' = {l}
  /\ Service(l, "guard")
  /\ UNCHANGED <<requested, published, qemuVars, socketVars, guardVars, sigterm, active>>

\* start_dma_guard: systemd-run, then the wait for the endpoint and the receipt.
StartGuard(l) ==
  /\ service[l] = "guard"
  /\ guard[l] = "none"
  /\ Guard(l, "starting")
  /\ UNCHANGED <<superVars, qemuVars, socketVars, command, receipt, sigterm, active>>

GuardReady(l) ==
  /\ service[l] = "guard"
  /\ receipt[l] = "waiting"
  /\ Service(l, "run")
  /\ requested' = [requested EXCEPT ![l] = TRUE]
  /\ UNCHANGED <<pending, published, qemuVars, socketVars, guardVars, sigterm, active>>

\* docker inspect knows the name: the CID is published.
PublishCid(l) ==
  /\ service[l] = "run"
  /\ qemu[l] # "absent"
  /\ published' = [published EXCEPT ![l] = TRUE]
  /\ Service(l, "supervise")
  /\ UNCHANGED <<pending, requested, qemuVars, socketVars, guardVars, sigterm, active>>

\* start_locked sees the readiness file of a running launch and returns: the
\* reservation only covers the time until then.
Ready(l) ==
  /\ service[l] = "supervise"
  /\ ~Stopped(l)
  /\ pending' = pending \ {l}
  /\ UNCHANGED <<service, requested, published, qemuVars, socketVars, guardVars,
                 sigterm, active>>

\* An error, a signal, the deadline or the end of the launcher: cleanup starts.
\* ExecStopPost and start_locked run it again after a cleanup that raised.
Cleanup(l) ==
  /\ service[l] \in {"guard", "run", "supervise", "unstopped", "blocked"}
  /\ Service(l, "stop")
  /\ UNCHANGED <<pending, requested, published, qemuVars, socketVars, guardVars,
                 sigterm, active>>

\* stop_exact: returns once no container runs; a docker run still on its way to
\* the daemon is not cancelled.
StopContainer(l) ==
  /\ service[l] = "stop"
  /\ \/ Stopped(l) /\ Service(l, "wait")
     \/ MayFail /\ Service(l, "unstopped")
  /\ UNCHANGED <<pending, requested, published, qemuVars, socketVars, guardVars,
                 sigterm, active>>

\* Mutant: a quiesced receipt is taken for a released one.
WaitGuardQuiesced(l) ==
  /\ service[l] = "wait"
  /\ \/ /\ receipt[l] \in Terminal \cup {"none", "quiesced"}
        /\ Service(l, "clean")
        /\ pending' = pending \ {l}
        /\ sigterm' = sigterm
     \/ /\ receipt[l] \notin Terminal \cup {"none"}
        /\ Service(l, "blocked")
        /\ UNCHANGED <<pending, sigterm>>
     \/ /\ receipt[l] = "waiting"
        /\ ~sigterm[l]
        /\ sigterm' = [sigterm EXCEPT ![l] = TRUE]
        /\ UNCHANGED <<pending, service>>
  /\ UNCHANGED <<requested, published, qemuVars, socketVars, guardVars, active>>

\* wait_dma_guard: a terminal receipt, or none, lets cleanup drop the
\* reservation; retained, or five seconds without an answer, makes it raise; a
\* guard that still waits for a descriptor is asked to stop.
WaitGuard(l) ==
  /\ service[l] = "wait"
  /\ \/ /\ receipt[l] \in Terminal \cup {"none"}
        /\ Service(l, "clean")
        /\ pending' = pending \ {l}
        /\ sigterm' = sigterm
     \/ /\ receipt[l] \notin Terminal \cup {"none"}
        /\ Service(l, "blocked")
        /\ UNCHANGED <<pending, sigterm>>
     \/ /\ receipt[l] = "waiting"
        /\ ~sigterm[l]
        /\ sigterm' = [sigterm EXCEPT ![l] = TRUE]
        /\ UNCHANGED <<pending, service>>
  /\ UNCHANGED <<requested, published, qemuVars, socketVars, guardVars, active>>

SuperStep(l) ==
  \/ Start(l) \/ StartGuard(l) \/ GuardReady(l) \/ PublishCid(l) \/ Ready(l)
  \/ Cleanup(l) \/ StopContainer(l) \/ WaitGuard(l)

-----------------------------------------------------------------------------
(***************************************************************************)
(* QEMU: vfio_pci_realize with vfio_rgpu_dma_guard_init, the guest, and    *)
(* vfio_rgpu_dma_guard_stop.  Both receives have a ten second timeout.     *)
(***************************************************************************)
\* VFIO refuses a group that anyone still holds; otherwise guest memory is
\* mapped before the guard is told.
QemuOpen(l) ==
  /\ requested[l]
  /\ qemu[l] = "absent"
  /\ Qemu(l, IF \E d \in Launches : Context(d) THEN "dead" ELSE "realize")
  /\ UNCHANGED <<superVars, vcpus, unmapped, socketVars, guardVars, sigterm, active>>

QemuConnect(l) ==
  /\ qemu[l] = "realize"
  /\ IF guard[l] = "accept"
     THEN Qemu(l, "connected") /\ conn' = [conn EXCEPT ![l] = "open"]
     ELSE Qemu(l, "failed") /\ conn' = conn
  /\ UNCHANGED <<superVars, vcpus, unmapped, toGuard, toQemu, guardVars, sigterm, active>>

\* sendmsg of RIG1 with the descriptor.
QemuSend(l) ==
  /\ qemu[l] = "connected"
  /\ IF guard[l] \in {"accept", "recv"}
     THEN Qemu(l, "waitArm") /\ toGuard' = [toGuard EXCEPT ![l] = "RIG1"]
     ELSE Qemu(l, "timedOut") /\ toGuard' = toGuard
  /\ UNCHANGED <<superVars, vcpus, unmapped, conn, toQemu, guardVars, sigterm, active>>

QemuArmed(l) ==
  /\ qemu[l] = "waitArm"
  /\ toQemu[l] = "ARM1"
  /\ toQemu' = [toQemu EXCEPT ![l] = "none"]
  /\ Qemu(l, "guest")
  /\ vcpus' = [vcpus EXCEPT ![l] = TRUE]
  /\ UNCHANGED <<superVars, unmapped, conn, toGuard, guardVars, sigterm, active>>

QemuNoArm(l) ==
  /\ qemu[l] = "waitArm"
  /\ toQemu[l] = "none"
  /\ Qemu(l, "timedOut")
  /\ UNCHANGED <<superVars, vcpus, unmapped, socketVars, guardVars, sigterm, active>>

\* A Unix socket closed with an unread message resets the other end.
Closed(l) == IF toQemu[l] = "none" THEN "closed" ELSE "reset"

QemuGiveUp(l) ==
  /\ qemu[l] = "timedOut"
  /\ Qemu(l, "failed")
  /\ conn' = [conn EXCEPT ![l] = Closed(l)]
  /\ UNCHANGED <<superVars, vcpus, unmapped, toGuard, toQemu, guardVars, sigterm, active>>

\* vfio_rgpu_dma_guard_stop, from the shutdown hook, the exit notifier, device
\* exit or finalize: the vCPUs are stopped before STOP is sent.
QemuStop(l) ==
  /\ qemu[l] = "guest"
  /\ vcpus' = [vcpus EXCEPT ![l] = FALSE]
  /\ toGuard' = [toGuard EXCEPT ![l] = "STOP"]
  /\ Qemu(l, "waitSafe")
  /\ UNCHANGED <<superVars, unmapped, conn, toQemu, guardVars, sigterm, active>>

QemuSafe(l) ==
  /\ qemu[l] = "waitSafe"
  /\ toQemu[l] = "SAFE"
  /\ toQemu' = [toQemu EXCEPT ![l] = "none"]
  /\ conn' = [conn EXCEPT ![l] = "closed"]
  /\ Qemu(l, "cleanup")
  /\ UNCHANGED <<superVars, vcpus, unmapped, toGuard, guardVars, sigterm, active>>

\* guard_hold: without an answer QEMU pauses for ever, paused and mapped.
QemuHold(l) ==
  /\ qemu[l] = "waitSafe"
  /\ toQemu[l] = "none"
  /\ Qemu(l, "hold")
  /\ UNCHANGED <<superVars, vcpus, unmapped, socketVars, guardVars, sigterm, active>>

\* The listeners unmap guest memory and the process ends.
QemuUnmap(l) ==
  /\ qemu[l] \in {"failed", "cleanup"}
  /\ unmapped' = [unmapped EXCEPT ![l] = TRUE]
  /\ Qemu(l, "dying")
  /\ UNCHANGED <<superVars, vcpus, socketVars, guardVars, sigterm, active>>

\* A crash, the OOM killer, docker stop --time 0.  The socket may be seen
\* closed before the last vCPU thread has gone.
QemuKill(l) ==
  /\ qemu[l] \notin {"absent", "dying", "dead"}
  /\ Qemu(l, "dying")
  /\ conn' = IF conn[l] = "open" THEN [conn EXCEPT ![l] = Closed(l)] ELSE conn
  /\ UNCHANGED <<superVars, vcpus, unmapped, toGuard, toQemu, guardVars, sigterm, active>>

QemuExit(l) ==
  /\ qemu[l] = "dying"
  /\ Qemu(l, "dead")
  /\ vcpus' = [vcpus EXCEPT ![l] = FALSE]
  /\ UNCHANGED <<superVars, unmapped, socketVars, guardVars, sigterm, active>>

\* The guest starts a source; it keeps writing whatever becomes of the guest.
GuestDrives(l) ==
  /\ vcpus[l]
  /\ \E s \in Sources : active' = active \cup {s}
  /\ UNCHANGED <<superVars, qemuVars, socketVars, guardVars, sigterm>>

QemuStep(l) ==
  \/ QemuOpen(l) \/ QemuConnect(l) \/ QemuSend(l) \/ QemuArmed(l) \/ QemuNoArm(l)
  \/ QemuGiveUp(l) \/ QemuStop(l) \/ QemuSafe(l) \/ QemuHold(l) \/ QemuUnmap(l)
  \/ QemuKill(l) \/ QemuExit(l) \/ GuestDrives(l)

-----------------------------------------------------------------------------
(***************************************************************************)
(* The guard: serve().                                                     *)
(***************************************************************************)
\* bind, listen, and the first receipt.
GuardListen(l) ==
  /\ guard[l] = "starting"
  /\ Guard(l, "accept")
  /\ Report(l, "waiting")
  /\ UNCHANGED <<superVars, qemuVars, socketVars, command, sigterm, active>>

\* An exception before a descriptor was received: the process ends, and with
\* it whatever message waits in its socket.
FailUnheld(l) ==
  /\ Guard(l, "gone")
  /\ Report(l, "failed")
  /\ toGuard' = [toGuard EXCEPT ![l] = "none"]
  /\ UNCHANGED <<conn, toQemu>>

\* accept, or its 90 second timeout.
GuardAccept(l) ==
  /\ guard[l] = "accept"
  /\ \/ conn[l] # "none" /\ Guard(l, "recv") /\ UNCHANGED <<receipt, socketVars>>
     \/ conn[l] = "none" /\ FailUnheld(l)
  /\ UNCHANGED <<superVars, qemuVars, command, sigterm, active>>

\* recvmsg: the descriptor, or the end of the connection or ten seconds.
GuardReceive(l) ==
  /\ guard[l] = "recv"
  /\ \/ /\ toGuard[l] = "RIG1"
        /\ toGuard' = [toGuard EXCEPT ![l] = "none"]
        /\ Guard(l, "identity")
        /\ UNCHANGED <<conn, toQemu, receipt>>
     \/ toGuard[l] = "none" /\ FailUnheld(l)
  /\ UNCHANGED <<superVars, qemuVars, command, sigterm, active>>

\* Any exception once a descriptor is held: pause for ever.  The receipt says
\* so, unless writing it failed as well.
Retain(l) ==
  /\ Guard(l, "retained")
  /\ \/ Report(l, "retained")
     \/ MayFail /\ receipt' = receipt

\* peer_identity: ten seconds for the CID, then a running QEMU inside it.
GuardIdentity(l) ==
  /\ guard[l] = "identity"
  /\ \/ /\ published[l]
        /\ ~Stopped(l)
        /\ Guard(l, "own")
        /\ receipt' = receipt
     \/ (~published[l] \/ ~QemuOwns(l)) /\ Retain(l)
  /\ UNCHANGED <<superVars, qemuVars, socketVars, command, sigterm, active>>

\* Device, pidfd_open and the owned receipt.
GuardOwn(l) ==
  /\ guard[l] = "own"
  /\ IF qemu[l] = "dead" THEN Retain(l) ELSE Guard(l, "arm") /\ Report(l, "owned")
  /\ UNCHANGED <<superVars, qemuVars, socketVars, command, sigterm, active>>

GuardArm(l) ==
  /\ guard[l] = "arm"
  /\ IF conn[l] = "open"
     THEN /\ toQemu' = [toQemu EXCEPT ![l] = "ARM1"]
          /\ Guard(l, "command")
          /\ receipt' = receipt
     ELSE Retain(l) /\ toQemu' = toQemu
  /\ UNCHANGED <<superVars, qemuVars, conn, toGuard, command, sigterm, active>>

\* Mutant: the end of the connection is taken for the death of QEMU.
GuardCommandEof(l) ==
  /\ guard[l] = "command"
  /\ \/ /\ toGuard[l] = "STOP"
        /\ toGuard' = [toGuard EXCEPT ![l] = "none"]
        /\ command' = [command EXCEPT ![l] = "STOP"]
        /\ Guard(l, "display")
        /\ receipt' = receipt
     \/ /\ toGuard[l] = "none" /\ conn[l] = "closed"
        /\ command' = [command EXCEPT ![l] = "EOF"]
        /\ Guard(l, "display")
        /\ UNCHANGED <<toGuard, receipt>>
     \/ /\ conn[l] = "reset"
        /\ Retain(l)
        /\ UNCHANGED <<toGuard, command>>
  /\ UNCHANGED <<superVars, qemuVars, conn, toQemu, sigterm, active>>

\* recv without a timeout: STOP, the end of the connection, or its reset.
GuardCommand(l) ==
  /\ guard[l] = "command"
  /\ \/ /\ toGuard[l] = "STOP"
        /\ toGuard' = [toGuard EXCEPT ![l] = "none"]
        /\ command' = [command EXCEPT ![l] = "STOP"]
        /\ Guard(l, "display")
        /\ receipt' = receipt
     \/ /\ toGuard[l] = "none" /\ conn[l] = "closed"
        /\ command' = [command EXCEPT ![l] = "EOF"]
        /\ Guard(l, "awaitDeath")
        /\ UNCHANGED <<toGuard, receipt>>
     \/ /\ conn[l] = "reset"
        /\ Retain(l)
        /\ UNCHANGED <<toGuard, command>>
  /\ UNCHANGED <<superVars, qemuVars, conn, toQemu, sigterm, active>>

\* Mutant: the wait for the process ends only if it died before the wait began.
GuardDeathMissed(l) ==
  /\ guard[l] = "awaitDeath"
  /\ qemu[l] = "dying"
  /\ Guard(l, "display")
  /\ UNCHANGED <<superVars, qemuVars, socketVars, command, receipt, sigterm, active>>

\* poll on the pidfd: every thread of QEMU has exited.
GuardDeath(l) ==
  /\ guard[l] = "awaitDeath"
  /\ qemu[l] = "dead"
  /\ Guard(l, "display")
  /\ UNCHANGED <<superVars, qemuVars, socketVars, command, receipt, sigterm, active>>

AfterSource == [display |-> "ih", ih |-> "engines", engines |-> "report"]

\* Mutant: the sequence runs past its end.
GuardQuiesceSkipsReport(l) ==
  /\ guard[l] \in Sources
  /\ active' = active \ {guard[l]}
  /\ Guard(l, IF guard[l] = "engines" THEN "SAFE" ELSE AfterSource[guard[l]])
  /\ UNCHANGED <<superVars, qemuVars, socketVars, command, receipt, sigterm>>

\* Mutant: the graphics and SDMA engines are left to the later recovery.
GuardQuiesceSkipsEngines(l) ==
  /\ guard[l] \in Sources
  /\ active' = active \ ({guard[l]} \ {"engines"})
  /\ Guard(l, AfterSource[guard[l]])
  /\ UNCHANGED <<superVars, qemuVars, socketVars, command, receipt, sigterm>>

\* quiesce: display stops, then the interrupt rings, then the engines, each
\* proved by readback and sampling before the next.
GuardQuiesce(l) ==
  /\ guard[l] \in Sources
  /\ active' = active \ {guard[l]}
  /\ Guard(l, AfterSource[guard[l]])
  /\ UNCHANGED <<superVars, qemuVars, socketVars, command, receipt, sigterm>>

GuardReport(l) ==
  /\ guard[l] = "report"
  /\ Report(l, "quiesced")
  /\ Guard(l, IF command[l] = "STOP" THEN "ack" ELSE "close")
  /\ UNCHANGED <<superVars, qemuVars, socketVars, command, sigterm, active>>

GuardAck(l) ==
  /\ guard[l] = "ack"
  /\ IF conn[l] = "open"
     THEN /\ toQemu' = [toQemu EXCEPT ![l] = "SAFE"]
          /\ Guard(l, "close")
          /\ receipt' = receipt
     ELSE Retain(l) /\ toQemu' = toQemu
  /\ UNCHANGED <<superVars, qemuVars, conn, toGuard, command, sigterm, active>>

GuardClose(l) ==
  /\ guard[l] = "close"
  /\ Guard(l, "final")
  /\ UNCHANGED <<superVars, qemuVars, socketVars, command, receipt, sigterm, active>>

\* The last receipt; a failure to write it is reported as a failure that never
\* owned anything, if that can be written.
GuardRelease(l) ==
  /\ guard[l] = "final"
  /\ Guard(l, "gone")
  /\ \/ Report(l, "released")
     \/ MayFail /\ receipt' \in {receipt, [receipt EXCEPT ![l] = "failed"]}
  /\ UNCHANGED <<superVars, qemuVars, socketVars, command, sigterm, active>>

\* Mutant: an error lets go of the descriptor like any other exception.
GuardFaultUnwinds(l) ==
  /\ MayFail
  /\ guard[l] \in {"own", "display", "ih", "engines", "report"}
  /\ Guard(l, "gone")
  /\ Report(l, "failed")
  /\ UNCHANGED <<superVars, qemuVars, socketVars, command, sigterm, active>>

\* A register that does not read back, an engine that does not become idle, an
\* inaccessible device, a receipt that cannot be written.
GuardFault(l) ==
  /\ MayFail
  /\ guard[l] \in {"own", "display", "ih", "engines", "report"}
  /\ Retain(l)
  /\ UNCHANGED <<superVars, qemuVars, socketVars, command, sigterm, active>>

\* terminated(): a stop request ends the guard only while it holds nothing.
GuardSigterm(l) ==
  /\ sigterm[l]
  /\ sigterm' = [sigterm EXCEPT ![l] = FALSE]
  /\ IF guard[l] \in {"accept", "recv", "final"}
     THEN FailUnheld(l)
     ELSE UNCHANGED <<guard, receipt, socketVars>>
  /\ UNCHANGED <<superVars, qemuVars, command, active>>

GuardStep(l) ==
  \/ GuardListen(l) \/ GuardAccept(l) \/ GuardReceive(l) \/ GuardIdentity(l)
  \/ GuardOwn(l) \/ GuardArm(l) \/ GuardCommand(l) \/ GuardDeath(l)
  \/ GuardQuiesce(l) \/ GuardReport(l) \/ GuardAck(l) \/ GuardClose(l)
  \/ GuardRelease(l) \/ GuardFault(l) \/ GuardSigterm(l)

-----------------------------------------------------------------------------
\* Every launch is over and nothing is left running.
Finished ==
  \A l \in Launches : /\ service[l] = "clean"
                      /\ guard[l] \in {"none", "gone"}
                      /\ ~sigterm[l]
                      /\ Stopped(l)
                      /\ ~requested[l] \/ qemu[l] = "dead"

Next ==
  \/ \E l \in Launches : SuperStep(l) \/ QemuStep(l) \/ GuardStep(l)
  \/ Finished /\ UNCHANGED vars

Spec == Init /\ [][Next]_vars

\* The guard's process keeps running, and a killed QEMU comes to its end.
FairSpec == /\ Spec
            /\ WF_vars(GuardStep(Watched))
            /\ WF_vars(QemuExit(Watched))

-----------------------------------------------------------------------------
(***************************************************************************)
(* Properties.                                                             *)
(***************************************************************************)

\* Every variable keeps its type.
TypeOK ==
  /\ pending \subseteq Launches
  /\ service \in [Launches -> ServicePcs]
  /\ requested \in [Launches -> BOOLEAN]
  /\ published \in [Launches -> BOOLEAN]
  /\ qemu \in [Launches -> QemuPcs]
  /\ vcpus \in [Launches -> BOOLEAN]
  /\ unmapped \in [Launches -> BOOLEAN]
  /\ conn \in [Launches -> {"none", "open", "closed", "reset"}]
  /\ toGuard \in [Launches -> {"none", "RIG1", "STOP"}]
  /\ toQemu \in [Launches -> {"none", "ARM1", "SAFE"}]
  /\ guard \in [Launches -> GuardPcs]
  /\ command \in [Launches -> {"none", "STOP", "EOF"}]
  /\ sigterm \in [Launches -> BOOLEAN]
  /\ receipt \in [Launches -> Receipts]
  /\ active \subseteq Sources

\* A source that may be writing writes into memory that is mapped for it, and
\* the owner of that mapping is a guard that QEMU's death does not touch.
DmaGuarded == active # {} => \E l \in Launches : Held(l) /\ ~unmapped[l]

\* While a vCPU can run the guard is armed and has not begun to stop sources:
\* a source it proved stopped cannot be started again by the guest.
GuestBeforeQuiesce ==
  \A l \in Launches : vcpus[l] => guard[l] \in {"command", "awaitDeath"}

\* A terminal receipt tells the truth whichever way the guard ended: it holds
\* no descriptor and the launch's guest is not running.
TerminalReceipts ==
  \A l \in Launches : receipt[l] \in Terminal => ~Held(l) /\ ~vcpus[l]

\* A cleanup that reports success left no guard holding the device and no guest,
\* even if the container of that launch is created after its cleanup.
CleanMeansLetGo ==
  \A l \in Launches : service[l] = "clean" => ~Held(l) /\ ~vcpus[l]

\* "released" is only written with every source stopped, and a source runs again
\* only under the guard of another launch.
ReleasedMeansQuiet ==
  \A l \in Launches : receipt[l] = "released" =>
    active = {} \/ \E d \in Launches \ {l} : Held(d)

\* What the guard is for, seen from the device: a source writes under its mapping, the
\* guest has stopped before the guard proves a source stopped, and a release is quiet.
Protected == DmaGuarded /\ GuestBeforeQuiesce /\ ReleasedMeansQuiet

\* What the supervisor concludes from a receipt or a finished cleanup is true.
ReceiptsTrue == TerminalReceipts /\ CleanMeansLetGo

\* The promise of the guard, for whichever launch owns the device.
Contract == INSTANCE DmaContract WITH
  context <- \E l \in Launches : Mapped(l),
  guest   <- \E l \in Launches : vcpus[l],
  dma     <- active # {}
ImplementsContract == Contract!Spec

\* An armed guard whose QEMU dies without a request does not wait for ever: it
\* lets go of the device, or keeps it for good once a shutdown step failed.
DeathReleases ==
  (guard[Watched] = "command" /\ ~QemuOwns(Watched)
     /\ toGuard[Watched] = "none" /\ conn[Watched] = "closed")
    ~> (receipt[Watched] \in Terminal \/ guard[Watched] \in {"gone", "retained"})
=============================================================================
