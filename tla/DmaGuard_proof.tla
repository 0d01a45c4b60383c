--------------------------- MODULE DmaGuard_proof ---------------------------
(***************************************************************************)
(* Proofs about DmaGuard, for every set of launches, whether or not an     *)
(* operation may fail.                                                     *)
(*                                                                         *)
(* The argument.  VFIO admits one holder of the group, so at most one      *)
(* launch has a context (OneContext), and what one launch does to the      *)
(* device no other launch can spoil.  Within a launch the socket carries   *)
(* the order: ARM1 is read only while the guard waits for a command, STOP  *)
(* is sent after the vCPUs have stopped, and SAFE is read only when every  *)
(* source was proved stopped (Socket).  A vCPU that runs therefore has an  *)
(* armed guard, also in the time between the close of the socket and the   *)
(* last exit of a thread (GuestArmed).  So nothing restarts a source the   *)
(* guard has passed (Stages), and whatever still writes writes under that  *)
(* guard's mapping (Driven): the three parts of Protected.  The receipts   *)
(* follow the guard's end (Reported), which gives ReceiptsTrue.  With the  *)
(* invariant every step is a step of DmaContract or changes none of what   *)
(* it describes.                                                           *)
(***************************************************************************)
EXTENDS DmaGuard, TLAPS

(***************************************************************************)
(* The inductive invariant.                                                *)
(***************************************************************************)

\* Only one launch holds any descriptor of the group: VFIO admits no second
\* opener, and a copy is only ever made of an open descriptor.
OneContext == \A l, d \in Launches : Context(l) /\ Context(d) => l = d

\* QEMU exists only once the supervisor asked for it, it is the one that makes
\* the connection, and until then the guard can only wait for it or give up.
QemuOrder ==
  \A l \in Launches :
    /\ qemu[l] # "absent" => requested[l]
    /\ qemu[l] \in {"absent", "realize"} => conn[l] = "none"
    /\ conn[l] = "none" =>
         /\ guard[l] \in {"none", "starting", "accept", "gone"}
         /\ toGuard[l] = "none" /\ toQemu[l] = "none" /\ ~vcpus[l]
    /\ unmapped[l] => qemu[l] \in {"dying", "dead"}

\* QEMU's end is open while QEMU is connected, and what is in flight says where
\* the other side is.
SocketOf(l) ==
  /\ conn[l] = "open" <=>
       qemu[l] \in {"connected", "waitArm", "timedOut", "guest", "waitSafe", "hold"}
  /\ qemu[l] = "connected" =>
       /\ toGuard[l] = "none" /\ toQemu[l] = "none"
       /\ guard[l] \in {"accept", "recv", "gone"}
  /\ toGuard[l] = "RIG1" => guard[l] \in {"accept", "recv"}
  /\ toGuard[l] = "STOP" => qemu[l] \in {"waitSafe", "hold", "cleanup", "dying", "dead"}
  /\ qemu[l] = "waitArm" /\ toQemu[l] = "ARM1" =>
       guard[l] = "command" /\ toGuard[l] = "none"
  /\ (qemu[l] = "waitSafe" /\ toQemu[l] = "SAFE") \/ qemu[l] = "cleanup" =>
       guard[l] \in {"close", "final", "gone"}
Socket == \A l \in Launches : SocketOf(l)

\* While a vCPU may run the guard is armed, QEMU's memory is mapped, and a
\* socket that is closed already was closed with nothing left to read.
GuestArmed ==
  \A l \in Launches :
    /\ qemu[l] = "guest" => vcpus[l]
    /\ vcpus[l] =>
         /\ toGuard[l] = "none" /\ toQemu[l] = "none" /\ ~unmapped[l]
         /\ \/ qemu[l] = "guest" /\ guard[l] = "command"
            \/ /\ qemu[l] = "dying" /\ conn[l] = "closed"
               /\ guard[l] \in {"command", "awaitDeath"}

\* The guard has proved stopped what it has passed, and nothing started it again.
Stages ==
  \A l \in Launches :
    /\ guard[l] = "ih" => active \subseteq {"ih", "engines"}
    /\ guard[l] = "engines" => active \subseteq {"engines"}
    /\ guard[l] \in {"report", "ack", "close"} => active = {}

\* The launch whose guest started the sources: armed, mapped, and not yet past
\* the last stop.
Driving(l) ==
  /\ guard[l] \in {"command", "awaitDeath", "display", "ih", "engines", "retained"}
  /\ qemu[l] \in {"guest", "waitSafe", "hold", "dying", "dead"}
  /\ ~unmapped[l]
Driven == active # {} => \E l \in Launches : Driving(l)

\* What a receipt, or its absence, says of the guard and of the request.
Reported ==
  \A l \in Launches :
    /\ receipt[l] \in Terminal => guard[l] = "gone"
    /\ requested[l] => receipt[l] # "none"
    /\ service[l] = "clean" => guard[l] = "gone" \/ ~requested[l]

IInv ==
  /\ TypeOK /\ OneContext /\ QemuOrder /\ Socket /\ GuestArmed /\ Stages
  /\ Driven /\ Reported

-----------------------------------------------------------------------------
(***************************************************************************)
(* Two actions in the form the proofs use.                                 *)
(***************************************************************************)

\* A stage of the shutdown takes its source out and moves to the next one.
LEMMA QuiesceStep ==
  ASSUME NEW l \in Launches, GuardQuiesce(l)
  PROVE  /\ active' = active \ {guard[l]}
         /\ UNCHANGED <<superVars, qemuVars, socketVars, command, receipt, sigterm>>
         /\ \/ guard[l] = "display" /\ guard' = [guard EXCEPT ![l] = "ih"]
            \/ guard[l] = "ih" /\ guard' = [guard EXCEPT ![l] = "engines"]
            \/ guard[l] = "engines" /\ guard' = [guard EXCEPT ![l] = "report"]
<1>1. AfterSource["display"] = "ih" /\ AfterSource["ih"] = "engines"
      /\ AfterSource["engines"] = "report"
  BY DEF AfterSource
<1> QED
  BY <1>1 DEF GuardQuiesce, Sources, Guard

\* What the wait for the guard can do: finish, give up, or ask it to stop.
LEMMA WaitStep ==
  ASSUME NEW l \in Launches, WaitGuard(l), TypeOK
  PROVE  /\ pending' \subseteq Launches
         /\ service' = service \/ service' = [service EXCEPT ![l] = "clean"]
              \/ service' = [service EXCEPT ![l] = "blocked"]
         /\ sigterm' = sigterm \/ sigterm' = [sigterm EXCEPT ![l] = TRUE]
         /\ UNCHANGED <<requested, published, qemuVars, socketVars, guardVars, active>>
  BY DEF WaitGuard, Service, TypeOK

-----------------------------------------------------------------------------
(***************************************************************************)
(* Every step keeps the invariant, part by part.                           *)
(***************************************************************************)

\* Every step keeps the types.
LEMMA TypeKept == ASSUME TypeOK, [Next]_vars PROVE TypeOK'
<1>1. ASSUME NEW l \in Launches, Start(l) PROVE TypeOK'
  BY <1>1 DEF TypeOK, ServicePcs, QemuPcs, GuardPcs, HoldingPcs, Receipts, Sources, Start,
    Service, qemuVars, socketVars, guardVars
<1>2. ASSUME NEW l \in Launches, StartGuard(l) PROVE TypeOK'
  BY <1>2 DEF TypeOK, ServicePcs, QemuPcs, GuardPcs, HoldingPcs, Receipts, Sources,
    StartGuard, Guard, superVars, qemuVars, socketVars
<1>3. ASSUME NEW l \in Launches, GuardReady(l) PROVE TypeOK'
  BY <1>3 DEF TypeOK, ServicePcs, QemuPcs, GuardPcs, HoldingPcs, Receipts, Sources,
    GuardReady, Service, qemuVars, socketVars, guardVars
<1>4. ASSUME NEW l \in Launches, PublishCid(l) PROVE TypeOK'
  BY <1>4 DEF TypeOK, ServicePcs, QemuPcs, GuardPcs, HoldingPcs, Receipts, Sources,
    PublishCid, Service, qemuVars, socketVars, guardVars
<1>5. ASSUME NEW l \in Launches, Ready(l) PROVE TypeOK'
  BY <1>5 DEF TypeOK, ServicePcs, QemuPcs, GuardPcs, HoldingPcs, Receipts, Sources, Ready,
    qemuVars, socketVars, guardVars
<1>6. ASSUME NEW l \in Launches, Cleanup(l) PROVE TypeOK'
  BY <1>6 DEF TypeOK, ServicePcs, QemuPcs, GuardPcs, HoldingPcs, Receipts, Sources, Cleanup,
    Service, qemuVars, socketVars, guardVars
<1>7. ASSUME NEW l \in Launches, StopContainer(l) PROVE TypeOK'
  BY <1>7 DEF TypeOK, ServicePcs, QemuPcs, GuardPcs, HoldingPcs, Receipts, Sources,
    StopContainer, Service, qemuVars, socketVars, guardVars
<1>8. ASSUME NEW l \in Launches, WaitGuard(l) PROVE TypeOK'
  <2>1. /\ pending' \subseteq Launches
        /\ \/ service' = service \/ service' = [service EXCEPT ![l] = "clean"]
           \/ service' = [service EXCEPT ![l] = "blocked"]
        /\ sigterm' = sigterm \/ sigterm' = [sigterm EXCEPT ![l] = TRUE]
        /\ UNCHANGED <<requested, published, qemu, vcpus, unmapped, conn, toGuard>>
        /\ UNCHANGED <<toQemu, guard, command, receipt, active>>
    BY <1>8, WaitStep DEF qemuVars, socketVars, guardVars
  <2> QED
    BY <2>1, <1>8 DEF TypeOK, ServicePcs
<1>9. ASSUME NEW l \in Launches, QemuOpen(l) PROVE TypeOK'
  BY <1>9 DEF TypeOK, ServicePcs, QemuPcs, GuardPcs, HoldingPcs, Receipts, Sources, QemuOpen,
    Qemu, superVars, socketVars, guardVars
<1>10. ASSUME NEW l \in Launches, QemuConnect(l) PROVE TypeOK'
  BY <1>10 DEF TypeOK, ServicePcs, QemuPcs, GuardPcs, HoldingPcs, Receipts, Sources,
    QemuConnect, Qemu, superVars, guardVars
<1>11. ASSUME NEW l \in Launches, QemuSend(l) PROVE TypeOK'
  BY <1>11 DEF TypeOK, ServicePcs, QemuPcs, GuardPcs, HoldingPcs, Receipts, Sources,
    QemuSend, Qemu, superVars, guardVars
<1>12. ASSUME NEW l \in Launches, QemuArmed(l) PROVE TypeOK'
  BY <1>12 DEF TypeOK, ServicePcs, QemuPcs, GuardPcs, HoldingPcs, Receipts, Sources,
    QemuArmed, Qemu, superVars, guardVars
<1>13. ASSUME NEW l \in Launches, QemuNoArm(l) PROVE TypeOK'
  BY <1>13 DEF TypeOK, ServicePcs, QemuPcs, GuardPcs, HoldingPcs, Receipts, Sources,
    QemuNoArm, Qemu, superVars, socketVars, guardVars
<1>14. ASSUME NEW l \in Launches, QemuGiveUp(l) PROVE TypeOK'
  BY <1>14 DEF TypeOK, ServicePcs, QemuPcs, GuardPcs, HoldingPcs, Receipts, Sources,
    QemuGiveUp, Qemu, Closed, superVars, guardVars
<1>15. ASSUME NEW l \in Launches, QemuStop(l) PROVE TypeOK'
  BY <1>15 DEF TypeOK, ServicePcs, QemuPcs, GuardPcs, HoldingPcs, Receipts, Sources,
    QemuStop, Qemu, superVars, guardVars
<1>16. ASSUME NEW l \in Launches, QemuSafe(l) PROVE TypeOK'
  BY <1>16 DEF TypeOK, ServicePcs, QemuPcs, GuardPcs, HoldingPcs, Receipts, Sources,
    QemuSafe, Qemu, superVars, guardVars
<1>17. ASSUME NEW l \in Launches, QemuHold(l) PROVE TypeOK'
  BY <1>17 DEF TypeOK, ServicePcs, QemuPcs, GuardPcs, HoldingPcs, Receipts, Sources,
    QemuHold, Qemu, superVars, socketVars, guardVars
<1>18. ASSUME NEW l \in Launches, QemuUnmap(l) PROVE TypeOK'
  BY <1>18 DEF TypeOK, ServicePcs, QemuPcs, GuardPcs, HoldingPcs, Receipts, Sources,
    QemuUnmap, Qemu, superVars, socketVars, guardVars
<1>19. ASSUME NEW l \in Launches, QemuKill(l) PROVE TypeOK'
  BY <1>19 DEF TypeOK, ServicePcs, QemuPcs, GuardPcs, HoldingPcs, Receipts, Sources,
    QemuKill, Qemu, Closed, superVars, guardVars
<1>20. ASSUME NEW l \in Launches, QemuExit(l) PROVE TypeOK'
  BY <1>20 DEF TypeOK, ServicePcs, QemuPcs, GuardPcs, HoldingPcs, Receipts, Sources,
    QemuExit, Qemu, superVars, socketVars, guardVars
<1>21. ASSUME NEW l \in Launches, GuestDrives(l) PROVE TypeOK'
  BY <1>21 DEF TypeOK, ServicePcs, QemuPcs, GuardPcs, HoldingPcs, Receipts, Sources,
    GuestDrives, superVars, qemuVars, socketVars, guardVars
<1>22. ASSUME NEW l \in Launches, GuardListen(l) PROVE TypeOK'
  BY <1>22 DEF TypeOK, ServicePcs, QemuPcs, GuardPcs, HoldingPcs, Receipts, Sources,
    GuardListen, Guard, Report, superVars, qemuVars, socketVars
<1>23. ASSUME NEW l \in Launches, GuardAccept(l) PROVE TypeOK'
  BY <1>23 DEF TypeOK, ServicePcs, QemuPcs, GuardPcs, HoldingPcs, Receipts, Sources,
    GuardAccept, FailUnheld, Guard, Report, superVars, qemuVars, socketVars
<1>24. ASSUME NEW l \in Launches, GuardReceive(l) PROVE TypeOK'
  BY <1>24 DEF TypeOK, ServicePcs, QemuPcs, GuardPcs, HoldingPcs, Receipts, Sources,
    GuardReceive, FailUnheld, Guard, Report, superVars, qemuVars
<1>25. ASSUME NEW l \in Launches, GuardIdentity(l) PROVE TypeOK'
  BY <1>25 DEF TypeOK, ServicePcs, QemuPcs, GuardPcs, HoldingPcs, Receipts, Sources,
    GuardIdentity, Retain, Guard, Report, superVars, qemuVars, socketVars
<1>26. ASSUME NEW l \in Launches, GuardOwn(l) PROVE TypeOK'
  BY <1>26 DEF TypeOK, ServicePcs, QemuPcs, GuardPcs, HoldingPcs, Receipts, Sources,
    GuardOwn, Retain, Guard, Report, superVars, qemuVars, socketVars
<1>27. ASSUME NEW l \in Launches, GuardArm(l) PROVE TypeOK'
  BY <1>27 DEF TypeOK, ServicePcs, QemuPcs, GuardPcs, HoldingPcs, Receipts, Sources,
    GuardArm, Retain, Guard, Report, superVars, qemuVars
<1>28. ASSUME NEW l \in Launches, GuardCommand(l) PROVE TypeOK'
  BY <1>28 DEF TypeOK, ServicePcs, QemuPcs, GuardPcs, HoldingPcs, Receipts, Sources,
    GuardCommand, Retain, Guard, Report, superVars, qemuVars
<1>29. ASSUME NEW l \in Launches, GuardDeath(l) PROVE TypeOK'
  BY <1>29 DEF TypeOK, ServicePcs, QemuPcs, GuardPcs, HoldingPcs, Receipts, Sources,
    GuardDeath, Guard, superVars, qemuVars, socketVars
<1>30. ASSUME NEW l \in Launches, GuardQuiesce(l) PROVE TypeOK'
  <2>1. /\ active' = active \ {guard[l]}
        /\ UNCHANGED <<pending, service, requested, published, qemu, vcpus, unmapped>>
        /\ UNCHANGED <<conn, toGuard, toQemu, command, receipt, sigterm>>
        /\ \/ guard[l] = "display" /\ guard' = [guard EXCEPT ![l] = "ih"]
           \/ guard[l] = "ih" /\ guard' = [guard EXCEPT ![l] = "engines"]
           \/ guard[l] = "engines" /\ guard' = [guard EXCEPT ![l] = "report"]
    BY <1>30, QuiesceStep DEF superVars, qemuVars, socketVars
  <2>2. active' \subseteq Sources
    BY <2>1 DEF TypeOK
  <2>3. guard' \in [Launches -> GuardPcs]
    BY <2>1 DEF TypeOK, GuardPcs, HoldingPcs
  <2> QED
    BY <2>1, <2>2, <2>3 DEF TypeOK
<1>31. ASSUME NEW l \in Launches, GuardReport(l) PROVE TypeOK'
  BY <1>31 DEF TypeOK, ServicePcs, QemuPcs, GuardPcs, HoldingPcs, Receipts, Sources,
    GuardReport, Guard, Report, superVars, qemuVars, socketVars
<1>32. ASSUME NEW l \in Launches, GuardAck(l) PROVE TypeOK'
  BY <1>32 DEF TypeOK, ServicePcs, QemuPcs, GuardPcs, HoldingPcs, Receipts, Sources,
    GuardAck, Retain, Guard, Report, superVars, qemuVars
<1>33. ASSUME NEW l \in Launches, GuardClose(l) PROVE TypeOK'
  BY <1>33 DEF TypeOK, ServicePcs, QemuPcs, GuardPcs, HoldingPcs, Receipts, Sources,
    GuardClose, Guard, superVars, qemuVars, socketVars
<1>34. ASSUME NEW l \in Launches, GuardRelease(l) PROVE TypeOK'
  BY <1>34 DEF TypeOK, ServicePcs, QemuPcs, GuardPcs, HoldingPcs, Receipts, Sources,
    GuardRelease, Guard, Report, superVars, qemuVars, socketVars
<1>35. ASSUME NEW l \in Launches, GuardFault(l) PROVE TypeOK'
  BY <1>35 DEF TypeOK, ServicePcs, QemuPcs, GuardPcs, HoldingPcs, Receipts, Sources,
    GuardFault, Retain, Guard, Report, superVars, qemuVars, socketVars
<1>36. ASSUME NEW l \in Launches, GuardSigterm(l) PROVE TypeOK'
  BY <1>36 DEF TypeOK, ServicePcs, QemuPcs, GuardPcs, HoldingPcs, Receipts, Sources,
    GuardSigterm, FailUnheld, Guard, Report, superVars, qemuVars, socketVars
<1>37. CASE UNCHANGED vars
  BY <1>37 DEF TypeOK, ServicePcs, QemuPcs, GuardPcs, HoldingPcs, Receipts, Sources, vars
<1> QED
  BY <1>1, <1>2, <1>3, <1>4, <1>5, <1>6, <1>7, <1>8, <1>9, <1>10, <1>11, <1>12, <1>13, <1>14,
    <1>15, <1>16, <1>17, <1>18, <1>19, <1>20, <1>21, <1>22, <1>23, <1>24, <1>25, <1>26,
    <1>27, <1>28, <1>29, <1>30, <1>31, <1>32, <1>33, <1>34, <1>35, <1>36, <1>37 DEF Next,
    SuperStep, QemuStep, GuardStep

\* A second context never appears: QEMU is refused while one exists, and a copy
\* of the descriptor is sent and received within its launch.
LEMMA OneContextKept == ASSUME IInv, [Next]_vars PROVE OneContext'
<1>1. ASSUME NEW l \in Launches, Start(l) \/ StartGuard(l) \/ GuardReady(l) \/ PublishCid(l)
  \/ Ready(l) \/ Cleanup(l) \/ StopContainer(l) \/ WaitGuard(l) PROVE OneContext'
  BY <1>1 DEF IInv, TypeOK, ServicePcs, QemuPcs, GuardPcs, HoldingPcs, Receipts, Terminal,
    Sources, OneContext, Context, QemuOwns, Held, QemuOrder, Start, StartGuard, GuardReady,
    PublishCid, Ready, Cleanup, StopContainer, WaitGuard, Service, qemuVars, socketVars,
    guardVars, Guard, superVars
<1>2. ASSUME NEW l \in Launches, QemuConnect(l) \/ QemuArmed(l) \/ QemuNoArm(l) \/
  QemuGiveUp(l) PROVE OneContext'
  BY <1>2 DEF IInv, TypeOK, ServicePcs, QemuPcs, GuardPcs, HoldingPcs, Receipts, Terminal,
    Sources, OneContext, Context, QemuOwns, Held, QemuOrder, QemuConnect, QemuArmed,
    QemuNoArm, QemuGiveUp, Qemu, superVars, guardVars, socketVars, Closed
<1>3. ASSUME NEW l \in Launches, QemuStop(l) \/ QemuSafe(l) \/ QemuHold(l) \/ QemuUnmap(l)
  PROVE OneContext'
  BY <1>3 DEF IInv, TypeOK, ServicePcs, QemuPcs, GuardPcs, HoldingPcs, Receipts, Terminal,
    Sources, OneContext, Context, QemuOwns, Held, QemuOrder, QemuStop, QemuSafe, QemuHold,
    QemuUnmap, Qemu, superVars, guardVars, socketVars
<1>4. ASSUME NEW l \in Launches, QemuKill(l) \/ QemuExit(l) \/ GuestDrives(l) PROVE
  OneContext'
  BY <1>4 DEF IInv, TypeOK, ServicePcs, QemuPcs, GuardPcs, HoldingPcs, Receipts, Terminal,
    Sources, OneContext, Context, QemuOwns, Held, QemuOrder, QemuKill, QemuExit, GuestDrives,
    Qemu, Closed, superVars, guardVars, socketVars, qemuVars
<1>5. ASSUME NEW l \in Launches, GuardListen(l) \/ GuardAccept(l) \/ GuardIdentity(l) \/
  GuardOwn(l) PROVE OneContext'
  BY <1>5 DEF IInv, TypeOK, ServicePcs, QemuPcs, GuardPcs, HoldingPcs, Receipts, Terminal,
    Sources, OneContext, Context, QemuOwns, Held, QemuOrder, GuardListen, GuardAccept,
    GuardIdentity, GuardOwn, Guard, Report, superVars, qemuVars, socketVars, FailUnheld,
    Retain
<1>6. ASSUME NEW l \in Launches, GuardArm(l) \/ GuardDeath(l) \/ GuardQuiesce(l) \/
  GuardReport(l) PROVE OneContext'
  BY <1>6 DEF IInv, TypeOK, ServicePcs, QemuPcs, GuardPcs, HoldingPcs, Receipts, Terminal,
    Sources, OneContext, Context, QemuOwns, Held, QemuOrder, GuardArm, GuardDeath,
    GuardQuiesce, GuardReport, Retain, Guard, Report, superVars, qemuVars, socketVars,
    AfterSource
<1>7. ASSUME NEW l \in Launches, GuardAck(l) \/ GuardClose(l) \/ GuardRelease(l) \/
  GuardFault(l) PROVE OneContext'
  BY <1>7 DEF IInv, TypeOK, ServicePcs, QemuPcs, GuardPcs, HoldingPcs, Receipts, Terminal,
    Sources, OneContext, Context, QemuOwns, Held, QemuOrder, GuardAck, GuardClose,
    GuardRelease, GuardFault, Retain, Guard, Report, superVars, qemuVars, socketVars
<1>8. ASSUME NEW l \in Launches, GuardSigterm(l) PROVE OneContext'
  BY <1>8 DEF IInv, TypeOK, ServicePcs, QemuPcs, GuardPcs, HoldingPcs, Receipts, Terminal,
    Sources, OneContext, Context, QemuOwns, Held, QemuOrder, GuardSigterm, FailUnheld, Guard,
    Report, superVars, qemuVars, socketVars
<1>9. ASSUME NEW l \in Launches, QemuOpen(l) PROVE OneContext'
  BY <1>9 DEF IInv, TypeOK, ServicePcs, QemuPcs, GuardPcs, HoldingPcs, Receipts, Terminal,
    Sources, OneContext, Context, QemuOwns, Held, QemuOrder, QemuOpen, Qemu, superVars,
    socketVars, guardVars
<1>10. ASSUME NEW l \in Launches, QemuSend(l) PROVE OneContext'
  BY <1>10 DEF IInv, TypeOK, ServicePcs, QemuPcs, GuardPcs, HoldingPcs, Receipts, Terminal,
    Sources, OneContext, Context, QemuOwns, Held, QemuOrder, QemuSend, Qemu, superVars,
    guardVars
<1>11. ASSUME NEW l \in Launches, GuardReceive(l) PROVE OneContext'
  BY <1>11 DEF IInv, TypeOK, ServicePcs, QemuPcs, GuardPcs, HoldingPcs, Receipts, Terminal,
    Sources, OneContext, Context, QemuOwns, Held, QemuOrder, GuardReceive, FailUnheld, Guard,
    Report, superVars, qemuVars
<1>12. ASSUME NEW l \in Launches, GuardCommand(l) PROVE OneContext'
  BY <1>12 DEF IInv, TypeOK, ServicePcs, QemuPcs, GuardPcs, HoldingPcs, Receipts, Terminal,
    Sources, OneContext, Context, QemuOwns, Held, QemuOrder, GuardCommand, Retain, Guard,
    Report, superVars, qemuVars
<1>13. CASE UNCHANGED vars
  BY <1>13 DEF IInv, TypeOK, ServicePcs, QemuPcs, GuardPcs, HoldingPcs, Receipts, Terminal,
    Sources, OneContext, Context, QemuOwns, Held, QemuOrder, vars
<1> QED
  BY <1>1, <1>2, <1>3, <1>4, <1>5, <1>6, <1>7, <1>8, <1>9, <1>10, <1>11, <1>12, <1>13 DEF
    Next, SuperStep, QemuStep, GuardStep

\* QEMU comes after the request and the connection after QEMU.
LEMMA QemuOrderKept == ASSUME IInv, [Next]_vars PROVE QemuOrder'
<1>1. ASSUME NEW l \in Launches, Start(l) \/ StartGuard(l) \/ PublishCid(l) \/ Ready(l) \/
  Cleanup(l) \/ StopContainer(l) \/ WaitGuard(l) PROVE QemuOrder'
  BY <1>1 DEF IInv, TypeOK, ServicePcs, QemuPcs, GuardPcs, HoldingPcs, Receipts, Terminal,
    Sources, QemuOrder, Socket, SocketOf, Start, StartGuard, PublishCid, Ready, Cleanup,
    StopContainer, WaitGuard, Service, qemuVars, socketVars, guardVars, Guard, superVars
<1>2. ASSUME NEW l \in Launches, QemuSend(l) \/ QemuArmed(l) \/ QemuNoArm(l) \/ QemuGiveUp(l)
  PROVE QemuOrder'
  BY <1>2 DEF IInv, TypeOK, ServicePcs, QemuPcs, GuardPcs, HoldingPcs, Receipts, Terminal,
    Sources, QemuOrder, Socket, SocketOf, QemuSend, QemuArmed, QemuNoArm, QemuGiveUp, Qemu,
    superVars, guardVars, socketVars, Closed
<1>3. ASSUME NEW l \in Launches, QemuStop(l) \/ QemuSafe(l) \/ QemuHold(l) \/ QemuKill(l)
  PROVE QemuOrder'
  BY <1>3 DEF IInv, TypeOK, ServicePcs, QemuPcs, GuardPcs, HoldingPcs, Receipts, Terminal,
    Sources, QemuOrder, Socket, SocketOf, QemuStop, QemuSafe, QemuHold, QemuKill, Qemu,
    superVars, guardVars, socketVars, Closed
<1>4. ASSUME NEW l \in Launches, QemuExit(l) \/ GuestDrives(l) PROVE QemuOrder'
  BY <1>4 DEF IInv, TypeOK, ServicePcs, QemuPcs, GuardPcs, HoldingPcs, Receipts, Terminal,
    Sources, QemuOrder, Socket, SocketOf, QemuExit, GuestDrives, Qemu, superVars, socketVars,
    guardVars, qemuVars
<1>5. ASSUME NEW l \in Launches, GuardListen(l) \/ GuardReceive(l) \/ GuardIdentity(l) \/
  GuardOwn(l) PROVE QemuOrder'
  BY <1>5 DEF IInv, TypeOK, ServicePcs, QemuPcs, GuardPcs, HoldingPcs, Receipts, Terminal,
    Sources, QemuOrder, Socket, SocketOf, GuardListen, GuardReceive, GuardIdentity, GuardOwn,
    Guard, Report, superVars, qemuVars, socketVars, FailUnheld, Retain
<1>6. ASSUME NEW l \in Launches, GuardArm(l) \/ GuardCommand(l) \/ GuardDeath(l) \/
  GuardQuiesce(l) PROVE QemuOrder'
  BY <1>6 DEF IInv, TypeOK, ServicePcs, QemuPcs, GuardPcs, HoldingPcs, Receipts, Terminal,
    Sources, QemuOrder, Socket, SocketOf, GuardArm, GuardCommand, GuardDeath, GuardQuiesce,
    Retain, Guard, Report, superVars, qemuVars, socketVars, AfterSource
<1>7. ASSUME NEW l \in Launches, GuardReport(l) \/ GuardAck(l) \/ GuardClose(l) \/
  GuardRelease(l) PROVE QemuOrder'
  BY <1>7 DEF IInv, TypeOK, ServicePcs, QemuPcs, GuardPcs, HoldingPcs, Receipts, Terminal,
    Sources, QemuOrder, Socket, SocketOf, GuardReport, GuardAck, GuardClose, GuardRelease,
    Guard, Report, superVars, qemuVars, socketVars, Retain
<1>8. ASSUME NEW l \in Launches, GuardFault(l) \/ GuardSigterm(l) PROVE QemuOrder'
  BY <1>8 DEF IInv, TypeOK, ServicePcs, QemuPcs, GuardPcs, HoldingPcs, Receipts, Terminal,
    Sources, QemuOrder, Socket, SocketOf, GuardFault, GuardSigterm, Retain, Guard, Report,
    superVars, qemuVars, socketVars, FailUnheld
<1>9. ASSUME NEW l \in Launches, GuardReady(l) PROVE QemuOrder'
  BY <1>9 DEF IInv, TypeOK, ServicePcs, QemuPcs, GuardPcs, HoldingPcs, Receipts, Terminal,
    Sources, QemuOrder, Socket, SocketOf, GuardReady, Service, qemuVars, socketVars,
    guardVars
<1>10. ASSUME NEW l \in Launches, QemuOpen(l) PROVE QemuOrder'
  BY <1>10 DEF IInv, TypeOK, ServicePcs, QemuPcs, GuardPcs, HoldingPcs, Receipts, Terminal,
    Sources, QemuOrder, Socket, SocketOf, QemuOpen, Qemu, superVars, socketVars, guardVars
<1>11. ASSUME NEW l \in Launches, QemuConnect(l) PROVE QemuOrder'
  BY <1>11 DEF IInv, TypeOK, ServicePcs, QemuPcs, GuardPcs, HoldingPcs, Receipts, Terminal,
    Sources, QemuOrder, Socket, SocketOf, QemuConnect, Qemu, superVars, guardVars
<1>12. ASSUME NEW l \in Launches, QemuUnmap(l) PROVE QemuOrder'
  BY <1>12 DEF IInv, TypeOK, ServicePcs, QemuPcs, GuardPcs, HoldingPcs, Receipts, Terminal,
    Sources, QemuOrder, Socket, SocketOf, QemuUnmap, Qemu, superVars, socketVars, guardVars
<1>13. ASSUME NEW l \in Launches, GuardAccept(l) PROVE QemuOrder'
  BY <1>13 DEF IInv, TypeOK, ServicePcs, QemuPcs, GuardPcs, HoldingPcs, Receipts, Terminal,
    Sources, QemuOrder, Socket, SocketOf, GuardAccept, FailUnheld, Guard, Report, superVars,
    qemuVars, socketVars
<1>14. CASE UNCHANGED vars
  BY <1>14 DEF IInv, TypeOK, ServicePcs, QemuPcs, GuardPcs, HoldingPcs, Receipts, Terminal,
    Sources, QemuOrder, Socket, SocketOf, vars
<1> QED
  BY <1>1, <1>2, <1>3, <1>4, <1>5, <1>6, <1>7, <1>8, <1>9, <1>10, <1>11, <1>12, <1>13, <1>14
    DEF Next, SuperStep, QemuStep, GuardStep

\* The two ends of the connection and what is in flight between them agree.
LEMMA SocketKept == ASSUME IInv, [Next]_vars PROVE Socket'
<1>1. ASSUME NEW l \in Launches, Start(l) \/ StartGuard(l) \/ GuardReady(l) \/ PublishCid(l)
  \/ Ready(l) \/ Cleanup(l) \/ StopContainer(l) \/ WaitGuard(l) PROVE Socket'
  BY <1>1 DEF IInv, TypeOK, ServicePcs, QemuPcs, GuardPcs, HoldingPcs, Receipts, Terminal,
    Sources, QemuOrder, Socket, SocketOf, GuestArmed, Start, StartGuard, GuardReady,
    PublishCid, Ready, Cleanup, StopContainer, WaitGuard, Service, qemuVars, socketVars,
    guardVars, Guard, superVars
<1>2. ASSUME NEW l \in Launches, QemuOpen(l) \/ QemuNoArm(l) \/ QemuGiveUp(l) \/ QemuHold(l)
  PROVE Socket'
  BY <1>2 DEF IInv, TypeOK, ServicePcs, QemuPcs, GuardPcs, HoldingPcs, Receipts, Terminal,
    Sources, QemuOrder, Socket, SocketOf, GuestArmed, QemuOpen, QemuNoArm, QemuGiveUp,
    QemuHold, Qemu, superVars, socketVars, guardVars, Closed
<1>3. ASSUME NEW l \in Launches, QemuUnmap(l) \/ QemuExit(l) \/ GuestDrives(l) PROVE Socket'
  BY <1>3 DEF IInv, TypeOK, ServicePcs, QemuPcs, GuardPcs, HoldingPcs, Receipts, Terminal,
    Sources, QemuOrder, Socket, SocketOf, GuestArmed, QemuUnmap, QemuExit, GuestDrives, Qemu,
    superVars, socketVars, guardVars, qemuVars
<1>4. ASSUME NEW l \in Launches, GuardListen(l) \/ GuardAccept(l) \/ GuardReceive(l) \/
  GuardIdentity(l) PROVE Socket'
  BY <1>4 DEF IInv, TypeOK, ServicePcs, QemuPcs, GuardPcs, HoldingPcs, Receipts, Terminal,
    Sources, QemuOrder, Socket, SocketOf, GuestArmed, GuardListen, GuardAccept, GuardReceive,
    GuardIdentity, Guard, Report, superVars, qemuVars, socketVars, FailUnheld, Retain
<1>5. ASSUME NEW l \in Launches, GuardOwn(l) \/ GuardCommand(l) \/ GuardDeath(l) \/
  GuardQuiesce(l) PROVE Socket'
  BY <1>5 DEF IInv, TypeOK, ServicePcs, QemuPcs, GuardPcs, HoldingPcs, Receipts, Terminal,
    Sources, QemuOrder, Socket, SocketOf, GuestArmed, GuardOwn, GuardCommand, GuardDeath,
    GuardQuiesce, Retain, Guard, Report, superVars, qemuVars, socketVars, AfterSource
<1>6. ASSUME NEW l \in Launches, GuardReport(l) \/ GuardClose(l) \/ GuardRelease(l) \/
  GuardFault(l) PROVE Socket'
  BY <1>6 DEF IInv, TypeOK, ServicePcs, QemuPcs, GuardPcs, HoldingPcs, Receipts, Terminal,
    Sources, QemuOrder, Socket, SocketOf, GuestArmed, GuardReport, GuardClose, GuardRelease,
    GuardFault, Guard, Report, superVars, qemuVars, socketVars, Retain
<1>7. ASSUME NEW l \in Launches, GuardSigterm(l) PROVE Socket'
  BY <1>7 DEF IInv, TypeOK, ServicePcs, QemuPcs, GuardPcs, HoldingPcs, Receipts, Terminal,
    Sources, QemuOrder, Socket, SocketOf, GuestArmed, GuardSigterm, FailUnheld, Guard,
    Report, superVars, qemuVars, socketVars
<1>8. ASSUME NEW l \in Launches, QemuConnect(l) PROVE Socket'
  BY <1>8 DEF IInv, TypeOK, ServicePcs, QemuPcs, GuardPcs, HoldingPcs, Receipts, Terminal,
    Sources, QemuOrder, Socket, SocketOf, GuestArmed, QemuConnect, Qemu, superVars, guardVars
<1>9. ASSUME NEW l \in Launches, QemuSend(l) PROVE Socket'
  BY <1>9 DEF IInv, TypeOK, ServicePcs, QemuPcs, GuardPcs, HoldingPcs, Receipts, Terminal,
    Sources, QemuOrder, Socket, SocketOf, GuestArmed, QemuSend, Qemu, superVars, guardVars
<1>10. ASSUME NEW l \in Launches, QemuArmed(l) PROVE Socket'
  BY <1>10 DEF IInv, TypeOK, ServicePcs, QemuPcs, GuardPcs, HoldingPcs, Receipts, Terminal,
    Sources, QemuOrder, Socket, SocketOf, GuestArmed, QemuArmed, Qemu, superVars, guardVars
<1>11. ASSUME NEW l \in Launches, QemuStop(l) PROVE Socket'
  BY <1>11 DEF IInv, TypeOK, ServicePcs, QemuPcs, GuardPcs, HoldingPcs, Receipts, Terminal,
    Sources, QemuOrder, Socket, SocketOf, GuestArmed, QemuStop, Qemu, superVars, guardVars
<1>12. ASSUME NEW l \in Launches, QemuSafe(l) PROVE Socket'
  <2>1. Socket /\ TypeOK
    BY DEF IInv
  <2>2. /\ qemu[l] = "waitSafe" /\ toQemu[l] = "SAFE" /\ guard' = guard
        /\ toGuard' = toGuard
        /\ qemu' = [qemu EXCEPT ![l] = "cleanup"]
        /\ toQemu' = [toQemu EXCEPT ![l] = "none"]
        /\ conn' = [conn EXCEPT ![l] = "closed"]
    BY <1>12 DEF QemuSafe, Qemu, guardVars
  <2>3. guard[l] \in {"close", "final", "gone"}
    BY <2>1, <2>2, <1>12 DEF Socket, SocketOf
  <2> SUFFICES ASSUME NEW d \in Launches PROVE SocketOf(d)'
    BY DEF Socket
  <2>4. CASE d = l
    <3>1. SocketOf(l)
      BY <2>1, <1>12 DEF Socket
    <3>2. /\ qemu'[l] = "cleanup" /\ toQemu'[l] = "none" /\ conn'[l] = "closed"
          /\ guard'[l] = guard[l] /\ toGuard'[l] = toGuard[l]
      BY <2>1, <2>2, <1>12 DEF TypeOK
    <3> QED
      BY <2>2, <2>3, <2>4, <3>1, <3>2 DEF SocketOf
  <2>5. CASE d # l
    BY <2>1, <2>2, <2>5, <1>12 DEF Socket, SocketOf, TypeOK
  <2> QED
    BY <2>4, <2>5
<1>13. ASSUME NEW l \in Launches, QemuKill(l) PROVE Socket'
  BY <1>13 DEF IInv, TypeOK, ServicePcs, QemuPcs, GuardPcs, HoldingPcs, Receipts, Terminal,
    Sources, QemuOrder, Socket, SocketOf, GuestArmed, QemuKill, Qemu, Closed, superVars,
    guardVars
<1>14. ASSUME NEW l \in Launches, GuardArm(l) PROVE Socket'
  <2>1. Socket /\ TypeOK
    BY DEF IInv
  <2>2. /\ guard[l] = "arm" /\ UNCHANGED <<qemu, conn, toGuard>>
        /\ \/ /\ conn[l] = "open" /\ toQemu' = [toQemu EXCEPT ![l] = "ARM1"]
              /\ guard' = [guard EXCEPT ![l] = "command"]
           \/ toQemu' = toQemu /\ guard' = [guard EXCEPT ![l] = "retained"]
    BY <1>14 DEF GuardArm, Retain, Guard, qemuVars
  <2> SUFFICES ASSUME NEW d \in Launches PROVE SocketOf(d)'
    BY DEF Socket
  <2>3. CASE d = l
    <3>1. SocketOf(l) /\ toGuard[l] \in {"none", "RIG1", "STOP"}
      BY <2>1, <1>14 DEF Socket, TypeOK
    <3>2. /\ UNCHANGED <<qemu[l], conn[l], toGuard[l]>>
          /\ \/ guard'[l] = "command" /\ toQemu'[l] = "ARM1"
             \/ guard'[l] = "retained" /\ toQemu'[l] = toQemu[l]
      BY <2>1, <2>2, <1>14 DEF TypeOK
    <3> QED
      BY <2>2, <2>3, <3>1, <3>2 DEF SocketOf
  <2>4. CASE d # l
    BY <2>1, <2>2, <2>4, <1>14 DEF Socket, SocketOf, TypeOK
  <2> QED
    BY <2>3, <2>4
<1>15. ASSUME NEW l \in Launches, GuardAck(l) PROVE Socket'
  <2>1. Socket /\ TypeOK
    BY DEF IInv
  <2>2. /\ guard[l] = "ack" /\ UNCHANGED <<qemu, conn, toGuard>>
        /\ \/ /\ conn[l] = "open" /\ toQemu' = [toQemu EXCEPT ![l] = "SAFE"]
              /\ guard' = [guard EXCEPT ![l] = "close"]
           \/ toQemu' = toQemu /\ guard' = [guard EXCEPT ![l] = "retained"]
    BY <1>15 DEF GuardAck, Retain, Guard, qemuVars
  <2> SUFFICES ASSUME NEW d \in Launches PROVE SocketOf(d)'
    BY DEF Socket
  <2>3. CASE d = l
    <3>1. SocketOf(l) /\ toGuard[l] \in {"none", "RIG1", "STOP"}
      BY <2>1, <1>15 DEF Socket, TypeOK
    <3>2. /\ UNCHANGED <<qemu[l], conn[l], toGuard[l]>>
          /\ \/ guard'[l] = "close" /\ toQemu'[l] = "SAFE"
             \/ guard'[l] = "retained" /\ toQemu'[l] = toQemu[l]
      BY <2>1, <2>2, <1>15 DEF TypeOK
    <3> QED
      BY <2>2, <2>3, <3>1, <3>2 DEF SocketOf
  <2>4. CASE d # l
    BY <2>1, <2>2, <2>4, <1>15 DEF Socket, SocketOf, TypeOK
  <2> QED
    BY <2>3, <2>4
<1>16. CASE UNCHANGED vars
  BY <1>16 DEF IInv, TypeOK, ServicePcs, QemuPcs, GuardPcs, HoldingPcs, Receipts, Terminal,
    Sources, QemuOrder, Socket, SocketOf, GuestArmed, vars
<1> QED
  BY <1>1, <1>2, <1>3, <1>4, <1>5, <1>6, <1>7, <1>8, <1>9, <1>10, <1>11, <1>12, <1>13, <1>14,
    <1>15, <1>16 DEF Next, SuperStep, QemuStep, GuardStep

\* A vCPU runs only from ARM1 to QEMU's last thread, and the guard waits for the
\* latter: the end of the connection alone does not let it go on.
LEMMA GuestArmedKept == ASSUME IInv, [Next]_vars PROVE GuestArmed'
<1>1. ASSUME NEW l \in Launches, Start(l) \/ StartGuard(l) \/ GuardReady(l) \/ PublishCid(l)
  \/ Ready(l) \/ Cleanup(l) \/ StopContainer(l) \/ WaitGuard(l) PROVE GuestArmed'
  BY <1>1 DEF IInv, TypeOK, ServicePcs, QemuPcs, GuardPcs, HoldingPcs, Receipts, Terminal,
    Sources, QemuOrder, Socket, SocketOf, GuestArmed, Start, StartGuard, GuardReady,
    PublishCid, Ready, Cleanup, StopContainer, WaitGuard, Service, qemuVars, socketVars,
    guardVars, Guard, superVars
<1>2. ASSUME NEW l \in Launches, QemuOpen(l) \/ QemuConnect(l) \/ QemuSend(l) \/ QemuNoArm(l)
  PROVE GuestArmed'
  BY <1>2 DEF IInv, TypeOK, ServicePcs, QemuPcs, GuardPcs, HoldingPcs, Receipts, Terminal,
    Sources, QemuOrder, Socket, SocketOf, GuestArmed, QemuOpen, QemuConnect, QemuSend,
    QemuNoArm, Qemu, superVars, socketVars, guardVars
<1>3. ASSUME NEW l \in Launches, QemuGiveUp(l) \/ QemuSafe(l) \/ QemuHold(l) \/ QemuUnmap(l)
  PROVE GuestArmed'
  BY <1>3 DEF IInv, TypeOK, ServicePcs, QemuPcs, GuardPcs, HoldingPcs, Receipts, Terminal,
    Sources, QemuOrder, Socket, SocketOf, GuestArmed, QemuGiveUp, QemuSafe, QemuHold,
    QemuUnmap, Qemu, Closed, superVars, guardVars, socketVars
<1>4. ASSUME NEW l \in Launches, GuestDrives(l) PROVE GuestArmed'
  BY <1>4 DEF IInv, TypeOK, ServicePcs, QemuPcs, GuardPcs, HoldingPcs, Receipts, Terminal,
    Sources, QemuOrder, Socket, SocketOf, GuestArmed, GuestDrives, superVars, qemuVars,
    socketVars, guardVars
<1>5. ASSUME NEW l \in Launches, GuardListen(l) \/ GuardAccept(l) \/ GuardReceive(l) \/
  GuardIdentity(l) PROVE GuestArmed'
  BY <1>5 DEF IInv, TypeOK, ServicePcs, QemuPcs, GuardPcs, HoldingPcs, Receipts, Terminal,
    Sources, QemuOrder, Socket, SocketOf, GuestArmed, GuardListen, GuardAccept, GuardReceive,
    GuardIdentity, Guard, Report, superVars, qemuVars, socketVars, FailUnheld, Retain
<1>6. ASSUME NEW l \in Launches, GuardOwn(l) \/ GuardArm(l) \/ GuardQuiesce(l) \/
  GuardReport(l) PROVE GuestArmed'
  BY <1>6 DEF IInv, TypeOK, ServicePcs, QemuPcs, GuardPcs, HoldingPcs, Receipts, Terminal,
    Sources, QemuOrder, Socket, SocketOf, GuestArmed, GuardOwn, GuardArm, GuardQuiesce,
    GuardReport, Retain, Guard, Report, superVars, qemuVars, socketVars, AfterSource
<1>7. ASSUME NEW l \in Launches, GuardAck(l) \/ GuardClose(l) \/ GuardRelease(l) \/
  GuardFault(l) PROVE GuestArmed'
  BY <1>7 DEF IInv, TypeOK, ServicePcs, QemuPcs, GuardPcs, HoldingPcs, Receipts, Terminal,
    Sources, QemuOrder, Socket, SocketOf, GuestArmed, GuardAck, GuardClose, GuardRelease,
    GuardFault, Retain, Guard, Report, superVars, qemuVars, socketVars
<1>8. ASSUME NEW l \in Launches, GuardSigterm(l) PROVE GuestArmed'
  BY <1>8 DEF IInv, TypeOK, ServicePcs, QemuPcs, GuardPcs, HoldingPcs, Receipts, Terminal,
    Sources, QemuOrder, Socket, SocketOf, GuestArmed, GuardSigterm, FailUnheld, Guard,
    Report, superVars, qemuVars, socketVars
<1>9. ASSUME NEW l \in Launches, QemuArmed(l) PROVE GuestArmed'
  BY <1>9 DEF IInv, TypeOK, ServicePcs, QemuPcs, GuardPcs, HoldingPcs, Receipts, Terminal,
    Sources, QemuOrder, Socket, SocketOf, GuestArmed, QemuArmed, Qemu, superVars, guardVars
<1>10. ASSUME NEW l \in Launches, QemuStop(l) PROVE GuestArmed'
  BY <1>10 DEF IInv, TypeOK, ServicePcs, QemuPcs, GuardPcs, HoldingPcs, Receipts, Terminal,
    Sources, QemuOrder, Socket, SocketOf, GuestArmed, QemuStop, Qemu, superVars, guardVars
<1>11. ASSUME NEW l \in Launches, QemuKill(l) PROVE GuestArmed'
  BY <1>11 DEF IInv, TypeOK, ServicePcs, QemuPcs, GuardPcs, HoldingPcs, Receipts, Terminal,
    Sources, QemuOrder, Socket, SocketOf, GuestArmed, QemuKill, Qemu, Closed, superVars,
    guardVars
<1>12. ASSUME NEW l \in Launches, QemuExit(l) PROVE GuestArmed'
  BY <1>12 DEF IInv, TypeOK, ServicePcs, QemuPcs, GuardPcs, HoldingPcs, Receipts, Terminal,
    Sources, QemuOrder, Socket, SocketOf, GuestArmed, QemuExit, Qemu, superVars, socketVars,
    guardVars
<1>13. ASSUME NEW l \in Launches, GuardCommand(l) PROVE GuestArmed'
  BY <1>13 DEF IInv, TypeOK, ServicePcs, QemuPcs, GuardPcs, HoldingPcs, Receipts, Terminal,
    Sources, QemuOrder, Socket, SocketOf, GuestArmed, GuardCommand, Retain, Guard, Report,
    superVars, qemuVars
<1>14. ASSUME NEW l \in Launches, GuardDeath(l) PROVE GuestArmed'
  BY <1>14 DEF IInv, TypeOK, ServicePcs, QemuPcs, GuardPcs, HoldingPcs, Receipts, Terminal,
    Sources, QemuOrder, Socket, SocketOf, GuestArmed, GuardDeath, Guard, superVars, qemuVars,
    socketVars
<1>15. CASE UNCHANGED vars
  BY <1>15 DEF IInv, TypeOK, ServicePcs, QemuPcs, GuardPcs, HoldingPcs, Receipts, Terminal,
    Sources, QemuOrder, Socket, SocketOf, GuestArmed, vars
<1> QED
  BY <1>1, <1>2, <1>3, <1>4, <1>5, <1>6, <1>7, <1>8, <1>9, <1>10, <1>11, <1>12, <1>13, <1>14,
    <1>15 DEF Next, SuperStep, QemuStep, GuardStep

\* A source that was proved stopped stays stopped: the only guest that could
\* start it is the one the guard outlived.
LEMMA StagesKept == ASSUME IInv, [Next]_vars PROVE Stages'
<1>1. ASSUME NEW l \in Launches, Start(l) \/ GuardReady(l) \/ PublishCid(l) \/ Ready(l) \/
  Cleanup(l) \/ StopContainer(l) PROVE Stages'
  BY <1>1 DEF IInv, TypeOK, GuardPcs, HoldingPcs, Sources, Stages, OneContext, Context, Held,
    GuestArmed, Start, GuardReady, PublishCid, Ready, Cleanup, StopContainer, Service,
    qemuVars, socketVars, guardVars
<1>2. ASSUME NEW l \in Launches, QemuOpen(l) \/ QemuConnect(l) \/ QemuSend(l) \/ QemuArmed(l)
  PROVE Stages'
  BY <1>2 DEF IInv, TypeOK, GuardPcs, HoldingPcs, Sources, Stages, OneContext, Context, Held,
    GuestArmed, QemuOpen, QemuConnect, QemuSend, QemuArmed, Qemu, superVars, socketVars,
    guardVars
<1>3. ASSUME NEW l \in Launches, QemuNoArm(l) \/ QemuGiveUp(l) \/ QemuStop(l) \/ QemuSafe(l)
  PROVE Stages'
  BY <1>3 DEF IInv, TypeOK, GuardPcs, HoldingPcs, Sources, Stages, OneContext, Context, Held,
    GuestArmed, QemuNoArm, QemuGiveUp, QemuStop, QemuSafe, Qemu, superVars, socketVars,
    guardVars, Closed
<1>4. ASSUME NEW l \in Launches, QemuHold(l) \/ QemuUnmap(l) \/ QemuKill(l) \/ QemuExit(l)
  PROVE Stages'
  BY <1>4 DEF IInv, TypeOK, GuardPcs, HoldingPcs, Sources, Stages, OneContext, Context, Held,
    GuestArmed, QemuHold, QemuUnmap, QemuKill, QemuExit, Qemu, superVars, socketVars,
    guardVars, Closed
<1>5. ASSUME NEW l \in Launches, StartGuard(l) PROVE Stages'
  BY <1>5 DEF IInv, TypeOK, GuardPcs, HoldingPcs, Sources, Stages, OneContext, Context, Held,
    GuestArmed, StartGuard, Guard, superVars, qemuVars, socketVars
<1>6. ASSUME NEW l \in Launches, WaitGuard(l) PROVE Stages'
  BY <1>6 DEF IInv, TypeOK, GuardPcs, HoldingPcs, Sources, Stages, OneContext, Context, Held,
    GuestArmed, WaitGuard, Service, qemuVars, socketVars, guardVars
<1>7. ASSUME NEW l \in Launches, GuestDrives(l) PROVE Stages'
  BY <1>7 DEF IInv, TypeOK, GuardPcs, HoldingPcs, Sources, Stages, OneContext, Context, Held,
    GuestArmed, GuestDrives, superVars, qemuVars, socketVars, guardVars
<1>8. ASSUME NEW l \in Launches, GuardListen(l) PROVE Stages'
  BY <1>8 DEF IInv, TypeOK, GuardPcs, HoldingPcs, Sources, Stages, OneContext, Context, Held,
    GuestArmed, GuardListen, Guard, Report, superVars, qemuVars, socketVars
<1>9. ASSUME NEW l \in Launches, GuardAccept(l) PROVE Stages'
  BY <1>9 DEF IInv, TypeOK, GuardPcs, HoldingPcs, Sources, Stages, OneContext, Context, Held,
    GuestArmed, GuardAccept, FailUnheld, Guard, Report, superVars, qemuVars, socketVars
<1>10. ASSUME NEW l \in Launches, GuardReceive(l) PROVE Stages'
  BY <1>10 DEF IInv, TypeOK, GuardPcs, HoldingPcs, Sources, Stages, OneContext, Context,
    Held, GuestArmed, GuardReceive, FailUnheld, Guard, Report, superVars, qemuVars
<1>11. ASSUME NEW l \in Launches, GuardIdentity(l) PROVE Stages'
  BY <1>11 DEF IInv, TypeOK, GuardPcs, HoldingPcs, Sources, Stages, OneContext, Context,
    Held, GuestArmed, GuardIdentity, Retain, Guard, Report, superVars, qemuVars, socketVars
<1>12. ASSUME NEW l \in Launches, GuardOwn(l) PROVE Stages'
  BY <1>12 DEF IInv, TypeOK, GuardPcs, HoldingPcs, Sources, Stages, OneContext, Context,
    Held, GuestArmed, GuardOwn, Retain, Guard, Report, superVars, qemuVars, socketVars
<1>13. ASSUME NEW l \in Launches, GuardArm(l) PROVE Stages'
  BY <1>13 DEF IInv, TypeOK, GuardPcs, HoldingPcs, Sources, Stages, OneContext, Context,
    Held, GuestArmed, GuardArm, Retain, Guard, Report, superVars, qemuVars
<1>14. ASSUME NEW l \in Launches, GuardCommand(l) PROVE Stages'
  BY <1>14 DEF IInv, TypeOK, GuardPcs, HoldingPcs, Sources, Stages, OneContext, Context,
    Held, GuestArmed, GuardCommand, Retain, Guard, Report, superVars, qemuVars
<1>15. ASSUME NEW l \in Launches, GuardDeath(l) PROVE Stages'
  BY <1>15 DEF IInv, TypeOK, GuardPcs, HoldingPcs, Sources, Stages, OneContext, Context,
    Held, GuestArmed, GuardDeath, Guard, superVars, qemuVars, socketVars
<1>16. ASSUME NEW l \in Launches, GuardQuiesce(l) PROVE Stages'
  <2>1. /\ active' = active \ {guard[l]}
        /\ UNCHANGED <<pending, service, requested, published, qemu, vcpus, unmapped>>
        /\ UNCHANGED <<conn, toGuard, toQemu, command, receipt, sigterm>>
        /\ \/ guard[l] = "display" /\ guard' = [guard EXCEPT ![l] = "ih"]
           \/ guard[l] = "ih" /\ guard' = [guard EXCEPT ![l] = "engines"]
           \/ guard[l] = "engines" /\ guard' = [guard EXCEPT ![l] = "report"]
    BY <1>16, QuiesceStep DEF superVars, qemuVars, socketVars
  <2>2. TypeOK /\ Stages /\ OneContext
    BY DEF IInv
  <2>3. active' \subseteq active
    BY <2>1
  <2>4. ASSUME NEW d \in Launches, d # l PROVE guard'[d] = guard[d]
    BY <2>1, <2>2, <2>4 DEF TypeOK
  <2>5. guard'[l] = "ih" => active' \subseteq {"ih", "engines"}
    BY <2>1, <2>2 DEF TypeOK, Sources
  <2>6. guard'[l] = "engines" => active' \subseteq {"engines"}
    BY <2>1, <2>2 DEF TypeOK, Stages
  <2>7. guard'[l] \in {"report", "ack", "close"} => active' = {}
    BY <2>1, <2>2 DEF TypeOK, Stages
  <2> QED
    BY <2>2, <2>3, <2>4, <2>5, <2>6, <2>7 DEF Stages
<1>17. ASSUME NEW l \in Launches, GuardReport(l) PROVE Stages'
  BY <1>17 DEF IInv, TypeOK, GuardPcs, HoldingPcs, Sources, Stages, OneContext, Context,
    Held, GuestArmed, GuardReport, Guard, Report, superVars, qemuVars, socketVars
<1>18. ASSUME NEW l \in Launches, GuardAck(l) PROVE Stages'
  BY <1>18 DEF IInv, TypeOK, GuardPcs, HoldingPcs, Sources, Stages, OneContext, Context,
    Held, GuestArmed, GuardAck, Retain, Guard, Report, superVars, qemuVars
<1>19. ASSUME NEW l \in Launches, GuardClose(l) PROVE Stages'
  BY <1>19 DEF IInv, TypeOK, GuardPcs, HoldingPcs, Sources, Stages, OneContext, Context,
    Held, GuestArmed, GuardClose, Guard, superVars, qemuVars, socketVars
<1>20. ASSUME NEW l \in Launches, GuardRelease(l) PROVE Stages'
  BY <1>20 DEF IInv, TypeOK, GuardPcs, HoldingPcs, Sources, Stages, OneContext, Context,
    Held, GuestArmed, GuardRelease, Guard, Report, superVars, qemuVars, socketVars
<1>21. ASSUME NEW l \in Launches, GuardFault(l) PROVE Stages'
  BY <1>21 DEF IInv, TypeOK, GuardPcs, HoldingPcs, Sources, Stages, OneContext, Context,
    Held, GuestArmed, GuardFault, Retain, Guard, Report, superVars, qemuVars, socketVars
<1>22. ASSUME NEW l \in Launches, GuardSigterm(l) PROVE Stages'
  BY <1>22 DEF IInv, TypeOK, GuardPcs, HoldingPcs, Sources, Stages, OneContext, Context,
    Held, GuestArmed, GuardSigterm, FailUnheld, Guard, Report, superVars, qemuVars,
    socketVars
<1>23. CASE UNCHANGED vars
  BY <1>23 DEF IInv, TypeOK, GuardPcs, HoldingPcs, Sources, Stages, OneContext, Context,
    Held, GuestArmed, vars
<1> QED
  BY <1>1, <1>2, <1>3, <1>4, <1>5, <1>6, <1>7, <1>8, <1>9, <1>10, <1>11, <1>12, <1>13, <1>14,
    <1>15, <1>16, <1>17, <1>18, <1>19, <1>20, <1>21, <1>22, <1>23 DEF Next, SuperStep,
    QemuStep, GuardStep

\* Sources that write always write under an armed guard that still maps.
LEMMA DrivenKept == ASSUME IInv, [Next]_vars PROVE Driven'
<1>1. ASSUME NEW l \in Launches, Start(l) \/ StartGuard(l) \/ GuardReady(l) \/ PublishCid(l)
  \/ Ready(l) \/ Cleanup(l) \/ StopContainer(l) \/ WaitGuard(l) PROVE Driven'
  BY <1>1 DEF IInv, TypeOK, ServicePcs, QemuPcs, GuardPcs, HoldingPcs, Receipts, Terminal,
    Sources, Driven, Driving, QemuOrder, Socket, SocketOf, GuestArmed, Stages, Start,
    StartGuard, GuardReady, PublishCid, Ready, Cleanup, StopContainer, WaitGuard, Service,
    qemuVars, socketVars, guardVars, Guard, superVars
<1>2. ASSUME NEW l \in Launches, QemuOpen(l) \/ QemuConnect(l) \/ QemuSend(l) \/ QemuArmed(l)
  PROVE Driven'
  BY <1>2 DEF IInv, TypeOK, ServicePcs, QemuPcs, GuardPcs, HoldingPcs, Receipts, Terminal,
    Sources, Driven, Driving, QemuOrder, Socket, SocketOf, GuestArmed, Stages, QemuOpen,
    QemuConnect, QemuSend, QemuArmed, Qemu, superVars, socketVars, guardVars
<1>3. ASSUME NEW l \in Launches, QemuNoArm(l) \/ QemuGiveUp(l) \/ QemuStop(l) \/ QemuHold(l)
  PROVE Driven'
  BY <1>3 DEF IInv, TypeOK, ServicePcs, QemuPcs, GuardPcs, HoldingPcs, Receipts, Terminal,
    Sources, Driven, Driving, QemuOrder, Socket, SocketOf, GuestArmed, Stages, QemuNoArm,
    QemuGiveUp, QemuStop, QemuHold, Qemu, superVars, socketVars, guardVars, Closed
<1>4. ASSUME NEW l \in Launches, QemuExit(l) PROVE Driven'
  BY <1>4 DEF IInv, TypeOK, ServicePcs, QemuPcs, GuardPcs, HoldingPcs, Receipts, Terminal,
    Sources, Driven, Driving, QemuOrder, Socket, SocketOf, GuestArmed, Stages, QemuExit,
    Qemu, superVars, socketVars, guardVars
<1>5. ASSUME NEW l \in Launches, GuardListen(l) \/ GuardAccept(l) \/ GuardReceive(l) \/
  GuardIdentity(l) PROVE Driven'
  BY <1>5 DEF IInv, TypeOK, ServicePcs, QemuPcs, GuardPcs, HoldingPcs, Receipts, Terminal,
    Sources, Driven, Driving, QemuOrder, Socket, SocketOf, GuestArmed, Stages, GuardListen,
    GuardAccept, GuardReceive, GuardIdentity, Guard, Report, superVars, qemuVars, socketVars,
    FailUnheld, Retain
<1>6. ASSUME NEW l \in Launches, GuardOwn(l) \/ GuardArm(l) \/ GuardDeath(l) \/
  GuardReport(l) PROVE Driven'
  BY <1>6 DEF IInv, TypeOK, ServicePcs, QemuPcs, GuardPcs, HoldingPcs, Receipts, Terminal,
    Sources, Driven, Driving, QemuOrder, Socket, SocketOf, GuestArmed, Stages, GuardOwn,
    GuardArm, GuardDeath, GuardReport, Retain, Guard, Report, superVars, qemuVars, socketVars
<1>7. ASSUME NEW l \in Launches, GuardAck(l) \/ GuardClose(l) \/ GuardRelease(l) \/
  GuardFault(l) PROVE Driven'
  BY <1>7 DEF IInv, TypeOK, ServicePcs, QemuPcs, GuardPcs, HoldingPcs, Receipts, Terminal,
    Sources, Driven, Driving, QemuOrder, Socket, SocketOf, GuestArmed, Stages, GuardAck,
    GuardClose, GuardRelease, GuardFault, Retain, Guard, Report, superVars, qemuVars,
    socketVars
<1>8. ASSUME NEW l \in Launches, GuardSigterm(l) PROVE Driven'
  BY <1>8 DEF IInv, TypeOK, ServicePcs, QemuPcs, GuardPcs, HoldingPcs, Receipts, Terminal,
    Sources, Driven, Driving, QemuOrder, Socket, SocketOf, GuestArmed, Stages, GuardSigterm,
    FailUnheld, Guard, Report, superVars, qemuVars, socketVars
<1>9. ASSUME NEW l \in Launches, QemuSafe(l) PROVE Driven'
  BY <1>9 DEF IInv, TypeOK, ServicePcs, QemuPcs, GuardPcs, HoldingPcs, Receipts, Terminal,
    Sources, Driven, Driving, QemuOrder, Socket, SocketOf, GuestArmed, Stages, QemuSafe,
    Qemu, superVars, guardVars
<1>10. ASSUME NEW l \in Launches, QemuUnmap(l) PROVE Driven'
  BY <1>10 DEF IInv, TypeOK, ServicePcs, QemuPcs, GuardPcs, HoldingPcs, Receipts, Terminal,
    Sources, Driven, Driving, QemuOrder, Socket, SocketOf, GuestArmed, Stages, QemuUnmap,
    Qemu, superVars, socketVars, guardVars
<1>11. ASSUME NEW l \in Launches, QemuKill(l) PROVE Driven'
  BY <1>11 DEF IInv, TypeOK, ServicePcs, QemuPcs, GuardPcs, HoldingPcs, Receipts, Terminal,
    Sources, Driven, Driving, QemuOrder, Socket, SocketOf, GuestArmed, Stages, QemuKill,
    Qemu, Closed, superVars, guardVars
<1>12. ASSUME NEW l \in Launches, GuestDrives(l) PROVE Driven'
  BY <1>12 DEF IInv, TypeOK, ServicePcs, QemuPcs, GuardPcs, HoldingPcs, Receipts, Terminal,
    Sources, Driven, Driving, QemuOrder, Socket, SocketOf, GuestArmed, Stages, GuestDrives,
    superVars, qemuVars, socketVars, guardVars
<1>13. ASSUME NEW l \in Launches, GuardCommand(l) PROVE Driven'
  BY <1>13 DEF IInv, TypeOK, ServicePcs, QemuPcs, GuardPcs, HoldingPcs, Receipts, Terminal,
    Sources, Driven, Driving, QemuOrder, Socket, SocketOf, GuestArmed, Stages, GuardCommand,
    Retain, Guard, Report, superVars, qemuVars
<1>14. ASSUME NEW l \in Launches, GuardQuiesce(l) PROVE Driven'
  <2>1. /\ active' = active \ {guard[l]}
        /\ UNCHANGED <<pending, service, requested, published, qemu, vcpus, unmapped>>
        /\ UNCHANGED <<conn, toGuard, toQemu, command, receipt, sigterm>>
        /\ \/ guard[l] = "display" /\ guard' = [guard EXCEPT ![l] = "ih"]
           \/ guard[l] = "ih" /\ guard' = [guard EXCEPT ![l] = "engines"]
           \/ guard[l] = "engines" /\ guard' = [guard EXCEPT ![l] = "report"]
    BY <1>14, QuiesceStep DEF superVars, qemuVars, socketVars
  <2>2. TypeOK /\ Stages /\ Driven
    BY DEF IInv
  <2>3. SUFFICES ASSUME active' # {} PROVE \E d \in Launches : Driving(d)'
    BY DEF Driven
  <2>4. PICK d \in Launches : Driving(d)
    BY <2>1, <2>2, <2>3 DEF Driven
  <2>5. guard[l] # "engines"
    BY <2>1, <2>2, <2>3 DEF Stages
  <2>6. guard'[d] = guard[d] \/ guard'[d] \in {"ih", "engines"}
    BY <2>1, <2>2, <2>5 DEF TypeOK
  <2> QED
    BY <2>1, <2>4, <2>6 DEF Driving
<1>15. CASE UNCHANGED vars
  BY <1>15 DEF IInv, TypeOK, ServicePcs, QemuPcs, GuardPcs, HoldingPcs, Receipts, Terminal,
    Sources, Driven, Driving, QemuOrder, Socket, SocketOf, GuestArmed, Stages, vars
<1> QED
  BY <1>1, <1>2, <1>3, <1>4, <1>5, <1>6, <1>7, <1>8, <1>9, <1>10, <1>11, <1>12, <1>13, <1>14,
    <1>15 DEF Next, SuperStep, QemuStep, GuardStep

\* A receipt is terminal only once the guard has gone, and a cleanup that found
\* no receipt at all belongs to a launch that never asked for a container.
LEMMA ReportedKept == ASSUME IInv, [Next]_vars PROVE Reported'
<1>1. ASSUME NEW l \in Launches, Start(l) \/ PublishCid(l) \/ Ready(l) \/ Cleanup(l) \/
  StopContainer(l) PROVE Reported'
  BY <1>1 DEF IInv, TypeOK, ServicePcs, QemuPcs, GuardPcs, HoldingPcs, Receipts, Terminal,
    Sources, Reported, QemuOrder, Start, PublishCid, Ready, Cleanup, StopContainer, Service,
    qemuVars, socketVars, guardVars
<1>2. ASSUME NEW l \in Launches, QemuOpen(l) \/ QemuConnect(l) \/ QemuSend(l) \/ QemuArmed(l)
  PROVE Reported'
  BY <1>2 DEF IInv, TypeOK, ServicePcs, QemuPcs, GuardPcs, HoldingPcs, Receipts, Terminal,
    Sources, Reported, QemuOrder, QemuOpen, QemuConnect, QemuSend, QemuArmed, Qemu,
    superVars, socketVars, guardVars
<1>3. ASSUME NEW l \in Launches, QemuNoArm(l) \/ QemuGiveUp(l) \/ QemuStop(l) \/ QemuSafe(l)
  PROVE Reported'
  BY <1>3 DEF IInv, TypeOK, ServicePcs, QemuPcs, GuardPcs, HoldingPcs, Receipts, Terminal,
    Sources, Reported, QemuOrder, QemuNoArm, QemuGiveUp, QemuStop, QemuSafe, Qemu, superVars,
    socketVars, guardVars, Closed
<1>4. ASSUME NEW l \in Launches, QemuHold(l) \/ QemuUnmap(l) \/ QemuKill(l) \/ QemuExit(l)
  PROVE Reported'
  BY <1>4 DEF IInv, TypeOK, ServicePcs, QemuPcs, GuardPcs, HoldingPcs, Receipts, Terminal,
    Sources, Reported, QemuOrder, QemuHold, QemuUnmap, QemuKill, QemuExit, Qemu, superVars,
    socketVars, guardVars, Closed
<1>5. ASSUME NEW l \in Launches, GuestDrives(l) PROVE Reported'
  BY <1>5 DEF IInv, TypeOK, ServicePcs, QemuPcs, GuardPcs, HoldingPcs, Receipts, Terminal,
    Sources, Reported, QemuOrder, GuestDrives, superVars, qemuVars, socketVars, guardVars
<1>6. ASSUME NEW l \in Launches, GuardListen(l) \/ GuardAccept(l) \/ GuardReceive(l) \/
  GuardIdentity(l) PROVE Reported'
  BY <1>6 DEF IInv, TypeOK, ServicePcs, QemuPcs, GuardPcs, HoldingPcs, Receipts, Terminal,
    Sources, Reported, QemuOrder, GuardListen, GuardAccept, GuardReceive, GuardIdentity,
    Guard, Report, superVars, qemuVars, socketVars, FailUnheld, Retain
<1>7. ASSUME NEW l \in Launches, GuardOwn(l) \/ GuardArm(l) \/ GuardCommand(l) \/
  GuardDeath(l) PROVE Reported'
  BY <1>7 DEF IInv, TypeOK, ServicePcs, QemuPcs, GuardPcs, HoldingPcs, Receipts, Terminal,
    Sources, Reported, QemuOrder, GuardOwn, GuardArm, GuardCommand, GuardDeath, Retain,
    Guard, Report, superVars, qemuVars, socketVars
<1>8. ASSUME NEW l \in Launches, GuardQuiesce(l) \/ GuardReport(l) \/ GuardAck(l) \/
  GuardClose(l) PROVE Reported'
  BY <1>8 DEF IInv, TypeOK, ServicePcs, QemuPcs, GuardPcs, HoldingPcs, Receipts, Terminal,
    Sources, Reported, QemuOrder, GuardQuiesce, GuardReport, GuardAck, GuardClose,
    AfterSource, Guard, superVars, qemuVars, socketVars, Report, Retain
<1>9. ASSUME NEW l \in Launches, GuardFault(l) \/ GuardSigterm(l) PROVE Reported'
  BY <1>9 DEF IInv, TypeOK, ServicePcs, QemuPcs, GuardPcs, HoldingPcs, Receipts, Terminal,
    Sources, Reported, QemuOrder, GuardFault, GuardSigterm, Retain, Guard, Report, superVars,
    qemuVars, socketVars, FailUnheld
<1>10. ASSUME NEW l \in Launches, StartGuard(l) PROVE Reported'
  BY <1>10 DEF IInv, TypeOK, ServicePcs, QemuPcs, GuardPcs, HoldingPcs, Receipts, Terminal,
    Sources, Reported, QemuOrder, StartGuard, Guard, superVars, qemuVars, socketVars
<1>11. ASSUME NEW l \in Launches, GuardReady(l) PROVE Reported'
  BY <1>11 DEF IInv, TypeOK, ServicePcs, QemuPcs, GuardPcs, HoldingPcs, Receipts, Terminal,
    Sources, Reported, QemuOrder, GuardReady, Service, qemuVars, socketVars, guardVars
<1>12. ASSUME NEW l \in Launches, WaitGuard(l) PROVE Reported'
  BY <1>12 DEF IInv, TypeOK, ServicePcs, QemuPcs, GuardPcs, HoldingPcs, Receipts, Terminal,
    Sources, Reported, QemuOrder, WaitGuard, Service, qemuVars, socketVars, guardVars
<1>13. ASSUME NEW l \in Launches, GuardRelease(l) PROVE Reported'
  BY <1>13 DEF IInv, TypeOK, ServicePcs, QemuPcs, GuardPcs, HoldingPcs, Receipts, Terminal,
    Sources, Reported, QemuOrder, GuardRelease, Guard, Report, superVars, qemuVars,
    socketVars
<1>14. CASE UNCHANGED vars
  BY <1>14 DEF IInv, TypeOK, ServicePcs, QemuPcs, GuardPcs, HoldingPcs, Receipts, Terminal,
    Sources, Reported, QemuOrder, vars
<1> QED
  BY <1>1, <1>2, <1>3, <1>4, <1>5, <1>6, <1>7, <1>8, <1>9, <1>10, <1>11, <1>12, <1>13, <1>14
    DEF Next, SuperStep, QemuStep, GuardStep

\* The inductive invariant holds in every reachable state.
THEOREM InvariantHolds == Spec => []IInv
<1>1. Init => IInv
  BY DEF Init, IInv, TypeOK, ServicePcs, QemuPcs, GuardPcs, Receipts, OneContext, QemuOrder,
         Socket, SocketOf, GuestArmed, Stages, Driven, Reported, Context, QemuOwns, Held,
         HoldingPcs, Terminal
<1>2. ASSUME IInv, [Next]_vars PROVE IInv'
  <2>1. TypeOK'
    BY <1>2, TypeKept DEF IInv
  <2> QED
    BY <1>2, <2>1, OneContextKept, QemuOrderKept, SocketKept, GuestArmedKept, StagesKept,
       DrivenKept, ReportedKept DEF IInv
<1> QED
  BY <1>1, <1>2, PTL DEF Spec

-----------------------------------------------------------------------------
(***************************************************************************)
(* What the runs check, for every set of launches.                         *)
(***************************************************************************)

\* Every variable keeps its type.
THEOREM TypeCorrect == Spec => []TypeOK
<1>1. IInv => TypeOK
  BY DEF IInv
<1> QED
  BY <1>1, InvariantHolds, PTL

\* A guest that may run is guarded: its launch's guard holds the descriptor and
\* its memory is mapped.
LEMMA GuestIsMapped ==
  ASSUME IInv, NEW l \in Launches, vcpus[l]
  PROVE  Held(l) /\ Mapped(l)
BY DEF IInv, GuestArmed, Held, HoldingPcs, Context, Mapped

\* Sources that may write do so under the mapping of a guard that holds it.
LEMMA SourcesAreMapped ==
  ASSUME IInv, active # {}
  PROVE  \E l \in Launches : Driving(l) /\ Held(l) /\ Mapped(l)
BY DEF IInv, Driven, Driving, Held, HoldingPcs, Context, Mapped

\* The device's view (dma-guard.py serve): whatever died and in whatever order, a
\* source writes under a mapping a guard holds, the guest has stopped before the
\* guard proves a source stopped, and a release leaves the device quiet.
THEOREM ProtectedAlways == Spec => []Protected
<1>1. ASSUME IInv PROVE Protected
  <2>1. DmaGuarded
    BY <1>1, SourcesAreMapped DEF DmaGuarded, Mapped
  <2>2. GuestBeforeQuiesce
    BY <1>1 DEF IInv, GuestArmed, GuestBeforeQuiesce
  <2>3. ReleasedMeansQuiet
    <3>1. SUFFICES ASSUME NEW l \in Launches, receipt[l] = "released", active # {}
                   PROVE  \E d \in Launches \ {l} : Held(d)
      BY DEF ReleasedMeansQuiet
    <3>2. ~Held(l)
      BY <1>1, <3>1 DEF IInv, Reported, Terminal, Held, HoldingPcs
    <3> QED
      BY <1>1, <3>1, <3>2, SourcesAreMapped
  <2> QED
    BY <2>1, <2>2, <2>3 DEF Protected
<1> QED
  BY <1>1, InvariantHolds, PTL

\* The supervisor's view (vm-supervision wait_dma_guard, cleanup): a terminal
\* receipt and a finished cleanup both mean that no guard holds the device for
\* that launch and that its guest does not run.
THEOREM ReceiptsTrueAlways == Spec => []ReceiptsTrue
<1>1. ASSUME IInv PROVE ReceiptsTrue
  <2>1. ASSUME NEW l \in Launches, guard[l] = "gone" PROVE ~Held(l) /\ ~vcpus[l]
    BY <1>1, <2>1 DEF IInv, GuestArmed, Held, HoldingPcs
  <2>2. ASSUME NEW l \in Launches, ~requested[l] PROVE ~Held(l) /\ ~vcpus[l]
    BY <1>1, <2>2 DEF IInv, QemuOrder, Held, HoldingPcs
  <2> QED
    BY <1>1, <2>1, <2>2 DEF IInv, Reported, ReceiptsTrue, TerminalReceipts, CleanMeansLetGo
<1> QED
  BY <1>1, InvariantHolds, PTL

-----------------------------------------------------------------------------
(***************************************************************************)
(* The guard implements its contract.                                      *)
(***************************************************************************)

\* A step of the contract, or one that changes nothing it describes.
ContractStep ==
  [Contract!Next]_<<\E l \in Launches : Mapped(l), \E l \in Launches : vcpus[l], active # {}>>

\* A step that only lets go of mappings, and of none that a guest or a source
\* needs, closes the contract's context or leaves it alone.
LEMMA LettingGo ==
  ASSUME IInv, UNCHANGED <<vcpus, active>>,
         \A d \in Launches : Mapped(d)' => Mapped(d),
         \A d \in Launches : Driving(d) \/ vcpus[d] => Mapped(d)'
  PROVE  ContractStep
<1>1. (\E d \in Launches : Mapped(d)') => \E d \in Launches : Mapped(d)
  OBVIOUS
<1>2. (\E d \in Launches : vcpus[d]) => \E d \in Launches : Mapped(d)'
  OBVIOUS
<1>3. active # {} => \E d \in Launches : Mapped(d)'
  BY SourcesAreMapped
<1>4. CASE \E d \in Launches : Mapped(d)'
  BY <1>1, <1>4 DEF ContractStep
<1>5. CASE ~\E d \in Launches : Mapped(d)'
  BY <1>2, <1>3, <1>5 DEF ContractStep, Contract!Next, Contract!Close
<1> QED
  BY <1>4, <1>5

\* The steps that neither run a guest nor open, drive or stop the device only
\* let go of mappings, and of none that is needed.
LEMMA KeepsMapping ==
  ASSUME IInv, NEW l \in Launches,
         Start(l) \/ StartGuard(l) \/ GuardReady(l) \/ PublishCid(l) \/ Ready(l) \/
           Cleanup(l) \/ StopContainer(l) \/ WaitGuard(l) \/ QemuConnect(l) \/ QemuSend(l) \/
           QemuNoArm(l) \/ QemuGiveUp(l) \/ QemuSafe(l) \/ QemuHold(l) \/ QemuUnmap(l) \/
           QemuKill(l) \/ GuardListen(l) \/ GuardAccept(l) \/ GuardReceive(l) \/
           GuardIdentity(l) \/ GuardOwn(l) \/ GuardArm(l) \/ GuardCommand(l) \/ GuardDeath(l)
           \/ GuardReport(l) \/ GuardAck(l) \/ GuardClose(l) \/ GuardRelease(l) \/
           GuardFault(l) \/ GuardSigterm(l)
  PROVE  /\ UNCHANGED <<vcpus, active>>
         /\ \A d \in Launches : Mapped(d)' => Mapped(d)
         /\ \A d \in Launches : Driving(d) \/ vcpus[d] => Mapped(d)'
<1>1. CASE Start(l)
  BY <1>1 DEF IInv, TypeOK, QemuPcs, GuardPcs, HoldingPcs, QemuOrder, Socket, SocketOf,
    GuestArmed, Driving, Mapped, Context, QemuOwns, Held, Start, Service, qemuVars,
    socketVars, guardVars
<1>2. CASE StartGuard(l)
  BY <1>2 DEF IInv, TypeOK, QemuPcs, GuardPcs, HoldingPcs, QemuOrder, Socket, SocketOf,
    GuestArmed, Driving, Mapped, Context, QemuOwns, Held, StartGuard, Guard, superVars,
    qemuVars, socketVars
<1>3. CASE GuardReady(l)
  BY <1>3 DEF IInv, TypeOK, QemuPcs, GuardPcs, HoldingPcs, QemuOrder, Socket, SocketOf,
    GuestArmed, Driving, Mapped, Context, QemuOwns, Held, GuardReady, Service, qemuVars,
    socketVars, guardVars
<1>4. CASE PublishCid(l)
  BY <1>4 DEF IInv, TypeOK, QemuPcs, GuardPcs, HoldingPcs, QemuOrder, Socket, SocketOf,
    GuestArmed, Driving, Mapped, Context, QemuOwns, Held, PublishCid, Service, qemuVars,
    socketVars, guardVars
<1>5. CASE Ready(l)
  BY <1>5 DEF IInv, TypeOK, QemuPcs, GuardPcs, HoldingPcs, QemuOrder, Socket, SocketOf,
    GuestArmed, Driving, Mapped, Context, QemuOwns, Held, Ready, qemuVars, socketVars,
    guardVars
<1>6. CASE Cleanup(l)
  BY <1>6 DEF IInv, TypeOK, QemuPcs, GuardPcs, HoldingPcs, QemuOrder, Socket, SocketOf,
    GuestArmed, Driving, Mapped, Context, QemuOwns, Held, Cleanup, Service, qemuVars,
    socketVars, guardVars
<1>7. CASE StopContainer(l)
  BY <1>7 DEF IInv, TypeOK, QemuPcs, GuardPcs, HoldingPcs, QemuOrder, Socket, SocketOf,
    GuestArmed, Driving, Mapped, Context, QemuOwns, Held, StopContainer, Service, qemuVars,
    socketVars, guardVars
<1>8. CASE WaitGuard(l)
  BY <1>8 DEF IInv, TypeOK, QemuPcs, GuardPcs, HoldingPcs, QemuOrder, Socket, SocketOf,
    GuestArmed, Driving, Mapped, Context, QemuOwns, Held, WaitGuard, Service, qemuVars,
    socketVars, guardVars
<1>9. CASE QemuConnect(l)
  BY <1>9 DEF IInv, TypeOK, QemuPcs, GuardPcs, HoldingPcs, QemuOrder, Socket, SocketOf,
    GuestArmed, Driving, Mapped, Context, QemuOwns, Held, QemuConnect, Qemu, superVars,
    guardVars
<1>10. CASE QemuSend(l)
  BY <1>10 DEF IInv, TypeOK, QemuPcs, GuardPcs, HoldingPcs, QemuOrder, Socket, SocketOf,
    GuestArmed, Driving, Mapped, Context, QemuOwns, Held, QemuSend, Qemu, superVars,
    guardVars
<1>11. CASE QemuNoArm(l)
  BY <1>11 DEF IInv, TypeOK, QemuPcs, GuardPcs, HoldingPcs, QemuOrder, Socket, SocketOf,
    GuestArmed, Driving, Mapped, Context, QemuOwns, Held, QemuNoArm, Qemu, superVars,
    socketVars, guardVars
<1>12. CASE QemuGiveUp(l)
  BY <1>12 DEF IInv, TypeOK, QemuPcs, GuardPcs, HoldingPcs, QemuOrder, Socket, SocketOf,
    GuestArmed, Driving, Mapped, Context, QemuOwns, Held, QemuGiveUp, Qemu, Closed,
    superVars, guardVars
<1>13. CASE QemuSafe(l)
  BY <1>13 DEF IInv, TypeOK, QemuPcs, GuardPcs, HoldingPcs, QemuOrder, Socket, SocketOf,
    GuestArmed, Driving, Mapped, Context, QemuOwns, Held, QemuSafe, Qemu, superVars,
    guardVars
<1>14. CASE QemuHold(l)
  BY <1>14 DEF IInv, TypeOK, QemuPcs, GuardPcs, HoldingPcs, QemuOrder, Socket, SocketOf,
    GuestArmed, Driving, Mapped, Context, QemuOwns, Held, QemuHold, Qemu, superVars,
    socketVars, guardVars
<1>15. CASE QemuUnmap(l)
  BY <1>15 DEF IInv, TypeOK, QemuPcs, GuardPcs, HoldingPcs, QemuOrder, Socket, SocketOf,
    GuestArmed, Driving, Mapped, Context, QemuOwns, Held, QemuUnmap, Qemu, superVars,
    socketVars, guardVars
<1>16. CASE QemuKill(l)
  BY <1>16 DEF IInv, TypeOK, QemuPcs, GuardPcs, HoldingPcs, QemuOrder, Socket, SocketOf,
    GuestArmed, Driving, Mapped, Context, QemuOwns, Held, QemuKill, Qemu, Closed, superVars,
    guardVars
<1>17. CASE GuardListen(l)
  BY <1>17 DEF IInv, TypeOK, QemuPcs, GuardPcs, HoldingPcs, QemuOrder, Socket, SocketOf,
    GuestArmed, Driving, Mapped, Context, QemuOwns, Held, GuardListen, Guard, Report,
    superVars, qemuVars, socketVars
<1>18. CASE GuardAccept(l)
  BY <1>18 DEF IInv, TypeOK, QemuPcs, GuardPcs, HoldingPcs, QemuOrder, Socket, SocketOf,
    GuestArmed, Driving, Mapped, Context, QemuOwns, Held, GuardAccept, FailUnheld, Guard,
    Report, superVars, qemuVars, socketVars
<1>19. CASE GuardReceive(l)
  BY <1>19 DEF IInv, TypeOK, QemuPcs, GuardPcs, HoldingPcs, QemuOrder, Socket, SocketOf,
    GuestArmed, Driving, Mapped, Context, QemuOwns, Held, GuardReceive, FailUnheld, Guard,
    Report, superVars, qemuVars
<1>20. CASE GuardIdentity(l)
  BY <1>20 DEF IInv, TypeOK, QemuPcs, GuardPcs, HoldingPcs, QemuOrder, Socket, SocketOf,
    GuestArmed, Driving, Mapped, Context, QemuOwns, Held, GuardIdentity, Retain, Guard,
    Report, superVars, qemuVars, socketVars
<1>21. CASE GuardOwn(l)
  BY <1>21 DEF IInv, TypeOK, QemuPcs, GuardPcs, HoldingPcs, QemuOrder, Socket, SocketOf,
    GuestArmed, Driving, Mapped, Context, QemuOwns, Held, GuardOwn, Retain, Guard, Report,
    superVars, qemuVars, socketVars
<1>22. CASE GuardArm(l)
  BY <1>22 DEF IInv, TypeOK, QemuPcs, GuardPcs, HoldingPcs, QemuOrder, Socket, SocketOf,
    GuestArmed, Driving, Mapped, Context, QemuOwns, Held, GuardArm, Retain, Guard, Report,
    superVars, qemuVars
<1>23. CASE GuardCommand(l)
  BY <1>23 DEF IInv, TypeOK, QemuPcs, GuardPcs, HoldingPcs, QemuOrder, Socket, SocketOf,
    GuestArmed, Driving, Mapped, Context, QemuOwns, Held, GuardCommand, Retain, Guard,
    Report, superVars, qemuVars
<1>24. CASE GuardDeath(l)
  BY <1>24 DEF IInv, TypeOK, QemuPcs, GuardPcs, HoldingPcs, QemuOrder, Socket, SocketOf,
    GuestArmed, Driving, Mapped, Context, QemuOwns, Held, GuardDeath, Guard, superVars,
    qemuVars, socketVars
<1>25. CASE GuardReport(l)
  BY <1>25 DEF IInv, TypeOK, QemuPcs, GuardPcs, HoldingPcs, QemuOrder, Socket, SocketOf,
    GuestArmed, Driving, Mapped, Context, QemuOwns, Held, GuardReport, Guard, Report,
    superVars, qemuVars, socketVars
<1>26. CASE GuardAck(l)
  BY <1>26 DEF IInv, TypeOK, QemuPcs, GuardPcs, HoldingPcs, QemuOrder, Socket, SocketOf,
    GuestArmed, Driving, Mapped, Context, QemuOwns, Held, GuardAck, Retain, Guard, Report,
    superVars, qemuVars
<1>27. CASE GuardClose(l)
  BY <1>27 DEF IInv, TypeOK, QemuPcs, GuardPcs, HoldingPcs, QemuOrder, Socket, SocketOf,
    GuestArmed, Driving, Mapped, Context, QemuOwns, Held, GuardClose, Guard, superVars,
    qemuVars, socketVars
<1>28. CASE GuardRelease(l)
  BY <1>28 DEF IInv, TypeOK, QemuPcs, GuardPcs, HoldingPcs, QemuOrder, Socket, SocketOf,
    GuestArmed, Driving, Mapped, Context, QemuOwns, Held, GuardRelease, Guard, Report,
    superVars, qemuVars, socketVars
<1>29. CASE GuardFault(l)
  BY <1>29 DEF IInv, TypeOK, QemuPcs, GuardPcs, HoldingPcs, QemuOrder, Socket, SocketOf,
    GuestArmed, Driving, Mapped, Context, QemuOwns, Held, GuardFault, Retain, Guard, Report,
    superVars, qemuVars, socketVars
<1>30. CASE GuardSigterm(l)
  BY <1>30 DEF IInv, TypeOK, QemuPcs, GuardPcs, HoldingPcs, QemuOrder, Socket, SocketOf,
    GuestArmed, Driving, Mapped, Context, QemuOwns, Held, GuardSigterm, FailUnheld, Guard,
    Report, superVars, qemuVars, socketVars
<1> QED
  BY <1>1, <1>2, <1>3, <1>4, <1>5, <1>6, <1>7, <1>8, <1>9, <1>10, <1>11, <1>12, <1>13, <1>14,
    <1>15, <1>16, <1>17, <1>18, <1>19, <1>20, <1>21, <1>22, <1>23, <1>24, <1>25, <1>26,
    <1>27, <1>28, <1>29, <1>30

\* Every step is a step of the contract or a stutter.
LEMMA StepImplements ==
  ASSUME IInv, [Next]_vars PROVE ContractStep
<1>1. ASSUME NEW l \in Launches,
             Start(l) \/ StartGuard(l) \/ GuardReady(l) \/ PublishCid(l) \/ Ready(l) \/
               Cleanup(l) \/ StopContainer(l) \/ WaitGuard(l) \/ QemuConnect(l) \/
               QemuSend(l) \/ QemuNoArm(l) \/ QemuGiveUp(l) \/ QemuSafe(l) \/ QemuHold(l) \/
               QemuUnmap(l) \/ QemuKill(l) \/ GuardListen(l) \/ GuardAccept(l) \/
               GuardReceive(l) \/ GuardIdentity(l) \/ GuardOwn(l) \/ GuardArm(l) \/
               GuardCommand(l) \/ GuardDeath(l) \/ GuardReport(l) \/ GuardAck(l) \/
               GuardClose(l) \/ GuardRelease(l) \/ GuardFault(l) \/ GuardSigterm(l)
      PROVE  ContractStep
  BY <1>1, KeepsMapping, LettingGo
<1>2. ASSUME NEW l \in Launches, QemuOpen(l) PROVE ContractStep
  <2>1. UNCHANGED <<vcpus, active, toGuard, guard, unmapped>>
    BY <1>2 DEF QemuOpen, qemuVars, socketVars, guardVars
  <2>2. CASE \E d \in Launches : Context(d)
    <3>1. qemu[l] = "absent" /\ qemu' = [qemu EXCEPT ![l] = "dead"]
      BY <1>2, <2>2 DEF QemuOpen, Qemu
    <3>2. \A d \in Launches : Mapped(d)' <=> Mapped(d)
      BY <1>2, <2>1, <3>1 DEF IInv, TypeOK, Mapped, Context, QemuOwns, Held
    <3> QED
      BY <2>1, <3>2, LettingGo, GuestIsMapped DEF Driving, Mapped, Context, Held, HoldingPcs
  <2>3. CASE ~\E d \in Launches : Context(d)
    <3>1. qemu[l] = "absent" /\ qemu' = [qemu EXCEPT ![l] = "realize"]
      BY <1>2, <2>3 DEF QemuOpen, Qemu
    <3>2. ~\E d \in Launches : Mapped(d)
      BY <2>3 DEF Mapped
    <3>3. Mapped(l)'
      BY <1>2, <2>1, <3>1 DEF IInv, TypeOK, QemuOrder, Mapped, Context, QemuOwns
    <3> QED
      BY <1>2, <2>1, <3>2, <3>3 DEF ContractStep, Contract!Next, Contract!Open
  <2> QED
    BY <2>2, <2>3
<1>3. ASSUME NEW l \in Launches, QemuArmed(l) PROVE ContractStep
  <2>1. /\ UNCHANGED <<active, guard, unmapped, toGuard>> /\ qemu[l] = "waitArm"
        /\ qemu' = [qemu EXCEPT ![l] = "guest"] /\ vcpus' = [vcpus EXCEPT ![l] = TRUE]
    BY <1>3 DEF QemuArmed, Qemu, guardVars
  <2>2. \A d \in Launches : Mapped(d)' <=> Mapped(d)
    BY <1>3, <2>1 DEF IInv, TypeOK, Mapped, Context, QemuOwns, Held
  <2>3. Mapped(l) /\ vcpus'[l]
    BY <1>3, <2>1 DEF IInv, TypeOK, QemuOrder, Mapped, Context, QemuOwns
  <2> QED
    BY <1>3, <2>1, <2>2, <2>3 DEF ContractStep, Contract!Next, Contract!RunGuest
<1>4. ASSUME NEW l \in Launches, QemuStop(l) \/ QemuExit(l) PROVE ContractStep
  <2>1. /\ UNCHANGED <<active, guard, unmapped>> /\ vcpus' = [vcpus EXCEPT ![l] = FALSE]
        /\ toGuard' = toGuard \/ toGuard' = [toGuard EXCEPT ![l] = "STOP"]
        /\ \/ qemu[l] = "guest" /\ qemu' = [qemu EXCEPT ![l] = "waitSafe"]
           \/ qemu[l] = "dying" /\ qemu' = [qemu EXCEPT ![l] = "dead"] /\ toGuard' = toGuard
    BY <1>4 DEF QemuStop, QemuExit, Qemu, guardVars, socketVars
  <2>2. \A d \in Launches : Mapped(d)' <=> Mapped(d)
    BY <1>4, <2>1 DEF IInv, TypeOK, Mapped, Context, QemuOwns, Held
  <2>3. CASE vcpus[l]
    <3>1. \A d \in Launches : vcpus[d] => d = l
      BY <1>4, <2>3, GuestIsMapped DEF IInv, OneContext, Mapped
    <3>2. ~\E d \in Launches : vcpus'[d]
      BY <1>4, <2>1, <3>1 DEF IInv, TypeOK
    <3> QED
      BY <2>1, <2>2, <3>2 DEF ContractStep, Contract!Next, Contract!StopGuest
  <2>4. CASE ~vcpus[l]
    <3>1. \A d \in Launches : vcpus'[d] <=> vcpus[d]
      BY <1>4, <2>1, <2>4 DEF IInv, TypeOK
    <3> QED
      BY <2>1, <2>2, <3>1 DEF ContractStep
  <2> QED
    BY <2>3, <2>4
<1>5. ASSUME NEW l \in Launches, GuestDrives(l) PROVE ContractStep
  <2>1. /\ UNCHANGED <<qemu, vcpus, unmapped, toGuard, guard>>
        /\ vcpus[l] /\ active' # {}
    BY <1>5 DEF GuestDrives, qemuVars, socketVars, guardVars
  <2>2. \A d \in Launches : Mapped(d)' <=> Mapped(d)
    BY <2>1 DEF Mapped, Context, QemuOwns, Held
  <2> QED
    BY <1>5, <2>1, <2>2 DEF ContractStep, Contract!Next, Contract!Drive
<1>6. ASSUME NEW l \in Launches, GuardQuiesce(l) PROVE ContractStep
  <2>1. /\ UNCHANGED <<qemu, vcpus, unmapped, toGuard>> /\ active' \subseteq active
        /\ guard[l] \in {"display", "ih", "engines"}
        /\ \/ guard' = [guard EXCEPT ![l] = "ih"]
           \/ guard' = [guard EXCEPT ![l] = "engines"]
           \/ guard' = [guard EXCEPT ![l] = "report"]
    BY <1>6, QuiesceStep DEF qemuVars, socketVars
  <2>2. \A d \in Launches : Held(d)' <=> Held(d)
    BY <1>6, <2>1 DEF IInv, TypeOK, Held, HoldingPcs
  <2>3. \A d \in Launches : Mapped(d)' <=> Mapped(d)
    BY <2>1, <2>2 DEF Mapped, Context, QemuOwns
  <2>4. ~\E d \in Launches : vcpus[d]
    <3>1. SUFFICES ASSUME NEW d \in Launches, vcpus[d] PROVE FALSE
      OBVIOUS
    <3>2. Context(l) /\ Context(d)
      BY <2>1, <3>1, GuestIsMapped DEF Context, Held, HoldingPcs
    <3>3. d = l
      BY <1>6, <3>1, <3>2 DEF IInv, OneContext
    <3> QED
      BY <2>1, <3>1, <3>3 DEF IInv, GuestArmed
  <2>5. CASE active' = {}
    BY <2>1, <2>3, <2>4, <2>5 DEF ContractStep, Contract!Next, Contract!Quiet
  <2>6. CASE active' # {}
    BY <2>1, <2>3, <2>6 DEF ContractStep
  <2> QED
    BY <2>5, <2>6
<1>7. CASE UNCHANGED vars
  BY <1>7 DEF vars, ContractStep, Mapped, Context, QemuOwns, Held
<1> QED
  BY <1>1, <1>2, <1>3, <1>4, <1>5, <1>6, <1>7 DEF Next, SuperStep, QemuStep, GuardStep

\* The guard of ih-dma-lifetime.md: the mapping of guest memory outlives the guest
\* and every source the guest may have left running.
THEOREM ImplementsAlways == Spec => ImplementsContract
<1>1. Init => Contract!Init
  BY DEF Init, Contract!Init, Mapped, Context, QemuOwns, Held, HoldingPcs
<1>2. IInv /\ [Next]_vars
        => [Contract!Next]_<<\E l \in Launches : Mapped(l), \E l \in Launches : vcpus[l],
                             active # {}>>
  BY StepImplements DEF ContractStep
<1> QED
  BY <1>1, <1>2, InvariantHolds, PTL DEF Spec, ImplementsContract, Contract!Spec
=============================================================================
