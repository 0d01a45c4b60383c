--------------------------- MODULE ConsoleSnapshot ---------------------------
(***************************************************************************)
(* Frames of the virtual console: user clients of the RaphaelConsole       *)
(* driver lease the snapshot window of QEMU's Bochs display one after the  *)
(* other.  Each draws into a private buffer; the driver copies a committed *)
(* frame to the window and the device takes it.  Buffers are counted, at   *)
(* most BufferLimit exist, and one lives as long as anything refers to it: *)
(* an ARM in progress, its client, the driver, a mapping the task still    *)
(* has after its client closed.  What runs under the driver's lock is one  *)
(* step; allocation, mappings and the device are not under it.             *)
(***************************************************************************)
EXTENDS Naturals, Sequences, FiniteSets

CONSTANTS
  Clients,      \* user clients, one connection each
  Buffers,      \* identities of buffers in kernel memory
  None,
  OpenLimit,    \* connections at a time, 8
  BufferLimit,  \* snapshotBuffers, 4
  MaxEpoch,     \* UINT32_MAX for epochs
  MaxSequence,  \* UINT32_MAX for frames
  MaxStrays     \* bound: accesses to the device that are not the driver's

ASSUME ConsoleAssumption ==
  /\ IsFiniteSet(Clients) /\ IsFiniteSet(Buffers)
  /\ None \notin Clients \cup Buffers
  /\ OpenLimit \in Nat /\ BufferLimit \in Nat /\ MaxStrays \in Nat
  /\ MaxEpoch \in Nat \ {0} /\ MaxSequence \in Nat \ {0}

VARIABLES
  client,       \* of each connection: what it is and what it refers to
  owner,        \* snapshotOwner
  buffer,       \* snapshotBuffer
  epoch,        \* snapshotEpoch
  sequence,     \* snapshotSequence
  poisoned, leased,
  restartable,  \* snapshotRestartable: the device has epochs
  inactive, stopped,
  refs,         \* retain counts
  slots,        \* snapshotBuffers
  dev,          \* the registers of the Bochs display
  strays,
  armedBy       \* history: who armed, in order

driver == <<owner, buffer, epoch, sequence, poisoned, leased>>
service == <<restartable, inactive, stopped>>
memory == <<refs, slots>>
vars == <<client, driver, service, memory, dev, strays, armedBy>>

\* A frame is known by the client whose buffer it was copied from.
NoFrame == [by |-> None, seq |-> 0]
Fresh == [state |-> 0, requested |-> 0, active |-> 0, ack |-> 0, error |-> FALSE,
          pending |-> NoFrame]
\* The device outlives a reboot of the guest, armed or retired by the former driver.
LeftOver == [state : {1, 2}, requested : {0, 1}, active : {0, 1}, ack : {0, 1}, error : {FALSE},
             pending : {NoFrame}]

Init ==
  /\ client = [c \in Clients |-> [life |-> "new", attempted |-> FALSE, private |-> None,
                                  arming |-> None, alias |-> None]]
  /\ owner = None /\ buffer = None /\ epoch = 0 /\ sequence = 0
  /\ poisoned = FALSE /\ leased = FALSE
  /\ restartable \in BOOLEAN /\ inactive = FALSE /\ stopped = FALSE
  /\ refs = [b \in Buffers |-> 0] /\ slots = 0
  /\ dev \in {Fresh} \cup {d \in LeftOver : d.requested = d.active /\ restartable = (d.active = 1)}
  /\ strays = 0 /\ armedBy = <<>>
-----------------------------------------------------------------------------
(***************************************************************************)
(* The device: writes of its registers, each under QEMU's lock.            *)
(***************************************************************************)
WriteEpoch(d, e) == IF restartable THEN [d EXCEPT !.requested = e] ELSE d

ArmAccepted(d) ==
  IF restartable THEN d.state \in {0, 2} /\ d.active # MaxEpoch /\ d.requested = d.active + 1
                 ELSE d.state = 0
WriteArm(d) ==
  IF ~ArmAccepted(d) THEN [d EXCEPT !.error = TRUE]
  ELSE [d EXCEPT !.state = 1, !.error = FALSE, !.pending = IF restartable THEN NoFrame ELSE @,
                 !.ack = IF restartable THEN 0 ELSE @,
                 !.active = IF restartable THEN d.requested ELSE @]

\* With epochs, any other register is written only in the active one.
InEpoch(d) == restartable => d.active # 0 /\ d.requested = d.active
\* Mutant: the frame that waits survives the retirement.
WriteRetireKeeps(d) ==
  IF InEpoch(d) /\ d.state = 1 THEN [d EXCEPT !.state = 2] ELSE [d EXCEPT !.error = TRUE]

WriteRetire(d) ==
  IF InEpoch(d) /\ d.state = 1 THEN [d EXCEPT !.state = 2, !.pending = NoFrame]
                               ELSE [d EXCEPT !.error = TRUE]
WriteCommit(d, frame) ==
  IF InEpoch(d) /\ d.state = 1 /\ d.ack # MaxSequence /\ frame.seq = d.ack + 1
  THEN [d EXCEPT !.pending = frame, !.ack = frame.seq, !.error = FALSE]
  ELSE [d EXCEPT !.error = TRUE]

\* gfx_update shows the latest frame.
Publish ==
  /\ dev.state = 1 /\ dev.pending # NoFrame
  /\ dev' = [dev EXCEPT !.pending = NoFrame]
  /\ UNCHANGED <<client, driver, service, memory, strays, armedBy>>
\* An access the protocol does not know leaves an error behind.
Stray ==
  /\ strays < MaxStrays /\ strays' = strays + 1
  /\ dev' = [dev EXCEPT !.error = TRUE]
  /\ UNCHANGED <<client, driver, service, memory, armedBy>>
-----------------------------------------------------------------------------
(***************************************************************************)
(* Buffers.                                                                *)
(***************************************************************************)
Released(r, b) == IF b = None THEN r ELSE [r EXCEPT ![b] = @ - 1]
\* The last release frees the buffer, and with it its slot.
ReleaseTo(r) ==
  /\ refs' = r
  /\ slots' = slots - Cardinality({b \in Buffers : refs[b] > 0 /\ r[b] = 0})

IsOpen(c) == client[c].life = "open"
\* Mutant: the slots are not counted.
AllocateUncounted(c) ==
  /\ IsOpen(c) /\ ~inactive /\ client[c].arming = None
  /\ slots' = slots + 1
  /\ \E b \in Buffers :
       /\ refs[b] = 0 /\ refs' = [refs EXCEPT ![b] = 1]
       /\ client' = [client EXCEPT ![c].arming = b]
  /\ UNCHANGED <<driver, service, dev, strays, armedBy>>

\* snapshotArm before the lock: a slot by compare and swap, then the buffer.
Allocate(c) ==
  /\ IsOpen(c) /\ ~inactive /\ client[c].arming = None
  /\ slots < BufferLimit /\ slots' = slots + 1
  /\ \E b \in Buffers :
       /\ refs[b] = 0 /\ refs' = [refs EXCEPT ![b] = 1]
       /\ client' = [client EXCEPT ![c].arming = b]
  /\ UNCHANGED <<driver, service, dev, strays, armedBy>>

\* clientMemoryForType: the client's own buffer, also after it retired.
Map(c) ==
  /\ ~inactive /\ client[c].private # None /\ client[c].alias = None
  /\ client' = [client EXCEPT ![c].alias = client[c].private]
  /\ refs' = [refs EXCEPT ![client[c].private] = @ + 1]
  /\ UNCHANGED <<driver, service, slots, dev, strays, armedBy>>
\* The task unmaps or dies, at any time.
Unmap(c) ==
  /\ client[c].alias # None
  /\ client' = [client EXCEPT ![c].alias = None]
  /\ ReleaseTo(Released(refs, client[c].alias))
  /\ UNCHANGED <<driver, service, dev, strays, armedBy>>
-----------------------------------------------------------------------------
(***************************************************************************)
(* The driver under its lock.                                              *)
(***************************************************************************)
Open(c) ==
  /\ client[c].life = "new" /\ ~inactive
  /\ Cardinality({d \in Clients : IsOpen(d)}) < OpenLimit
  /\ client' = [client EXCEPT ![c].life = "open"]
  /\ UNCHANGED <<driver, service, memory, dev, strays, armedBy>>

\* retireLocked, of a device that is in state d; r are the counts left behind.
RetireLocked(d, poison) ==
  LET told == WriteRetire(WriteEpoch(d, epoch))
      sure == told.state = 2 /\ (restartable => told.active = epoch)
  IN /\ owner' = None /\ buffer' = None
     /\ IF owner # None THEN dev' = told /\ poisoned' = (poisoned \/ poison \/ ~sure)
                        ELSE dev' = d /\ poisoned' = (poisoned \/ poison)

\* Mutant: a poisoned device is armed again.
NotReadyCured(c) ==
  \/ inactive \/ owner # None \/ client[c].attempted
  \/ ~restartable /\ leased

NotReady(c) ==
  \/ inactive \/ owner # None \/ poisoned \/ client[c].attempted
  \/ ~restartable /\ leased
Idle ==
  IF restartable THEN dev.state \in {0, 2} /\ epoch # MaxEpoch /\ dev.active = epoch
                 ELSE dev.state = 0
ArmRefused(c) ==
  /\ client[c].arming # None /\ (NotReady(c) \/ ~Idle)
  /\ poisoned' = (poisoned \/ ~NotReady(c))
  /\ client' = [client EXCEPT ![c].arming = None]
  /\ ReleaseTo(Released(refs, client[c].arming))
  /\ UNCHANGED <<owner, buffer, epoch, sequence, leased, service, dev, strays, armedBy>>
Arm(c) ==
  LET next == IF restartable THEN epoch + 1 ELSE epoch
      d    == WriteArm(WriteEpoch(dev, next))
      ok   == d.state = 1 /\ ~d.error /\ d.ack = 0 /\ (restartable => d.active = next)
  IN /\ client[c].arming # None /\ ~NotReady(c) /\ Idle
     /\ leased' = TRUE /\ epoch' = next
     /\ client' = [client EXCEPT ![c].attempted = TRUE, ![c].arming = None,
                                 ![c].private = IF ok THEN client[c].arming ELSE @]
     /\ IF ok THEN /\ dev' = d /\ owner' = c /\ buffer' = client[c].arming /\ sequence' = 0
                   /\ refs' = [refs EXCEPT ![client[c].arming] = @ + 1]
                   /\ armedBy' = Append(armedBy, c) /\ UNCHANGED <<poisoned, slots>>
              ELSE /\ poisoned' = TRUE /\ dev' = WriteRetire(d)
                   /\ ReleaseTo(Released(refs, client[c].arming))
                   /\ UNCHANGED <<owner, buffer, sequence, armedBy>>
     /\ UNCHANGED <<service, strays>>

InStep(d, seq) ==
  d.state = 1 /\ ~d.error /\ d.ack = seq /\ (restartable => d.active = epoch)
CommitReady(c) == ~inactive /\ IsOpen(c) /\ owner = c /\ ~poisoned /\ sequence # MaxSequence
\* The frame is copied and the device takes it.
Commit(c) ==
  LET seq == sequence + 1
      d   == WriteCommit(WriteEpoch(dev, epoch), [by |-> c, seq |-> seq])
  IN /\ CommitReady(c) /\ InStep(dev, sequence) /\ InStep(d, seq)
     /\ dev' = d /\ sequence' = seq
     /\ UNCHANGED <<client, owner, buffer, epoch, poisoned, leased, service, memory, strays,
                    armedBy>>
\* It is out of step before or after the copy.
CommitFails(c) ==
  LET d == WriteCommit(WriteEpoch(dev, epoch), [by |-> c, seq |-> sequence + 1])
  IN /\ CommitReady(c)
     /\ IF InStep(dev, sequence) THEN ~InStep(d, sequence + 1) /\ RetireLocked(d, TRUE)
                                 ELSE RetireLocked(dev, TRUE)
     /\ ReleaseTo(Released(refs, buffer))
     /\ UNCHANGED <<client, epoch, sequence, leased, service, strays, armedBy>>

\* snapshotClose by selector 3: the connection stays, and so does its buffer.
Retire(c) ==
  /\ IsOpen(c) /\ ~inactive
  /\ client' = [client EXCEPT ![c].attempted = TRUE]
  /\ IF owner = c THEN RetireLocked(dev, FALSE) /\ ReleaseTo(Released(refs, buffer))
                  ELSE UNCHANGED <<owner, buffer, poisoned, memory, dev>>
  /\ UNCHANGED <<epoch, sequence, leased, service, strays, armedBy>>
\* Mutant: an ARM that is still allocating is not excluded.
FinalCloseForgets(c) ==
  LET left == Released(refs, client[c].private)
  IN /\ IsOpen(c)
     /\ client' = [client EXCEPT ![c].private = None, ![c].life = "closed"]
     /\ IF owner = c THEN RetireLocked(dev, FALSE) /\ ReleaseTo(Released(left, buffer))
                     ELSE ReleaseTo(left) /\ UNCHANGED <<owner, buffer, poisoned, dev>>
     /\ UNCHANGED <<epoch, sequence, leased, service, strays, armedBy>>

\* snapshotClose by clientClose, or by the client's stop when the service goes.
FinalClose(c) ==
  LET left == Released(refs, client[c].private)
  IN /\ IsOpen(c)
     /\ client' = [client EXCEPT ![c].attempted = TRUE, ![c].private = None, ![c].life = "closed"]
     /\ IF owner = c THEN RetireLocked(dev, FALSE) /\ ReleaseTo(Released(left, buffer))
                     ELSE ReleaseTo(left) /\ UNCHANGED <<owner, buffer, poisoned, dev>>
     /\ UNCHANGED <<epoch, sequence, leased, service, strays, armedBy>>

\* The provider goes: isInactive() first, RaphaelConsole::stop later.
Terminate ==
  /\ ~inactive /\ inactive' = TRUE
  /\ UNCHANGED <<client, driver, restartable, stopped, memory, dev, strays, armedBy>>
Stop ==
  /\ inactive /\ ~stopped /\ stopped' = TRUE
  /\ RetireLocked(dev, FALSE) /\ ReleaseTo(Released(refs, buffer))
  /\ UNCHANGED <<client, epoch, sequence, leased, restartable, inactive, strays, armedBy>>

Next ==
  \/ \E c \in Clients : \/ Open(c) \/ Allocate(c) \/ ArmRefused(c) \/ Arm(c) \/ Commit(c)
                        \/ CommitFails(c) \/ Retire(c) \/ FinalClose(c) \/ Map(c) \/ Unmap(c)
  \/ Publish \/ Stray \/ Terminate \/ Stop

Spec == Init /\ [][Next]_vars
-----------------------------------------------------------------------------
(***************************************************************************)
(* Properties.                                                             *)
(***************************************************************************)
\* Everything holds a value of its kind.
TypeOK ==
  /\ client \in [Clients -> [life : {"new", "open", "closed"}, attempted : BOOLEAN,
                             private : Buffers \cup {None}, arming : Buffers \cup {None},
                             alias : Buffers \cup {None}]]
  /\ owner \in Clients \cup {None} /\ buffer \in Buffers \cup {None}
  /\ epoch \in 0..MaxEpoch /\ sequence \in 0..MaxSequence
  /\ poisoned \in BOOLEAN /\ leased \in BOOLEAN
  /\ restartable \in BOOLEAN /\ inactive \in BOOLEAN /\ stopped \in BOOLEAN
  /\ refs \in [Buffers -> 0..(3 * Cardinality(Clients) + 1)] /\ slots \in 0..BufferLimit
  /\ dev \in [state : 0..2, requested : 0..MaxEpoch, active : 0..MaxEpoch,
              ack : 0..MaxSequence, error : BOOLEAN,
              pending : [by : Clients \cup {None}, seq : 0..MaxSequence]]
  /\ strays \in 0..MaxStrays
  /\ armedBy \in Seq(Clients)

\* The references a buffer has: who arms with it, whose it is, who maps it, the driver.
Holders(b) ==
  Cardinality({c \in Clients : client[c].arming = b}) +
  Cardinality({c \in Clients : client[c].private = b}) +
  Cardinality({c \in Clients : client[c].alias = b}) + (IF buffer = b THEN 1 ELSE 0)
\* Every reference is counted once and returned once, whatever path of ARM, COMMIT, close
\* and unmap it took; a slot is held exactly as long as its buffer exists (the slot follows
\* the descriptor, ConsoleBridge.cpp:24-26).
RefsExact ==
  /\ \A b \in Buffers : refs[b] = Holders(b)
  /\ slots = Cardinality({b \in Buffers : refs[b] > 0})

\* The buffer frames are copied from is the owner's alone: no mapping of another client,
\* live or left over from a closed one, and no ARM in progress, reaches it.
BufferIsOwners ==
  buffer # None =>
    /\ owner # None /\ client[owner].private = buffer
    /\ \A c \in Clients : c # owner => buffer \notin {client[c].arming, client[c].private, client[c].alias}

\* An owner is a connection that is still open: an ARM that was allocating while its client
\* closed is refused, so the window is never leased to nobody; after the service stopped
\* there is no owner.
OwnerIsOpen == owner # None => IsOpen(owner) /\ ~stopped /\ buffer # None

\* One ARM per connection, and one in the life of a device without epochs.
OnceArmed ==
  /\ \A i, j \in 1..Len(armedBy) : armedBy[i] = armedBy[j] => i = j
  /\ ~restartable => Len(armedBy) <= 1

\* The window is leased to one live connection at a time, with a buffer of its own, and
\* every buffer lives exactly as long as something refers to it.
LeaseSound == BufferIsOwners /\ OwnerIsOpen /\ OnceArmed /\ RefsExact

\* The device and the driver agree: a device with an owner is armed in the owner's epoch
\* and has acknowledged exactly the frames the driver counts, and a frame that waits for
\* publication is the owner's latest.
InAgreement ==
  /\ owner # None =>
       /\ dev.state = 1 /\ dev.ack = sequence
       /\ restartable => dev.active = epoch /\ dev.requested = epoch
  /\ dev.pending # NoFrame => dev.state = 1 /\ dev.pending = [by |-> owner, seq |-> sequence]

\* An ambiguous answer of the device is for good: no owner while poisoned, and no ARM after.
PoisonedForGood ==
  [][poisoned => poisoned' /\ owner' = None /\ armedBy' = armedBy]_vars
=============================================================================
