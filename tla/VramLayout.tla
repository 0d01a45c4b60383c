----------------------------- MODULE VramLayout -----------------------------
(***************************************************************************)
(* Who gets which part of video memory while the guest driver comes up:    *)
(* the host firmware keeps the tail, Apple's allocators reserve downwards  *)
(* from two cursors, the recovery lease takes one of those reservations,   *)
(* the VM manager another, the CTX0 page table and the queue image lie     *)
(* where Apple put them, and page-table updates name framebuffer addresses *)
(* in one of two forms.  The kext has no allocator of its own: it predicts, *)
(* compares and refuses.                                                   *)
(***************************************************************************)
EXTENDS VramAddresses, FiniteSets

CONSTANTS
  Memories,    \* [memory |-> .., windows |-> .., held |-> ..] a boot may find
  Tables,      \* [root |-> .., first |-> .., last |-> ..] CTX0 may hold
  Updates,     \* page-table updates
  Images,      \* <<MQD, EOP>> addresses startKIQ may be given
  Misplaced,   \* offsets a native reservation may return against expectation
  LeaseSize,   \* LeaseSize, 16 MiB
  VmmBytes,    \* 0x04400000
  MaxOthers    \* bound: reservations of other native clients

ASSUME LayoutAssumption ==
  /\ \A b \in Memories :
       /\ b.memory \in Memory /\ b.held \in {"no", "reload", "console", "empty"}
       /\ \A i \in DOMAIN b.windows : b.windows[i] \in [address : Word, bytes : Word]
  /\ Tables \subseteq [root : Word, first : Word, last : Word] /\ Updates \subseteq Update
  /\ \A pair \in Images : pair[1] \in Word /\ pair[2] \in Word
  /\ Misplaced \subseteq Nat /\ LeaseSize \in Nat \ {0} /\ VmmBytes \in Nat \ {0}

NoRange == [offset |-> 0, bytes |-> 0]
Refused == {"refused", "aborted"}

VARIABLES
  boot,       \* the memory and the firmware windows this boot found
  native,     \* the provider's pools: total and CPU-visible bytes
  table,      \* CTX0
  stage,      \* start, reserved, appended, owned, taken, accepted, refused, aborted
  limit,      \* hostReservationLimit
  primary, secondary,  \* native top-down cursors
  others,     \* ranges of other native clients
  leaseRange, predicted, vmm,
  imageRange, \* the planned page of MQD and EOP
  mapped      \* the last update as the page table got it: <<forwarded, update>>

layoutVars == <<boot, native, table, stage, limit, primary, secondary, others,
                leaseRange, predicted, vmm, imageRange, mapped>>

Memory0 == boot.memory
Logical == Memory0.total     \* discoveredVramTotal
Bar     == Memory0.visible   \* discoveredBarVisible
Fb0 == [mcBase |-> Memory0.mcBase, mcTop |-> Memory0.mcBase + Logical - 1,
        physicalBase |-> Memory0.physicalBase]
\* gartApertureInfo in its native form.
Gart == [swBase |-> Memory0.mcBase, field58 |-> Memory0.physicalBase,
         mcBase |-> Memory0.mcBase, mcTop |-> Fb0.mcTop,
         physicalBase |-> Memory0.physicalBase, visibleBytes |-> Bar,
         delta60 |-> Memory0.mcBase - Memory0.physicalBase, form |-> "native"]
Live == {[offset |-> WindowOffset(Memory0, boot.windows[i]), bytes |-> boot.windows[i].bytes] :
            i \in Preserved(boot.windows, boot.held)}
TableRange == [offset |-> table.root - Memory0.physicalBase, bytes |-> TableBytes(table)]

LayoutInit ==
  /\ boot \in Memories /\ table \in Tables
  /\ native \in [total : {boot.memory.visible, boot.memory.total}, visible : {boot.memory.visible}]
  /\ stage = "start" /\ limit = 0
  /\ primary = native.visible /\ secondary = native.total
  /\ others = {} /\ leaseRange = NoRange /\ predicted = NoRange /\ vmm = NoRange
  /\ imageRange = NoRange /\ mapped = <<>>

\* wrapGmmSetMemoryAttributes; Apple's own reserve call may still fail.
ReserveTail ==
  /\ stage = "start"
  /\ \/ /\ boot.held # "empty" /\ Memory0.existing <= Memory0.total - Memory0.visible
        /\ \E lowest \in 0..Memory0.total :
             /\ IsLowest(Memory0, boot.windows, boot.held, lowest)
             /\ TailPlannable(Memory0, boot.windows, boot.held, lowest)
             /\ limit' = TailLimit(Memory0, lowest)
        /\ stage' = "reserved"
     \/ /\ boot.held = "empty"
        /\ EmptyPlannable(Memory0, {boot.windows[i] : i \in DOMAIN boot.windows \ {0, 1}})
        /\ limit' = EmptyLimit(Memory0) /\ stage' = "reserved"
     \/ limit' = 0 /\ stage' = "refused"
  /\ UNCHANGED <<boot, native, table, primary, secondary, others, leaseRange, predicted, vmm,
                 imageRange, mapped>>

\* Another native client reserves, from either cursor.
OtherReserve ==
  /\ stage \in {"reserved", "appended", "owned"}
  /\ Cardinality(others) < MaxOthers
  /\ \/ /\ TopDownFits(primary, Page, Page)
        /\ primary' = TopDown(primary, Page, Page)
        /\ others' = others \cup {[offset |-> primary', bytes |-> Page]}
        /\ UNCHANGED secondary
     \/ /\ native.total > native.visible /\ TopDownFits(secondary, Page, Page)
        /\ secondary' = TopDown(secondary, Page, Page)
        /\ others' = others \cup {[offset |-> secondary', bytes |-> Page]}
        /\ UNCHANGED primary
  /\ UNCHANGED <<boot, native, table, stage, limit, leaseRange, predicted, vmm, imageRange, mapped>>

\* The preflight and append callbacks of establishBeforeVmm.
Append ==
  /\ stage = "reserved" /\ stage' = "appended"
  /\ \/ /\ TopDownFits(primary, LeaseSize, Page)
        /\ primary' = TopDown(primary, LeaseSize, Page)
        /\ leaseRange' = [offset |-> primary', bytes |-> LeaseSize]
     \/ /\ \E offset \in Misplaced : leaseRange' = [offset |-> offset, bytes |-> LeaseSize]
        /\ UNCHANGED primary
  /\ UNCHANGED <<boot, native, table, limit, secondary, others, predicted, vmm, imageRange, mapped>>

\* validOwnership, then the validate callback; the records are in GuestRecovery.
ValidOwnership == leaseRange.offset # 0 /\ Aligned(leaseRange.offset) /\ Within(leaseRange, Bar)
DisjointFromTable ==
  /\ PhysicalTable(Gart, table, TRUE, TRUE, table.root)
  /\ Within(TableRange, Bar) /\ Separate(leaseRange, TableRange)
Validate ==
  LET cursor == VmmCursor(primary, secondary, native)
      range  == [offset |-> TopDown(cursor, VmmBytes, Page), bytes |-> VmmBytes]
      accepted == /\ ValidOwnership /\ DisjointFromTable
                  /\ VmmPredicted(cursor, VmmBytes, Page, Bar, Logical, native)
                  /\ Separate(leaseRange, range) /\ Within(range, Logical)
  IN /\ stage = "appended"
     /\ stage' = IF accepted THEN "owned" ELSE "refused"
     /\ predicted' = IF accepted THEN range ELSE NoRange
     /\ UNCHANGED <<boot, native, table, limit, primary, secondary, others, leaseRange, vmm,
                    imageRange, mapped>>

\* nativeVmm: Apple's manager reserves its arena.  What the allocator gave to
\* another client it does not give again; all else is left to the kext's check.
NativeVmm ==
  /\ stage = "owned" /\ stage' = "taken"
  /\ \/ LET cursor == VmmCursor(primary, secondary, native)
        IN /\ TopDownFits(cursor, VmmBytes, Page)
           /\ vmm' = [offset |-> TopDown(cursor, VmmBytes, Page), bytes |-> VmmBytes]
     \/ \E offset \in Misplaced :
          /\ vmm' = [offset |-> offset, bytes |-> VmmBytes]
          /\ \A o \in others : Separate(vmm', o)
  /\ UNCHANGED <<boot, native, table, limit, primary, secondary, others, leaseRange, predicted,
                 imageRange, mapped>>

\* The range the manager took, against the lease and the prediction.
Check ==
  /\ stage = "taken"
  /\ stage' = IF Separate(leaseRange, vmm) /\ Within(vmm, Logical) /\ vmm.offset = predicted.offset
              THEN "accepted" ELSE "aborted"
  /\ UNCHANGED <<boot, native, table, limit, primary, secondary, others, leaseRange, predicted,
                 vmm, imageRange, mapped>>

\* prepareKiq: the page of the queue image.
PlanImage ==
  /\ stage = "accepted" /\ imageRange = NoRange
  /\ \E pair \in Images :
       /\ Plannable(Gart, pair[1], pair[2])
       /\ imageRange' = [offset |-> ImageOffset(Gart, pair[1]), bytes |-> Page]
  /\ UNCHANGED <<boot, native, table, stage, limit, primary, secondary, others, leaseRange,
                 predicted, vmm, mapped>>

\* wrapVmmUpdateEntries, once the framebuffer registers were cached or before.
\* An update depends on no other step: one of them is looked at in a behaviour.
UpdateEntries ==
  /\ stage = "reserved" /\ others = {} /\ mapped = <<>>
  /\ \E u \in Updates, known \in BOOLEAN : mapped' = <<Forwarded(Fb0, known, u), u>>
  /\ UNCHANGED <<boot, native, table, stage, limit, primary, secondary, others, leaseRange,
                 predicted, vmm, imageRange>>

LayoutNext == ReserveTail \/ OtherReserve \/ Append \/ Validate \/ NativeVmm \/ Check
                \/ PlanImage \/ UpdateEntries
LayoutSpec == LayoutInit /\ [][LayoutNext]_layoutVars
-----------------------------------------------------------------------------
(***************************************************************************)
(* Properties.                                                             *)
(***************************************************************************)
Range == [offset : Nat, bytes : Nat]

\* Cursors and limits are offsets in video memory, ranges have no negative parts.
LayoutTypeOK ==
  /\ stage \in {"start", "reserved", "appended", "owned", "taken", "accepted"} \cup Refused
  /\ limit \in 0..Logical /\ primary \in 0..native.visible /\ secondary \in 0..native.total
  /\ others \subseteq Range /\ {leaseRange, predicted, vmm, imageRange} \subseteq Range

\* The firmware's windows that are still in use, and what Apple had already
\* reserved, stay above the limit, and the limit leaves the CPU-visible pool
\* whole (HostMemoryReservation.hpp plan).
TailKept ==
  limit # 0 =>
    /\ Bar <= limit /\ limit <= Logical - Memory0.existing
    /\ \A w \in Live : limit <= w.offset /\ w.offset + w.bytes <= Logical

\* Once the lease is owned, nobody else's memory is inside it: not the table
\* CTX0 walks, not a firmware window, and after the check not the arena of the
\* VM manager (establishBeforeVmm and the comparison after nativeVmm).
LeaseApart ==
  stage \in {"owned", "taken", "accepted"} =>
    /\ Within(leaseRange, Bar)
    /\ \A w \in Live : Separate(leaseRange, w)
    /\ \A va \in (table.first * Page)..(table.last * Page) :
         Separate(leaseRange, [offset |-> PteOffset(Gart, table, table.root, va), bytes |-> EntryBytes])
    /\ stage = "accepted" => Separate(leaseRange, vmm)

\* An accepted arena is the one that was predicted and lies under every
\* reservation another native client had made by then.
ArenaApart ==
  stage = "accepted" =>
    /\ Within(vmm, Logical)
    /\ native.total > native.visible => vmm.offset >= native.visible
    /\ \A o \in others : Separate(vmm, o)

\* The queue image occupies one whole visible page outside every live firmware
\* window (planAddresses).
ImageApart ==
  imageRange # NoRange =>
    /\ Aligned(imageRange.offset) /\ Within(imageRange, Bar)
    /\ \A w \in Live : Separate(imageRange, w)

\* Nobody is given memory that somebody else has.
RangesApart == LeaseApart /\ ArenaApart /\ ImageApart

\* An update either reaches the page table as the caller wrote it or every one
\* of its entries, not the first alone, is moved to the physical address of
\* the same byte (prepareEntryUpdate).
UpdatesWhole ==
  mapped # <<>> =>
    LET u == mapped[2]
    IN mapped[1] # u.source =>
         \A k \in 0..(u.count - 1) :
           /\ u.source + k * u.increment \in Fb0.mcBase..Fb0.mcTop
           /\ mapped[1] + k * u.increment \in Fb0.physicalBase..PhysicalTop(Fb0)
           /\ u.source + k * u.increment - Fb0.mcBase
                = mapped[1] + k * u.increment - Fb0.physicalBase
=============================================================================
