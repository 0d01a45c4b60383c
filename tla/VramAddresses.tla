--------------------------- MODULE VramAddresses ---------------------------
(***************************************************************************)
(* The address arithmetic of the guest kext: which part of video memory a  *)
(* queue image, a page-table entry or a firmware window occupies, and when *)
(* the driver refuses to touch it.  Words are uint64; the operators keep   *)
(* the code's comparisons, and the theorems of QueueMemory_proof show that *)
(* nothing they compute wraps.                                             *)
(***************************************************************************)
EXTENDS Integers

CONSTANTS
  MaxWord,     \* UINT64_MAX
  MaxAddress,  \* the last byte of the 48-bit address space
  Page,        \* 4 KiB
  EntryBytes,  \* of a page-table entry
  Alignment    \* of the reserved tail, 32 MiB

ASSUME WordAssumption ==
  /\ MaxWord \in Nat /\ MaxAddress \in Nat /\ MaxAddress < MaxWord
  /\ Page \in Nat /\ Page > 1 /\ Page % 2 = 0
  /\ EntryBytes \in Nat \ {0} /\ Alignment \in Nat \ {0}

Word == 0..MaxWord

Aligned(a) == a % Page = 0
RoundDown(a) == a - (a % Alignment)
-----------------------------------------------------------------------------
(***************************************************************************)
(* The framebuffer aperture: its logical (MC) range, the physical address  *)
(* behind it and the part the CPU sees through BAR0.                       *)
(***************************************************************************)
Aperture == [swBase : Word, field58 : Word, mcBase : Word, mcTop : Word,
             physicalBase : Word, visibleBytes : Word, delta60 : Word,
             form : {"native", "legacy"}]

Extent(base, bytes) == bytes # 0 /\ base <= MaxAddress /\ bytes - 1 <= MaxAddress - base

ValidAperture(ap) ==
  /\ ap.swBase # 0 /\ ap.mcBase # 0 /\ ap.physicalBase # 0 /\ ap.swBase >= ap.field58
  /\ \A a \in {ap.swBase, ap.field58, ap.mcBase, ap.physicalBase} : Aligned(a)
  /\ Extent(ap.swBase, ap.visibleBytes) /\ Extent(ap.physicalBase, ap.visibleBytes)
  /\ ap.delta60 = ap.swBase - ap.field58
  /\ ap.mcTop >= ap.mcBase /\ ap.mcTop <= MaxAddress
  /\ ap.visibleBytes - 1 <= ap.mcTop - ap.mcBase
  /\ CASE ap.form = "native" -> ap.swBase = ap.mcBase /\ ap.field58 = ap.physicalBase
       [] ap.form = "legacy" -> ap.delta60 = ap.mcBase
-----------------------------------------------------------------------------
(***************************************************************************)
(* The queue image of the compute interface queue: one page, half of it    *)
(* the MQD and half the EOP ring.                                          *)
(***************************************************************************)
InMc(ap, a) == ap.mcBase <= a /\ a <= ap.mcTop
InSw(ap, a) == ap.swBase <= a /\ a - ap.swBase < ap.visibleBytes

\* An MC address is taken as it is, any other is relocated from software form.
Offset(ap, a) == IF InMc(ap, a) THEN a - ap.mcBase ELSE a - ap.swBase
HasOffset(ap, a) ==
  /\ InMc(ap, a) \/ InSw(ap, a)
  /\ Offset(ap, a) < ap.visibleBytes /\ Offset(ap, a) <= ap.mcTop - ap.mcBase

Plannable(ap, mqd, eop) ==
  /\ ValidAperture(ap) /\ ap.visibleBytes >= Page
  /\ HasOffset(ap, mqd) /\ HasOffset(ap, eop)
  /\ Aligned(Offset(ap, mqd)) /\ Offset(ap, mqd) <= ap.visibleBytes - Page
  /\ ap.mcTop - ap.mcBase >= Page - 1
  /\ Offset(ap, mqd) <= ap.mcTop - ap.mcBase - (Page - 1)
  /\ Offset(ap, eop) = Offset(ap, mqd) + Page \div 2

PlanAddresses(ap, mqd, eop) ==
  [mqd |-> ap.mcBase + Offset(ap, mqd), eop |-> ap.mcBase + Offset(ap, eop)]
ImageOffset(ap, mqd) == Offset(ap, mqd)
-----------------------------------------------------------------------------
(***************************************************************************)
(* The table of CTX0: read through BAR0 only when it lies there whole.     *)
(***************************************************************************)
ValidRange(range) == range.first <= range.last /\ range.last <= MaxAddress \div Page
\* Mutant: the last page is not counted.
TableBytesShort(range) == (range.last - range.first) * EntryBytes

TableBytes(range) == (range.last - range.first + 1) * EntryBytes

\* Only an enabled, flat context with a valid, local root is understood.
PhysicalTable(ap, range, flat, valid, root) ==
  /\ flat /\ valid /\ root <= MaxAddress /\ Aligned(root)
  /\ ValidRange(range) /\ ValidAperture(ap)
  /\ root >= ap.physicalBase /\ TableBytes(range) <= ap.visibleBytes
  /\ root - ap.physicalBase <= ap.visibleBytes - TableBytes(range)

HasEntry(ap, range, flat, valid, root, va) ==
  /\ va <= MaxAddress /\ PhysicalTable(ap, range, flat, valid, root)
  /\ range.first <= va \div Page /\ va \div Page <= range.last
PteOffset(ap, range, root, va) ==
  root - ap.physicalBase + (va \div Page - range.first) * EntryBytes
-----------------------------------------------------------------------------
(***************************************************************************)
(* The tail of video memory that stays with the host's display firmware:   *)
(* everything from the lowest window that must be preserved, rounded down. *)
(***************************************************************************)
Memory == [mcBase : Word, physicalBase : Word, total : Word, visible : Word, existing : Word]

\* Firmware windows hold physical addresses, mailbox windows MC addresses.
WindowInMc(m, w) == m.mcBase <= w.address /\ w.address - m.mcBase < m.total
WindowOffset(m, w) ==
  IF WindowInMc(m, w) THEN w.address - m.mcBase ELSE w.address - m.physicalBase
WindowInside(m, w) ==
  /\ w.bytes # 0
  /\ WindowInMc(m, w) \/ (m.physicalBase <= w.address /\ w.address - m.physicalBase < m.total)
  /\ w.bytes <= m.total - WindowOffset(m, w)

\* Firmware that is about to be reloaded needs its code windows (the first two)
\* kept no longer, firmware held in reset for a console its mailboxes.
Preserved(windows, held) ==
  CASE held = "no"      -> DOMAIN windows
    [] held = "reload"  -> DOMAIN windows \ {0, 1}
    [] held = "console" -> DOMAIN windows \cap {0, 1}
    [] held = "empty"   -> {}

\* lowest is the offset of the lowest preserved window.
IsLowest(m, windows, held, lowest) ==
  LET offsets == {m.total} \cup {WindowOffset(m, windows[i]) : i \in Preserved(windows, held)}
  IN lowest \in offsets /\ \A o \in offsets : lowest <= o

\* Mutant: what Apple had reserved already is forgotten.
TailOfFirmware(m, lowest) == m.total - RoundDown(lowest)

TailOf(m, lowest) ==
  LET reserve == m.total - RoundDown(lowest)
  IN IF m.existing > reserve THEN m.existing ELSE reserve

TailPlannable(m, windows, held, lowest) ==
  /\ m.mcBase # 0 /\ m.physicalBase # 0 /\ m.total # 0 /\ m.visible # 0
  /\ m.visible <= m.total /\ m.existing <= m.total
  /\ \A i \in DOMAIN windows : WindowInside(m, windows[i])
  /\ RoundDown(lowest) >= m.visible /\ RoundDown(lowest) < m.total
  /\ TailOf(m, lowest) <= m.total - m.visible
TailLimit(m, lowest) == m.total - TailOf(m, lowest)

\* No firmware is loaded at all: nothing to preserve, but a mailbox window that
\* is programmed must still make sense.
NoWindow == [address |-> 0, bytes |-> 0]
EmptyPlannable(m, mailboxes) ==
  /\ m.mcBase # 0 /\ m.physicalBase # 0 /\ m.total # 0 /\ m.visible # 0
  /\ m.visible <= m.total /\ m.existing <= m.total - m.visible
  /\ \A w \in mailboxes : w = NoWindow \/ WindowInside(m, w)
EmptyLimit(m) == m.total - m.existing
-----------------------------------------------------------------------------
(***************************************************************************)
(* A page-table update: count entries whose addresses start at source and  *)
(* advance by increment.  Only the start is converted, so the whole span   *)
(* must lie in the aperture.                                               *)
(***************************************************************************)
Update == [count : Word, source : Word, increment : Word, valid : BOOLEAN, system : BOOLEAN]
Framebuffer == [mcBase : Word, mcTop : Word, physicalBase : Word]

Fb(fb, known) ==
  known /\ fb.mcBase # 0 /\ fb.physicalBase # 0 /\ fb.mcTop >= fb.mcBase
PhysicalTop(fb) == fb.physicalBase + (fb.mcTop - fb.mcBase)

Span(u) == (u.count - 1) * u.increment
SpanEnd(u) == u.source + Span(u)
NoOverflow(u) ==
  /\ u.increment # 0 => u.count - 1 <= MaxWord \div u.increment
  /\ u.source <= MaxWord - Span(u)

Candidate(fb, known, u) ==
  /\ u.count # 0 /\ u.valid /\ ~u.system /\ Fb(fb, known) /\ u.source # 0
  /\ NoOverflow(u)
  /\ fb.physicalBase <= MaxAddress - (fb.mcTop - fb.mcBase)
AlreadyPhysical(fb, u) == fb.physicalBase <= u.source /\ u.source <= PhysicalTop(fb)
\* Mutant: only the first address is looked at.
ConvertedStart(fb, known, u) ==
  /\ Candidate(fb, known, u) /\ ~AlreadyPhysical(fb, u)
  /\ fb.mcBase <= u.source /\ u.source <= fb.mcTop

Converted(fb, known, u) ==
  /\ Candidate(fb, known, u) /\ ~AlreadyPhysical(fb, u)
  /\ fb.mcBase <= u.source /\ u.source <= fb.mcTop /\ SpanEnd(u) <= fb.mcTop

\* What the native updater is given; everything refused goes through unchanged.
Forwarded(fb, known, u) ==
  IF Converted(fb, known, u) THEN fb.physicalBase + (u.source - fb.mcBase) ELSE u.source
-----------------------------------------------------------------------------
(***************************************************************************)
(* Apple's top-down reservations, and the range its VM manager will take.  *)
(***************************************************************************)
TopDown(cursor, size, alignment) == (cursor - size) - ((cursor - size) % alignment)
\* Mutant: a reservation larger than what is left.
TopDownFitsAlways(cursor, size, alignment) == alignment # 0 /\ size # 0

TopDownFits(cursor, size, alignment) ==
  alignment # 0 /\ cursor > size /\ TopDown(cursor, size, alignment) # 0

VmmCursor(primary, secondary, native) ==
  IF native.total > native.visible THEN secondary ELSE primary

VmmPredicted(cursor, bytes, alignment, bar, logical, native) ==
  LET offset == TopDown(cursor, bytes, alignment)
  IN /\ TopDownFits(cursor, bytes, alignment)
     /\ logical # 0 /\ bar <= logical
     /\ native.visible <= native.total /\ native.visible <= logical /\ cursor <= native.total
     /\ offset + bytes <= logical
     /\ IF native.total > native.visible THEN offset >= native.visible
                                         ELSE offset + bytes <= native.visible

\* Half-open ranges, as records [offset, bytes].
Separate(a, b) == a.offset + a.bytes <= b.offset \/ b.offset + b.bytes <= a.offset
Within(a, bytes) == a.bytes # 0 /\ a.offset + a.bytes <= bytes
=============================================================================
