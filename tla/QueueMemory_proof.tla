-------------------------- MODULE QueueMemory_proof --------------------------
(***************************************************************************)
(* Proofs about the memory the queue image lies in and about the queue.    *)
(*                                                                         *)
(* VramLayout, for words, apertures, firmware windows, tables and updates  *)
(* of every size: first the arithmetic, then what each refusing predicate  *)
(* of the driver guarantees once it accepts, and last the invariant that   *)
(* carries those guarantees through the boot.                              *)
(*                                                                         *)
(* KiqStart, for every set of modes, every unit that may ignore writes and *)
(* every number of calls and mishaps: one inductive invariant says, place  *)
(* by place, what the call knows of the control word, of the transaction   *)
(* and of the queue; the properties follow.                                *)
(***************************************************************************)
EXTENDS VramLayout, KiqStart, TLAPS

-----------------------------------------------------------------------------
(***************************************************************************)
(* Arithmetic.                                                             *)
(***************************************************************************)
LEMMA ModBound ==
  ASSUME NEW a \in Int, NEW b \in Nat, b > 0 PROVE a % b \in 0..(b - 1)
  BY Z3

LEMMA DivBounds ==
  ASSUME NEW a \in Int, NEW b \in Nat, b > 0
  PROVE  a \div b \in Int /\ b * (a \div b) <= a /\ a < b * (a \div b) + b
  BY Z3

LEMMA DivInside ==
  ASSUME NEW a \in Int, NEW b \in Nat, b > 0, NEW m \in Int, NEW n \in Int,
         m * b <= a, a <= n * b
  PROVE  m <= a \div b /\ a \div b <= n
  BY Z3

LEMMA ProductGrows ==
  ASSUME NEW k \in Nat, NEW n \in Nat, NEW c \in Nat, k <= n
  PROVE  k * c \in Nat /\ n * c \in Nat /\ k * c <= n * c
  BY Z3

-----------------------------------------------------------------------------
(***************************************************************************)
(* The preserved tail.                                                     *)
(***************************************************************************)
\* Rounding down never goes up.
LEMMA RoundedDown ==
  ASSUME NEW a \in Int PROVE RoundDown(a) \in Int /\ RoundDown(a) <= a
  BY ModBound, WordAssumption DEF RoundDown

\* A window the planner accepted lies whole in video memory.
LEMMA WindowWhole ==
  ASSUME NEW m \in Memory, NEW w \in [address : Word, bytes : Word], WindowInside(m, w)
  PROVE  /\ WindowOffset(m, w) \in Nat
         /\ WindowOffset(m, w) + w.bytes <= m.total
  BY DEF WindowInside, WindowInMc, WindowOffset, Memory, Word

\* A plan leaves the CPU-visible pool and what Apple reserved where they were,
\* and everything that must be preserved above the limit.
LEMMA TailPlanned ==
  ASSUME NEW m \in Memory, NEW windows, NEW lowest \in Int,
         NEW held \in {"no", "reload", "console", "empty"},
         \A i \in DOMAIN windows : windows[i] \in [address : Word, bytes : Word],
         IsLowest(m, windows, held, lowest), TailPlannable(m, windows, held, lowest)
  PROVE  /\ TailLimit(m, lowest) \in Int /\ TailLimit(m, lowest) # 0
         /\ m.visible <= TailLimit(m, lowest)
         /\ TailLimit(m, lowest) <= m.total - m.existing
         /\ \A i \in Preserved(windows, held) :
              /\ TailLimit(m, lowest) <= WindowOffset(m, windows[i])
              /\ WindowOffset(m, windows[i]) + windows[i].bytes <= m.total
<1>1. m.total \in Nat /\ m.visible \in Nat /\ m.visible # 0 /\ m.existing \in Nat
  BY DEF TailPlannable, Memory, Word
<1>2. RoundDown(lowest) \in Int /\ RoundDown(lowest) <= lowest
  BY RoundedDown
<1>3. /\ TailLimit(m, lowest) \in Int
      /\ TailLimit(m, lowest) <= RoundDown(lowest)
      /\ TailLimit(m, lowest) <= m.total - m.existing
      /\ m.visible <= TailLimit(m, lowest)
  <2>1. TailOf(m, lowest) <= m.total - m.visible
    BY DEF TailPlannable
  <2>2. /\ TailOf(m, lowest) \in Int /\ m.existing <= TailOf(m, lowest)
        /\ m.total - RoundDown(lowest) <= TailOf(m, lowest)
    BY <1>1, <1>2 DEF TailOf
  <2> QED
    BY <1>1, <1>2, <2>1, <2>2 DEF TailLimit
<1>4. ASSUME NEW i \in Preserved(windows, held)
      PROVE  /\ TailLimit(m, lowest) <= WindowOffset(m, windows[i])
             /\ WindowOffset(m, windows[i]) + windows[i].bytes <= m.total
  <2>1. i \in DOMAIN windows
    BY <1>4 DEF Preserved
  <2>2. WindowOffset(m, windows[i]) \in Nat
        /\ WindowOffset(m, windows[i]) + windows[i].bytes <= m.total
    BY <2>1, WindowWhole DEF TailPlannable
  <2>3. lowest <= WindowOffset(m, windows[i])
    BY <1>4 DEF IsLowest
  <2> QED
    BY <1>2, <1>3, <2>2, <2>3
<1> QED
  BY <1>1, <1>3, <1>4

\* The same where no firmware is loaded: nothing is preserved.
LEMMA EmptyPlanned ==
  ASSUME NEW m \in Memory, NEW mailboxes, EmptyPlannable(m, mailboxes)
  PROVE  /\ EmptyLimit(m) \in Int /\ EmptyLimit(m) # 0
         /\ m.visible <= EmptyLimit(m) /\ EmptyLimit(m) <= m.total - m.existing
  BY DEF EmptyPlannable, EmptyLimit, Memory, Word

-----------------------------------------------------------------------------
(***************************************************************************)
(* Page-table updates.                                                     *)
(***************************************************************************)
\* The span of an update is computed in 64 bits without wrapping.
LEMMA SpanFits ==
  ASSUME NEW u \in Update, u.count # 0, NoOverflow(u)
  PROVE  Span(u) \in Nat /\ Span(u) <= MaxWord /\ SpanEnd(u) \in Nat /\ SpanEnd(u) <= MaxWord
<1>1. u.count \in Nat /\ u.source \in Nat /\ u.increment \in Nat /\ MaxWord \in Nat
  BY WordAssumption DEF Update, Word
<1>2. Span(u) \in Nat /\ Span(u) <= MaxWord
  <2>1. CASE u.increment = 0
    BY <1>1, <2>1 DEF Span
  <2>2. CASE u.increment # 0
    <3>1. /\ MaxWord \div u.increment \in Int
          /\ u.increment * (MaxWord \div u.increment) <= MaxWord
      BY <1>1, <2>2, DivBounds
    <3>2. u.count - 1 \in Nat /\ u.count - 1 <= MaxWord \div u.increment
      BY <1>1, <2>2 DEF NoOverflow
    <3>3. /\ (u.count - 1) * u.increment \in Nat
          /\ (u.count - 1) * u.increment <= (MaxWord \div u.increment) * u.increment
      BY <1>1, <3>1, <3>2, ProductGrows
    <3>4. (u.count - 1) * u.increment <= MaxWord
      BY <1>1, <3>1, <3>3
    <3> QED
      BY <3>3, <3>4 DEF Span
  <2> QED
    BY <2>1, <2>2
<1> QED
  BY <1>1, <1>2 DEF NoOverflow, SpanEnd

\* Entry k of an update lies between its first and its last address.
LEMMA EntryInSpan ==
  ASSUME NEW u \in Update, NEW k \in 0..(u.count - 1)
  PROVE  k * u.increment \in Nat /\ k * u.increment <= Span(u)
<1>1. u.count \in Nat /\ u.increment \in Nat
  BY DEF Update, Word
<1>2. k \in Nat /\ u.count - 1 \in Nat /\ k <= u.count - 1
  BY <1>1
<1> QED
  BY <1>1, <1>2, ProductGrows DEF Span

\* A forwarded update moves every entry to the physical address of its byte.
LEMMA ForwardedWhole ==
  ASSUME NEW fb, {fb.mcBase, fb.mcTop, fb.physicalBase} \subseteq Int, NEW known, NEW u \in Update,
         Forwarded(fb, known, u) # u.source, NEW k \in 0..(u.count - 1)
  PROVE  /\ u.source + k * u.increment \in fb.mcBase..fb.mcTop
         /\ Forwarded(fb, known, u) + k * u.increment \in fb.physicalBase..PhysicalTop(fb)
         /\ u.source + k * u.increment - fb.mcBase
              = Forwarded(fb, known, u) + k * u.increment - fb.physicalBase
<1>1. Converted(fb, known, u)
  BY DEF Forwarded
<1>2. /\ Forwarded(fb, known, u) = fb.physicalBase + (u.source - fb.mcBase)
      /\ fb.mcBase <= u.source /\ u.source + Span(u) <= fb.mcTop
  BY <1>1 DEF Forwarded, Converted, SpanEnd
<1>3. Span(u) \in Nat
  BY <1>1, SpanFits DEF Converted, Candidate
<1>4. k * u.increment \in Nat /\ k * u.increment <= Span(u)
  BY EntryInSpan
<1>5. u.source \in Nat
  BY DEF Update, Word
<1> QED
  BY <1>2, <1>3, <1>4, <1>5 DEF PhysicalTop

-----------------------------------------------------------------------------
(***************************************************************************)
(* The table of CTX0 and the queue image.                                  *)
(***************************************************************************)
\* The entry of a page in the table's range lies whole in the table.
LEMMA EntryInTable ==
  ASSUME NEW ap, NEW range \in [root : Word, first : Word, last : Word],
         ap.physicalBase \in Int,
         NEW va \in (range.first * Page)..(range.last * Page)
  PROVE  LET offset == PteOffset(ap, range, range.root, va)
             start  == range.root - ap.physicalBase
         IN  /\ offset \in Int /\ start <= offset
             /\ offset + EntryBytes <= start + TableBytes(range)
<1>1. /\ range.root \in Nat /\ range.first \in Nat /\ range.last \in Nat
      /\ Page \in Nat /\ Page > 0 /\ EntryBytes \in Nat
  BY WordAssumption DEF Word
<1>2. /\ va \in Int /\ range.first * Page <= va /\ va <= range.last * Page
  BY <1>1
<1>3. /\ va \div Page \in Int
      /\ range.first <= va \div Page /\ va \div Page <= range.last
  BY <1>1, <1>2, DivInside, DivBounds
<1> DEFINE k == va \div Page - range.first
           n == range.last - range.first
<1>4. k \in Nat /\ n \in Nat /\ k <= n
  BY <1>1, <1>3
<1>5. k * EntryBytes \in Nat /\ n * EntryBytes \in Nat /\ k * EntryBytes <= n * EntryBytes
  BY <1>1, <1>4, ProductGrows
<1>6. TableBytes(range) = n * EntryBytes + EntryBytes
  BY <1>1, <1>4, Z3 DEF TableBytes
<1>7. PteOffset(ap, range, range.root, va) = range.root - ap.physicalBase + k * EntryBytes
  BY DEF PteOffset
<1> HIDE DEF k, n
<1> QED
  BY <1>1, <1>5, <1>6, <1>7

\* A planned image is one aligned, CPU-visible page.
LEMMA ImageVisible ==
  ASSUME NEW ap, {ap.mcBase, ap.swBase, ap.visibleBytes} \subseteq Int,
         NEW mqd \in Word, NEW eop \in Word, Plannable(ap, mqd, eop)
  PROVE  /\ Offset(ap, mqd) \in Nat /\ Aligned(Offset(ap, mqd))
         /\ Offset(ap, mqd) + Page <= ap.visibleBytes
  BY WordAssumption DEF Plannable, HasOffset, Offset, InMc, InSw, Word

-----------------------------------------------------------------------------
(***************************************************************************)
(* The invariant: what has been accepted stays true of the ranges that are *)
(* recorded, because nobody moves a range after it was accepted.           *)
(***************************************************************************)
BootKnown ==
  /\ boot \in Memories /\ table \in Tables
  /\ {limit, primary, secondary, native.total, native.visible} \subseteq Int
LimitKnown == stage \notin {"start", "refused"} => limit # 0
LeaseKnown ==
  /\ leaseRange.offset \in Int /\ leaseRange.bytes \in Int
  /\ stage \in {"owned", "taken", "accepted"} =>
       Within(leaseRange, Bar) /\ Separate(leaseRange, TableRange)
  /\ stage = "accepted" => Separate(leaseRange, vmm)
ImageKnown ==
  imageRange # NoRange =>
    /\ stage = "accepted" /\ imageRange.offset \in Nat /\ imageRange.bytes = Page
    /\ Aligned(imageRange.offset) /\ Within(imageRange, Bar)
UpdateKnown ==
  mapped # <<>> =>
    mapped[2] \in Update /\ \E known \in BOOLEAN : mapped[1] = Forwarded(Fb0, known, mapped[2])

LayoutInv == BootKnown /\ LimitKnown /\ TailKept /\ LeaseKnown /\ ImageKnown /\ UpdateKnown

\* The native cursors stay in their pools.
CursorKnown ==
  /\ native.visible \in Nat /\ native.total \in Nat
  /\ primary \in 0..native.visible /\ secondary \in 0..native.total
\* A reservation of another client lies above the cursor it was taken from.
OthersKnown ==
  \A o \in others :
    /\ o \in Range /\ o.bytes = Page
    /\ \/ primary <= o.offset /\ o.offset + o.bytes <= native.visible
       \/ native.total > native.visible /\ secondary <= o.offset
\* The prediction is made of the pool the arena will come from.
PredictedKnown ==
  /\ predicted \in Range
  /\ stage \in {"owned", "taken", "accepted"} =>
       (native.total > native.visible => predicted.offset >= native.visible)
\* The arena, where the allocator put it, and the one that was accepted.
ArenaKnown ==
  /\ vmm \in Range
  /\ stage \in {"taken", "accepted"} /\ vmm.offset = predicted.offset =>
       \A o \in others : Separate(vmm, o)
  /\ stage = "accepted" => Within(vmm, Logical) /\ vmm.offset = predicted.offset
\* The driver's own ranges are ranges.
RangeKnown ==
  /\ stage \in {"start", "reserved", "appended", "owned", "taken", "accepted"} \cup Refused
  /\ leaseRange \in Range /\ imageRange \in Range

\* Beside LayoutInv: where the reservations of all clients are.
ArenaInv == CursorKnown /\ OthersKnown /\ PredictedKnown /\ ArenaKnown /\ RangeKnown

LEMMA MemoryKnown ==
  ASSUME BootKnown
  PROVE  /\ Memory0 \in Memory
         /\ {Memory0.mcBase, Memory0.physicalBase, Bar, Logical} \subseteq Nat
         /\ \A i \in DOMAIN boot.windows : boot.windows[i] \in [address : Word, bytes : Word]
         /\ boot.held \in {"no", "reload", "console", "empty"}
         /\ {Fb0.mcBase, Fb0.mcTop, Fb0.physicalBase} \subseteq Int
         /\ table \in [root : Word, first : Word, last : Word]
  BY LayoutAssumption, WordAssumption DEF BootKnown, Memory0, Memory, Bar, Logical, Fb0, Word

\* A reservation from the top down starts at an integer.
LEMMA TopDownInt ==
  ASSUME NEW c \in Int, NEW n \in Int PROVE TopDown(c, n, Page) \in Int
  BY ModBound, WordAssumption DEF TopDown

LEMMA LayoutInitial == LayoutInit => LayoutInv
<1> SUFFICES ASSUME LayoutInit PROVE LayoutInv
  OBVIOUS
<1>1. BootKnown
  BY LayoutAssumption DEF LayoutInit, BootKnown, Memory, Word
<1> QED
  BY <1>1 DEF LayoutInit, LayoutInv, LimitKnown, TailKept, LeaseKnown, ImageKnown, UpdateKnown, NoRange

LEMMA BootStep == ASSUME LayoutInv, [LayoutNext]_layoutVars PROVE BootKnown'
<1>1. LeaseSize \in Int /\ VmmBytes \in Int /\ Page \in Int
  BY LayoutAssumption, WordAssumption
<1>2. CASE ReserveTail
  <2>1. limit' \in Int
    <3>1. ASSUME NEW lowest \in 0..Memory0.total,
                 IsLowest(Memory0, boot.windows, boot.held, lowest),
                 TailPlannable(Memory0, boot.windows, boot.held, lowest)
          PROVE  TailLimit(Memory0, lowest) \in Int
      <4>1. lowest \in Int
        BY MemoryKnown DEF LayoutInv, Memory, Word
      <4> QED
        BY <3>1, <4>1, MemoryKnown, TailPlanned DEF LayoutInv
    <3>2. ASSUME NEW mailboxes, EmptyPlannable(Memory0, mailboxes)
          PROVE  EmptyLimit(Memory0) \in Int
      BY <3>2, MemoryKnown, EmptyPlanned DEF LayoutInv
    <3> QED
      BY <1>2, <3>1, <3>2 DEF ReserveTail
  <2> QED
    BY <1>2, <2>1 DEF ReserveTail, LayoutInv, BootKnown
<1>3. CASE OtherReserve
  BY <1>1, <1>3, TopDownInt DEF OtherReserve, LayoutInv, BootKnown
<1>4. CASE Append
  BY <1>1, <1>4, TopDownInt DEF Append, LayoutInv, BootKnown
<1>5. CASE Validate \/ NativeVmm \/ Check \/ PlanImage \/ UpdateEntries
  BY <1>5 DEF Validate, NativeVmm, Check, PlanImage, UpdateEntries, LayoutInv, BootKnown
<1>6. CASE UNCHANGED layoutVars
  BY <1>6 DEF layoutVars, LayoutInv, BootKnown
<1> QED
  BY <1>2, <1>3, <1>4, <1>5, <1>6 DEF LayoutNext

\* Only the reservation of the tail sets the limit.
LEMMA LimitStep == ASSUME LayoutInv, [LayoutNext]_layoutVars PROVE LimitKnown' /\ TailKept'
<1>1. CASE ReserveTail
  <2>1. CASE \E lowest \in 0..Memory0.total :
               /\ IsLowest(Memory0, boot.windows, boot.held, lowest)
               /\ TailPlannable(Memory0, boot.windows, boot.held, lowest)
               /\ limit' = TailLimit(Memory0, lowest)
    <3>1. PICK lowest \in 0..Memory0.total :
               /\ IsLowest(Memory0, boot.windows, boot.held, lowest)
               /\ TailPlannable(Memory0, boot.windows, boot.held, lowest)
               /\ limit' = TailLimit(Memory0, lowest)
      BY <2>1
    <3>2. lowest \in Int
      BY MemoryKnown DEF LayoutInv, Memory, Word
    <3>3. /\ limit' \in Int /\ limit' # 0 /\ Memory0.visible <= limit'
          /\ limit' <= Memory0.total - Memory0.existing
          /\ \A i \in Preserved(boot.windows, boot.held) :
               /\ limit' <= WindowOffset(Memory0, boot.windows[i])
               /\ WindowOffset(Memory0, boot.windows[i]) + boot.windows[i].bytes <= Memory0.total
      BY <3>1, <3>2, MemoryKnown, TailPlanned DEF LayoutInv
    <3>4. \A w \in Live : limit' <= w.offset /\ w.offset + w.bytes <= Logical
      BY <3>3 DEF Live, Logical
    <3>5. UNCHANGED boot
      BY <1>1 DEF ReserveTail
    <3> QED
      BY <3>3, <3>4, <3>5 DEF LimitKnown, TailKept, Bar, Logical, Memory0, Live
  <2>2. CASE /\ boot.held = "empty" /\ limit' = EmptyLimit(Memory0)
             /\ EmptyPlannable(Memory0, {boot.windows[i] : i \in DOMAIN boot.windows \ {0, 1}})
    <3>1. /\ limit' \in Int /\ limit' # 0 /\ Memory0.visible <= limit'
          /\ limit' <= Memory0.total - Memory0.existing
      BY <2>2, MemoryKnown, EmptyPlanned DEF LayoutInv
    <3>2. Live = {}
      BY <2>2 DEF Live, Preserved
    <3>3. UNCHANGED boot
      BY <1>1 DEF ReserveTail
    <3> QED
      BY <3>1, <3>2, <3>3 DEF LimitKnown, TailKept, Bar, Logical, Memory0, Live
  <2>3. CASE limit' = 0 /\ stage' = "refused"
    BY <2>3 DEF LimitKnown, TailKept
  <2> QED
    BY <1>1, <2>1, <2>2, <2>3 DEF ReserveTail
<1>2. CASE ~ReserveTail
  <2>1. UNCHANGED <<boot, limit>> /\ (stage' \in {"start", "refused"} \/ stage \notin {"start", "refused"})
    BY <1>2 DEF LayoutNext, OtherReserve, Append, Validate, NativeVmm, Check, PlanImage, UpdateEntries, layoutVars
  <2> QED
    BY <2>1 DEF LayoutInv, LimitKnown, TailKept, Bar, Logical, Memory0, Live
<1> QED
  BY <1>1, <1>2

\* A lease is recorded once, checked once, and never moves again.
LEMMA LeaseStep == ASSUME LayoutInv, [LayoutNext]_layoutVars PROVE LeaseKnown'
<1>1. LeaseSize \in Int /\ Misplaced \subseteq Nat /\ Page \in Int
  BY LayoutAssumption, WordAssumption
<1>2. CASE Append
  <2>1. leaseRange' \in [offset : Int, bytes : {LeaseSize}]
    <3>1. CASE primary' = TopDown(primary, LeaseSize, Page)
               /\ leaseRange' = [offset |-> primary', bytes |-> LeaseSize]
      BY <1>1, <3>1, TopDownInt DEF LayoutInv, BootKnown
    <3>2. CASE \E offset \in Misplaced : leaseRange' = [offset |-> offset, bytes |-> LeaseSize]
      BY <1>1, <3>2
    <3> QED
      BY <1>2, <3>1, <3>2 DEF Append
  <2>2. stage' = "appended"
    BY <1>2 DEF Append
  <2> QED
    BY <1>1, <2>1, <2>2 DEF LeaseKnown
<1>3. CASE Validate
  <2>1. UNCHANGED <<leaseRange, vmm, boot, table>> /\ stage' \in {"owned", "refused"}
    BY <1>3 DEF Validate
  <2>2. stage' = "owned" => Within(leaseRange, Bar) /\ Separate(leaseRange, TableRange)
    BY <1>3 DEF Validate, ValidOwnership, DisjointFromTable
  <2> QED
    BY <2>1, <2>2 DEF LayoutInv, LeaseKnown, Bar, Memory0, TableRange
<1>4. CASE NativeVmm
  <2>1. UNCHANGED <<leaseRange, boot, table>> /\ stage = "owned" /\ stage' = "taken"
    BY <1>4 DEF NativeVmm
  <2> QED
    BY <2>1 DEF LayoutInv, LeaseKnown, Bar, Memory0, TableRange
<1>5. CASE Check
  <2>1. /\ UNCHANGED <<leaseRange, vmm, boot, table>> /\ stage = "taken"
        /\ stage' \in {"accepted", "aborted"} /\ (stage' = "accepted" => Separate(leaseRange, vmm))
    BY <1>5 DEF Check
  <2> QED
    BY <2>1 DEF LayoutInv, LeaseKnown, Bar, Memory0, TableRange
<1>6. CASE ReserveTail
  <2>1. UNCHANGED leaseRange /\ stage' \in {"reserved", "refused"}
    BY <1>6 DEF ReserveTail
  <2> QED
    BY <2>1 DEF LayoutInv, LeaseKnown
<1>7. CASE OtherReserve \/ PlanImage \/ UpdateEntries \/ UNCHANGED layoutVars
  <2>1. UNCHANGED <<leaseRange, vmm, boot, table, stage>>
    BY <1>7 DEF OtherReserve, PlanImage, UpdateEntries, layoutVars
  <2> QED
    BY <2>1 DEF LayoutInv, LeaseKnown, Bar, Memory0, TableRange
<1> QED
  BY <1>2, <1>3, <1>4, <1>5, <1>6, <1>7 DEF LayoutNext

\* An image is planned over the visible range, while the tail is reserved.
LEMMA ImageStep == ASSUME LayoutInv, [LayoutNext]_layoutVars PROVE ImageKnown'
<1>1. CASE PlanImage
  <2>1. PICK pair \in Images :
          /\ Plannable(Gart, pair[1], pair[2])
          /\ imageRange' = [offset |-> ImageOffset(Gart, pair[1]), bytes |-> Page]
    BY <1>1 DEF PlanImage
  <2>2. pair[1] \in Word /\ pair[2] \in Word /\ Page \in Nat /\ Page > 1
    BY LayoutAssumption, WordAssumption
  <2>3. {Gart.mcBase, Gart.swBase, Gart.visibleBytes} \subseteq Int /\ Gart.visibleBytes = Bar
    BY MemoryKnown DEF LayoutInv, Gart
  <2>4. /\ imageRange'.offset \in Nat /\ Aligned(imageRange'.offset)
        /\ imageRange'.offset + Page <= Bar /\ imageRange'.bytes = Page
    BY <2>1, <2>2, <2>3, ImageVisible DEF ImageOffset
  <2>5. UNCHANGED <<boot, stage>> /\ stage = "accepted"
    BY <1>1 DEF PlanImage
  <2> QED
    BY <2>2, <2>4, <2>5 DEF LayoutInv, LimitKnown, ImageKnown, Within, Bar, Memory0
<1>2. CASE OtherReserve \/ UpdateEntries \/ UNCHANGED layoutVars
  <2>1. UNCHANGED <<imageRange, stage, boot>>
    BY <1>2 DEF OtherReserve, UpdateEntries, layoutVars
  <2> QED
    BY <2>1 DEF LayoutInv, ImageKnown, Bar, Memory0
<1>3. CASE ReserveTail \/ Append \/ Validate \/ NativeVmm \/ Check
  <2>1. UNCHANGED imageRange /\ stage # "accepted"
    BY <1>3 DEF ReserveTail, Append, Validate, NativeVmm, Check
  <2> QED
    BY <2>1 DEF LayoutInv, ImageKnown
<1> QED
  BY <1>1, <1>2, <1>3 DEF LayoutNext

\* What reached the page table is what the updater forwarded.
LEMMA UpdateStep == ASSUME LayoutInv, [LayoutNext]_layoutVars PROVE UpdateKnown'
<1>1. CASE UpdateEntries
  <2>1. PICK u \in Updates, known \in BOOLEAN : mapped' = <<Forwarded(Fb0, known, u), u>>
    BY <1>1 DEF UpdateEntries
  <2>2. u \in Update
    BY LayoutAssumption
  <2>3. UNCHANGED boot
    BY <1>1 DEF UpdateEntries
  <2>4. mapped'[1] = Forwarded(Fb0, known, u) /\ mapped'[2] = u /\ Fb0' = Fb0
    BY <2>1, <2>3 DEF Fb0, Memory0, Logical
  <2>5. Forwarded(Fb0, known, mapped[2])' = Forwarded(Fb0, known, u)
    BY <2>3, <2>4 DEF Forwarded, Converted, Candidate, AlreadyPhysical, PhysicalTop, Fb, NoOverflow,
                      Span, SpanEnd
  <2> QED
    BY <2>2, <2>4, <2>5 DEF UpdateKnown
<1>2. CASE ~UpdateEntries
  <2>1. UNCHANGED <<mapped, boot>>
    BY <1>2 DEF LayoutNext, ReserveTail, OtherReserve, Append, Validate, NativeVmm, Check, PlanImage, layoutVars
  <2> QED
    BY <2>1 DEF LayoutInv, UpdateKnown, Fb0, Memory0, Logical
<1> QED
  BY <1>1, <1>2

LEMMA LayoutInvariant == LayoutSpec => []LayoutInv
<1>1. LayoutInv /\ [LayoutNext]_layoutVars => LayoutInv'
  BY BootStep, LimitStep, LeaseStep, ImageStep, UpdateStep DEF LayoutInv
<1> QED
  BY <1>1, LayoutInitial, PTL DEF LayoutSpec

\* A reservation that fits lies below the cursor it was taken from.
LEMMA TopDownBelow ==
  ASSUME NEW c \in Nat, NEW n \in Nat, TopDownFits(c, n, Page)
  PROVE  TopDown(c, n, Page) \in Nat /\ TopDown(c, n, Page) + n <= c
<1>1. c - n \in Nat /\ Page \in Nat /\ Page > 0
  BY WordAssumption DEF TopDownFits
<1>2. (c - n) % Page \in Nat /\ (c - n) % Page <= c - n
  BY <1>1, Z3
<1> QED
  BY <1>1, <1>2 DEF TopDown

LEMMA ArenaInitial == LayoutInit => ArenaInv
<1> SUFFICES ASSUME LayoutInit PROVE ArenaInv
  OBVIOUS
<1>1. boot.memory \in Memory /\ native.visible \in Nat /\ native.total \in Nat
  BY LayoutAssumption DEF LayoutInit, Memory, Word
<1>2. CursorKnown
  BY <1>1 DEF LayoutInit, CursorKnown
<1>3. NoRange \in Range
  BY DEF NoRange, Range
<1> QED
  BY <1>2, <1>3 DEF LayoutInit, ArenaInv, OthersKnown, PredictedKnown, ArenaKnown, RangeKnown

\* A cursor moves only down, by a reservation that fits.
LEMMA CursorStep == ASSUME LayoutInv, ArenaInv, [LayoutNext]_layoutVars PROVE CursorKnown'
<1>1. LeaseSize \in Nat /\ Page \in Nat
  BY LayoutAssumption, WordAssumption
<1>2. CASE OtherReserve
  BY <1>1, <1>2, TopDownBelow DEF OtherReserve, ArenaInv, CursorKnown
<1>3. CASE Append
  BY <1>1, <1>3, TopDownBelow DEF Append, ArenaInv, CursorKnown
<1>4. CASE ~OtherReserve /\ ~Append
  <2>1. UNCHANGED <<native, primary, secondary>>
    BY <1>4 DEF LayoutNext, ReserveTail, Validate, NativeVmm, Check, PlanImage, UpdateEntries, layoutVars
  <2> QED
    BY <2>1 DEF ArenaInv, CursorKnown
<1> QED
  BY <1>2, <1>3, <1>4

\* Every reservation of another client stays above the cursor it was taken from.
LEMMA OthersStep == ASSUME LayoutInv, ArenaInv, [LayoutNext]_layoutVars PROVE OthersKnown'
<1>1. LeaseSize \in Nat /\ Page \in Nat
  BY LayoutAssumption, WordAssumption
<1>2. /\ native.visible \in Nat /\ native.total \in Nat
      /\ primary \in 0..native.visible /\ secondary \in 0..native.total
  BY DEF ArenaInv, CursorKnown
<1>3. ASSUME OtherReserve, NEW o \in others'
      PROVE  /\ o \in Range /\ o.bytes = Page
             /\ \/ primary' <= o.offset /\ o.offset + o.bytes <= native.visible
                \/ native.total > native.visible /\ secondary' <= o.offset
  <2>1. CASE /\ TopDownFits(primary, Page, Page) /\ primary' = TopDown(primary, Page, Page)
             /\ others' = others \cup {[offset |-> primary', bytes |-> Page]}
             /\ UNCHANGED secondary
    <3>1. primary' \in Nat /\ primary' + Page <= primary
      BY <1>1, <1>2, <2>1, TopDownBelow
    <3>2. CASE o \in others
      BY <1>1, <1>2, <2>1, <3>1, <3>2 DEF ArenaInv, OthersKnown, Range
    <3>3. CASE o = [offset |-> primary', bytes |-> Page]
      BY <1>1, <1>2, <2>1, <3>1, <3>3 DEF Range
    <3> QED
      BY <1>3, <2>1, <3>2, <3>3
  <2>2. CASE /\ native.total > native.visible
             /\ TopDownFits(secondary, Page, Page) /\ secondary' = TopDown(secondary, Page, Page)
             /\ others' = others \cup {[offset |-> secondary', bytes |-> Page]}
             /\ UNCHANGED primary
    <3>1. secondary' \in Nat /\ secondary' + Page <= secondary
      BY <1>1, <1>2, <2>2, TopDownBelow
    <3>2. CASE o \in others
      BY <1>1, <1>2, <2>2, <3>1, <3>2 DEF ArenaInv, OthersKnown, Range
    <3>3. CASE o = [offset |-> secondary', bytes |-> Page]
      BY <1>1, <1>2, <2>2, <3>1, <3>3 DEF Range
    <3> QED
      BY <1>3, <2>2, <3>2, <3>3
  <2> QED
    BY <1>3, <2>1, <2>2 DEF OtherReserve
<1>4. CASE OtherReserve
  <2>1. UNCHANGED native
    BY <1>4 DEF OtherReserve
  <2> QED
    BY <1>3, <1>4, <2>1 DEF OthersKnown
<1>5. CASE Append
  <2>1. UNCHANGED <<native, others, secondary>> /\ primary' <= primary /\ primary' \in Int
    BY <1>1, <1>2, <1>5, TopDownBelow DEF Append
  <2>2. ASSUME NEW o \in others
        PROVE  /\ o \in Range /\ o.bytes = Page
               /\ \/ primary' <= o.offset /\ o.offset + o.bytes <= native.visible
                  \/ native.total > native.visible /\ secondary' <= o.offset
    BY <1>2, <2>1 DEF ArenaInv, OthersKnown, Range
  <2> QED
    BY <2>1, <2>2 DEF OthersKnown
<1>6. CASE ~OtherReserve /\ ~Append
  <2>1. UNCHANGED <<native, others, primary, secondary>>
    BY <1>6 DEF LayoutNext, ReserveTail, Validate, NativeVmm, Check, PlanImage, UpdateEntries, layoutVars
  <2> QED
    BY <2>1 DEF ArenaInv, OthersKnown
<1> QED
  BY <1>4, <1>5, <1>6

\* An accepted prediction is a range of the pool the manager reserves from.
LEMMA PredictedStep == ASSUME LayoutInv, ArenaInv, [LayoutNext]_layoutVars PROVE PredictedKnown'
<1>1. VmmBytes \in Nat
  BY LayoutAssumption
<1>2. CASE Validate
  <2> DEFINE cursor == VmmCursor(primary, secondary, native)
             range  == [offset |-> TopDown(cursor, VmmBytes, Page), bytes |-> VmmBytes]
  <2>1. \/ stage' = "refused" /\ predicted' = NoRange
        \/ /\ stage' = "owned" /\ predicted' = range
           /\ VmmPredicted(cursor, VmmBytes, Page, Bar, Logical, native)
    BY <1>2 DEF Validate
  <2>2. UNCHANGED native
    BY <1>2 DEF Validate
  <2>3. CASE predicted' = NoRange /\ stage' = "refused"
    BY <2>3 DEF PredictedKnown, NoRange, Range
  <2>4. CASE /\ predicted' = range
             /\ VmmPredicted(cursor, VmmBytes, Page, Bar, Logical, native)
    <3>1. cursor \in Nat
      BY DEF ArenaInv, CursorKnown, VmmCursor
    <3>2. TopDown(cursor, VmmBytes, Page) \in Nat
      BY <1>1, <2>4, <3>1, TopDownBelow DEF VmmPredicted
    <3>3. native.total > native.visible => TopDown(cursor, VmmBytes, Page) >= native.visible
      BY <2>4 DEF VmmPredicted
    <3> QED
      BY <1>1, <2>2, <2>4, <3>2, <3>3 DEF PredictedKnown, Range
  <2> QED
    BY <2>1, <2>3, <2>4
<1>3. CASE ~Validate
  <2>1. UNCHANGED <<predicted, native>>
        /\ (stage' \in {"owned", "taken", "accepted"} => stage \in {"owned", "taken", "accepted"})
    BY <1>3 DEF LayoutNext, ReserveTail, OtherReserve, Append, NativeVmm, Check, PlanImage, UpdateEntries, layoutVars
  <2> QED
    BY <2>1 DEF ArenaInv, PredictedKnown
<1> QED
  BY <1>2, <1>3

\* The arena that lies where it was predicted is nobody else's: taken below the
\* cursor it is under what that cursor gave away, and the other cursor's pool
\* ends below the prediction.
LEMMA ArenaStep == ASSUME LayoutInv, ArenaInv, [LayoutNext]_layoutVars PROVE ArenaKnown'
<1>1. VmmBytes \in Nat /\ VmmBytes # 0 /\ Misplaced \subseteq Nat
  BY LayoutAssumption
<1>2. CASE NativeVmm
  <2> DEFINE cursor == VmmCursor(primary, secondary, native)
  <2>1. UNCHANGED <<others, predicted, native>> /\ stage = "owned" /\ stage' = "taken"
    BY <1>2 DEF NativeVmm
  <2>2. CASE /\ TopDownFits(cursor, VmmBytes, Page)
             /\ vmm' = [offset |-> TopDown(cursor, VmmBytes, Page), bytes |-> VmmBytes]
    <3>1. cursor \in Nat /\ native.visible \in Nat /\ native.total \in Nat
      BY DEF ArenaInv, CursorKnown, VmmCursor
    <3>2. vmm'.offset \in Nat /\ vmm'.offset + VmmBytes <= cursor /\ vmm'.bytes = VmmBytes
      BY <1>1, <2>2, <3>1, TopDownBelow
    <3>3. ASSUME NEW o \in others, vmm'.offset = predicted.offset PROVE Separate(vmm', o)
      <4>1. /\ o.offset \in Nat /\ o.bytes = Page /\ Page \in Nat
            /\ \/ primary <= o.offset /\ o.offset + o.bytes <= native.visible
               \/ native.total > native.visible /\ secondary <= o.offset
        BY WordAssumption DEF ArenaInv, OthersKnown, Range
      <4>2. native.total > native.visible => cursor = secondary /\ vmm'.offset >= native.visible
        BY <2>1, <3>3 DEF VmmCursor, ArenaInv, PredictedKnown
      <4>3. ~(native.total > native.visible) => cursor = primary
        BY DEF VmmCursor
      <4>4. primary \in Nat /\ secondary \in Nat
        BY <3>1 DEF ArenaInv, CursorKnown
      <4> HIDE DEF cursor
      <4> QED
        BY <1>1, <3>1, <3>2, <4>1, <4>2, <4>3, <4>4 DEF Separate
    <3>4. vmm' \in Range
      BY <1>1, <2>2, <3>2 DEF Range
    <3> QED
      BY <2>1, <3>3, <3>4 DEF ArenaKnown
  <2>3. CASE \E offset \in Misplaced :
               /\ vmm' = [offset |-> offset, bytes |-> VmmBytes]
               /\ \A o \in others : Separate(vmm', o)
    BY <1>1, <2>1, <2>3 DEF ArenaKnown, Range
  <2> QED
    BY <1>2, <2>2, <2>3 DEF NativeVmm
<1>3. CASE Check
  <2>1. UNCHANGED <<vmm, others, predicted, boot>> /\ stage = "taken"
    BY <1>3 DEF Check
  <2>2. stage' = "accepted" => Within(vmm, Logical) /\ vmm.offset = predicted.offset
    BY <1>3 DEF Check
  <2> QED
    BY <2>1, <2>2 DEF ArenaInv, ArenaKnown, Logical, Memory0
<1>4. CASE ~NativeVmm /\ ~Check
  <2>1. UNCHANGED vmm
    BY <1>4 DEF LayoutNext, ReserveTail, OtherReserve, Append, Validate, PlanImage, UpdateEntries, layoutVars
  <2>2. \/ stage' \notin {"taken", "accepted"}
        \/ UNCHANGED <<stage, others, predicted, boot>>
    BY <1>4 DEF LayoutNext, ReserveTail, OtherReserve, Append, Validate, PlanImage, UpdateEntries, layoutVars
  <2> QED
    BY <2>1, <2>2 DEF ArenaInv, ArenaKnown, Logical, Memory0
<1> QED
  BY <1>2, <1>3, <1>4

\* The lease and the queue image are ranges.
LEMMA RangeStep == ASSUME LayoutInv, ArenaInv, [LayoutNext]_layoutVars PROVE RangeKnown'
<1>1. LeaseSize \in Nat /\ Misplaced \subseteq Nat /\ Page \in Nat
  BY LayoutAssumption, WordAssumption
<1>2. stage' \in {"start", "reserved", "appended", "owned", "taken", "accepted"} \cup Refused
  <2>1. stage \in {"start", "reserved", "appended", "owned", "taken", "accepted"} \cup Refused
    BY DEF ArenaInv, RangeKnown
  <2> QED
    BY <2>1 DEF LayoutNext, ReserveTail, OtherReserve, Append, Validate, NativeVmm, Check, PlanImage,
                UpdateEntries, layoutVars, Refused
<1>3. leaseRange' \in Range
  <2>1. CASE Append
    <3>1. primary \in Nat
      BY DEF ArenaInv, CursorKnown
    <3>2. CASE /\ TopDownFits(primary, LeaseSize, Page)
               /\ primary' = TopDown(primary, LeaseSize, Page)
               /\ leaseRange' = [offset |-> primary', bytes |-> LeaseSize]
      BY <1>1, <3>1, <3>2, TopDownBelow DEF Range
    <3>3. CASE \E offset \in Misplaced : leaseRange' = [offset |-> offset, bytes |-> LeaseSize]
      BY <1>1, <3>3 DEF Range
    <3> QED
      BY <2>1, <3>2, <3>3 DEF Append
  <2>2. CASE ~Append
    <3>1. UNCHANGED leaseRange
      BY <2>2 DEF LayoutNext, ReserveTail, OtherReserve, Validate, NativeVmm, Check, PlanImage,
                  UpdateEntries, layoutVars
    <3> QED
      BY <3>1 DEF ArenaInv, RangeKnown
  <2> QED
    BY <2>1, <2>2
<1>4. imageRange' \in Range
  <2>1. imageRange' # NoRange => imageRange'.offset \in Nat /\ imageRange'.bytes = Page
    BY ImageStep DEF ImageKnown
  <2>2. CASE PlanImage
    <3>1. PICK pair \in Images :
                 imageRange' = [offset |-> ImageOffset(Gart, pair[1]), bytes |-> Page]
      BY <2>2 DEF PlanImage
    <3> QED
      BY <1>1, <2>1, <3>1, WordAssumption DEF Range, NoRange
  <2>3. CASE ~PlanImage
    <3>1. UNCHANGED imageRange
      BY <2>3 DEF LayoutNext, ReserveTail, OtherReserve, Append, Validate, NativeVmm, Check,
                  UpdateEntries, layoutVars
    <3> QED
      BY <3>1 DEF ArenaInv, RangeKnown
  <2> QED
    BY <2>2, <2>3
<1> QED
  BY <1>2, <1>3, <1>4 DEF RangeKnown

LEMMA ArenaInvariant == LayoutSpec => [](LayoutInv /\ ArenaInv)
<1>1. LayoutInv /\ ArenaInv /\ [LayoutNext]_layoutVars => ArenaInv'
  BY CursorStep, OthersStep, PredictedStep, ArenaStep, RangeStep DEF ArenaInv
<1> QED
  BY <1>1, ArenaInitial, LayoutInvariant, PTL DEF LayoutSpec

\* Behind a limit, what lies in the visible pool is outside every live window.
LEMMA VisibleApart ==
  ASSUME LayoutInv, stage \notin {"start", "refused"},
         NEW a, a.offset \in Int, a.bytes \in Int, Within(a, Bar)
  PROVE  \A w \in Live : Separate(a, w)
<1> SUFFICES ASSUME NEW w \in Live PROVE Separate(a, w)
  OBVIOUS
<1>1. limit # 0 /\ Bar <= limit /\ limit <= w.offset /\ limit \in Int /\ Bar \in Int
  BY MemoryKnown DEF LayoutInv, LimitKnown, TailKept, BootKnown
<1>2. w.offset \in Int
  <2>1. PICK i \in Preserved(boot.windows, boot.held) : w.offset = WindowOffset(Memory0, boot.windows[i])
    BY DEF Live
  <2>2. i \in DOMAIN boot.windows
    BY MemoryKnown DEF LayoutInv, Preserved
  <2>3. boot.windows[i] \in [address : Word, bytes : Word] /\ Memory0 \in Memory
    BY <2>2, MemoryKnown DEF LayoutInv
  <2> QED
    BY <2>1, <2>3, WordAssumption DEF WindowOffset, Memory, Word
<1> QED
  BY <1>1, <1>2 DEF Separate, Within

-----------------------------------------------------------------------------
(***************************************************************************)
(* The theorems.                                                           *)
(***************************************************************************)
\* The reserved tail covers every firmware window still in use and what Apple
\* had reserved, and leaves the CPU-visible pool whole, for every layout of
\* windows the registers may describe (HostMemoryReservation.hpp plan).
THEOREM FirmwareTailKept == LayoutSpec => []TailKept
<1>1. LayoutInv => TailKept
  BY DEF LayoutInv
<1> QED
  BY <1>1, LayoutInvariant, PTL

\* A page-table update is forwarded as it came or moved as a whole, for every
\* count, increment and source a 64-bit word can hold (prepareEntryUpdate).
THEOREM UpdatesMoveWhole == LayoutSpec => []UpdatesWhole
<1>1. LayoutInv => UpdatesWhole
  <2> SUFFICES ASSUME LayoutInv, mapped # <<>>, mapped[1] # mapped[2].source,
                      NEW k \in 0..(mapped[2].count - 1)
               PROVE  /\ mapped[2].source + k * mapped[2].increment \in Fb0.mcBase..Fb0.mcTop
                      /\ mapped[1] + k * mapped[2].increment \in Fb0.physicalBase..PhysicalTop(Fb0)
                      /\ mapped[2].source + k * mapped[2].increment - Fb0.mcBase
                           = mapped[1] + k * mapped[2].increment - Fb0.physicalBase
    BY DEF UpdatesWhole
  <2>1. mapped[2] \in Update
    BY DEF LayoutInv, UpdateKnown
  <2>2. PICK known \in BOOLEAN : mapped[1] = Forwarded(Fb0, known, mapped[2])
    BY DEF LayoutInv, UpdateKnown
  <2>3. {Fb0.mcBase, Fb0.mcTop, Fb0.physicalBase} \subseteq Int
    BY MemoryKnown DEF LayoutInv
  <2> QED
    BY <2>1, <2>2, <2>3, ForwardedWhole
<1> QED
  BY <1>1, LayoutInvariant, PTL

\* An owned lease shares no byte with a live firmware window, with an entry of
\* the table CTX0 walks, or with the accepted arena of the VM manager
\* (establishBeforeVmm).
THEOREM LeaseStaysApart == LayoutSpec => []LeaseApart
<1>1. LayoutInv => LeaseApart
  <2> SUFFICES ASSUME LayoutInv, stage \in {"owned", "taken", "accepted"} PROVE LeaseApart
    BY DEF LeaseApart
  <2>1. /\ leaseRange.offset \in Int /\ leaseRange.bytes \in Int
        /\ Within(leaseRange, Bar) /\ Separate(leaseRange, TableRange)
        /\ stage = "accepted" => Separate(leaseRange, vmm)
    BY DEF LayoutInv, LeaseKnown
  <2>2. \A w \in Live : Separate(leaseRange, w)
    BY <2>1, VisibleApart
  <2>3. ASSUME NEW va \in (table.first * Page)..(table.last * Page)
        PROVE  Separate(leaseRange, [offset |-> PteOffset(Gart, table, table.root, va), bytes |-> EntryBytes])
    <3>1. table \in [root : Word, first : Word, last : Word] /\ Memory0.physicalBase \in Int
      BY MemoryKnown DEF LayoutInv
    <3>2. Gart.physicalBase = Memory0.physicalBase
      BY DEF Gart
    <3>3. /\ PteOffset(Gart, table, table.root, va) \in Int
          /\ table.root - Memory0.physicalBase <= PteOffset(Gart, table, table.root, va)
          /\ PteOffset(Gart, table, table.root, va) + EntryBytes
               <= table.root - Memory0.physicalBase + TableBytes(table)
      BY <3>1, <3>2, EntryInTable
    <3>4. table.root - Memory0.physicalBase \in Int /\ TableBytes(table) \in Int /\ EntryBytes \in Int
      BY <3>1, WordAssumption, Z3 DEF TableBytes, Word
    <3> QED
      BY <2>1, <3>3, <3>4 DEF Separate, TableRange
  <2> QED
    BY <2>1, <2>2, <2>3 DEF LeaseApart
<1> QED
  BY <1>1, LayoutInvariant, PTL

\* The queue image is one whole visible page outside every live firmware window
\* (planAddresses).
THEOREM ImageStaysApart == LayoutSpec => []ImageApart
<1>1. LayoutInv => ImageApart
  <2> SUFFICES ASSUME LayoutInv, imageRange # NoRange PROVE ImageApart
    BY DEF ImageApart
  <2>1. /\ stage = "accepted" /\ imageRange.offset \in Nat /\ imageRange.bytes = Page
        /\ Aligned(imageRange.offset) /\ Within(imageRange, Bar)
    BY DEF LayoutInv, ImageKnown
  <2>2. \A w \in Live : Separate(imageRange, w)
    BY <2>1, VisibleApart, WordAssumption
  <2> QED
    BY <2>1, <2>2 DEF ImageApart
<1> QED
  BY <1>1, LayoutInvariant, PTL

\* Every cursor stays in its pool and every range keeps two natural numbers
\* (topDownReserve never goes below zero).
THEOREM LayoutTypeCorrect == LayoutSpec => []LayoutTypeOK
<1>1. LayoutInv /\ ArenaInv => LayoutTypeOK
  <2> SUFFICES ASSUME LayoutInv, ArenaInv PROVE LayoutTypeOK
    OBVIOUS
  <2>1. limit \in 0..Logical
    <3>1. /\ {Logical, Bar, Memory0.existing} \subseteq Nat /\ limit \in Int
          /\ (limit # 0 => Bar <= limit /\ limit <= Logical - Memory0.existing)
      BY MemoryKnown DEF LayoutInv, BootKnown, TailKept, Memory, Word
    <3> QED
      BY <3>1
  <2>2. others \subseteq Range
    BY DEF ArenaInv, OthersKnown
  <2> QED
    BY <2>1, <2>2 DEF LayoutTypeOK, ArenaInv, CursorKnown, PredictedKnown, ArenaKnown, RangeKnown
<1> QED
  BY <1>1, ArenaInvariant, PTL

\* Nobody is given memory that somebody else has: the lease, the arena the
\* manager was left with and the queue image, for every native allocator that
\* does not give one range to two of its own clients (predictNativeVmmRange and
\* the comparison after nativeVmm).
THEOREM RangesStayApart == LayoutSpec => []RangesApart
<1>1. LayoutInv /\ ArenaInv => ArenaApart
  <2> SUFFICES ASSUME LayoutInv, ArenaInv, stage = "accepted" PROVE ArenaApart
    BY DEF ArenaApart
  <2>1. Within(vmm, Logical) /\ vmm.offset = predicted.offset
    BY DEF ArenaInv, ArenaKnown
  <2>2. native.total > native.visible => vmm.offset >= native.visible
    BY <2>1 DEF ArenaInv, PredictedKnown
  <2>3. \A o \in others : Separate(vmm, o)
    BY <2>1 DEF ArenaInv, ArenaKnown
  <2> QED
    BY <2>1, <2>2, <2>3 DEF ArenaApart
<1> QED
  BY <1>1, LeaseStaysApart, ImageStaysApart, ArenaInvariant, PTL DEF RangesApart

-----------------------------------------------------------------------------
(***************************************************************************)
(* The start of the queue: what each place of the call knows.              *)
(***************************************************************************)
Before == {"preflight", "ingress", "ingressCheck", "dequeuePoll", "clear", "idleCheck",
           "pointerCheck", "admit", "image"}
Setup  == {"begin", "haltCheck", "zero", "zeroCheck", "abandon", "abandonCheck", "expected"}
Owning == {"zero", "zeroCheck", "abandon", "abandonCheck", "expected"}
Quiet  == ~hqd.ingress /\ ~hqd.active /\ ~hqd.dequeue /\ ~hqd.rptr /\ ~hqd.wptr

\* What the call knows of the queue where it enters Apple's code.
QueueKnown ==
  /\ pc \in Setup => restore
  /\ pc = "image" => Quiet
  /\ pc = "native" /\ ~restore /\ ~entered => Quiet

\* Who owns the control word.
WordKnown ==
  /\ pc \in Before \cup {"begin"} => tx.saved = NoWord
  /\ pc \in Owning \cup {"probe", "releaseCheck", "contain"} => tx.held
  /\ pc = "haltCheck" => tx.saved # NoWord
  /\ pc \in {"native", "result"} => tx.held \/ tx.saved = NoWord
  /\ tx.saved # NoWord /\ ~tx.held /\ pc # "haltCheck" => mec = tx.saved

\* A probe enters Apple's code with the MEC halted and the guard armed, and unless
\* a write went past the guard it is halted all along.
ProbeKnown ==
  mode = 3 =>
    /\ result # "started" /\ (entered /\ ~stray => mec = "halt")
    /\ pc \in {"zero", "zeroCheck", "expected", "native", "result", "probe"} =>
         tx.held /\ (~stray => mec = "halt")
    /\ pc = "native" => armed
    /\ pc \notin {"finish", "eopCheck", "releaseCheck", "contain"}
    /\ pc \in Before \cup Setup => ~entered
    /\ entered /\ pc = "idle" /\ ~gone =>
         (ignores # "mec" => mec = "halt") /\ (ignores # "ingress" => ~hqd.ingress)

KiqInv == TypeOK /\ QueueKnown /\ WordKnown /\ ProbeKnown

\* Places past the native call.
Ended == {"result", "probe", "releaseCheck", "contain", "finish", "eopCheck"}

\* Outside a call the selector is back, while the bus is there to put it back.
SelectorKnown == pc \in {"idle", "preflight"} /\ ~gone => ~selector

\* What the call knows of the queue on its way to report a start.
ReturnKnown ==
  /\ result = "started" => pc = "idle"
  /\ pc \in Before => ~restore
  /\ pc = "eopCheck" => ~restore
  /\ pc \in {"native", "result"} /\ mode = 2 /\ restore => tx.held
  /\ pc \in {"finish", "eopCheck"} \/ result = "started" => ~tx.held
  /\ pc \in {"releaseCheck", "finish"} \/ result = "started" =>
       (mode = 2 /\ restore => /\ hqd.active /\ ~hqd.dequeue /\ hqd.made = "exact" /\ hqd.eop
                               /\ tx.saved # NoWord)
  /\ result = "started" /\ CpSurgery /\ ~restore => hqd.eop

\* What a call knows before it enters Apple's code, where nothing changes beneath it.
SetupKnown ==
  /\ mishaps \in Nat
  /\ pc = "haltCheck" => ~tx.held
  /\ pc \in Ended => entered
  /\ mishaps = 0 => ~gone /\ (pc \in Setup => tx.pq = pq)
  /\ SetupFailureRestores

\* What the call knows of the MEC while its control word is in hand, where stores
\* to it land.
HaltKnown ==
  ~gone /\ ignores # "mec" =>
    /\ pc \in {"haltCheck", "zero", "zeroCheck", "expected", "contain"} => mec = "halt"
    /\ pc = "abandonCheck" => mec = tx.saved
    /\ HeldMeansHalted

\* Beside KiqInv: what the outcomes of a call follow from.
OutcomeInv == SelectorKnown /\ ReturnKnown /\ SetupKnown /\ HaltKnown

-----------------------------------------------------------------------------
(***************************************************************************)
(* What a store may leave, and the kinds of values.                        *)
(***************************************************************************)

TxType == [saved : Words \cup {NoWord}, pq : 0..2, wptr : BOOLEAN, held : BOOLEAN]
Flags  == {gone, selector, restore, armed, success, entered, stray} \subseteq BOOLEAN
Values ==
  /\ mec \in Words /\ image \in {"sw", "mc", "wrong"} /\ pq \in 0..2
  /\ given \in {"sw", "mc"} /\ lease \in {"none", "owned", "withdrawn"}
  /\ result \in {"none", "started", "failed", "refused"}
SavedWhenHeld == tx.held => tx.saved # NoWord

\* A register holds its old or its new value after a store.
LEMMA Landed ==
  ASSUME NEW u, NEW o, NEW n PROVE Stored(u, o, n) \subseteq {o, n}
  BY DEF Stored

LEMMA LandedFlag ==
  ASSUME NEW u, NEW o \in BOOLEAN, NEW n \in BOOLEAN PROVE Stored(u, o, n) \subseteq BOOLEAN
  BY Landed

LEMMA LandedWord ==
  ASSUME NEW w \in Words, mec \in Words PROVE MecStored(w) \subseteq Words
  BY Landed DEF MecStored, Words

\* A halted MEC stays halted by a store of the halt word, whatever is lost.
LEMMA StaysHalted == mec = "halt" => MecStored("halt") = {"halt"}
  BY DEF MecStored, Stored, Words

LEMMA FieldFlags ==
  ASSUME NEW q \in Queue
  PROVE  {q.ingress, q.active, q.dequeue, q.rptr, q.wptr, q.eop} \subseteq BOOLEAN
  BY DEF Queue

\* Registers of the queue are single bits, and stores keep them so.
LEMMA QueueStored ==
  ASSUME NEW q \in Queue, NEW a \in BOOLEAN, NEW d \in BOOLEAN, NEW r \in BOOLEAN, NEW w \in BOOLEAN
  PROVE  /\ [q EXCEPT !.ingress = a] \in Queue
         /\ [q EXCEPT !.dequeue = d] \in Queue
         /\ [q EXCEPT !.eop = a] \in Queue
         /\ [q EXCEPT !.rptr = r, !.wptr = w] \in Queue
         /\ [q EXCEPT !.active = a, !.dequeue = d, !.rptr = r, !.wptr = w] \in Queue
  BY DEF Queue

-----------------------------------------------------------------------------
(***************************************************************************)
(* Types.                                                                  *)
(***************************************************************************)

\* The queue registers keep their type.
LEMMA QueueTyped == ASSUME KiqInv, [Next]_vars PROVE hqd' \in Queue
<1>1. CASE Drain \/ Fetch \/ Submit \/ Mishap
  BY <1>1 DEF KiqInv, TypeOK, Queue, Drain, Fetch, Submit, Mishap, untouched, memory,
    bootVars, callVars, gpu
<1>2. CASE Call
  BY <1>2 DEF KiqInv, TypeOK, Queue, Call, NoTx, untouched, memory, bootVars, callVars, gpu
<1>3. CASE Prepare
  <2>1. CASE Preflight
    BY <2>1 DEF KiqInv, TypeOK, Queue, Preflight, Select, untouched, memory, bootVars,
      callVars, gpu
  <2>2. CASE CloseIngress
    <3>1. CASE UNCHANGED hqd
      BY <3>1 DEF KiqInv, TypeOK
    <3>2. CASE \E on \in Stored("ingress", hqd.ingress, FALSE) : hqd' = [hqd EXCEPT !.ingress = on]
      <4>1. PICK on \in Stored("ingress", hqd.ingress, FALSE) : hqd' = [hqd EXCEPT !.ingress = on]
        BY <3>2
      <4>2. hqd \in Queue /\ {hqd.ingress, hqd.dequeue, hqd.rptr, hqd.wptr, hqd.eop} \subseteq BOOLEAN
        BY FieldFlags DEF KiqInv, TypeOK
      <4>3. on \in BOOLEAN
        BY LandedFlag, <4>1, <4>2
      <4> QED
        BY QueueStored, <4>1, <4>2, <4>3
    <3> QED
      BY <3>1, <3>2, <2>2 DEF CloseIngress, Goto, Refuse, Select
  <2>3. CASE IngressCheck
    <3>1. CASE UNCHANGED hqd
      BY <3>1 DEF KiqInv, TypeOK
    <3>2. CASE \E on \in Stored("dequeue", hqd.dequeue, TRUE) : hqd' = [hqd EXCEPT !.dequeue = on]
      <4>1. PICK on \in Stored("dequeue", hqd.dequeue, TRUE) : hqd' = [hqd EXCEPT !.dequeue = on]
        BY <3>2
      <4>2. hqd \in Queue /\ {hqd.ingress, hqd.dequeue, hqd.rptr, hqd.wptr, hqd.eop} \subseteq BOOLEAN
        BY FieldFlags DEF KiqInv, TypeOK
      <4>3. on \in BOOLEAN
        BY LandedFlag, <4>1, <4>2
      <4> QED
        BY QueueStored, <4>1, <4>2, <4>3
    <3> QED
      BY <3>1, <3>2, <2>3 DEF IngressCheck, Goto, Refuse, Select
  <2>4. CASE DequeuePoll
    BY <2>4 DEF KiqInv, TypeOK, Queue, DequeuePoll, Goto, Refuse, Select, untouched, memory,
      bootVars, callVars, gpu
  <2>5. CASE ClearRequest
    <3>1. CASE UNCHANGED hqd
      BY <3>1 DEF KiqInv, TypeOK
    <3>2. CASE \E on \in Stored("dequeue", hqd.dequeue, FALSE) : hqd' = [hqd EXCEPT !.dequeue = on]
      <4>1. PICK on \in Stored("dequeue", hqd.dequeue, FALSE) : hqd' = [hqd EXCEPT !.dequeue = on]
        BY <3>2
      <4>2. hqd \in Queue /\ {hqd.ingress, hqd.dequeue, hqd.rptr, hqd.wptr, hqd.eop} \subseteq BOOLEAN
        BY FieldFlags DEF KiqInv, TypeOK
      <4>3. on \in BOOLEAN
        BY LandedFlag, <4>1, <4>2
      <4> QED
        BY QueueStored, <4>1, <4>2, <4>3
    <3> QED
      BY <3>1, <3>2, <2>5 DEF ClearRequest, Goto
  <2>6. CASE IdleCheck
    <3>1. CASE UNCHANGED hqd
      BY <3>1 DEF KiqInv, TypeOK
    <3>2. CASE \E r \in Stored("rptr", hqd.rptr, FALSE), w \in Stored("wptr", hqd.wptr, FALSE) :
                  hqd' = [hqd EXCEPT !.rptr = r, !.wptr = w]
      <4>1. PICK r \in Stored("rptr", hqd.rptr, FALSE), w \in Stored("wptr", hqd.wptr, FALSE) :
                  hqd' = [hqd EXCEPT !.rptr = r, !.wptr = w]
        BY <3>2
      <4>2. hqd \in Queue /\ {hqd.ingress, hqd.dequeue, hqd.rptr, hqd.wptr, hqd.eop} \subseteq BOOLEAN
        BY FieldFlags DEF KiqInv, TypeOK
      <4>3. r \in BOOLEAN /\ w \in BOOLEAN
        BY LandedFlag, <4>1, <4>2
      <4> QED
        BY QueueStored, <4>1, <4>2, <4>3
    <3> QED
      BY <3>1, <3>2, <2>6 DEF IdleCheck, Busy, Pointed, Goto, Refuse, Select
  <2>7. CASE PointerCheck
    BY <2>7 DEF KiqInv, TypeOK, Queue, PointerCheck, Busy, Pointed, Goto, Refuse, Select,
      untouched, memory, bootVars, callVars, gpu
  <2>8. CASE WriteImage
    BY <2>8 DEF KiqInv, TypeOK, Queue, WriteImage, Refuse, Select, untouched, memory,
      bootVars, callVars, gpu
  <2>9. CASE Admit
    BY <2>9 DEF KiqInv, TypeOK, Queue, Admit, Goto, Refuse, Select, untouched, memory,
      bootVars, callVars, gpu
  <2> QED
    BY <1>3, <2>1, <2>2, <2>3, <2>4, <2>5, <2>6, <2>7, <2>8, <2>9 DEF Prepare
<1>4. CASE Halted
  <2>1. CASE Begin
    BY <2>1 DEF KiqInv, TypeOK, Queue, Begin, Goto, Refuse, Select, untouched, memory,
      bootVars, callVars, gpu
  <2>2. CASE HaltCheck
    BY <2>2 DEF KiqInv, TypeOK, Queue, HaltCheck, Goto, Refuse, Select, untouched, memory,
      bootVars, callVars, gpu
  <2>3. CASE ZeroQueue
    <3>1. PICK a \in Stored("active", hqd.active, FALSE), d \in Stored("dequeue", hqd.dequeue, FALSE),
               r \in Stored("rptr", hqd.rptr, FALSE),
               w \in IF mode = 3 THEN {hqd.wptr} ELSE Stored("wptr", hqd.wptr, FALSE) :
                 hqd' = [hqd EXCEPT !.active = a, !.dequeue = d, !.rptr = r, !.wptr = w]
      BY <2>3 DEF ZeroQueue
    <3>2. hqd \in Queue /\ {hqd.active, hqd.dequeue, hqd.rptr, hqd.wptr} \subseteq BOOLEAN
      BY FieldFlags DEF KiqInv, TypeOK
    <3>3. a \in BOOLEAN /\ d \in BOOLEAN /\ r \in BOOLEAN
      BY LandedFlag, <3>1, <3>2
    <3>4. w \in BOOLEAN
      <4>1. CASE mode = 3
        BY <3>1, <3>2, <4>1
      <4>2. CASE mode # 3
        BY LandedFlag, <3>1, <3>2, <4>2
      <4> QED
        BY <4>1, <4>2
    <3> QED
      BY QueueStored, <3>1, <3>2, <3>3, <3>4
  <2>4. CASE ZeroCheck
    BY <2>4 DEF KiqInv, TypeOK, Queue, ZeroCheck, Goto, untouched, memory, bootVars,
      callVars, gpu
  <2>5. CASE Abandon
    BY <2>5 DEF KiqInv, TypeOK, Queue, Abandon, Goto, untouched, memory, bootVars, callVars,
      gpu
  <2>6. CASE AbandonCheck
    BY <2>6 DEF KiqInv, TypeOK, Queue, AbandonCheck, Refuse, Select, untouched, memory,
      bootVars, callVars, gpu
  <2>7. CASE CompareExpected
    BY <2>7 DEF KiqInv, TypeOK, Queue, CompareExpected, Goto, Refuse, Select, untouched,
      memory, bootVars, callVars, gpu
  <2> QED
    BY <1>4, <2>1, <2>2, <2>3, <2>4, <2>5, <2>6, <2>7 DEF Halted
<1>5. CASE Native
  BY <1>5 DEF KiqInv, TypeOK, Queue, Native, NativeControl, NativeProgram, NativeReturn,
    Effective, Select, untouched, memory, bootVars, callVars, gpu
<1>6. CASE After
  <2>1. CASE Result
    BY <2>1 DEF KiqInv, TypeOK, Queue, Result, Goto, untouched, memory, bootVars, callVars,
      gpu
  <2>2. CASE Probe
    <3>1. CASE UNCHANGED hqd
      BY <3>1 DEF KiqInv, TypeOK
    <3>2. CASE \E on \in Stored("ingress", hqd.ingress, FALSE) : hqd' = [hqd EXCEPT !.ingress = on]
      <4>1. PICK on \in Stored("ingress", hqd.ingress, FALSE) : hqd' = [hqd EXCEPT !.ingress = on]
        BY <3>2
      <4>2. hqd \in Queue /\ {hqd.ingress, hqd.dequeue, hqd.rptr, hqd.wptr, hqd.eop} \subseteq BOOLEAN
        BY FieldFlags DEF KiqInv, TypeOK
      <4>3. on \in BOOLEAN
        BY LandedFlag, <4>1, <4>2
      <4> QED
        BY QueueStored, <4>1, <4>2, <4>3
    <3> QED
      BY <3>1, <3>2, <2>2 DEF Probe, Refuse, Select
  <2>3. CASE ReleaseCheck
    BY <2>3 DEF KiqInv, TypeOK, Queue, ReleaseCheck, Goto, untouched, memory, bootVars,
      callVars, gpu
  <2>4. CASE Contain
    <3>1. CASE UNCHANGED hqd
      BY <3>1 DEF KiqInv, TypeOK
    <3>2. CASE \E on \in Stored("ingress", hqd.ingress, FALSE) : hqd' = [hqd EXCEPT !.ingress = on]
      <4>1. PICK on \in Stored("ingress", hqd.ingress, FALSE) : hqd' = [hqd EXCEPT !.ingress = on]
        BY <3>2
      <4>2. hqd \in Queue /\ {hqd.ingress, hqd.dequeue, hqd.rptr, hqd.wptr, hqd.eop} \subseteq BOOLEAN
        BY FieldFlags DEF KiqInv, TypeOK
      <4>3. on \in BOOLEAN
        BY LandedFlag, <4>1, <4>2
      <4> QED
        BY QueueStored, <4>1, <4>2, <4>3
    <3> QED
      BY <3>1, <3>2, <2>4 DEF Contain, Refuse, Select
  <2>5. CASE Finish
    <3>1. CASE UNCHANGED hqd
      BY <3>1 DEF KiqInv, TypeOK
    <3>2. CASE \E e \in Stored("eop", hqd.eop, TRUE) : hqd' = [hqd EXCEPT !.eop = e]
      <4>1. PICK e \in Stored("eop", hqd.eop, TRUE) : hqd' = [hqd EXCEPT !.eop = e]
        BY <3>2
      <4>2. hqd \in Queue /\ {hqd.ingress, hqd.dequeue, hqd.rptr, hqd.wptr, hqd.eop} \subseteq BOOLEAN
        BY FieldFlags DEF KiqInv, TypeOK
      <4>3. e \in BOOLEAN
        BY LandedFlag, <4>1, <4>2
      <4> QED
        BY QueueStored, <4>1, <4>2, <4>3
    <3> QED
      BY <3>1, <3>2, <2>5 DEF Finish, Goto, Return, Select
  <2>6. CASE EopCheck
    BY <2>6 DEF KiqInv, TypeOK, Queue, EopCheck, Return, Refuse, Select, untouched, memory,
      bootVars, callVars, gpu
  <2> QED
    BY <1>6, <2>1, <2>2, <2>3, <2>4, <2>5, <2>6 DEF After
<1>7. CASE UNCHANGED vars
  BY <1>7 DEF KiqInv, TypeOK, Queue, vars, untouched, memory, bootVars, callVars, gpu
<1> QED
  BY <1>1, <1>2, <1>3, <1>4, <1>5, <1>6, <1>7 DEF Next

\* The transaction keeps its type.
LEMMA TxTyped == ASSUME KiqInv, [Next]_vars PROVE (tx \in TxType)'
<1>1. CASE Drain \/ Fetch \/ Submit \/ Mishap
  BY FieldFlags, <1>1 DEF KiqInv, TypeOK, TxType, Words, Drain, Fetch, Submit, Mishap,
    untouched, memory, bootVars, callVars, gpu
<1>2. CASE Call
  BY FieldFlags, <1>2 DEF KiqInv, TypeOK, TxType, Words, Call, NoTx, untouched, memory,
    bootVars, callVars, gpu
<1>3. CASE Prepare
  BY FieldFlags, <1>3 DEF KiqInv, TypeOK, TxType, Words, Prepare, Preflight, CloseIngress,
    IngressCheck, DequeuePoll, ClearRequest, IdleCheck, PointerCheck, WriteImage, Admit,
    Select, Goto, Refuse, Busy, Pointed, untouched, memory, bootVars, callVars, gpu
<1>4. CASE Halted
  BY FieldFlags, <1>4 DEF KiqInv, TypeOK, TxType, Words, Halted, Begin, HaltCheck, ZeroQueue,
    ZeroCheck, Abandon, AbandonCheck, CompareExpected, Goto, Refuse, Select, untouched,
    memory, bootVars, callVars, gpu
<1>5. CASE Native
  BY FieldFlags, <1>5 DEF KiqInv, TypeOK, TxType, Words, Native, NativeControl,
    NativeProgram, NativeReturn, Effective, Select, untouched, memory, bootVars, callVars,
    gpu
<1>6. CASE After
  BY FieldFlags, <1>6 DEF KiqInv, TypeOK, TxType, Words, After, Result, Probe, ReleaseCheck,
    Contain, Finish, EopCheck, Goto, Refuse, Select, Return, untouched, memory, bootVars,
    callVars, gpu
<1>7. CASE UNCHANGED vars
  BY <1>7 DEF KiqInv, TypeOK, TxType, Words, vars, untouched, memory, bootVars, callVars, gpu
<1> QED
  BY <1>1, <1>2, <1>3, <1>4, <1>5, <1>6, <1>7 DEF Next

\* Flags stay flags.
LEMMA FlagsTyped == ASSUME KiqInv, [Next]_vars PROVE Flags'
<1>1. CASE Drain \/ Fetch \/ Submit \/ Mishap
  BY <1>1 DEF KiqInv, TypeOK, Flags, Drain, Fetch, Submit, Mishap, untouched, memory,
    bootVars, callVars, gpu
<1>2. CASE Call
  BY <1>2 DEF KiqInv, TypeOK, Flags, Call, NoTx, untouched, memory, bootVars, callVars, gpu
<1>3. CASE Prepare
  <2>1. CASE Preflight
    BY <2>1 DEF KiqInv, TypeOK, Flags, Preflight, Select, untouched, memory, bootVars,
      callVars, gpu
  <2>2. CASE CloseIngress
    BY <2>2 DEF KiqInv, TypeOK, Flags, CloseIngress, Goto, Refuse, Select, untouched, memory,
      bootVars, callVars, gpu
  <2>3. CASE IngressCheck
    BY <2>3 DEF KiqInv, TypeOK, Flags, IngressCheck, Goto, Refuse, Select, untouched, memory,
      bootVars, callVars, gpu
  <2>4. CASE DequeuePoll
    BY <2>4 DEF KiqInv, TypeOK, Flags, DequeuePoll, Goto, Refuse, Select, untouched, memory,
      bootVars, callVars, gpu
  <2>5. CASE ClearRequest
    BY <2>5 DEF KiqInv, TypeOK, Flags, ClearRequest, Goto, untouched, memory, bootVars,
      callVars, gpu
  <2>6. CASE IdleCheck
    BY <2>6 DEF KiqInv, TypeOK, Flags, IdleCheck, Busy, Pointed, Goto, Refuse, Select,
      untouched, memory, bootVars, callVars, gpu
  <2>7. CASE PointerCheck
    BY <2>7 DEF KiqInv, TypeOK, Flags, PointerCheck, Busy, Pointed, Goto, Refuse, Select,
      untouched, memory, bootVars, callVars, gpu
  <2>8. CASE WriteImage
    BY <2>8 DEF KiqInv, TypeOK, Flags, WriteImage, Refuse, Select, untouched, memory,
      bootVars, callVars, gpu
  <2>9. CASE Admit
    <3>1. Eligible \in BOOLEAN
      BY Zenon DEF Eligible
    <3>2. selector' \in BOOLEAN
      BY <2>9 DEF KiqInv, TypeOK, Admit, Goto, Refuse, Select
    <3>3. restore' = Eligible /\ UNCHANGED <<gone, armed, success, entered, stray>>
      BY <2>9 DEF Admit, untouched
    <3> QED
      BY <3>1, <3>2, <3>3 DEF KiqInv, TypeOK, Flags
  <2> QED
    BY <1>3, <2>1, <2>2, <2>3, <2>4, <2>5, <2>6, <2>7, <2>8, <2>9 DEF Prepare
<1>4. CASE Halted
  BY <1>4 DEF KiqInv, TypeOK, Flags, Halted, Begin, HaltCheck, ZeroQueue, ZeroCheck, Abandon,
    AbandonCheck, CompareExpected, Goto, Refuse, Select, untouched, memory, bootVars,
    callVars, gpu
<1>5. CASE Native
  BY <1>5 DEF KiqInv, TypeOK, Flags, Native, NativeControl, NativeProgram, NativeReturn,
    Effective, Select, untouched, memory, bootVars, callVars, gpu
<1>6. CASE After
  BY <1>6 DEF KiqInv, TypeOK, Flags, After, Result, Probe, ReleaseCheck, Contain, Finish,
    EopCheck, Goto, Refuse, Select, Return, untouched, memory, bootVars, callVars, gpu
<1>7. CASE UNCHANGED vars
  BY <1>7 DEF KiqInv, TypeOK, Flags, vars, untouched, memory, bootVars, callVars, gpu
<1> QED
  BY <1>1, <1>2, <1>3, <1>4, <1>5, <1>6, <1>7 DEF Next

\* The enumerated variables keep their types.
LEMMA ValuesTyped == ASSUME KiqInv, [Next]_vars PROVE Values'
<1>1. CASE Drain \/ Fetch \/ Submit \/ Mishap
  BY LandedWord, <1>1 DEF KiqInv, TypeOK, Values, Words, Drain, Fetch, Submit, Mishap,
    untouched, memory, bootVars, callVars, gpu
<1>2. CASE Call
  BY LandedWord, <1>2 DEF KiqInv, TypeOK, Values, Words, Call, NoTx, untouched, memory,
    bootVars, callVars, gpu
<1>3. CASE Prepare
  <2>1. CASE Preflight
    BY LandedWord, <2>1 DEF KiqInv, TypeOK, Values, Words, Preflight, Select, untouched,
      memory, bootVars, callVars, gpu
  <2>2. CASE CloseIngress
    BY LandedWord, <2>2 DEF KiqInv, TypeOK, Values, Words, CloseIngress, Goto, Refuse,
      Select, untouched, memory, bootVars, callVars, gpu
  <2>3. CASE IngressCheck
    BY LandedWord, <2>3 DEF KiqInv, TypeOK, Values, Words, IngressCheck, Goto, Refuse,
      Select, untouched, memory, bootVars, callVars, gpu
  <2>4. CASE DequeuePoll
    BY LandedWord, <2>4 DEF KiqInv, TypeOK, Values, Words, DequeuePoll, Goto, Refuse, Select,
      untouched, memory, bootVars, callVars, gpu
  <2>5. CASE ClearRequest
    BY LandedWord, <2>5 DEF KiqInv, TypeOK, Values, Words, ClearRequest, Goto, untouched,
      memory, bootVars, callVars, gpu
  <2>6. CASE IdleCheck
    BY LandedWord, <2>6 DEF KiqInv, TypeOK, Values, Words, IdleCheck, Busy, Pointed, Goto,
      Refuse, Select, untouched, memory, bootVars, callVars, gpu
  <2>7. CASE PointerCheck
    BY LandedWord, <2>7 DEF KiqInv, TypeOK, Values, Words, PointerCheck, Busy, Pointed, Goto,
      Refuse, Select, untouched, memory, bootVars, callVars, gpu
  <2>8. CASE WriteImage
    BY LandedWord, <2>8 DEF KiqInv, TypeOK, Values, Words, WriteImage, Refuse, Select,
      untouched, memory, bootVars, callVars, gpu
  <2>9. CASE Admit
    BY LandedWord, <2>9 DEF KiqInv, TypeOK, Values, Words, Admit, Goto, Refuse, Select,
      untouched, memory, bootVars, callVars, gpu
  <2> QED
    BY <1>3, <2>1, <2>2, <2>3, <2>4, <2>5, <2>6, <2>7, <2>8, <2>9 DEF Prepare
<1>4. CASE Halted
  <2>1. CASE Begin
    BY LandedWord, <2>1 DEF KiqInv, TypeOK, Values, Words, Begin, Goto, Refuse, Select,
      untouched, memory, bootVars, callVars, gpu
  <2>2. CASE HaltCheck
    BY LandedWord, <2>2 DEF KiqInv, TypeOK, Values, Words, HaltCheck, Goto, Refuse, Select,
      untouched, memory, bootVars, callVars, gpu
  <2>3. CASE ZeroQueue
    BY LandedWord, <2>3 DEF KiqInv, TypeOK, Values, Words, ZeroQueue, Goto, untouched,
      memory, bootVars, callVars, gpu
  <2>4. CASE ZeroCheck
    BY LandedWord, <2>4 DEF KiqInv, TypeOK, Values, Words, ZeroCheck, Goto, untouched,
      memory, bootVars, callVars, gpu
  <2>5. CASE Abandon
    <3>1. tx.saved \in Words
      BY <2>5 DEF KiqInv, TypeOK, WordKnown, Owning, Abandon
    <3> QED
      BY LandedWord, <3>1, <2>5 DEF KiqInv, TypeOK, Values, Words, Abandon, Goto, untouched, memory, bootVars, callVars, gpu
  <2>6. CASE AbandonCheck
    BY LandedWord, <2>6 DEF KiqInv, TypeOK, Values, Words, AbandonCheck, Refuse, Select,
      untouched, memory, bootVars, callVars, gpu
  <2>7. CASE CompareExpected
    BY LandedWord, <2>7 DEF KiqInv, TypeOK, Values, Words, CompareExpected, Goto, Refuse,
      Select, untouched, memory, bootVars, callVars, gpu
  <2> QED
    BY <1>4, <2>1, <2>2, <2>3, <2>4, <2>5, <2>6, <2>7 DEF Halted
<1>5. CASE Native
  BY LandedWord, <1>5 DEF KiqInv, TypeOK, Values, Words, Native, NativeControl,
    NativeProgram, NativeReturn, Effective, Select, untouched, memory, bootVars, callVars,
    gpu
<1>6. CASE After
  <2>1. CASE Result
    BY LandedWord, <2>1 DEF KiqInv, TypeOK, Values, Words, Result, Goto, untouched, memory,
      bootVars, callVars, gpu
  <2>2. CASE Probe
    BY LandedWord, <2>2 DEF KiqInv, TypeOK, Values, Words, Probe, Refuse, Select, untouched,
      memory, bootVars, callVars, gpu
  <2>3. CASE ReleaseCheck
    BY LandedWord, <2>3 DEF KiqInv, TypeOK, Values, Words, ReleaseCheck, Goto, untouched,
      memory, bootVars, callVars, gpu
  <2>4. CASE Contain
    BY LandedWord, <2>4 DEF KiqInv, TypeOK, Values, Words, Contain, Refuse, Select,
      untouched, memory, bootVars, callVars, gpu
  <2>5. CASE Finish
    BY LandedWord, <2>5 DEF KiqInv, TypeOK, Values, Words, Finish, Goto, Return, Select,
      untouched, memory, bootVars, callVars, gpu
  <2>6. CASE EopCheck
    BY LandedWord, <2>6 DEF KiqInv, TypeOK, Values, Words, EopCheck, Return, Refuse, Select,
      untouched, memory, bootVars, callVars, gpu
  <2> QED
    BY <1>6, <2>1, <2>2, <2>3, <2>4, <2>5, <2>6 DEF After
<1>7. CASE UNCHANGED vars
  BY <1>7 DEF KiqInv, TypeOK, Values, Words, vars, untouched, memory, bootVars, callVars, gpu
<1> QED
  BY <1>1, <1>2, <1>3, <1>4, <1>5, <1>6, <1>7 DEF Next

\* The call is at one of its places.
LEMMA PcTyped == ASSUME KiqInv, [Next]_vars PROVE pc' \in Pcs
<1>1. CASE Drain \/ Fetch \/ Submit \/ Mishap
  BY <1>1 DEF KiqInv, TypeOK, Pcs, Drain, Fetch, Submit, Mishap, untouched, memory, bootVars,
    callVars, gpu
<1>2. CASE Call
  BY <1>2 DEF KiqInv, TypeOK, Pcs, Call, NoTx, untouched, memory, bootVars, callVars, gpu
<1>3. CASE Prepare
  BY <1>3 DEF KiqInv, TypeOK, Pcs, Prepare, Preflight, CloseIngress, IngressCheck,
    DequeuePoll, ClearRequest, IdleCheck, PointerCheck, WriteImage, Admit, Select, Goto,
    Refuse, Busy, Pointed, untouched, memory, bootVars, callVars, gpu
<1>4. CASE Halted
  BY <1>4 DEF KiqInv, TypeOK, Pcs, Halted, Begin, HaltCheck, ZeroQueue, ZeroCheck, Abandon,
    AbandonCheck, CompareExpected, Goto, Refuse, Select, untouched, memory, bootVars,
    callVars, gpu
<1>5. CASE Native
  BY <1>5 DEF KiqInv, TypeOK, Pcs, Native, NativeControl, NativeProgram, NativeReturn,
    Effective, Select, untouched, memory, bootVars, callVars, gpu
<1>6. CASE After
  BY <1>6 DEF KiqInv, TypeOK, Pcs, After, Result, Probe, ReleaseCheck, Contain, Finish,
    EopCheck, Goto, Refuse, Select, Return, untouched, memory, bootVars, callVars, gpu
<1>7. CASE UNCHANGED vars
  BY <1>7 DEF KiqInv, TypeOK, Pcs, vars, untouched, memory, bootVars, callVars, gpu
<1> QED
  BY <1>1, <1>2, <1>3, <1>4, <1>5, <1>6, <1>7 DEF Next

\* A transaction that holds the control word has saved it.
LEMMA SavedStep == ASSUME KiqInv, [Next]_vars PROVE SavedWhenHeld'
<1>1. CASE Drain \/ Fetch \/ Submit \/ Mishap
  BY <1>1 DEF KiqInv, TypeOK, SavedWhenHeld, WordKnown, Owning, NoTx, NoWord, Words, Drain,
    Fetch, Submit, Mishap, untouched, memory, bootVars, callVars, gpu
<1>2. CASE Call
  BY <1>2 DEF KiqInv, TypeOK, SavedWhenHeld, WordKnown, Owning, NoTx, NoWord, Words, Call,
    NoTx, untouched, memory, bootVars, callVars, gpu
<1>3. CASE Prepare
  BY <1>3 DEF KiqInv, TypeOK, SavedWhenHeld, WordKnown, Owning, NoTx, NoWord, Words, Prepare,
    Preflight, CloseIngress, IngressCheck, DequeuePoll, ClearRequest, IdleCheck,
    PointerCheck, WriteImage, Admit, Select, Goto, Refuse, Busy, Pointed, untouched, memory,
    bootVars, callVars, gpu
<1>4. CASE Halted
  BY <1>4 DEF KiqInv, TypeOK, SavedWhenHeld, WordKnown, Owning, NoTx, NoWord, Words, Halted,
    Begin, HaltCheck, ZeroQueue, ZeroCheck, Abandon, AbandonCheck, CompareExpected, Goto,
    Refuse, Select, untouched, memory, bootVars, callVars, gpu
<1>5. CASE Native
  BY <1>5 DEF KiqInv, TypeOK, SavedWhenHeld, WordKnown, Owning, NoTx, NoWord, Words, Native,
    NativeControl, NativeProgram, NativeReturn, Effective, Select, untouched, memory,
    bootVars, callVars, gpu
<1>6. CASE After
  BY <1>6 DEF KiqInv, TypeOK, SavedWhenHeld, WordKnown, Owning, NoTx, NoWord, Words, After,
    Result, Probe, ReleaseCheck, Contain, Finish, EopCheck, Goto, Refuse, Select, Return,
    untouched, memory, bootVars, callVars, gpu
<1>7. CASE UNCHANGED vars
  BY <1>7 DEF KiqInv, TypeOK, SavedWhenHeld, WordKnown, Owning, NoTx, NoWord, Words, vars,
    untouched, memory, bootVars, callVars, gpu
<1> QED
  BY <1>1, <1>2, <1>3, <1>4, <1>5, <1>6, <1>7 DEF Next

-----------------------------------------------------------------------------
(***************************************************************************)
(* What the call knows.                                                    *)
(***************************************************************************)

\* The queue is quiet where Apple's code is entered without a halted MEC.
LEMMA QueueKnownStep == ASSUME KiqInv, [Next]_vars PROVE QueueKnown'
<1>1. CASE Drain \/ Fetch \/ Submit \/ Mishap
  BY <1>1 DEF KiqInv, QueueKnown, Quiet, Setup, Drain, Fetch, Submit, Mishap, untouched,
    memory, bootVars, callVars, gpu
<1>2. CASE Call
  BY <1>2 DEF KiqInv, QueueKnown, Quiet, Setup, Call, NoTx, untouched, memory, bootVars,
    callVars, gpu
<1>3. CASE Prepare
  <2>1. CASE Preflight
    BY <2>1 DEF KiqInv, QueueKnown, Quiet, Setup, Preflight, Select, untouched, memory,
      bootVars, callVars, gpu
  <2>2. CASE CloseIngress
    BY <2>2 DEF KiqInv, QueueKnown, Quiet, Setup, CloseIngress, Goto, Refuse, Select,
      untouched, memory, bootVars, callVars, gpu
  <2>3. CASE IngressCheck
    BY <2>3 DEF KiqInv, QueueKnown, Quiet, Setup, IngressCheck, Goto, Refuse, Select,
      untouched, memory, bootVars, callVars, gpu
  <2>4. CASE DequeuePoll
    BY <2>4 DEF KiqInv, QueueKnown, Quiet, Setup, DequeuePoll, Goto, Refuse, Select,
      untouched, memory, bootVars, callVars, gpu
  <2>5. CASE ClearRequest
    BY <2>5 DEF KiqInv, QueueKnown, Quiet, Setup, ClearRequest, Goto, untouched, memory,
      bootVars, callVars, gpu
  <2>6. CASE IdleCheck
    BY <2>6 DEF KiqInv, QueueKnown, Quiet, Setup, IdleCheck, Busy, Pointed, Goto, Refuse,
      Select, untouched, memory, bootVars, callVars, gpu
  <2>7. CASE PointerCheck
    BY <2>7 DEF KiqInv, QueueKnown, Quiet, Setup, PointerCheck, Busy, Pointed, Goto, Refuse,
      Select, untouched, memory, bootVars, callVars, gpu
  <2>8. CASE WriteImage
    BY <2>8 DEF KiqInv, QueueKnown, Quiet, Setup, WriteImage, Refuse, Select, untouched,
      memory, bootVars, callVars, gpu
  <2>9. CASE Admit
    BY <2>9 DEF KiqInv, QueueKnown, Quiet, Setup, Admit, Goto, Refuse, Select, untouched,
      memory, bootVars, callVars, gpu
  <2> QED
    BY <1>3, <2>1, <2>2, <2>3, <2>4, <2>5, <2>6, <2>7, <2>8, <2>9 DEF Prepare
<1>4. CASE Halted
  BY <1>4 DEF KiqInv, QueueKnown, Quiet, Setup, Halted, Begin, HaltCheck, ZeroQueue,
    ZeroCheck, Abandon, AbandonCheck, CompareExpected, Goto, Refuse, Select, untouched,
    memory, bootVars, callVars, gpu
<1>5. CASE Native
  BY <1>5 DEF KiqInv, QueueKnown, Quiet, Setup, Native, NativeControl, NativeProgram,
    NativeReturn, Effective, Select, untouched, memory, bootVars, callVars, gpu
<1>6. CASE After
  BY <1>6 DEF KiqInv, QueueKnown, Quiet, Setup, After, Result, Probe, ReleaseCheck, Contain,
    Finish, EopCheck, Goto, Refuse, Select, Return, untouched, memory, bootVars, callVars,
    gpu
<1>7. CASE UNCHANGED vars
  BY <1>7 DEF KiqInv, QueueKnown, Quiet, Setup, vars, untouched, memory, bootVars, callVars,
    gpu
<1> QED
  BY <1>1, <1>2, <1>3, <1>4, <1>5, <1>6, <1>7 DEF Next

\* The control word is owned or given back.
LEMMA WordKnownStep == ASSUME KiqInv, [Next]_vars PROVE WordKnown'
<1>1. CASE Drain \/ Fetch \/ Submit \/ Mishap
  BY <1>1 DEF KiqInv, TypeOK, WordKnown, Before, Setup, Owning, NoTx, NoWord, Words, Drain,
    Fetch, Submit, Mishap, untouched, memory, bootVars, callVars, gpu
<1>2. CASE Call
  BY <1>2 DEF KiqInv, TypeOK, WordKnown, Before, Setup, Owning, NoTx, NoWord, Words, Call,
    NoTx, untouched, memory, bootVars, callVars, gpu
<1>3. CASE Prepare
  BY <1>3 DEF KiqInv, TypeOK, WordKnown, Before, Setup, Owning, NoTx, NoWord, Words, Prepare,
    Preflight, CloseIngress, IngressCheck, DequeuePoll, ClearRequest, IdleCheck,
    PointerCheck, WriteImage, Admit, Select, Goto, Refuse, Busy, Pointed, untouched, memory,
    bootVars, callVars, gpu
<1>4. CASE Halted
  BY <1>4 DEF KiqInv, TypeOK, WordKnown, Before, Setup, Owning, NoTx, NoWord, Words, Halted,
    Begin, HaltCheck, ZeroQueue, ZeroCheck, Abandon, AbandonCheck, CompareExpected, Goto,
    Refuse, Select, untouched, memory, bootVars, callVars, gpu
<1>5. CASE Native
  BY <1>5 DEF KiqInv, TypeOK, WordKnown, Before, Setup, Owning, NoTx, NoWord, Words, Native,
    NativeControl, NativeProgram, NativeReturn, Effective, Select, untouched, memory,
    bootVars, callVars, gpu
<1>6. CASE After
  BY <1>6 DEF KiqInv, TypeOK, WordKnown, Before, Setup, Owning, NoTx, NoWord, Words, After,
    Result, Probe, ReleaseCheck, Contain, Finish, EopCheck, Goto, Refuse, Select, Return,
    untouched, memory, bootVars, callVars, gpu
<1>7. CASE UNCHANGED vars
  BY <1>7 DEF KiqInv, TypeOK, WordKnown, Before, Setup, Owning, NoTx, NoWord, Words, vars,
    untouched, memory, bootVars, callVars, gpu
<1> QED
  BY <1>1, <1>2, <1>3, <1>4, <1>5, <1>6, <1>7 DEF Next

\* A probe keeps the MEC halted, unless a write went past the guard, and halts it again.
LEMMA ProbeKnownStep == ASSUME KiqInv, [Next]_vars PROVE ProbeKnown'
<1>1. CASE Drain \/ Fetch \/ Submit \/ Mishap
  <2>1. CASE Drain
    BY <2>1 DEF KiqInv, TypeOK, ProbeKnown, Queue, Drain, memory, bootVars, callVars
  <2>2. CASE Fetch
    BY <2>2 DEF KiqInv, TypeOK, ProbeKnown, Queue, Fetch, memory, bootVars, callVars
  <2>3. CASE Submit
    BY <2>3 DEF KiqInv, TypeOK, ProbeKnown, Queue, Submit, memory, bootVars, callVars
  <2>4. CASE Mishap
    BY <2>4 DEF KiqInv, TypeOK, ProbeKnown, Queue, Mishap, memory, bootVars, callVars
  <2> QED
    BY <1>1, <2>1, <2>2, <2>3, <2>4
<1>2. CASE Call
  BY StaysHalted, <1>2 DEF KiqInv, TypeOK, ProbeKnown, WordKnown, Before, Setup, NoWord,
    Call, NoTx, untouched, memory, bootVars, callVars, gpu
<1>3. CASE Prepare
  <2>1. CASE Preflight
    BY StaysHalted, <2>1 DEF KiqInv, TypeOK, ProbeKnown, WordKnown, Before, Setup, NoWord,
      Preflight, Select, untouched, memory, bootVars, callVars, gpu
  <2>2. CASE CloseIngress
    BY StaysHalted, <2>2 DEF KiqInv, TypeOK, ProbeKnown, WordKnown, Before, Setup, NoWord,
      CloseIngress, Goto, Refuse, Select, untouched, memory, bootVars, callVars, gpu
  <2>3. CASE IngressCheck
    BY StaysHalted, <2>3 DEF KiqInv, TypeOK, ProbeKnown, WordKnown, Before, Setup, NoWord,
      IngressCheck, Goto, Refuse, Select, untouched, memory, bootVars, callVars, gpu
  <2>4. CASE DequeuePoll
    BY StaysHalted, <2>4 DEF KiqInv, TypeOK, ProbeKnown, WordKnown, Before, Setup, NoWord,
      DequeuePoll, Goto, Refuse, Select, untouched, memory, bootVars, callVars, gpu
  <2>5. CASE ClearRequest
    BY StaysHalted, <2>5 DEF KiqInv, TypeOK, ProbeKnown, WordKnown, Before, Setup, NoWord,
      ClearRequest, Goto, untouched, memory, bootVars, callVars, gpu
  <2>6. CASE IdleCheck
    BY StaysHalted, <2>6 DEF KiqInv, TypeOK, ProbeKnown, WordKnown, Before, Setup, NoWord,
      IdleCheck, Busy, Pointed, Goto, Refuse, Select, untouched, memory, bootVars, callVars,
      gpu
  <2>7. CASE PointerCheck
    BY StaysHalted, <2>7 DEF KiqInv, TypeOK, ProbeKnown, WordKnown, Before, Setup, NoWord,
      PointerCheck, Busy, Pointed, Goto, Refuse, Select, untouched, memory, bootVars,
      callVars, gpu
  <2>8. CASE WriteImage
    BY StaysHalted, <2>8 DEF KiqInv, TypeOK, ProbeKnown, WordKnown, Before, Setup, NoWord,
      WriteImage, Refuse, Select, untouched, memory, bootVars, callVars, gpu
  <2>9. CASE Admit
    <3>1. pc = "admit" /\ UNCHANGED <<mode, mec, armed, entered, stray>>
      BY Zenon, <2>9 DEF Admit, untouched
    <3>2. (mode = 3 => ~entered /\ result # "started") /\ tx.saved = NoWord
      BY <3>1 DEF KiqInv, WordKnown, ProbeKnown, Before
    <3>3. \/ pc' = "idle" /\ result' = "refused"
          \/ mode = 1
          \/ pc' = "begin" /\ result' = result
      BY Zenon, <2>9 DEF Admit, Goto, Refuse
    <3>4. mode = 3 => mode # 1
      OBVIOUS
    <3> QED
      BY <3>1, <3>2, <3>3, <3>4 DEF KiqInv, ProbeKnown, Before, Setup
  <2> QED
    BY <1>3, <2>1, <2>2, <2>3, <2>4, <2>5, <2>6, <2>7, <2>8, <2>9 DEF Prepare
<1>4. CASE Halted
  BY StaysHalted, <1>4 DEF KiqInv, TypeOK, ProbeKnown, WordKnown, Before, Setup, NoWord,
    Halted, Begin, HaltCheck, ZeroQueue, ZeroCheck, Abandon, AbandonCheck, CompareExpected,
    Goto, Refuse, Select, untouched, memory, bootVars, callVars, gpu
<1>5. CASE Native
  BY StaysHalted, <1>5 DEF KiqInv, TypeOK, ProbeKnown, WordKnown, Before, Setup, NoWord,
    Native, NativeControl, NativeProgram, NativeReturn, Effective, Select, untouched, memory,
    bootVars, callVars, gpu
<1>6. CASE After
  <2>1. CASE Result
    BY <2>1 DEF KiqInv, TypeOK, ProbeKnown, Before, Setup, Result, Goto, untouched
  <2>2. CASE Probe
    <3>1. /\ pc' = "idle" /\ result' = "refused" /\ mec' \in MecStored("halt")
          /\ UNCHANGED <<mode, gone, ignores, entered, stray>>
      BY <2>2 DEF Probe, Refuse, untouched, gpu
    <3>2. PICK on \in Stored("ingress", hqd.ingress, FALSE) : hqd' = [hqd EXCEPT !.ingress = on]
      BY <2>2 DEF Probe
    <3>3. hqd'.ingress = on
      BY <3>2 DEF KiqInv, TypeOK, Queue
    <3>4. ~gone => (ignores # "mec" => mec' = "halt") /\ (ignores # "ingress" => ~hqd'.ingress)
      BY <3>1, <3>2, <3>3 DEF MecStored, Stored
    <3>5. mec = "halt" => mec' = "halt"
      BY StaysHalted, <3>1
    <3> QED
      BY <3>1, <3>4, <3>5, <2>2 DEF KiqInv, ProbeKnown, Before, Setup
  <2>3. CASE ReleaseCheck
    BY <2>3 DEF KiqInv, ProbeKnown, Before, Setup, ReleaseCheck, Goto, untouched
  <2>4. CASE Contain
    BY <2>4 DEF KiqInv, ProbeKnown, Before, Setup, Contain, Refuse, Select, untouched
  <2>5. CASE Finish
    BY <2>5 DEF KiqInv, ProbeKnown, Before, Setup, Finish, Goto, Return, Select, untouched
  <2>6. CASE EopCheck
    BY <2>6 DEF KiqInv, ProbeKnown, Before, Setup, EopCheck, Refuse, Return, Select, untouched
  <2> QED
    BY <1>6, <2>1, <2>2, <2>3, <2>4, <2>5, <2>6 DEF After
<1>7. CASE UNCHANGED vars
  BY <1>7 DEF KiqInv, TypeOK, ProbeKnown, WordKnown, Before, Setup, NoWord, vars, untouched,
    memory, bootVars, callVars, gpu
<1> QED
  BY <1>1, <1>2, <1>3, <1>4, <1>5, <1>6, <1>7 DEF Next

-----------------------------------------------------------------------------
(***************************************************************************)
(* Each part of OutcomeInv is kept by every step from KiqInv and           *)
(* OutcomeInv.                                                             *)
(***************************************************************************)

\* No step leaves the selector behind outside a call (GRBM_GFX_CNTL in wrapKiqStart).
LEMMA SelectorKnownStep == ASSUME KiqInv, OutcomeInv, [Next]_vars PROVE SelectorKnown'
<1>1. CASE Drain
  BY <1>1 DEF OutcomeInv, SelectorKnown, KiqInv, TypeOK, Drain, memory, bootVars, callVars
<1>2. CASE Fetch
  BY <1>2 DEF OutcomeInv, SelectorKnown, KiqInv, TypeOK, Fetch, memory, bootVars, callVars
<1>3. CASE Submit
  BY <1>3 DEF OutcomeInv, SelectorKnown, KiqInv, TypeOK, Submit, memory, bootVars, callVars
<1>4. CASE Mishap
  BY <1>4 DEF OutcomeInv, SelectorKnown, KiqInv, TypeOK, Mishap, callVars
<1>5. CASE Call
  BY <1>5 DEF OutcomeInv, SelectorKnown, KiqInv, TypeOK, Call, gpu, memory, NoTx
<1>6. CASE Preflight
  BY <1>6 DEF OutcomeInv, SelectorKnown, KiqInv, TypeOK, Preflight, Select, untouched, memory
<1>7. CASE CloseIngress
  BY <1>7 DEF OutcomeInv, SelectorKnown, KiqInv, TypeOK, CloseIngress, Goto, Refuse, Select,
    untouched, memory
<1>8. CASE IngressCheck
  BY <1>8 DEF OutcomeInv, SelectorKnown, KiqInv, TypeOK, IngressCheck, Goto, Refuse, Select,
    untouched, memory
<1>9. CASE DequeuePoll
  BY <1>9 DEF OutcomeInv, SelectorKnown, KiqInv, TypeOK, DequeuePoll, Goto, Refuse, Select,
    untouched, memory
<1>10. CASE ClearRequest
  BY <1>10 DEF OutcomeInv, SelectorKnown, KiqInv, TypeOK, ClearRequest, Goto, untouched,
    memory
<1>11. CASE IdleCheck
  BY <1>11 DEF OutcomeInv, SelectorKnown, KiqInv, TypeOK, IdleCheck, Busy, Pointed, Goto,
    Refuse, Select, untouched, memory
<1>12. CASE PointerCheck
  BY <1>12 DEF OutcomeInv, SelectorKnown, KiqInv, TypeOK, PointerCheck, Busy, Pointed, Goto,
    Refuse, Select, untouched, memory
<1>13. CASE WriteImage
  BY <1>13 DEF OutcomeInv, SelectorKnown, KiqInv, TypeOK, WriteImage, Refuse, Select,
    bootVars
<1>14. CASE Admit
  BY <1>14 DEF OutcomeInv, SelectorKnown, KiqInv, TypeOK, Admit, Goto, Refuse, Select,
    untouched, memory
<1>15. CASE Begin
  BY <1>15 DEF OutcomeInv, SelectorKnown, KiqInv, TypeOK, Begin, Goto, Refuse, Select,
    untouched, memory
<1>16. CASE HaltCheck
  BY <1>16 DEF OutcomeInv, SelectorKnown, KiqInv, TypeOK, HaltCheck, Goto, Refuse, Select,
    untouched, memory
<1>17. CASE ZeroQueue
  BY <1>17 DEF OutcomeInv, SelectorKnown, KiqInv, TypeOK, ZeroQueue, Goto, untouched, memory
<1>18. CASE ZeroCheck
  BY <1>18 DEF OutcomeInv, SelectorKnown, KiqInv, TypeOK, ZeroCheck, Goto, untouched, memory
<1>19. CASE Abandon
  BY <1>19 DEF OutcomeInv, SelectorKnown, KiqInv, TypeOK, Abandon, Goto, untouched, memory
<1>20. CASE AbandonCheck
  BY <1>20 DEF OutcomeInv, SelectorKnown, KiqInv, TypeOK, AbandonCheck, Refuse, Select,
    untouched, memory
<1>21. CASE CompareExpected
  BY <1>21 DEF OutcomeInv, SelectorKnown, KiqInv, TypeOK, CompareExpected, Goto, Refuse,
    Select, untouched, memory
<1>22. CASE NativeControl
  BY <1>22 DEF OutcomeInv, SelectorKnown, KiqInv, TypeOK, NativeControl, memory, bootVars
<1>23. CASE NativeProgram
  BY <1>23 DEF OutcomeInv, SelectorKnown, KiqInv, TypeOK, NativeProgram, memory, bootVars
<1>24. CASE NativeReturn
  BY <1>24 DEF OutcomeInv, SelectorKnown, KiqInv, TypeOK, NativeReturn, Select, memory,
    bootVars
<1>25. CASE Result
  BY <1>25 DEF OutcomeInv, SelectorKnown, KiqInv, TypeOK, Result, Goto, untouched, memory
<1>26. CASE Probe
  BY <1>26 DEF OutcomeInv, SelectorKnown, KiqInv, TypeOK, Probe, Refuse, Select, untouched,
    memory
<1>27. CASE ReleaseCheck
  BY <1>27 DEF OutcomeInv, SelectorKnown, KiqInv, TypeOK, ReleaseCheck, Goto, untouched,
    memory
<1>28. CASE Contain
  BY <1>28 DEF OutcomeInv, SelectorKnown, KiqInv, TypeOK, Contain, Refuse, Select, untouched,
    memory
<1>29. CASE Finish
  BY <1>29 DEF OutcomeInv, SelectorKnown, KiqInv, TypeOK, Finish, Goto, Return, Select,
    untouched, memory
<1>30. CASE EopCheck
  BY <1>30 DEF OutcomeInv, SelectorKnown, KiqInv, TypeOK, EopCheck, Return, Refuse, Select,
    untouched, memory
<1>31. CASE UNCHANGED vars
  BY <1>31 DEF OutcomeInv, SelectorKnown, KiqInv, TypeOK, vars, gpu, memory, bootVars,
    callVars
<1> QED
  BY <1>1, <1>2, <1>3, <1>4, <1>5, <1>6, <1>7, <1>8, <1>9, <1>10, <1>11, <1>12, <1>13, <1>14,
    <1>15, <1>16, <1>17, <1>18, <1>19, <1>20, <1>21, <1>22, <1>23, <1>24, <1>25, <1>26,
    <1>27, <1>28, <1>29, <1>30, <1>31 DEF Next, Prepare, Halted, Native, After

\* No step breaks what the call knows of the queue on its way to report a start.
LEMMA ReturnKnownStep == ASSUME KiqInv, OutcomeInv, [Next]_vars PROVE ReturnKnown'
<1>1. CASE Drain
  BY <1>1 DEF KiqInv, TypeOK, OutcomeInv, ReturnKnown, WordKnown, Before, Setup, Owning,
    NoWord, Queue, Drain, memory, bootVars, callVars
<1>2. CASE Fetch
  BY <1>2 DEF KiqInv, TypeOK, OutcomeInv, ReturnKnown, WordKnown, Before, Setup, Owning,
    NoWord, Queue, Fetch, memory, bootVars, callVars
<1>3. CASE Submit
  BY <1>3 DEF KiqInv, TypeOK, OutcomeInv, ReturnKnown, WordKnown, Before, Setup, Owning,
    NoWord, Queue, Submit, memory, bootVars, callVars
<1>4. CASE Mishap
  BY <1>4 DEF KiqInv, TypeOK, OutcomeInv, ReturnKnown, WordKnown, Before, Setup, Owning,
    NoWord, Queue, Mishap, callVars
<1>5. CASE Call
  BY <1>5 DEF KiqInv, TypeOK, OutcomeInv, ReturnKnown, WordKnown, Before, Setup, Owning,
    NoWord, Queue, Call, gpu, memory, NoTx
<1>6. CASE Preflight
  BY <1>6 DEF KiqInv, TypeOK, OutcomeInv, ReturnKnown, WordKnown, Before, Setup, Owning,
    NoWord, Queue, Preflight, Select, untouched, memory
<1>7. CASE CloseIngress
  BY <1>7 DEF KiqInv, TypeOK, OutcomeInv, ReturnKnown, WordKnown, Before, Setup, Owning,
    NoWord, Queue, CloseIngress, Goto, Refuse, Select, untouched, memory
<1>8. CASE IngressCheck
  BY <1>8 DEF KiqInv, TypeOK, OutcomeInv, ReturnKnown, WordKnown, Before, Setup, Owning,
    NoWord, Queue, IngressCheck, Goto, Refuse, Select, untouched, memory
<1>9. CASE DequeuePoll
  BY <1>9 DEF KiqInv, TypeOK, OutcomeInv, ReturnKnown, WordKnown, Before, Setup, Owning,
    NoWord, Queue, DequeuePoll, Goto, Refuse, Select, untouched, memory
<1>10. CASE ClearRequest
  BY <1>10 DEF KiqInv, TypeOK, OutcomeInv, ReturnKnown, WordKnown, Before, Setup, Owning,
    NoWord, Queue, ClearRequest, Goto, untouched, memory
<1>11. CASE IdleCheck
  BY <1>11 DEF KiqInv, TypeOK, OutcomeInv, ReturnKnown, WordKnown, Before, Setup, Owning,
    NoWord, Queue, IdleCheck, Busy, Pointed, Goto, Refuse, Select, untouched, memory
<1>12. CASE PointerCheck
  BY <1>12 DEF KiqInv, TypeOK, OutcomeInv, ReturnKnown, WordKnown, Before, Setup, Owning,
    NoWord, Queue, PointerCheck, Busy, Pointed, Goto, Refuse, Select, untouched, memory
<1>13. CASE WriteImage
  BY <1>13 DEF KiqInv, TypeOK, OutcomeInv, ReturnKnown, WordKnown, Before, Setup, Owning,
    NoWord, Queue, WriteImage, Refuse, Select, bootVars
<1>14. CASE Admit
  <2>1. /\ pc = "admit" /\ UNCHANGED <<mode, hqd>>
        /\ tx'.held = tx.held /\ tx'.saved = tx.saved
    BY <1>14 DEF Admit, KiqInv, TypeOK, Goto, Refuse, untouched
  <2>2. \/ pc' = "idle" /\ result' = "refused"
        \/ pc' = "native" /\ mode = 1 /\ result' = result
        \/ pc' = "begin" /\ result' = result
    BY <1>14, Zenon DEF Admit, Goto, Refuse
  <2>3. result # "started"
    BY <2>1 DEF OutcomeInv, ReturnKnown
  <2>4. pc' \notin {"result", "finish", "eopCheck", "releaseCheck"} /\ pc' \notin Before
    BY <2>2 DEF Before
  <2> QED
    BY <2>1, <2>2, <2>3, <2>4 DEF ReturnKnown
<1>15. CASE Begin
  BY <1>15 DEF KiqInv, TypeOK, OutcomeInv, ReturnKnown, WordKnown, Before, Setup, Owning,
    NoWord, Queue, Begin, Goto, Refuse, Select, untouched, memory
<1>16. CASE HaltCheck
  BY <1>16 DEF KiqInv, TypeOK, OutcomeInv, ReturnKnown, WordKnown, Before, Setup, Owning,
    NoWord, Queue, HaltCheck, Goto, Refuse, Select, untouched, memory
<1>17. CASE ZeroQueue
  BY <1>17 DEF KiqInv, TypeOK, OutcomeInv, ReturnKnown, WordKnown, Before, Setup, Owning,
    NoWord, Queue, ZeroQueue, Goto, untouched, memory
<1>18. CASE ZeroCheck
  BY <1>18 DEF KiqInv, TypeOK, OutcomeInv, ReturnKnown, WordKnown, Before, Setup, Owning,
    NoWord, Queue, ZeroCheck, Goto, untouched, memory
<1>19. CASE Abandon
  BY <1>19 DEF KiqInv, TypeOK, OutcomeInv, ReturnKnown, WordKnown, Before, Setup, Owning,
    NoWord, Queue, Abandon, Goto, untouched, memory
<1>20. CASE AbandonCheck
  BY <1>20 DEF KiqInv, TypeOK, OutcomeInv, ReturnKnown, WordKnown, Before, Setup, Owning,
    NoWord, Queue, AbandonCheck, Refuse, Select, untouched, memory
<1>21. CASE CompareExpected
  BY <1>21 DEF KiqInv, TypeOK, OutcomeInv, ReturnKnown, WordKnown, Before, Setup, Owning,
    NoWord, Queue, CompareExpected, Goto, Refuse, Select, untouched, memory
<1>22. CASE NativeControl
  BY <1>22 DEF KiqInv, TypeOK, OutcomeInv, ReturnKnown, WordKnown, Before, Setup, Owning,
    NoWord, Queue, NativeControl, memory, bootVars
<1>23. CASE NativeProgram
  BY <1>23 DEF KiqInv, TypeOK, OutcomeInv, ReturnKnown, WordKnown, Before, Setup, Owning,
    NoWord, Queue, NativeProgram, memory, bootVars
<1>24. CASE NativeReturn
  BY <1>24 DEF KiqInv, TypeOK, OutcomeInv, ReturnKnown, WordKnown, Before, Setup, Owning,
    NoWord, Queue, NativeReturn, Select, memory, bootVars
<1>25. CASE Result
  <2>1. /\ pc = "result" /\ UNCHANGED <<mode, hqd, tx, restore, result>>
        /\ \/ ~tx.held /\ pc' = "finish"
           \/ tx.held /\ pc' = "probe"
           \/ tx.held /\ Verified /\ pc' = "releaseCheck"
           \/ tx.held /\ pc' = "contain"
    BY <1>25 DEF Result, Goto, untouched
  <2>2. result # "started" /\ (mode = 2 /\ restore => tx.held)
    BY <2>1 DEF OutcomeInv, ReturnKnown
  <2>3. tx.held => tx.saved # NoWord
    BY DEF KiqInv, TypeOK
  <2>4. Verified => hqd.active /\ ~hqd.dequeue /\ hqd.made = "exact" /\ hqd.eop
    BY DEF Verified
  <2> QED
    BY <2>1, <2>2, <2>3, <2>4 DEF ReturnKnown, Before
<1>26. CASE Probe
  BY <1>26 DEF KiqInv, TypeOK, OutcomeInv, ReturnKnown, WordKnown, Before, Setup, Owning,
    NoWord, Queue, Probe, Refuse, Select, untouched, memory
<1>27. CASE ReleaseCheck
  BY <1>27 DEF KiqInv, TypeOK, OutcomeInv, ReturnKnown, WordKnown, Before, Setup, Owning,
    NoWord, Queue, ReleaseCheck, Goto, untouched, memory
<1>28. CASE Contain
  BY <1>28 DEF KiqInv, TypeOK, OutcomeInv, ReturnKnown, WordKnown, Before, Setup, Owning,
    NoWord, Queue, Contain, Refuse, Select, untouched, memory
<1>29. CASE Finish
  <2>1. pc = "finish" /\ UNCHANGED <<mode, tx, restore>>
    BY <1>29 DEF Finish, untouched
  <2>2. \/ pc' = "eopCheck" /\ ~restore /\ result' = result
        \/ /\ pc' = "idle" /\ UNCHANGED hqd
           /\ result' = "started" => ~(CpSurgery /\ ~restore)
    BY <1>29 DEF Finish, Goto, Return, KiqInv, TypeOK
  <2>3. /\ result # "started" /\ ~tx.held
        /\ mode = 2 /\ restore => /\ hqd.active /\ ~hqd.dequeue /\ hqd.made = "exact"
                                 /\ hqd.eop /\ tx.saved # NoWord
    BY <2>1 DEF OutcomeInv, ReturnKnown
  <2> QED
    BY <2>1, <2>2, <2>3 DEF ReturnKnown, Before
<1>30. CASE EopCheck
  BY <1>30 DEF KiqInv, TypeOK, OutcomeInv, ReturnKnown, WordKnown, Before, Setup, Owning,
    NoWord, Queue, EopCheck, Return, Refuse, Select, untouched, memory
<1>31. CASE UNCHANGED vars
  BY <1>31 DEF KiqInv, TypeOK, OutcomeInv, ReturnKnown, WordKnown, Before, Setup, Owning,
    NoWord, Queue, vars, gpu, memory, bootVars, callVars
<1> QED
  BY <1>1, <1>2, <1>3, <1>4, <1>5, <1>6, <1>7, <1>8, <1>9, <1>10, <1>11, <1>12, <1>13, <1>14,
    <1>15, <1>16, <1>17, <1>18, <1>19, <1>20, <1>21, <1>22, <1>23, <1>24, <1>25, <1>26,
    <1>27, <1>28, <1>29, <1>30, <1>31 DEF Next, Prepare, Halted, Native, After

\* No step breaks what the call knows of its setup where nothing changes beneath it.
LEMMA SetupKnownStep == ASSUME KiqInv, OutcomeInv, [Next]_vars PROVE SetupKnown'
<1>1. CASE Drain
  BY <1>1 DEF KiqInv, TypeOK, OutcomeInv, SetupKnown, SetupFailureRestores, WordKnown,
    Before, Setup, Owning, Ended, NoWord, Drain, memory, bootVars, callVars
<1>2. CASE Fetch
  BY <1>2 DEF KiqInv, TypeOK, OutcomeInv, SetupKnown, SetupFailureRestores, WordKnown,
    Before, Setup, Owning, Ended, NoWord, Fetch, memory, bootVars, callVars
<1>3. CASE Submit
  BY <1>3 DEF KiqInv, TypeOK, OutcomeInv, SetupKnown, SetupFailureRestores, WordKnown,
    Before, Setup, Owning, Ended, NoWord, Submit, memory, bootVars, callVars
<1>4. CASE Mishap
  BY <1>4 DEF KiqInv, TypeOK, OutcomeInv, SetupKnown, SetupFailureRestores, WordKnown,
    Before, Setup, Owning, Ended, NoWord, Mishap, callVars
<1>5. CASE Call
  BY <1>5 DEF KiqInv, TypeOK, OutcomeInv, SetupKnown, SetupFailureRestores, WordKnown,
    Before, Setup, Owning, Ended, NoWord, Call, gpu, memory, NoTx
<1>6. CASE Preflight
  BY <1>6 DEF KiqInv, TypeOK, OutcomeInv, SetupKnown, SetupFailureRestores, WordKnown,
    Before, Setup, Owning, Ended, NoWord, Preflight, Select, untouched, memory
<1>7. CASE CloseIngress
  BY <1>7 DEF KiqInv, TypeOK, OutcomeInv, SetupKnown, SetupFailureRestores, WordKnown,
    Before, Setup, Owning, Ended, NoWord, CloseIngress, Goto, Refuse, Select, untouched,
    memory
<1>8. CASE IngressCheck
  BY <1>8 DEF KiqInv, TypeOK, OutcomeInv, SetupKnown, SetupFailureRestores, WordKnown,
    Before, Setup, Owning, Ended, NoWord, IngressCheck, Goto, Refuse, Select, untouched,
    memory
<1>9. CASE DequeuePoll
  BY <1>9 DEF KiqInv, TypeOK, OutcomeInv, SetupKnown, SetupFailureRestores, WordKnown,
    Before, Setup, Owning, Ended, NoWord, DequeuePoll, Goto, Refuse, Select, untouched,
    memory
<1>10. CASE ClearRequest
  BY <1>10 DEF KiqInv, TypeOK, OutcomeInv, SetupKnown, SetupFailureRestores, WordKnown,
    Before, Setup, Owning, Ended, NoWord, ClearRequest, Goto, untouched, memory
<1>11. CASE IdleCheck
  BY <1>11 DEF KiqInv, TypeOK, OutcomeInv, SetupKnown, SetupFailureRestores, WordKnown,
    Before, Setup, Owning, Ended, NoWord, IdleCheck, Busy, Pointed, Goto, Refuse, Select,
    untouched, memory
<1>12. CASE PointerCheck
  BY <1>12 DEF KiqInv, TypeOK, OutcomeInv, SetupKnown, SetupFailureRestores, WordKnown,
    Before, Setup, Owning, Ended, NoWord, PointerCheck, Busy, Pointed, Goto, Refuse, Select,
    untouched, memory
<1>13. CASE WriteImage
  BY <1>13 DEF KiqInv, TypeOK, OutcomeInv, SetupKnown, SetupFailureRestores, WordKnown,
    Before, Setup, Owning, Ended, NoWord, WriteImage, Refuse, Select, bootVars
<1>14. CASE Admit
  BY <1>14 DEF KiqInv, TypeOK, OutcomeInv, SetupKnown, SetupFailureRestores, WordKnown,
    Before, Setup, Owning, Ended, NoWord, Admit, Goto, Refuse, Select, untouched, memory
<1>15. CASE Begin
  BY <1>15 DEF KiqInv, TypeOK, OutcomeInv, SetupKnown, SetupFailureRestores, WordKnown,
    Before, Setup, Owning, Ended, NoWord, Begin, Goto, Refuse, Select, untouched, memory
<1>16. CASE HaltCheck
  BY <1>16 DEF KiqInv, TypeOK, OutcomeInv, SetupKnown, SetupFailureRestores, WordKnown,
    Before, Setup, Owning, Ended, NoWord, HaltCheck, Goto, Refuse, Select, untouched, memory
<1>17. CASE ZeroQueue
  BY <1>17 DEF KiqInv, TypeOK, OutcomeInv, SetupKnown, SetupFailureRestores, WordKnown,
    Before, Setup, Owning, Ended, NoWord, ZeroQueue, Goto, untouched, memory
<1>18. CASE ZeroCheck
  BY <1>18 DEF KiqInv, TypeOK, OutcomeInv, SetupKnown, SetupFailureRestores, WordKnown,
    Before, Setup, Owning, Ended, NoWord, ZeroCheck, Goto, untouched, memory
<1>19. CASE Abandon
  BY <1>19 DEF KiqInv, TypeOK, OutcomeInv, SetupKnown, SetupFailureRestores, WordKnown,
    Before, Setup, Owning, Ended, NoWord, Abandon, Goto, untouched, memory
<1>20. CASE AbandonCheck
  BY <1>20 DEF KiqInv, TypeOK, OutcomeInv, SetupKnown, HaltKnown, SetupFailureRestores, WordKnown,
    Before, Setup, Owning, Ended, NoWord, AbandonCheck, Refuse, Select, untouched, memory
<1>21. CASE CompareExpected
  BY <1>21 DEF KiqInv, TypeOK, OutcomeInv, SetupKnown, SetupFailureRestores, WordKnown,
    Before, Setup, Owning, Ended, NoWord, CompareExpected, Goto, Refuse, Select, untouched,
    memory
<1>22. CASE NativeControl
  BY <1>22 DEF KiqInv, TypeOK, OutcomeInv, SetupKnown, SetupFailureRestores, WordKnown,
    Before, Setup, Owning, Ended, NoWord, NativeControl, memory, bootVars
<1>23. CASE NativeProgram
  BY <1>23 DEF KiqInv, TypeOK, OutcomeInv, SetupKnown, SetupFailureRestores, WordKnown,
    Before, Setup, Owning, Ended, NoWord, NativeProgram, memory, bootVars
<1>24. CASE NativeReturn
  BY <1>24 DEF KiqInv, TypeOK, OutcomeInv, SetupKnown, SetupFailureRestores, WordKnown,
    Before, Setup, Owning, Ended, NoWord, NativeReturn, Select, memory, bootVars
<1>25. CASE Result
  BY <1>25 DEF KiqInv, TypeOK, OutcomeInv, SetupKnown, SetupFailureRestores, WordKnown,
    Before, Setup, Owning, Ended, NoWord, Result, Goto, untouched, memory
<1>26. CASE Probe
  BY <1>26 DEF KiqInv, TypeOK, OutcomeInv, SetupKnown, SetupFailureRestores, WordKnown,
    Before, Setup, Owning, Ended, NoWord, Probe, Refuse, Select, untouched, memory
<1>27. CASE ReleaseCheck
  BY <1>27 DEF KiqInv, TypeOK, OutcomeInv, SetupKnown, SetupFailureRestores, WordKnown,
    Before, Setup, Owning, Ended, NoWord, ReleaseCheck, Goto, untouched, memory
<1>28. CASE Contain
  BY <1>28 DEF KiqInv, TypeOK, OutcomeInv, SetupKnown, SetupFailureRestores, WordKnown,
    Before, Setup, Owning, Ended, NoWord, Contain, Refuse, Select, untouched, memory
<1>29. CASE Finish
  BY <1>29 DEF KiqInv, TypeOK, OutcomeInv, SetupKnown, SetupFailureRestores, WordKnown,
    Before, Setup, Owning, Ended, NoWord, Finish, Goto, Return, Select, untouched, memory
<1>30. CASE EopCheck
  BY <1>30 DEF KiqInv, TypeOK, OutcomeInv, SetupKnown, SetupFailureRestores, WordKnown,
    Before, Setup, Owning, Ended, NoWord, EopCheck, Return, Refuse, Select, untouched, memory
<1>31. CASE UNCHANGED vars
  BY <1>31 DEF KiqInv, TypeOK, OutcomeInv, SetupKnown, SetupFailureRestores, WordKnown,
    Before, Setup, Owning, Ended, NoWord, vars, gpu, memory, bootVars, callVars
<1> QED
  BY <1>1, <1>2, <1>3, <1>4, <1>5, <1>6, <1>7, <1>8, <1>9, <1>10, <1>11, <1>12, <1>13, <1>14,
    <1>15, <1>16, <1>17, <1>18, <1>19, <1>20, <1>21, <1>22, <1>23, <1>24, <1>25, <1>26,
    <1>27, <1>28, <1>29, <1>30, <1>31 DEF Next, Prepare, Halted, Native, After

\* No step lets the MEC go while its control word is in hand, where the stores land.
LEMMA HaltKnownStep == ASSUME KiqInv, OutcomeInv, [Next]_vars PROVE HaltKnown'
<1>1. CASE Drain
  BY <1>1 DEF KiqInv, TypeOK, OutcomeInv, ReturnKnown, SetupKnown, HaltKnown, HeldMeansHalted, WordKnown,
    Before, Setup, Owning, Ended, NoWord, Drain, memory, bootVars, callVars
<1>2. CASE Fetch
  BY <1>2 DEF KiqInv, TypeOK, OutcomeInv, ReturnKnown, SetupKnown, HaltKnown, HeldMeansHalted, WordKnown,
    Before, Setup, Owning, Ended, NoWord, Fetch, memory, bootVars, callVars
<1>3. CASE Submit
  BY <1>3 DEF KiqInv, TypeOK, OutcomeInv, ReturnKnown, SetupKnown, HaltKnown, HeldMeansHalted, WordKnown,
    Before, Setup, Owning, Ended, NoWord, Submit, memory, bootVars, callVars
<1>4. CASE Mishap
  BY <1>4 DEF KiqInv, TypeOK, OutcomeInv, ReturnKnown, SetupKnown, HaltKnown, HeldMeansHalted, WordKnown,
    Before, Setup, Owning, Ended, NoWord, Mishap, callVars
<1>5. CASE Call
  BY <1>5 DEF KiqInv, TypeOK, OutcomeInv, ReturnKnown, SetupKnown, HaltKnown, HeldMeansHalted, WordKnown,
    Before, Setup, Owning, Ended, NoWord, Call, gpu, memory, NoTx
<1>6. CASE Preflight
  BY <1>6 DEF KiqInv, TypeOK, OutcomeInv, ReturnKnown, SetupKnown, HaltKnown, HeldMeansHalted, WordKnown,
    Before, Setup, Owning, Ended, NoWord, Preflight, Select, untouched, memory
<1>7. CASE CloseIngress
  BY <1>7 DEF KiqInv, TypeOK, OutcomeInv, ReturnKnown, SetupKnown, HaltKnown, HeldMeansHalted, WordKnown,
    Before, Setup, Owning, Ended, NoWord, CloseIngress, Goto, Refuse, Select, untouched,
    memory
<1>8. CASE IngressCheck
  BY <1>8 DEF KiqInv, TypeOK, OutcomeInv, ReturnKnown, SetupKnown, HaltKnown, HeldMeansHalted, WordKnown,
    Before, Setup, Owning, Ended, NoWord, IngressCheck, Goto, Refuse, Select, untouched,
    memory
<1>9. CASE DequeuePoll
  BY <1>9 DEF KiqInv, TypeOK, OutcomeInv, ReturnKnown, SetupKnown, HaltKnown, HeldMeansHalted, WordKnown,
    Before, Setup, Owning, Ended, NoWord, DequeuePoll, Goto, Refuse, Select, untouched,
    memory
<1>10. CASE ClearRequest
  BY <1>10 DEF KiqInv, TypeOK, OutcomeInv, ReturnKnown, SetupKnown, HaltKnown, HeldMeansHalted, WordKnown,
    Before, Setup, Owning, Ended, NoWord, ClearRequest, Goto, untouched, memory
<1>11. CASE IdleCheck
  BY <1>11 DEF KiqInv, TypeOK, OutcomeInv, ReturnKnown, SetupKnown, HaltKnown, HeldMeansHalted, WordKnown,
    Before, Setup, Owning, Ended, NoWord, IdleCheck, Busy, Pointed, Goto, Refuse, Select,
    untouched, memory
<1>12. CASE PointerCheck
  BY <1>12 DEF KiqInv, TypeOK, OutcomeInv, ReturnKnown, SetupKnown, HaltKnown, HeldMeansHalted, WordKnown,
    Before, Setup, Owning, Ended, NoWord, PointerCheck, Busy, Pointed, Goto, Refuse, Select,
    untouched, memory
<1>13. CASE WriteImage
  BY <1>13 DEF KiqInv, TypeOK, OutcomeInv, ReturnKnown, SetupKnown, HaltKnown, HeldMeansHalted, WordKnown,
    Before, Setup, Owning, Ended, NoWord, WriteImage, Refuse, Select, bootVars
<1>14. CASE Admit
  BY <1>14 DEF KiqInv, TypeOK, OutcomeInv, ReturnKnown, SetupKnown, HaltKnown, HeldMeansHalted, WordKnown,
    Before, Setup, Owning, Ended, NoWord, Admit, Goto, Refuse, Select, untouched, memory
<1>15. CASE Begin
  BY <1>15 DEF KiqInv, TypeOK, OutcomeInv, ReturnKnown, SetupKnown, HaltKnown, HeldMeansHalted, WordKnown,
    Before, Setup, Owning, Ended, NoWord, MecStored, Stored, Begin, Goto, Refuse, Select, untouched, memory
<1>16. CASE HaltCheck
  BY <1>16 DEF KiqInv, TypeOK, OutcomeInv, ReturnKnown, SetupKnown, HaltKnown, HeldMeansHalted, WordKnown,
    Before, Setup, Owning, Ended, NoWord, HaltCheck, Goto, Refuse, Select, untouched, memory
<1>17. CASE ZeroQueue
  BY <1>17 DEF KiqInv, TypeOK, OutcomeInv, ReturnKnown, SetupKnown, HaltKnown, HeldMeansHalted, WordKnown,
    Before, Setup, Owning, Ended, NoWord, ZeroQueue, Goto, untouched, memory
<1>18. CASE ZeroCheck
  BY <1>18 DEF KiqInv, TypeOK, OutcomeInv, ReturnKnown, SetupKnown, HaltKnown, HeldMeansHalted, WordKnown,
    Before, Setup, Owning, Ended, NoWord, ZeroCheck, Goto, untouched, memory
<1>19. CASE Abandon
  BY <1>19 DEF KiqInv, TypeOK, OutcomeInv, ReturnKnown, SetupKnown, HaltKnown, HeldMeansHalted, WordKnown,
    Before, Setup, Owning, Ended, NoWord, MecStored, Stored, Abandon, Goto, untouched, memory
<1>20. CASE AbandonCheck
  BY <1>20 DEF KiqInv, TypeOK, OutcomeInv, ReturnKnown, SetupKnown, HaltKnown, HeldMeansHalted, WordKnown,
    Before, Setup, Owning, Ended, NoWord, AbandonCheck, Refuse, Select, untouched, memory
<1>21. CASE CompareExpected
  BY <1>21 DEF KiqInv, TypeOK, OutcomeInv, ReturnKnown, SetupKnown, HaltKnown, HeldMeansHalted, WordKnown,
    Before, Setup, Owning, Ended, NoWord, CompareExpected, Goto, Refuse, Select, untouched,
    memory
<1>22. CASE NativeControl
  BY <1>22 DEF KiqInv, TypeOK, OutcomeInv, ReturnKnown, SetupKnown, HaltKnown, HeldMeansHalted, WordKnown,
    Before, Setup, Owning, Ended, NoWord, NativeControl, memory, bootVars
<1>23. CASE NativeProgram
  BY <1>23 DEF KiqInv, TypeOK, OutcomeInv, ReturnKnown, SetupKnown, HaltKnown, HeldMeansHalted, WordKnown,
    Before, Setup, Owning, Ended, NoWord, NativeProgram, memory, bootVars
<1>24. CASE NativeReturn
  BY <1>24 DEF KiqInv, TypeOK, OutcomeInv, ReturnKnown, SetupKnown, HaltKnown, HeldMeansHalted, WordKnown,
    Before, Setup, Owning, Ended, NoWord, NativeReturn, Select, memory, bootVars
<1>25. CASE Result
  BY <1>25 DEF KiqInv, TypeOK, OutcomeInv, ReturnKnown, SetupKnown, HaltKnown, HeldMeansHalted, WordKnown,
    Before, Setup, Owning, Ended, NoWord, MecStored, Stored, Result, Goto, untouched, memory
<1>26. CASE Probe
  BY <1>26 DEF KiqInv, TypeOK, OutcomeInv, ReturnKnown, SetupKnown, HaltKnown, HeldMeansHalted, WordKnown,
    Before, Setup, Owning, Ended, NoWord, MecStored, Stored, Probe, Refuse, Select, untouched, memory
<1>27. CASE ReleaseCheck
  BY <1>27 DEF KiqInv, TypeOK, OutcomeInv, ReturnKnown, SetupKnown, HaltKnown, HeldMeansHalted, WordKnown,
    Before, Setup, Owning, Ended, NoWord, MecStored, Stored, ReleaseCheck, Goto, untouched, memory
<1>28. CASE Contain
  BY <1>28 DEF KiqInv, TypeOK, OutcomeInv, ReturnKnown, SetupKnown, HaltKnown, HeldMeansHalted, WordKnown,
    Before, Setup, Owning, Ended, NoWord, Contain, Refuse, Select, untouched, memory
<1>29. CASE Finish
  BY <1>29 DEF KiqInv, TypeOK, OutcomeInv, ReturnKnown, SetupKnown, HaltKnown, HeldMeansHalted, WordKnown,
    Before, Setup, Owning, Ended, NoWord, Finish, Goto, Return, Select, untouched, memory
<1>30. CASE EopCheck
  BY <1>30 DEF KiqInv, TypeOK, OutcomeInv, ReturnKnown, SetupKnown, HaltKnown, HeldMeansHalted, WordKnown,
    Before, Setup, Owning, Ended, NoWord, EopCheck, Return, Refuse, Select, untouched, memory
<1>31. CASE UNCHANGED vars
  BY <1>31 DEF KiqInv, TypeOK, OutcomeInv, ReturnKnown, SetupKnown, HaltKnown, HeldMeansHalted, WordKnown,
    Before, Setup, Owning, Ended, NoWord, vars, gpu, memory, bootVars, callVars
<1> QED
  BY <1>1, <1>2, <1>3, <1>4, <1>5, <1>6, <1>7, <1>8, <1>9, <1>10, <1>11, <1>12, <1>13, <1>14,
    <1>15, <1>16, <1>17, <1>18, <1>19, <1>20, <1>21, <1>22, <1>23, <1>24, <1>25, <1>26,
    <1>27, <1>28, <1>29, <1>30, <1>31 DEF Next, Prepare, Halted, Native, After

-----------------------------------------------------------------------------
(***************************************************************************)
(* The theorems.                                                           *)
(***************************************************************************)

LEMMA KiqInitial == Init => KiqInv
<1> SUFFICES ASSUME Init PROVE KiqInv
  OBVIOUS
<1>1. hqd \in Queue
  BY DEF Init, Queue
<1>2. TypeOK
  <2>1. tx \in TxType /\ (tx.held => tx.saved # NoWord)
    BY DEF Init, TxType, NoTx, NoWord, Words
  <2>2. {gone, selector, restore, armed, success, entered, stray} \subseteq BOOLEAN
    BY DEF Init
  <2>3. mec \in Words /\ pq \in 0..2 /\ pc \in Pcs
    BY DEF Init, Words, Pcs
  <2>4. /\ image \in {"sw", "mc", "wrong"} /\ given \in {"sw", "mc"}
        /\ lease \in {"none", "owned", "withdrawn"}
        /\ result \in {"none", "started", "failed", "refused"}
    BY DEF Init
  <2> QED
    BY <1>1, <2>1, <2>2, <2>3, <2>4 DEF TypeOK, TxType
<1>3. QueueKnown
  BY DEF Init, QueueKnown, Setup, Quiet
<1>4. WordKnown
  BY DEF Init, WordKnown, NoTx, NoWord, Before, Setup, Owning
<1>5. ProbeKnown
  BY DEF Init, ProbeKnown, NoTx, NoWord, Before, Setup
<1> QED
  BY <1>2, <1>3, <1>4, <1>5 DEF KiqInv

LEMMA KiqStep == KiqInv /\ [Next]_vars => KiqInv'
<1> SUFFICES ASSUME KiqInv, [Next]_vars PROVE KiqInv'
  OBVIOUS
<1>1. TypeOK'
  BY QueueTyped, TxTyped, FlagsTyped, ValuesTyped, PcTyped, SavedStep
     DEF TypeOK, TxType, Flags, Values, SavedWhenHeld
<1> QED
  BY <1>1, QueueKnownStep, WordKnownStep, ProbeKnownStep DEF KiqInv

LEMMA KiqInvariant == Spec => []KiqInv
  BY KiqInitial, KiqStep, PTL DEF Spec

LEMMA OutcomeInitial == Init => OutcomeInv
<1> SUFFICES ASSUME Init PROVE OutcomeInv
  OBVIOUS
<1>1. SelectorKnown
  BY DEF Init, SelectorKnown
<1>2. ReturnKnown
  BY DEF Init, ReturnKnown, Before
<1>3. SetupKnown
  BY DEF Init, SetupKnown, Ended, Setup, SetupFailureRestores
<1>4. HaltKnown
  BY DEF Init, HaltKnown, HeldMeansHalted, NoTx
<1> QED
  BY <1>1, <1>2, <1>3, <1>4 DEF OutcomeInv

LEMMA OutcomeInvariant == Spec => [](KiqInv /\ OutcomeInv)
<1>1. Init => KiqInv /\ OutcomeInv
  BY KiqInitial, OutcomeInitial
<1>2. KiqInv /\ OutcomeInv /\ [Next]_vars => (KiqInv /\ OutcomeInv)'
  BY KiqStep, SelectorKnownStep, ReturnKnownStep, SetupKnownStep, HaltKnownStep DEF OutcomeInv
<1> QED
  BY <1>1, <1>2, PTL DEF Spec

\* Every variable keeps its type, and a transaction that holds the control word
\* knows what it was.
THEOREM KiqTypeCorrect == Spec => []TypeOK
<1>1. KiqInv => TypeOK
  BY DEF KiqInv
<1> QED
  BY <1>1, KiqInvariant, PTL

\* Apple's startKIQ is entered over a quiet queue, or over a halted or admitted
\* one (prepareQueueForNativeStart), whatever ignores a store and whatever the
\* hardware does in between.
THEOREM KiqEnteredQuiet == Spec => []ReadyMeansQuiet
<1>1. KiqInv => ReadyMeansQuiet
  BY DEF KiqInv, QueueKnown, Quiet, ReadyMeansQuiet
<1> QED
  BY <1>1, KiqInvariant, PTL

\* A call that returned and does not hold the MEC control word has given it back
\* (HaltedNativeTransaction.held).
THEOREM KiqWordRestored == Spec => []NotHeldMeansRestored
<1>1. KiqInv => NotHeldMeansRestored
  BY DEF KiqInv, WordKnown, NotHeldMeansRestored
<1> QED
  BY <1>1, KiqInvariant, PTL

\* A probe never reports a started queue, keeps the MEC halted while the native
\* call makes no control write the guard does not know, and when it returns has
\* halted the MEC and closed the ingress again whatever was written
\* (preserveNativeMecHalt, wrapKiqStart).
THEOREM KiqProbeContained == Spec => []ProbeContained
<1>1. KiqInv => ProbeContained
  BY DEF KiqInv, ProbeKnown, ProbeContained
<1> QED
  BY <1>1, KiqInvariant, PTL

\* What a call that returned left running is sound: a started queue runs over the
\* rings and the word it was verified with, a probe starts nothing and is contained
\* again when it returns, also after control writes its guard does not know
\* (wrapKiqStart, releaseHaltedNative).
THEOREM KiqOutcomesSound == Spec => []OutcomesSound
<1>1. KiqInv /\ OutcomeInv => OutcomesSound
  <2> SUFFICES ASSUME KiqInv, OutcomeInv PROVE OutcomesSound
    OBVIOUS
  <2>1. result = "started" => ~tx.held /\ pc = "idle"
    BY DEF OutcomeInv, ReturnKnown
  <2>2. result = "started" /\ mode = 2 /\ restore =>
          hqd.active /\ hqd.made = "exact" /\ hqd.eop /\ tx.saved # NoWord
    BY DEF OutcomeInv, ReturnKnown
  <2>3. result = "started" /\ mode = 2 /\ restore => mec = tx.saved
    BY <2>1, <2>2 DEF KiqInv, WordKnown
  <2>4. result = "started" /\ CpSurgery /\ ~restore => hqd.eop
    BY DEF OutcomeInv, ReturnKnown
  <2>5. StartedMeansSound
    BY <2>1, <2>2, <2>3, <2>4 DEF StartedMeansSound
  <2>6. ProbeContained
    BY DEF KiqInv, ProbeKnown, ProbeContained
  <2> QED
    BY <2>5, <2>6 DEF OutcomesSound
<1> QED
  BY <1>1, OutcomeInvariant, PTL

\* What the call borrows it gives back or says that it did not: the control word,
\* also of a setup some other unit made fail; the MEC of a word still in hand, which
\* stays halted; the register selector (beginHaltedNative, prepareKiq, wrapKiqStart).
THEOREM KiqBorrowedGivenBack == Spec => []BorrowedGivenBack
<1>1. KiqInv /\ OutcomeInv => BorrowedGivenBack
  <2> SUFFICES ASSUME KiqInv, OutcomeInv PROVE BorrowedGivenBack
    OBVIOUS
  <2>1. NotHeldMeansRestored
    BY DEF KiqInv, WordKnown, NotHeldMeansRestored
  <2>2. SetupFailureRestores
    BY DEF OutcomeInv, SetupKnown
  <2>3. SelectorRestored
    BY DEF OutcomeInv, SelectorKnown, SelectorRestored
  <2>4. HeldMeansHalted
    BY DEF OutcomeInv, HaltKnown, HeldMeansHalted
  <2> QED
    BY <2>1, <2>2, <2>3, <2>4 DEF BorrowedGivenBack
<1> QED
  BY <1>1, OutcomeInvariant, PTL
=============================================================================
