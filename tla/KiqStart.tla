------------------------------ MODULE KiqStart ------------------------------
(***************************************************************************)
(* wrapKiqStart: the kext stands between Apple's driver and its own        *)
(* startKIQ.  A previous guest may have left the compute interface queue   *)
(* active, so the kext closes its ingress, asks for a dequeue, resets its  *)
(* pointers and corrects the queue image (MQD) before Apple's code may run *)
(* -- or, when the dequeue never completes, halts the microengine (MEC)    *)
(* around Apple's own reprogramming and lets it go again only over a queue *)
(* it has verified.  The hardware moves between any two register accesses, *)
(* may ignore a write, and may fall off the bus.                           *)
(***************************************************************************)
EXTENDS Naturals

CONSTANTS
  Modes,      \* mqdNativeRestoreMode: 0 off, 1 native, 2 halted native, 3 probe
  MayIgnore,  \* units that may ignore single writes, at most one in a behaviour
  MaxCalls,   \* bound: calls of startKIQ in one boot
  MaxMishaps, \* bound: bus losses, lease withdrawals, rewritten images
  CpSurgery   \* cpSurgeryEnabled: the kext programs the EOP registers itself

Units == {"mec", "ingress", "active", "dequeue", "rptr", "wptr", "eop"}
ASSUME KiqAssumption ==
  /\ Modes \subseteq 0..3 /\ MayIgnore \subseteq Units
  /\ MaxCalls \in Nat /\ MaxMishaps \in Nat /\ CpSurgery \in BOOLEAN

\* CP_MEC_CNTL: no halt bit, one of the two, both.
Words == {"run", "part", "halt"}
NoWord == "none"
\* ingress: poll or doorbell enable; rptr: RPTR or WPTR_HI not zero; wptr: WPTR_LO
\* not zero; made: whose MQD, PQ and EOP addresses it holds.
Queue == [ingress : BOOLEAN, active : BOOLEAN, dequeue : BOOLEAN, rptr : BOOLEAN,
          wptr : BOOLEAN, made : {"old", "exact", "wrong"}, eop : BOOLEAN]

VARIABLES
  \* the GPU
  mec, hqd,
  gone,       \* reads return all ones, writes are lost
  selector,   \* GRBM_GFX_CNTL selects the queue
  ignores,    \* the unit that may ignore a write, or none
  \* memory
  image,      \* addresses in the MQD: software form, MC form, not this queue's
  pq,         \* its PQ address: 0 is empty
  \* the boot
  mode,       \* mqdNativeRestoreMode
  lease,      \* kiqAllowed; "none" where no lease is configured
  mishaps, calls,
  \* the call
  pc,
  given,      \* form of the addresses Apple passes
  tx,         \* HaltedNativeTransaction
  status,     \* of prepareQueueForNativeStart, when it was not Ready
  restore,    \* nativeRestoreAttempted
  armed,      \* nativeMecProbeArmed
  success,    \* the native call returned zero
  result,     \* of the last call: none, started, failed, refused
  \* history
  entered,    \* the native call was entered
  stray       \* a control write of the native call went past the armed guard

gpu == <<mec, hqd, gone, selector, ignores>>
memory == <<image, pq>>
bootVars == <<mode, lease, mishaps, calls>>
callVars == <<given, tx, status, restore, armed, success, result, entered, stray>>
untouched == <<gone, ignores, mode, lease, mishaps, calls, given, success, entered, stray>>
vars == <<gpu, memory, bootVars, pc, callVars>>

NoTx == [saved |-> NoWord, pq |-> 0, wptr |-> FALSE, held |-> FALSE]

Pcs == {"idle", "preflight", "ingress", "ingressCheck", "dequeuePoll", "clear", "idleCheck",
        "pointerCheck", "admit", "begin", "haltCheck", "zero", "zeroCheck", "abandon",
        "abandonCheck", "expected", "image", "native", "result", "probe", "releaseCheck",
        "contain", "finish", "eopCheck"}

Init ==
  /\ mec \in {"run", "halt"}
  /\ hqd \in [ingress : BOOLEAN, active : BOOLEAN, dequeue : {FALSE}, rptr : BOOLEAN,
              wptr : BOOLEAN, made : {"old"}, eop : {FALSE}]
  /\ gone = FALSE /\ selector = FALSE
  /\ ignores \in {"none"} \cup MayIgnore
  /\ image \in {"sw", "mc", "wrong"} /\ pq \in {0, 1}
  /\ mode \in Modes /\ lease \in {"none", "owned"} /\ mishaps = 0 /\ calls = 0
  /\ pc = "idle" /\ given = "mc" /\ tx = NoTx /\ status = "Ready" /\ restore = FALSE
  /\ armed = FALSE /\ success = FALSE /\ result = "none"
  /\ entered = FALSE /\ stray = FALSE

\* What a store may leave behind.
Stored(unit, old, new) ==
  IF gone THEN {old} ELSE IF unit = ignores THEN {old, new} ELSE {new}
MecStored(word) ==
  Stored("mec", mec, word) \cup (IF ignores = "mec" /\ ~gone /\ mec # word THEN {"part"} ELSE {})
Select(on) == selector' = IF gone THEN selector ELSE on
-----------------------------------------------------------------------------
(***************************************************************************)
(* The hardware, and the world outside the call.                           *)
(***************************************************************************)
\* The firmware carries out a dequeue request, or fetches what was submitted.
Drain ==
  /\ ~gone /\ mec # "halt" /\ hqd.active /\ hqd.dequeue
  /\ hqd' = [hqd EXCEPT !.active = FALSE]
  /\ UNCHANGED <<mec, gone, selector, ignores, memory, bootVars, pc, callVars>>
Fetch ==
  /\ ~gone /\ mec # "halt" /\ hqd.active /\ hqd.wptr /\ ~hqd.rptr
  /\ hqd' = [hqd EXCEPT !.rptr = TRUE]
  /\ UNCHANGED <<mec, gone, selector, ignores, memory, bootVars, pc, callVars>>
\* A doorbell or the polled write pointer: only through an open ingress.
Submit ==
  /\ ~gone /\ hqd.ingress /\ ~hqd.wptr
  /\ hqd' = [hqd EXCEPT !.wptr = TRUE]
  /\ UNCHANGED <<mec, gone, selector, ignores, memory, bootVars, pc, callVars>>

Mishap ==
  /\ mishaps < MaxMishaps /\ mishaps' = mishaps + 1
  /\ \/ gone' = TRUE /\ UNCHANGED <<lease, memory>>
     \/ lease = "owned" /\ lease' = "withdrawn" /\ UNCHANGED <<gone, memory>>
     \/ image' \in {"sw", "wrong"} \ {image} /\ UNCHANGED <<gone, lease, pq>>
     \/ pq' \in {0, 2} \ {pq} /\ UNCHANGED <<gone, lease, image>>
  /\ UNCHANGED <<mec, hqd, selector, ignores, mode, calls, pc, callVars>>
-----------------------------------------------------------------------------
(***************************************************************************)
(* prepareKiq and prepareQueueForNativeStart.  A snapshot reads all the    *)
(* queue registers in one step, with the store it leads to.                *)
(***************************************************************************)
Goto(label) == pc' = label /\ UNCHANGED <<selector, result>>
Refuse      == pc' = "idle" /\ result' = "refused" /\ Select(FALSE)

Call ==
  /\ pc = "idle" /\ calls < MaxCalls /\ calls' = calls + 1
  /\ given' \in {"sw", "mc"}
  /\ tx' = NoTx /\ status' = "Ready" /\ restore' = FALSE /\ success' = FALSE
  /\ entered' = FALSE /\ stray' = FALSE
  /\ IF lease = "withdrawn" THEN pc' = "idle" /\ result' = "refused"
                            ELSE pc' = "preflight" /\ result' = "none"
  /\ UNCHANGED <<gpu, memory, mode, lease, mishaps, armed>>

Preflight ==
  /\ pc = "preflight"
  /\ IF gone \/ image = "wrong"
     THEN pc' = "idle" /\ result' = "refused" /\ UNCHANGED selector
     ELSE pc' = "ingress" /\ Select(TRUE) /\ UNCHANGED result
  /\ UNCHANGED <<mec, hqd, memory, tx, status, restore, armed, untouched>>

CloseIngress ==
  /\ pc = "ingress"
  /\ IF gone THEN Refuse /\ UNCHANGED hqd
             ELSE /\ \E on \in Stored("ingress", hqd.ingress, FALSE) : hqd' = [hqd EXCEPT !.ingress = on]
                  /\ Goto("ingressCheck")
  /\ UNCHANGED <<mec, memory, tx, status, restore, armed, untouched>>

IngressCheck ==
  /\ pc = "ingressCheck"
  /\ \/ (gone \/ hqd.ingress) /\ Refuse /\ UNCHANGED hqd
     \/ ~gone /\ ~hqd.ingress /\ ~hqd.active /\ Goto("clear") /\ UNCHANGED hqd
     \/ /\ ~gone /\ ~hqd.ingress /\ hqd.active /\ Goto("dequeuePoll")
        /\ \E on \in Stored("dequeue", hqd.dequeue, TRUE) : hqd' = [hqd EXCEPT !.dequeue = on]
  /\ UNCHANGED <<mec, memory, tx, status, restore, armed, untouched>>

\* ACTIVE is polled until it clears or the time is up.
DequeuePoll ==
  /\ pc = "dequeuePoll"
  /\ \/ gone /\ Refuse /\ UNCHANGED status
     \/ ~gone /\ ~hqd.active /\ Goto("clear") /\ UNCHANGED status
     \/ ~gone /\ hqd.active /\ Goto("admit") /\ status' = "DequeueTimeout"
  /\ UNCHANGED <<mec, hqd, memory, tx, restore, armed, untouched>>

ClearRequest ==
  /\ pc = "clear" /\ Goto("idleCheck")
  /\ \E on \in Stored("dequeue", hqd.dequeue, FALSE) : hqd' = [hqd EXCEPT !.dequeue = on]
  /\ UNCHANGED <<mec, memory, tx, status, restore, armed, untouched>>

\* Mutant: only the read pointer is looked at.
PointedRptr == hqd.rptr

Busy == gone \/ hqd.active \/ hqd.dequeue \/ hqd.ingress
Pointed == hqd.rptr \/ hqd.wptr

IdleCheck ==
  /\ pc = "idleCheck"
  /\ \/ Busy /\ Refuse /\ UNCHANGED hqd
     \/ ~Busy /\ ~Pointed /\ Goto("image") /\ UNCHANGED hqd
     \/ /\ ~Busy /\ Pointed /\ Goto("pointerCheck")
        /\ \E r \in Stored("rptr", hqd.rptr, FALSE), w \in Stored("wptr", hqd.wptr, FALSE) :
             hqd' = [hqd EXCEPT !.rptr = r, !.wptr = w]
  /\ UNCHANGED <<mec, memory, tx, status, restore, armed, untouched>>

PointerCheck ==
  /\ pc = "pointerCheck"
  /\ \/ (Busy \/ (Pointed /\ mode # 3)) /\ Refuse /\ UNCHANGED status
     \/ ~Busy /\ Pointed /\ mode = 3 /\ Goto("admit") /\ status' = "PointerResetFailed"
     \/ ~Busy /\ ~Pointed /\ Goto("image") /\ UNCHANGED status
  /\ UNCHANGED <<mec, hqd, memory, tx, restore, armed, untouched>>

\* Ready: the image gets the MC addresses and is read back; a probe wants more.
WriteImage ==
  /\ pc = "image"
  /\ IF gone THEN UNCHANGED <<image, given>> ELSE image' = "mc" /\ given' = "mc"
  /\ IF gone \/ mode = 3 THEN Refuse
                         ELSE pc' = "native" /\ Select(FALSE) /\ UNCHANGED result
  /\ UNCHANGED <<mec, hqd, gone, ignores, pq, bootVars, tx, status, restore, armed, success, entered,
                 stray>>

\* timeoutNativeRestoreEligible, inactiveRetainedProbeEligible on a fresh snapshot.
Eligible ==
  /\ ~gone /\ lease = "owned" /\ image = "mc" /\ given = "mc" /\ ~hqd.ingress
  /\ IF status = "DequeueTimeout"
     THEN mode # 0 /\ hqd.active /\ hqd.dequeue
     ELSE mode = 3 /\ ~hqd.active /\ ~hqd.dequeue /\ ~hqd.rptr /\ hqd.wptr

Admit ==
  /\ pc = "admit" /\ restore' = Eligible
  /\ \/ (~Eligible \/ (mode >= 2 /\ pq = 0)) /\ Refuse /\ UNCHANGED tx
     \/ /\ Eligible /\ mode = 1
        /\ pc' = "native" /\ Select(FALSE) /\ UNCHANGED <<result, tx>>
     \/ Eligible /\ mode >= 2 /\ pq # 0 /\ Goto("begin") /\ tx' = [tx EXCEPT !.pq = pq]
  /\ UNCHANGED <<mec, hqd, memory, status, armed, untouched>>
-----------------------------------------------------------------------------
(***************************************************************************)
(* beginHaltedNative.                                                      *)
(***************************************************************************)
\* Mutant: the control word is not read before it is changed.
BeginUnsaved ==
  /\ pc = "begin"
  /\ mec' \in MecStored("halt") /\ Goto("haltCheck")
  /\ UNCHANGED <<hqd, memory, tx, status, restore, armed, untouched>>

Begin ==
  /\ pc = "begin"
  /\ IF gone THEN Refuse /\ UNCHANGED <<mec, tx>>
             ELSE /\ tx' = [tx EXCEPT !.saved = mec]
                  /\ mec' \in MecStored("halt")
                  /\ Goto("haltCheck")
  /\ UNCHANGED <<hqd, memory, status, restore, armed, untouched>>

\* From the first store on the transaction owns the control word; only a word
\* seen unchanged gives it back at once.
HaltCheck ==
  /\ pc = "haltCheck"
  /\ \/ /\ ~gone /\ mec = "halt" /\ Goto("zero")
        /\ tx' = [tx EXCEPT !.held = TRUE, !.wptr = hqd.wptr]
     \/ ~gone /\ mec # "halt" /\ mec = tx.saved /\ Refuse /\ UNCHANGED tx
     \/ /\ gone \/ (mec # "halt" /\ mec # tx.saved)
        /\ Goto("abandon") /\ tx' = [tx EXCEPT !.held = TRUE]
  /\ UNCHANGED <<mec, hqd, memory, status, restore, armed, untouched>>

\* A probe keeps the write pointer it found.
ZeroQueue ==
  /\ pc = "zero" /\ Goto("zeroCheck")
  /\ \E a \in Stored("active", hqd.active, FALSE), d \in Stored("dequeue", hqd.dequeue, FALSE),
        r \in Stored("rptr", hqd.rptr, FALSE),
        w \in IF mode = 3 THEN {hqd.wptr} ELSE Stored("wptr", hqd.wptr, FALSE) :
       hqd' = [hqd EXCEPT !.active = a, !.dequeue = d, !.rptr = r, !.wptr = w]
  /\ UNCHANGED <<mec, memory, tx, status, restore, armed, untouched>>

Expected(wptr) == wptr = (mode = 3 /\ tx.wptr)

ZeroCheck ==
  /\ pc = "zeroCheck"
  /\ Goto(IF ~Busy /\ ~hqd.rptr /\ Expected(hqd.wptr) THEN "expected" ELSE "abandon")
  /\ UNCHANGED <<mec, hqd, memory, tx, status, restore, armed, untouched>>

\* Mutant: a refused setup only reports what it holds.
AbandonReported ==
  /\ pc = "abandon" /\ Goto("abandonCheck")
  /\ UNCHANGED <<mec, hqd, memory, tx, status, restore, armed, untouched>>

Abandon ==
  /\ pc = "abandon" /\ mec' \in MecStored(tx.saved) /\ Goto("abandonCheck")
  /\ UNCHANGED <<hqd, memory, tx, status, restore, armed, untouched>>

AbandonCheck ==
  /\ pc = "abandonCheck" /\ Refuse
  /\ tx' = [tx EXCEPT !.held = gone \/ mec # tx.saved]
  /\ UNCHANGED <<mec, hqd, memory, status, restore, armed, untouched>>

\* The PQ address is read again; a different one refuses, with the MEC halted.
\* A probe arms the guard on the native control writes.
CompareExpected ==
  /\ pc = "expected"
  /\ IF gone \/ pq # tx.pq THEN Refuse /\ UNCHANGED armed
                           ELSE Goto("native") /\ armed' = (mode = 3)
  /\ UNCHANGED <<mec, hqd, memory, tx, status, restore, untouched>>
-----------------------------------------------------------------------------
(***************************************************************************)
(* Apple's startKIQ.                                                       *)
(***************************************************************************)
\* Mutant: the guard is not asked.
EffectiveUnguarded(word, audited) == word

\* preserveNativeMecHalt: an armed guard adds the halt bits to the one write it was
\* written for, by caller, client, flag and context, in wrapGcCgsWrite2; any other
\* write, those of wrapGcCgsWrite and wrapGcCgsWriteExt among them, passes as it is.
Effective(word, audited) == IF armed /\ audited THEN "halt" ELSE word
NativeControl ==
  /\ pc = "native" /\ entered' = TRUE
  /\ \E word \in {"run", "halt"}, audited \in BOOLEAN :
       /\ mec' \in MecStored(Effective(word, audited))
       /\ stray' = (stray \/ (armed /\ ~audited))
  /\ UNCHANGED <<hqd, gone, selector, ignores, memory, bootVars, pc, given, tx, status, restore,
                 armed, success, result>>
NativeProgram ==
  /\ pc = "native" /\ ~gone /\ entered' = TRUE
  /\ \E q \in Queue :
       /\ q.made # "old" /\ q.active
       /\ q.dequeue => hqd.dequeue
       /\ q.wptr => hqd.wptr
       /\ q.rptr => hqd.rptr
       /\ hqd' = q
  /\ UNCHANGED <<mec, gone, selector, ignores, memory, bootVars, pc, given, tx, status, restore,
                 armed, success, result, stray>>
NativeReturn ==
  /\ pc = "native" /\ entered' = TRUE /\ success' \in BOOLEAN
  /\ pc' = "result" /\ Select(TRUE)
  /\ UNCHANGED <<mec, hqd, gone, ignores, memory, bootVars, given, tx, status, restore,
                 armed, result, stray>>
-----------------------------------------------------------------------------
(***************************************************************************)
(* The rest of wrapKiqStart, and releaseHaltedNative.                      *)
(***************************************************************************)
\* haltedNativeResultVerified.
Verified ==
  /\ ~gone /\ success /\ mec = "halt" /\ hqd.active /\ ~hqd.dequeue /\ hqd.made = "exact"
  /\ hqd.eop /\ ~hqd.rptr /\ Expected(hqd.wptr)

Result ==
  /\ pc = "result"
  /\ \/ ~tx.held /\ Goto("finish") /\ UNCHANGED mec
     \/ tx.held /\ mode = 3 /\ Goto("probe") /\ UNCHANGED mec
     \/ tx.held /\ mode # 3 /\ Verified /\ mec' \in MecStored(tx.saved) /\ Goto("releaseCheck")
     \/ tx.held /\ mode # 3 /\ ~Verified /\ mec' \in MecStored("halt") /\ Goto("contain")
  /\ UNCHANGED <<hqd, memory, tx, status, restore, armed, untouched>>

\* A probe never starts the queue: ingress closed, MEC halted, then disarmed.
Probe ==
  /\ pc = "probe" /\ Refuse
  /\ \E on \in Stored("ingress", hqd.ingress, FALSE) : hqd' = [hqd EXCEPT !.ingress = on]
  /\ mec' \in MecStored("halt") /\ armed' = FALSE
  /\ UNCHANGED <<memory, tx, status, restore, untouched>>

ReleaseCheck ==
  /\ pc = "releaseCheck"
  /\ IF ~gone /\ mec = tx.saved
     THEN tx' = [tx EXCEPT !.held = FALSE] /\ Goto("finish") /\ UNCHANGED mec
     ELSE mec' \in MecStored("halt") /\ Goto("contain") /\ UNCHANGED tx
  /\ UNCHANGED <<hqd, memory, status, restore, armed, untouched>>

Contain ==
  /\ pc = "contain" /\ Refuse
  /\ \E on \in Stored("ingress", hqd.ingress, FALSE) : hqd' = [hqd EXCEPT !.ingress = on]
  /\ UNCHANGED <<mec, memory, tx, status, restore, armed, untouched>>

Return == pc' = "idle" /\ result' = (IF success THEN "started" ELSE "failed") /\ Select(FALSE)

\* programEopForNativeStart.
Finish ==
  /\ pc = "finish"
  /\ IF success /\ CpSurgery /\ ~restore
     THEN /\ \E e \in Stored("eop", hqd.eop, TRUE) : hqd' = [hqd EXCEPT !.eop = e]
          /\ Goto("eopCheck")
     ELSE Return /\ UNCHANGED hqd
  /\ UNCHANGED <<mec, memory, tx, status, restore, armed, untouched>>
EopCheck ==
  /\ pc = "eopCheck"
  /\ IF ~gone /\ hqd.eop THEN Return ELSE Refuse
  /\ UNCHANGED <<mec, hqd, memory, tx, status, restore, armed, untouched>>

Prepare == Preflight \/ CloseIngress \/ IngressCheck \/ DequeuePoll \/ ClearRequest
             \/ IdleCheck \/ PointerCheck \/ WriteImage \/ Admit
Halted  == Begin \/ HaltCheck \/ ZeroQueue \/ ZeroCheck \/ Abandon \/ AbandonCheck
             \/ CompareExpected
Native  == NativeControl \/ NativeProgram \/ NativeReturn
After   == Result \/ Probe \/ ReleaseCheck \/ Contain \/ Finish \/ EopCheck
Next == Drain \/ Fetch \/ Submit \/ Mishap \/ Call \/ Prepare \/ Halted \/ Native \/ After
Spec == Init /\ [][Next]_vars
-----------------------------------------------------------------------------
(***************************************************************************)
(* Properties.                                                             *)
(***************************************************************************)
\* Everything holds a value of its kind; a transaction that owns the control
\* word knows what it was.
TypeOK ==
  /\ mec \in Words /\ hqd \in Queue
  /\ {gone, selector, restore, armed, success, entered, stray} \subseteq BOOLEAN
  /\ image \in {"sw", "mc", "wrong"} /\ pq \in 0..2 /\ given \in {"sw", "mc"}
  /\ lease \in {"none", "owned", "withdrawn"} /\ pc \in Pcs
  /\ tx \in [saved : Words \cup {NoWord}, pq : 0..2, wptr : BOOLEAN, held : BOOLEAN]
  /\ tx.held => tx.saved # NoWord
  /\ result \in {"none", "started", "failed", "refused"}

\* Apple's sequence is entered as if the queue were fresh only when it is: no
\* ingress, not active, no dequeue pending, pointers zero -- whatever the
\* previous guest left and whatever ignored a store (prepareQueueForNativeStart).
ReadyMeansQuiet ==
  pc = "native" /\ ~restore /\ ~entered =>
    ~hqd.ingress /\ ~hqd.active /\ ~hqd.dequeue /\ ~hqd.rptr /\ ~hqd.wptr

\* The MEC runs again over a queue programmed while it was halted only if that
\* queue is the one that was asked for, and under the word it had before;
\* without the halted path a started queue has its EOP ring where surgery is on.
StartedMeansSound ==
  result = "started" =>
    /\ ~tx.held
    /\ mode = 2 /\ restore => hqd.active /\ hqd.made = "exact" /\ hqd.eop /\ mec = tx.saved
    /\ CpSurgery /\ ~restore => hqd.eop

\* A transaction that says it no longer holds the control word gave it back:
\* partial halts, lost stores and lost readbacks included (HaltedNativeTransaction.held).
NotHeldMeansRestored == pc = "idle" /\ tx.saved # NoWord /\ ~tx.held => mec = tx.saved

\* A probe is an observation.  It never reports a started queue; the MEC stays
\* halted as long as the native call makes only the control write the guard knows
\* (preserveNativeMecHalt); and whatever Apple wrote, past the guard or not, the
\* returned call has the MEC halted and the ingress closed again, where these
\* stores land (wrapKiqStart).
ProbeContained ==
  mode = 3 =>
    /\ result # "started"
    /\ entered /\ ~stray => mec = "halt"
    /\ entered /\ pc = "idle" /\ ~gone =>
         (ignores # "mec" => mec = "halt") /\ (ignores # "ingress" => ~hqd.ingress)

\* "A setup failure after the halt write must not leave the MEC halted for the
\* rest of the boot" (KiqQueuePreparation.hpp:75): where nothing changes beneath
\* the call and stores to the control word land, a call refused before the native
\* sequence gives the word back, whatever other unit made the setup fail.
SetupFailureRestores ==
  pc = "idle" /\ result = "refused" /\ ~entered /\ mishaps = 0 /\ ignores # "mec" => ~tx.held

\* A call that returns with the word in hand leaves the MEC halted and not
\* running over a queue nobody verified: a moved PQ address, a failed verification
\* and a probe alike (prepareKiq, wrapKiqStart), where the stores land.
HeldMeansHalted == pc = "idle" /\ tx.held /\ ~gone /\ ignores # "mec" => mec = "halt"

\* What that comment says, without its exception: a refused call has given the word
\* back wherever it could.  A PQ address that changed during the setup breaks it.
SetupFailureNeverHalts ==
  pc = "idle" /\ result = "refused" /\ ~entered /\ ~gone /\ ignores # "mec" => ~tx.held

\* Every way out of the call puts the register selector back.
SelectorRestored == pc = "idle" /\ ~gone => ~selector

\* What the call borrows it returns, or says that it did not.
BorrowedGivenBack ==
  NotHeldMeansRestored /\ SetupFailureRestores /\ HeldMeansHalted /\ SelectorRestored

\* What a call that returned may have left running.
OutcomesSound == StartedMeansSound /\ ProbeContained
=============================================================================
