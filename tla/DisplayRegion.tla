---------------------------- MODULE DisplayRegion ----------------------------
(***************************************************************************)
(* The display region QEMU shares with the guest driver.  With stage 0 the *)
(* display writeback engine fills its buffers; with stage 2 a queue of     *)
(* SDMA0 copies the scanout.  The 100 ms poller wbTick, the 1 ms poller    *)
(* sdmaTick and the power handler run without a lock between them; QEMU    *)
(* reads the control page while they write it, and when it exits it clears *)
(* the enable bits on the page's stop list.                                *)
(***************************************************************************)
EXTENDS Naturals, FiniteSets

CONSTANTS
  Modes,        \* geometries macOS may set
  None,
  MaxBuffers,   \* buffers of the region, 4
  LeftWords,    \* status words an earlier boot may have left
  MaxSeq,       \* bound: publications of a geometry
  MaxCopies     \* bound: submissions to the queue

Indices == 0..(MaxBuffers - 1)

ASSUME DisplayAssumption ==
  /\ None \notin Modes /\ "torn" \notin Modes \cup {None}
  /\ MaxBuffers \in Nat \ {0, 1} /\ MaxSeq \in Nat \ {0} /\ MaxCopies \in Nat
  /\ LeftWords \subseteq [seq : Nat, idx : Indices]

VARIABLES
  stage,        \* rgpusdmacopy: 0 or 2
  pc, job,      \* of each thread: where it is, what it is doing
  wb,           \* wbFailed, wbStarted, wbTiming, wbAgp.ok, inheritedChecked
  sdma,         \* the sdma* variables
  dwb,          \* hardware: the mode writeback runs with, or None
  windows,      \* hardware: AGP windows into the region
  queueOn,      \* hardware: RB and IB enable of RLC0
  engine,       \* hardware: the copy the queue has not finished
  behind,       \* hardware: the copy behind it in the ring
  fence,        \* the status word the copy writes, at +0x184
  buf,          \* what each buffer holds; None is nothing of this boot
  image,        \* whether a cursor image has landed
  word,         \* history: whether this boot found the status word zeroed
  ctl,          \* the guest's half of the control page
  qemu,         \* RgpuDisplay
  exited

driver == <<wb, sdma>>
hardware == <<dwb, windows, queueOn>>
region == <<engine, behind, fence, buf, image, word>>
vars == <<stage, pc, job, driver, hardware, region, ctl, qemu, exited>>

Threads == {"wb", "sdma", "power"}
Shapes == Modes \cup {None}
Sources == {"dwb", "rlc0"}
Publishing == {"unlist", "list", "active", "size", "rest", "seq"}
NoJob == [active |-> FALSE, mode |-> None, frame |-> FALSE, cursor |-> FALSE,
          goal |-> "list"]
Idle == [state |-> "idle", seq |-> 0, idx |-> 0, mode |-> None, frame |-> FALSE,
         cursor |-> FALSE]

\* The page as QEMU zeroes it when it starts, or as an earlier boot of the guest under this
\* QEMU left it after a whole publication, an inactive one of a power-off perhaps.
Blank == [magic |-> FALSE, active |-> FALSE, size |-> None, rest |-> None, seq |-> 0,
          stops |-> {}, cursor |-> FALSE]
LeftOver == [active : {TRUE}, size : Modes] \cup [active : {FALSE}, size : Shapes]
Earlier == {[Blank EXCEPT !.magic = TRUE, !.active = c.active, !.size = c.size,
                          !.rest = c.size, !.seq = 1, !.stops = Sources] : c \in LeftOver}

\* QEMU shows its placeholder, or what it was last told: by an active page, by that page.
Waiting == [at |-> "idle", loaded |-> 0, size |-> None, configured |-> FALSE,
            seq |-> 0, shape |-> <<None, None>>, error |-> 0]
Showing(c) == {[Waiting EXCEPT !.configured = TRUE, !.seq = IF c.active THEN c.seq ELSE 0,
                               !.shape = <<m, m>>] :
                 m \in IF c.active THEN {c.size} ELSE Modes}

Init ==
  /\ stage \in {0, 2}
  /\ pc = [t \in Threads |-> IF t = "wb" THEN "idle" ELSE "off"]
  /\ job = [t \in Threads |-> NoJob]
  /\ wb = [failed |-> FALSE, started |-> FALSE, timing |-> None, plan |-> FALSE,
           checked |-> FALSE]
  /\ sdma = [ready |-> FALSE, disabled |-> FALSE, inFlight |-> FALSE, seq |-> 0, last |-> 0,
             pending |-> FALSE, published |-> None]
  /\ dwb \in Shapes /\ windows = {} /\ queueOn = FALSE
  /\ engine = Idle /\ behind = Idle /\ image = FALSE
  \* Nothing in stage 2 clears what an earlier boot left at +0x184 or in the buffers, which
  \* may be half a picture.
  /\ \/ /\ ctl = Blank /\ qemu = Waiting /\ word = "zeroed"
        /\ fence = [seq |-> 0, idx |-> 0] /\ buf = [i \in Indices |-> None]
     \/ /\ ctl \in Earlier /\ qemu \in {Waiting} \cup Showing(ctl) /\ word = "left"
        /\ fence \in LeftWords /\ buf = [i \in Indices |-> "torn"]
  /\ exited = FALSE

At(t, l) == ~exited /\ pc[t] = l
Goto(t, l) == pc' = [pc EXCEPT ![t] = l]

\* wbPublishStops empties the list before it writes the entries.
Unlist(t) ==
  /\ At(t, "unlist")
  /\ ctl' = [ctl EXCEPT !.stops = {}]
  /\ Goto(t, "list")
  /\ UNCHANGED <<stage, job, driver, hardware, region, qemu, exited>>

\* Mutant: the list as it was before it named the queue.
ListWriteback(t) ==
  /\ At(t, "list")
  /\ ctl' = [ctl EXCEPT !.stops = {"dwb"}]
  /\ Goto(t, IF job[t].goal = "list" THEN "poll" ELSE "active")
  /\ job' = IF t = "sdma" THEN job ELSE [job EXCEPT ![t].mode = wb.timing]
  /\ UNCHANGED <<stage, driver, hardware, region, qemu, exited>>

List(t) ==
  /\ At(t, "list")
  /\ ctl' = [ctl EXCEPT !.stops = Sources]
  /\ Goto(t, IF job[t].goal = "list" THEN "poll" ELSE "active")
  /\ job' = IF t = "sdma" THEN job ELSE [job EXCEPT ![t].mode = wb.timing]
  /\ UNCHANGED <<stage, driver, hardware, region, qemu, exited>>

\* publish: the flags, the fields one after the other, and the sequence number last.
PutActive(t) ==
  /\ At(t, "active")
  /\ ctl' = [ctl EXCEPT !.magic = TRUE, !.active = job[t].active]
  /\ Goto(t, "size")
  /\ UNCHANGED <<stage, job, driver, hardware, region, qemu, exited>>

PutSize(t) ==
  /\ At(t, "size")
  /\ ctl' = [ctl EXCEPT !.size = job[t].mode]
  /\ Goto(t, "rest")
  /\ UNCHANGED <<stage, job, driver, hardware, region, qemu, exited>>

PutRest(t) ==
  /\ At(t, "rest")
  /\ ctl' = [ctl EXCEPT !.rest = job[t].mode]
  /\ Goto(t, "seq")
  /\ UNCHANGED <<stage, job, driver, hardware, region, qemu, exited>>

\* Where each thread goes on after publish; sdmaCopyStep notes what it published.
After(t) == CASE t = "wb" -> "idle" [] t = "sdma" -> "submit" [] OTHER -> "done"

\* Mutant: a publication that does not count.
WriteSeqOnce(t) ==
  /\ At(t, "seq")
  /\ ctl' = [ctl EXCEPT !.seq = IF @ = 0 THEN 1 ELSE @]
  /\ sdma' = IF t = "sdma" THEN [sdma EXCEPT !.published = job[t].mode] ELSE sdma
  /\ Goto(t, After(t))
  /\ job' = IF t = "sdma" THEN job ELSE [job EXCEPT ![t] = NoJob]
  /\ UNCHANGED <<stage, wb, hardware, region, qemu, exited>>

WriteSeq(t) ==
  /\ At(t, "seq")
  /\ ctl' = [ctl EXCEPT !.seq = @ + 1]
  /\ sdma' = IF t = "sdma" THEN [sdma EXCEPT !.published = job[t].mode] ELSE sdma
  /\ Goto(t, After(t))
  /\ job' = IF t = "sdma" THEN job ELSE [job EXCEPT ![t] = NoJob]
  /\ UNCHANGED <<stage, wb, hardware, region, qemu, exited>>

\* Room under the bound for one more publication.
Room == ctl.seq + Cardinality({t \in Threads : pc[t] \in Publishing}) < MaxSeq

Publish(t, active, mode) ==
  /\ Room
  /\ Goto(t, "unlist")
  /\ job' = [job EXCEPT ![t] = [NoJob EXCEPT !.active = active, !.mode = mode,
                                             !.goal = "publish"]]

\* The first wbStep stops a writeback left armed before this boot and asks for power events.
FirstStep ==
  /\ At("wb", "idle") /\ ~wb.failed /\ ~wb.checked
  /\ wb' = [wb EXCEPT !.checked = TRUE]
  /\ dwb' = None
  /\ Goto("power", "on")
  /\ UNCHANGED <<stage, job, sdma, windows, queueOn, region, ctl, qemu, exited>>

\* wbMapCtl finds no region, or wbEnsureAgp or start refuses.
Refuse ==
  /\ ~exited /\ wb.checked /\ ~wb.failed
  /\ pc["wb"] \in {"idle", "agp", "start"}
  /\ wb' = [wb EXCEPT !.failed = TRUE]
  /\ Goto("wb", "idle")
  /\ UNCHANGED <<stage, job, sdma, hardware, region, ctl, qemu, exited>>

\* wbStep with an output to show that writeback does not run for, or with the copy.  macOS
\* sets a mode, or switches the output off, at any time.
Setup ==
  /\ At("wb", "idle") /\ wb.checked /\ ~wb.failed
  /\ Goto("wb", "agp")
  /\ \/ stage = 2 /\ job' = [job EXCEPT !["wb"] = NoJob]
     \/ \E mode \in Modes :
          /\ stage = 0 /\ ~(wb.started /\ mode = wb.timing /\ dwb = mode)
          /\ job' = [job EXCEPT !["wb"] = [NoJob EXCEPT !.mode = mode]]
  /\ UNCHANGED <<stage, driver, hardware, region, ctl, qemu, exited>>

\* wbEnsureAgp, and in stage 2 the arming of the copy poller.
EnsureAgp ==
  /\ At("wb", "agp")
  /\ wb' = [wb EXCEPT !.plan = TRUE]
  /\ windows' = windows \cup {"mm"}
  /\ pc' = IF stage = 0 THEN [pc EXCEPT !["wb"] = "start"]
           ELSE [pc EXCEPT !["wb"] = "idle",
                           !["sdma"] = IF @ = "off" /\ ~sdma.disabled THEN "idle" ELSE @]
  /\ UNCHANGED <<stage, job, sdma, dwb, queueOn, region, ctl, qemu, exited>>

\* Writeback is programmed, then published.
Start ==
  /\ At("wb", "start")
  /\ dwb' = job["wb"].mode
  /\ wb' = [wb EXCEPT !.timing = job["wb"].mode, !.started = TRUE]
  /\ Publish("wb", TRUE, None)
  /\ UNCHANGED <<stage, sdma, windows, queueOn, region, ctl, qemu, exited>>

\* wbStopWriteback: the output is off.
StopWriteback ==
  /\ At("wb", "idle") /\ stage = 0 /\ wb.checked /\ ~wb.failed
  /\ wb.started
  /\ dwb' = None
  /\ wb' = [wb EXCEPT !.started = FALSE]
  /\ Publish("wb", FALSE, None)
  /\ UNCHANGED <<stage, sdma, windows, queueOn, region, ctl, qemu, exited>>

\* sdmaTick: a poller that finds the copy disabled is not armed again.
SdmaTick ==
  /\ At("sdma", "idle")
  /\ Goto("sdma", IF sdma.disabled THEN "off" ELSE "queue")
  /\ UNCHANGED <<stage, job, driver, hardware, region, ctl, qemu, exited>>

QueueRefused ==
  /\ At("sdma", "queue") /\ ~sdma.ready
  /\ sdma' = [sdma EXCEPT !.disabled = TRUE]
  /\ Goto("sdma", "idle")
  /\ UNCHANGED <<stage, job, wb, hardware, region, ctl, qemu, exited>>

\* sdmaQueueUp clears the ring, opens the window and enables an idle queue; then the list.
QueueUp ==
  /\ At("sdma", "queue")
  /\ IF sdma.ready THEN
       /\ Goto("sdma", "poll")
       /\ UNCHANGED <<job, sdma, windows, queueOn, engine, behind>>
     ELSE
       /\ ~queueOn
       /\ windows' = windows \cup {"gc"}
       /\ queueOn' = TRUE /\ engine' = Idle /\ behind' = Idle
       /\ sdma' = [sdma EXCEPT !.ready = TRUE]
       /\ job' = [job EXCEPT !["sdma"] = NoJob]
       /\ Goto("sdma", "unlist")
  /\ UNCHANGED <<stage, wb, dwb, fence, buf, image, word, ctl, qemu, exited>>

\* The fence has landed, or an earlier boot left one with the same number: the cursor image
\* it covers is published with its size.
Landed ==
  /\ At("sdma", "poll") /\ sdma.inFlight /\ fence.seq = sdma.seq
  /\ sdma' = [sdma EXCEPT !.inFlight = FALSE, !.pending = FALSE]
  /\ ctl' = [ctl EXCEPT !.cursor = @ \/ sdma.pending]
  /\ UNCHANGED <<stage, pc, job, wb, hardware, region, qemu, exited>>

\* A copy that is only slow is waited for.
Wait ==
  /\ At("sdma", "poll") /\ sdma.inFlight /\ fence.seq # sdma.seq
  /\ Goto("sdma", "idle")
  /\ UNCHANGED <<stage, job, driver, hardware, region, ctl, qemu, exited>>

\* sdmaShutdown: what the queue has not done by then it does not do.
Shutdown ==
  /\ queueOn' = (queueOn /\ ~sdma.ready)
  /\ engine' = IF sdma.ready THEN Idle ELSE engine
  /\ behind' = IF sdma.ready THEN Idle ELSE behind
  /\ windows' = IF sdma.ready THEN windows \ {"gc"} ELSE windows
  /\ sdma' = [sdma EXCEPT !.ready = FALSE, !.disabled = TRUE]

Hang ==
  /\ At("sdma", "poll") /\ sdma.inFlight /\ fence.seq # sdma.seq
  /\ Shutdown
  /\ Goto("sdma", "idle")
  /\ UNCHANGED <<stage, job, wb, dwb, fence, buf, image, word, ctl, qemu, exited>>

\* With nothing in flight: a frame, a cursor image, both, or nothing to do.
Sample ==
  /\ At("sdma", "poll") /\ ~sdma.inFlight
  /\ \/ /\ Goto("sdma", "idle")
        /\ UNCHANGED job
     \/ \E mode \in Modes, frame, cursor \in BOOLEAN :
          /\ frame \/ cursor
          /\ LET new == frame /\ mode # sdma.published IN
             /\ new => Room
             /\ Goto("sdma", IF new THEN "unlist" ELSE "submit")
          /\ job' = [job EXCEPT !["sdma"] =
               [NoJob EXCEPT !.active = TRUE, !.mode = mode, !.frame = frame,
                             !.cursor = cursor, !.goal = "publish"]]
  /\ UNCHANGED <<stage, driver, hardware, region, ctl, qemu, exited>>

\* Mutant: a submission that only carries a cursor takes the next buffer, too.
BufferForNext(frame) == (sdma.last + 1) % MaxBuffers

\* A cursor-only submission fences the buffer already shown.
BufferFor(frame) == IF frame THEN (sdma.last + 1) % MaxBuffers ELSE sdma.last

\* The ring is written and the write pointer moved; a queue that was stopped meanwhile
\* takes no notice.  The first submission of a boot may be taken for landed when it has not,
\* and then the next comes to stand behind it.
Enqueue(idx) ==
  LET j == job["sdma"]
      copy == [state |-> "queued", seq |-> sdma.seq + 1, idx |-> idx, mode |-> j.mode,
               frame |-> j.frame, cursor |-> j.cursor] IN
  /\ IF engine.state = "idle" THEN engine' = copy /\ UNCHANGED behind
                              ELSE behind' = copy /\ UNCHANGED engine
  /\ sdma' = [sdma EXCEPT !.inFlight = TRUE, !.seq = @ + 1, !.last = idx,
                          !.pending = @ \/ j.cursor]

\* Mutant: the ring of buffers is not closed.
SubmitUnbounded ==
  /\ At("sdma", "submit") /\ sdma.seq < MaxCopies
  /\ Enqueue(IF job["sdma"].frame THEN sdma.last + 1 ELSE sdma.last)
  /\ Goto("sdma", "idle")
  /\ job' = [job EXCEPT !["sdma"] = NoJob]
  /\ UNCHANGED <<stage, wb, hardware, fence, buf, image, word, ctl, qemu, exited>>

Submit ==
  /\ At("sdma", "submit") /\ sdma.seq < MaxCopies
  /\ Enqueue(BufferFor(job["sdma"].frame))
  /\ Goto("sdma", "idle")
  /\ job' = [job EXCEPT !["sdma"] = NoJob]
  /\ UNCHANGED <<stage, wb, hardware, fence, buf, image, word, ctl, qemu, exited>>

\* The engine: the cursor image, the bands of the frame, and the fence behind them.
Reach == queueOn /\ "gc" \in windows
Copy ==
  /\ ~exited /\ Reach /\ engine.state = "queued"
  /\ engine' = [engine EXCEPT !.state = "copying"]
  /\ image' = (image \/ engine.cursor)
  /\ buf' = IF engine.frame THEN [buf EXCEPT ![engine.idx] = "torn"] ELSE buf
  /\ UNCHANGED <<stage, pc, job, driver, hardware, behind, fence, word, ctl, qemu,
                 exited>>
Land ==
  /\ ~exited /\ Reach /\ engine.state = "copying"
  /\ engine' = behind /\ behind' = Idle
  /\ buf' = IF engine.frame THEN [buf EXCEPT ![engine.idx] = engine.mode] ELSE buf
  /\ fence' = [seq |-> engine.seq, idx |-> engine.idx]
  /\ word' = IF word = "left" /\ engine.frame THEN "renewed" ELSE word
  /\ UNCHANGED <<stage, pc, job, driver, hardware, image, ctl, qemu, exited>>

\* wbPowerHandler, on the thread that announces the end of the guest.
PowerBegin ==
  /\ At("power", "on")
  /\ wb' = [wb EXCEPT !.failed = TRUE]
  /\ Goto("power", "stop")
  /\ UNCHANGED <<stage, job, sdma, hardware, region, ctl, qemu, exited>>

PowerStop ==
  /\ At("power", "stop")
  /\ dwb' = None
  /\ Goto("power", "sdma")
  /\ UNCHANGED <<stage, job, driver, windows, queueOn, region, ctl, qemu, exited>>

PowerSdma ==
  /\ At("power", "sdma")
  /\ Shutdown
  /\ Goto("power", "close")
  /\ UNCHANGED <<stage, job, wb, dwb, fence, buf, image, word, ctl, qemu, exited>>

PowerClose ==
  /\ At("power", "close")
  /\ windows' = windows \ {"mm"}
  /\ wb' = [wb EXCEPT !.started = FALSE]
  /\ Publish("power", FALSE, None)
  /\ UNCHANGED <<stage, sdma, dwb, queueOn, region, ctl, qemu, exited>>

\* rgpu_gfx_update: the sequence number first, then a private copy of the page.
Load ==
  /\ ~exited /\ qemu.at = "idle" /\ ctl.magic /\ ctl.active
  /\ ~qemu.configured => ctl.seq # qemu.error
  /\ qemu.configured => ctl.seq # qemu.seq
  /\ qemu' = [qemu EXCEPT !.at = "size", !.loaded = ctl.seq]
  /\ UNCHANGED <<stage, pc, job, driver, hardware, region, ctl, exited>>
SnapSize ==
  /\ ~exited /\ qemu.at = "size"
  /\ qemu' = [qemu EXCEPT !.at = "rest", !.size = ctl.size]
  /\ UNCHANGED <<stage, pc, job, driver, hardware, region, ctl, exited>>
\* rgpu_configure accepts any shape within its bounds, mixed or not.
Configure ==
  /\ ~exited /\ qemu.at = "rest"
  /\ qemu' = IF None \in {qemu.size, ctl.rest}
             THEN [qemu EXCEPT !.at = "idle", !.loaded = 0, !.size = None,
                               !.configured = FALSE, !.seq = 0, !.shape = <<None, None>>,
                               !.error = qemu.loaded]
             ELSE [qemu EXCEPT !.at = "idle", !.loaded = 0, !.size = None,
                               !.configured = TRUE, !.seq = qemu.loaded,
                               !.shape = <<qemu.size, ctl.rest>>]
  /\ UNCHANGED <<stage, pc, job, driver, hardware, region, ctl, exited>>
\* Ten seconds without an active guest bring the placeholder back.
ShowWaiting ==
  /\ ~exited /\ qemu.at = "idle" /\ ~(ctl.magic /\ ctl.active) /\ qemu.configured
  /\ qemu' = [qemu EXCEPT !.configured = FALSE, !.seq = 0, !.shape = <<None, None>>]
  /\ UNCHANGED <<stage, pc, job, driver, hardware, region, ctl, exited>>

\* rgpu_stop_device_writes, once the virtual CPUs have stopped wherever they are.
Exit ==
  /\ ~exited /\ exited' = TRUE
  /\ dwb' = IF ctl.magic /\ "dwb" \in ctl.stops THEN None ELSE dwb
  /\ queueOn' = (queueOn /\ ~(ctl.magic /\ "rlc0" \in ctl.stops))
  /\ ctl' = IF ctl.magic THEN [ctl EXCEPT !.active = FALSE] ELSE ctl
  /\ UNCHANGED <<stage, pc, job, driver, windows, region, qemu>>

Next ==
  \/ \E t \in Threads :
       Unlist(t) \/ List(t) \/ PutActive(t) \/ PutSize(t) \/ PutRest(t) \/ WriteSeq(t)
  \/ FirstStep \/ Refuse \/ Setup \/ EnsureAgp \/ Start \/ StopWriteback
  \/ SdmaTick \/ QueueRefused \/ QueueUp \/ Landed \/ Wait \/ Hang \/ Sample \/ Submit
  \/ Copy \/ Land
  \/ PowerBegin \/ PowerStop \/ PowerSdma \/ PowerClose
  \/ Load \/ SnapSize \/ Configure \/ ShowWaiting
  \/ Exit

Spec == Init /\ [][Next]_vars

----------------------------------------------------------------------------
Places ==
  [t \in Threads |->
    Publishing \cup CASE t = "wb" -> {"idle", "agp", "start"}
                      [] t = "sdma" -> {"off", "idle", "queue", "poll", "submit"}
                      [] OTHER -> {"off", "on", "stop", "sdma", "close", "done"}]
Jobs == [active : BOOLEAN, mode : Shapes, frame : BOOLEAN, cursor : BOOLEAN,
         goal : {"list", "publish"}]
Setups == [failed : BOOLEAN, started : BOOLEAN, timing : Shapes, plan : BOOLEAN,
           checked : BOOLEAN]
Pollers == [ready : BOOLEAN, disabled : BOOLEAN, inFlight : BOOLEAN, seq : 0..MaxCopies,
            last : Indices, pending : BOOLEAN, published : Shapes]
Copies == [state : {"idle", "queued", "copying"}, seq : 0..MaxCopies, idx : Indices,
           mode : Shapes, frame : BOOLEAN, cursor : BOOLEAN]
Pages == [magic : BOOLEAN, active : BOOLEAN, size : Shapes, rest : Shapes, seq : 0..MaxSeq,
          stops : SUBSET Sources, cursor : BOOLEAN]
Readers == [at : {"idle", "size", "rest"}, loaded : 0..MaxSeq, size : Shapes,
            configured : BOOLEAN, seq : 0..MaxSeq, shape : Shapes \X Shapes,
            error : 0..MaxSeq]

\* Types of the shared state; the buffer index stays inside the region (sdmaCopyStep).
TypeOK ==
  /\ stage \in {0, 2} /\ exited \in BOOLEAN
  /\ pc \in [Threads -> UNION {Places[t] : t \in Threads}] /\ \A t \in Threads : pc[t] \in Places[t]
  /\ job \in [Threads -> Jobs]
  /\ wb \in Setups /\ sdma \in Pollers
  /\ dwb \in Shapes /\ windows \subseteq {"mm", "gc"} /\ queueOn \in BOOLEAN
  /\ engine \in Copies /\ behind \in Copies /\ fence \in [seq : Nat, idx : Indices]
  /\ buf \in [Indices -> Shapes \cup {"torn"}] /\ image \in BOOLEAN
  /\ word \in {"zeroed", "left", "renewed"}
  /\ ctl \in Pages /\ qemu \in Readers

\* QEMU may copy the page in the middle of a publication and accept a mixture of two
\* geometries.  Once no publication is under way, a QEMU that is up to date with guest_seq has
\* the geometry that was published, whole, and has not rejected it for good (publish writes
\* guest_seq last; rgpu_gfx_update compares).
SettledGeometry ==
  (/\ ctl.magic /\ ctl.active /\ qemu.at = "idle" /\ pc["power"] = "on"
   /\ \A t \in Threads : pc[t] \notin Publishing)
    => /\ ctl.size = ctl.rest
       /\ qemu.configured /\ qemu.seq = ctl.seq => qemu.shape = <<ctl.size, ctl.rest>>
       /\ ~qemu.configured => qemu.error # ctl.seq

\* The status word never names a buffer the copy engine is writing or has left half written,
\* although a hang, a power-off or a mode change may fall anywhere; between two copies it
\* names a frame of the published geometry, also after submissions that carried a cursor
\* only; and a cursor is announced only after its image has landed (sdmaCopyStep).  All this
\* is claimed of a status word QEMU zeroed before this boot.  Of a word an earlier boot left
\* nothing is claimed until the first frame of this boot has landed (it may name the buffer
\* that frame is copied to), nor ever of the cursor (its number may stand for the fence of
\* the first submission).
PictureWhole ==
  /\ word # "left" =>
       /\ buf[fence.idx] # "torn"
       /\ engine.state # "idle" /\ engine.frame => engine.idx # fence.idx
       /\ (/\ pc["sdma"] = "idle" /\ ~sdma.inFlight /\ ~sdma.disabled
          /\ sdma.published # None)
            => buf[fence.idx] = sdma.published
  /\ word = "zeroed" /\ ctl.cursor => image

\* QEMU clears the listed enable bits when it exits.  Wherever the guest is stopped, short of
\* the setup of writeback itself and of a power-off under way, that stops writeback, and it
\* stops the queue while it has a copy to do once a geometry was published (wbPublishStops,
\* rgpu_stop_device_writes).  That is not claimed of the queue before the first frame of a boot
\* that found a left-over status word: taken for landed, the copy runs on while the list is
\* written anew for the next geometry.
ForcedStopQuiet ==
  exited /\ pc["power"] = "on" =>
    /\ pc["wb"] = "idle" => dwb = None
    /\ engine.state # "idle" /\ sdma.published # None /\ word # "left" => ~queueOn
=============================================================================
