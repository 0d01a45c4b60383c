---------------------------- MODULE MCQueueMemory ----------------------------
(***************************************************************************)
(* The plan of video memory and the start of the queue that lives in it.   *)
(* The two modules share no variable, so a behaviour explores one of them  *)
(* while the other rests in one initial state.                             *)
(*                                                                         *)
(* Video memory of sixteen units, half of it CPU-visible, pages of two; MC *)
(* addresses from 64, physical ones from 32, words up to 127.              *)
(***************************************************************************)
EXTENDS VramLayout, KiqStart

Window(a, n) == [address |-> a, bytes |-> n]
Whole(windows) ==
  [i \in 0..5 |-> IF i \in DOMAIN windows THEN windows[i] ELSE Window(64 + 15, 1)]

MCWindows ==
  { Whole([i \in 0..1 |-> IF i = 0 THEN Window(32 + 12, 2) ELSE Window(32 + 14, 2)]),
    Whole([i \in 0..1 |-> IF i = 0 THEN Window(32 + 13, 1) ELSE Window(64 + 9, 2)]),
    Whole([i \in 0..2 |-> IF i = 0 THEN Window(32 + 8, 1) ELSE Window(64 + 13, 3)]),
    Whole([i \in 0..3 |-> IF i <= 1 THEN Window(32 + 14, 2) ELSE Window(64 + 6, 3)]),
    Whole([i \in 0..3 |-> IF i = 2 THEN Window(64 + 14, 3) ELSE Window(64 + 12, 2)]) }
MCMemory(e) ==
  [mcBase |-> 64, physicalBase |-> 32, total |-> 16, visible |-> 8, existing |-> e]
MCMemories ==
  { [memory |-> MCMemory(c[1]), windows |-> w, held |-> c[2]] : w \in MCWindows,
      c \in {<<0, "no">>, <<6, "no">>, <<6, "reload">>, <<0, "console">>, <<9, "console">>} } \cup
  { [memory |-> MCMemory(e), windows |-> w, held |-> "empty"] : e \in {1, 6, 9},
      w \in { [i \in 0..5 |-> NoWindow], [i \in 0..5 |-> IF i < 5 THEN NoWindow ELSE Window(64 + 4, 3)] } }
MCTables ==
  { [root |-> 32, first |-> 0, last |-> 1], [root |-> 32 + 4, first |-> 1, last |-> 2],
    [root |-> 32 + 2, first |-> 0, last |-> 2], [root |-> 32 + 6, first |-> 0, last |-> 2],
    [root |-> 30, first |-> 0, last |-> 1] }
MCUpdates ==
  [count : {0, 1, 3}, source : {0, 34, 64, 78, 79, 126}, increment : {0, 1, 64}, valid : {TRUE}, system : {FALSE}] \cup
  [count : {1}, source : {64}, increment : {1}, valid : BOOLEAN, system : BOOLEAN]
MCImages == {<<64 + 2, 64 + 3>>, <<64 + 6, 64 + 7>>, <<64 + 8, 64 + 9>>, <<64 + 2, 64 + 5>>, <<34, 35>>}

VARIABLE part  \* the module whose steps are taken

LayoutRests ==
  /\ boot = CHOOSE b \in Memories : TRUE
  /\ table = CHOOSE t \in Tables : TRUE
  /\ native = [total |-> boot.memory.total, visible |-> boot.memory.visible]
QueueRests ==
  /\ mec = "run" /\ ignores = "none" /\ image = "mc" /\ pq = 1 /\ lease = "none"
  /\ hqd = [ingress |-> FALSE, active |-> FALSE, dequeue |-> FALSE, rptr |-> FALSE,
            wptr |-> FALSE, made |-> "old", eop |-> FALSE]
  /\ mode = CHOOSE m \in Modes : TRUE

\* The queue image has a PQ address at first; one that is empty or moved is a mishap.
QueueMemoryInit ==
  /\ part \in {"layout", "queue"}
  /\ part = "queue" => LayoutRests /\ pq = 1
  /\ part = "layout" => QueueRests
  /\ LayoutInit /\ Init

LayoutStep == part = "layout" /\ LayoutNext /\ UNCHANGED <<vars, part>>
QueueStep  == part = "queue" /\ Next /\ UNCHANGED <<layoutVars, part>>
QueueMemorySpec == QueueMemoryInit /\ [][LayoutStep \/ QueueStep]_<<layoutVars, vars, part>>
=============================================================================
