------------------------------ MODULE VgaProofs ------------------------------
(***************************************************************************)
(* Proofs about Vga for every screen, operand size and number of runs: the *)
(* types, the single display, and the marks of stale lines.                *)
(***************************************************************************)
EXTENDS Vga, SequenceTheorems, TLAPS

SdlState == [pc : {"none", "open", "loop", "update", "draw", "clear", "delay", "ended"},
             i : Row, clear : SUBSET Clears, jiffy : 0 .. Period - 1]

(* A field of one thread's state changes.                                  *)
LEMMA SdlType ==
    ASSUME sdl \in [Thread -> SdlState], NEW t \in Thread, NEW s \in SdlState,
           sdl' = [sdl EXCEPT ![t] = s]
    PROVE  sdl' \in [Thread -> SdlState]
  OBVIOUS

LEMMA GotoType ==
    ASSUME sdl \in [Thread -> SdlState], NEW t \in Thread,
           NEW p \in {"none", "open", "loop", "update", "draw", "clear", "delay", "ended"},
           Goto(t, p)
    PROVE  sdl' \in [Thread -> SdlState]
  BY DEF Goto, SdlState

(* Lines.                                                                  *)
LEMMA LineOfType ==
    ASSUME NEW a \in Nat
    PROVE  /\ LineOf(a) \in Nat
           /\ LineOf(a) * CTR_COL =< a /\ a < LineOf(a) * CTR_COL + CTR_COL
  BY ScreenAssumption DEF LineOf

LEMMA PixelType ==
    ASSUME NEW l \in Row, NEW c \in Col
    PROVE  l * CTR_COL + c \in Pixel
  <1>1. CTR_ROW \in Nat /\ CTR_COL \in Nat /\ l \in Nat /\ c \in 0 .. CTR_COL - 1 /\ l + 1 =< CTR_ROW
    BY ScreenAssumption DEF Row, Col
  <1>2. (l + 1) * CTR_COL =< CTR_ROW * CTR_COL
    BY <1>1
  <1>3. (l + 1) * CTR_COL = l * CTR_COL + CTR_COL /\ l * CTR_COL \in Nat
    BY <1>1
  <1> QED
    BY <1>1, <1>2, <1>3 DEF Pixel

LEMMA MarksType ==
    ASSUME NEW a \in InMap
    PROVE  Marks(a) \subseteq Clears
  <1>1. a \in Nat
    BY DEF InMap
  <1>2. LineOf(a) \in Nat
    BY <1>1, LineOfType
  <1> QED
    BY <1>2, ScreenAssumption DEF Marks, Clears, Row

LEMMA InitType == Init => TypeOK
  <1> SUFFICES ASSUME Init PROVE TypeOK
    OBVIOUS
  <1>1. 0 \in Space /\ 0 \in Row /\ 0 \in 0 .. Period - 1 /\ Black \in Color
    BY ScreenAssumption, ThreadAssumption DEF Space, Row
  <1>2. sdl \in [Thread -> SdlState]
    BY <1>1 DEF Init, SdlState
  <1>3. maps \in Seq(Space) /\ missed \subseteq Row /\ pend \subseteq Clears
    BY EmptySeq DEF Init
  <1>4. /\ space \in [Space -> [Pixel -> Color]]
        /\ line_dirty \in [Row -> BOOLEAN]
        /\ screen \in [Row -> [Col -> Color]]
    BY <1>1 DEF Init
  <1>5. free_index \in 0 .. NSpace /\ vmem_base \in Space /\ runs \in 0 .. MaxRuns
    <2>1. free_index = 0 /\ vmem_base = 0 /\ runs = 0
      BY DEF Init
    <2> QED
      BY <1>1, <2>1, ThreadAssumption
  <1>6. /\ vmem_dirty \in BOOLEAN /\ initialized \in BOOLEAN
        /\ main \in {"idle", "init", "run", "done"}
    BY DEF Init
  <1> QED
    BY <1>2, <1>3, <1>4, <1>5, <1>6 DEF TypeOK, SdlState

(* The main thread keeps the types.                                        *)
LEMMA MainType ==
    ASSUME TypeOK, next_run \/ init_sdl \/ end_run \/ close_sdl
    PROVE  TypeOK'
  <1>1. sdl \in [Thread -> SdlState]
    BY DEF TypeOK, SdlState
  <1>2. CASE next_run
    BY <1>2, ThreadAssumption DEF next_run, TypeOK, device, dirty
  <1>3. CASE end_run
    BY <1>3 DEF end_run, TypeOK, device, dirty
  <1>4. CASE close_sdl
    BY <1>4 DEF close_sdl, TypeOK, device, dirty
  <1>5. CASE init_sdl /\ initialized
    BY <1>5 DEF init_sdl, TypeOK, device, dirty
  <1>6. CASE init_sdl /\ ~initialized
    <2>1. /\ RoomForMap /\ maps' = Append(maps, free_index)
          /\ vmem_base' = free_index /\ free_index' = free_index + 1
          /\ sdl' = [sdl EXCEPT ![runs].pc = "open"] /\ main' = "run"
          /\ UNCHANGED <<space, dirty, initialized, runs, pend, screen, missed>>
      BY <1>6 DEF init_sdl
    <2>2. free_index \in Space /\ free_index + 1 \in 0 .. NSpace
      BY <2>1, ThreadAssumption DEF RoomForMap, TypeOK, Space
    <2>3. maps' \in Seq(Space)
      BY <2>1, <2>2 DEF TypeOK
    <2>4. sdl' \in [Thread -> SdlState]
      BY <1>1, <2>1 DEF SdlState
    <2> QED
      BY <2>1, <2>2, <2>3, <2>4 DEF TypeOK, dirty, SdlState
  <1> QED
    BY <1>2, <1>3, <1>4, <1>5, <1>6

(* So do a store to the video memory and its marks.                        *)
LEMMA WriteType ==
    ASSUME TypeOK, NEW a \in InMap, NEW len \in Lens, NEW v \in Color, mmio_write(a, len, v)
    PROVE  TypeOK'
  <1>1. /\ space' = [space EXCEPT ![maps[1]] =
                       [p \in Pixel |-> IF p \in a .. a + len - 1 THEN v ELSE @[p]]]
        /\ pend' = Marks(a) /\ missed' \subseteq missed \cup Row
        /\ UNCHANGED <<device, dirty, initialized, main, runs, sdl, screen>>
    BY DEF mmio_write
  <1>2. space' \in [Space -> [Pixel -> Color]]
    BY <1>1 DEF TypeOK
  <1> QED
    BY <1>1, <1>2, MarksType DEF TypeOK, device, dirty

LEMMA MarkType ==
    ASSUME TypeOK, mark
    PROVE  TypeOK'
  <1> PICK x \in pend :
          /\ pend' = pend \ {x}
          /\ IF x = Vmem THEN vmem_dirty' = TRUE /\ UNCHANGED line_dirty
             ELSE line_dirty' = [l \in DOMAIN line_dirty \cup {x} |->
                                   l = x \/ line_dirty[l]] /\ UNCHANGED vmem_dirty
    BY DEF mark
  <1>1. UNCHANGED <<device, space, initialized, main, runs, sdl, screen, missed>>
    BY DEF mark
  <1>2. line_dirty' \in [Row -> BOOLEAN] /\ vmem_dirty' \in BOOLEAN
    <2>1. CASE x = Vmem
      BY <2>1 DEF TypeOK
    <2>2. CASE x # Vmem
      <3>1. x \in Row /\ DOMAIN line_dirty \cup {x} = Row
        BY <2>2 DEF TypeOK, Clears
      <3> QED
        BY <2>2, <3>1 DEF TypeOK
    <2> QED
      BY <2>1, <2>2
  <1> QED
    BY <1>1, <1>2 DEF TypeOK, device

(* So does the SDL thread.                                                 *)
LEMMA ThreadType ==
    ASSUME TypeOK, NEW t \in Thread, SdlThread(t)
    PROVE  TypeOK'
  <1>1. sdl \in [Thread -> SdlState]
    BY DEF TypeOK, SdlState
  <1>2. CASE opened(t)
    <2>1. sdl' \in [Thread -> SdlState]
      BY <1>1, <1>2, GotoType DEF opened
    <2> QED
      BY <1>2, <2>1 DEF opened, TypeOK, device, dirty, SdlState
  <1>3. CASE loop(t)
    <2>1. sdl' \in [Thread -> SdlState]
      BY <1>1, <1>3, GotoType DEF loop
    <2>2. /\ maps' = maps \/ maps' = <<>>
          /\ free_index' = free_index \/ free_index' = 0
          /\ vmem_dirty' = vmem_dirty \/ vmem_dirty' = FALSE
          /\ UNCHANGED <<vmem_base, space, line_dirty, initialized, main, runs, pend, screen, missed>>
      BY <1>3 DEF loop
    <2>3. maps' \in Seq(Space)
      BY <2>2, EmptySeq DEF TypeOK
    <2>4. free_index' \in 0 .. NSpace
      BY <2>2, ThreadAssumption DEF TypeOK
    <2> QED
      BY <2>1, <2>2, <2>3, <2>4 DEF TypeOK, SdlState
  <1>4. CASE update_screen(t)
    <2>1. sdl' \in [Thread -> SdlState]
      <3>1. CASE vmem_dirty
        <4>1. sdl' = [sdl EXCEPT ![t].pc = "draw", ![t].i = 0] /\ 0 \in Row
          BY <1>4, <3>1, ScreenAssumption DEF update_screen, Row
        <4> QED
          BY <1>1, <4>1 DEF SdlState
      <3>2. CASE ~vmem_dirty
        BY <1>1, <1>4, <3>2, GotoType DEF update_screen
      <3> QED
        BY <3>1, <3>2
    <2>2. missed' \subseteq missed \cup (pend \ {Vmem})
      BY <1>4 DEF update_screen
    <2>3. missed' \subseteq Row
      BY <2>2 DEF TypeOK, Clears
    <2> QED
      BY <1>4, <2>1, <2>3 DEF update_screen, TypeOK, device, dirty, SdlState
  <1>5. CASE draw(t)
    <2> DEFINE i == sdl[t].i
    <2>1. /\ IF line_dirty[i]
             THEN screen' = [screen EXCEPT ![i] = [c \in Col |-> space[vmem_base][i * CTR_COL + c]]]
             ELSE screen' = screen
          /\ missed' \subseteq missed
          /\ sdl' = [sdl EXCEPT ![t] =
                       IF i + 1 < CTR_ROW THEN [@ EXCEPT !.i = i + 1]
                       ELSE [@ EXCEPT !.i = 0, !.pc = "clear", !.clear = Clears]]
          /\ UNCHANGED <<device, space, dirty, initialized, main, runs, pend>>
      BY <1>5 DEF draw
    <2>2. i \in Row /\ sdl[t] \in SdlState
      BY <1>1 DEF SdlState
    <2>3. sdl' \in [Thread -> SdlState]
      <3>1. CASE i + 1 < CTR_ROW
        <4>1. i + 1 \in Row
          BY <2>2, <3>1, ScreenAssumption DEF Row
        <4> QED
          BY <1>1, <2>1, <2>2, <3>1, <4>1 DEF SdlState
      <3>2. CASE ~(i + 1 < CTR_ROW)
        <4>1. 0 \in Row
          BY ScreenAssumption DEF Row
        <4> QED
          BY <1>1, <2>1, <2>2, <3>2, <4>1 DEF SdlState
      <3> QED
        BY <3>1, <3>2
    <2>4. screen' \in [Row -> [Col -> Color]]
      <3>1. [c \in Col |-> space[vmem_base][i * CTR_COL + c]] \in [Col -> Color]
        <4> SUFFICES ASSUME NEW c \in Col PROVE space[vmem_base][i * CTR_COL + c] \in Color
          OBVIOUS
        <4>1. i * CTR_COL + c \in Pixel
          BY <2>2, PixelType
        <4> QED
          BY <4>1 DEF TypeOK
      <3> QED
        BY <2>1, <2>2, <3>1 DEF TypeOK
    <2> QED
      BY <2>1, <2>3, <2>4 DEF TypeOK, device, dirty, SdlState
  <1>6. CASE clear(t)
    <2> PICK x \in sdl[t].clear :
            /\ sdl' = [sdl EXCEPT ![t].clear = @ \ {x},
                                  ![t].pc = IF sdl[t].clear = {x} THEN "delay" ELSE "clear"]
            /\ IF x = Vmem THEN vmem_dirty' = FALSE /\ UNCHANGED line_dirty
               ELSE line_dirty' = [line_dirty EXCEPT ![x] = FALSE] /\ UNCHANGED vmem_dirty
      BY <1>6 DEF clear
    <2>1. sdl' \in [Thread -> SdlState]
      <3>1. sdl[t] \in SdlState /\ sdl[t].clear \ {x} \subseteq Clears
        BY <1>1 DEF SdlState
      <3>2. PICK p \in {"delay", "clear"} : p = IF sdl[t].clear = {x} THEN "delay" ELSE "clear"
        OBVIOUS
      <3>3. sdl' = [sdl EXCEPT ![t] = [sdl[t] EXCEPT !.clear = @ \ {x}, !.pc = p]]
        BY <1>1, <3>2 DEF SdlState
      <3>4. [sdl[t] EXCEPT !.clear = @ \ {x}, !.pc = p] \in SdlState
        BY <3>1, <3>2 DEF SdlState
      <3> QED
        BY <1>1, <3>3, <3>4
    <2>2. line_dirty' \in [Row -> BOOLEAN] /\ vmem_dirty' \in BOOLEAN
      BY DEF TypeOK
    <2> QED
      BY <1>6, <2>1, <2>2 DEF clear, TypeOK, device, SdlState
  <1>7. CASE delay(t)
    <2>1. (sdl[t].jiffy + 1) % Period \in 0 .. Period - 1
      BY <1>1, ThreadAssumption DEF SdlState
    <2>2. sdl' \in [Thread -> SdlState]
      BY <1>1, <1>7, <2>1 DEF delay, SdlState
    <2> QED
      BY <1>7, <2>2 DEF delay, TypeOK, device, dirty, SdlState
  <1> QED
    BY <1>2, <1>3, <1>4, <1>5, <1>6, <1>7 DEF SdlThread

LEMMA NextType ==
    ASSUME TypeOK, [Next]_vars
    PROVE  TypeOK'
  <1>1. CASE UNCHANGED vars
    BY <1>1 DEF TypeOK, vars, device, dirty
  <1> QED
    BY <1>1, MainType, WriteType, MarkType, ThreadType DEF Next

(* Types of the state, for any screen, number of runs and order of stores; *)
(* the flags never gain a line.                                            *)
THEOREM TypeCorrect == Spec => []TypeOK
  BY InitType, NextType, PTL DEF Spec

----------------------------------------------------------------------------
(* Where the main thread and the display are, when no run ends before the  *)
(* window is open: thread 1, if any, is the only one, and draws space 0.   *)
Looping == {"loop", "update", "draw", "clear", "delay"}

NoOther == \A t \in Thread : t # 1 => sdl[t].pc = "none"

Unmapped ==
    /\ maps = <<>> /\ free_index = 0
    /\ ~initialized
    /\ \A t \in Thread : sdl[t].pc = "none"

Mapped == 1 \in Thread /\ maps = <<0>> /\ free_index = 1

Life ==
    /\ NoOther /\ vmem_base = 0
    /\ \/ Unmapped /\ main = "idle" /\ runs = 0
       \/ Unmapped /\ main = "init" /\ runs = 1
       \/ Mapped /\ main = "run" /\ runs = 1 /\ ~initialized /\ sdl[1].pc = "open"
       \/ /\ Mapped /\ main \in {"idle", "init", "run"} /\ runs > 0
          /\ initialized /\ sdl[1].pc \in Looping
       \/ Mapped /\ main = "done" /\ ~initialized /\ sdl[1].pc \in Looping
       \/ /\ 1 \in Thread /\ maps = <<>> /\ main = "done"
          /\ ~initialized /\ sdl[1].pc = "ended"

LEMMA LifeInit == Init => Life
  BY DEF Init, Life, NoOther, Unmapped

LEMMA LifeMain ==
    ASSUME SlowRuns, TypeOK, Life, next_run \/ init_sdl \/ end_run \/ close_sdl
    PROVE  Life'
  <1>1. CASE next_run
    <2>1. /\ main = "idle" /\ main' = "init" /\ runs' = runs + 1
          /\ UNCHANGED <<maps, free_index, vmem_base, initialized, sdl>>
      BY <1>1 DEF next_run, device
    <2>2. runs \in Nat /\ (runs = 0 => runs' = 1) /\ runs' > 0
      BY <2>1, ThreadAssumption DEF TypeOK
    <2> QED
      BY <2>1, <2>2 DEF Life, NoOther, Unmapped, Mapped
  <1>2. CASE end_run
    <2>1. /\ main = "run" /\ initialized /\ main' = "idle"
          /\ UNCHANGED <<maps, free_index, vmem_base, initialized, sdl, runs>>
      BY <1>2 DEF end_run, device
    <2> QED
      BY <2>1 DEF Life, NoOther, Unmapped, Mapped
  <1>3. CASE close_sdl
    BY <1>3 DEF close_sdl, Life, NoOther, Unmapped, Mapped, device
  <1>4. CASE init_sdl /\ initialized
    BY <1>4 DEF init_sdl, Life, NoOther, Unmapped, Mapped, device
  <1>5. CASE init_sdl /\ ~initialized
    <2>1. Unmapped /\ runs = 1 /\ 1 \in Thread
      BY <1>5 DEF init_sdl, Life, Mapped, TypeOK, Thread
    <2>2. /\ maps' = Append(maps, free_index) /\ vmem_base' = free_index
          /\ free_index' = free_index + 1 /\ main' = "run"
          /\ sdl' = [sdl EXCEPT ![1].pc = "open"]
          /\ UNCHANGED <<initialized, runs>>
      BY <1>5, <2>1 DEF init_sdl
    <2>3. maps' = <<0>> /\ free_index' = 1 /\ vmem_base' = 0
      BY <2>1, <2>2 DEF Unmapped
    <2>4. sdl'[1].pc = "open" /\ NoOther'
      BY <2>1, <2>2 DEF Life, NoOther, TypeOK
    <2> QED
      BY <2>1, <2>2, <2>3, <2>4 DEF Life, Mapped, Unmapped
  <1> QED
    BY <1>1, <1>2, <1>3, <1>4, <1>5

LEMMA Alone ==
    ASSUME Life, NEW t \in Thread, sdl[t].pc # "none"
    PROVE  t = 1
  BY DEF Life, NoOther

LEMMA ThreadIsOne ==
    ASSUME Life, NEW t \in Thread, SdlThread(t)
    PROVE  t = 1
  <1>1. sdl[t].pc # "none"
    BY DEF SdlThread, opened, loop, update_screen, draw, clear, delay
  <1> QED
    BY <1>1, Alone

(* How each step of the thread moves its pc.                               *)
LEMMA LifeThread ==
    ASSUME TypeOK, Life, NEW t \in Thread, SdlThread(t)
    PROVE  Life'
  <1>1. t = 1 /\ 1 \in Thread
    BY ThreadIsOne
  <1>2. sdl \in [Thread -> SdlState]
    BY DEF TypeOK, SdlState
  <1>3. UNCHANGED <<main, runs, vmem_base>>
    BY DEF SdlThread, opened, loop, update_screen, draw, clear, delay, device
  <1>4. ASSUME NEW p, sdl'[1].pc = p, \A u \in Thread : u # 1 => sdl'[u] = sdl[u]
        PROVE  NoOther'
    BY <1>4 DEF Life, NoOther
  <1>5. CASE opened(1)
    <2>1. /\ sdl[1].pc = "open" /\ initialized' = TRUE /\ UNCHANGED <<maps, free_index>>
          /\ sdl'[1].pc = "loop" /\ \A u \in Thread : u # 1 => sdl'[u] = sdl[u]
      BY <1>1, <1>2, <1>5 DEF opened, Goto, device, SdlState
    <2>2. Mapped /\ main = "run" /\ runs = 1
      BY <1>1, <2>1 DEF Life, Unmapped, Looping
    <2> QED
      BY <1>3, <1>4, <2>1, <2>2 DEF Life, Mapped, Looping
  <1>6. CASE loop(1) /\ ~initialized
    <2>1. /\ sdl[1].pc = "loop" /\ UNCHANGED initialized /\ maps' = <<>>
          /\ sdl'[1].pc = "ended" /\ \A u \in Thread : u # 1 => sdl'[u] = sdl[u]
      BY <1>1, <1>2, <1>6 DEF loop, Goto, device, SdlState
    <2>2. main = "done"
      BY <1>1, <1>6, <2>1 DEF Life, Unmapped, Looping
    <2> QED
      BY <1>1, <1>3, <1>4, <1>6, <2>1, <2>2 DEF Life
  <1>7. ASSUME \/ loop(1) /\ initialized
               \/ update_screen(1) \/ draw(1) \/ clear(1) \/ delay(1)
        PROVE  Life'
    <2>1. sdl[1].pc \in Looping /\ UNCHANGED <<initialized, maps, free_index>>
      BY <1>7 DEF loop, update_screen, draw, clear, delay, device, Looping
    <2>2. sdl'[1].pc \in Looping /\ \A u \in Thread : u # 1 => sdl'[u] = sdl[u]
      <3>1. CASE loop(1) /\ initialized
        BY <1>1, <1>2, <3>1 DEF loop, Goto, SdlState, Looping
      <3>2. CASE update_screen(1)
        BY <1>1, <1>2, <3>2 DEF update_screen, Goto, SdlState, Looping
      <3>3. CASE draw(1)
        BY <1>1, <1>2, <3>3 DEF draw, SdlState, Looping
      <3>4. CASE clear(1)
        BY <1>1, <1>2, <3>4 DEF clear, SdlState, Looping
      <3>5. CASE delay(1)
        BY <1>1, <1>2, <3>5 DEF delay, SdlState, Looping
      <3> QED
        BY <1>7, <3>1, <3>2, <3>3, <3>4, <3>5
    <2> QED
      BY <1>1, <1>3, <1>4, <2>1, <2>2 DEF Life, Mapped, Unmapped, Looping
  <1> QED
    BY <1>1, <1>5, <1>6, <1>7 DEF SdlThread

LEMMA LifeNext ==
    ASSUME SlowRuns, TypeOK, Life, [Next]_vars
    PROVE  Life'
  <1>1. CASE UNCHANGED vars
    BY <1>1 DEF Life, NoOther, Mapped, Unmapped, vars, device
  <1>2. ASSUME NEW a \in InMap, NEW len \in Lens, NEW v \in Color, mmio_write(a, len, v)
        PROVE  Life'
    BY <1>2 DEF mmio_write, Life, NoOther, Mapped, Unmapped, device
  <1>3. CASE mark
    BY <1>3 DEF mark, Life, NoOther, Mapped, Unmapped, device
  <1> QED
    BY <1>1, <1>2, <1>3, LifeMain, LifeThread DEF Next

(* If programs last until the window is open, there is one SDL thread and  *)
(* one video memory, whatever the number of runs, and the assertions of    *)
(* add_mmio_map hold (sdl.c, mm_io.c).                                     *)
THEOREM DisplayAlways ==
    ASSUME SlowRuns
    PROVE  Spec => []OneDisplay
  <1>1. TypeOK /\ Life /\ [Next]_vars => TypeOK' /\ Life'
    BY NextType, LifeNext
  <1>2. TypeOK /\ Life => OneDisplay
    <2> SUFFICES ASSUME TypeOK, Life PROVE OneDisplay
      OBVIOUS
    <2>1. ASSUME NEW t \in Thread, NEW u \in Thread,
                 sdl[t].pc \notin {"none", "ended"}, sdl[u].pc \notin {"none", "ended"}
          PROVE  t = u
      BY <2>1, Alone
    <2>2. maps # <<>> => vmem_base = maps[1]
      BY DEF Life, Mapped, Unmapped
    <2>3. main = "init" => initialized \/ RoomForMap
      <3>1. main = "init" => initialized \/ Unmapped
        BY DEF Life
      <3>2. Unmapped => Len(maps) = 0 /\ free_index = 0
        BY DEF Unmapped
      <3> QED
        BY <3>1, <3>2, ThreadAssumption DEF RoomForMap
    <2> QED
      BY <2>1, <2>2, <2>3 DEF OneDisplay
  <1> QED
    BY <1>1, <1>2, InitType, LifeInit, PTL DEF Spec

----------------------------------------------------------------------------
(* The marks.  While an update runs, the lines it has passed are shown as  *)
(* they are, and a store that is still due belongs to a missed line.       *)
VShown(l) == \A c \in Col : screen[l][c] = space[0][l * CTR_COL + c]

Marked(l) == (l \in pend \/ line_dirty[l]) /\ (Vmem \in pend \/ vmem_dirty)

Stale == main # "done" => \A l \in Row \ missed : VShown(l) \/ Marked(l)

Passed ==
    main # "done" =>
        \A t \in Thread :
            /\ sdl[t].pc = "draw" => \A l \in Row \ missed : l < sdl[t].i => VShown(l)
            /\ sdl[t].pc = "clear" => \A l \in Row \ missed : VShown(l)

PendMissed == Updating => pend \ {Vmem} \subseteq missed

Marking == Stale /\ Passed /\ PendMissed

(* The line of a pixel, and the lines of an operand.                       *)
LEMMA LineOfPixel ==
    ASSUME NEW l \in Row, NEW c \in Col
    PROVE  LineOf(l * CTR_COL + c) = l
  <1>1. l \in Nat /\ c \in 0 .. CTR_COL - 1 /\ CTR_COL \in Nat \ {0}
    BY ScreenAssumption DEF Row, Col
  <1>2. l * CTR_COL + c \in Nat
    BY <1>1, PixelType DEF Pixel
  <1> DEFINE q == LineOf(l * CTR_COL + c)
  <1>3. q \in Nat /\ q * CTR_COL =< l * CTR_COL + c /\ l * CTR_COL + c < q * CTR_COL + CTR_COL
    BY <1>2, LineOfType
  <1>4. ~(q < l)
    <2> SUFFICES ASSUME q < l PROVE FALSE
      OBVIOUS
    <2> HIDE DEF q
    <2>1. (q + 1) * CTR_COL =< l * CTR_COL
      BY <1>1, <1>3
    <2>2. (q + 1) * CTR_COL = q * CTR_COL + CTR_COL /\ l * CTR_COL \in Nat /\ q * CTR_COL \in Nat
      BY <1>1, <1>3
    <2> QED
      BY <1>1, <1>3, <2>1, <2>2
  <1>5. ~(l < q)
    <2> SUFFICES ASSUME l < q PROVE FALSE
      OBVIOUS
    <2> HIDE DEF q
    <2>1. (l + 1) * CTR_COL =< q * CTR_COL
      BY <1>1, <1>3
    <2>2. (l + 1) * CTR_COL = l * CTR_COL + CTR_COL /\ l * CTR_COL \in Nat /\ q * CTR_COL \in Nat
      BY <1>1, <1>3
    <2> QED
      BY <1>1, <1>3, <2>1, <2>2
  <1> QED
    BY <1>1, <1>3, <1>4, <1>5

LEMMA OperandLines ==
    ASSUME NEW a \in Nat, NEW len \in Lens, NEW p \in a .. a + len - 1
    PROVE  LineOf(p) \in {LineOf(a), LineOf(a + len - 1)}
  <1>1. len \in 1 .. CTR_COL /\ CTR_COL \in Nat \ {0}
    BY ScreenAssumption
  <1>2. p \in Nat /\ a + len - 1 \in Nat /\ a =< p /\ p =< a + len - 1
    BY <1>1
  <1> DEFINE x == LineOf(a)
             y == LineOf(p)
             z == LineOf(a + len - 1)
  <1>3. /\ x \in Nat /\ x * CTR_COL =< a /\ a < x * CTR_COL + CTR_COL
        /\ y \in Nat /\ y * CTR_COL =< p /\ p < y * CTR_COL + CTR_COL
        /\ z \in Nat /\ z * CTR_COL =< a + len - 1 /\ a + len - 1 < z * CTR_COL + CTR_COL
    BY <1>2, LineOfType
  <1> HIDE DEF x, y, z
  <1>4. \A m, n \in Nat : m < n => m * CTR_COL + CTR_COL =< n * CTR_COL
    <2> SUFFICES ASSUME NEW m \in Nat, NEW n \in Nat, m < n
                 PROVE  m * CTR_COL + CTR_COL =< n * CTR_COL
      OBVIOUS
    <2>1. (m + 1) * CTR_COL =< n * CTR_COL
      BY <1>1
    <2>2. (m + 1) * CTR_COL = m * CTR_COL + CTR_COL
      BY <1>1
    <2> QED
      BY <2>1, <2>2
  <1>5. x * CTR_COL \in Nat /\ y * CTR_COL \in Nat /\ z * CTR_COL \in Nat
    BY <1>1, <1>3
  <1>6. ~(y < x) /\ ~(z < y)
    BY <1>1, <1>2, <1>3, <1>4, <1>5
  <1>7. ~(x < y /\ y < z)
    <2> SUFFICES ASSUME x < y, y < z PROVE FALSE
      OBVIOUS
    <2>1. x * CTR_COL + CTR_COL =< y * CTR_COL /\ y * CTR_COL + CTR_COL =< z * CTR_COL
      BY <1>3, <1>4
    <2> QED
      BY <1>1, <1>2, <1>3, <1>5, <2>1
  <1>8. y = x \/ y = z
    BY <1>3, <1>6, <1>7
  <1> QED
    BY <1>8 DEF x, y, z

LEMMA MarkingInit == Init => Marking
  <1> SUFFICES ASSUME Init PROVE Marking
    OBVIOUS
  <1>1. 0 \in Space
    BY ThreadAssumption DEF Space
  <1>2. \A l \in Row : VShown(l)
    BY <1>1, PixelType DEF Init, VShown
  <1>3. \A t \in Thread : sdl[t].pc = "none"
    BY DEF Init
  <1> QED
    BY <1>2, <1>3 DEF Marking, Stale, Passed, PendMissed, Updating

(* Steps that leave the pictures, the marks and the updates alone.         *)
LEMMA MarkingFrame ==
    ASSUME Marking, UNCHANGED <<space, screen, dirty, pend, missed>>,
           main = "done" => main' = "done",
           \A t \in Thread : sdl'[t].pc \in {"draw", "clear"} => sdl'[t] = sdl[t]
    PROVE  Marking'
  <1>1. \A l : VShown(l)' <=> VShown(l)
    BY DEF VShown
  <1>2. \A l : Marked(l)' <=> Marked(l)
    BY DEF Marked, dirty
  <1>3. Stale'
    BY <1>1, <1>2 DEF Marking, Stale
  <1>4. Passed'
    BY <1>1 DEF Marking, Passed
  <1>5. PendMissed'
    BY DEF Marking, PendMissed, Updating
  <1> QED
    BY <1>3, <1>4, <1>5 DEF Marking

LEMMA MarkingMain ==
    ASSUME TypeOK, Marking, next_run \/ init_sdl \/ end_run \/ close_sdl
    PROVE  Marking'
  <1>1. /\ UNCHANGED <<space, screen, dirty, pend, missed>>
        /\ main # "done"
    BY DEF next_run, init_sdl, end_run, close_sdl
  <1>2. \A t \in Thread : sdl'[t].pc \in {"draw", "clear"} => sdl'[t] = sdl[t]
    <2>1. sdl' = sdl \/ sdl' = [sdl EXCEPT ![runs].pc = "open"]
      BY DEF next_run, init_sdl, end_run, close_sdl
    <2> QED
      BY <2>1 DEF TypeOK
  <1> QED
    BY <1>1, <1>2, MarkingFrame

LEMMA MarkingMark ==
    ASSUME TypeOK, Marking, mark
    PROVE  Marking'
  <1> PICK x \in pend :
          /\ pend' = pend \ {x}
          /\ IF x = Vmem THEN vmem_dirty' = TRUE /\ UNCHANGED line_dirty
             ELSE line_dirty' = [l \in DOMAIN line_dirty \cup {x} |->
                                   l = x \/ line_dirty[l]] /\ UNCHANGED vmem_dirty
    BY DEF mark
  <1>1. UNCHANGED <<space, main, sdl, screen, missed>>
    BY DEF mark
  <1>2. \A l : VShown(l)' <=> VShown(l)
    BY <1>1 DEF VShown
  <1>3. \A l \in Row : Marked(l) => Marked(l)'
    <2> SUFFICES ASSUME NEW l \in Row, Marked(l) PROVE Marked(l)'
      OBVIOUS
    <2>1. l # Vmem
      BY ScreenAssumption DEF Row, Vmem
    <2>2. CASE x = Vmem
      BY <2>1, <2>2 DEF Marked
    <2>3. CASE x # Vmem
      <3>1. l \in DOMAIN line_dirty
        BY DEF TypeOK
      <3> QED
        BY <2>1, <2>3, <3>1 DEF Marked
    <2> QED
      BY <2>2, <2>3
  <1>4. Stale'
    BY <1>1, <1>2, <1>3 DEF Marking, Stale
  <1>5. Passed'
    BY <1>1, <1>2 DEF Marking, Passed
  <1>6. PendMissed'
    BY <1>1 DEF Marking, PendMissed, Updating
  <1> QED
    BY <1>4, <1>5, <1>6 DEF Marking

LEMMA MarkingWrite ==
    ASSUME TypeOK, Life, Marking,
           NEW a \in InMap, NEW len \in Lens, NEW v \in Color, mmio_write(a, len, v)
    PROVE  Marking'
  <1> DEFINE first == {LineOf(a)} \cap Row
             tail  == ({LineOf(a + len - 1)} \cap Row) \ first
  <1>1. /\ main = "run" /\ pend = {} /\ maps # <<>>
        /\ space' = [space EXCEPT ![maps[1]] =
                       [p \in Pixel |-> IF p \in a .. a + len - 1 THEN v ELSE @[p]]]
        /\ pend' = Marks(a)
        /\ missed' = (IF Updating THEN missed \cup first ELSE missed \ first) \cup tail
        /\ UNCHANGED <<dirty, main, sdl, screen>>
    BY DEF mmio_write
  <1>2. maps[1] = 0 /\ 0 \in Space
    BY <1>1, ThreadAssumption DEF Life, Unmapped, Mapped, Space
  <1>3. a \in Nat
    BY DEF InMap
  <1>4. ASSUME NEW l \in Row, l \notin first, l \notin tail
        PROVE  VShown(l)' <=> VShown(l)
    <2> SUFFICES ASSUME NEW c \in Col
                 PROVE  space'[0][l * CTR_COL + c] = space[0][l * CTR_COL + c]
      BY <1>1 DEF VShown
    <2> DEFINE p == l * CTR_COL + c
    <2>1. p \in Pixel /\ LineOf(p) = l
      BY PixelType, LineOfPixel
    <2>2. p \notin a .. a + len - 1
      BY <1>3, <1>4, <2>1, OperandLines
    <2> QED
      BY <1>1, <1>2, <2>1, <2>2 DEF TypeOK
  <1> HIDE DEF first, tail
  <1>5. Stale'
    <2> SUFFICES ASSUME NEW l \in Row, l \notin missed' PROVE VShown(l)' \/ Marked(l)'
      BY <1>1 DEF Stale
    <2>1. CASE l \in first
      <3>1. l = LineOf(a) /\ l < CTR_ROW
        BY <2>1, ScreenAssumption DEF first, Row
      <3>2. pend' = {l, Vmem}
        BY <1>1, <3>1 DEF Marks
      <3> QED
        BY <3>2 DEF Marked
    <2>2. CASE l \notin first
      <3>1. l \notin missed /\ l \notin tail
        BY <1>1, <2>2
      <3>2. VShown(l) \/ Marked(l)
        BY <1>1, <3>1 DEF Marking, Stale
      <3>3. Marked(l) => Marked(l)'
        BY <1>1 DEF Marked, dirty
      <3> QED
        BY <1>4, <2>2, <3>1, <3>2, <3>3
    <2> QED
      BY <2>1, <2>2
  <1>6. ASSUME Updating
        PROVE  missed' = missed \cup first \cup tail
    BY <1>1, <1>6
  <1>7. Passed'
    <2> SUFFICES ASSUME NEW t \in Thread, sdl[t].pc \in {"draw", "clear"},
                        NEW l \in Row, l \notin missed',
                        sdl[t].pc = "draw" => l < sdl[t].i
                 PROVE  VShown(l)'
      BY <1>1 DEF Passed
    <2>1. Updating
      BY DEF Updating
    <2>2. l \notin missed /\ l \notin first /\ l \notin tail
      BY <1>6, <2>1
    <2>3. VShown(l)
      BY <1>1, <2>2 DEF Marking, Passed
    <2> QED
      BY <1>4, <2>2, <2>3
  <1>8. PendMissed'
    <2> SUFFICES ASSUME Updating PROVE pend' \ {Vmem} \subseteq missed'
      BY <1>1 DEF PendMissed, Updating
    <2>1. LineOf(a) \in Nat
      BY <1>3, LineOfType
    <2>2. pend' \ {Vmem} \subseteq first
      BY <1>1, <2>1, ScreenAssumption DEF Marks, first, Row
    <2> QED
      BY <1>6, <2>2
  <1> QED
    BY <1>5, <1>7, <1>8 DEF Marking

LEMMA MarkingUpdate ==
    ASSUME TypeOK, Life, Marking, 1 \in Thread, update_screen(1)
    PROVE  Marking'
  <1>1. sdl \in [Thread -> SdlState] /\ sdl[1].pc = "update"
    BY DEF TypeOK, SdlState, update_screen
  <1>2. CASE ~vmem_dirty
    <2>1. /\ UNCHANGED <<space, screen, dirty, pend, missed, main>>
          /\ sdl' = [sdl EXCEPT ![1].pc = "delay"]
      BY <1>2 DEF update_screen, Goto
    <2>2. \A t \in Thread : sdl'[t].pc \in {"draw", "clear"} => sdl'[t] = sdl[t]
      BY <1>1, <2>1 DEF SdlState
    <2> QED
      BY <2>1, <2>2, MarkingFrame
  <1>3. CASE vmem_dirty
    <2>1. /\ UNCHANGED <<space, screen, dirty, pend, main>>
          /\ missed' = missed \cup (pend \ {Vmem})
          /\ sdl' = [sdl EXCEPT ![1].pc = "draw", ![1].i = 0]
      BY <1>3 DEF update_screen
    <2>2. \A l : (VShown(l)' <=> VShown(l)) /\ (Marked(l)' <=> Marked(l))
      BY <2>1 DEF VShown, Marked, dirty
    <2>3. Stale' /\ PendMissed'
      BY <2>1, <2>2 DEF Marking, Stale, PendMissed
    <2>4. Passed'
      <3> SUFFICES ASSUME NEW t \in Thread, sdl'[t].pc \in {"draw", "clear"},
                          NEW l \in Row, l \notin missed',
                          sdl'[t].pc = "draw" => l < sdl'[t].i
                   PROVE  VShown(l)'
        BY DEF Passed
      <3>1. t = 1
        BY <1>1, <2>1 DEF Life, NoOther
      <3>2. sdl'[1].pc = "draw" /\ sdl'[1].i = 0
        BY <1>1, <2>1 DEF SdlState
      <3>3. ~(l < 0)
        BY ScreenAssumption DEF Row
      <3> QED
        BY <3>1, <3>2, <3>3
    <2> QED
      BY <2>3, <2>4 DEF Marking
  <1> QED
    BY <1>2, <1>3

LEMMA MarkingDraw ==
    ASSUME TypeOK, Life, Marking, 1 \in Thread, draw(1)
    PROVE  Marking'
  <1>0. sdl \in [Thread -> SdlState]
    BY DEF TypeOK, SdlState
  <1> PICK i \in Row : i = sdl[1].i
    BY <1>0 DEF SdlState
  <1>1. sdl \in [Thread -> SdlState] /\ sdl[1].pc = "draw" /\ i = sdl[1].i
    BY <1>0 DEF draw
  <1>2. /\ IF line_dirty[i]
           THEN /\ screen' = [screen EXCEPT ![i] =
                                [c \in Col |-> space[vmem_base][i * CTR_COL + c]]]
                /\ missed' = IF i \in pend THEN missed ELSE missed \ {i}
           ELSE UNCHANGED <<screen, missed>>
        /\ sdl' = [sdl EXCEPT ![1] =
                     IF i + 1 < CTR_ROW THEN [@ EXCEPT !.i = i + 1]
                     ELSE [@ EXCEPT !.i = 0, !.pc = "clear", !.clear = Clears]]
        /\ UNCHANGED <<space, dirty, main, pend>>
    BY <1>1 DEF draw
  <1>3. main # "done" => pend \ {Vmem} \subseteq missed
    BY <1>1 DEF Marking, PendMissed, Updating
  <1>4. \A l \in Row : l # i => (VShown(l)' <=> VShown(l))
    BY <1>1, <1>2 DEF VShown, TypeOK
  <1>5. \A l \in Row : Marked(l)' <=> Marked(l)
    BY <1>2 DEF Marked, dirty
  <1>6. \A l \in Row : l # i /\ l \notin missed' => l \notin missed
    BY <1>2
  <1>7. main # "done" /\ i \notin missed' => VShown(i)'
    <2> SUFFICES ASSUME main # "done", i \notin missed' PROVE VShown(i)'
      OBVIOUS
    <2>1. CASE line_dirty[i]
      <3>1. screen' = [screen EXCEPT ![i] = [c \in Col |-> space[0][i * CTR_COL + c]]]
        BY <1>2, <2>1 DEF Life
      <3>2. screen'[i] = [c \in Col |-> space[0][i * CTR_COL + c]]
        BY <3>1 DEF TypeOK
      <3> QED
        BY <1>2, <3>2 DEF VShown
    <2>2. CASE ~line_dirty[i]
      <3>1. UNCHANGED <<screen, missed, space>>
        BY <1>2, <2>2
      <3>2. i # Vmem
        BY <1>1, ScreenAssumption DEF Row, Vmem
      <3>3. ~Marked(i)
        BY <1>3, <2>2, <3>1, <3>2 DEF Marked
      <3>4. VShown(i)
        BY <1>1, <3>1, <3>3 DEF Marking, Stale
      <3> QED
        BY <3>1, <3>4 DEF VShown
    <2> QED
      BY <2>1, <2>2
  <1>8. Stale'
    <2> SUFFICES ASSUME main # "done", NEW l \in Row, l \notin missed'
                 PROVE  VShown(l)' \/ Marked(l)'
      BY <1>2 DEF Stale
    <2> QED
      BY <1>4, <1>5, <1>6, <1>7 DEF Marking, Stale
  <1>9. Passed'
    <2> SUFFICES ASSUME main # "done", NEW t \in Thread, sdl'[t].pc \in {"draw", "clear"},
                        NEW l \in Row, l \notin missed',
                        sdl'[t].pc = "draw" => l < sdl'[t].i
                 PROVE  VShown(l)'
      BY <1>2 DEF Passed
    <2>1. t = 1
      BY <1>2 DEF Life, NoOther
    <2>2. l =< i
      <3>1. CASE i + 1 < CTR_ROW
        <4>1. sdl'[1].pc = "draw" /\ sdl'[1].i = i + 1
          BY <1>1, <1>2, <3>1 DEF SdlState
        <4> QED
          BY <1>1, <2>1, <4>1, ScreenAssumption DEF Row
      <3>2. CASE ~(i + 1 < CTR_ROW)
        BY <1>1, <3>2, ScreenAssumption DEF Row
      <3> QED
        BY <3>1, <3>2
    <2>3. CASE l = i
      BY <1>7, <2>3
    <2>4. CASE l # i
      <3>1. l < i
        BY <1>1, <2>2, <2>4, ScreenAssumption DEF Row
      <3>2. VShown(l)
        BY <1>1, <1>6, <2>4, <3>1 DEF Marking, Passed
      <3> QED
        BY <1>4, <2>4, <3>2
    <2> QED
      BY <2>3, <2>4
  <1>10. PendMissed'
    <2>1. pend \ {Vmem} \subseteq missed
      BY <1>1 DEF Marking, PendMissed, Updating
    <2> QED
      BY <1>2, <2>1 DEF PendMissed
  <1> QED
    BY <1>8, <1>9, <1>10 DEF Marking

LEMMA MarkingClear ==
    ASSUME TypeOK, Life, Marking, 1 \in Thread, clear(1)
    PROVE  Marking'
  <1>1. /\ sdl \in [Thread -> SdlState] /\ sdl[1].pc = "clear"
        /\ UNCHANGED <<space, main, pend, screen, missed>>
    BY DEF TypeOK, SdlState, clear
  <1>2. \A l : VShown(l)' <=> VShown(l)
    BY <1>1 DEF VShown
  <1>3. main # "done" => \A l \in Row \ missed : VShown(l)
    BY <1>1 DEF Marking, Passed
  <1>4. Stale' /\ Passed'
    BY <1>1, <1>2, <1>3 DEF Stale, Passed
  <1>5. pend \ {Vmem} \subseteq missed
    BY <1>1 DEF Marking, PendMissed, Updating
  <1>6. PendMissed'
    BY <1>1, <1>5 DEF PendMissed
  <1> QED
    BY <1>4, <1>6 DEF Marking

LEMMA MarkingThread ==
    ASSUME TypeOK, Life, Marking, NEW t \in Thread, SdlThread(t)
    PROVE  Marking'
  <1>1. t = 1 /\ 1 \in Thread
    BY ThreadIsOne
  <1>2. sdl \in [Thread -> SdlState]
    BY DEF TypeOK, SdlState
  <1>3. CASE opened(1) \/ delay(1) \/ (loop(1) /\ initialized)
    <2>1. UNCHANGED <<space, screen, dirty, pend, missed, main>>
      BY <1>3 DEF opened, delay, loop, dirty
    <2>2. \A u \in Thread : sdl'[u].pc \in {"draw", "clear"} => sdl'[u] = sdl[u]
      BY <1>1, <1>2, <1>3 DEF opened, delay, loop, Goto, SdlState
    <2>3. main = "done" => main' = "done"
      BY <2>1
    <2> QED
      BY <2>1, <2>2, <2>3, MarkingFrame
  <1>4. CASE loop(1) /\ ~initialized
    <2>1. main = "done" /\ main' = "done"
      BY <1>1, <1>4 DEF loop, Life, Unmapped, Looping
    <2>2. sdl' = [sdl EXCEPT ![1].pc = "ended"] /\ UNCHANGED <<pend, missed>>
      BY <1>4 DEF loop, Goto
    <2>3. PendMissed'
      BY <1>2, <2>2 DEF Marking, PendMissed, Updating, SdlState
    <2> QED
      BY <2>1, <2>3 DEF Marking, Stale, Passed
  <1> QED
    BY <1>1, <1>3, <1>4, MarkingUpdate, MarkingDraw, MarkingClear DEF SdlThread

LEMMA MarkingNext ==
    ASSUME TypeOK, Life, Marking, [Next]_vars
    PROVE  Marking'
  <1>1. CASE UNCHANGED vars
    BY <1>1, MarkingFrame DEF vars
  <1> QED
    BY <1>1, MarkingMain, MarkingWrite, MarkingMark, MarkingThread DEF Next

(* A line of the screen that differs from the video memory is marked, and  *)
(* so is the memory, but for the tails and the stores during an update     *)
(* (vga.c): whatever the screen, the operands and the number of runs.      *)
THEOREM StaleMarkedAlways ==
    ASSUME SlowRuns
    PROVE  Spec => []StaleMarked
  <1>1. TypeOK /\ Life /\ Marking => StaleMarked
    <2> SUFFICES ASSUME TypeOK, Life, Marking, main # "done",
                        NEW l \in Row, l \notin missed
                 PROVE  \/ Shown(l)
                        \/ (l \in pend \/ line_dirty[l]) /\ (Vmem \in pend \/ vmem_dirty)
      BY DEF StaleMarked
    <2>1. maps # <<>> => maps[1] = 0
      BY DEF Life, Unmapped, Mapped
    <2>2. VShown(l) => Shown(l)
      BY <2>1 DEF VShown, Shown
    <2>3. VShown(l) \/ Marked(l)
      BY DEF Marking, Stale
    <2> QED
      BY <2>2, <2>3 DEF Marked
  <1>2. Init => TypeOK /\ Life /\ Marking
    BY InitType, LifeInit, MarkingInit
  <1>3. TypeOK /\ Life /\ Marking /\ [Next]_vars => (TypeOK /\ Life /\ Marking)'
    BY NextType, LifeNext, MarkingNext
  <1> QED
    BY <1>1, <1>2, <1>3, PTL DEF Spec
=============================================================================
