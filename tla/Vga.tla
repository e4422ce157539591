--------------------------------- MODULE Vga ---------------------------------
(***************************************************************************)
(* The video memory of NEMU: the map of nemu/src/device/io/mm_io.c, the    *)
(* write handler and update_screen of nemu/src/device/dev/vga.c, and the   *)
(* life of the SDL thread (nemu/src/device/sdl.c) over the runs that       *)
(* nemu/src/main.c makes in one process.                                   *)
(*                                                                         *)
(* The main thread and the SDL thread share plain variables.  Stores of    *)
(* one thread to different objects may reach the other in any order, so a  *)
(* thread's next stores are a set and each is a step.  Pixel addresses     *)
(* count from 0xa0000.                                                     *)
(***************************************************************************)
EXTENDS Integers, Sequences

CONSTANTS
    CTR_ROW, CTR_COL,  \* lines of the screen, pixels of a line
    Beyond,            \* pixels of the map behind the last line
    Color,             \* pixel values
    Black,             \* the value of static storage
    Lens,              \* operand sizes
    Period,            \* SDL_HZ / VGA_HZ
    NR_MAP,            \* places in maps
    NSpace,            \* video memories mmio_space_pool has room for
    MaxRuns,           \* bound: programs run in one process
    SlowRuns           \* a run lasts until the window is open (the kernel
                       \* takes longer to boot than SDL to open it)

ASSUME ScreenAssumption ==
    /\ CTR_ROW \in Nat \ {0} /\ CTR_COL \in Nat \ {0} /\ Beyond \in Nat
    /\ Lens \subseteq 1 .. CTR_COL /\ Black \in Color
ASSUME ThreadAssumption ==
    /\ Period \in Nat \ {0} /\ NR_MAP \in Nat \ {0} /\ NSpace \in Nat \ {0}
    /\ MaxRuns \in Nat /\ SlowRuns \in BOOLEAN

VARIABLES
    maps,         \* spaces of the maps, in order; all for the same addresses
    free_index,   \* spaces given away
    vmem_base,    \* the space update_screen reads
    space,        \* space -> pixel of the screen -> value
    line_dirty, vmem_dirty,
    initialized,
    main,         \* main thread: "idle", "init" (in restart), "run", "done"
    runs,         \* programs started
    pend,         \* stores the write handler has yet to make: lines and Vmem
    sdl,          \* thread -> [pc, i, clear, jiffy]
    screen,       \* line -> column -> value shown
    missed        \* history: lines whose last write the flags may not show

device == <<maps, free_index, vmem_base>>
dirty  == <<line_dirty, vmem_dirty>>
vars   == <<device, space, dirty, initialized, main, runs, pend, sdl, screen, missed>>

Row    == 0 .. CTR_ROW - 1
Col    == 0 .. CTR_COL - 1
Pixel  == 0 .. CTR_ROW * CTR_COL - 1
InMap  == 0 .. CTR_ROW * CTR_COL + Beyond - 1
Space  == 0 .. NSpace - 1
Thread == 1 .. MaxRuns
Vmem   == -1   \* names the store to vmem_dirty
Clears == Row \cup {Vmem}

LineOf_Rounded(a) == (a + 1) \div CTR_COL   \* bug: off by one

LineOf(a) == a \div CTR_COL

Init ==
    /\ maps = <<>> /\ free_index = 0 /\ vmem_base = 0
    /\ space = [s \in Space |-> [a \in Pixel |-> Black]]
    /\ line_dirty = [l \in Row |-> FALSE] /\ vmem_dirty = FALSE
    /\ initialized = FALSE
    /\ main = "idle" /\ runs = 0
    /\ pend = {}
    /\ sdl = [t \in Thread |-> [pc |-> "none", i |-> 0, clear |-> {}, jiffy |-> 0]]
    /\ screen = [l \in Row |-> [c \in Col |-> Black]]
    /\ missed = {}

Updating == \E t \in Thread : sdl[t].pc \in {"draw", "clear"}

----------------------------------------------------------------------------
(* main.c: restart of the next run, which calls init_sdl; the end of a     *)
(* run; close_sdl after the last.                                          *)
next_run ==
    /\ main = "idle" /\ runs < MaxRuns
    /\ main' = "init"
    /\ runs' = runs + 1
    /\ UNCHANGED <<device, space, dirty, initialized, pend, sdl, screen, missed>>

(* The assertions of add_mmio_map.                                         *)
RoomForMap == Len(maps) < NR_MAP /\ free_index < NSpace

(* Bug: init_vga and a new thread in every run.                            *)
init_sdl_Always ==
    /\ main = "init" /\ RoomForMap
    /\ main' = "run"
    /\ maps' = Append(maps, free_index)
    /\ vmem_base' = free_index
    /\ free_index' = free_index + 1
    /\ sdl' = [sdl EXCEPT ![runs].pc = "open"]
    /\ UNCHANGED <<space, dirty, initialized, runs, pend, screen, missed>>

(* init_sdl: unless the display is there, init_vga and a thread.           *)
init_sdl ==
    /\ main = "init"
    /\ main' = "run"
    /\ IF initialized THEN UNCHANGED <<device, sdl>>
       ELSE /\ RoomForMap
            /\ maps' = Append(maps, free_index)
            /\ vmem_base' = free_index
            /\ free_index' = free_index + 1
            /\ sdl' = [sdl EXCEPT ![runs].pc = "open"]
    /\ UNCHANGED <<space, dirty, initialized, runs, pend, screen, missed>>

end_run ==
    /\ main = "run" /\ pend = {}
    /\ SlowRuns => initialized
    /\ main' = "idle"
    /\ UNCHANGED <<device, space, dirty, initialized, runs, pend, sdl, screen, missed>>

close_sdl ==
    /\ main = "idle" /\ runs > 0
    /\ main' = "done"
    /\ initialized' = FALSE
    /\ UNCHANGED <<device, space, dirty, runs, pend, sdl, screen, missed>>

----------------------------------------------------------------------------
(* Bugs: the test on the line is missing; vmem_dirty is not set.           *)
Marks_AnyLine(a) == {LineOf(a), Vmem}
Marks_NoFlag(a) == IF LineOf(a) < CTR_ROW THEN {LineOf(a)} ELSE {}

(* The stores of vga_vmem_io_handler for a write at a.                     *)
Marks(a) == IF LineOf(a) < CTR_ROW THEN {LineOf(a), Vmem} ELSE {}

(* mmio_write: the operand goes to the space of the first map, then the    *)
(* handler is called with the address of the first pixel.                  *)
mmio_write(a, len, v) ==
    /\ main = "run" /\ pend = {}
    /\ maps # <<>>
    /\ space' = [space EXCEPT ![maps[1]] =
                   [p \in Pixel |-> IF p \in a .. a + len - 1 THEN v ELSE @[p]]]
    /\ pend' = Marks(a)
    /\ LET first == {LineOf(a)} \cap Row
           tail  == ({LineOf(a + len - 1)} \cap Row) \ first
       IN  missed' = (IF Updating THEN missed \cup first ELSE missed \ first) \cup tail
    /\ UNCHANGED <<device, dirty, initialized, main, runs, sdl, screen>>

mark ==
    /\ \E x \in pend :
          /\ pend' = pend \ {x}
          /\ IF x = Vmem THEN vmem_dirty' = TRUE /\ UNCHANGED line_dirty
             ELSE line_dirty' = [l \in DOMAIN line_dirty \cup {x} |->
                                   l = x \/ line_dirty[l]] /\ UNCHANGED vmem_dirty
    /\ UNCHANGED <<device, space, initialized, main, runs, sdl, screen, missed>>

----------------------------------------------------------------------------
Goto(t, pc) == sdl' = [sdl EXCEPT ![t].pc = pc]

(* NEMU_SDL_Thread: the window is open.                                    *)
opened(t) ==
    /\ sdl[t].pc = "open"
    /\ initialized' = TRUE
    /\ Goto(t, "loop")
    /\ UNCHANGED <<device, space, dirty, main, runs, pend, screen, missed>>

(* The head of the loop.  After it, close_vga.                             *)
loop(t) ==
    /\ sdl[t].pc = "loop"
    /\ IF initialized
       THEN /\ Goto(t, IF sdl[t].jiffy = 0 THEN "update" ELSE "delay")
            /\ UNCHANGED <<maps, free_index, vmem_dirty>>
       ELSE /\ Goto(t, "ended")
            /\ maps' = <<>> /\ free_index' = 0 /\ vmem_dirty' = FALSE
    /\ UNCHANGED <<vmem_base, space, line_dirty, initialized, main, runs, pend, screen, missed>>

(* update_screen.  A write whose marks are still on their way when it      *)
(* begins may be missed.                                                   *)
update_screen(t) ==
    /\ sdl[t].pc = "update"
    /\ IF vmem_dirty
       THEN /\ sdl' = [sdl EXCEPT ![t].pc = "draw", ![t].i = 0]
            /\ missed' = missed \cup (pend \ {Vmem})
       ELSE Goto(t, "delay") /\ UNCHANGED missed
    /\ UNCHANGED <<device, space, dirty, initialized, main, runs, pend, screen>>

(* One line of do_update_screen_graphic_mode; after the last, the flags    *)
(* are cleared.                                                            *)
draw(t) ==
    /\ sdl[t].pc = "draw"
    /\ LET i == sdl[t].i
       IN  /\ IF line_dirty[i]
              THEN /\ screen' = [screen EXCEPT ![i] =
                                   [c \in Col |-> space[vmem_base][i * CTR_COL + c]]]
                   /\ missed' = IF i \in pend THEN missed ELSE missed \ {i}
              ELSE UNCHANGED <<screen, missed>>
           /\ sdl' = [sdl EXCEPT ![t] =
                        IF i + 1 < CTR_ROW THEN [@ EXCEPT !.i = i + 1]
                        ELSE [@ EXCEPT !.i = 0, !.pc = "clear", !.clear = Clears]]
    /\ UNCHANGED <<device, space, dirty, initialized, main, runs, pend>>

clear(t) ==
    /\ sdl[t].pc = "clear"
    /\ \E x \in sdl[t].clear :
          /\ sdl' = [sdl EXCEPT ![t].clear = @ \ {x},
                                ![t].pc = IF sdl[t].clear = {x} THEN "delay" ELSE "clear"]
          /\ IF x = Vmem THEN vmem_dirty' = FALSE /\ UNCHANGED line_dirty
             ELSE line_dirty' = [line_dirty EXCEPT ![x] = FALSE] /\ UNCHANGED vmem_dirty
    /\ UNCHANGED <<device, space, initialized, main, runs, pend, screen, missed>>

(* The events, jiffy++ and SDL_Delay.                                      *)
delay(t) ==
    /\ sdl[t].pc = "delay"
    /\ sdl' = [sdl EXCEPT ![t].pc = "loop", ![t].jiffy = (@ + 1) % Period]
    /\ UNCHANGED <<device, space, dirty, initialized, main, runs, pend, screen, missed>>

SdlThread(t) ==
    opened(t) \/ loop(t) \/ update_screen(t) \/ draw(t) \/ clear(t) \/ delay(t)

Next ==
    \/ next_run \/ init_sdl \/ end_run \/ close_sdl
    \/ \E a \in InMap, len \in Lens, v \in Color : a + len - 1 \in InMap /\ mmio_write(a, len, v)
    \/ mark
    \/ \E t \in Thread : SdlThread(t)

(* The SDL thread never waits but in SDL_Delay; a store, once due, is made.*)
Spec == Init /\ [][Next]_vars /\ WF_vars(mark) /\ \A t \in Thread : WF_vars(SdlThread(t))

----------------------------------------------------------------------------
(* Types of the state; the flags have no line but those of the screen.     *)
TypeOK ==
    /\ maps \in Seq(Space) /\ free_index \in 0 .. NSpace /\ vmem_base \in Space
    /\ space \in [Space -> [Pixel -> Color]]
    /\ line_dirty \in [Row -> BOOLEAN] /\ vmem_dirty \in BOOLEAN
    /\ initialized \in BOOLEAN
    /\ main \in {"idle", "init", "run", "done"} /\ runs \in 0 .. MaxRuns
    /\ pend \subseteq Clears
    /\ sdl \in [Thread -> [pc : {"none", "open", "loop", "update", "draw", "clear",
                                 "delay", "ended"},
                           i : Row, clear : SUBSET Clears, jiffy : 0 .. Period - 1]]
    /\ screen \in [Row -> [Col -> Color]]
    /\ missed \subseteq Row

Shown(l) == \A c \in Col : maps # <<>> => screen[l][c] = space[maps[1]][l * CTR_COL + c]

(* A line that is not shown as it is in the video memory is marked, and so *)
(* is the memory, but for writes that overlap an update, whose marks       *)
(* update_screen may clear undrawn, and for the tail of an operand that    *)
(* ends in the next line, which the handler does not mark.                 *)
StaleMarked ==
    \A l \in Row \ missed :
        Shown(l) \/ main = "done"
        \/ /\ l \in pend \/ line_dirty[l]
           /\ Vmem \in pend \/ vmem_dirty

(* Such a line is drawn at last, or written again, while the emulator runs.*)
Drawn ==
    \A l \in Row :
        ~Shown(l) /\ l \notin missed ~> Shown(l) \/ l \in missed \/ main = "done"

(* One SDL thread is alive, it reads the video memory that the CPU writes, *)
(* and the assertions of add_mmio_map hold.  This needs SlowRuns: nothing  *)
(* but the delay of opening the window keeps init_sdl from a second start. *)
OneDisplay ==
    /\ \A t, u \in Thread :
          sdl[t].pc \notin {"none", "ended"} /\ sdl[u].pc \notin {"none", "ended"} => t = u
    /\ maps # <<>> => vmem_base = maps[1]
    /\ main = "init" => initialized \/ RoomForMap
=============================================================================
