----------------------------- MODULE Interrupts -----------------------------
(***************************************************************************)
(* Interrupt delivery in NEMU and in the kernel that runs on it.           *)
(*                                                                         *)
(*   - the one-slot interrupt controller, nemu/src/device/i8259_pic.c;     *)
(*   - the SDL thread, which raises the timer and keyboard interrupts,     *)
(*     nemu/src/device/sdl.c, dev/timer.c, dev/keyboard.c;                 *)
(*   - the CPU thread: exec and do_intr (nemu/src/cpu/cpu.c), raise_intr   *)
(*     (cpu/intr.c), hlt, iret, and the out instruction of dev/ide.c that  *)
(*     raises the disk's interrupt;                                        *)
(*   - the guest: a user program that computes, halts, masks interrupts or *)
(*     reads the disk, the kernel's disk_do_read and its three handlers.   *)
(*                                                                         *)
(* The two threads share intr_no, cpu.intr, nemu_state and scan_code_buf   *)
(* without a lock.  Each store to them is a step.  The two stores of       *)
(* i8259_raise_intr, and those of i8259_ack_intr, are to unrelated plain   *)
(* objects, so a compiler at -O2 may emit them in either order: they are   *)
(* kept in a set and leave it in any order.                                *)
(***************************************************************************)
EXTENDS Integers, Sequences

CONSTANTS MaxKeys,    \* bound: key events of a behaviour
          MaxReads,   \* bound: disk reads of a behaviour
          MaxDepth    \* bound: interrupts nested in a panic's log
ASSUME BoundAssumption == MaxKeys \in Nat /\ MaxReads \in Nat /\ MaxDepth \in Nat

VARIABLES
    nemu_state,      \* "RUN", or "STOP" after SDL_QUIT or a trap
    intr_no,         \* the number in the controller's slot, "none" for -1
    intr,            \* cpu.intr, the line to the CPU
    scan_code_buf,   \* the keyboard's data port: the index of a key event
    sdl,             \* where NEMU_SDL_Thread is: "tick", "events", "ended"
    sirq, stodo,     \* the interrupt it is raising, the stores left to do
    eflags_IF,       \* cpu.eflags.IF
    pc,              \* the guest's next instruction
    ph,              \* where the CPU thread is in the loop of exec
    num, ctodo,      \* do_intr's local intr_no, the CPU's stores left to do
    frames,          \* what raise_intr pushed: [pc, fl], innermost first
    has_ide_intr,    \* the kernel driver's flag
    key_code,        \* what the keyboard handler read last
    keys, kbdRuns,   \* key events so far, runs of the keyboard handler
    reads, ideRuns   \* disk reads issued so far, runs of the IDE handler

pic   == <<intr_no, intr>>
sdlv  == <<sdl, sirq, stodo, keys, scan_code_buf>>
cpuv  == <<eflags_IF, pc, ph, num, ctodo, frames>>
kern  == <<has_ide_intr, key_code, kbdRuns, reads, ideRuns>>
vars  == <<nemu_state, pic, sdlv, cpuv, kern>>

Irq    == {"timer", "keyboard", "ide"}
Stores == {"no", "line"}

(* Instructions of the guest outside the handlers.  "halt" is hlt in the   *)
(* user program; "masked" is the region between its cli and its sti; from  *)
(* "clear" to "done" is disk_do_read, "wait" the hlt of wait_ide_intr.     *)
MainPc    == {"user", "halt", "masked", "clear", "issue", "test", "wait", "done"}
HandlerPc == Irq \union {"iret"}

Init ==
    /\ nemu_state = "RUN" /\ intr_no = "none" /\ intr = FALSE
    /\ scan_code_buf = 0 /\ sdl = "tick" /\ sirq = "none" /\ stodo = {}
    /\ eflags_IF = TRUE /\ pc = "user" /\ ph = "exec" /\ num = "none" /\ ctodo = {}
    /\ frames = <<>> /\ has_ide_intr = FALSE /\ key_code = 0
    /\ keys = 0 /\ kbdRuns = 0 /\ reads = 0 /\ ideRuns = 0

----------------------------------------------------------------------------
(* One store of i8259_raise_intr, and one of i8259_ack_intr.               *)
RaiseStore(s, irq) == IF s = "no" THEN intr_no' = irq  /\ UNCHANGED intr
                                  ELSE intr' = TRUE    /\ UNCHANGED intr_no
AckStore(s) == IF s = "no" THEN intr_no' = "none" /\ UNCHANGED intr
                           ELSE intr' = FALSE     /\ UNCHANGED intr_no

----------------------------------------------------------------------------
(* The SDL thread: timer_intr, then the events, then 10 ms of sleep.       *)

(* Bug: the tick raises nothing.                                           *)
TimerTick_Silent ==
    /\ sdl = "tick" /\ sdl' = "events"
    /\ UNCHANGED <<nemu_state, pic, sirq, stodo, keys, scan_code_buf, cpuv, kern>>

TimerTick ==
    /\ sdl = "tick" /\ sdl' = "events"
    /\ IF nemu_state = "RUN" THEN sirq' = "timer" /\ stodo' = Stores
                             ELSE UNCHANGED <<sirq, stodo>>
    /\ UNCHANGED <<nemu_state, pic, keys, scan_code_buf, cpuv, kern>>

SdlStore ==
    \E s \in stodo :
        /\ RaiseStore(s, sirq)
        /\ stodo' = stodo \ {s}
        /\ UNCHANGED <<nemu_state, sdl, sirq, keys, scan_code_buf, cpuv, kern>>

(* Bug: the interrupt is raised without a code in the buffer.              *)
KeyEvent_NoCode ==
    /\ sdl = "events" /\ stodo = {} /\ keys < MaxKeys
    /\ keys' = keys + 1
    /\ sirq' = "keyboard" /\ stodo' = Stores
    /\ UNCHANGED <<nemu_state, pic, sdl, scan_code_buf, cpuv, kern>>

(* keyboard_down and keyboard_up: the code goes to the buffer, whatever is *)
(* still unread there, then the interrupt is raised.                       *)
KeyEvent ==
    /\ sdl = "events" /\ stodo = {} /\ keys < MaxKeys
    /\ keys' = keys + 1
    /\ scan_code_buf' = keys + 1
    /\ sirq' = "keyboard" /\ stodo' = Stores
    /\ UNCHANGED <<nemu_state, pic, sdl, cpuv, kern>>

QuitEvent ==
    /\ sdl = "events" /\ stodo = {} /\ nemu_state = "RUN"
    /\ nemu_state' = "STOP"
    /\ UNCHANGED <<pic, sdlv, cpuv, kern>>

(* SDL_Delay, and the loop's test of `initialized', which close_sdl clears *)
(* once the CPU thread is out of exec.                                     *)
Delay ==
    /\ sdl = "events" /\ stodo = {}
    /\ sdl' = IF ph = "stopped" THEN "ended" ELSE "tick"
    /\ UNCHANGED <<nemu_state, pic, sirq, stodo, keys, scan_code_buf, cpuv, kern>>

----------------------------------------------------------------------------
(* The CPU thread executes one instruction of the guest.  The loop of exec *)
(* tests nemu_state first and calls do_intr after the instruction.         *)

Step(from, to) ==
    /\ ph = "exec" /\ nemu_state = "RUN"
    /\ pc = from /\ pc' = to /\ ph' = "check"

User ==
    /\ \E to \in {"user", "halt", "masked"} \union
                 (IF reads < MaxReads THEN {"clear"} ELSE {}) :
          /\ Step("user", to)
          /\ eflags_IF' = (to # "masked")
    /\ UNCHANGED <<nemu_state, pic, sdlv, num, ctodo, frames, kern>>

Sti ==
    /\ Step("masked", "user")
    /\ eflags_IF' = TRUE
    /\ UNCHANGED <<nemu_state, pic, sdlv, num, ctodo, frames, kern>>

(* hlt joins a thread that polls cpu.intr and nothing else.                *)
EnterHlt ==
    /\ ph = "exec" /\ nemu_state = "RUN" /\ pc \in {"halt", "wait"}
    /\ ph' = "halted"
    /\ UNCHANGED <<nemu_state, pic, sdlv, eflags_IF, pc, num, ctodo, frames, kern>>

Hlt ==
    /\ ph = "halted" /\ intr
    /\ ph' = "check"
    /\ pc' = IF pc = "halt" THEN "user" ELSE "test"
    /\ UNCHANGED <<nemu_state, pic, sdlv, eflags_IF, num, ctodo, frames, kern>>

ClearIdeIntr ==
    /\ Step("clear", "issue")
    /\ has_ide_intr' = FALSE
    /\ UNCHANGED <<nemu_state, pic, sdlv, eflags_IF, num, ctodo, frames,
                   key_code, kbdRuns, reads, ideRuns>>

(* out 0x20 to the command port: handler_ide raises the disk's interrupt   *)
(* before the instruction ends.                                            *)
IssueRead ==
    /\ ph = "exec" /\ nemu_state = "RUN"
    /\ pc = "issue" /\ pc' = "test" /\ ph' = "out"
    /\ ctodo' = Stores
    /\ reads' = reads + 1
    /\ UNCHANGED <<nemu_state, pic, sdlv, eflags_IF, num, frames,
                   has_ide_intr, key_code, kbdRuns, ideRuns>>

OutStore ==
    /\ ph = "out"
    /\ \E s \in ctodo :
          /\ RaiseStore(s, "ide")
          /\ ctodo' = ctodo \ {s}
          /\ ph' = IF ctodo = {s} THEN "check" ELSE "out"
    /\ UNCHANGED <<nemu_state, sdlv, eflags_IF, pc, num, frames, kern>>

(* Bug: any interrupt ends the wait.                                       *)
TestIdeIntr_Once ==
    /\ Step("test", IF has_ide_intr \/ intr THEN "done" ELSE "wait")
    /\ UNCHANGED <<nemu_state, pic, sdlv, eflags_IF, num, ctodo, frames, kern>>

(* The loop condition of wait_ide_intr.                                    *)
TestIdeIntr ==
    /\ Step("test", IF has_ide_intr THEN "done" ELSE "wait")
    /\ UNCHANGED <<nemu_state, pic, sdlv, eflags_IF, num, ctodo, frames, kern>>

(* clear_ide_intr after the loop, then the 128 in_long of disk_do_read.    *)
Transfer ==
    /\ Step("done", "user")
    /\ has_ide_intr' = FALSE
    /\ UNCHANGED <<nemu_state, pic, sdlv, eflags_IF, num, ctodo, frames,
                   key_code, kbdRuns, reads, ideRuns>>

(* The handlers, entered with IF clear.  irq 0: ide_writeback, nothing     *)
(* being dirty; irq 1: in 0x60; irq 14: ide_intr.                          *)
TimerHandler ==
    /\ Step("timer", "iret")
    /\ UNCHANGED <<nemu_state, pic, sdlv, eflags_IF, num, ctodo, frames, kern>>

KeyboardHandler ==
    /\ Step("keyboard", "iret")
    /\ key_code' = scan_code_buf
    /\ kbdRuns' = kbdRuns + 1
    /\ UNCHANGED <<nemu_state, pic, sdlv, eflags_IF, num, ctodo, frames,
                   has_ide_intr, reads, ideRuns>>

(* Bug: init_ide registers no handler for IRQ 14.                          *)
IdeHandler_NotRegistered ==
    /\ Step("ide", "iret")
    /\ UNCHANGED <<nemu_state, pic, sdlv, eflags_IF, num, ctodo, frames, kern>>

IdeHandler ==
    /\ Step("ide", "iret")
    /\ has_ide_intr' = TRUE
    /\ ideRuns' = ideRuns + 1
    /\ UNCHANGED <<nemu_state, pic, sdlv, eflags_IF, num, ctodo, frames,
                   key_code, kbdRuns, reads>>

(* Bug: iret pops EFLAGS and drops it.                                     *)
Iret_KeepsIF ==
    /\ frames # <<>>
    /\ Step("iret", frames[1].pc)
    /\ frames' = Tail(frames)
    /\ UNCHANGED <<nemu_state, pic, sdlv, eflags_IF, num, ctodo, kern>>

Iret ==
    /\ frames # <<>>
    /\ Step("iret", frames[1].pc)
    /\ eflags_IF' = frames[1].fl
    /\ frames' = Tail(frames)
    /\ UNCHANGED <<nemu_state, pic, sdlv, num, ctodo, kern>>

(* irq_empty: panic("Unhandled exception!") logs, with IF as it was since  *)
(* the gate is a trap gate, and ends in HIT_BAD_TRAP.                      *)
PanicLog ==
    /\ Len(frames) < MaxDepth
    /\ Step("panic", "panic")
    /\ UNCHANGED <<nemu_state, pic, sdlv, eflags_IF, num, ctodo, frames, kern>>

Panic ==
    /\ Step("panic", "panic")
    /\ nemu_state' = "STOP"
    /\ UNCHANGED <<pic, sdlv, eflags_IF, num, ctodo, frames, kern>>

(* The loop of exec ends; so does ui_mainloop, and main calls close_sdl.   *)
LeaveExec ==
    /\ ph = "exec" /\ nemu_state = "STOP"
    /\ ph' = "stopped"
    /\ UNCHANGED <<nemu_state, pic, sdlv, eflags_IF, pc, num, ctodo, frames, kern>>

----------------------------------------------------------------------------
(* do_intr.                                                                *)

CheckIntr ==
    /\ ph = "check"
    /\ ph' = IF intr /\ eflags_IF THEN "query" ELSE "exec"
    /\ UNCHANGED <<nemu_state, pic, sdlv, eflags_IF, pc, num, ctodo, frames, kern>>

QueryIntrNo ==
    /\ ph = "query"
    /\ num' = intr_no
    /\ ctodo' = Stores
    /\ ph' = "ack"
    /\ UNCHANGED <<nemu_state, pic, sdlv, eflags_IF, pc, frames, kern>>

(* Bug: raise_intr is entered before the second store of the ack.          *)
AckIntr_OneStore ==
    /\ ph = "ack"
    /\ \E s \in ctodo :
          /\ AckStore(s)
          /\ ctodo' = ctodo \ {s}
          /\ ph' = "raise"
    /\ UNCHANGED <<nemu_state, sdlv, eflags_IF, pc, num, frames, kern>>

AckIntr ==
    /\ ph = "ack"
    /\ \E s \in ctodo :
          /\ AckStore(s)
          /\ ctodo' = ctodo \ {s}
          /\ ph' = IF ctodo = {s} THEN "raise" ELSE "ack"
    /\ UNCHANGED <<nemu_state, sdlv, eflags_IF, pc, num, frames, kern>>

(* Bug: the three entries of the table are trap gates.                     *)
RaiseIntr_TrapGate ==
    /\ ph = "raise"
    /\ frames' = <<[pc |-> pc, fl |-> eflags_IF]>> \o frames
    /\ pc' = IF num \in Irq THEN num ELSE "panic"
    /\ ph' = "exec"
    /\ UNCHANGED <<nemu_state, pic, sdlv, eflags_IF, num, ctodo, kern>>

(* raise_intr through the kernel's table: interrupt gates for the three    *)
(* numbers, the trap gate of irq_empty for any other.                      *)
RaiseIntr ==
    /\ ph = "raise"
    /\ frames' = <<[pc |-> pc, fl |-> eflags_IF]>> \o frames
    /\ pc' = IF num \in Irq THEN num ELSE "panic"
    /\ eflags_IF' = IF num \in Irq THEN FALSE ELSE eflags_IF
    /\ ph' = "exec"
    /\ UNCHANGED <<nemu_state, pic, sdlv, num, ctodo, kern>>

----------------------------------------------------------------------------
CpuNext ==
    \/ User \/ Sti \/ EnterHlt \/ Hlt
    \/ ClearIdeIntr \/ IssueRead \/ OutStore \/ TestIdeIntr \/ Transfer
    \/ TimerHandler \/ KeyboardHandler \/ IdeHandler \/ Iret
    \/ PanicLog \/ Panic \/ LeaveExec
    \/ CheckIntr \/ QueryIntrNo \/ AckIntr \/ RaiseIntr

Next == CpuNext \/ TimerTick \/ SdlStore \/ KeyEvent \/ QuitEvent \/ Delay

(* Both threads are scheduled: the CPU thread goes on whenever it is not   *)
(* in the join of a hlt, the SDL thread always.  Keys and SDL_QUIT depend  *)
(* on the user.                                                            *)
Fairness ==
    /\ WF_vars(CpuNext)
    /\ WF_vars(TimerTick) /\ WF_vars(SdlStore) /\ WF_vars(Delay)

Spec == Init /\ [][Next]_vars /\ Fairness

----------------------------------------------------------------------------
Pc    == MainPc \union HandlerPc \union {"panic"}
Frame == [pc : Pc, fl : BOOLEAN]

(* Types of the state; a thread has stores left only inside raise or ack,  *)
(* and a handler runs on the frame it will return through.                 *)
TypeOK ==
    /\ nemu_state \in {"RUN", "STOP"}
    /\ intr_no \in Irq \union {"none"} /\ intr \in BOOLEAN
    /\ sdl \in {"tick", "events", "ended"}
    /\ sirq \in {"none", "timer", "keyboard"} /\ stodo \subseteq Stores
    /\ scan_code_buf \in Nat /\ keys \in Nat
    /\ eflags_IF \in BOOLEAN /\ pc \in Pc
    /\ ph \in {"exec", "halted", "out", "check", "query", "ack", "raise", "stopped"}
    /\ num \in Irq \union {"none"} /\ ctodo \subseteq Stores
    /\ frames \in Seq(Frame)
    /\ has_ide_intr \in BOOLEAN /\ key_code \in Nat
    /\ kbdRuns \in Nat /\ reads \in Nat /\ ideRuns \in Nat
    /\ ctodo # {} => ph \in {"out", "ack"}
    /\ stodo # {} => sirq # "none"
    /\ pc \in HandlerPc => frames # <<>>

(* A handler is never interrupted: ide_writeback and the drivers' handlers *)
(* share the sector cache and has_ide_intr without a lock.                 *)
HandlerAtomic == \A i \in DOMAIN frames : frames[i].pc \notin HandlerPc

(* wait_ide_intr returns only after the interrupt of the read it waits     *)
(* for: neither a timer tick nor the interrupt of an earlier read lets     *)
(* disk_do_read take 512 bytes too early.                                  *)
ReadAccounted == pc = "done" => ideRuns = reads

(* The n-th run of the keyboard handler reads the code of the n-th key or  *)
(* of a later one: the threads may lose a key in the one-slot controller   *)
(* or the one-byte buffer, and never deliver one twice or a stale code.    *)
NoKeyTwice == kbdRuns =< key_code

Waiting(p) == p \in {"test", "wait"}
ReadWaits  == Waiting(pc) \/ \E i \in DOMAIN frames : Waiting(frames[i].pc)

(* The disk's interrupt is on its way to the handler or was handled.       *)
IdeUnderway ==
    \/ has_ide_intr
    \/ intr_no = "ide"
    \/ num = "ide" /\ ph \in {"ack", "raise"}
    \/ pc = "ide"
    \/ ph = "out" /\ "no" \in ctodo

IdeLost == ReadWaits /\ ~IdeUnderway

(* The interrupt a read waits for is lost in one way only: timer_intr or a *)
(* key overwrites the one-slot controller before do_intr took the number,  *)
(* or do_intr's ack erases it.  The kernel never drops it afterwards.      *)
LostOnlyInSlot ==
    [][~IdeLost /\ IdeLost' => intr_no = "ide" /\ intr_no' # "ide"]_vars

(* hlt always wakes while the machine runs: the timer sets cpu.intr again  *)
(* whatever was lost before.                                               *)
HaltWakes == ph = "halted" ~> ph # "halted" \/ nemu_state = "STOP"

(* An interrupt line that is up is acknowledged, however long interrupts   *)
(* stay masked, as long as the machine runs.                               *)
LineServed == intr ~> ~intr \/ nemu_state = "STOP"

(* cpu.c:118, assert(intr_no != I8259_NO_INTR): do_intr takes a number     *)
(* that a device has raised.                                               *)
IntrNoAssert == ph = "ack" => num # "none"

(* sdl.c:25: "if receive SDL_QUIT, then terminal": the thread ends.        *)
QuitTerminates == nemu_state = "STOP" ~> sdl = "ended"
============================================================================
