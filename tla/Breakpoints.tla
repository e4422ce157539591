---------------------------- MODULE Breakpoints ----------------------------
(***************************************************************************)
(* The debugger of NEMU: the pool of breakpoints and watchpoints           *)
(* (nemu/src/monitor/breakpoint.c), the commands c, si, b, w and d         *)
(* (nemu/src/monitor/ui.c) and the loop of exec (nemu/src/cpu/cpu.c) that  *)
(* they drive.                                                             *)
(*                                                                         *)
(* A breakpoint is the opcode INT3 written over the program.  The program  *)
(* is the ring of one-byte instructions Code, does not write itself and    *)
(* jumps at will; it has one variable, val, which every watchpoint         *)
(* watches.  The SDL thread may set nemu_state to STOP at any moment.      *)
(***************************************************************************)
EXTENDS LinkedList, Sequences

CONSTANTS
    NR_BP,     \* nodes of the pool
    NAddr,     \* addresses of the program
    Opcode,    \* opcodes other than INT3
    INT3,      \* the opcode of break_point, 0xf1
    Code,      \* the program: address -> opcode
    MaxSteps   \* bound: the largest argument of si

Addr    == 0 .. NAddr - 1
NO      == 0 .. NR_BP - 1
NULL    == -1
Ptr     == NO \union {NULL}
Val     == {0, 1}
Forever == -1              \* the n of exec(-1), never counted down to zero

ASSUME PoolAssumption == NR_BP \in Nat \ {0} /\ NAddr \in Nat \ {0}
ASSUME CodeAssumption == INT3 \notin Opcode /\ Code \in [Addr -> Opcode \union {INT3}]
ASSUME StepsAssumption == MaxSteps \in Nat

(* The union of BP is the field what: the address of a breakpoint, the old *)
(* value of a watchpoint.                                                  *)
VARIABLES
    mem,         \* the opcodes in memory
    bp_list,     \* NO -> [in_use, type, what, ori_byte, next]
    head, free_, \* the list of the points set, the list of free nodes
    nemu_state,  \* "READY", "RUN", "STOP" or "BREAK"
    eip, val,
    ph,          \* where exec is: "prompt" (outside), "test", "inst", "post", "leave"
    n, hit_break_rerun

list == <<bp_list, head, free_>>
run  == <<ph, n, hit_break_rerun>>
vars == <<mem, list, nemu_state, eip, val, run>>

(* The nodes from p along the next pointers.                               *)
next == [q \in Ptr |-> IF q = NULL THEN NULL ELSE bp_list[q].next]
Chain(p)  == Follow(next, NULL, p, NR_BP)

Elems(s) == {s[i] : i \in DOMAIN s}

Listed      == Elems(Chain(head))
IsBreak(p)  == bp_list[p].type = "B"
BreaksAt(a) == {p \in NO : p \in Listed /\ IsBreak(p) /\ bp_list[p].what = a}

(* Bug: the last node points behind the pool.                              *)
init_bp_list_NoEnd(l) == [p \in NO |-> [l[p] EXCEPT !.in_use = FALSE, !.next = p + 1]]

(* init_bp_list: what the nodes held before stays, outside the fields set. *)
init_bp_list(l) ==
    [p \in NO |-> [l[p] EXCEPT !.in_use = FALSE,
                               !.next = IF p = NR_BP - 1 THEN NULL ELSE p + 1]]

Static == [p \in NO |-> [in_use |-> FALSE, type |-> "B", what |-> 0,
                         ori_byte |-> Code[0], next |-> NULL]]

Init ==
    /\ mem = Code /\ eip = 0 /\ val = 0
    /\ bp_list = init_bp_list(Static) /\ head = NULL /\ free_ = 0
    /\ nemu_state = "READY"
    /\ ph = "prompt" /\ n = 0 /\ hit_break_rerun = FALSE

----------------------------------------------------------------------------
(* The commands b, w and d.                                                *)

AtPrompt == ph = "prompt" /\ nemu_state # "STOP"

(* new_BP, the fields f set, and the link at the head.  An empty free list *)
(* fails the assertion of new_BP and ends the emulator.                    *)
Link(f) ==
    /\ free_ # NULL
    /\ ~bp_list[free_].in_use
    /\ bp_list' = [bp_list EXCEPT ![free_] = [f EXCEPT !.in_use = TRUE, !.next = head]]
    /\ head' = free_
    /\ free_' = bp_list[free_].next

(* Bug: the opcode under the breakpoint is not saved.                      *)
set_breakpoint_NoSave(a) ==
    /\ AtPrompt
    /\ Link([bp_list[free_] EXCEPT !.type = "B", !.what = a])
    /\ mem' = [mem EXCEPT ![a] = INT3]
    /\ UNCHANGED <<nemu_state, eip, val, run>>

set_breakpoint(a) ==
    /\ AtPrompt
    /\ Link([bp_list[free_] EXCEPT !.type = "B", !.what = a, !.ori_byte = mem[a]])
    /\ mem' = [mem EXCEPT ![a] = INT3]
    /\ UNCHANGED <<nemu_state, eip, val, run>>

(* expr never sets *success to true, so set_watchpoint tests a value       *)
(* nobody wrote: the command may as well do nothing, which is a stutter.   *)
set_watchpoint ==
    /\ AtPrompt
    /\ Link([bp_list[free_] EXCEPT !.type = "W", !.what = val])
    /\ UNCHANGED <<mem, nemu_state, eip, val, run>>

(* The nodes after free_BP(p): p is free and before the rest.              *)
Freed(l, p, rest) == [l EXCEPT ![p] = [@ EXCEPT !.in_use = FALSE, !.next = rest]]

Before(s, p) == {s[i] : i \in {j \in 1 .. Len(s) - 1 : s[j + 1] = p}}

(* Bug: a node inside the list is not unlinked from the one before it.     *)
delete_breakpoint_KeepsPrev(p) ==
    /\ AtPrompt /\ p \in Listed
    /\ head' = IF head = p THEN bp_list[p].next ELSE head
    /\ bp_list' = Freed(bp_list, p, free_)
    /\ free_' = p
    /\ UNCHANGED <<mem, nemu_state, eip, val, run>>

(* The node leaves the list; the opcode it covers is not put back.         *)
delete_breakpoint(p) ==
    /\ AtPrompt /\ p \in Listed
    /\ LET before == Before(Chain(head), p)
           unlinked == [q \in NO |-> IF q \in before
                                     THEN [bp_list[q] EXCEPT !.next = bp_list[p].next]
                                     ELSE bp_list[q]]
       IN  bp_list' = Freed(unlinked, p, free_)
    /\ head' = IF head = p THEN bp_list[p].next ELSE head
    /\ free_' = p
    /\ UNCHANGED <<mem, nemu_state, eip, val, run>>

(* The recursion frees the last node of the list first: the list keeps its *)
(* order and comes before the nodes that were free.                        *)
delete_all_breakpoint ==
    /\ AtPrompt
    /\ bp_list' = [p \in NO |->
           IF p \in Listed
           THEN [bp_list[p] EXCEPT !.in_use = FALSE,
                                   !.next = IF @ = NULL THEN free_ ELSE @]
           ELSE bp_list[p]]
    /\ free_' = IF head = NULL THEN free_ ELSE head
    /\ head' = NULL
    /\ UNCHANGED <<mem, nemu_state, eip, val, run>>

----------------------------------------------------------------------------
(* c and si enter exec.                                                    *)
Enter(steps) ==
    /\ AtPrompt
    /\ n' = steps
    /\ hit_break_rerun' = (nemu_state = "BREAK")
    /\ nemu_state' = "RUN"
    /\ ph' = "test"
    /\ UNCHANGED <<mem, list, eip, val>>

LoopTest ==
    /\ ph = "test"
    /\ ph' = IF n # 0 /\ nemu_state = "RUN" THEN "inst" ELSE "leave"
    /\ UNCHANGED <<mem, list, nemu_state, eip, val, n, hit_break_rerun>>

(* resume_breakpoints: every point set is armed again, and what memory     *)
(* holds there now is saved as its opcode, in the order of the list: the   *)
(* second of two points at one address saves INT3.                         *)
Saved(p) ==
    LET s == Chain(head)
        i == CHOOSE k \in DOMAIN s : s[k] = p
    IN  IF \E k \in 1 .. i - 1 : s[k] \in BreaksAt(bp_list[p].what)
        THEN INT3 ELSE mem[bp_list[p].what]

resume_breakpoints ==
    /\ bp_list' = [p \in NO |-> IF p \in Listed /\ IsBreak(p)
                                THEN [bp_list[p] EXCEPT !.ori_byte = Saved(p)]
                                ELSE bp_list[p]]
    /\ mem' = [a \in Addr |-> IF BreaksAt(a) # {} THEN INT3 ELSE mem[a]]

(* One instruction, the count of it, and the breakpoints armed again if    *)
(* the loop was entered from a hit.                                        *)
ExecInst ==
    /\ ph = "inst" /\ ph' = "post"
    /\ \/ /\ mem[eip] = INT3
          /\ nemu_state' = "BREAK"
          /\ eip' = (eip + 1) % NAddr
          /\ UNCHANGED val
       \/ /\ mem[eip] # INT3
          /\ nemu_state' \in {nemu_state, "STOP"}
          /\ eip' \in Addr
          /\ val' \in Val
    /\ n' = IF n = Forever THEN n ELSE n - 1
    /\ hit_break_rerun' = FALSE
    /\ IF hit_break_rerun THEN resume_breakpoints ELSE UNCHANGED <<mem, bp_list>>
    /\ UNCHANGED <<head, free_>>

(* The point of S that comes first in the list: a singleton, or empty.     *)
FirstOf(S) ==
    LET s == Chain(head)
    IN  {s[i] : i \in {j \in DOMAIN s : s[j] \in S /\ \A k \in 1 .. j - 1 : s[k] \notin S}}

find_breakpoint(a) == FirstOf(BreaksAt(a))

Changed == {p \in NO : p \in Listed /\ ~IsBreak(p) /\ bp_list[p].what # val}

(* Bug: only the node at the head is looked at.                            *)
scan_watchpoint_HeadOnly == Changed \intersect {head}

scan_watchpoint == FirstOf(Changed)

(* After the instruction: a hit restores the opcode and steps back; a      *)
(* watchpoint that changed ends the loop, whatever nemu_state was.         *)
PostInst ==
    LET a  == (eip - 1) % NAddr
        bp == IF nemu_state = "BREAK" THEN find_breakpoint(a) ELSE {}
        wp == scan_watchpoint
    IN  /\ ph = "post"
        /\ IF bp # {}
           THEN /\ eip' = a
                /\ \E p \in bp : mem' = [mem EXCEPT ![a] = bp_list[p].ori_byte]
           ELSE UNCHANGED <<mem, eip>>
        /\ bp_list' = [p \in NO |-> IF p \in wp THEN [bp_list[p] EXCEPT !.what = val]
                                    ELSE bp_list[p]]
        /\ nemu_state' = IF wp # {} THEN "READY" ELSE nemu_state
        /\ ph' = IF wp # {} THEN "leave" ELSE "test"
        /\ UNCHANGED <<head, free_, val, n, hit_break_rerun>>

LeaveExec ==
    /\ ph = "leave" /\ ph' = "prompt"
    /\ nemu_state' = IF nemu_state # "STOP" /\ n = 0 THEN "READY" ELSE nemu_state
    /\ UNCHANGED <<mem, list, eip, val, n, hit_break_rerun>>

(* The SDL thread receives SDL_QUIT.                                       *)
Quit ==
    /\ nemu_state # "STOP" /\ nemu_state' = "STOP"
    /\ UNCHANGED <<mem, list, eip, val, run>>

(* ui_mainloop has returned; the next program runs on a fresh machine.     *)
restart ==
    /\ ph = "prompt" /\ nemu_state = "STOP"
    /\ mem' = Code /\ eip' = 0 /\ val' = 0
    /\ bp_list' = init_bp_list(bp_list) /\ head' = NULL /\ free_' = 0
    /\ nemu_state' = "READY"
    /\ UNCHANGED run

Next ==
    \/ \E a \in Addr : set_breakpoint(a)
    \/ set_watchpoint
    \/ \E p \in NO : delete_breakpoint(p)
    \/ delete_all_breakpoint
    \/ \E steps \in 1 .. MaxSteps \union {Forever} : Enter(steps)
    \/ LoopTest \/ ExecInst \/ PostInst \/ LeaveExec
    \/ Quit \/ restart

Spec == Init /\ [][Next]_vars

----------------------------------------------------------------------------
Node == [in_use : BOOLEAN, type : {"B", "W"}, what : Addr \union Val,
         ori_byte : Opcode \union {INT3}, next : Ptr]

(* Types of the state.                                                     *)
TypeOK ==
    /\ mem \in [Addr -> Opcode \union {INT3}]
    /\ bp_list \in [NO -> Node] /\ head \in Ptr /\ free_ \in Ptr
    /\ nemu_state \in {"READY", "RUN", "STOP", "BREAK"}
    /\ eip \in Addr /\ val \in Val
    /\ ph \in {"prompt", "test", "inst", "post", "leave"}
    /\ n \in 0 .. MaxSteps \union {Forever}
    /\ hit_break_rerun \in BOOLEAN

(* The two lists part the pool: every node is in one of them, once, and    *)
(* in_use says in which, after any order of b, w, d and d all.  So none of *)
(* the assertions on in_use can fail.                                      *)
PoolPartition ==
    LET used == Chain(head)
        free == Chain(free_)
    IN  /\ Len(used) + Len(free) = NR_BP
        /\ Elems(used) \union Elems(free) = NO
        /\ Elems(used) = {p \in NO : bp_list[p].in_use}

(* However breakpoints are set, hit, re-armed and deleted, an address      *)
(* holds its own opcode or INT3, never one that belongs elsewhere.         *)
PatchedOnly ==
    /\ \A a \in Addr : mem[a] \in {Code[a], INT3}
    /\ \A p \in NO : p \in Listed /\ IsBreak(p) =>
          bp_list[p].ori_byte \in {Code[bp_list[p].what], INT3}

(* The loop of exec never runs past a change of a watched value: between   *)
(* two instructions of one exec every watchpoint, not the first alone, has *)
(* the value of now.                                                       *)
WatchNoMiss ==
    [][ph = "post" /\ ph' = "test" =>
          \A p \in Listed : IsBreak(p) \/ bp_list[p].what = val]_vars

(* cpu.c:79, "found, then restore the original opcode": when exec stops at *)
(* a breakpoint, the program's own opcode is back in memory.               *)
RestoredOnHit ==
    [][ph = "post" /\ ph' # "post" /\ nemu_state = "BREAK"
             /\ find_breakpoint((eip - 1) % NAddr) # {}
          => mem'[(eip - 1) % NAddr] = Code[(eip - 1) % NAddr]]_vars

(* cpu.c:83, "not found, it is triggered by BREAK_POINT in the code": an   *)
(* INT3 executed where no breakpoint is set is the program's own.          *)
OwnBreakPoint ==
    ph = "post" /\ nemu_state = "BREAK" /\ find_breakpoint((eip - 1) % NAddr) = {}
        => Code[(eip - 1) % NAddr] = INT3
============================================================================
