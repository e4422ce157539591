----------------------------- MODULE IrqHandlers -----------------------------
(***************************************************************************)
(* The handler lists of the kernel, kernel/src/irq/irq_handle.c: one       *)
(* linked list per interrupt, nodes taken from handle_pool in order.       *)
(* init_ide adds its handlers with interrupts enabled, a program through   *)
(* system call 0 with interrupts masked (kernel/src/syscall/do_syscall.c), *)
(* so an insertion is three stores with interrupts possible in between.    *)
(***************************************************************************)
EXTENDS LinkedList, Sequences

CONSTANTS
    NR_IRQ_HANDLE,   \* nodes of handle_pool
    Irq,             \* interrupt numbers
    Routine,         \* handlers
    Adds             \* the insertions, in order: [irq, routine, masked]

ASSUME HandlerAssumption ==
    /\ NR_IRQ_HANDLE \in Nat
    /\ Adds \in Seq([irq : Irq, routine : Routine, masked : BOOLEAN])
    /\ Len(Adds) =< NR_IRQ_HANDLE

VARIABLES
    handle_pool,   \* node -> [routine, next]
    handles,       \* irq -> first node
    handle_count,
    link           \* next store of the insertion under way: 0 none, 1, 2

handlerVars == <<handle_pool, handles, handle_count, link>>

Node  == 1 .. NR_IRQ_HANDLE
NULL  == 0
Unset == "unset"

HandlersInit ==
    /\ handle_pool = [n \in Node |-> [routine |-> Unset, next |-> NULL]]
    /\ handles = [i \in Irq |-> NULL]
    /\ handle_count = 0
    /\ link = 0

(* The insertion under way is Adds[handle_count].                          *)
Adding == Adds[handle_count]

(* A node, and its routine.                                                *)
take_node ==
    /\ link = 0 /\ handle_count < Len(Adds)
    /\ handle_count' = handle_count + 1
    /\ handle_pool' = [handle_pool EXCEPT ![handle_count + 1].routine =
                         Adds[handle_count + 1].routine]
    /\ link' = 1
    /\ UNCHANGED handles

(* Bug: the list head is stored before the node points to the old one.     *)
link_node_HeadFirst ==
    \/ /\ link = 1
       /\ handles' = [handles EXCEPT ![Adding.irq] = handle_count]
       /\ link' = 2
       /\ UNCHANGED <<handle_pool, handle_count>>
    \/ /\ link = 2
       /\ handle_pool' = [handle_pool EXCEPT ![handle_count].next =
                            IF handles[Adding.irq] = handle_count THEN NULL
                            ELSE handles[Adding.irq]]
       /\ link' = 0
       /\ UNCHANGED <<handles, handle_count>>

(* The node in front of the list, then the list head.                      *)
link_node ==
    \/ /\ link = 1
       /\ handle_pool' = [handle_pool EXCEPT ![handle_count].next = handles[Adding.irq]]
       /\ link' = 2
       /\ UNCHANGED <<handles, handle_count>>
    \/ /\ link = 2
       /\ handles' = [handles EXCEPT ![Adding.irq] = handle_count]
       /\ link' = 0
       /\ UNCHANGED <<handle_pool, handle_count>>

(* The nodes irq_handle goes through, and the routines it calls.           *)
Nodes(irq) ==
    Follow([n \in Node \cup {NULL} |-> IF n = NULL THEN NULL ELSE handle_pool[n].next],
           NULL, handles[irq], NR_IRQ_HANDLE)

Called(irq) == [i \in DOMAIN Nodes(irq) |-> handle_pool[Nodes(irq)[i]].routine]

(* The insertions whose list head has been stored.                         *)
Added == IF link = 0 THEN handle_count ELSE handle_count - 1

(* Whenever an interrupt comes, also between the stores of an insertion,   *)
(* irq_handle calls the routines added for it so far, each once, the       *)
(* newest first, and no node half filled: the nth insertion took node n.   *)
Listed ==
    \A irq \in Irq :
        LET s == Nodes(irq)
        IN  /\ \A i, j \in DOMAIN s : i < j => s[i] > s[j]
            /\ {s[i] : i \in DOMAIN s} = {n \in 1 .. Added : Adds[n].irq = irq}
            /\ \A i \in DOMAIN s : Called(irq)[i] = Adds[s[i]].routine
=============================================================================
