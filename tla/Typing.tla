------------------------------- MODULE Typing -------------------------------
(***************************************************************************)
(* The typing game on the kernel: game/src/common/main.c, and game.c,      *)
(* effect.c and keyboard.c of game/src/typing, with the list of letters of *)
(* game/include/adt/linklist.h.  Its handlers timer_event and              *)
(* keyboard_event are called by the kernel's irq_handle (IrqHandlers).     *)
(*                                                                         *)
(* Heights are counted in units of a letter's speed of 0.5: a falling      *)
(* letter moves by 1, one that was hit by -HitSpeed.  The counters tick    *)
(* and now are kept as their difference and now's place in the period of   *)
(* new letters.  A step between two tests of the interrupt flag is atomic  *)
(* where the flag is clear; drawing is left out.                           *)
(***************************************************************************)
EXTENDS IrqHandlers, SequencesExt

CONSTANTS
    Key,        \* the letters
    SIZE,       \* letters the pool gives out
    Height,     \* lowest position on the screen
    HitSpeed,   \* -v of a letter that was hit
    NewEvery,   \* HZ / CHARACTER_PER_SECOND
    MaxLag      \* bound: ticks the main loop may be behind, later ones not counted

ASSUME GameAssumption ==
    /\ SIZE \in Nat \ {0} /\ Height \in Nat /\ HitSpeed \in Nat \ {0}
    /\ NewEvery \in Nat \ {0} /\ MaxLag \in Nat \ {0}
(* The longest life: down the whole screen, hit at the bottom, and up.     *)
ASSUME PoolAssumption == SIZE * NewEvery > Height + (Height \div HitSpeed)

VARIABLES
    fly,        \* node -> [x, v, text, prev, next]
    free,       \* fly_free_head
    head,       \* the newest letter
    letter_pressed,
    lag,        \* tick - now
    todo,       \* target - now
    phase,      \* now % NewEvery
    it,         \* the letter update_letter_pos is at
    IF_,        \* the interrupt flag
    pc          \* "init", "wait", "check", "keys", "ticks", "move"

letters  == <<fly, free, head>>
clock    == <<lag, todo, phase>>
vars == <<handlerVars, letters, letter_pressed, clock, it, IF_, pc>>

Fly == 1 .. SIZE + 1

(* A node of the free list; what else it held is never read again.         *)
Idle(n) == [x |-> 0, v |-> 0, text |-> 0, prev |-> NULL, next |-> n]

Init ==
    /\ HandlersInit
    /\ fly = [n \in Fly |-> Idle(NULL)]
    /\ free = NULL /\ head = NULL
    /\ letter_pressed = [k \in Key |-> FALSE]
    /\ lag = 0 /\ todo = 0 /\ phase = 0
    /\ it = NULL /\ IF_ = TRUE /\ pc = "init"

----------------------------------------------------------------------------
(* An interrupt, where the flag allows it: the kernel calls the routines,  *)
(* and a hlt is over.                                                      *)
Wake == pc' = IF pc = "wait" THEN "check" ELSE pc

Times(r, irq) == Cardinality({i \in DOMAIN Called(irq) : Called(irq)[i] = r})

timer_intr ==
    /\ IF_
    /\ lag' = IF lag + Times("timer_event", 0) =< MaxLag
              THEN lag + Times("timer_event", 0) ELSE lag
    /\ Wake
    /\ UNCHANGED <<handlerVars, letters, letter_pressed, todo, phase, it, IF_>>

keyboard_intr(k) ==
    /\ IF_
    /\ letter_pressed' = IF Times("keyboard_event", 1) > 0
                         THEN [letter_pressed EXCEPT ![k] = TRUE] ELSE letter_pressed
    /\ Wake
    /\ UNCHANGED <<handlerVars, letters, clock, it, IF_>>

(* init_ide and game_init: the handlers, then main_loop.                   *)
register ==
    /\ pc = "init"
    /\ \/ /\ take_node
          /\ IF_' = ~Adds[handle_count + 1].masked
          /\ UNCHANGED pc
       \/ /\ link_node
          /\ IF_' = (IF link = 2 THEN TRUE ELSE IF_)
          /\ UNCHANGED pc
       \/ /\ link = 0 /\ handle_count = Len(Adds)
          /\ pc' = "wait"
          /\ UNCHANGED <<handlerVars, IF_>>
    /\ UNCHANGED <<letters, letter_pressed, clock, it>>

(* From cli to sti after wait_intr.                                        *)
check_tick ==
    /\ pc = "check"
    /\ IF lag = 0 THEN pc' = "wait" /\ UNCHANGED todo
       ELSE todo' = lag /\ pc' = "keys"
    /\ IF_' = TRUE
    /\ UNCHANGED <<handlerVars, letters, letter_pressed, lag, phase, it>>

----------------------------------------------------------------------------
(* Nodes from n on, along next.                                            *)
ChainOf(f, n) ==
    Follow([m \in Fly \cup {NULL} |-> IF m = NULL THEN NULL ELSE f[m].next],
           NULL, n, SIZE + 1)

Letters == ChainOf(fly, head)

(* Falling letters whose key is pressed; the lowest of them is hit, the    *)
(* first on the list of equal ones.                                        *)
Targets ==
    LET list == Letters
        able == {i \in DOMAIN list : /\ fly[list[i]].v > 0
                                     /\ letter_pressed[fly[list[i]].text]}
        X(i) == fly[list[i]].x
    IN  {list[i] : i \in {j \in able : \A m \in able :
                            X(m) < X(j) \/ (X(m) = X(j) /\ j =< m)}}

(* Bug: the last call, which finds no letter, does not enable interrupts.  *)
update_keypress_NoSti ==
    /\ pc = "keys"
    /\ IF_' = FALSE
    /\ IF Targets = {} THEN pc' = "ticks" /\ UNCHANGED <<fly, letter_pressed>>
       ELSE /\ \E n \in Targets :
                  /\ fly' = [fly EXCEPT ![n].v = -HitSpeed]
                  /\ letter_pressed' = [letter_pressed EXCEPT ![fly[n].text] = FALSE]
            /\ UNCHANGED pc
    /\ UNCHANGED <<handlerVars, free, head, clock, it>>

(* Bug: returns true as long as a key is pressed, letter or not.           *)
update_keypress_HeldKey ==
    /\ pc = "keys"
    /\ IF Targets = {}
       THEN IF \E k \in Key : letter_pressed[k]
            THEN IF_' = FALSE /\ UNCHANGED <<pc, fly, letter_pressed>>
            ELSE IF_' = TRUE /\ pc' = "ticks" /\ UNCHANGED <<fly, letter_pressed>>
       ELSE /\ \E n \in Targets :
                  /\ fly' = [fly EXCEPT ![n].v = -HitSpeed]
                  /\ letter_pressed' = [letter_pressed EXCEPT ![fly[n].text] = FALSE]
            /\ IF_' = FALSE
            /\ UNCHANGED pc
    /\ UNCHANGED <<handlerVars, free, head, clock, it>>

(* A call that hits a letter returns with interrupts masked; the caller    *)
(* calls again.                                                            *)
update_keypress ==
    /\ pc = "keys"
    /\ IF Targets = {}
       THEN IF_' = TRUE /\ pc' = "ticks" /\ UNCHANGED <<fly, letter_pressed>>
       ELSE /\ \E n \in Targets :
                  /\ fly' = [fly EXCEPT ![n].v = -HitSpeed]
                  /\ letter_pressed' = [letter_pressed EXCEPT ![fly[n].text] = FALSE]
            /\ IF_' = FALSE
            /\ UNCHANGED pc
    /\ UNCHANGED <<handlerVars, free, head, clock, it>>

----------------------------------------------------------------------------
(* fly_new links the pool into a free list when there is none; the last    *)
(* node is never given out.                                                *)
Pooled == IF free # NULL THEN [f |-> fly, free |-> free]
          ELSE [f    |-> [n \in Fly |-> [fly[n] EXCEPT !.next =
                            IF n =< SIZE THEN n + 1 ELSE @]],
                free |-> 1]

Creates == phase = 0

(* Whether the assertion of fly_new holds.                                 *)
CanNew == LET p == Pooled IN p.f[p.free].next # NULL

(* create_new_letter: at the front of the list; its key counts as not      *)
(* pressed.                                                                *)
create_new_letter(k) ==
    LET p == Pooled
        n == p.free
        new == [x |-> 0, v |-> 1, text |-> k, prev |-> NULL, next |-> head]
        f == [p.f EXCEPT ![n] = new]
    IN  /\ CanNew
        /\ fly' = IF head = NULL THEN f ELSE [f EXCEPT ![head].prev = n]
        /\ free' = p.f[n].next
        /\ head' = n
        /\ letter_pressed' = [letter_pressed EXCEPT ![k] = FALSE]

(* The catch-up loop up to update_letter_pos; a failed assertion ends the  *)
(* game.                                                                   *)
start_tick ==
    /\ pc = "ticks" /\ todo > 0
    /\ IF Creates THEN \E k \in Key : create_new_letter(k)
       ELSE UNCHANGED <<letters, letter_pressed>>
    /\ it' = head'
    /\ pc' = "move"
    /\ UNCHANGED <<handlerVars, clock, IF_>>

(* fly_remove, and fly_free of the letter.                                 *)
Removed_KeepsPrev(n) ==
    LET p == fly[n].prev
        f == IF p = NULL THEN fly ELSE [fly EXCEPT ![p].next = fly[n].next]
    IN  [f EXCEPT ![n] = Idle(free)]

Removed(n) ==
    LET p == fly[n].prev
        q == fly[n].next
        f == IF p = NULL THEN fly ELSE [fly EXCEPT ![p].next = q]
        g == IF q = NULL THEN f ELSE [f EXCEPT ![q].prev = p]
    IN  [g EXCEPT ![n] = Idle(free)]

(* Bug: a letter below the last line is shown once more.                   *)
OffScreen_Late(x) == x < 0 \/ x > Height + 1

OffScreen(x) == x < 0 \/ x > Height

(* One turn of the loop of update_letter_pos.                              *)
move_letter ==
    LET x == fly[it].x + fly[it].v
    IN  /\ pc = "move" /\ it # NULL
        /\ IF OffScreen(x)
           THEN /\ fly' = Removed(it)
                /\ free' = it
                /\ head' = IF it = head THEN fly[it].next ELSE head
           ELSE fly' = [fly EXCEPT ![it].x = x] /\ UNCHANGED <<free, head>>
        /\ it' = fly[it].next
        /\ UNCHANGED <<handlerVars, letter_pressed, clock, IF_, pc>>

end_tick ==
    /\ pc = "move" /\ it = NULL
    /\ lag' = lag - 1
    /\ todo' = todo - 1
    /\ phase' = (phase + 1) % NewEvery
    /\ pc' = "ticks"
    /\ UNCHANGED <<handlerVars, letters, letter_pressed, it, IF_>>

caught_up ==
    /\ pc = "ticks" /\ todo = 0
    /\ pc' = "wait"
    /\ UNCHANGED <<handlerVars, letters, letter_pressed, clock, it, IF_>>

Game == \/ register \/ check_tick \/ update_keypress \/ start_tick
        \/ move_letter \/ end_tick \/ caught_up

Next == Game \/ timer_intr \/ \E k \in Key : keyboard_intr(k)

(* The CPU runs, and the SDL thread raises the timer's interrupt for ever. *)
Spec == Init /\ [][Next]_vars /\ WF_vars(Game) /\ WF_vars(timer_intr)

----------------------------------------------------------------------------
Letter == [x : 0 .. Height, v : {1, -HitSpeed}, text : Key,
           prev : Fly \cup {NULL}, next : Fly \cup {NULL}]

(* Types of the state.                                                     *)
TypeOK ==
    /\ handle_count \in 0 .. NR_IRQ_HANDLE /\ link \in 0 .. 2
    /\ handles \in [Irq -> Node \cup {NULL}]
    /\ free \in Fly \cup {NULL} /\ head \in Fly \cup {NULL}
    /\ it \in Fly \cup {NULL}
    /\ \A n \in Range(Letters) : fly[n] \in Letter
    /\ letter_pressed \in [Key -> BOOLEAN]
    /\ lag \in 0 .. MaxLag /\ todo \in 0 .. lag /\ phase \in 0 .. NewEvery - 1
    /\ IF_ \in BOOLEAN
    /\ pc \in {"init", "wait", "check", "keys", "ticks", "move"}

(* Every node is on the list of letters or on the free list, once, and     *)
(* prev is the inverse of next along the letters.                          *)
ListsPart ==
    LET used == Letters
        idle == ChainOf(fly, free)
    IN  free # NULL =>
        /\ IsInjective(used \o idle)
        /\ Range(used \o idle) = Fly
        /\ \A i \in DOMAIN used :
              fly[used[i]].prev = IF i = 1 THEN NULL ELSE used[i - 1]

(* The assertion of fly_new never fails, however far the main loop falls   *)
(* behind the timer: letters are made and moved in the same loop.          *)
PoolSuffices == pc = "ticks" /\ todo > 0 /\ Creates => CanNew

(* The game never executes hlt with interrupts masked, although            *)
(* update_keypress returns with them masked whenever it hits a letter.     *)
HaltEnabled == pc = "wait" => IF_

(* The game's clock never stops: neither keys hit in quick succession, each *)
(* with interrupts masked after it, nor a tick that comes between the test  *)
(* of now = tick and the hlt keep the main loop from moving the letters.    *)
ClockRuns == []<>(pc = "move")
=============================================================================
