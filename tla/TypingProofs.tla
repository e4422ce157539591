---------------------------- MODULE TypingProofs ----------------------------
(***************************************************************************)
(* Proofs about Typing for every pool, screen and list of handlers: the    *)
(* game never halts with interrupts masked; the handlers are listed at any *)
(* moment of an insertion; the letters and the free nodes part the pool;   *)
(* and the pool suffices, by the letters' ages.                            *)
(***************************************************************************)
EXTENDS Typing, FiniteSetTheorems, WellFoundedInduction, TLAPS

(* Interrupts are enabled at the hlt, in the catch-up loop, and while the  *)
(* handlers are added, except in the middle of an insertion.               *)
Open ==
    /\ pc \in {"init", "wait", "check", "keys", "ticks", "move"}
    /\ pc \in {"wait", "ticks", "move"} => IF_ = TRUE
    /\ pc = "init" /\ link = 0 => IF_ = TRUE

LEMMA OpenInit == Init => Open
  BY DEF Init, HandlersInit, Open

LEMMA OpenRegister ==
    ASSUME Open, register
    PROVE  Open'
  <1>1. CASE pc' = "wait" /\ UNCHANGED <<handlerVars, IF_>>
    <2>1. pc = "init" /\ pc' = "wait" /\ IF_' = IF_
      BY <1>1 DEF register
    <2>2. CASE link = 0
      BY <2>1, <2>2 DEF Open
    <2>3. CASE link # 0
      BY <1>1, <2>1, <2>3 DEF register, take_node, link_node
    <2> QED
      BY <2>2, <2>3
  <1>2. CASE take_node /\ UNCHANGED pc
    BY <1>2 DEF register, take_node, Open
  <1>3. CASE link_node /\ IF_' = (IF link = 2 THEN TRUE ELSE IF_) /\ UNCHANGED pc
    BY <1>3 DEF register, link_node, Open
  <1> QED
    BY <1>1, <1>2, <1>3 DEF register

(* An interrupt leaves the flag alone and only ends a hlt.                 *)
LEMMA OpenIntr ==
    ASSUME Open, Wake, UNCHANGED <<handlerVars, IF_>>
    PROVE  Open'
  BY DEF Open, Wake, handlerVars

LEMMA OpenNext ==
    ASSUME Open, [Next]_vars
    PROVE  Open'
  <1>1. CASE UNCHANGED vars
    BY <1>1 DEF vars, handlerVars, Open
  <1>2. CASE check_tick
    BY <1>2 DEF check_tick, handlerVars, Open
  <1>3. CASE update_keypress
    BY <1>3 DEF update_keypress, handlerVars, Open
  <1>4. CASE start_tick
    BY <1>4 DEF start_tick, handlerVars, Open
  <1>5. CASE move_letter \/ end_tick \/ caught_up
    BY <1>5 DEF move_letter, end_tick, caught_up, handlerVars, Open
  <1>6. CASE timer_intr
    BY <1>6, OpenIntr DEF timer_intr
  <1>7. ASSUME NEW k \in Key, keyboard_intr(k)
        PROVE  Open'
    BY <1>7, OpenIntr DEF keyboard_intr
  <1> QED
    BY <1>1, <1>2, <1>3, <1>4, <1>5, <1>6, <1>7, OpenRegister DEF Next, Game

(* wait_intr is never executed with interrupts masked, whichever letters   *)
(* are hit before it and whatever handlers were added (main.c, effect.c).  *)
THEOREM HaltAlways == Spec => []HaltEnabled
  <1>1. Open => HaltEnabled
    BY DEF Open, HaltEnabled
  <1> QED
    BY <1>1, OpenInit, OpenNext, PTL DEF Spec

----------------------------------------------------------------------------
(* The handlers.  w goes through the k nodes of an interrupt's list, from  *)
(* h on: those up to a that were added for it, the newest first.           *)
Thread(pool, h, irq, a, k, w) ==
    /\ w \in [1 .. k + 1 -> Node \cup {NULL}]
    /\ w[1] = h /\ w[k + 1] = NULL
    /\ \A i \in 1 .. k : w[i] \in 1 .. a /\ pool[w[i]].next = w[i + 1]
                         /\ Adds[w[i]].irq = irq
    /\ \A i, j \in 1 .. k : i < j => w[i] > w[j]
    /\ \A n \in 1 .. a : Adds[n].irq = irq => \E i \in 1 .. k : w[i] = n

Handles(pool, h, irq, a) == \E k \in 0 .. a : \E w : Thread(pool, h, irq, a, k, w)

HInv ==
    /\ handle_count \in 0 .. Len(Adds) /\ link \in 0 .. 2
    /\ link # 0 => handle_count > 0
    /\ handles \in [Irq -> Node \cup {NULL}]
    /\ handle_pool \in [Node -> [routine : Routine \cup {Unset}, next : Node \cup {NULL}]]
    /\ \A n \in 1 .. handle_count : handle_pool[n].routine = Adds[n].routine
    /\ link = 2 => handle_pool[handle_count].next = handles[Adding.irq]
    /\ \A irq \in Irq : Handles(handle_pool, handles[irq], irq, Added)

(* What the assumption says of an insertion.                               *)
LEMMA AddsTypes ==
    ASSUME NEW n \in 1 .. Len(Adds)
    PROVE  n \in Node /\ Adds[n].irq \in Irq /\ Adds[n].routine \in Routine
  <1> DEFINE R == [irq : Irq, routine : Routine, masked : BOOLEAN]
  <1>1. Adds \in Seq(R) /\ n \in Node
    BY HandlerAssumption DEF Node
  <1> HIDE DEF R
  <1>2. Adds[n] \in R
    BY <1>1
  <1> QED
    BY <1>1, <1>2 DEF R

(* A node that is not on a list may change without the list noticing.      *)
LEMMA HandlesKeep ==
    ASSUME NEW pool, NEW pool2, NEW h, NEW irq, NEW a \in Nat,
           Handles(pool, h, irq, a),
           \A n \in 1 .. a : pool2[n].next = pool[n].next
    PROVE  Handles(pool2, h, irq, a)
  <1>0. PICK k \in 0 .. a : \E w : Thread(pool, h, irq, a, k, w)
    BY DEF Handles
  <1>1. PICK w : Thread(pool, h, irq, a, k, w)
    BY <1>0
  <1>2. Thread(pool2, h, irq, a, k, w)
    BY <1>1 DEF Thread
  <1> QED
    BY <1>2 DEF Handles

LEMMA HandlesInit == HandlersInit => HInv
  <1> SUFFICES ASSUME HandlersInit PROVE HInv
    OBVIOUS
  <1> USE DEF HandlersInit
  <1>1. ASSUME NEW irq \in Irq PROVE Handles(handle_pool, handles[irq], irq, Added)
    <2> DEFINE w == [i \in 1 .. 1 |-> NULL]
    <2>1. 0 \in 0 .. 0 /\ Thread(handle_pool, NULL, irq, 0, 0, w)
      BY DEF Thread
    <2> HIDE DEF w
    <2>2. Handles(handle_pool, NULL, irq, 0)
      BY <2>1 DEF Handles
    <2> QED
      BY <2>2 DEF Added
  <1> QED
    BY <1>1, HandlerAssumption DEF HInv

LEMMA HandlesTake == ASSUME HInv, take_node PROVE HInv'
  <1> USE DEF HInv, take_node
  <1> DEFINE c == handle_count + 1
  <1>1. c \in 1 .. Len(Adds) /\ c \in Node /\ Adds[c].routine \in Routine
    BY AddsTypes, HandlerAssumption
  <1>2. /\ handle_pool' \in [Node -> [routine : Routine \cup {Unset}, next : Node \cup {NULL}]]
        /\ handle_pool'[c].routine = Adds[c].routine
        /\ \A n \in Node : handle_pool'[n].next = handle_pool[n].next
        /\ \A n \in Node \ {c} : handle_pool'[n] = handle_pool[n]
    BY <1>1
  <1>3. \A n \in 1 .. handle_count : n \in Node \ {c}
    BY AddsTypes
  <1>4. \A n \in 1 .. handle_count' : handle_pool'[n].routine = Adds[n].routine
    BY <1>2, <1>3
  <1>5. Added' = Added /\ Added = handle_count
    BY DEF Added
  <1>6. ASSUME NEW irq \in Irq PROVE Handles(handle_pool', handles'[irq], irq, Added')
    <2>1. Handles(handle_pool, handles[irq], irq, handle_count) /\ handle_count \in Nat
      BY <1>5
    <2>2. \A n \in 1 .. handle_count : handle_pool'[n].next = handle_pool[n].next
      BY <1>2, <1>3
    <2>3. Handles(handle_pool', handles[irq], irq, handle_count)
      BY ONLY <2>1, <2>2, HandlesKeep
    <2> QED
      BY <1>5, <2>3
  <1>7. link' = 1 /\ handles' = handles /\ handle_count' = c /\ handle_count' > 0
    OBVIOUS
  <1>8. handles \in [Irq -> Node \cup {NULL}] /\ c \in 0 .. Len(Adds)
    BY <1>1
  <1> QED
    BY ONLY <1>2, <1>4, <1>6, <1>7, <1>8 DEF HInv

LEMMA HandlesLink == ASSUME HInv, link_node PROVE HInv'
  <1> USE DEF HInv
  <1> DEFINE c == handle_count
             q == Adds[c].irq
  <1>1. c \in 1 .. Len(Adds) /\ c \in Node /\ q \in Irq /\ Adding = Adds[c]
    BY AddsTypes DEF link_node, Adding
  <1>2. CASE link = 1
    <2>1. /\ handle_pool' = [handle_pool EXCEPT ![c].next = handles[q]]
          /\ link' = 2 /\ UNCHANGED <<handles, handle_count>>
      BY <1>1, <1>2 DEF link_node
    <2>2. /\ handle_pool' \in [Node -> [routine : Routine \cup {Unset}, next : Node \cup {NULL}]]
          /\ handle_pool'[c].next = handles[q]
          /\ \A n \in Node : handle_pool'[n].routine = handle_pool[n].routine
          /\ \A n \in Node \ {c} : handle_pool'[n] = handle_pool[n]
      BY <1>1, <2>1
    <2>3. Added' = Added /\ Added = c - 1 /\ Adding' = Adding
      BY <1>2, <2>1 DEF Added, Adding
    <2>4. \A n \in 1 .. c - 1 : n \in Node \ {c}
      BY AddsTypes
    <2>5. ASSUME NEW irq \in Irq PROVE Handles(handle_pool', handles'[irq], irq, Added')
      <3>1. Handles(handle_pool, handles[irq], irq, c - 1) /\ c - 1 \in Nat
        BY <1>1, <2>3
      <3>2. \A n \in 1 .. c - 1 : handle_pool'[n].next = handle_pool[n].next
        BY <2>2, <2>4
      <3>3. Handles(handle_pool', handles[irq], irq, c - 1)
        BY ONLY <3>1, <3>2, HandlesKeep
      <3> QED
        BY <2>1, <2>3, <3>3
    <2>6. \A n \in 1 .. handle_count' : handle_pool'[n].routine = Adds[n].routine
      BY <2>1, <2>2, AddsTypes
    <2>7. /\ handles \in [Irq -> Node \cup {NULL}] /\ handle_count \in 0 .. Len(Adds)
          /\ handle_count > 0
      BY <1>1, <1>2
    <2>8. handle_pool'[handle_count'].next = handles'[Adding'.irq]
      BY <1>1, <2>1, <2>2, <2>3
    <2>9. link' = 2 /\ handles' = handles /\ handle_count' = handle_count
      BY <2>1
    <2> QED
      BY ONLY <2>2, <2>5, <2>6, <2>7, <2>8, <2>9 DEF HInv
  <1>3. CASE link = 2
    <2>1. /\ handles' = [handles EXCEPT ![q] = c]
          /\ link' = 0 /\ UNCHANGED <<handle_pool, handle_count>>
      BY <1>1, <1>3 DEF link_node
    <2>2. Added = c - 1 /\ Added' = c /\ handle_pool[c].next = handles[q]
      BY <1>1, <1>3, <2>1 DEF Added
    <2>3. ASSUME NEW irq \in Irq PROVE Handles(handle_pool, handles'[irq], irq, c)
      <3>0. PICK k \in 0 .. c - 1 : \E w : Thread(handle_pool, handles[irq], irq, c - 1, k, w)
        BY <2>2 DEF Handles
      <3>1. PICK w : Thread(handle_pool, handles[irq], irq, c - 1, k, w)
        BY <3>0
      <3>2. CASE irq = q
        <4> DEFINE z == [i \in 1 .. k + 2 |-> IF i = 1 THEN c ELSE w[i - 1]]
        <4>1. /\ k + 1 \in 0 .. c /\ z \in [1 .. k + 1 + 1 -> Node \cup {NULL}]
              /\ z[1] = handles'[irq] /\ z[k + 1 + 1] = NULL
          BY <1>1, <2>1, <3>1, <3>2 DEF Thread
        <4>2. ASSUME NEW i \in 1 .. k + 1
              PROVE  z[i] \in 1 .. c /\ handle_pool[z[i]].next = z[i + 1] /\ Adds[z[i]].irq = irq
          <5>1. CASE i = 1
            BY <1>1, <2>2, <3>1, <3>2, <5>1 DEF Thread
          <5>2. CASE i # 1
            <6>1. i - 1 \in 1 .. k /\ z[i] = w[i - 1] /\ z[i + 1] = w[i - 1 + 1]
              BY <5>2
            <6> HIDE DEF z
            <6> QED
              BY <3>1, <6>1 DEF Thread
          <5> QED
            BY <5>1, <5>2
        <4>3. ASSUME NEW i \in 1 .. k + 1, NEW j \in 1 .. k + 1, i < j PROVE z[i] > z[j]
          <5>1. j - 1 \in 1 .. k /\ z[j] = w[j - 1] /\ w[j - 1] \in 1 .. c - 1
            BY <3>1, <4>3 DEF Thread
          <5>2. CASE i = 1
            BY <5>1, <5>2
          <5>3. CASE i # 1
            <6>1. i - 1 \in 1 .. k /\ i - 1 < j - 1 /\ z[i] = w[i - 1]
              BY <4>3, <5>3
            <6> QED
              BY <3>1, <5>1, <6>1 DEF Thread
          <5> QED
            BY <5>2, <5>3
        <4>4. ASSUME NEW n \in 1 .. c, Adds[n].irq = irq PROVE \E i \in 1 .. k + 1 : z[i] = n
          <5>1. CASE n = c
            <6>1. 1 \in 1 .. k + 1 /\ z[1] = n
              BY <5>1
            <6> QED
              BY <6>1
          <5>2. CASE n # c
            <6>1. PICK i \in 1 .. k : w[i] = n
              BY <3>1, <4>4, <5>2 DEF Thread
            <6>2. i + 1 \in 1 .. k + 1 /\ z[i + 1] = n
              BY <6>1
            <6> QED
              BY <6>2
          <5> QED
            BY <5>1, <5>2
        <4> HIDE DEF z
        <4>5. Thread(handle_pool, handles'[irq], irq, c, k + 1, z)
          BY <4>1, <4>2, <4>3, <4>4 DEF Thread
        <4> QED
          BY <4>1, <4>5 DEF Handles
      <3>3. CASE irq # q
        <4>1. handles'[irq] = handles[irq]
          BY <2>1, <3>3
        <4>2. k \in 0 .. c
          OBVIOUS
        <4>3. \A i \in 1 .. k : w[i] \in 1 .. c /\ handle_pool[w[i]].next = w[i + 1]
                                /\ Adds[w[i]].irq = irq
          BY <1>1, <3>1 DEF Thread
        <4>4. \A n \in 1 .. c : Adds[n].irq = irq => \E i \in 1 .. k : w[i] = n
          BY <3>1, <3>3 DEF Thread
        <4>5. Thread(handle_pool, handles'[irq], irq, c, k, w)
          BY <3>1, <4>1, <4>3, <4>4 DEF Thread
        <4> QED
          BY <4>2, <4>5 DEF Handles
      <3> QED
        BY <3>2, <3>3
    <2>4. handles' \in [Irq -> Node \cup {NULL}]
      BY <1>1, <2>1
    <2> QED
      BY <2>1, <2>2, <2>3, <2>4
  <1> QED
    BY <1>2, <1>3 DEF link_node

LEMMA HandlesNext == ASSUME HInv, [Next]_vars PROVE HInv'
  <1>1. CASE UNCHANGED handlerVars
    BY <1>1 DEF HInv, handlerVars, Added, Adding
  <1>2. CASE register
    BY <1>1, <1>2, HandlesTake, HandlesLink DEF register
  <1>3. CASE \/ check_tick \/ update_keypress \/ start_tick \/ move_letter \/ end_tick
             \/ caught_up \/ timer_intr \/ UNCHANGED vars
    BY <1>1, <1>3 DEF check_tick, update_keypress, start_tick, move_letter, end_tick,
                      caught_up, timer_intr, vars
  <1>4. ASSUME NEW k \in Key, keyboard_intr(k) PROVE HInv'
    BY <1>1, <1>4 DEF keyboard_intr
  <1> QED
    BY <1>2, <1>3, <1>4 DEF Next, Game

THEOREM HandlersInvariance == Spec => []HInv
  <1>1. Init => HInv
    BY HandlesInit DEF Init
  <1> QED
    BY <1>1, HandlesNext, PTL DEF Spec

(* Following a list, whatever its length; the same facts stand in          *)
(* BreakpointsProofs, for the debugger's lists.                            *)

(* w is the way through a list of k nodes from p: they are the first k of  *)
(* w, each points to the one after it, and nil ends it.                    *)
Way(nxt, nil, p, w, k) ==
    /\ w[1] = p /\ w[k + 1] = nil
    /\ \A i \in 1 .. k : w[i] # nil /\ nxt[w[i]] = w[i + 1]

(* A set of numbers that is not empty has a least element.                 *)
LEMMA LeastElement ==
    ASSUME NEW S \in SUBSET Nat, S # {}
    PROVE  \E m \in S : \A i \in S : m =< i
  <1> DEFINE R == {ss \in Nat \X Nat : ss[1] < ss[2]}
  <1>1. IsWellFoundedOn(R, Nat)
    BY NatLessThanWellFounded, Zenon DEF OpToRel
  <1> HIDE DEF R
  <1>2. PICK m \in S : \A i \in S : <<i, m>> \notin R
    BY <1>1, WFMin
  <1>3. \A i \in S : ~(i < m)
    BY <1>2 DEF R
  <1> QED
    BY <1>3

(* Follow visits the nodes of a list that ends, in their order.  Its       *)
(* recursive function can only be w and then nil: the least place where it *)
(* were not would follow one where it is.                                  *)
LEMMA FollowWay ==
    ASSUME NEW P, NEW nil \in P, NEW nxt \in [P -> P], nxt[nil] = nil,
           NEW p \in P, NEW most \in Nat, NEW k \in 0 .. most,
           NEW w, Way(nxt, nil, p, w, k)
    PROVE  Follow(nxt, nil, p, most) = [i \in 1 .. k |-> w[i]]
  <1> DEFINE v == [i \in 1 .. most |-> IF i =< k THEN w[i] ELSE nil]
             at == CHOOSE at : at = [i \in 1 .. most |-> IF i = 1 THEN p ELSE nxt[at[i - 1]]]
             D == {i \in 1 .. most : at[i] # v[i]}
  <1>1. Follow(nxt, nil, p, most) = [i \in {j \in 1 .. most : at[j] # nil} |-> at[i]]
    BY DEF Follow
  <1>2. \A i \in 1 .. most : v[i] = IF i = 1 THEN p ELSE nxt[v[i - 1]]
    <2> TAKE i \in 1 .. most
    <2>1. i - 1 \in 1 .. k => nxt[w[i - 1]] = w[i]
      BY DEF Way
    <2> QED
      BY <2>1 DEF Way
  <1>3. v = [i \in 1 .. most |-> IF i = 1 THEN p ELSE nxt[v[i - 1]]]
    BY <1>2
  <1> HIDE DEF v
  <1>4. at = [i \in 1 .. most |-> IF i = 1 THEN p ELSE nxt[at[i - 1]]]
    BY <1>3
  <1> HIDE DEF at
  <1>5. \A i \in 1 .. most : at[i] = IF i = 1 THEN p ELSE nxt[at[i - 1]]
    BY <1>4
  <1>6. D = {}
    <2> SUFFICES ASSUME D # {} PROVE FALSE
      OBVIOUS
    <2>0. D \in SUBSET Nat
      OBVIOUS
    <2>1. PICK d \in D : \A i \in D : d =< i
      <3> HIDE DEF D
      <3> QED
        BY <2>0, LeastElement
    <2>2. d # 1 => at[d - 1] = v[d - 1]
      BY <2>1
    <2>3. d \in 1 .. most /\ at[d] # v[d]
      BY <2>1
    <2>4. at[d] = v[d]
      BY <1>2, <1>5, <2>2, <2>3
    <2> QED
      BY <2>3, <2>4
  <1>7. \A i \in 1 .. most : at[i] = IF i =< k THEN w[i] ELSE nil
    <2>1. \A i \in 1 .. most : at[i] = v[i]
      BY <1>6
    <2> QED
      BY <2>1 DEF v
  <1>8. {j \in 1 .. most : at[j] # nil} = 1 .. k
    BY <1>7 DEF Way
  <1> QED
    BY <1>1, <1>7, <1>8

(* Whenever an interrupt comes, also between the stores of add_irq_handle, *)
(* irq_handle finds the handlers added so far, each once, newest first.    *)
THEOREM ListedAlways == Spec => []Listed
  <1>1. HInv => Listed
    <2> SUFFICES ASSUME HInv, NEW irq \in Irq
                 PROVE  LET s == Nodes(irq)
                        IN  /\ \A i, j \in DOMAIN s : i < j => s[i] > s[j]
                            /\ {s[i] : i \in DOMAIN s} = {n \in 1 .. Added : Adds[n].irq = irq}
                            /\ \A i \in DOMAIN s : Called(irq)[i] = Adds[s[i]].routine
      BY DEF Listed
    <2>0. PICK k \in 0 .. Added : \E w : Thread(handle_pool, handles[irq], irq, Added, k, w)
      BY DEF HInv, Handles
    <2>1. PICK w : Thread(handle_pool, handles[irq], irq, Added, k, w)
      BY <2>0
    <2> DEFINE s == Nodes(irq)
               nx == [n \in Node \cup {NULL} |-> IF n = NULL THEN NULL ELSE handle_pool[n].next]
    <2>2. Added \in 0 .. handle_count /\ handle_count \in 0 .. NR_IRQ_HANDLE
      BY HandlerAssumption DEF HInv, Added
    <2>3. \A n \in 1 .. Added : n \in Node /\ n # NULL /\ handle_pool[n].routine = Adds[n].routine
      <3>1. \A n \in 1 .. Added : n \in Node /\ n # NULL /\ n \in 1 .. handle_count
        BY <2>2, HandlerAssumption DEF Node, NULL
      <3> QED
        BY <3>1 DEF HInv
    <2>4. nx \in [Node \cup {NULL} -> Node \cup {NULL}] /\ nx[NULL] = NULL
      BY DEF HInv
    <2>5. Way(nx, NULL, handles[irq], w, k)
      BY <2>1, <2>3 DEF Way, Thread
    <2>6. k \in 0 .. NR_IRQ_HANDLE /\ NR_IRQ_HANDLE \in Nat /\ handles[irq] \in Node \cup {NULL}
      BY <2>2, HandlerAssumption DEF HInv
    <2>7. s = [i \in 1 .. k |-> w[i]]
      <3> DEFINE P == Node \cup {NULL}
      <3>0. NULL \in P /\ nx \in [P -> P] /\ handles[irq] \in P
        BY <2>4, <2>6
      <3> HIDE DEF nx, P
      <3>1. Follow(nx, NULL, handles[irq], NR_IRQ_HANDLE) = [i \in 1 .. k |-> w[i]]
        BY <2>4, <2>5, <2>6, <3>0, FollowWay
      <3> QED
        BY <3>1 DEF Nodes, nx
    <2> HIDE DEF s
    <2>8. \A i \in DOMAIN s : Called(irq)[i] = handle_pool[s[i]].routine
      BY DEF Called, s
    <2>9. {s[i] : i \in DOMAIN s} = {n \in 1 .. Added : Adds[n].irq = irq}
      BY <2>1, <2>7 DEF Thread
    <2>10. \A i \in DOMAIN s : Called(irq)[i] = Adds[s[i]].routine
      <3> TAKE i \in DOMAIN s
      <3>1. s[i] \in 1 .. Added
        BY <2>1, <2>7 DEF Thread
      <3> QED
        BY <2>3, <2>8, <3>1
    <2>11. \A i, j \in DOMAIN s : i < j => s[i] > s[j]
      BY <2>1, <2>7 DEF Thread
    <2> QED
      BY <2>9, <2>10, <2>11 DEF s
  <1> QED
    BY <1>1, HandlersInvariance, PTL

----------------------------------------------------------------------------
(* The letters.  u goes through the k nodes of a list from h, to NULL.     *)
Ptr == Fly \cup {NULL}

Cell == [x : Int, v : Int, text : Key \cup {0}, prev : Ptr, next : Ptr]

Walks(f, h, u, k) ==
    /\ u \in [1 .. k + 1 -> Ptr]
    /\ u[1] = h /\ u[k + 1] = NULL
    /\ \A i \in 1 .. k : u[i] \in Fly /\ f[u[i]].next = u[i + 1]

Once(u, k) == \A i, j \in 1 .. k : u[i] = u[j] => i = j

(* The k letters and the m idle nodes are the pool; one idle node is left. *)
Parted(f, h, r, u, v, k, m) ==
    /\ k + m = SIZE + 1 /\ m > 0
    /\ Walks(f, h, u, k) /\ Walks(f, r, v, m)
    /\ Once(u, k) /\ Once(v, m)
    /\ \A i \in 1 .. k, j \in 1 .. m : u[i] # v[j]
    /\ \A n \in Fly : \/ \E i \in 1 .. k : u[i] = n
                      \/ \E i \in 1 .. m : v[i] = n

Alive(f, u, k) ==
    \A i \in 1 .. k : f[u[i]] \in Letter
                      /\ f[u[i]].prev = IF i = 1 THEN NULL ELSE u[i - 1]

(* The moves a letter has left at most: down, hit at the bottom, and up.   *)
Rest(c) == IF c.v = 1 THEN Height - c.x + (Height \div HitSpeed) ELSE c.x \div HitSpeed

(* g is the age of each letter when the tick began.  The ith is i - 1      *)
(* births older than the youngest, which is b ticks old at least, and the  *)
(* letters before the eth have made one more move.                         *)
Aged(f, u, k, g, e, b) ==
    /\ g \in [1 .. k -> Nat]
    /\ \A i \in 1 .. k :
          /\ g[i] >= b + (i - 1) * NewEvery
          /\ g[i] + (IF i < e THEN 1 ELSE 0) + Rest(f[u[i]]) =< Height + (Height \div HitSpeed)

Field(f, h, r, u, v, k, m, g, e, b) ==
    Parted(f, h, r, u, v, k, m) /\ Alive(f, u, k) /\ Aged(f, u, k, g, e, b)

Youngest == IF pc # "move" /\ phase = 0 THEN NewEvery ELSE phase

LTypes ==
    /\ fly \in [Fly -> Cell] /\ head \in Ptr /\ free \in Ptr /\ it \in Ptr
    /\ letter_pressed \in [Key -> BOOLEAN]
    /\ lag \in 0 .. MaxLag /\ todo \in 0 .. lag /\ phase \in 0 .. NewEvery - 1
    /\ IF_ \in BOOLEAN
    /\ pc \in {"init", "wait", "check", "keys", "ticks", "move"}
    /\ pc = "move" => todo > 0
    /\ free = NULL => head = NULL /\ fly = [n \in Fly |-> Idle(NULL)]

(* The field, with the free list that fly_new would find.                  *)
Playing(u, v, k, m, g, e) ==
    /\ Field(Pooled.f, head, Pooled.free, u, v, k, m, g, e, Youngest)
    /\ IF pc = "move" THEN u[e] = it ELSE e = 1

LInv == LTypes /\ \E k, m, e \in Nat : \E u, v, g :
                     e \in 1 .. k + 1 /\ Playing(u, v, k, m, g, e)

(* Facts about division.                                                   *)
LEMMA Div ==
    ASSUME NEW x \in Nat
    PROVE  /\ x \div HitSpeed \in Nat
           /\ \A y \in Nat : x =< y => x \div HitSpeed =< y \div HitSpeed
           /\ x >= HitSpeed => (x - HitSpeed) \div HitSpeed = (x \div HitSpeed) - 1
  <1> USE GameAssumption
  <1>1. \A z \in Nat : /\ z \div HitSpeed \in Nat
                       /\ z = HitSpeed * (z \div HitSpeed) + (z % HitSpeed)
                       /\ z % HitSpeed \in 0 .. HitSpeed - 1
    OBVIOUS
  <1>2. ASSUME NEW y \in Nat, x =< y PROVE x \div HitSpeed =< y \div HitSpeed
    <2> DEFINE a == x \div HitSpeed
               c == y \div HitSpeed
    <2>1. a \in Nat /\ c \in Nat /\ HitSpeed * a =< y /\ y < HitSpeed * c + HitSpeed
      BY <1>1, <1>2
    <2> HIDE DEF a, c
    <2>2. SUFFICES ASSUME c + 1 =< a PROVE FALSE
      BY <2>1 DEF a, c
    <2>3. HitSpeed * (c + 1) =< HitSpeed * a
      BY <2>1, <2>2
    <2> QED
      BY <2>1, <2>3
  <1>3. ASSUME x >= HitSpeed PROVE (x - HitSpeed) \div HitSpeed = (x \div HitSpeed) - 1
    <2> DEFINE w == x - HitSpeed
               a == x \div HitSpeed
               c == w \div HitSpeed
    <2>1. /\ w \in Nat /\ a \in Nat /\ c \in Nat
          /\ HitSpeed * a =< x /\ x < HitSpeed * a + HitSpeed
          /\ HitSpeed * c =< w /\ w < HitSpeed * c + HitSpeed
      BY <1>1, <1>3
    <2>2. x = w + HitSpeed
      OBVIOUS
    <2> HIDE DEF a, c, w
    <2>3. ~(c + 2 =< a)
      <3> SUFFICES ASSUME c + 2 =< a PROVE FALSE
        OBVIOUS
      <3>1. HitSpeed * (c + 2) =< HitSpeed * a
        BY <2>1
      <3> QED
        BY <2>1, <2>2, <3>1
    <2>4. ~(a =< c)
      <3> SUFFICES ASSUME a =< c PROVE FALSE
        OBVIOUS
      <3>1. HitSpeed * a =< HitSpeed * c
        BY <2>1
      <3> QED
        BY <2>1, <2>2, <3>1
    <2>5. c = a - 1
      BY <2>1, <2>3, <2>4
    <2> QED
      BY <2>5 DEF a, c, w
  <1> QED
    BY <1>1, <1>2, <1>3

(* What a letter has left: less when it is hit, and less by every move.    *)
LEMMA Rests ==
    ASSUME NEW c \in Letter
    PROVE  /\ Rest(c) \in Nat
           /\ c.x \div HitSpeed =< Rest(c)
           /\ ~OffScreen(c.x + c.v) => Rest([c EXCEPT !.x = c.x + c.v]) = Rest(c) - 1
  <1>1. /\ c.x \in Nat /\ c.x =< Height /\ Height \in Nat /\ HitSpeed \in Nat \ {0}
        /\ c.v = 1 \/ c.v = -HitSpeed
    BY GameAssumption DEF Letter
  <1>2. /\ c.x \div HitSpeed \in Nat /\ Height \div HitSpeed \in Nat
        /\ c.x \div HitSpeed =< Height \div HitSpeed
    BY <1>1, Div
  <1>3. Rest(c) \in Nat /\ c.x \div HitSpeed =< Rest(c)
    BY <1>1, <1>2 DEF Rest
  <1>4. ASSUME ~OffScreen(c.x + c.v) PROVE Rest([c EXCEPT !.x = c.x + c.v]) = Rest(c) - 1
    <2> DEFINE d == [c EXCEPT !.x = c.x + c.v]
    <2>1. d.x = c.x + c.v /\ d.v = c.v
      BY DEF Letter
    <2> HIDE DEF d
    <2>2. CASE c.v = 1
      BY <1>1, <1>2, <2>1, <2>2 DEF Rest
    <2>3. CASE c.v = -HitSpeed
      <3>1. c.v # 1 /\ c.x >= HitSpeed /\ d.x = c.x - HitSpeed
        BY <1>1, <1>4, <2>1, <2>3 DEF OffScreen
      <3>2. (c.x - HitSpeed) \div HitSpeed = (c.x \div HitSpeed) - 1
        BY <1>1, <3>1, Div
      <3> QED
        BY <2>1, <3>1, <3>2 DEF Rest
    <2> QED
      BY <1>1, <2>2, <2>3 DEF d
  <1> QED
    BY <1>3, <1>4

(* The list of letters that the game goes through.                         *)
LEMMA LettersAre ==
    ASSUME LTypes, NEW k \in Nat, NEW m \in Nat, NEW u, NEW v, NEW g, NEW e, NEW b,
           Field(Pooled.f, head, Pooled.free, u, v, k, m, g, e, b)
    PROVE  /\ Letters = [i \in 1 .. k |-> u[i]]
           /\ free = NULL => k = 0
           /\ free # NULL => /\ Pooled = [f |-> fly, free |-> free]
                             /\ ChainOf(fly, free) = [i \in 1 .. m |-> v[i]]
  <1> DEFINE nx == [n \in Ptr |-> IF n = NULL THEN NULL ELSE fly[n].next]
  <1>1. NULL \notin Fly /\ NULL \in Ptr /\ SIZE + 1 \in Nat
    BY GameAssumption DEF Fly, Ptr, NULL
  <1>2. nx \in [Ptr -> Ptr] /\ nx[NULL] = NULL
    BY <1>1 DEF LTypes, Cell, Ptr
  <1>3. \A h \in Ptr : ChainOf(fly, h) = Follow(nx, NULL, h, SIZE + 1)
    BY DEF ChainOf, Ptr
  <1>4. free = NULL => k = 0
    BY <1>1 DEF LTypes, Field, Parted, Walks
  <1>5. free # NULL => Pooled = [f |-> fly, free |-> free]
    BY DEF Pooled
  <1>6. k \in 0 .. SIZE + 1 /\ m \in 0 .. SIZE + 1
    BY GameAssumption DEF Field, Parted
  <1>7. Way(nx, NULL, head, u, k)
    <2>1. CASE free = NULL
      BY <1>4, <2>1 DEF Way, Field, Parted, Walks
    <2>2. CASE free # NULL
      BY <1>1, <1>5, <2>2 DEF Way, Field, Parted, Walks, Ptr
    <2> QED
      BY <2>1, <2>2
  <1>8. free # NULL => Way(nx, NULL, free, v, m)
    BY <1>1, <1>5 DEF Way, Field, Parted, Walks, Ptr
  <1>9. head \in Ptr /\ free \in Ptr
    BY DEF LTypes
  <1> HIDE DEF nx
  <1>10. Follow(nx, NULL, head, SIZE + 1) = [i \in 1 .. k |-> u[i]]
    BY <1>1, <1>2, <1>6, <1>7, <1>9, FollowWay
  <1>11. free # NULL => Follow(nx, NULL, free, SIZE + 1) = [i \in 1 .. m |-> v[i]]
    BY <1>1, <1>2, <1>6, <1>8, <1>9, FollowWay, SMTT(30)
  <1> QED
    BY <1>3, <1>4, <1>5, <1>9, <1>10, <1>11 DEF Letters

(* A change of a letter's speed or place leaves the lists as they are.     *)
LEMMA SameLists ==
    ASSUME NEW f, NEW f2, NEW h, NEW r, NEW k \in Nat, NEW m \in Nat, NEW u, NEW v,
           Parted(f, h, r, u, v, k, m),
           \A n \in Fly : f2[n].next = f[n].next
    PROVE  Parted(f2, h, r, u, v, k, m)
  BY DEF Parted, Walks

(* A hit: the letter turns.                                                *)
LEMMA HitField ==
    ASSUME NEW f \in [Fly -> Cell], NEW h, NEW r, NEW k \in Nat, NEW m \in Nat, NEW u, NEW v,
           NEW g, NEW b, Field(f, h, r, u, v, k, m, g, 1, b), NEW d \in 1 .. k
    PROVE  /\ [f EXCEPT ![u[d]].v = -HitSpeed] \in [Fly -> Cell]
           /\ Field([f EXCEPT ![u[d]].v = -HitSpeed], h, r, u, v, k, m, g, 1, b)
  <1> DEFINE f2 == [f EXCEPT ![u[d]].v = -HitSpeed]
             c  == f[u[d]]
             c2 == [c EXCEPT !.v = -HitSpeed]
  <1>1. \A i \in 1 .. k : u[i] \in Fly
    BY DEF Field, Parted, Walks
  <1>2. c \in Letter /\ c \in Cell /\ -HitSpeed \in Int
    BY <1>1, GameAssumption DEF Field, Alive
  <1>3. f2 = [f EXCEPT ![u[d]] = c2]
    OBVIOUS
  <1>4. c2 \in Letter /\ c2 \in Cell /\ c2.next = c.next /\ c2.prev = c.prev /\ c2.x = c.x
        /\ c2.v = -HitSpeed
    BY <1>2 DEF Letter, Cell
  <1> HIDE DEF c, c2, f2
  <1>5. f2 \in [Fly -> Cell] /\ \A n \in Fly : f2[n] = IF n = u[d] THEN c2 ELSE f[n]
    BY <1>1, <1>3, <1>4
  <1>6. Parted(f2, h, r, u, v, k, m)
    <2>1. \A n \in Fly : f2[n].next = f[n].next
      BY <1>4, <1>5 DEF c
    <2> QED
      BY <2>1, SameLists DEF Field
  <1>7. Alive(f2, u, k)
    BY <1>1, <1>4, <1>5 DEF Field, Alive, c
  <1>8. Rest(c2) =< Rest(c)
    <2>1. Rest(c2) = c.x \div HitSpeed
      BY <1>4, GameAssumption DEF Rest
    <2> QED
      BY <1>2, <2>1, Rests
  <1>9. Aged(f2, u, k, g, 1, b)
    <2>1. ASSUME NEW i \in 1 .. k
          PROVE  g[i] + (IF i < 1 THEN 1 ELSE 0) + Rest(f2[u[i]])
                    =< Height + (Height \div HitSpeed)
      <3>1. /\ g[i] \in Nat
            /\ g[i] + 0 + Rest(f[u[i]]) =< Height + (Height \div HitSpeed)
        BY DEF Field, Aged
      <3>2. /\ f[u[i]] \in Letter /\ f2[u[i]] \in Letter
            /\ Rest(f2[u[i]]) =< Rest(f[u[i]])
        <4>1. f[u[i]] \in Letter /\ f2[u[i]] \in Letter
          BY <1>7 DEF Field, Alive
        <4>2. Rest(f[u[i]]) \in Nat
          BY <4>1, Rests
        <4> QED
          BY <1>1, <1>5, <1>8, <4>1, <4>2 DEF c
      <3>3. Rest(f[u[i]]) \in Nat /\ Rest(f2[u[i]]) \in Nat /\ Height \div HitSpeed \in Nat
        BY <3>2, Rests, Div, GameAssumption
      <3> QED
        BY <3>1, <3>2, <3>3, GameAssumption
    <2> QED
      BY <2>1 DEF Field, Aged
  <1> QED
    BY <1>5, <1>6, <1>7, <1>9 DEF Field, f2

(* A move on the screen.                                                   *)
LEMMA MoveField ==
    ASSUME NEW f \in [Fly -> Cell], NEW h, NEW r, NEW k \in Nat, NEW m \in Nat, NEW u, NEW v,
           NEW g, NEW b, NEW e \in 1 .. k, Field(f, h, r, u, v, k, m, g, e, b),
           NEW x, x = f[u[e]].x + f[u[e]].v, ~OffScreen(x)
    PROVE  /\ [f EXCEPT ![u[e]].x = x] \in [Fly -> Cell]
           /\ Field([f EXCEPT ![u[e]].x = x], h, r, u, v, k, m, g, e + 1, b)
  <1> DEFINE f2 == [f EXCEPT ![u[e]].x = x]
             c  == f[u[e]]
             c2 == [c EXCEPT !.x = x]
  <1>1. \A i \in 1 .. k : u[i] \in Fly
    BY DEF Field, Parted, Walks
  <1>2. c \in Letter /\ c \in Cell
    BY <1>1 DEF Field, Alive
  <1>3. f2 = [f EXCEPT ![u[e]] = c2]
    OBVIOUS
  <1>4. x \in 0 .. Height
    BY <1>2, GameAssumption DEF Letter, OffScreen
  <1>5. c2 \in Letter /\ c2 \in Cell /\ c2.next = c.next /\ c2.prev = c.prev
    BY <1>2, <1>4 DEF Letter, Cell
  <1>6. Rest(c2) = Rest(c) - 1
    BY <1>2, Rests
  <1> HIDE DEF c, c2, f2
  <1>7. f2 \in [Fly -> Cell] /\ \A n \in Fly : f2[n] = IF n = u[e] THEN c2 ELSE f[n]
    BY <1>1, <1>3, <1>5
  <1>8. Parted(f2, h, r, u, v, k, m)
    <2>1. \A n \in Fly : f2[n].next = f[n].next
      BY <1>5, <1>7 DEF c
    <2> QED
      BY <2>1, SameLists DEF Field
  <1>9. Alive(f2, u, k)
    BY <1>1, <1>5, <1>7 DEF Field, Alive, c
  <1>10. Aged(f2, u, k, g, e + 1, b)
    <2>1. ASSUME NEW i \in 1 .. k
          PROVE  g[i] + (IF i < e + 1 THEN 1 ELSE 0) + Rest(f2[u[i]])
                    =< Height + (Height \div HitSpeed)
      <3>1. /\ g[i] \in Nat
            /\ g[i] + (IF i < e THEN 1 ELSE 0) + Rest(f[u[i]]) =< Height + (Height \div HitSpeed)
        BY DEF Field, Aged
      <3>2. Rest(f[u[i]]) \in Nat /\ Height + (Height \div HitSpeed) \in Nat
        <4>1. f[u[i]] \in Letter
          BY DEF Field, Alive
        <4>2. Height \div HitSpeed \in Nat
          BY Div, GameAssumption
        <4>3. Rest(f[u[i]]) \in Nat
          BY <4>1, Rests
        <4>4. Height + (Height \div HitSpeed) \in Nat
          BY ONLY <4>2, GameAssumption
        <4> QED
          BY <4>3, <4>4
      <3>3. CASE i = e
        <4>1. Rest(f2[u[i]]) = Rest(f[u[i]]) - 1
          BY <1>1, <1>6, <1>7, <3>3 DEF c
        <4> QED
          BY <3>1, <3>2, <3>3, <4>1
      <3>4. CASE i # e
        <4>1. f2[u[i]] = f[u[i]]
          BY <1>1, <1>7, <3>4 DEF Field, Parted, Once
        <4> QED
          BY <3>1, <3>2, <3>4, <4>1
      <3> QED
        BY <3>3, <3>4
    <2> QED
      BY <2>1 DEF Field, Aged
  <1> QED
    BY <1>7, <1>8, <1>9, <1>10 DEF Field, f2

(* The end of a tick: every letter is a tick older, and has moved.         *)
LEMMA TickField ==
    ASSUME NEW f, NEW h, NEW r, NEW k \in Nat, NEW m \in Nat, NEW u, NEW v, NEW g,
           NEW b \in 0 .. NewEvery - 1, Field(f, h, r, u, v, k, m, g, k + 1, b)
    PROVE  LET b2 == (b + 1) % NewEvery
           IN  \E g2 : Field(f, h, r, u, v, k, m, g2, 1, IF b2 = 0 THEN NewEvery ELSE b2)
  <1> DEFINE g2 == [i \in 1 .. k |-> g[i] + 1]
             b2 == (b + 1) % NewEvery
             b3 == IF b2 = 0 THEN NewEvery ELSE b2
  <1>1. b3 = b + 1
    <2>1. CASE b + 1 = NewEvery
      BY <2>1, GameAssumption
    <2>2. CASE b + 1 # NewEvery
      <3>1. b + 1 \in 1 .. NewEvery - 1
        BY <2>2, GameAssumption
      <3>2. b2 = b + 1
        BY <3>1, GameAssumption
      <3> QED
        BY <3>1, <3>2
    <2> QED
      BY <2>1, <2>2
  <1> HIDE DEF b3
  <1>2. ASSUME NEW i \in 1 .. k
        PROVE  /\ g2[i] \in Nat /\ g2[i] >= b3 + (i - 1) * NewEvery
               /\ g2[i] + (IF i < 1 THEN 1 ELSE 0) + Rest(f[u[i]])
                     =< Height + (Height \div HitSpeed)
    <2>1. /\ g[i] \in Nat /\ g[i] >= b + (i - 1) * NewEvery
          /\ g[i] + 1 + Rest(f[u[i]]) =< Height + (Height \div HitSpeed)
      BY DEF Field, Aged
    <2>2. /\ Rest(f[u[i]]) \in Nat /\ Height + (Height \div HitSpeed) \in Nat
          /\ (i - 1) * NewEvery \in Nat
      <3>1. f[u[i]] \in Letter
        BY DEF Field, Alive
      <3>2. Height \div HitSpeed \in Nat
        BY Div, GameAssumption
      <3>3. i - 1 \in Nat /\ NewEvery \in Nat
        BY GameAssumption
      <3>4. Rest(f[u[i]]) \in Nat
        BY <3>1, Rests
      <3>5. Height + (Height \div HitSpeed) \in Nat
        BY ONLY <3>2, GameAssumption
      <3>6. (i - 1) * NewEvery \in Nat
        BY ONLY <3>3
      <3> QED
        BY <3>4, <3>5, <3>6
    <2> QED
      BY <1>1, <2>1, <2>2
  <1>3. g2 \in [1 .. k -> Nat]
    BY <1>2
  <1> HIDE DEF g2
  <1>4. Field(f, h, r, u, v, k, m, g2, 1, b3)
    BY <1>2, <1>3 DEF Field, Aged
  <1> QED
    BY <1>4 DEF b3

(* The stores of fly_remove and fly_free: the neighbours of the letter are *)
(* linked to each other, and it goes to the front of the free list.        *)
LEMMA RemovedCells ==
    ASSUME fly \in [Fly -> Cell], free \in Ptr, NEW n \in Fly,
           NEW p, p = fly[n].prev, NEW q, q = fly[n].next, p # n, q # n
    PROVE  /\ Removed(n) \in [Fly -> Cell]
           /\ Removed(n)[n].next = free
           /\ \A a \in Fly \ {n} :
                 /\ Removed(n)[a].next = IF a = p THEN q ELSE fly[a].next
                 /\ Removed(n)[a].prev = IF a = q THEN p ELSE fly[a].prev
                 /\ Removed(n)[a].x = fly[a].x
                 /\ Removed(n)[a].v = fly[a].v
                 /\ Removed(n)[a].text = fly[a].text
  <1> DEFINE f1 == IF p = NULL THEN fly ELSE [fly EXCEPT ![p].next = q]
             f2 == IF q = NULL THEN f1 ELSE [f1 EXCEPT ![q].prev = p]
             f3 == [f2 EXCEPT ![n] = Idle(free)]
  <1>1. p \in Ptr /\ q \in Ptr /\ NULL \notin Fly
    BY DEF Cell, Fly, NULL
  <1>2. /\ f1 \in [Fly -> Cell]
        /\ \A a \in Fly : /\ f1[a].next = IF a = p THEN q ELSE fly[a].next
                          /\ f1[a].prev = fly[a].prev /\ f1[a].x = fly[a].x
                          /\ f1[a].v = fly[a].v /\ f1[a].text = fly[a].text
    BY <1>1 DEF Cell, Ptr
  <1> HIDE DEF f1
  <1>3. /\ f2 \in [Fly -> Cell]
        /\ \A a \in Fly : /\ f2[a].prev = IF a = q THEN p ELSE f1[a].prev
                          /\ f2[a].next = f1[a].next /\ f2[a].x = f1[a].x
                          /\ f2[a].v = f1[a].v /\ f2[a].text = f1[a].text
    BY <1>1, <1>2 DEF Cell, Ptr
  <1> HIDE DEF f2
  <1>4. Idle(free) \in Cell /\ Idle(free).next = free
    BY DEF Idle, Cell, Ptr
  <1>5. f3 \in [Fly -> Cell] /\ f3[n] = Idle(free) /\ \A a \in Fly \ {n} : f3[a] = f2[a]
    BY <1>3, <1>4
  <1>6. Removed(n) = f3
    BY DEF Removed, f1, f2
  <1> HIDE DEF f3
  <1> QED
    BY <1>2, <1>3, <1>4, <1>5, <1>6

LEMMA SameLetter ==
    ASSUME NEW c \in Letter, NEW d \in Cell, d.x = c.x, d.v = c.v, d.text = c.text
    PROVE  d \in Letter
  BY DEF Letter, Cell, Ptr

(* A letter leaves the screen: the older ones move up in the list, and the *)
(* gaps between the births can only grow.                                  *)
LEMMA RemoveField ==
    ASSUME fly \in [Fly -> Cell], free \in Ptr, NEW k \in Nat, NEW m \in Nat, NEW u, NEW v,
           NEW g, NEW b \in Nat, NEW e \in 1 .. k, Field(fly, head, free, u, v, k, m, g, e, b)
    PROVE  /\ Removed(u[e]) \in [Fly -> Cell]
           /\ \E u2, v2, g2 :
                 /\ Field(Removed(u[e]), IF u[e] = head THEN fly[u[e]].next ELSE head, u[e],
                          u2, v2, k - 1, m + 1, g2, e, b)
                 /\ u2[e] = fly[u[e]].next
  <1> DEFINE old(i) == IF i < e THEN i ELSE i + 1
             n  == u[e]
             p  == fly[n].prev
             q  == fly[n].next
             f2 == Removed(n)
             h2 == IF n = head THEN q ELSE head
             u2 == [i \in 1 .. k |-> u[old(i)]]
             v2 == [i \in 1 .. m + 2 |-> IF i = 1 THEN n ELSE v[i - 1]]
             g2 == [i \in 1 .. k - 1 |-> g[old(i)]]
  <1>1. /\ \A i \in 1 .. k : u[i] \in Fly /\ fly[u[i]].next = u[i + 1]
        /\ \A i, j \in 1 .. k : u[i] = u[j] => i = j
        /\ \A i \in 1 .. k : fly[u[i]] \in Letter
                             /\ fly[u[i]].prev = IF i = 1 THEN NULL ELSE u[i - 1]
        /\ u[1] = head /\ u[k + 1] = NULL /\ u \in [1 .. k + 1 -> Ptr]
        /\ k + m = SIZE + 1 /\ m > 0
    BY DEF Field, Parted, Walks, Once, Alive
  <1>2. /\ \A i \in 1 .. m : v[i] \in Fly /\ fly[v[i]].next = v[i + 1]
        /\ \A i, j \in 1 .. m : v[i] = v[j] => i = j
        /\ \A i \in 1 .. k, j \in 1 .. m : u[i] # v[j]
        /\ v[1] = free /\ v[m + 1] = NULL /\ v \in [1 .. m + 1 -> Ptr]
        /\ \A a \in Fly : \/ \E i \in 1 .. k : u[i] = a
                          \/ \E i \in 1 .. m : v[i] = a
    BY DEF Field, Parted, Walks, Once
  <1>3. NULL \notin Fly
    BY DEF Fly, NULL
  <1>4. n \in Fly /\ q = u[e + 1] /\ p = IF e = 1 THEN NULL ELSE u[e - 1]
    BY <1>1
  <1>5. /\ \A i \in 1 .. k : u[i] = n <=> i = e
        /\ \A i \in 1 .. k : u[i] = p <=> i = e - 1
        /\ \A i \in 1 .. k : u[i] = q <=> i = e + 1
    <2>1. \A i \in 1 .. k : u[i] = p <=> i = e - 1
      <3>1. CASE e = 1
        BY <1>1, <1>3, <1>4, <3>1
      <3>2. CASE e # 1
        <4>1. e - 1 \in 1 .. k /\ p = u[e - 1]
          BY <1>4, <3>2
        <4> QED
          BY <1>1, <4>1
      <3> QED
        BY <3>1, <3>2
    <2>2. \A i \in 1 .. k : u[i] = q <=> i = e + 1
      <3>1. CASE e = k
        BY <1>1, <1>3, <1>4, <3>1
      <3>2. CASE e # k
        <4>1. e + 1 \in 1 .. k
          BY <3>2
        <4> QED
          BY <1>1, <1>4, <4>1
      <3> QED
        BY <3>1, <3>2
    <2> QED
      BY <1>1, <2>1, <2>2
  <1>6. p # n /\ q # n
    BY <1>4, <1>5
  <1>7. \A j \in 1 .. m : v[j] # n /\ v[j] # p /\ v[j] # q
    <2>1. \A j \in 1 .. m : v[j] # p
      <3>1. CASE e = 1
        BY <1>2, <1>3, <1>4, <3>1
      <3>2. CASE e # 1
        <4>1. e - 1 \in 1 .. k
          BY <3>2
        <4> QED
          BY <1>2, <1>4, <3>2, <4>1
      <3> QED
        BY <3>1, <3>2
    <2>2. \A j \in 1 .. m : v[j] # q
      <3>1. CASE e = k
        BY <1>1, <1>2, <1>3, <1>4, <3>1
      <3>2. CASE e # k
        <4>1. e + 1 \in 1 .. k
          BY <3>2
        <4> QED
          BY <1>2, <1>4, <4>1
      <3> QED
        BY <3>1, <3>2
    <2> QED
      BY <1>2, <2>1, <2>2
  <1>8. /\ f2 \in [Fly -> Cell]
        /\ f2[n].next = free
        /\ \A a \in Fly \ {n} : /\ f2[a].next = IF a = p THEN q ELSE fly[a].next
                                /\ f2[a].prev = IF a = q THEN p ELSE fly[a].prev
                                /\ f2[a].x = fly[a].x
                                /\ f2[a].v = fly[a].v
                                /\ f2[a].text = fly[a].text
    BY <1>4, <1>6, RemovedCells
  <1> HIDE DEF f2, p, q, n
  <1>9. \A i \in 1 .. k - 1 : old(i) \in 1 .. k /\ old(i) # e
    OBVIOUS
  <1>10. ASSUME NEW i \in 1 .. k, i # e
         PROVE  /\ f2[u[i]] \in Letter
                /\ f2[u[i]].next = IF i = e - 1 THEN u[e + 1] ELSE u[i + 1]
                /\ f2[u[i]].prev = IF i = e + 1 THEN p ELSE fly[u[i]].prev
                /\ Rest(f2[u[i]]) = Rest(fly[u[i]])
    <2>1. u[i] \in Fly \ {n} /\ fly[u[i]] \in Letter
      BY <1>1, <1>5, <1>10
    <2>2. f2[u[i]] \in Cell
      BY <1>8, <2>1
    <2>3. f2[u[i]] \in Letter
      BY <1>8, <2>1, <2>2, SameLetter
    <2>4. Rest(f2[u[i]]) = Rest(fly[u[i]])
      BY <1>8, <2>1 DEF Rest
    <2> QED
      BY <1>1, <1>4, <1>5, <1>8, <2>1, <2>3, <2>4, SMTT(30)
  <1>11. Walks(f2, h2, u2, k - 1)
    <2>1. u2 \in [1 .. k - 1 + 1 -> Ptr]
      BY <1>1
    <2>2. u2[1] = h2
      <3>1. CASE e = 1
        BY <1>1, <1>4, <3>1 DEF n
      <3>2. CASE e # 1
        <4>1. n # head
          BY <1>1, <1>5, <3>2
        <4> QED
          BY <1>1, <3>2, <4>1
      <3> QED
        BY <3>1, <3>2
    <2>3. u2[k - 1 + 1] = NULL
      BY <1>1
    <2>4. ASSUME NEW i \in 1 .. k - 1
          PROVE  u2[i] \in Fly /\ f2[u2[i]].next = u2[i + 1]
      <3>1. u2[i] = u[old(i)] /\ u2[i + 1] = u[old(i + 1)]
        OBVIOUS
      <3>2. old(i) \in 1 .. k /\ old(i) # e
        OBVIOUS
      <3>3. u[old(i)] \in Fly
            /\ f2[u[old(i)]].next = IF old(i) = e - 1 THEN u[e + 1] ELSE u[old(i) + 1]
        BY <1>1, <1>10, <3>2
      <3>4. old(i + 1) = IF old(i) = e - 1 THEN e + 1 ELSE old(i) + 1
        OBVIOUS
      <3> QED
        BY <3>1, <3>3, <3>4
    <2> HIDE DEF u2, h2
    <2> QED
      BY <2>1, <2>2, <2>3, <2>4 DEF Walks
  <1>12. Walks(f2, n, v2, m + 1)
    <2>1. v2 \in [1 .. m + 1 + 1 -> Ptr]
      BY <1>2, <1>4 DEF Ptr
    <2>2. v2[1] = n /\ v2[m + 1 + 1] = NULL
      BY <1>1, <1>2
    <2>3. ASSUME NEW i \in 1 .. m + 1
          PROVE  v2[i] \in Fly /\ f2[v2[i]].next = v2[i + 1]
      <3>1. CASE i = 1
        BY <1>1, <1>2, <1>4, <1>8, <3>1
      <3>2. CASE i # 1
        <4>1. i - 1 \in 1 .. m /\ v2[i] = v[i - 1] /\ v2[i + 1] = v[i]
          BY <3>2
        <4>2. v[i - 1] \in Fly \ {n} /\ v[i - 1] # p /\ fly[v[i - 1]].next = v[i]
          BY <1>2, <1>7, <4>1
        <4> QED
          BY <1>8, <4>1, <4>2
      <3> QED
        BY <3>1, <3>2
    <2> HIDE DEF v2
    <2> QED
      BY <2>1, <2>2, <2>3 DEF Walks
  <1>13. Once(u2, k - 1)
    <2> SUFFICES ASSUME NEW i \in 1 .. k - 1, NEW j \in 1 .. k - 1, u2[i] = u2[j]
                 PROVE  i = j
      BY DEF Once
    <2>1. u[old(i)] = u[old(j)] /\ old(i) \in 1 .. k /\ old(j) \in 1 .. k
      OBVIOUS
    <2>2. old(i) = old(j)
      BY <1>1, <2>1
    <2> QED
      BY <2>2
  <1>14. Once(v2, m + 1)
    <2> SUFFICES ASSUME NEW i \in 1 .. m + 1, NEW j \in 1 .. m + 1, v2[i] = v2[j]
                 PROVE  i = j
      BY DEF Once
    <2>1. \A l \in 1 .. m + 1 : l # 1 => l - 1 \in 1 .. m /\ v2[l] = v[l - 1] /\ v[l - 1] # n
      BY <1>7
    <2>2. v2[1] = n
      BY <1>1
    <2> HIDE DEF v2
    <2>3. i = 1 <=> j = 1
      BY <2>1, <2>2
    <2>4. CASE i # 1
      <3>1. i - 1 \in 1 .. m /\ j - 1 \in 1 .. m /\ v[i - 1] = v[j - 1]
        BY <2>1, <2>3, <2>4
      <3>2. i - 1 = j - 1
        BY <1>2, <3>1
      <3> QED
        BY <3>2
    <2> QED
      BY <2>3, <2>4
  <1>15. ASSUME NEW i \in 1 .. k - 1, NEW j \in 1 .. m + 1 PROVE u2[i] # v2[j]
    <2>1. u2[i] = u[old(i)] /\ old(i) \in 1 .. k /\ old(i) # e
      OBVIOUS
    <2>2. CASE j = 1
      BY <1>5, <2>1, <2>2
    <2>3. CASE j # 1
      <3>1. v2[j] = v[j - 1] /\ j - 1 \in 1 .. m
        BY <2>3
      <3> QED
        BY <1>2, <2>1, <3>1
    <2> QED
      BY <2>2, <2>3
  <1>16. ASSUME NEW a \in Fly
         PROVE  (\E i \in 1 .. k - 1 : u2[i] = a) \/ (\E i \in 1 .. m + 1 : v2[i] = a)
    <2>1. CASE \E i \in 1 .. m : v[i] = a
      <3>1. PICK i \in 1 .. m : v[i] = a
        BY <2>1
      <3>2. i + 1 \in 1 .. m + 1 /\ v2[i + 1] = a
        BY <3>1
      <3> QED
        BY <3>2
    <2>2. CASE \E i \in 1 .. k : u[i] = a
      <3>1. PICK i \in 1 .. k : u[i] = a
        BY <2>2
      <3>2. CASE i = e
        <4>1. 1 \in 1 .. m + 1 /\ v2[1] = a
          BY <1>1, <3>1, <3>2 DEF n
        <4> QED
          BY <4>1
      <3>3. CASE i < e
        <4>1. i \in 1 .. k - 1 /\ u2[i] = a
          BY <3>1, <3>3
        <4> QED
          BY <4>1
      <3>4. CASE i > e
        <4>1. i - 1 \in 1 .. k - 1 /\ u2[i - 1] = a
          BY <3>1, <3>4
        <4> QED
          BY <4>1
      <3>5. i < e \/ i = e \/ i > e
        OBVIOUS
      <3> QED
        BY <3>2, <3>3, <3>4, <3>5, Zenon
    <2> QED
      BY <1>2, <2>1, <2>2
  <1>17. Alive(f2, u2, k - 1)
    <2> SUFFICES ASSUME NEW i \in 1 .. k - 1
                 PROVE  f2[u2[i]] \in Letter
                        /\ f2[u2[i]].prev = IF i = 1 THEN NULL ELSE u2[i - 1]
      BY DEF Alive
    <2>1. u2[i] = u[old(i)] /\ old(i) \in 1 .. k /\ old(i) # e
      OBVIOUS
    <2>2. /\ f2[u2[i]] \in Letter
          /\ f2[u2[i]].prev = IF old(i) = e + 1 THEN p ELSE fly[u[old(i)]].prev
      BY <1>10, <2>1
    <2>3. fly[u[old(i)]].prev = IF old(i) = 1 THEN NULL ELSE u[old(i) - 1]
      BY <1>1, <2>1
    <2>4. CASE i < e
      BY <2>2, <2>3, <2>4
    <2>5. CASE i = e
      BY <1>4, <2>2, <2>5
    <2>6. CASE i > e
      BY <2>2, <2>3, <2>6
    <2> QED
      BY <2>4, <2>5, <2>6
  <1>18. Aged(f2, u2, k - 1, g2, e, b)
    <2>1. g2 \in [1 .. k - 1 -> Nat]
      BY <1>9 DEF Field, Aged
    <2>2. ASSUME NEW i \in 1 .. k - 1
          PROVE  /\ g2[i] >= b + (i - 1) * NewEvery
                 /\ g2[i] + (IF i < e THEN 1 ELSE 0) + Rest(f2[u2[i]])
                       =< Height + (Height \div HitSpeed)
      <3>1. /\ u2[i] = u[old(i)] /\ old(i) \in 1 .. k /\ old(i) # e /\ g2[i] = g[old(i)]
            /\ old(i) < e <=> i < e
        OBVIOUS
      <3>2. Rest(f2[u2[i]]) = Rest(fly[u[old(i)]])
        BY <1>10, <3>1
      <3>3. /\ g[old(i)] \in Nat /\ g[old(i)] >= b + (old(i) - 1) * NewEvery
            /\ g[old(i)] + (IF old(i) < e THEN 1 ELSE 0) + Rest(fly[u[old(i)]])
                  =< Height + (Height \div HitSpeed)
        BY <3>1 DEF Field, Aged
      <3>4. (old(i) - 1) * NewEvery >= (i - 1) * NewEvery /\ (i - 1) * NewEvery \in Nat
            /\ (old(i) - 1) * NewEvery \in Nat
        <4>1. i * NewEvery = (i - 1) * NewEvery + NewEvery /\ (i - 1) * NewEvery \in Nat
          BY GameAssumption
        <4> QED
          BY <4>1, GameAssumption
      <3>5. g2[i] >= b + (i - 1) * NewEvery
        BY <3>1, <3>3, <3>4
      <3> QED
        BY <3>1, <3>2, <3>3, <3>5
    <2> HIDE DEF g2, u2
    <2> QED
      BY <2>1, <2>2 DEF Aged
  <1>19. u2[e] = q
    BY <1>4
  <1>20. k - 1 + (m + 1) = SIZE + 1 /\ m + 1 > 0
    BY <1>1, GameAssumption
  <1> HIDE DEF u2, v2, g2, h2
  <1>21. Parted(f2, h2, n, u2, v2, k - 1, m + 1)
    BY <1>11, <1>12, <1>13, <1>14, <1>15, <1>16, <1>20 DEF Parted
  <1>22. Field(f2, h2, n, u2, v2, k - 1, m + 1, g2, e, b)
    BY <1>17, <1>18, <1>21 DEF Field
  <1> QED
    BY <1>8, <1>19, <1>22 DEF f2, h2, n, q

(* The pool after the birth of a letter in node r.                         *)
Born(f, h, r, key) ==
    LET new == [x |-> 0, v |-> 1, text |-> key, prev |-> NULL, next |-> h]
        f1  == [f EXCEPT ![r] = new]
    IN  IF h = NULL THEN f1 ELSE [f1 EXCEPT ![h].prev = r]

(* A birth, when the youngest letter is NewEvery ticks old: the newest is  *)
(* first on the list.                                                      *)
LEMMA CreateField ==
    ASSUME NEW f \in [Fly -> Cell], NEW h, NEW r, NEW k \in Nat, NEW m \in Nat, NEW u, NEW v,
           NEW g, Field(f, h, r, u, v, k, m, g, 1, NewEvery), m > 1, NEW key \in Key
    PROVE  /\ Born(f, h, r, key) \in [Fly -> Cell]
           /\ r \in Fly /\ f[r].next \in Fly
           /\ \E u2, v2, g2 :
                 /\ Field(Born(f, h, r, key), r, f[r].next, u2, v2, k + 1, m - 1, g2, 1, 0)
                 /\ u2[1] = r
  <1> DEFINE f2 == Born(f, h, r, key)
             new == [x |-> 0, v |-> 1, text |-> key, prev |-> NULL, next |-> h]
             u2 == [i \in 1 .. k + 2 |-> IF i = 1 THEN r ELSE u[i - 1]]
             v2 == [i \in 1 .. m |-> v[i + 1]]
             g2 == [i \in 1 .. k + 1 |-> IF i = 1 THEN 0 ELSE g[i - 1]]
  <1>1. /\ \A i \in 1 .. k : u[i] \in Fly /\ f[u[i]].next = u[i + 1]
        /\ \A i, j \in 1 .. k : u[i] = u[j] => i = j
        /\ \A i \in 1 .. k : f[u[i]] \in Letter
                             /\ f[u[i]].prev = IF i = 1 THEN NULL ELSE u[i - 1]
        /\ u[1] = h /\ u[k + 1] = NULL /\ u \in [1 .. k + 1 -> Ptr]
        /\ k + m = SIZE + 1
    BY DEF Field, Parted, Walks, Once, Alive
  <1>2. /\ \A i \in 1 .. m : v[i] \in Fly /\ f[v[i]].next = v[i + 1]
        /\ \A i, j \in 1 .. m : v[i] = v[j] => i = j
        /\ \A i \in 1 .. k, j \in 1 .. m : u[i] # v[j]
        /\ v[1] = r /\ v[m + 1] = NULL /\ v \in [1 .. m + 1 -> Ptr]
        /\ \A a \in Fly : \/ \E i \in 1 .. k : u[i] = a
                          \/ \E i \in 1 .. m : v[i] = a
    BY DEF Field, Parted, Walks, Once
  <1>3. NULL \notin Fly
    BY DEF Fly, NULL
  <1>4. r \in Fly /\ f[r].next = v[2] /\ v[2] \in Fly /\ \A i \in 1 .. k : u[i] # r
    <2>1. 1 \in 1 .. m /\ 2 \in 1 .. m
      OBVIOUS
    <2> QED
      BY <1>2, <2>1
  <1>5. h \in Ptr /\ h # r /\ (h = NULL <=> k = 0)
    <2>1. CASE k = 0
      BY <1>1, <1>3, <1>4, <2>1 DEF Ptr
    <2>2. CASE k # 0
      <3>1. 1 \in 1 .. k
        BY <2>2
      <3> QED
        BY <1>1, <1>3, <1>4, <2>2, <3>1 DEF Ptr
    <2> QED
      BY <2>1, <2>2
  <1>6. new \in Cell /\ new \in Letter /\ new.prev = NULL /\ new.next = h
        /\ Rest(new) = Height + (Height \div HitSpeed)
    BY <1>5, GameAssumption DEF Cell, Letter, Ptr, Rest
  <1>7. /\ f2 \in [Fly -> Cell] /\ f2[r] = new
        /\ \A a \in Fly \ {r} : /\ f2[a].next = f[a].next
                                /\ f2[a].prev = IF a = h THEN r ELSE f[a].prev
                                /\ f2[a].x = f[a].x
                                /\ f2[a].v = f[a].v
                                /\ f2[a].text = f[a].text
    <2> DEFINE f1 == [f EXCEPT ![r] = new]
    <2>1. f1 \in [Fly -> Cell] /\ f1[r] = new /\ \A a \in Fly \ {r} : f1[a] = f[a]
      BY <1>4, <1>6
    <2>2. f2 = IF h = NULL THEN f1 ELSE [f1 EXCEPT ![h].prev = r]
      BY DEF Born
    <2> HIDE DEF f1, f2
    <2>3. CASE h = NULL
      BY <1>3, <2>1, <2>2, <2>3
    <2>4. CASE h # NULL
      <3>1. h \in Fly /\ f1[h] \in Cell
        BY <1>5, <2>1, <2>4 DEF Ptr
      <3> DEFINE d == [f1[h] EXCEPT !.prev = r]
      <3>2. /\ d \in Cell /\ d.next = f1[h].next /\ d.prev = r /\ d.x = f1[h].x
            /\ d.v = f1[h].v /\ d.text = f1[h].text
        BY <1>4, <3>1 DEF Cell, Ptr
      <3>3. f2 = [f1 EXCEPT ![h] = d]
        BY <2>2, <2>4
      <3> HIDE DEF d
      <3>4. f2 \in [Fly -> Cell] /\ f2[h] = d /\ \A a \in Fly \ {h} : f2[a] = f1[a]
        BY <2>1, <3>1, <3>2, <3>3
      <3> QED
        BY <1>4, <1>5, <2>1, <3>1, <3>2, <3>4
    <2> QED
      BY <2>3, <2>4
  <1> HIDE DEF f2, new, u2, v2, g2
  <1>8. /\ u2[1] = r /\ g2[1] = 0
        /\ \A i \in 1 .. k + 1 : u2[i + 1] = u[i]
        /\ \A i \in 1 .. k : g2[i + 1] = g[i]
        /\ \A i \in 1 .. m : v2[i] = v[i + 1]
    BY DEF u2, v2, g2
  <1>9. ASSUME NEW i \in 1 .. k + 1, i # 1
        PROVE  i - 1 \in 1 .. k /\ u2[i] = u[i - 1] /\ u2[i + 1] = u[i] /\ g2[i] = g[i - 1]
               /\ u[i - 1] \in Fly \ {r}
    <2>1. i - 1 \in 1 .. k /\ i - 1 \in 1 .. k + 1 /\ i - 1 + 1 = i
      BY <1>9
    <2> QED
      BY <1>1, <1>4, <1>8, <2>1
  <1>10. ASSUME NEW i \in 1 .. m - 1
         PROVE  /\ i + 1 \in 1 .. m /\ v2[i] = v[i + 1] /\ v2[i + 1] = v[i + 1 + 1]
                /\ v[i + 1] \in Fly \ {r}
    <2>1. i + 1 \in 1 .. m /\ i \in 1 .. m /\ 1 \in 1 .. m /\ i + 1 # 1
      OBVIOUS
    <2> QED
      BY <1>2, <1>8, <2>1
  <1>11. Walks(f2, r, u2, k + 1)
    <2>1. u2 \in [1 .. k + 1 + 1 -> Ptr]
      BY <1>1, <1>4 DEF Ptr, u2
    <2>2. u2[1] = r /\ u2[k + 1 + 1] = NULL
      BY <1>1, <1>8
    <2>3. ASSUME NEW i \in 1 .. k + 1
          PROVE  u2[i] \in Fly /\ f2[u2[i]].next = u2[i + 1]
      <3>1. CASE i = 1
        BY <1>1, <1>4, <1>6, <1>7, <1>8, <3>1
      <3>2. CASE i # 1
        <4>1. i - 1 \in 1 .. k /\ u2[i] = u[i - 1] /\ u2[i + 1] = u[i]
              /\ u[i - 1] \in Fly \ {r} /\ i - 1 + 1 = i
          BY <1>9, <3>2
        <4>2. f[u[i - 1]].next = u[i]
          BY <1>1, <4>1
        <4> QED
          BY <1>7, <4>1, <4>2
      <3> QED
        BY <3>1, <3>2
    <2> QED
      BY <2>1, <2>2, <2>3 DEF Walks
  <1>12. Walks(f2, f[r].next, v2, m - 1)
    <2>1. v2 \in [1 .. m - 1 + 1 -> Ptr]
      BY <1>2 DEF v2
    <2>2. v2[1] = f[r].next /\ v2[m - 1 + 1] = NULL
      BY <1>2, <1>4 DEF v2
    <2>3. ASSUME NEW i \in 1 .. m - 1
          PROVE  v2[i] \in Fly /\ f2[v2[i]].next = v2[i + 1]
      BY <1>2, <1>7, <1>10
    <2> QED
      BY <2>1, <2>2, <2>3 DEF Walks
  <1>13. Once(u2, k + 1)
    <2> SUFFICES ASSUME NEW i \in 1 .. k + 1, NEW j \in 1 .. k + 1, u2[i] = u2[j]
                 PROVE  i = j
      BY DEF Once
    <2>1. i = 1 <=> j = 1
      BY <1>8, <1>9
    <2>2. CASE i # 1
      <3>1. i - 1 \in 1 .. k /\ j - 1 \in 1 .. k /\ u[i - 1] = u[j - 1]
        BY <1>9, <2>1, <2>2
      <3>2. i - 1 = j - 1
        BY <1>1, <3>1
      <3> QED
        BY <3>2
    <2> QED
      BY <2>1, <2>2
  <1>14. Once(v2, m - 1)
    <2> SUFFICES ASSUME NEW i \in 1 .. m - 1, NEW j \in 1 .. m - 1, v2[i] = v2[j]
                 PROVE  i = j
      BY DEF Once
    <2>1. i + 1 \in 1 .. m /\ j + 1 \in 1 .. m /\ v[i + 1] = v[j + 1]
      BY <1>10
    <2>2. i + 1 = j + 1
      BY <1>2, <2>1
    <2> QED
      BY <2>2
  <1>15. ASSUME NEW i \in 1 .. k + 1, NEW j \in 1 .. m - 1 PROVE u2[i] # v2[j]
    <2>1. j + 1 \in 1 .. m /\ v2[j] = v[j + 1] /\ v[j + 1] # r
      BY <1>10
    <2>2. CASE i = 1
      BY <1>8, <2>1, <2>2
    <2>3. CASE i # 1
      <3>1. i - 1 \in 1 .. k /\ u2[i] = u[i - 1]
        BY <1>9, <2>3
      <3> QED
        BY <1>2, <2>1, <3>1
    <2> QED
      BY <2>2, <2>3
  <1>16. ASSUME NEW a \in Fly
         PROVE  (\E i \in 1 .. k + 1 : u2[i] = a) \/ (\E i \in 1 .. m - 1 : v2[i] = a)
    <2>1. CASE \E i \in 1 .. k : u[i] = a
      <3>1. PICK i \in 1 .. k : u[i] = a
        BY <2>1
      <3>2. i + 1 \in 1 .. k + 1 /\ i \in 1 .. k + 1
        OBVIOUS
      <3>3. u2[i + 1] = a
        BY <1>8, <3>1, <3>2
      <3> QED
        BY <3>2, <3>3
    <2>2. CASE \E i \in 1 .. m : v[i] = a
      <3>1. PICK i \in 1 .. m : v[i] = a
        BY <2>2
      <3>2. CASE i = 1
        <4>1. 1 \in 1 .. k + 1 /\ u2[1] = a
          BY <1>2, <1>8, <3>1, <3>2
        <4> QED
          BY <4>1
      <3>3. CASE i # 1
        <4>1. i - 1 \in 1 .. m - 1 /\ i - 1 \in 1 .. m /\ i - 1 + 1 = i
          BY <3>1, <3>3
        <4>2. v2[i - 1] = a
          BY <1>8, <3>1, <4>1
        <4> QED
          BY <4>1, <4>2
      <3> QED
        BY <3>2, <3>3
    <2> QED
      BY <1>2, <2>1, <2>2
  <1>17. ASSUME NEW i \in 1 .. k PROVE f2[u[i]] \in Letter /\ Rest(f2[u[i]]) = Rest(f[u[i]])
    <2>1. u[i] \in Fly \ {r} /\ f[u[i]] \in Letter
      BY <1>1, <1>4
    <2>2. f2[u[i]] \in Cell
      BY <1>7, <2>1
    <2>3. f2[u[i]] \in Letter
      BY <1>7, <2>1, <2>2, SameLetter
    <2> QED
      BY <1>7, <2>1, <2>3 DEF Rest
  <1>18. Alive(f2, u2, k + 1)
    <2> SUFFICES ASSUME NEW i \in 1 .. k + 1
                 PROVE  f2[u2[i]] \in Letter
                        /\ f2[u2[i]].prev = IF i = 1 THEN NULL ELSE u2[i - 1]
      BY DEF Alive
    <2>1. CASE i = 1
      BY <1>6, <1>7, <1>8, <2>1
    <2>2. CASE i # 1
      <3>1. i - 1 \in 1 .. k /\ u2[i] = u[i - 1] /\ u[i - 1] \in Fly \ {r}
        BY <1>9, <2>2
      <3>2. f2[u2[i]].prev = IF u[i - 1] = h THEN r ELSE f[u[i - 1]].prev
        BY <1>7, <3>1
      <3>3. CASE i = 2
        BY <1>1, <1>8, <1>17, <3>1, <3>2, <3>3
      <3>4. CASE i # 2
        <4>1. 1 \in 1 .. k /\ u[i - 1] # h /\ f[u[i - 1]].prev = u[i - 1 - 1]
          BY <1>1, <2>2, <3>1, <3>4
        <4>2. i - 1 \in 1 .. k + 1 /\ i - 1 # 1
          BY <2>2, <3>4
        <4>3. u2[i - 1] = u[i - 1 - 1]
          BY <1>9, <4>2
        <4> QED
          BY <1>17, <2>2, <3>1, <3>2, <4>1, <4>3
      <3> QED
        BY <3>3, <3>4
    <2> QED
      BY <2>1, <2>2
  <1>19. Aged(f2, u2, k + 1, g2, 1, 0)
    <2>1. g2 \in [1 .. k + 1 -> Nat]
      BY DEF Field, Aged, g2
    <2>2. ASSUME NEW i \in 1 .. k + 1
          PROVE  /\ g2[i] >= 0 + (i - 1) * NewEvery
                 /\ g2[i] + (IF i < 1 THEN 1 ELSE 0) + Rest(f2[u2[i]])
                       =< Height + (Height \div HitSpeed)
      <3>1. CASE i = 1
        <4>1. g2[i] = 0 /\ (i - 1) * NewEvery = 0 /\ f2[u2[i]] = new
          <5>1. (i - 1) * NewEvery = 0
            BY ONLY <3>1, GameAssumption
          <5> QED
            BY <1>7, <1>8, <3>1, <5>1
        <4>2. Height + (Height \div HitSpeed) \in Int
          BY GameAssumption
        <4> QED
          BY <1>6, <3>1, <4>1, <4>2
      <3>2. CASE i # 1
        <4>1. i - 1 \in 1 .. k /\ u2[i] = u[i - 1] /\ g2[i] = g[i - 1]
          BY <1>9, <3>2
        <4>2. /\ g[i - 1] \in Nat /\ g[i - 1] >= NewEvery + (i - 1 - 1) * NewEvery
              /\ g[i - 1] + (IF i - 1 < 1 THEN 1 ELSE 0) + Rest(f[u[i - 1]])
                    =< Height + (Height \div HitSpeed)
          BY <4>1 DEF Field, Aged
        <4>4. ~(i - 1 < 1) /\ ~(i < 1)
          BY <4>1
        <4>5. Rest(f2[u2[i]]) = Rest(f[u[i - 1]])
          <5> DEFINE j == i - 1
          <5>1. j \in 1 .. k /\ u2[i] = u[j]
            BY <4>1
          <5> HIDE DEF j
          <5>2. Rest(f2[u[j]]) = Rest(f[u[j]])
            BY <1>17, <5>1
          <5> QED
            BY <5>1, <5>2 DEF j
        <4>6. g[i - 1] + 0 + Rest(f2[u2[i]]) =< Height + (Height \div HitSpeed)
          BY <4>2, <4>4, <4>5
        <4>3. NewEvery + (i - 1 - 1) * NewEvery = 0 + (i - 1) * NewEvery
          BY GameAssumption
        <4>7. g2[i] >= 0 + (i - 1) * NewEvery
          BY <4>1, <4>2, <4>3
        <4>8. g2[i] + (IF i < 1 THEN 1 ELSE 0) + Rest(f2[u2[i]]) =< Height + (Height \div HitSpeed)
          BY <4>1, <4>4, <4>6
        <4> QED
          BY <4>7, <4>8
      <3> QED
        BY <3>1, <3>2
    <2> QED
      BY <2>1, <2>2 DEF Aged
  <1>20. k + 1 + (m - 1) = SIZE + 1 /\ m - 1 > 0
    BY <1>1, GameAssumption
  <1>21. Parted(f2, r, f[r].next, u2, v2, k + 1, m - 1)
    BY <1>11, <1>12, <1>13, <1>14, <1>15, <1>16, <1>20 DEF Parted
  <1>22. Field(f2, r, f[r].next, u2, v2, k + 1, m - 1, g2, 1, 0)
    BY <1>18, <1>19, <1>21 DEF Field
  <1> QED
    BY <1>4, <1>7, <1>8, <1>22 DEF f2

(* When a letter is due, less than SIZE letters are alive: the ith of them *)
(* is i times NewEvery ticks old, and none outlives the longest life.      *)
LEMMA Ample ==
    ASSUME NEW f, NEW h, NEW r, NEW k \in Nat, NEW m \in Nat, NEW u, NEW v, NEW g,
           Field(f, h, r, u, v, k, m, g, 1, NewEvery)
    PROVE  m > 1
  <1>1. k + m = SIZE + 1 /\ SIZE \in Nat
    BY GameAssumption DEF Field, Parted
  <1>2. CASE k = 0
    BY <1>1, <1>2, GameAssumption
  <1>3. CASE k # 0
    <2>1. /\ g[k] \in Nat /\ g[k] >= NewEvery + (k - 1) * NewEvery
          /\ g[k] + (IF k < 1 THEN 1 ELSE 0) + Rest(f[u[k]]) =< Height + (Height \div HitSpeed)
          /\ f[u[k]] \in Letter /\ ~(k < 1)
      BY <1>3 DEF Field, Aged, Alive
    <2>2. Rest(f[u[k]]) \in Nat /\ g[k] + 0 + Rest(f[u[k]]) =< Height + (Height \div HitSpeed)
      BY <2>1, Rests
    <2>3. Height + (Height \div HitSpeed) \in Nat
      <3>1. Height \div HitSpeed \in Nat
        BY Div, GameAssumption
      <3> QED
        BY ONLY <3>1, GameAssumption
    <2>4. NewEvery + (k - 1) * NewEvery = k * NewEvery /\ k * NewEvery \in Nat
      BY GameAssumption
    <2>5. k * NewEvery < SIZE * NewEvery
      <3>1. g[k] =< Height + (Height \div HitSpeed)
        BY <2>1, <2>2, <2>3
      <3>2. k * NewEvery =< Height + (Height \div HitSpeed)
        BY ONLY <2>1, <2>3, <2>4, <3>1
      <3>3. SIZE * NewEvery \in Nat
        BY GameAssumption
      <3> QED
        BY ONLY <2>3, <2>4, <3>2, <3>3, PoolAssumption
    <2>6. k < SIZE
      <3> SUFFICES ASSUME SIZE =< k PROVE FALSE
        BY <1>1
      <3>1. SIZE * NewEvery =< k * NewEvery
        BY <1>1, GameAssumption
      <3> QED
        BY <2>4, <2>5, <3>1, GameAssumption
    <2> QED
      BY <1>1, <2>6
  <1> QED
    BY <1>2, <1>3

(* The pool is there before the first letter: fly_new finds all of it.     *)
LEMMA LettersInit == Init => LInv
  <1> SUFFICES ASSUME Init PROVE LInv
    OBVIOUS
  <1> USE DEF Init
  <1>1. NULL \notin Fly /\ NULL \in Ptr /\ SIZE \in Nat
    BY GameAssumption DEF Fly, Ptr, NULL
  <1>2. fly \in [Fly -> Cell]
    BY <1>1 DEF Idle, Cell
  <1>3. LTypes
    BY <1>1, <1>2, GameAssumption DEF LTypes
  <1> DEFINE u == [i \in 1 .. 1 |-> NULL]
             v == [i \in 1 .. SIZE + 2 |-> IF i =< SIZE + 1 THEN i ELSE NULL]
             g == [i \in 1 .. 0 |-> 0]
             m == SIZE + 1
             f == Pooled.f
  <1>4. /\ Pooled.free = 1
        /\ \A n \in Fly : f[n].next = IF n =< SIZE THEN n + 1 ELSE NULL
    <2>1. Pooled = [f |-> [n \in Fly |-> [fly[n] EXCEPT !.next = IF n =< SIZE THEN n + 1 ELSE @]],
                    free |-> 1]
      BY DEF Pooled
    <2>2. \A n \in Fly : fly[n] = Idle(NULL) /\ fly[n].next = NULL
      BY DEF Idle
    <2>3. \A n \in Fly : f[n] = [fly[n] EXCEPT !.next = IF n =< SIZE THEN n + 1 ELSE @]
      BY <2>1
    <2> HIDE DEF f
    <2> QED
      BY <2>1, <2>2, <2>3 DEF Idle
  <1> HIDE DEF f
  <1>5. Walks(f, head, u, 0)
    BY <1>1 DEF Walks
  <1>6. Walks(f, Pooled.free, v, m)
    <2>1. \A i \in 1 .. m : i \in Fly
      BY <1>1 DEF Fly
    <2>2. v \in [1 .. m + 1 -> Ptr]
      BY <1>1, <2>1 DEF Ptr
    <2>3. v[1] = 1 /\ v[m + 1] = NULL
      BY <1>1
    <2>4. \A i \in 1 .. m : v[i] = i /\ v[i + 1] = IF i =< SIZE THEN i + 1 ELSE NULL
      BY <1>1
    <2> HIDE DEF v
    <2> QED
      BY <1>4, <2>1, <2>2, <2>3, <2>4 DEF Walks
  <1>7. /\ Once(u, 0) /\ Once(v, m) /\ 0 + m = SIZE + 1 /\ m > 0
        /\ \A i \in 1 .. 0, j \in 1 .. m : u[i] # v[j]
        /\ \A n \in Fly : \/ \E i \in 1 .. 0 : u[i] = n
                          \/ \E i \in 1 .. m : v[i] = n
    <2>1. \A i \in 1 .. m : v[i] = i
      BY <1>1
    <2>2. Fly = 1 .. m
      BY DEF Fly
    <2> HIDE DEF v
    <2> QED
      BY <1>1, <2>1, <2>2 DEF Once
  <1>8. Alive(f, u, 0) /\ Aged(f, u, 0, g, 1, Youngest)
    BY DEF Alive, Aged
  <1> HIDE DEF u, v, g
  <1>9. Field(f, head, Pooled.free, u, v, 0, m, g, 1, Youngest)
    BY <1>5, <1>6, <1>7, <1>8 DEF Field, Parted
  <1>10. Playing(u, v, 0, m, g, 1)
    BY <1>9 DEF Playing, f
  <1>11. 0 \in Nat /\ m \in Nat /\ 1 \in Nat /\ 1 \in 1 .. 0 + 1
    BY <1>1
  <1> HIDE DEF m
  <1> QED
    BY <1>3, <1>10, <1>11 DEF LInv

(* Steps that leave the letters alone, and the loop over them.             *)
LEMMA LettersKeep ==
    ASSUME LInv, LTypes', UNCHANGED <<letters, it, phase>>,
           pc' = pc \/ (pc # "move" /\ pc' # "move")
    PROVE  LInv'
  <1>0. PICK k \in Nat, m \in Nat, e \in Nat :
           \E u, v, g : e \in 1 .. k + 1 /\ Playing(u, v, k, m, g, e)
    BY DEF LInv
  <1>1. PICK u, v, g : e \in 1 .. k + 1 /\ Playing(u, v, k, m, g, e)
    BY <1>0
  <1>2. Pooled' = Pooled /\ head' = head /\ it' = it /\ Youngest' = Youngest
    BY DEF Pooled, letters, Youngest
  <1>3. Playing(u, v, k, m, g, e)'
    BY <1>1, <1>2 DEF Playing
  <1> QED
    BY <1>1, <1>3 DEF LInv

LEMMA LettersHit == ASSUME LInv, update_keypress PROVE LInv'
  <1> USE DEF update_keypress
  <1>0. PICK k \in Nat, m \in Nat, e \in Nat :
           \E u, v, g : e \in 1 .. k + 1 /\ Playing(u, v, k, m, g, e)
    BY DEF LInv
  <1>1. PICK u, v, g : e \in 1 .. k + 1 /\ Playing(u, v, k, m, g, e)
    BY <1>0
  <1>2. LTypes
    BY DEF LInv
  <1>3. CASE Targets = {}
    <2>1. LTypes'
      BY <1>2, <1>3 DEF LTypes, clock
    <2> QED
      BY <1>3, <2>1, LettersKeep DEF letters, clock
  <1>4. CASE Targets # {}
    <2>1. PICK n \in Targets : /\ fly' = [fly EXCEPT ![n].v = -HitSpeed]
                               /\ letter_pressed' = [letter_pressed EXCEPT ![fly[n].text] = FALSE]
      BY <1>4
    <2>2. Field(Pooled.f, head, Pooled.free, u, v, k, m, g, 1, Youngest) /\ e = 1
      BY <1>1 DEF Playing
    <2>3. /\ Letters = [i \in 1 .. k |-> u[i]]
          /\ free = NULL => k = 0
          /\ free # NULL => Pooled = [f |-> fly, free |-> free]
      BY <1>2, <2>2, LettersAre
    <2>4. PICK d \in 1 .. k : n = u[d]
      <3>1. \E i \in DOMAIN Letters : n = Letters[i]
        BY <2>1 DEF Targets
      <3> QED
        BY <2>3, <3>1
    <2>5. free # NULL /\ Pooled.f = fly /\ Pooled.free = free
      BY <2>3, <2>4
    <2>6. fly' \in [Fly -> Cell] /\ Field(fly', head, free, u, v, k, m, g, 1, Youngest)
      BY <1>2, <2>1, <2>2, <2>4, <2>5, HitField DEF LTypes
    <2>7. Pooled'.f = fly' /\ Pooled'.free = free /\ Youngest' = Youngest
      BY <2>5 DEF Pooled, Youngest, clock
    <2>8. letter_pressed' \in [Key -> BOOLEAN]
      BY <1>2, <2>1 DEF LTypes
    <2>9. LTypes'
      BY <1>2, <1>4, <2>5, <2>6, <2>8 DEF LTypes, clock
    <2>10. Playing(u, v, k, m, g, 1)'
      BY <1>4, <2>6, <2>7 DEF Playing
    <2> QED
      BY <1>1, <2>2, <2>9, <2>10 DEF LInv
  <1> QED
    BY <1>3, <1>4

LEMMA LettersTick == ASSUME LInv, start_tick PROVE LInv'
  <1> USE DEF start_tick
  <1>0. PICK k \in Nat, m \in Nat, e \in Nat :
           \E u, v, g : e \in 1 .. k + 1 /\ Playing(u, v, k, m, g, e)
    BY DEF LInv
  <1>1. PICK u, v, g : e \in 1 .. k + 1 /\ Playing(u, v, k, m, g, e)
    BY <1>0
  <1>2. LTypes
    BY DEF LInv
  <1>3. Field(Pooled.f, head, Pooled.free, u, v, k, m, g, 1, Youngest) /\ e = 1
    BY <1>1 DEF Playing
  <1>4. CASE ~Creates
    <2>1. /\ UNCHANGED <<letters, letter_pressed, clock>> /\ Youngest' = Youngest
          /\ it' = head
      BY <1>4 DEF Creates, letters, Youngest, clock
    <2>2. LTypes'
      BY <1>2, <2>1 DEF LTypes, letters, clock
    <2>3. Pooled' = Pooled /\ head' = head
      BY <2>1 DEF Pooled, letters
    <2>4. u[1] = head
      BY <1>3 DEF Field, Parted, Walks
    <2>5. Playing(u, v, k, m, g, 1)'
      BY <1>3, <2>1, <2>3, <2>4 DEF Playing
    <2> QED
      BY <1>1, <1>3, <2>2, <2>5 DEF LInv
  <1>5. CASE Creates
    <2>1. PICK key \in Key : create_new_letter(key)
      BY <1>5
    <2> DEFINE f == Pooled.f
               r == Pooled.free
               new == [x |-> 0, v |-> 1, text |-> key, prev |-> NULL, next |-> head]
    <2>2. /\ fly' = IF head = NULL THEN [f EXCEPT ![r] = new]
                    ELSE [[f EXCEPT ![r] = new] EXCEPT ![head].prev = r]
          /\ free' = f[r].next /\ head' = r
          /\ letter_pressed' = [letter_pressed EXCEPT ![key] = FALSE]
      BY <2>1 DEF create_new_letter
    <2>3. Youngest = NewEvery /\ Youngest' = 0
      BY <1>5 DEF Creates, Youngest, clock
    <2>4. m > 1
      BY <1>3, <2>3, Ample
    <2>5. f \in [Fly -> Cell]
      <3>1. CASE free # NULL
        BY <1>2, <3>1 DEF LTypes, Pooled
      <3>2. CASE free = NULL
        <4>1. \A n \in Fly : fly[n] \in Cell /\ (n =< SIZE => n + 1 \in Ptr)
          BY <1>2, GameAssumption DEF LTypes, Ptr, Fly
        <4>2. f = [n \in Fly |-> [fly[n] EXCEPT !.next = IF n =< SIZE THEN n + 1 ELSE @]]
          BY <3>2 DEF Pooled
        <4> HIDE DEF f
        <4>3. ASSUME NEW n \in Fly PROVE f[n] \in Cell
          BY <4>1, <4>2 DEF Cell
        <4> QED
          BY <4>2, <4>3
      <3> QED
        BY <3>1, <3>2
    <2>14. fly' = Born(f, head, r, key)
      BY <2>2 DEF Born
    <2> HIDE DEF f, r
    <2>6. Field(f, head, r, u, v, k, m, g, 1, NewEvery)
      BY <1>3, <2>3 DEF f, r
    <2>7. /\ fly' \in [Fly -> Cell] /\ r \in Fly /\ f[r].next \in Fly
          /\ \E u2, v2, g2 : /\ Field(fly', r, f[r].next, u2, v2, k + 1, m - 1, g2, 1, 0)
                             /\ u2[1] = r
      BY <2>4, <2>5, <2>6, <2>14, CreateField
    <2>8. PICK u2, v2, g2 : /\ Field(fly', r, f[r].next, u2, v2, k + 1, m - 1, g2, 1, 0)
                            /\ u2[1] = r
      BY <2>7
    <2>9. free' # NULL /\ Pooled'.f = fly' /\ Pooled'.free = free' /\ free' \in Ptr
          /\ head' \in Ptr /\ it' = head'
      BY <2>2, <2>7 DEF Pooled, Fly, Ptr, NULL
    <2>10. letter_pressed' \in [Key -> BOOLEAN]
      BY <1>2, <2>2 DEF LTypes
    <2>11. LTypes'
      BY <1>2, <2>7, <2>9, <2>10 DEF LTypes, clock
    <2>12. Playing(u2, v2, k + 1, m - 1, g2, 1)'
      BY <2>2, <2>3, <2>8, <2>9 DEF Playing
    <2>13. k + 1 \in Nat /\ m - 1 \in Nat /\ 1 \in Nat /\ 1 \in 1 .. k + 1 + 1
      BY <2>4
    <2> QED
      BY <2>11, <2>12, <2>13 DEF LInv
  <1> QED
    BY <1>4, <1>5

LEMMA LettersMove == ASSUME LInv, move_letter PROVE LInv'
  <1> USE DEF move_letter
  <1>0. PICK k \in Nat, m \in Nat, e \in Nat :
           \E u, v, g : e \in 1 .. k + 1 /\ Playing(u, v, k, m, g, e)
    BY DEF LInv
  <1>1. PICK u, v, g : e \in 1 .. k + 1 /\ Playing(u, v, k, m, g, e)
    BY <1>0
  <1>2. LTypes
    BY DEF LInv, LTypes
  <1>3. Field(Pooled.f, head, Pooled.free, u, v, k, m, g, e, Youngest) /\ u[e] = it
    BY <1>1 DEF Playing
  <1>4. e \in 1 .. k /\ free # NULL
    <2>1. e # k + 1
      BY <1>3 DEF Field, Parted, Walks
    <2> QED
      BY <1>1, <1>2, <1>3, <2>1, LettersAre
  <1>5. Pooled.f = fly /\ Pooled.free = free
    BY <1>4 DEF Pooled
  <1>6. Field(fly, head, free, u, v, k, m, g, e, Youngest)
    BY <1>3, <1>5
  <1>7. u[e] \in Fly /\ fly[u[e]].next = u[e + 1] /\ fly[u[e]] \in Cell
    BY <1>2, <1>4, <1>6 DEF Field, Parted, Walks, LTypes
  <1>8. fly[u[e]].next \in Ptr /\ Youngest' = Youngest /\ Youngest \in Nat
    BY <1>2, <1>7, GameAssumption DEF Cell, Youngest, clock, LTypes
  <1> DEFINE x == fly[it].x + fly[it].v
  <1>9. CASE OffScreen(x)
    <2>1. /\ fly' = Removed(u[e]) /\ free' = u[e]
          /\ head' = IF u[e] = head THEN fly[u[e]].next ELSE head
          /\ it' = fly[u[e]].next
      BY <1>3, <1>9
    <2>2. /\ fly' \in [Fly -> Cell]
          /\ \E u2, v2, g2 :
                /\ Field(fly', head', free', u2, v2, k - 1, m + 1, g2, e, Youngest)
                /\ u2[e] = it'
      BY <1>2, <1>4, <1>6, <1>8, <2>1, RemoveField DEF LTypes
    <2>3. PICK u2, v2, g2 :
                /\ Field(fly', head', free', u2, v2, k - 1, m + 1, g2, e, Youngest)
                /\ u2[e] = it'
      BY <2>2
    <2>4. free' # NULL /\ Pooled'.f = fly' /\ Pooled'.free = free' /\ free' \in Ptr
          /\ head' \in Ptr /\ it' \in Ptr
      BY <1>2, <1>7, <1>8, <2>1 DEF Pooled, Fly, Ptr, NULL, LTypes
    <2>5. LTypes'
      BY <1>2, <2>2, <2>4 DEF LTypes, clock
    <2>6. Playing(u2, v2, k - 1, m + 1, g2, e)'
      BY <1>8, <2>3, <2>4 DEF Playing
    <2>7. k - 1 \in Nat /\ m + 1 \in Nat /\ e \in 1 .. k - 1 + 1
      BY <1>4
    <2> QED
      BY <2>5, <2>6, <2>7 DEF LInv
  <1>10. CASE ~OffScreen(x)
    <2>1. /\ fly' = [fly EXCEPT ![u[e]].x = x] /\ free' = free /\ head' = head
          /\ it' = fly[u[e]].next /\ x = fly[u[e]].x + fly[u[e]].v
      BY <1>3, <1>10
    <2> HIDE DEF x
    <2>2. fly' \in [Fly -> Cell] /\ Field(fly', head, free, u, v, k, m, g, e + 1, Youngest)
      BY <1>2, <1>4, <1>6, <1>10, <2>1, MoveField DEF LTypes
    <2>3. Pooled'.f = fly' /\ Pooled'.free = free
      BY <1>4, <2>1 DEF Pooled
    <2>4. LTypes'
      BY <1>2, <1>4, <1>8, <2>1, <2>2 DEF LTypes, clock
    <2>5. Playing(u, v, k, m, g, e + 1)'
      BY <1>7, <1>8, <2>1, <2>2, <2>3 DEF Playing
    <2>6. e + 1 \in Nat /\ e + 1 \in 1 .. k + 1
      BY <1>4
    <2> QED
      BY <2>4, <2>5, <2>6 DEF LInv
  <1> QED
    BY <1>9, <1>10

LEMMA LettersDone == ASSUME LInv, end_tick PROVE LInv'
  <1> USE DEF end_tick
  <1>0. PICK k \in Nat, m \in Nat, e \in Nat :
           \E u, v, g : e \in 1 .. k + 1 /\ Playing(u, v, k, m, g, e)
    BY DEF LInv
  <1>1. PICK u, v, g : e \in 1 .. k + 1 /\ Playing(u, v, k, m, g, e)
    BY <1>0
  <1>2. LTypes
    BY DEF LInv
  <1>3. Field(Pooled.f, head, Pooled.free, u, v, k, m, g, e, phase) /\ u[e] = NULL
    BY <1>1 DEF Playing, Youngest
  <1>4. e = k + 1
    <2>1. \A i \in 1 .. k : u[i] # NULL
      BY <1>3 DEF Field, Parted, Walks, Fly, NULL
    <2> QED
      BY <1>1, <1>3, <2>1
  <1>5. phase \in 0 .. NewEvery - 1
    BY <1>2 DEF LTypes
  <1>6. PICK g2 : Field(Pooled.f, head, Pooled.free, u, v, k, m, g2, 1,
                        IF phase' = 0 THEN NewEvery ELSE phase')
    BY <1>3, <1>4, <1>5, TickField
  <1>7. Youngest' = IF phase' = 0 THEN NewEvery ELSE phase'
    BY DEF Youngest
  <1>8. Pooled' = Pooled /\ head' = head
    BY DEF Pooled, letters
  <1>9. phase' \in 0 .. NewEvery - 1
    BY <1>5, GameAssumption
  <1>10. LTypes'
    BY <1>2, <1>9, GameAssumption DEF LTypes, letters
  <1>11. Playing(u, v, k, m, g2, 1)'
    BY <1>6, <1>7, <1>8 DEF Playing
  <1> QED
    BY <1>1, <1>10, <1>11 DEF LInv

(* A list has at most as many nodes as the pool, so a tick is counted.     *)
LEMMA TimesNat == ASSUME NEW r, NEW irq PROVE Times(r, irq) \in Nat
  <1>1. DOMAIN Called(irq) \in SUBSET (1 .. NR_IRQ_HANDLE)
    BY DEF Called, Nodes, Follow
  <1> DEFINE S == {i \in DOMAIN Called(irq) : Called(irq)[i] = r}
  <1>2. S \in SUBSET (1 .. NR_IRQ_HANDLE)
    BY <1>1
  <1>3. IsFiniteSet(1 .. NR_IRQ_HANDLE)
    BY FS_Interval, HandlerAssumption
  <1> HIDE DEF S
  <1>4. IsFiniteSet(S)
    BY <1>2, <1>3, FS_Subset
  <1>5. Cardinality(S) \in Nat
    BY <1>4, FS_CardinalityType
  <1> QED
    BY <1>5 DEF Times, S

LEMMA LettersNext == ASSUME LInv, [Next]_vars PROVE LInv'
  <1>0. LTypes
    BY DEF LInv
  <1>1. CASE UNCHANGED vars
    <2>1. LTypes'
      BY <1>0, <1>1 DEF LTypes, vars, letters, clock
    <2> QED
      BY <1>1, <2>1, LettersKeep DEF vars, letters, clock
  <1>2. CASE register
    <2>1. UNCHANGED <<letters, letter_pressed, clock, it>> /\ pc = "init"
          /\ pc' \in {"init", "wait"}
      BY <1>2 DEF register
    <2>2. IF_' \in BOOLEAN
      <3>1. CASE take_node /\ IF_' = ~Adds[handle_count + 1].masked
        BY <3>1
      <3>2. CASE IF_' = (IF link = 2 THEN TRUE ELSE IF_) \/ IF_' = IF_
        BY <1>0, <3>2 DEF LTypes
      <3> QED
        BY <1>2, <3>1, <3>2 DEF register
    <2>3. LTypes'
      BY <1>0, <2>1, <2>2 DEF LTypes, letters, clock
    <2> QED
      BY <2>1, <2>3, LettersKeep DEF letters, clock
  <1>3. CASE check_tick
    <2>1. LTypes'
      BY <1>0, <1>3 DEF check_tick, LTypes, letters
    <2> QED
      BY <1>3, <2>1, LettersKeep DEF check_tick, letters
  <1>4. CASE caught_up
    <2>1. LTypes'
      BY <1>0, <1>4 DEF caught_up, LTypes, letters, clock
    <2> QED
      BY <1>4, <2>1, LettersKeep DEF caught_up, letters, clock
  <1>5. CASE timer_intr
    <2>1. lag' \in 0 .. MaxLag /\ lag' >= lag
      BY <1>0, <1>5, TimesNat, GameAssumption DEF timer_intr, LTypes
    <2>2. LTypes'
      BY <1>0, <1>5, <2>1, GameAssumption DEF timer_intr, Wake, LTypes, letters
    <2> QED
      BY <1>5, <2>2, LettersKeep DEF timer_intr, Wake, letters
  <1>6. ASSUME NEW k \in Key, keyboard_intr(k) PROVE LInv'
    <2>1. letter_pressed' \in [Key -> BOOLEAN]
      BY <1>0, <1>6 DEF keyboard_intr, LTypes
    <2>2. LTypes'
      BY <1>0, <1>6, <2>1 DEF keyboard_intr, Wake, LTypes, letters, clock
    <2> QED
      BY <1>6, <2>2, LettersKeep DEF keyboard_intr, Wake, letters, clock
  <1> QED
    BY <1>1, <1>2, <1>3, <1>4, <1>5, <1>6, LettersHit, LettersTick, LettersMove, LettersDone
       DEF Next, Game

THEOREM LettersInvariance == Spec => []LInv
  BY LettersInit, LettersNext, PTL DEF Spec

(* The types of the handlers, the letters on the list and the game's       *)
(* clock: the loop never falls behind itself, todo =< lag (main.c, game.c, *)
(* effect.c).                                                              *)
THEOREM TypeCorrect == Spec => []TypeOK
  <1>1. HInv /\ LInv => TypeOK
    <2> SUFFICES ASSUME HInv, LInv PROVE TypeOK
      OBVIOUS
    <2>0. PICK k \in Nat, m \in Nat, e \in Nat :
             \E u, v, g : e \in 1 .. k + 1 /\ Playing(u, v, k, m, g, e)
      BY DEF LInv
    <2>1. PICK u, v, g : e \in 1 .. k + 1 /\ Playing(u, v, k, m, g, e)
      BY <2>0
    <2>2. LTypes /\ Field(Pooled.f, head, Pooled.free, u, v, k, m, g, e, Youngest)
      BY <2>1 DEF LInv, Playing
    <2>3. /\ Letters = [i \in 1 .. k |-> u[i]]
          /\ free = NULL => k = 0
          /\ free # NULL => Pooled = [f |-> fly, free |-> free]
      BY <2>2, LettersAre
    <2>4. ASSUME NEW n \in Range(Letters) PROVE fly[n] \in Letter
      <3>1. PICK i \in 1 .. k : n = u[i]
        BY <2>3 DEF Range
      <3>2. Pooled.f = fly
        BY <2>3, <3>1
      <3> QED
        BY <2>2, <3>1, <3>2 DEF Field, Alive
    <2>5. handle_count \in 0 .. NR_IRQ_HANDLE
      BY HandlerAssumption DEF HInv
    <2> QED
      BY <2>2, <2>4, <2>5 DEF TypeOK, LTypes, HInv, Ptr
  <1> QED
    BY <1>1, HandlersInvariance, LettersInvariance, PTL

(* fly_new, fly_remove and fly_free keep the pool in two lists without a   *)
(* node lost or shared, and prev the inverse of next (linklist.h).         *)
THEOREM ListsPartAlways == Spec => []ListsPart
  <1>1. LInv => ListsPart
    <2> SUFFICES ASSUME LInv, free # NULL
                 PROVE  LET used == Letters
                            idle == ChainOf(fly, free)
                        IN  /\ IsInjective(used \o idle)
                            /\ Range(used \o idle) = Fly
                            /\ \A i \in DOMAIN used :
                                  fly[used[i]].prev = IF i = 1 THEN NULL ELSE used[i - 1]
      BY DEF ListsPart
    <2>0. PICK k \in Nat, m \in Nat, e \in Nat :
             \E u, v, g : e \in 1 .. k + 1 /\ Playing(u, v, k, m, g, e)
      BY DEF LInv
    <2>1. PICK u, v, g : e \in 1 .. k + 1 /\ Playing(u, v, k, m, g, e)
      BY <2>0
    <2>2. LTypes /\ Field(Pooled.f, head, Pooled.free, u, v, k, m, g, e, Youngest)
      BY <2>1 DEF LInv, Playing
    <2> DEFINE used == Letters
               idle == ChainOf(fly, free)
               all  == used \o idle
    <2>3. /\ used = [i \in 1 .. k |-> u[i]] /\ idle = [i \in 1 .. m |-> v[i]]
          /\ Pooled.f = fly
      BY <2>2, LettersAre
    <2> HIDE DEF used, idle
    <2>4. /\ \A i \in 1 .. k : u[i] \in Fly
          /\ \A i, j \in 1 .. k : u[i] = u[j] => i = j
          /\ \A i \in 1 .. m : v[i] \in Fly
          /\ \A i, j \in 1 .. m : v[i] = v[j] => i = j
          /\ \A i \in 1 .. k, j \in 1 .. m : u[i] # v[j]
          /\ \A n \in Fly : \/ \E i \in 1 .. k : u[i] = n
                            \/ \E i \in 1 .. m : v[i] = n
          /\ \A i \in 1 .. k : fly[u[i]].prev = IF i = 1 THEN NULL ELSE u[i - 1]
      BY <2>2, <2>3 DEF Field, Parted, Walks, Once, Alive
    <2>5. /\ used \in Seq(Fly) /\ Len(used) = k /\ \A i \in 1 .. k : used[i] = u[i]
          /\ idle \in Seq(Fly) /\ Len(idle) = m /\ \A i \in 1 .. m : idle[i] = v[i]
      BY <2>3, <2>4, SMTT(30)
    <2>6. /\ DOMAIN all = 1 .. k + m
          /\ \A i \in 1 .. k + m : all[i] = IF i =< k THEN u[i] ELSE v[i - k]
      BY <2>5
    <2> HIDE DEF all
    <2>7. ASSUME NEW i \in 1 .. k + m, NEW j \in 1 .. k + m, all[i] = all[j] PROVE i = j
      <3>1. \A l \in 1 .. k + m : l > k => l - k \in 1 .. m
        OBVIOUS
      <3>2. CASE i =< k /\ j =< k
        BY <2>4, <2>6, <2>7, <3>2
      <3>3. CASE i > k /\ j > k
        <4>1. i - k = j - k
          BY <2>4, <2>6, <2>7, <3>1, <3>3
        <4> QED
          BY <4>1
      <3>4. CASE i =< k /\ j > k
        <4>1. i \in 1 .. k /\ j - k \in 1 .. m /\ u[i] = v[j - k]
          BY <2>6, <2>7, <3>4
        <4> QED
          BY <2>4, <4>1
      <3>5. CASE i > k /\ j =< k
        <4>1. j \in 1 .. k /\ i - k \in 1 .. m /\ u[j] = v[i - k]
          BY <2>6, <2>7, <3>5
        <4> QED
          BY <2>4, <4>1
      <3> QED
        BY <3>2, <3>3, <3>4, <3>5
    <2>8. IsInjective(all)
      BY <2>6, <2>7 DEF IsInjective
    <2>9. ASSUME NEW n \in Fly PROVE \E i \in 1 .. k + m : all[i] = n
      <3>1. CASE \E i \in 1 .. k : u[i] = n
        BY <2>6, <3>1
      <3>2. CASE \E i \in 1 .. m : v[i] = n
        <4>1. PICK i \in 1 .. m : v[i] = n
          BY <3>2
        <4>2. i + k \in 1 .. k + m /\ ~(i + k =< k) /\ i + k - k = i
          OBVIOUS
        <4>3. all[i + k] = n
          BY <2>6, <4>1, <4>2
        <4> QED
          BY <4>2, <4>3
      <3> QED
        BY <2>4, <3>1, <3>2
    <2>10. ASSUME NEW i \in 1 .. k + m PROVE all[i] \in Fly
      BY <2>4, <2>6
    <2>11. Range(all) = Fly
      BY <2>6, <2>9, <2>10 DEF Range
    <2>12. \A i \in DOMAIN used : fly[used[i]].prev = IF i = 1 THEN NULL ELSE used[i - 1]
      BY <2>3, <2>4
    <2> QED
      BY <2>8, <2>11, <2>12 DEF all, used, idle
  <1> QED
    BY <1>1, LettersInvariance, PTL

(* The assertion of fly_new: with more ticks' worth of nodes than the      *)
(* longest life, no birth finds the pool empty (linklist.h, effect.c).     *)
THEOREM PoolSufficesAlways == Spec => []PoolSuffices
  <1>1. LInv => PoolSuffices
    <2> SUFFICES ASSUME LInv, pc = "ticks", Creates PROVE CanNew
      BY DEF PoolSuffices
    <2>0. PICK k \in Nat, m \in Nat, e \in Nat :
             \E u, v, g : e \in 1 .. k + 1 /\ Playing(u, v, k, m, g, e)
      BY DEF LInv
    <2>1. PICK u, v, g : e \in 1 .. k + 1 /\ Playing(u, v, k, m, g, e)
      BY <2>0
    <2>2. Field(Pooled.f, head, Pooled.free, u, v, k, m, g, 1, NewEvery)
      BY <2>1 DEF Playing, Youngest, Creates
    <2>3. m > 1
      BY <2>2, Ample
    <2>4. /\ v[1] = Pooled.free /\ Pooled.f[v[1]].next = v[1 + 1] /\ v[1 + 1] \in Fly
      <3>1. 1 \in 1 .. m /\ 1 + 1 \in 1 .. m
        BY <2>3
      <3> QED
        BY <2>2, <3>1 DEF Field, Parted, Walks
    <2> QED
      BY <2>4 DEF CanNew, Fly, NULL
  <1> QED
    BY <1>1, LettersInvariance, PTL
=============================================================================
