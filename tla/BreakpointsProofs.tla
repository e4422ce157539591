------------------------- MODULE BreakpointsProofs -------------------------
(***************************************************************************)
(* Proofs about Breakpoints for every pool, program and address: the types *)
(* and the opcodes that may be found in memory and in the nodes; then the  *)
(* two lists, which part the pool whatever the commands, and the           *)
(* watchpoints, none of which the loop of exec passes over.                *)
(***************************************************************************)
EXTENDS Breakpoints, WellFoundedInduction, TLAPS

(* Every node that holds a breakpoint, listed or free, names an address    *)
(* and an opcode that address may hold; so a node's stale fields are safe. *)
NodeOK(l, p) == l[p].type = "B" =>
    /\ l[p].what \in Addr
    /\ l[p].ori_byte \in {Code[l[p].what], INT3}

Patched(m) == \A a \in Addr : m[a] \in {Code[a], INT3}

IInv == TypeOK /\ Patched(mem) /\ \A p \in NO : NodeOK(bp_list, p)

(* The addresses next to an address, on the ring.                          *)
LEMMA Ring ==
    ASSUME NEW a \in Addr
    PROVE  (a + 1) % NAddr \in Addr /\ (a - 1) % NAddr \in Addr
  BY PoolAssumption DEF Addr

(* init_bp_list makes free nodes of any nodes.                             *)
LEMMA FreshNodes ==
    ASSUME NEW l \in [NO -> Node], \A p \in NO : NodeOK(l, p)
    PROVE  init_bp_list(l) \in [NO -> Node] /\ \A p \in NO : NodeOK(init_bp_list(l), p)
  <1>1. \A p \in NO : (IF p = NR_BP - 1 THEN NULL ELSE p + 1) \in Ptr
    BY PoolAssumption DEF Ptr, NULL, NO
  <1>2. ASSUME NEW p \in NO
        PROVE  init_bp_list(l)[p] \in Node /\ NodeOK(init_bp_list(l), p)
    <2>1. init_bp_list(l)[p] = [l[p] EXCEPT !.in_use = FALSE,
                                 !.next = IF p = NR_BP - 1 THEN NULL ELSE p + 1]
      BY DEF init_bp_list
    <2> DEFINE q == IF p = NR_BP - 1 THEN NULL ELSE p + 1
    <2>2. q \in Ptr
      BY <1>1
    <2>3. init_bp_list(l)[p] = [l[p] EXCEPT !.in_use = FALSE, !.next = q]
      BY <2>1
    <2> HIDE DEF q
    <2>4. l[p] \in Node /\ NodeOK(l, p)
      OBVIOUS
    <2> QED
      BY <2>2, <2>3, <2>4 DEF Node, NodeOK
  <1>3. init_bp_list(l) = [p \in NO |-> init_bp_list(l)[p]]
    BY DEF init_bp_list
  <1> QED
    BY <1>2, <1>3

(* A node that is freed keeps what it held.                                *)
LEMMA FreedNodes ==
    ASSUME NEW l \in [NO -> Node], \A q \in NO : NodeOK(l, q),
           NEW p \in NO, NEW r \in Ptr
    PROVE  Freed(l, p, r) \in [NO -> Node] /\ \A q \in NO : NodeOK(Freed(l, p, r), q)
  <1>1. [l[p] EXCEPT !.in_use = FALSE, !.next = r] \in Node
    BY DEF Node
  <1>2. Freed(l, p, r) = [l EXCEPT ![p] = [l[p] EXCEPT !.in_use = FALSE, !.next = r]]
    BY DEF Freed
  <1>3. Freed(l, p, r) \in [NO -> Node]
    BY <1>1, <1>2
  <1>4. \A q \in NO : NodeOK(Freed(l, p, r), q)
    BY <1>2 DEF Node, NodeOK
  <1> QED
    BY <1>3, <1>4

(* Init: no point is set and memory is the program.                        *)
LEMMA InitInv == Init => IInv
  <1> SUFFICES ASSUME Init PROVE IInv
    OBVIOUS
  <1> USE DEF Init
  <1>1. 0 \in Addr /\ 0 \in NO
    BY PoolAssumption DEF Addr, NO
  <1>2. Code[0] \in Opcode \union {INT3}
    BY <1>1, CodeAssumption
  <1>3. bp_list \in [NO -> Node] /\ \A p \in NO : NodeOK(bp_list, p)
    <2>1. Static \in [NO -> Node] /\ \A p \in NO : NodeOK(Static, p)
      BY <1>1, <1>2 DEF Static, Node, NodeOK, Ptr
    <2> QED
      BY <2>1, FreshNodes
  <1>4. TypeOK
    <2>1. n \in 0 .. MaxSteps \union {Forever}
      BY StepsAssumption
    <2> QED
      BY <1>1, <1>3, <2>1, CodeAssumption DEF TypeOK, Ptr, Val
  <1> QED
    BY <1>3, <1>4 DEF IInv, Patched

(* The commands that change the lists.                                     *)
LEMMA PointsInv == ASSUME IInv, 
                          \/ \E a \in Addr : set_breakpoint(a)
                          \/ set_watchpoint
                          \/ \E p \in NO : delete_breakpoint(p)
                          \/ delete_all_breakpoint
                   PROVE  IInv'
  <1> USE DEF IInv, TypeOK, run, Patched
  <1>1. ASSUME NEW a \in Addr, set_breakpoint(a) PROVE IInv'
    <2> USE <1>1 DEF set_breakpoint, Link
    <2>1. free_ \in NO
      BY DEF Ptr
    <2>2. mem[a] \in Opcode \union {INT3} /\ mem[a] \in {Code[a], INT3}
      OBVIOUS
    <2>3. bp_list' \in [NO -> Node]
      <3> DEFINE f == [bp_list[free_] EXCEPT !.type = "B", !.what = a, !.ori_byte = mem[a]]
      <3>1. f \in Node
        BY <2>1, <2>2 DEF Node
      <3>2. bp_list' = [bp_list EXCEPT ![free_] = [f EXCEPT !.in_use = TRUE, !.next = head]]
        OBVIOUS
      <3> HIDE DEF f
      <3>3. [f EXCEPT !.in_use = TRUE, !.next = head] \in Node
        BY <3>1 DEF Node
      <3> QED
        BY <3>2, <3>3
    <2>4. ASSUME NEW p \in NO PROVE NodeOK(bp_list', p)
      <3>1. CASE p = free_
        <4>1. /\ bp_list'[p].what = a
              /\ bp_list'[p].ori_byte = mem[a]
          BY <2>1, <3>1 DEF Node
        <4> QED
          BY <4>1, <2>2 DEF NodeOK
      <3>2. CASE p # free_
        BY <2>1, <3>2 DEF NodeOK
      <3> QED
        BY <3>1, <3>2
    <2>5. bp_list[free_].next \in Ptr
      BY <2>1 DEF Node
    <2> QED
      BY <2>1, <2>3, <2>4, <2>5 DEF Ptr
  <1>2. ASSUME set_watchpoint PROVE IInv'
    <2> USE <1>2 DEF set_watchpoint, Link
    <2>1. free_ \in NO
      BY DEF Ptr
    <2>2. bp_list' \in [NO -> Node]
      <3> DEFINE f == [bp_list[free_] EXCEPT !.type = "W", !.what = val]
      <3>1. f \in Node
        BY <2>1 DEF Node
      <3>2. bp_list' = [bp_list EXCEPT ![free_] = [f EXCEPT !.in_use = TRUE, !.next = head]]
        OBVIOUS
      <3> HIDE DEF f
      <3>3. [f EXCEPT !.in_use = TRUE, !.next = head] \in Node
        BY <3>1 DEF Node
      <3> QED
        BY <3>2, <3>3
    <2>3. \A p \in NO : NodeOK(bp_list', p)
      BY <2>1 DEF NodeOK, Node
    <2>4. bp_list[free_].next \in Ptr
      BY <2>1 DEF Node
    <2> QED
      BY <2>1, <2>2, <2>3, <2>4 DEF Ptr
  <1>3. ASSUME NEW p \in NO, delete_breakpoint(p) PROVE IInv'
    <2> USE <1>3 DEF delete_breakpoint
    <2>1. bp_list[p].next \in Ptr
      BY DEF Node
    <2> DEFINE unlinked == [q \in NO |-> IF q \in Before(Chain(head), p)
                                         THEN [bp_list[q] EXCEPT !.next = bp_list[p].next]
                                         ELSE bp_list[q]]
    <2>2. unlinked \in [NO -> Node] /\ \A q \in NO : NodeOK(unlinked, q)
      BY <2>1 DEF Node, NodeOK
    <2>3. bp_list' = Freed(unlinked, p, free_)
      OBVIOUS
    <2> HIDE DEF unlinked
    <2>4. free_ \in Ptr /\ p \in NO
      OBVIOUS
    <2>5. /\ Freed(unlinked, p, free_) \in [NO -> Node]
          /\ \A q \in NO : NodeOK(Freed(unlinked, p, free_), q)
      BY ONLY <2>2, <2>4, FreedNodes
    <2>6. bp_list' \in [NO -> Node] /\ \A q \in NO : NodeOK(bp_list', q)
      BY <2>3, <2>5
    <2> QED
      BY <2>1, <2>6 DEF Ptr
  <1>4. ASSUME delete_all_breakpoint PROVE IInv'
    <2> USE <1>4 DEF delete_all_breakpoint
    <2>1. ASSUME NEW p \in NO PROVE bp_list'[p] \in Node /\ NodeOK(bp_list', p)
      <3> DEFINE last == IF bp_list[p].next = NULL THEN free_ ELSE bp_list[p].next
      <3>1. bp_list[p] \in Node /\ NodeOK(bp_list, p)
        OBVIOUS
      <3>2. last \in Ptr
        BY <3>1 DEF Node
      <3>3. CASE p \in Listed
        <4>1. bp_list'[p] = [bp_list[p] EXCEPT !.in_use = FALSE, !.next = last]
          BY <3>3
        <4> HIDE DEF last
        <4> QED
          BY <3>1, <3>2, <4>1 DEF Node, NodeOK
      <3>4. CASE p \notin Listed
        BY <3>1, <3>4 DEF NodeOK
      <3> QED
        BY <3>3, <3>4
    <2>2. bp_list' = [p \in NO |-> bp_list'[p]]
      OBVIOUS
    <2>3. bp_list' \in [NO -> Node]
      BY <2>1, <2>2
    <2> QED
      BY <2>1, <2>3 DEF Ptr
  <1> QED
    BY <1>1, <1>2, <1>3, <1>4

(* The steps of exec.                                                      *)
LEMMA ExecInv == ASSUME IInv, ExecInst PROVE IInv'
  <1> USE DEF IInv, TypeOK, ExecInst
  <1>1. mem' \in [Addr -> Opcode \union {INT3}] /\ Patched(mem')
    BY DEF Patched, resume_breakpoints
  <1>2. bp_list' \in [NO -> Node] /\ \A p \in NO : NodeOK(bp_list', p)
    <2>1. CASE hit_break_rerun
      <3>1. ASSUME NEW p \in NO, IsBreak(p)
            PROVE  Saved(p) \in {Code[bp_list[p].what], INT3} /\ Saved(p) \in Opcode \union {INT3}
        BY <3>1 DEF Saved, NodeOK, IsBreak, Patched
      <3> QED
        BY <2>1, <3>1 DEF resume_breakpoints, Node, NodeOK, IsBreak
    <2>2. CASE ~hit_break_rerun
      BY <2>2
    <2> QED
      BY <2>1, <2>2
  <1>3. eip' \in Addr /\ val' \in Val
    BY Ring
  <1>4. n' \in 0 .. MaxSteps \union {Forever} 
    BY StepsAssumption DEF Forever
  <1> QED
    BY <1>1, <1>2, <1>3, <1>4

LEMMA PostInv == ASSUME IInv, PostInst PROVE IInv'
  <1> USE DEF IInv, TypeOK, PostInst
  <1> DEFINE a == (eip - 1) % NAddr
  <1>1. a \in Addr
    BY Ring
  <1>2. \A S : FirstOf(S) \subseteq S
    BY DEF FirstOf
  <1>3. eip' \in Addr
    BY <1>1
  <1>4. mem' \in [Addr -> Opcode \union {INT3}] /\ Patched(mem')
    <2>1. CASE mem' = mem
      BY <2>1
    <2>2. CASE \E p \in find_breakpoint(a) : mem' = [mem EXCEPT ![a] = bp_list[p].ori_byte]
      <3>1. PICK p \in find_breakpoint(a) : mem' = [mem EXCEPT ![a] = bp_list[p].ori_byte]
        BY <2>2
      <3>2. p \in NO /\ IsBreak(p) /\ bp_list[p].what = a
        BY <1>2 DEF find_breakpoint, BreaksAt
      <3>3. bp_list[p].ori_byte \in {Code[a], INT3} /\ bp_list[p].ori_byte \in Opcode \union {INT3}
        BY <3>2 DEF NodeOK, IsBreak, Node
      <3> QED
        BY <3>1, <3>3, <1>1 DEF Patched
    <2> QED
      BY <2>1, <2>2
  <1>5. bp_list' \in [NO -> Node] /\ \A p \in NO : NodeOK(bp_list', p)
    <2>1. \A p \in scan_watchpoint : ~IsBreak(p)
      BY <1>2 DEF scan_watchpoint, Changed
    <2> QED
      BY <2>1 DEF Node, NodeOK, IsBreak
  <1> QED
    BY <1>3, <1>4, <1>5

(* Steps that leave memory and the nodes alone, and the fresh machine.     *)
LEMMA OtherInv == ASSUME IInv,
                         \/ \E steps \in 1 .. MaxSteps \union {Forever} : Enter(steps)
                         \/ LoopTest \/ LeaveExec \/ Quit \/ restart
                  PROVE  IInv'
  <1> USE DEF IInv, TypeOK
  <1>1. ASSUME NEW steps \in 1 .. MaxSteps \union {Forever}, Enter(steps) PROVE IInv'
    BY <1>1, StepsAssumption DEF Enter, list
  <1>2. ASSUME LoopTest \/ LeaveExec \/ Quit PROVE IInv'
    BY <1>2 DEF LoopTest, LeaveExec, Quit, list, run
  <1>3. ASSUME restart PROVE IInv'
    <2>1. 0 \in Addr /\ 0 \in NO
      BY PoolAssumption DEF Addr, NO
    <2>2. bp_list' \in [NO -> Node] /\ \A p \in NO : NodeOK(bp_list', p)
      BY <1>3, FreshNodes DEF restart
    <2> QED
      BY <1>3, <2>1, <2>2, CodeAssumption DEF restart, Ptr, NULL, Val, Patched, run
  <1> QED
    BY <1>1, <1>2, <1>3

(* The invariant holds throughout.                                         *)
THEOREM Invariance == Spec => []IInv
  <1>1. IInv /\ [Next]_vars => IInv'
    <2> SUFFICES ASSUME IInv, [Next]_vars PROVE IInv'
      OBVIOUS
    <2>1. CASE UNCHANGED vars
      BY <2>1 DEF vars, list, run, IInv, TypeOK, Patched, NodeOK
    <2> QED
      BY <2>1, PointsInv, ExecInv, PostInv, OtherInv DEF Next
  <1> QED
    BY <1>1, InitInv, PTL DEF Spec

(* The state keeps its types.                                              *)
THEOREM TypeCorrect == Spec => []TypeOK
  <1>1. IInv => TypeOK
    BY DEF IInv
  <1> QED
    BY <1>1, Invariance, PTL

(* However points are set, hit, armed again and deleted, an address holds  *)
(* its own opcode or INT3, and no breakpoint saves anything else for it.   *)
THEOREM PatchedAlways == Spec => []PatchedOnly
  <1>1. IInv => PatchedOnly
    BY DEF IInv, PatchedOnly, Patched, NodeOK, IsBreak
  <1> QED
    BY <1>1, Invariance, PTL

----------------------------------------------------------------------------
(* Following a list, whatever its length.                                  *)

(* w is the way through a list of k nodes from p: they are the first k of  *)
(* w, each points to the one after it, and nil ends it.                    *)
Way(nxt, nil, p, w, k) ==
    /\ w[1] = p /\ w[k + 1] = nil
    /\ \A i \in 1 .. k : w[i] # nil /\ nxt[w[i]] = w[i + 1]

(* A set of numbers that is not empty has a least element.                 *)
LEMMA LeastElement ==
    ASSUME NEW S \in SUBSET Nat, S # {}
    PROVE  \E m \in S : \A i \in S : m =< i
  <1> DEFINE R == {ss \in Nat \X Nat : ss[1] < ss[2]}
  <1>1. IsWellFoundedOn(R, Nat)
    BY NatLessThanWellFounded, Zenon DEF OpToRel
  <1> HIDE DEF R
  <1>2. PICK m \in S : \A i \in S : <<i, m>> \notin R
    BY <1>1, WFMin
  <1>3. \A i \in S : ~(i < m)
    BY <1>2 DEF R
  <1> QED
    BY <1>3

(* Follow visits the nodes of a list that ends, in their order.  Its       *)
(* recursive function can only be w and then nil: the least place where it *)
(* were not would follow one where it is.                                  *)
LEMMA FollowWay ==
    ASSUME NEW P, NEW nil \in P, NEW nxt \in [P -> P], nxt[nil] = nil,
           NEW p \in P, NEW most \in Nat, NEW k \in 0 .. most,
           NEW w, Way(nxt, nil, p, w, k)
    PROVE  Follow(nxt, nil, p, most) = [i \in 1 .. k |-> w[i]]
  <1> DEFINE v == [i \in 1 .. most |-> IF i =< k THEN w[i] ELSE nil]
             at == CHOOSE at : at = [i \in 1 .. most |-> IF i = 1 THEN p ELSE nxt[at[i - 1]]]
             D == {i \in 1 .. most : at[i] # v[i]}
  <1>1. Follow(nxt, nil, p, most) = [i \in {j \in 1 .. most : at[j] # nil} |-> at[i]]
    BY DEF Follow
  <1>2. \A i \in 1 .. most : v[i] = IF i = 1 THEN p ELSE nxt[v[i - 1]]
    <2> TAKE i \in 1 .. most
    <2>1. i - 1 \in 1 .. k => nxt[w[i - 1]] = w[i]
      BY DEF Way
    <2> QED
      BY <2>1 DEF Way
  <1>3. v = [i \in 1 .. most |-> IF i = 1 THEN p ELSE nxt[v[i - 1]]]
    BY <1>2
  <1> HIDE DEF v
  <1>4. at = [i \in 1 .. most |-> IF i = 1 THEN p ELSE nxt[at[i - 1]]]
    BY <1>3
  <1> HIDE DEF at
  <1>5. \A i \in 1 .. most : at[i] = IF i = 1 THEN p ELSE nxt[at[i - 1]]
    BY <1>4
  <1>6. D = {}
    <2> SUFFICES ASSUME D # {} PROVE FALSE
      OBVIOUS
    <2>0. D \in SUBSET Nat
      OBVIOUS
    <2>1. PICK d \in D : \A i \in D : d =< i
      <3> HIDE DEF D
      <3> QED
        BY <2>0, LeastElement
    <2>2. d # 1 => at[d - 1] = v[d - 1]
      BY <2>1
    <2>3. d \in 1 .. most /\ at[d] # v[d]
      BY <2>1
    <2>4. at[d] = v[d]
      BY <1>2, <1>5, <2>2, <2>3
    <2> QED
      BY <2>3, <2>4
  <1>7. \A i \in 1 .. most : at[i] = IF i =< k THEN w[i] ELSE nil
    <2>1. \A i \in 1 .. most : at[i] = v[i]
      BY <1>6
    <2> QED
      BY <2>1 DEF v
  <1>8. {j \in 1 .. most : at[j] # nil} = 1 .. k
    BY <1>7 DEF Way
  <1> QED
    BY <1>1, <1>7, <1>8

----------------------------------------------------------------------------
(* The lists.  Thread: u goes through a list of k nodes from h, to NULL.   *)
Thread(l, h, u, k) ==
    /\ u \in [1 .. k + 1 -> Ptr]
    /\ u[1] = h /\ u[k + 1] = NULL
    /\ \A i \in 1 .. k : u[i] \in NO /\ l[u[i]].next = u[i + 1]

Once(u, k) == \A i, j \in 1 .. k : u[i] = u[j] => i = j

(* The k nodes set and the m free ones are the pool, and in_use tells them *)
(* apart.                                                                  *)
Parted(l, h, f, u, v, k, m) ==
    /\ k + m = NR_BP
    /\ Thread(l, h, u, k) /\ Thread(l, f, v, m)
    /\ Once(u, k) /\ Once(v, m)
    /\ \A i \in 1 .. k : l[u[i]].in_use
    /\ \A i \in 1 .. m : ~l[v[i]].in_use
    /\ \A p \in NO : \/ \E i \in 1 .. k : u[i] = p
                     \/ \E i \in 1 .. m : v[i] = p

PInv == \E k, m \in Nat : \E u, v : Parted(bp_list, head, free_, u, v, k, m)

(* What Chain finds.                                                       *)
LEMMA ChainIs ==
    ASSUME TypeOK, NEW p \in Ptr, NEW k \in 0 .. NR_BP, NEW u, Thread(bp_list, p, u, k)
    PROVE  Chain(p) = [i \in 1 .. k |-> u[i]]
  <1>1. NULL \in Ptr /\ NULL \notin NO /\ NR_BP \in Nat
    BY PoolAssumption DEF Ptr, NULL, NO
  <1>2. next \in [Ptr -> Ptr] /\ next[NULL] = NULL
    BY <1>1 DEF next, TypeOK, Ptr, Node
  <1>3. Way(next, NULL, p, u, k)
    <2>1. \A i \in 1 .. k : u[i] # NULL /\ next[u[i]] = u[i + 1]
      BY <1>1 DEF Thread, next, Ptr
    <2> QED
      BY <2>1 DEF Thread, Way
  <1> QED
    BY <1>1, <1>2, <1>3, FollowWay DEF Chain

LEMMA PartedIs ==
    ASSUME TypeOK, NEW k \in Nat, NEW m \in Nat, NEW u, NEW v,
           Parted(bp_list, head, free_, u, v, k, m)
    PROVE  /\ Chain(head) = [i \in 1 .. k |-> u[i]]
           /\ Chain(free_) = [i \in 1 .. m |-> v[i]]
           /\ Listed = {u[i] : i \in 1 .. k}
  <1>1. k \in 0 .. NR_BP /\ m \in 0 .. NR_BP
    BY PoolAssumption DEF Parted
  <1>2. head \in Ptr /\ free_ \in Ptr
    BY DEF TypeOK
  <1>3. Chain(head) = [i \in 1 .. k |-> u[i]] /\ Chain(free_) = [i \in 1 .. m |-> v[i]]
    BY <1>1, <1>2, ChainIs DEF Parted
  <1> QED
    BY <1>3 DEF Listed, Elems

(* The lists of a machine that starts.                                     *)
LEMMA FreshLists ==
    ASSUME NEW l \in [NO -> Node]
    PROVE  \E k, m \in Nat : \E u, v : Parted(init_bp_list(l), NULL, 0, u, v, k, m)
  <1> DEFINE u == [i \in 1 .. 1 |-> NULL]
             v == [i \in 1 .. NR_BP + 1 |-> IF i = NR_BP + 1 THEN NULL ELSE i - 1]
             L == init_bp_list(l)
  <1>1. \A p \in NO : L[p].next = (IF p = NR_BP - 1 THEN NULL ELSE p + 1) /\ ~L[p].in_use
    BY DEF init_bp_list, Node
  <1> HIDE DEF L
  <1>2. Thread(L, NULL, u, 0)
    BY DEF Thread, Ptr
  <1>3. Thread(L, 0, v, NR_BP)
    <2>1. v \in [1 .. NR_BP + 1 -> Ptr]
      BY PoolAssumption DEF Ptr, NO
    <2>2. v[1] = 0 /\ v[NR_BP + 1] = NULL
      BY PoolAssumption
    <2>3. \A i \in 1 .. NR_BP : v[i] \in NO /\ L[v[i]].next = v[i + 1]
      BY <1>1, PoolAssumption DEF NO
    <2> QED
      BY <2>1, <2>2, <2>3 DEF Thread
  <1>4. Once(u, 0) /\ Once(v, NR_BP)
    BY PoolAssumption DEF Once
  <1>5. \A i \in 1 .. NR_BP : ~L[v[i]].in_use
    BY <1>1, PoolAssumption DEF NO
  <1>6. ASSUME NEW p \in NO PROVE \E i \in 1 .. NR_BP : v[i] = p
    <2>1. p + 1 \in 1 .. NR_BP /\ v[p + 1] = p
      BY PoolAssumption DEF NO
    <2> QED
      BY <2>1
  <1>7. 0 + NR_BP = NR_BP
    BY PoolAssumption
  <1> HIDE DEF u, v
  <1>8. Parted(L, NULL, 0, u, v, 0, NR_BP)
    BY <1>2, <1>3, <1>4, <1>5, <1>6, <1>7 DEF Parted
  <1> QED
    BY <1>8, PoolAssumption DEF L

(* A new point: the first free node becomes the first of the list.         *)
LEMMA LinkLists ==
    ASSUME IInv, PInv, NEW f \in Node, Link(f)
    PROVE  PInv'
  <1>0. PICK k \in Nat, m \in Nat : \E u, v : Parted(bp_list, head, free_, u, v, k, m)
    BY DEF PInv
  <1>1. PICK u, v : Parted(bp_list, head, free_, u, v, k, m)
    BY <1>0
  <1> DEFINE a == [i \in 1 .. k + 2 |-> IF i = 1 THEN free_ ELSE u[i - 1]]
             b == [i \in 1 .. m |-> v[i + 1]]
  <1>2. /\ bp_list \in [NO -> Node] /\ head \in Ptr /\ free_ \in Ptr /\ free_ # NULL
        /\ free_ \in NO
    BY DEF IInv, TypeOK, Link, Ptr
  <1>3. m # 0 /\ v[1] = free_
    BY <1>1, <1>2 DEF Parted, Thread
  <1>4. /\ bp_list'[free_].next = head /\ bp_list'[free_].in_use
        /\ \A p \in NO \ {free_} : bp_list'[p] = bp_list[p]
        /\ head' = free_ /\ free_' = v[2]
    <2>1. bp_list' = [bp_list EXCEPT ![free_] = [f EXCEPT !.in_use = TRUE, !.next = head]]
      BY DEF Link
    <2>2. bp_list'[free_] = [f EXCEPT !.in_use = TRUE, !.next = head]
      BY <1>2, <2>1
    <2>3. bp_list[free_].next = v[2]
      BY <1>1, <1>3 DEF Parted, Thread
    <2> QED
      BY <1>2, <2>1, <2>2, <2>3 DEF Link, Node
  <1>5. \A i \in 1 .. k : u[i] # free_
    BY <1>1, <1>3 DEF Parted
  <1>6. \A i \in 2 .. m : v[i] # free_
    BY <1>1, <1>3 DEF Parted, Once
  <1>7. Thread(bp_list', head', a, k + 1)
    <2>1. a \in [1 .. k + 1 + 1 -> Ptr]
      BY <1>1, <1>2 DEF Parted, Thread
    <2>2. a[1] = head' /\ a[k + 1 + 1] = NULL
      BY <1>1, <1>4 DEF Parted, Thread
    <2>3. ASSUME NEW i \in 1 .. k + 1 PROVE a[i] \in NO /\ bp_list'[a[i]].next = a[i + 1]
      BY <1>1, <1>2, <1>4, <1>5 DEF Parted, Thread
    <2> HIDE DEF a
    <2> QED
      BY <2>1, <2>2, <2>3 DEF Thread
  <1>8. Thread(bp_list', free_', b, m - 1)
    <2>1. b \in [1 .. m - 1 + 1 -> Ptr] /\ b[1] = free_' /\ b[m - 1 + 1] = NULL
      BY <1>1, <1>3, <1>4 DEF Parted, Thread
    <2>2. ASSUME NEW i \in 1 .. m - 1 PROVE b[i] \in NO /\ bp_list'[b[i]].next = b[i + 1]
      BY <1>1, <1>4, <1>6 DEF Parted, Thread
    <2> HIDE DEF b
    <2> QED
      BY <2>1, <2>2 DEF Thread
  <1>9. Once(a, k + 1) /\ Once(b, m - 1)
    <2>1. ASSUME NEW i \in 1 .. k + 1, NEW j \in 1 .. k + 1, a[i] = a[j] PROVE i = j
      <3>1. CASE i = 1 \/ j = 1
        BY <1>5, <2>1, <3>1
      <3>2. CASE i # 1 /\ j # 1
        <4>1. i - 1 \in 1 .. k /\ j - 1 \in 1 .. k /\ u[i - 1] = u[j - 1]
          BY <2>1, <3>2
        <4> QED
          BY <1>1, <4>1 DEF Parted, Once
      <3> QED
        BY <3>1, <3>2
    <2>2. ASSUME NEW i \in 1 .. m - 1, NEW j \in 1 .. m - 1, b[i] = b[j] PROVE i = j
      <3>1. i + 1 \in 1 .. m /\ j + 1 \in 1 .. m /\ v[i + 1] = v[j + 1]
        BY <2>2
      <3> QED
        BY <1>1, <3>1 DEF Parted, Once
    <2> HIDE DEF a, b
    <2> QED
      BY <2>1, <2>2 DEF Once
  <1>10. /\ \A i \in 1 .. k + 1 : bp_list'[a[i]].in_use
         /\ \A i \in 1 .. m - 1 : ~bp_list'[b[i]].in_use
    <2>1. ASSUME NEW i \in 1 .. k + 1 PROVE bp_list'[a[i]].in_use
      <3>1. CASE i = 1
        BY <1>4, <3>1
      <3>2. CASE i # 1
        <4>1. i - 1 \in 1 .. k /\ a[i] = u[i - 1]
          BY <3>2
        <4>2. u[i - 1] \in NO \ {free_} /\ bp_list[u[i - 1]].in_use
          BY <1>1, <1>5, <4>1 DEF Parted, Thread
        <4> QED
          BY <1>4, <4>1, <4>2
      <3> QED
        BY <3>1, <3>2
    <2>2. ASSUME NEW i \in 1 .. m - 1 PROVE ~bp_list'[b[i]].in_use
      <3>1. i + 1 \in 2 .. m /\ b[i] = v[i + 1]
        OBVIOUS
      <3>2. v[i + 1] \in NO \ {free_} /\ ~bp_list[v[i + 1]].in_use
        BY <1>1, <1>6, <3>1 DEF Parted, Thread
      <3> QED
        BY <1>4, <3>1, <3>2
    <2> QED
      BY <2>1, <2>2
  <1>11. ASSUME NEW p \in NO
         PROVE  \/ \E i \in 1 .. k + 1 : a[i] = p
                \/ \E i \in 1 .. m - 1 : b[i] = p
    <2>1. CASE p = free_
      <3>1. 1 \in 1 .. k + 1 /\ a[1] = p
        BY <2>1
      <3> QED
        BY <3>1
    <2>2. ASSUME NEW i \in 1 .. k, u[i] = p PROVE \E j \in 1 .. k + 1 : a[j] = p
      <3>1. i + 1 \in 1 .. k + 1 /\ a[i + 1] = p
        BY <2>2
      <3> QED
        BY <3>1
    <2>3. ASSUME NEW i \in 1 .. m, v[i] = p, p # free_ PROVE \E j \in 1 .. m - 1 : b[j] = p
      <3>1. i - 1 \in 1 .. m - 1 /\ b[i - 1] = p
        BY <2>3, <1>3
      <3> QED
        BY <3>1
    <2> HIDE DEF a, b
    <2> QED
      BY <2>1, <2>2, <2>3, <1>1 DEF Parted
  <1>12. k + 1 \in Nat /\ m - 1 \in Nat /\ (k + 1) + (m - 1) = NR_BP
    BY <1>1, <1>3 DEF Parted
  <1> HIDE DEF a, b
  <1>13. Parted(bp_list', head', free_', a, b, k + 1, m - 1)
    BY <1>7, <1>8, <1>9, <1>10, <1>11, <1>12 DEF Parted
  <1> QED
    BY <1>12, <1>13 DEF PInv

(* A point deleted: it leaves the list and becomes the first free node.    *)
LEMMA DeleteLists ==
    ASSUME IInv, PInv, NEW p \in NO, delete_breakpoint(p)
    PROVE  PInv'
  <1>0. PICK k \in Nat, m \in Nat : \E u, v : Parted(bp_list, head, free_, u, v, k, m)
    BY DEF PInv
  <1>1. PICK u, v : Parted(bp_list, head, free_, u, v, k, m)
    BY <1>0
  <1>2. Chain(head) = [i \in 1 .. k |-> u[i]] /\ Listed = {u[i] : i \in 1 .. k}
    BY <1>1, PartedIs DEF IInv
  <1>3. PICK d \in 1 .. k : u[d] = p
    BY <1>2 DEF delete_breakpoint
  <1> DEFINE a == [i \in 1 .. k |-> IF i < d THEN u[i] ELSE u[i + 1]]
             b == [i \in 1 .. m + 2 |-> IF i = 1 THEN p ELSE v[i - 1]]
  <1>4. Before(Chain(head), p) = {u[i] : i \in {j \in 1 .. k : j = d - 1}}
    <2>1. Len(Chain(head)) = k
      BY <1>2
    <2>2. \A j \in 1 .. k - 1 : u[j + 1] = p <=> j = d - 1
      BY <1>1, <1>3 DEF Parted, Once
    <2> QED
      BY <1>2, <2>1, <2>2, SMTT(30) DEF Before
  <1>5. bp_list \in [NO -> Node] /\ head \in Ptr /\ free_ \in Ptr /\ NULL \notin NO
    BY PoolAssumption DEF IInv, TypeOK, NULL, NO
  <1>6. /\ bp_list'[p].next = free_ /\ ~bp_list'[p].in_use
        /\ \A q \in NO : q # p => bp_list'[q].in_use = bp_list[q].in_use
        /\ \A q \in NO : q # p =>
              bp_list'[q].next = IF d > 1 /\ q = u[d - 1] THEN u[d + 1] ELSE bp_list[q].next
    <2> DEFINE before == Before(Chain(head), p)
               unlinked == [q \in NO |-> IF q \in before
                                         THEN [bp_list[q] EXCEPT !.next = bp_list[p].next]
                                         ELSE bp_list[q]]
    <2>1. bp_list' = [unlinked EXCEPT ![p] = [unlinked[p] EXCEPT !.in_use = FALSE, !.next = free_]]
      BY DEF delete_breakpoint, Freed
    <2>2. bp_list[p].next = u[d + 1]
      BY <1>1, <1>3 DEF Parted, Thread
    <2>3. \A q : q \in before <=> d > 1 /\ q = u[d - 1]
      BY <1>4
    <2> HIDE DEF before
    <2>4. \A q \in NO : unlinked[q] = IF d > 1 /\ q = u[d - 1]
                                      THEN [bp_list[q] EXCEPT !.next = u[d + 1]] ELSE bp_list[q]
      BY <2>2, <2>3
    <2>5. u[d + 1] \in Ptr
      BY <1>1 DEF Parted, Thread
    <2>6. unlinked \in [NO -> Node]
      BY <1>5, <2>4, <2>5 DEF Node
    <2> HIDE DEF unlinked
    <2>7. bp_list'[p] = [unlinked[p] EXCEPT !.in_use = FALSE, !.next = free_]
      BY <2>1, <2>6
    <2>8. \A q \in NO : q # p => bp_list'[q] = unlinked[q]
      BY <2>1, <2>6
    <2>9. bp_list'[p].next = free_ /\ ~bp_list'[p].in_use
      BY <2>6, <2>7 DEF Node
    <2>10. \A q \in NO : /\ unlinked[q].in_use = bp_list[q].in_use
                         /\ unlinked[q].next = IF d > 1 /\ q = u[d - 1] THEN u[d + 1]
                                               ELSE bp_list[q].next
      BY <1>5, <2>4 DEF Node
    <2> QED
      BY <2>8, <2>9, <2>10
  <1>7. head' = (IF d = 1 THEN u[2] ELSE head) /\ free_' = p
    <2>1. head = p <=> d = 1
      BY <1>1, <1>3 DEF Parted, Thread, Once
    <2>2. bp_list[p].next = u[d + 1]
      BY <1>1, <1>3 DEF Parted, Thread
    <2> QED
      BY <2>1, <2>2 DEF delete_breakpoint
  <1>8. /\ \A i \in 1 .. k : i # d => u[i] # p
        /\ \A i \in 1 .. m : v[i] # p
    BY <1>1, <1>3 DEF Parted, Once
  <1>9. Thread(bp_list', head', a, k - 1)
    <2>1. a \in [1 .. k - 1 + 1 -> Ptr]
      BY <1>1 DEF Parted, Thread
    <2>2. a[1] = head' /\ a[k - 1 + 1] = NULL
      BY <1>1, <1>7 DEF Parted, Thread
    <2>3. ASSUME NEW i \in 1 .. k - 1 PROVE a[i] \in NO /\ bp_list'[a[i]].next = a[i + 1]
      <3> DEFINE j == IF i < d THEN i ELSE i + 1
      <3>1. j \in 1 .. k /\ j # d /\ a[i] = u[j]
        OBVIOUS
      <3>2. u[j] \in NO /\ u[j] # p /\ bp_list[u[j]].next = u[j + 1]
        BY <1>1, <1>8, <3>1 DEF Parted, Thread
      <3>3. bp_list'[u[j]].next = IF d > 1 /\ u[j] = u[d - 1] THEN u[d + 1] ELSE u[j + 1]
        BY <1>6, <3>2
      <3>4. d > 1 => (u[j] = u[d - 1] <=> j = d - 1)
        BY <1>1, <3>1 DEF Parted, Once
      <3>5. a[i + 1] = IF i + 1 < d THEN u[i + 1] ELSE u[i + 2]
        OBVIOUS
      <3> QED
        BY <3>1, <3>2, <3>3, <3>4, <3>5
    <2> HIDE DEF a
    <2> QED
      BY <2>1, <2>2, <2>3 DEF Thread
  <1>10. Thread(bp_list', free_', b, m + 1)
    <2>1. b \in [1 .. m + 1 + 1 -> Ptr] /\ b[1] = free_' /\ b[m + 1 + 1] = NULL
      BY <1>1, <1>7 DEF Parted, Thread, Ptr
    <2>2. \A i \in 1 .. m : bp_list'[v[i]].next = bp_list[v[i]].next
      <3>1. \A i \in 1 .. m : d > 1 => v[i] # u[d - 1]
        BY <1>1 DEF Parted
      <3> QED
        BY <1>1, <1>6, <1>8, <3>1 DEF Parted, Thread
    <2>3. ASSUME NEW i \in 1 .. m + 1 PROVE b[i] \in NO /\ bp_list'[b[i]].next = b[i + 1]
      BY <1>1, <1>6, <2>2 DEF Parted, Thread
    <2> HIDE DEF b
    <2> QED
      BY <2>1, <2>3 DEF Thread
  <1>11. Once(a, k - 1) /\ Once(b, m + 1)
    <2>1. Once(a, k - 1)
      BY <1>1 DEF Parted, Once
    <2>2. Once(b, m + 1)
      BY <1>1, <1>8 DEF Parted, Once
    <2> QED
      BY <2>1, <2>2
  <1>12. /\ \A i \in 1 .. k - 1 : bp_list'[a[i]].in_use
         /\ \A i \in 1 .. m + 1 : ~bp_list'[b[i]].in_use
    <2>1. ASSUME NEW i \in 1 .. k - 1 PROVE bp_list'[a[i]].in_use
      <3> DEFINE j == IF i < d THEN i ELSE i + 1
      <3>1. j \in 1 .. k /\ j # d /\ a[i] = u[j]
        OBVIOUS
      <3> HIDE DEF j
      <3>2. u[j] \in NO /\ u[j] # p /\ bp_list[u[j]].in_use
        BY <1>1, <1>8, <3>1 DEF Parted, Thread
      <3> QED
        BY <1>6, <3>1, <3>2
    <2>2. ASSUME NEW i \in 1 .. m + 1 PROVE ~bp_list'[b[i]].in_use
      <3>1. CASE i = 1
        BY <1>6, <3>1
      <3>2. CASE i # 1
        <4>1. i - 1 \in 1 .. m /\ b[i] = v[i - 1]
          BY <3>2
        <4>2. v[i - 1] \in NO /\ v[i - 1] # p /\ ~bp_list[v[i - 1]].in_use
          BY <1>1, <1>8, <4>1 DEF Parted, Thread
        <4> QED
          BY <1>6, <4>1, <4>2
      <3> QED
        BY <3>1, <3>2
    <2> QED
      BY <2>1, <2>2
  <1>13. ASSUME NEW q \in NO
         PROVE  \/ \E i \in 1 .. k - 1 : a[i] = q
                \/ \E i \in 1 .. m + 1 : b[i] = q
    <2>1. CASE q = p
      <3>1. 1 \in 1 .. m + 1 /\ b[1] = q
        BY <2>1
      <3> QED
        BY <3>1
    <2>2. ASSUME NEW i \in 1 .. k, u[i] = q, q # p PROVE \E j \in 1 .. k - 1 : a[j] = q
      <3> DEFINE j == IF i < d THEN i ELSE i - 1
      <3>1. j \in 1 .. k - 1 /\ a[j] = q
        BY <1>3, <2>2
      <3> QED
        BY <3>1
    <2>3. ASSUME NEW i \in 1 .. m, v[i] = q PROVE \E j \in 1 .. m + 1 : b[j] = q
      <3>1. i + 1 \in 1 .. m + 1 /\ b[i + 1] = q
        BY <2>3
      <3> QED
        BY <3>1
    <2> HIDE DEF a, b
    <2> QED
      BY <2>1, <2>2, <2>3, <1>1 DEF Parted
  <1>14. k - 1 \in Nat /\ m + 1 \in Nat /\ (k - 1) + (m + 1) = NR_BP
    BY <1>1 DEF Parted
  <1> HIDE DEF a, b
  <1>15. Parted(bp_list', head', free_', a, b, k - 1, m + 1)
    BY <1>9, <1>10, <1>11, <1>12, <1>13, <1>14 DEF Parted
  <1> QED
    BY <1>14, <1>15 DEF PInv

(* Every point deleted: the list comes before the nodes that were free.    *)
LEMMA DeleteAllLists ==
    ASSUME IInv, PInv, delete_all_breakpoint
    PROVE  PInv'
  <1>0. PICK k \in Nat, m \in Nat : \E u, v : Parted(bp_list, head, free_, u, v, k, m)
    BY DEF PInv
  <1>1. PICK u, v : Parted(bp_list, head, free_, u, v, k, m)
    BY <1>0
  <1>2. Listed = {u[i] : i \in 1 .. k}
    BY <1>1, PartedIs DEF IInv
  <1> DEFINE a == [i \in 1 .. 1 |-> NULL]
             b == [i \in 1 .. k + m + 1 |-> IF i =< k THEN u[i] ELSE v[i - k]]
  <1>3. bp_list \in [NO -> Node] /\ NULL \notin NO
    BY PoolAssumption DEF IInv, TypeOK, NULL, NO
  <1>4. /\ head' = NULL /\ free_' = IF k = 0 THEN v[1] ELSE u[1]
        /\ \A i \in 1 .. k : /\ bp_list'[u[i]].next = IF i = k THEN v[1] ELSE u[i + 1]
                             /\ ~bp_list'[u[i]].in_use
        /\ \A i \in 1 .. m : bp_list'[v[i]] = bp_list[v[i]]
    <2>1. head = u[1] /\ free_ = v[1] /\ (head = NULL <=> k = 0)
      BY <1>1, <1>3 DEF Parted, Thread
    <2>2. ASSUME NEW i \in 1 .. k
          PROVE  /\ bp_list'[u[i]].next = IF i = k THEN v[1] ELSE u[i + 1]
                 /\ ~bp_list'[u[i]].in_use
      <3>1. u[i] \in NO /\ u[i] \in Listed /\ bp_list[u[i]].next = u[i + 1]
        BY <1>1, <1>2 DEF Parted, Thread
      <3>2. u[i + 1] = NULL <=> i = k
        BY <1>1, <1>3 DEF Parted, Thread
      <3>3. bp_list'[u[i]] = [bp_list[u[i]] EXCEPT !.in_use = FALSE,
                                 !.next = IF i = k THEN v[1] ELSE u[i + 1]]
        BY <2>1, <3>1, <3>2 DEF delete_all_breakpoint
      <3> QED
        BY <1>3, <3>1, <3>3 DEF Node
    <2>3. ASSUME NEW i \in 1 .. m PROVE bp_list'[v[i]] = bp_list[v[i]]
      <3>1. v[i] \in NO /\ v[i] \notin Listed
        BY <1>1, <1>2 DEF Parted, Thread
      <3> QED
        BY <3>1 DEF delete_all_breakpoint
    <2>4. head' = NULL /\ free_' = IF head = NULL THEN free_ ELSE head
      BY DEF delete_all_breakpoint
    <2> QED
      BY <2>1, <2>2, <2>3, <2>4
  <1>5. Thread(bp_list', head', a, 0)
    BY <1>4 DEF Thread, Ptr
  <1>6. \A i \in 1 .. k + m : \/ i \in 1 .. k /\ b[i] = u[i]
                              \/ i - k \in 1 .. m /\ b[i] = v[i - k]
    OBVIOUS
  <1>7. Thread(bp_list', free_', b, k + m)
    <2>1. b \in [1 .. k + m + 1 -> Ptr]
      BY <1>1 DEF Parted, Thread
    <2>2. b[1] = free_' /\ b[k + m + 1] = NULL
      BY <1>1, <1>4 DEF Parted, Thread
    <2>3. ASSUME NEW i \in 1 .. k + m PROVE b[i] \in NO /\ bp_list'[b[i]].next = b[i + 1]
      <3>1. CASE i \in 1 .. k
        <4>1. b[i] = u[i] /\ u[i] \in NO
          BY <1>1, <3>1 DEF Parted, Thread
        <4>2. b[i + 1] = IF i = k THEN v[1] ELSE u[i + 1]
          BY <3>1
        <4> QED
          BY <1>4, <3>1, <4>1, <4>2
      <3>2. CASE i - k \in 1 .. m
        <4>1. b[i] = v[i - k] /\ b[i + 1] = v[(i - k) + 1]
          BY <3>2
        <4>2. v[i - k] \in NO /\ bp_list[v[i - k]].next = v[(i - k) + 1]
          BY <1>1, <3>2 DEF Parted, Thread
        <4> QED
          BY <1>4, <3>2, <4>1, <4>2
      <3> QED
        BY <3>1, <3>2
    <2> HIDE DEF b
    <2> QED
      BY <2>1, <2>2, <2>3 DEF Thread
  <1>8. Once(a, 0) /\ Once(b, k + m)
    <2>1. ASSUME NEW i \in 1 .. k + m, NEW j \in 1 .. k + m, b[i] = b[j] PROVE i = j
      <3>1. \A g \in 1 .. k, h \in 1 .. m : u[g] # v[h]
        BY <1>1 DEF Parted
      <3>2. \/ i \in 1 .. k /\ j \in 1 .. k /\ u[i] = u[j]
            \/ i - k \in 1 .. m /\ j - k \in 1 .. m /\ v[i - k] = v[j - k]
        BY <1>6, <2>1, <3>1
      <3>3. i - k = j - k => i = j
        OBVIOUS
      <3> HIDE DEF b
      <3> QED
        BY <1>1, <3>2, <3>3 DEF Parted, Once
    <2> HIDE DEF b
    <2> QED
      BY <2>1 DEF Once
  <1>9. \A i \in 1 .. k + m : ~bp_list'[b[i]].in_use
    BY <1>1, <1>4, <1>6 DEF Parted
  <1>10. ASSUME NEW q \in NO PROVE \E i \in 1 .. k + m : b[i] = q
    <2>1. ASSUME NEW i \in 1 .. k, u[i] = q PROVE \E j \in 1 .. k + m : b[j] = q
      <3>1. i \in 1 .. k + m /\ b[i] = q
        BY <2>1
      <3> QED
        BY <3>1
    <2>2. ASSUME NEW i \in 1 .. m, v[i] = q PROVE \E j \in 1 .. k + m : b[j] = q
      <3>1. k + i \in 1 .. k + m /\ b[k + i] = q
        BY <2>2
      <3> QED
        BY <3>1
    <2> HIDE DEF b
    <2> QED
      BY <1>1, <2>1, <2>2 DEF Parted
  <1>11. k + m \in Nat /\ 0 + (k + m) = NR_BP
    BY <1>1 DEF Parted
  <1> HIDE DEF a, b
  <1>12. Parted(bp_list', head', free_', a, b, 0, k + m)
    BY <1>5, <1>7, <1>8, <1>9, <1>10, <1>11 DEF Parted
  <1> QED
    BY <1>11, <1>12 DEF PInv

(* The steps that leave the links alone.                                   *)
LEMMA SameLinks ==
    ASSUME PInv, UNCHANGED <<head, free_>>,
           \A p \in NO : /\ bp_list'[p].next = bp_list[p].next
                         /\ bp_list'[p].in_use = bp_list[p].in_use
    PROVE  PInv'
  <1>0. PICK k \in Nat, m \in Nat : \E u, v : Parted(bp_list, head, free_, u, v, k, m)
    BY DEF PInv
  <1>1. PICK u, v : Parted(bp_list, head, free_, u, v, k, m)
    BY <1>0
  <1>2. Thread(bp_list', head', u, k) /\ Thread(bp_list', free_', v, m)
    BY <1>1 DEF Parted, Thread
  <1>3. /\ \A i \in 1 .. k : bp_list'[u[i]].in_use
        /\ \A i \in 1 .. m : ~bp_list'[v[i]].in_use
    BY <1>1 DEF Parted, Thread
  <1>4. Parted(bp_list', head', free_', u, v, k, m)
    BY <1>1, <1>2, <1>3 DEF Parted
  <1> QED
    BY <1>4 DEF PInv

LEMMA ListsNext == ASSUME IInv, PInv, [Next]_vars PROVE PInv'
  <1> USE DEF IInv, TypeOK
  <1>1. ASSUME NEW a \in Addr, set_breakpoint(a) PROVE PInv'
    <2> DEFINE f == [bp_list[free_] EXCEPT !.type = "B", !.what = a, !.ori_byte = mem[a]]
    <2>1. free_ \in NO /\ mem[a] \in Opcode \union {INT3}
      BY <1>1 DEF set_breakpoint, Link, Ptr
    <2>2. f \in Node
      BY <2>1 DEF Node
    <2>3. Link(f)
      BY <1>1 DEF set_breakpoint
    <2> HIDE DEF f
    <2> QED
      BY <2>2, <2>3, LinkLists
  <1>2. ASSUME set_watchpoint PROVE PInv'
    <2> DEFINE f == [bp_list[free_] EXCEPT !.type = "W", !.what = val]
    <2>1. free_ \in NO
      BY <1>2 DEF set_watchpoint, Link, Ptr
    <2>2. f \in Node
      BY <2>1 DEF Node
    <2>3. Link(f)
      BY <1>2 DEF set_watchpoint
    <2> HIDE DEF f
    <2> QED
      BY <2>2, <2>3, LinkLists
  <1>3. ASSUME ExecInst \/ PostInst PROVE PInv'
    <2>1. UNCHANGED <<head, free_>>
      BY <1>3 DEF ExecInst, PostInst
    <2>2. ASSUME NEW p \in NO
          PROVE  /\ bp_list'[p].next = bp_list[p].next
                 /\ bp_list'[p].in_use = bp_list[p].in_use
      <3>1. \/ bp_list'[p] = bp_list[p]
            \/ \E x : bp_list'[p] = [bp_list[p] EXCEPT !.ori_byte = x]
            \/ \E x : bp_list'[p] = [bp_list[p] EXCEPT !.what = x]
        <4>1. CASE PostInst
          <5>1. bp_list'[p] = IF p \in scan_watchpoint THEN [bp_list[p] EXCEPT !.what = val]
                              ELSE bp_list[p]
            BY <4>1 DEF PostInst
          <5> QED
            BY <5>1, Zenon
        <4>2. CASE ExecInst /\ hit_break_rerun
          <5>1. bp_list'[p] = IF p \in Listed /\ IsBreak(p)
                              THEN [bp_list[p] EXCEPT !.ori_byte = Saved(p)]
                              ELSE bp_list[p]
            BY <4>2 DEF ExecInst, resume_breakpoints
          <5> QED
            BY <5>1, Zenon
        <4>3. CASE ExecInst /\ ~hit_break_rerun
          BY <4>3 DEF ExecInst
        <4> QED
          BY <1>3, <4>1, <4>2, <4>3
      <3> QED
        BY <3>1 DEF Node
    <2> QED
      BY <2>1, <2>2, SameLinks
  <1>4. ASSUME \/ \E steps \in 1 .. MaxSteps \union {Forever} : Enter(steps)
               \/ LoopTest \/ LeaveExec \/ Quit \/ UNCHANGED vars
        PROVE  PInv'
    <2>1. UNCHANGED list
      BY <1>4 DEF Enter, LoopTest, LeaveExec, Quit, vars
    <2> QED
      BY <2>1, SameLinks DEF list
  <1>5. ASSUME restart PROVE PInv'
    <2>1. bp_list' = init_bp_list(bp_list) /\ head' = NULL /\ free_' = 0
      BY <1>5 DEF restart
    <2> QED
      BY <2>1, FreshLists DEF PInv
  <1> QED
    BY <1>1, <1>2, <1>3, <1>4, <1>5, DeleteLists, DeleteAllLists DEF Next

(* The lists are linked as they should, whatever the commands.             *)
THEOREM ListsInvariance == Spec => [](IInv /\ PInv)
  <1>1. Init => IInv /\ PInv
    <2> SUFFICES ASSUME Init PROVE PInv
      BY InitInv
    <2>1. 0 \in Addr /\ 0 \in NO /\ Code[0] \in Opcode \union {INT3}
      BY PoolAssumption, CodeAssumption DEF Addr, NO
    <2>2. Static \in [NO -> Node]
      BY <2>1 DEF Static, Node, Ptr
    <2>3. bp_list = init_bp_list(Static) /\ head = NULL /\ free_ = 0
      BY DEF Init
    <2> QED
      BY <2>2, <2>3, FreshLists DEF PInv
  <1>2. (IInv /\ PInv) /\ IInv' /\ [Next]_vars => (IInv /\ PInv)'
    BY ListsNext
  <1> QED
    BY <1>1, <1>2, Invariance, PTL DEF Spec

(* After any order of b, w, d and d all, and on a fresh machine, every     *)
(* node is in one of the two lists, once, and in_use says in which.        *)
THEOREM PartitionAlways == Spec => []PoolPartition
  <1>1. IInv /\ PInv => PoolPartition
    <2> SUFFICES ASSUME IInv, PInv PROVE PoolPartition
      OBVIOUS
    <2>0. PICK k \in Nat, m \in Nat : \E u, v : Parted(bp_list, head, free_, u, v, k, m)
      BY DEF PInv
    <2>1. PICK u, v : Parted(bp_list, head, free_, u, v, k, m)
      BY <2>0
    <2> DEFINE used == Chain(head)
               free == Chain(free_)
    <2>2. used = [i \in 1 .. k |-> u[i]] /\ free = [i \in 1 .. m |-> v[i]]
      BY <2>1, PartedIs DEF IInv
    <2> HIDE DEF used, free
    <2>3. Len(used) = k /\ Len(free) = m
      BY <2>2
    <2>4. Elems(used) = {u[i] : i \in 1 .. k} /\ Elems(free) = {v[i] : i \in 1 .. m}
      BY <2>2 DEF Elems
    <2>5. Elems(used) \union Elems(free) = NO
      BY <2>1, <2>4 DEF Parted, Thread
    <2>6. Elems(used) = {p \in NO : bp_list[p].in_use}
      BY <2>1, <2>4 DEF Parted, Thread
    <2> QED
      BY <2>1, <2>3, <2>5, <2>6 DEF PoolPartition, Parted, used, free
  <1> QED
    BY <1>1, ListsInvariance, PTL

(* What comes first in the list is there, if anything is.                  *)
LEMMA FirstThere ==
    ASSUME IInv, PInv, NEW S \in SUBSET Listed, FirstOf(S) = {}
    PROVE  S = {}
  <1>0. PICK k \in Nat, m \in Nat : \E u, v : Parted(bp_list, head, free_, u, v, k, m)
    BY DEF PInv
  <1>1. PICK u, v : Parted(bp_list, head, free_, u, v, k, m)
    BY <1>0
  <1>2. Chain(head) = [i \in 1 .. k |-> u[i]] /\ Listed = {u[i] : i \in 1 .. k}
    BY <1>1, PartedIs DEF IInv
  <1> DEFINE T == {i \in 1 .. k : u[i] \in S}
  <1> SUFFICES ASSUME S # {} PROVE FALSE
    OBVIOUS
  <1>3. T \in SUBSET Nat /\ T # {}
    BY <1>2
  <1>4. PICK i \in T : \A j \in T : i =< j
    BY ONLY <1>3, LeastElement
  <1>5. \A j \in 1 .. i - 1 : u[j] \notin S
    BY <1>4
  <1> DEFINE s == Chain(head)
  <1>6. i \in DOMAIN s /\ s[i] \in S /\ \A j \in 1 .. i - 1 : s[j] \notin S
    BY <1>2, <1>4, <1>5
  <1>7. FirstOf(S) = {s[j] : j \in {j \in DOMAIN s : s[j] \in S /\ \A g \in 1 .. j - 1 : s[g] \notin S}}
    BY DEF FirstOf
  <1> HIDE DEF s, T
  <1>8. s[i] \in FirstOf(S)
    BY <1>6, <1>7
  <1> QED
    BY <1>8

(* Between two instructions of one exec every watchpoint set has the value *)
(* of now: the loop goes on only if the scan found no difference.          *)
THEOREM WatchAlways == Spec => WatchNoMiss
  <1>1. IInv /\ PInv /\ [Next]_vars =>
           [ph = "post" /\ ph' = "test" =>
               \A p \in Listed : IsBreak(p) \/ bp_list[p].what = val]_vars
    <2> SUFFICES ASSUME IInv, PInv, Next, ph = "post", ph' = "test",
                        NEW p \in Listed, ~IsBreak(p)
                 PROVE  bp_list[p].what = val
      OBVIOUS
    <2>1. PostInst
      BY DEF Next, set_breakpoint, set_watchpoint, delete_breakpoint, delete_all_breakpoint,
             AtPrompt, Enter, LoopTest, ExecInst, LeaveExec, Quit, restart, run
    <2>2. scan_watchpoint = {}
      BY <2>1 DEF PostInst
    <2>3. Changed \in SUBSET Listed
      BY DEF Changed
    <2>4. Changed = {}
      BY <2>2, <2>3, FirstThere DEF scan_watchpoint
    <2>5. p \in NO
      <3>0. PICK k \in Nat, m \in Nat : \E u, v : Parted(bp_list, head, free_, u, v, k, m)
        BY DEF PInv
      <3>1. PICK u, v : Parted(bp_list, head, free_, u, v, k, m)
        BY <3>0
      <3>2. Listed = {u[i] : i \in 1 .. k}
        BY <3>1, PartedIs DEF IInv
      <3> QED
        BY <3>1, <3>2 DEF Parted, Thread
    <2> QED
      BY <2>4, <2>5 DEF Changed
  <1> QED
    BY <1>1, ListsInvariance, PTL DEF Spec, WatchNoMiss
=============================================================================
