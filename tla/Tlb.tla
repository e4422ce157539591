-------------------------------- MODULE Tlb --------------------------------
(***************************************************************************)
(* The TLB of NEMU, nemu/src/memory/mmu/tlb.c, and the accesses of         *)
(* laddr_read and laddr_write (nemu/src/memory/memory.c) that go through   *)
(* it, under the kernel of module Paging.  A write to CR3                  *)
(* (nemu/src/cpu/decode/operand.c) leaves the TLB as it is and there is no *)
(* invlpg: entries outlive the tables they were filled from.               *)
(***************************************************************************)
EXTENDS Paging

CONSTANTS Size,    \* entries of the TLB
          Lens     \* operand sizes
ASSUME TlbAssumption == Size \in Nat \ {0} /\ Lens \subseteq 1 .. B

VARIABLES tlb,   \* slot -> [key, pte]; the key is a page, NotPresent if cleared
          ret    \* bytes of the last operand -> their physical addresses

vars == <<kernelVars, tlb, ret>>

Slot == 0 .. Size - 1

Init ==
    /\ PagingInit
    /\ tlb = [i \in Slot |-> [key |-> NotPresent, pte |-> 0]]
    /\ ret = <<>>

(* init_mem on a restart: new arrays, and init_all_tlb clears the keys.    *)
restart ==
    /\ stage # "reset"
    /\ kpdir' = Empty /\ updir' = Empty
    /\ cr3' = "off" /\ pf_idx' = KFrame /\ brk' = 0 /\ stage' = "reset"
    /\ seg' = 0 /\ done' = 0 /\ base' = 0
    /\ content' = [a \in 0 .. NFrame * B - 1 |-> NotPresent]
    /\ tlb' = [i \in Slot |-> [key |-> NotPresent, pte |-> 0]]
    /\ ret' = <<>>
    /\ UNCHANGED elf

----------------------------------------------------------------------------
(* Bug: the entry keeps the old translation.                               *)
Fetched_KeyOnly(t, p, i) == [t EXCEPT ![i].key = p]

(* tlb_query: the first slot with the key; on a miss any slot, rand() says *)
(* which.                                                                  *)
tlb_query(t, p) ==
    LET match == {i \in Slot : t[i].key = p}
    IN  IF match = {} THEN Slot ELSE {i \in match : \A j \in match : i =< j}

(* Bug: page_walk does not look at the present bits.                       *)
Reachable_Unchecked(t, p, i) == TRUE

(* tlb_fetch, with the slot tlb_query picked: filled from page_walk unless *)
(* it was a hit.  page_walk ends the emulator when the page is absent.     *)
Reachable(t, p, i) == t[i].key = p \/ Walk(p) # NotPresent

Fetched(t, p, i) ==
    IF t[i].key = p THEN t ELSE [t EXCEPT ![i] = [key |-> p, pte |-> Walk(p)]]

(* Bug: one byte too many is taken for the first page.                     *)
FirstPart_Late(a) == (B - (a % B)) + 1

(* temp: bytes of an operand at a that are in its first page.              *)
FirstPart(a) == B - (a % B)

(* The translations of laddr_read and laddr_write: one, or one per page    *)
(* for an operand across a page boundary; the second may evict the first.  *)
laddr_access(a, len, tNew, pas) ==
    \E i \in tlb_query(tlb, PageOf(a)) :
       LET temp == FirstPart(a)
           t1   == Fetched(tlb, PageOf(a), i)
           pa1  == t1[i].pte * B + (a % B)
       IN  /\ Reachable(tlb, PageOf(a), i)
           /\ \/ /\ PageOf(a) = PageOf(a + len - 1)
                 /\ tNew = t1
                 /\ pas = [v \in a .. a + len - 1 |-> pa1 + v - a]
              \/ /\ PageOf(a) # PageOf(a + len - 1)
                 /\ \E k \in tlb_query(t1, PageOf(a + temp)) :
                       LET t2  == Fetched(t1, PageOf(a + temp), k)
                           pa2 == t2[k].pte * B + ((a + temp) % B)
                       IN  /\ Reachable(t1, PageOf(a + temp), k)
                           /\ tNew = t2
                           /\ pas = [v \in a .. a + len - 1 |->
                                       IF v < a + temp THEN pa1 + v - a
                                       ELSE pa2 + v - (a + temp)]

(* Pages an instruction may touch: under kpdir those of the kernel, under  *)
(* updir anything.                                                         *)
Touched == IF cr3 = "kpdir" THEN LowKernel \cup High ELSE Page

access(a, len) ==
    /\ cr3 # "off"
    /\ {PageOf(a), PageOf(a + len - 1)} \subseteq Touched
    /\ laddr_access(a, len, tlb', ret')
    /\ UNCHANGED kernelVars

(* The loader's stores go to the physical address it was given, through    *)
(* the low half of kpdir.                                                  *)
loader_copy ==
    /\ stage = "copy"
    /\ laddr_access(base + done, 1, tlb', ret')
    /\ loader_store(ret'[base + done])

kernel ==
    /\ \/ init_page \/ init_mm \/ loader_malloc \/ loader_end
       \/ \E b \in Brks : mm_brk(b)
    /\ ret' = <<>>
    /\ UNCHANGED tlb

Next ==
    \/ restart
    \/ kernel
    \/ loader_copy
    \/ \E a \in 0 .. NPage * B - 1, len \in Lens : a + len =< NPage * B /\ access(a, len)

Spec == Init /\ [][Next]_vars

----------------------------------------------------------------------------
(* Types of the state.                                                     *)
TypeOK ==
    /\ kpdir \in [Page -> Frame \cup {NotPresent}]
    /\ updir \in [Page -> Frame \cup {NotPresent}]
    /\ cr3 \in {"off", "kpdir", "updir"}
    /\ pf_idx \in KFrame .. NFrame
    /\ brk \in Nat /\ seg \in 0 .. Len(elf) /\ done \in Nat /\ base \in Nat
    /\ elf \in Elfs
    /\ stage \in Boot
    /\ tlb \in [Slot -> [key : Page \cup {NotPresent}, pte : Frame]]

Walked == INSTANCE DirectWalk WITH dir <- [p \in Page |-> Walk(p)]

(* Although no write to CR3 and no change of a page table flushes the TLB, *)
(* every byte of every operand is where the tables in force put it: the    *)
(* entries left from kpdir agree with updir wherever that has a page.      *)
ImplementsWalk == Walked!Spec
=============================================================================
