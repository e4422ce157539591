----------------------------- MODULE DirectWalk -----------------------------
(***************************************************************************)
(* What page_translate promises (nemu/src/memory/mmu/page.c and the        *)
(* laddr_read, laddr_write of memory.c), with or without TLB_ENABLED: the  *)
(* bytes of an operand are where the tables in force put their pages.      *)
(* Nothing is promised for a page that is not present.                     *)
(***************************************************************************)
EXTENDS Integers

CONSTANTS B, NPage, NFrame, NotPresent

VARIABLES dir,   \* the directory in force: page -> frame or NotPresent
          ret    \* bytes of the last operand -> their physical addresses

vars == <<dir, ret>>

Page  == 0 .. NPage - 1
Frame == 0 .. NFrame - 1

Init == dir = [p \in Page |-> NotPresent] /\ ret = <<>>

(* The kernel writes CR3 or the tables.                                    *)
Tables ==
    /\ dir' \in [Page -> Frame \cup {NotPresent}]
    /\ ret' = <<>>

(* The physical address of byte a.                                         *)
Phys(a) == dir[a \div B] * B + (a % B)

Access(a, len) ==
    /\ ret' \in [a .. a + len - 1 -> 0 .. NFrame * B - 1]
    /\ \A v \in a .. a + len - 1 : dir[v \div B] # NotPresent => ret'[v] = Phys(v)
    /\ UNCHANGED dir

Next ==
    \/ Tables
    \/ \E a \in 0 .. NPage * B - 1, len \in 1 .. B :
          a + len =< NPage * B /\ Access(a, len)

Spec == Init /\ [][Next]_vars
=============================================================================
