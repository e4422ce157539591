------------------------------- MODULE MCTlb -------------------------------
(* Instance of Tlb for TLC: pages of two bytes; frames 0 and 1 with the    *)
(* video memory, the program's pages 2 to 4, its frames 5 to 8; one page   *)
(* of stack.  In the first program two segments share a page.              *)
EXTENDS Tlb

MCElfs ==
    {<<[vaddr |-> 4, memsz |-> 3], [vaddr |-> 7, memsz |-> 1]>>,
     <<[vaddr |-> 5, memsz |-> 1], [vaddr |-> 7, memsz |-> 2]>>}
=============================================================================
