----------------------------- MODULE LinkedList -----------------------------
(***************************************************************************)
(* Lists linked by a field next, as the loops                              *)
(* for (p = head; p != NULL; p = p->next) of the debugger, the kernel and  *)
(* the typing game go through them.                                        *)
(***************************************************************************)
EXTENDS Integers

(* The nodes from p on, following next up to nil; most of them, if there   *)
(* is a cycle.  next maps nil to nil.                                      *)
Follow(next, nil, p, most) ==
    LET at[i \in 1 .. most] == IF i = 1 THEN p ELSE next[at[i - 1]]
    IN  [i \in {j \in 1 .. most : at[j] # nil} |-> at[i]]
=============================================================================
