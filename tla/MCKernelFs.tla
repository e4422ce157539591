----------------------------- MODULE MCKernelFs -----------------------------
(* Instance of KernelFs for TLC: sectors of four bytes, two slots, a disk  *)
(* of ten bytes with half a sector at its end.  Sectors 0 and 2 share a    *)
(* slot, file 3 spans sectors 0 and 1, file 4 sectors 1 and 2.             *)
EXTENDS KernelFs, TLC

MCDisk  == [a \in 0 .. 9 |-> a]
MCSize  == (3 :> 5) @@ (4 :> 4)
MCStart == (3 :> 1) @@ (4 :> 6)
MCOffs  == -8 .. 7
MCRaw   == {<<0, 2>>}
=============================================================================
