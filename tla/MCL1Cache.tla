----------------------------- MODULE MCL1Cache -----------------------------
(* Instance of L1Cache for TLC.  Two sets of two ways and lines of two     *)
(* bytes; three lines share set 0, so that it overflows, and operands      *)
(* cross from set 0 into set 1 and from the last set into the next tag.    *)
(* MaxWrites and MaxBoots bound a behaviour.                               *)
EXTENDS L1Cache

CONSTANTS MaxWrites, MaxBoots
VARIABLES writes, boots

MCLine   == {<<0, 0>>, <<0, 1>>, <<1, 0>>, <<2, 0>>}
MCImages == {[l \in {<<0, 0>>, <<0, 1>>} |-> [o \in Offset |-> 1]]}

MCInit == Init /\ writes = 0 /\ boots = 0

Accesses == \E l \in Line, o \in Offset, len \in Lens :
    \/ paddr_read(l, o, len) /\ UNCHANGED writes
    \/ /\ writes < MaxWrites
       /\ writes' = writes + 1
       /\ \E d \in [0 .. len - 1 -> Byte] : paddr_write(l, o, len, d)

MCNext ==
    \/ init_mem /\ boots < MaxBoots /\ boots' = boots + 1 /\ UNCHANGED writes
    \/ \E img \in Images : load_image(img) /\ UNCHANGED <<writes, boots>>
    \/ Accesses /\ UNCHANGED boots

MCSpec == MCInit /\ [][MCNext]_<<vars, writes, boots>>
============================================================================
