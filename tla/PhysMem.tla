------------------------------ MODULE PhysMem ------------------------------
(***************************************************************************)
(* Physical addresses as the L1 cache of NEMU slices them                  *)
(* (nemu/src/memory/cache.c): a tag, a set number (`group') and an offset  *)
(* in the line.  A line is the pair <<tag, group>>; the line after it      *)
(* carries from the group into the tag.  The 13-bit / 6-bit slicing of the *)
(* code is the instance NTag = 2^19, N = 128, B = 64.                      *)
(***************************************************************************)
EXTENDS Integers

CONSTANTS
    NTag,    \* number of tags
    N,       \* number of sets of the cache
    B,       \* bytes of a line
    Line,    \* the lines of RAM, device memory left out
    Byte,    \* byte values
    Zero,    \* the byte memset writes
    Lens,    \* operand sizes, in bytes
    Images   \* the files load_image may read: partial memories

Tag    == 0 .. NTag - 1
Group  == 0 .. N - 1
Offset == 0 .. B - 1

NextLine(l) == IF l[2] + 1 < N THEN <<l[1], l[2] + 1>> ELSE <<l[1] + 1, 0>>

(* An operand lies in a line and, at most, the line after it.  The program *)
(* never crosses the end of the RAM.                                       *)
Fits(l, o, len) == o + len =< B \/ NextLine(l) \in Line

(* The bytes of a file image, as pairs line -> offset -> byte.             *)
IsImage(img) ==
    /\ DOMAIN img \subseteq Line
    /\ \A l \in DOMAIN img : img[l] \in [Offset -> Byte]

ASSUME SizeAssumption == /\ NTag \in Nat \ {0}
                         /\ N \in Nat \ {0, 1}
                         /\ B \in Nat \ {0}
ASSUME LineAssumption == Line \subseteq Tag \X Group
ASSUME LensAssumption == Lens \subseteq 1 .. B
ASSUME ByteAssumption == Zero \in Byte
ASSUME ImageAssumption == \A img \in Images : IsImage(img)
============================================================================
