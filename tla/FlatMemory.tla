---------------------------- MODULE FlatMemory -----------------------------
(***************************************************************************)
(* What nemu/src/memory/memory.c promises the rest of the emulator with    *)
(* or without CACHE_ENABLED: one flat array of bytes.  A read returns the  *)
(* bytes last written there, whatever the operand's alignment.             *)
(***************************************************************************)
EXTENDS PhysMem

VARIABLES mem,     \* line -> offset -> byte
          ret,     \* bytes the last read returned; <<>> after any other call
          loaded   \* an image is in memory and the CPU may run

vars == <<mem, ret, loaded>>

Blank == [l \in Line |-> [o \in Offset |-> Zero]]

Init == mem = Blank /\ ret = <<>> /\ loaded = FALSE

Reset == loaded' = FALSE /\ ret' = <<>> /\ mem' = Blank

Load(img) ==
    /\ ~loaded
    /\ mem' = [l \in Line |-> IF l \in DOMAIN img THEN img[l] ELSE mem[l]]
    /\ ret' = <<>>
    /\ loaded' = TRUE

(* The byte at distance j from offset o of line l.                         *)
At(l, o, j) == IF o + j < B THEN mem[l][o + j] ELSE mem[NextLine(l)][o + j - B]

Read(l, o, len) ==
    /\ loaded
    /\ Fits(l, o, len)
    /\ ret' = [j \in 0 .. len - 1 |-> At(l, o, j)]
    /\ UNCHANGED <<mem, loaded>>

(* The memory after the len bytes d are stored at offset o of line l.      *)
Stored(l, o, len, d) ==
    [k \in Line |-> [b \in Offset |->
        IF k = l /\ b \in o .. o + len - 1 THEN d[b - o]
        ELSE IF k = NextLine(l) /\ b < o + len - B THEN d[b + B - o]
        ELSE mem[k][b]]]

Write(l, o, len, d) ==
    /\ loaded
    /\ Fits(l, o, len)
    /\ ret' = <<>>
    /\ mem' = Stored(l, o, len, d)
    /\ UNCHANGED loaded

Next ==
    \/ Reset
    \/ \E img \in Images : Load(img)
    \/ \E l \in Line, o \in Offset, len \in Lens :
           \/ Read(l, o, len)
           \/ \E d \in [0 .. len - 1 -> Byte] : Write(l, o, len, d)

Spec == Init /\ [][Next]_vars
============================================================================
