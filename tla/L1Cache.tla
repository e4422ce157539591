------------------------------ MODULE L1Cache ------------------------------
(***************************************************************************)
(* The L1 data cache of NEMU: nemu/src/memory/cache.c over the array       *)
(* hw_mem of nemu/src/memory/memory.c.  N sets of M ways, write-through    *)
(* without write-allocate, filled on a read miss into the first invalid    *)
(* way of the set or, in a full set, into a random one.                    *)
(*                                                                         *)
(* A call of paddr_read or paddr_write on RAM is one step: the CPU thread  *)
(* alone touches hw_mem and the cache.  An operand that crosses the end of *)
(* a line is two look-ups in that step, the second on the cache the first  *)
(* one left.                                                               *)
(***************************************************************************)
EXTENDS PhysMem

CONSTANT M   \* ways of a set
ASSUME WaysAssumption == M \in Nat \ {0}

VARIABLES hw_mem,  \* line -> offset -> byte
          cache,   \* group -> way -> [valid, Tag, data]
          ret,     \* bytes cache_read returned last; <<>> after other calls
          loaded   \* load_image has run since init_mem

vars == <<hw_mem, cache, ret, loaded>>

Way == 0 .. M - 1

(* The first element of S in the order the `for' loops over the ways run:  *)
(* a singleton, or empty when S is.                                        *)
First(S) == {i \in S : \A j \in S : i =< j}

Blank == [l \in Line |-> [o \in Offset |-> Zero]]

(* Static storage: every way invalid with tag 0.                           *)
Init ==
    /\ hw_mem = Blank
    /\ cache = [g \in Group |-> [i \in Way |->
                  [valid |-> FALSE, Tag |-> 0, data |-> [o \in Offset |-> Zero]]]]
    /\ ret = <<>>
    /\ loaded = FALSE

----------------------------------------------------------------------------
(* init_cache clears the valid bits and leaves tags and data behind.       *)
init_cache_WayZero(c) == [g \in Group |-> [c[g] EXCEPT ![0].valid = FALSE]]

init_cache(c) == [g \in Group |-> [i \in Way |-> [c[g][i] EXCEPT !.valid = FALSE]]]

init_mem ==
    /\ hw_mem' = Blank
    /\ cache' = init_cache(cache)
    /\ ret' = <<>>
    /\ loaded' = FALSE

(* load_image writes the array behind the cache's back.                    *)
load_image(img) ==
    /\ ~loaded
    /\ hw_mem' = [l \in Line |-> IF l \in DOMAIN img THEN img[l] ELSE hw_mem[l]]
    /\ loaded' = TRUE
    /\ ret' = <<>>
    /\ UNCHANGED cache

----------------------------------------------------------------------------
(* Bugs the properties must notice: the loop over the ways one short, the  *)
(* valid bit forgotten on a read, no or the wrong preference for invalid   *)
(* ways, a tag that keeps the group bits.                                  *)
Hit_OneShort(c, l) ==
    First({i \in 0 .. M - 2 : c[l[2]][i].Tag = l[1] /\ c[l[2]][i].valid})
Hit_NoValid(c, l) == First({i \in Way : c[l[2]][i].Tag = l[1]})

Hit(c, l) == First({i \in Way : c[l[2]][i].Tag = l[1] /\ c[l[2]][i].valid})

Victims_Any(c, l) == Way
Victims_LastFree(c, l) ==
    LET free == {i \in Way : ~c[l[2]][i].valid}
    IN  IF free = {} THEN Way ELSE {i \in free : \A j \in free : j =< i}

(* Ways a miss may fill: the first invalid one, else rand() % 8.           *)
Victims(c, l) ==
    LET free == First({i \in Way : ~c[l[2]][i].valid})
    IN  IF free = {} THEN Way ELSE free

(* Ways that serve a read of line l, and the cache once way i does.        *)
Serving(c, l) == IF Hit(c, l) = {} THEN Victims(c, l) ELSE Hit(c, l)

Fetched_WideTag(c, l, i) ==
    IF Hit(c, l) # {} THEN c
    ELSE [c EXCEPT ![l[2]][i] =
            [valid |-> TRUE, Tag |-> l[1] * N + l[2], data |-> hw_mem[l]]]

Fetched(c, l, i) ==
    IF Hit(c, l) # {} THEN c
    ELSE [c EXCEPT ![l[2]][i] = [valid |-> TRUE, Tag |-> l[1], data |-> hw_mem[l]]]

cache_read(l, o, len) ==
    \E i \in Serving(cache, l) :
       LET c == Fetched(cache, l, i)
           a == c[l[2]][i].data
           m == NextLine(l)
       IN  \/ /\ o + len =< B
              /\ cache' = c
              /\ ret' = [j \in 0 .. len - 1 |-> a[o + j]]
           \/ /\ o + len > B
              /\ \E k \in Serving(c, m) :
                    LET b == Fetched(c, m, k)[m[2]][k].data
                    IN  /\ cache' = Fetched(c, m, k)
                        /\ ret' = [j \in 0 .. len - 1 |->
                                     IF o + j < B THEN a[o + j] ELSE b[o + j - B]]

paddr_read(l, o, len) ==
    /\ loaded
    /\ Fits(l, o, len)
    /\ cache_read(l, o, len)
    /\ UNCHANGED <<hw_mem, loaded>>

----------------------------------------------------------------------------
hw_mem_write(l, o, len, d) ==
    hw_mem' = [k \in Line |-> [b \in Offset |->
        IF k = l /\ b \in o .. o + len - 1 THEN d[b - o]
        ELSE IF k = NextLine(l) /\ b < o + len - B THEN d[b + B - o]
        ELSE hw_mem[k][b]]]

(* cache_WriteA stops at the first way with the tag, valid or not.         *)
TagWay(c, l) == First({i \in Way : c[l[2]][i].Tag = l[1]})

(* The cache after the bytes d[from], d[from + 1], ... are put at the      *)
(* offsets lo .. hi of the way cache_WriteA picks for line l.              *)
cache_WriteA(c, l, lo, hi, d, from) ==
    [g \in Group |-> [i \in Way |->
        IF g = l[2] /\ i \in TagWay(c, l)
        THEN [c[g][i] EXCEPT !.data =
                 [b \in Offset |-> IF b \in lo .. hi THEN d[b - lo + from]
                                   ELSE c[g][i].data[b]]]
        ELSE c[g][i]]]

(* Bug: the part of the operand in the next line is not updated there.     *)
cache_write_OneLine(l, o, len, d) ==
    /\ hw_mem_write(l, o, len, d)
    /\ cache' = cache_WriteA(cache, l, o, o + len - 1, d, 0)

cache_write(l, o, len, d) ==
    LET c    == cache_WriteA(cache, l, o, o + len - 1, d, 0)
        temp == o + len - B
    IN  /\ hw_mem_write(l, o, len, d)
        /\ cache' = IF temp > 0 THEN cache_WriteA(c, NextLine(l), 0, temp - 1, d, len - temp)
                    ELSE c

paddr_write(l, o, len, d) ==
    /\ loaded
    /\ Fits(l, o, len)
    /\ cache_write(l, o, len, d)
    /\ ret' = <<>>
    /\ UNCHANGED loaded

Next ==
    \/ init_mem
    \/ \E img \in Images : load_image(img)
    \/ \E l \in Line, o \in Offset, len \in Lens :
           \/ paddr_read(l, o, len)
           \/ \E d \in [0 .. len - 1 -> Byte] : paddr_write(l, o, len, d)

Spec == Init /\ [][Next]_vars

----------------------------------------------------------------------------
Entry == [valid : BOOLEAN, Tag : Tag, data : [Offset -> Byte]]

(* Types of the state.                                                     *)
TypeOK ==
    /\ hw_mem \in [Line -> [Offset -> Byte]]
    /\ cache \in [Group -> [Way -> Entry]]
    /\ loaded \in BOOLEAN
    /\ ret = <<>> \/ \E len \in Lens : ret \in [0 .. len - 1 -> Byte]

(* The valid ways of a set come first: cache_read fills the first invalid  *)
(* way and nothing but init_cache ever invalidates one.                    *)
ValidPrefix ==
    \A g \in Group : \A i, j \in Way :
        i < j /\ cache[g][j].valid => cache[g][i].valid

(* A line is in at most one way, however often the set was refilled.       *)
UniqueTags ==
    \A g \in Group : \A i, j \in Way :
        cache[g][i].valid /\ cache[g][j].valid /\ cache[g][i].Tag = cache[g][j].Tag => i = j

(* Every valid way holds a line of RAM, never one of a device, with the    *)
(* bytes hw_mem has now: after any mixture of aligned and line-crossing    *)
(* reads and writes, evictions and restarts.                               *)
Coherent ==
    \A g \in Group : \A i \in Way :
        cache[g][i].valid =>
            /\ <<cache[g][i].Tag, g>> \in Line
            /\ cache[g][i].data = hw_mem[<<cache[g][i].Tag, g>>]

(* cache_WriteA, which ignores the valid bit, still finds the valid way of *)
(* every cached line and never a stale one that lies before it.            *)
WriteFindsLive ==
    \A l \in Line : Hit(cache, l) # {} => TagWay(cache, l) = Hit(cache, l)

(* Nothing is cached while load_image may still write hw_mem directly.     *)
Cold == ~loaded => \A g \in Group : \A i \in Way : ~cache[g][i].valid

IInv == TypeOK /\ ValidPrefix /\ UniqueTags /\ Coherent /\ Cold

(* The memory as the CPU sees it: the way that would serve the read, else  *)
(* the array.                                                              *)
Seen(l) == IF Hit(cache, l) = {} THEN hw_mem[l]
           ELSE cache[l[2]][CHOOSE i \in Hit(cache, l) : TRUE].data

Flat == INSTANCE FlatMemory WITH mem <- [l \in Line |-> Seen(l)]

(* The cached memory implements the flat one: each read returns the bytes  *)
(* last written.                                                           *)
ImplementsFlat == Flat!Spec
============================================================================
