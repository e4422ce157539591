--------------------------- MODULE L1CacheProofs ---------------------------
(***************************************************************************)
(* Proofs about L1Cache for every number of tags, sets and ways, every     *)
(* line size and every choice of RAM, bytes, operand sizes and images that *)
(* the assumptions of PhysMem and L1Cache allow.                           *)
(*                                                                         *)
(* A read is up to two look-ups and a write up to two updates, so the      *)
(* invariant is stated below for any cache c, not for the variable alone.  *)
(***************************************************************************)
EXTENDS L1Cache, FiniteSetTheorems, TLAPS

(* The part of the invariant that the data of the lines plays no role in.  *)
Shape(c) ==
    /\ c \in [Group -> [Way -> Entry]]
    /\ \A g \in Group : \A i, j \in Way : i < j /\ c[g][j].valid => c[g][i].valid
    /\ \A g \in Group : \A i, j \in Way :
          c[g][i].valid /\ c[g][j].valid /\ c[g][i].Tag = c[g][j].Tag => i = j

(* Every valid way holds a line of RAM, with what memory m holds there.    *)
Mirrors(c, m) ==
    \A g \in Group : \A i \in Way :
        c[g][i].valid => /\ <<c[g][i].Tag, g>> \in Line
                         /\ c[g][i].data = m[<<c[g][i].Tag, g>>]

(* The invariant, split into the array and the cache.                      *)
LEMMA InvSplit ==
    IInv <=> /\ hw_mem \in [Line -> [Offset -> Byte]]
             /\ loaded \in BOOLEAN
             /\ ret = <<>> \/ \E len \in Lens : ret \in [0 .. len - 1 -> Byte]
             /\ Shape(cache)
             /\ Mirrors(cache, hw_mem)
             /\ Cold
  BY DEF IInv, TypeOK, ValidPrefix, UniqueTags, Coherent, Shape, Mirrors

(* A line is the pair of its tag and its group.                            *)
LEMMA LineParts ==
    ASSUME NEW l \in Line
    PROVE  l[1] \in Tag /\ l[2] \in Group /\ l = <<l[1], l[2]>>
  BY LineAssumption

(* Two consecutive lines are in two different sets.                        *)
LEMMA NextLineOther ==
    ASSUME NEW l \in Line
    PROVE  NextLine(l)[2] # l[2] /\ NextLine(l) # l
  BY LineParts, SizeAssumption DEF NextLine, Group

(* The loops over the ways find a way whenever there is one: a non-empty   *)
(* set of naturals has a first element.  (Intervals 0 .. k ordered by      *)
(* inclusion are well founded.)                                            *)
LEMMA FirstNonEmpty ==
    ASSUME NEW S, S \subseteq Nat, S # {}
    PROVE  First(S) # {}
  <1> DEFINE T == {0 .. k : k \in S}
  <1>1. ASSUME NEW k \in S PROVE 0 .. k \in FiniteSubsetsOf(Nat)
    <2>1. IsFiniteSet(0 .. k)
      BY FS_Interval
    <2>2. 0 .. k \in SUBSET Nat
      OBVIOUS
    <2> QED
      BY <2>1, <2>2 DEF FiniteSubsetsOf
  <1>2. T \subseteq FiniteSubsetsOf(Nat) /\ T # {}
    BY <1>1
  <1>3. PICK x \in T : \A y \in T : <<y, x>> \notin StrictSubsetOrdering(Nat)
    <2> HIDE DEF T
    <2> QED
      BY <1>2, WFMin, FS_StrictSubsetOrderingWellFounded
  <1>4. PICK k \in S : x = 0 .. k
    OBVIOUS
  <1>5. \A j \in S : k =< j
    <2> SUFFICES ASSUME NEW j \in S, j < k PROVE FALSE
      OBVIOUS
    <2>1. 0 .. j \subseteq 0 .. k /\ k \in 0 .. k /\ k \notin 0 .. j
      OBVIOUS
    <2>2. 0 .. j # 0 .. k
      BY <2>1
    <2>3. 0 .. j \in SUBSET Nat /\ 0 .. k \in SUBSET Nat
      OBVIOUS
    <2>4. <<0 .. j, x>> \in StrictSubsetOrdering(Nat)
      BY <1>4, <2>1, <2>2, <2>3 DEF StrictSubsetOrdering
    <2> QED
      BY <1>3, <2>4
  <1> QED
    BY <1>5 DEF First

----------------------------------------------------------------------------
(* A look-up of a line of RAM leaves a cache that has the shape and still  *)
(* mirrors the array, and the way that serves it holds the line.           *)
LEMMA FetchKeeps ==
    ASSUME NEW c, Shape(c), Mirrors(c, hw_mem),
           hw_mem \in [Line -> [Offset -> Byte]],
           NEW l \in Line, NEW i \in Serving(c, l)
    PROVE  /\ Shape(Fetched(c, l, i))
           /\ Mirrors(Fetched(c, l, i), hw_mem)
           /\ i \in Way
           /\ Fetched(c, l, i)[l[2]][i].data = hw_mem[l]
  <1> DEFINE g == l[2]
             e == [valid |-> TRUE, Tag |-> l[1], data |-> hw_mem[l]]
             f == [c EXCEPT ![g][i] = e]
  <1>1. g \in Group /\ l[1] \in Tag /\ l = <<l[1], g>>
    BY LineParts
  <1>2. CASE Hit(c, l) # {}
    <2>1. i \in Way /\ c[g][i].Tag = l[1] /\ c[g][i].valid
      BY <1>2 DEF Serving, Hit, First
    <2>2. Fetched(c, l, i) = c
      BY <1>2 DEF Fetched
    <2>3. c[g][i].data = hw_mem[<<c[g][i].Tag, g>>]
      BY <1>1, <2>1 DEF Mirrors
    <2> QED
      BY <1>1, <2>1, <2>2, <2>3
  <1>3. CASE Hit(c, l) = {}
    <2>1. i \in Victims(c, l) /\ i \in Way
      BY <1>3 DEF Serving, Victims, First
    <2>2. Fetched(c, l, i) = f
      BY <1>3 DEF Fetched
    <2>3. e \in Entry
      BY <1>1 DEF Entry
    <2>4. f \in [Group -> [Way -> Entry]]
      BY <1>1, <2>1, <2>3 DEF Shape
    <2>5. \A h \in Group : \A j \in Way :
             f[h][j] = IF h = g /\ j = i THEN e ELSE c[h][j]
      BY <1>1, <2>1 DEF Shape
    <2>6. \A j \in Way : ~(c[g][j].Tag = l[1] /\ c[g][j].valid)
      <3> DEFINE S == {j \in Way : c[g][j].Tag = l[1] /\ c[g][j].valid}
      <3>1. First(S) = {} /\ S \subseteq Nat
        BY <1>3 DEF Hit, Way
      <3>2. S = {}
        <4> HIDE DEF S
        <4> QED
          BY <3>1, FirstNonEmpty
      <3> QED
        BY <3>2
    <2>7. (~c[g][i].valid /\ \A j \in Way : ~c[g][j].valid => i =< j)
          \/ \A j \in Way : c[g][j].valid
      <3> DEFINE S == {j \in Way : ~c[g][j].valid}
      <3>1. S \subseteq Nat /\ i \in (IF First(S) = {} THEN Way ELSE First(S))
        BY <2>1 DEF Way, Victims
      <3>2. S = {} \/ i \in First(S)
        <4> HIDE DEF S
        <4> QED
          BY <3>1, FirstNonEmpty
      <3>3. i \in First(S) => i \in S /\ \A j \in S : i =< j
        BY DEF First
      <3> QED
        BY <3>2, <3>3
    <2>8. \A h \in Group : \A j, k \in Way :
             j < k /\ f[h][k].valid => f[h][j].valid
      <3> SUFFICES ASSUME NEW h \in Group, NEW j \in Way, NEW k \in Way,
                          j < k, f[h][k].valid
                   PROVE  f[h][j].valid
        OBVIOUS
      <3>1. c[h][k].valid => c[h][j].valid
        BY DEF Shape
      <3>2. h = g /\ k = i => c[h][j].valid
        BY <2>1, <2>7 DEF Way
      <3> QED
        BY <2>5, <3>1, <3>2
    <2>9. \A h \in Group : \A j, k \in Way :
             f[h][j].valid /\ f[h][k].valid /\ f[h][j].Tag = f[h][k].Tag => j = k
      BY <2>1, <2>5, <2>6 DEF Shape
    <2>10. Mirrors(f, hw_mem)
      BY <1>1, <2>5 DEF Mirrors
    <2>11. f[g][i].data = hw_mem[l]
      BY <1>1, <2>1, <2>5
    <2> HIDE DEF f
    <2> QED
      BY <2>1, <2>2, <2>4, <2>8, <2>9, <2>10, <2>11 DEF Shape
  <1> QED
    BY <1>2, <1>3

(* What cache_read does to a memory that satisfies the invariant: it       *)
(* returns the bytes of the array, from one line or from two.              *)
LEMMA ReadStep ==
    ASSUME IInv, NEW l \in Line, NEW o \in Offset, NEW len \in Lens,
           paddr_read(l, o, len)
    PROVE  /\ Shape(cache') /\ Mirrors(cache', hw_mem)
           /\ hw_mem' = hw_mem /\ loaded' = loaded /\ loaded
           /\ ret' = [j \in 0 .. len - 1 |->
                        IF o + j < B THEN hw_mem[l][o + j]
                        ELSE hw_mem[NextLine(l)][o + j - B]]
  <1> DEFINE m == NextLine(l)
             R == [j \in 0 .. len - 1 |->
                     IF o + j < B THEN hw_mem[l][o + j] ELSE hw_mem[m][o + j - B]]
  <1>1. /\ Fits(l, o, len) /\ cache_read(l, o, len)
        /\ hw_mem' = hw_mem /\ loaded' = loaded /\ loaded
    BY DEF paddr_read
  <1>2. Shape(cache) /\ Mirrors(cache, hw_mem) /\ hw_mem \in [Line -> [Offset -> Byte]]
    BY InvSplit
  <1>3. len \in Nat /\ o \in Nat /\ B \in Nat
    BY LensAssumption, SizeAssumption DEF Offset
  <1>4. PICK i \in Serving(cache, l) :
          LET c == Fetched(cache, l, i)
              a == c[l[2]][i].data
          IN  \/ /\ o + len =< B
                 /\ cache' = c
                 /\ ret' = [j \in 0 .. len - 1 |-> a[o + j]]
              \/ /\ o + len > B
                 /\ \E k \in Serving(c, m) :
                       LET b == Fetched(c, m, k)[m[2]][k].data
                       IN  /\ cache' = Fetched(c, m, k)
                           /\ ret' = [j \in 0 .. len - 1 |->
                                        IF o + j < B THEN a[o + j] ELSE b[o + j - B]]
    BY <1>1 DEF cache_read
  <1> DEFINE c == Fetched(cache, l, i)
             a == c[l[2]][i].data
  <1>5. Shape(c) /\ Mirrors(c, hw_mem) /\ a = hw_mem[l]
    BY <1>2, FetchKeeps
  <1>6. CASE o + len =< B
    <2>1. cache' = c /\ ret' = [j \in 0 .. len - 1 |-> a[o + j]]
      BY <1>3, <1>4, <1>6
    <2>2. ret' = R
      <3>1. \A j \in 0 .. len - 1 : o + j < B
        BY <1>3, <1>6
      <3> QED
        BY <2>1, <1>5, <3>1
    <2> QED
      BY <1>1, <1>5, <2>1, <2>2
  <1>7. CASE o + len > B
    <2>1. PICK k \in Serving(c, m) :
            /\ cache' = Fetched(c, m, k)
            /\ ret' = [j \in 0 .. len - 1 |->
                         IF o + j < B THEN a[o + j]
                         ELSE Fetched(c, m, k)[m[2]][k].data[o + j - B]]
      BY <1>3, <1>4, <1>7
    <2>2. m \in Line
      BY <1>1, <1>3, <1>7 DEF Fits
    <2>3. /\ Shape(cache') /\ Mirrors(cache', hw_mem)
          /\ Fetched(c, m, k)[m[2]][k].data = hw_mem[m]
      BY <1>2, <1>5, <2>1, <2>2, FetchKeeps
    <2>4. ret' = R
      BY <1>5, <2>1, <2>3
    <2> QED
      BY <1>1, <2>3, <2>4
  <1> QED
    BY <1>3, <1>6, <1>7

----------------------------------------------------------------------------
(* The missing valid test of cache_WriteA: among valid ways it still picks *)
(* the one that holds the line, because no stale way can lie before it.    *)
LEMMA TagWayLive ==
    ASSUME NEW c, Shape(c), NEW l \in Line, NEW g \in Group, NEW i \in Way,
           c[g][i].valid
    PROVE  (g = l[2] /\ i \in TagWay(c, l)) <=> <<c[g][i].Tag, g>> = l
  <1>1. l = <<l[1], l[2]>>
    BY LineParts
  <1>2. ASSUME g = l[2], i \in TagWay(c, l) PROVE <<c[g][i].Tag, g>> = l
    BY <1>1, <1>2 DEF TagWay, First
  <1>3. ASSUME <<c[g][i].Tag, g>> = l PROVE g = l[2] /\ i \in TagWay(c, l)
    <2>1. g = l[2] /\ c[g][i].Tag = l[1]
      BY <1>1, <1>3
    <2>2. ASSUME NEW j \in Way, c[g][j].Tag = l[1] PROVE i =< j
      <3>1. CASE j < i
        <4>1. c[g][j].valid
          BY <3>1 DEF Shape
        <4> QED
          BY <2>1, <2>2, <4>1 DEF Shape, Way
      <3> QED
        BY <3>1 DEF Way
    <2> QED
      BY <2>1, <2>2 DEF TagWay, First
  <1> QED
    BY <1>2, <1>3

(* Cache w is cache c after the bytes d[from], ... went to the offsets     *)
(* lo .. hi of line l, as far as valid ways are concerned.                 *)
Updates(c, w, l, lo, hi, d, from) ==
    \A g \in Group : \A i \in Way :
        /\ w[g][i].valid = c[g][i].valid
        /\ w[g][i].Tag = c[g][i].Tag
        /\ c[g][i].valid =>
             \A b \in Offset :
                w[g][i].data[b] = IF <<c[g][i].Tag, g>> = l /\ b \in lo .. hi
                                  THEN d[b - lo + from] ELSE c[g][i].data[b]

(* One call of cache_WriteA keeps the shape of the cache and puts the      *)
(* bytes in every valid way of the line.                                   *)
LEMMA WriteAKeeps ==
    ASSUME NEW c, Shape(c), NEW l \in Line, NEW lo, NEW hi, NEW d, NEW from,
           \A b \in Offset : b \in lo .. hi => d[b - lo + from] \in Byte
    PROVE  /\ Shape(cache_WriteA(c, l, lo, hi, d, from))
           /\ Updates(c, cache_WriteA(c, l, lo, hi, d, from), l, lo, hi, d, from)
  <1> DEFINE w == cache_WriteA(c, l, lo, hi, d, from)
             patch(e) == [b \in Offset |-> IF b \in lo .. hi THEN d[b - lo + from]
                                           ELSE e.data[b]]
  <1>1. \A g \in Group : \A i \in Way :
          w[g][i] = IF g = l[2] /\ i \in TagWay(c, l)
                    THEN [c[g][i] EXCEPT !.data = patch(c[g][i])] ELSE c[g][i]
    BY DEF cache_WriteA
  <1>2. \A g \in Group : \A i \in Way : c[g][i] \in Entry
    BY DEF Shape
  <1>3. \A g \in Group : \A i \in Way :
          /\ [c[g][i] EXCEPT !.data = patch(c[g][i])] \in Entry
          /\ [c[g][i] EXCEPT !.data = patch(c[g][i])].valid = c[g][i].valid
          /\ [c[g][i] EXCEPT !.data = patch(c[g][i])].Tag = c[g][i].Tag
          /\ [c[g][i] EXCEPT !.data = patch(c[g][i])].data = patch(c[g][i])
    <2> SUFFICES ASSUME NEW g \in Group, NEW i \in Way
                 PROVE  LET e == [c[g][i] EXCEPT !.data = patch(c[g][i])]
                        IN  /\ e \in Entry /\ e.data = patch(c[g][i])
                            /\ e.valid = c[g][i].valid /\ e.Tag = c[g][i].Tag
      OBVIOUS
    <2>1. patch(c[g][i]) \in [Offset -> Byte]
      BY <1>2 DEF Entry
    <2> HIDE DEF patch
    <2> QED
      BY <1>2, <2>1 DEF Entry
  <1>4. w \in [Group -> [Way -> Entry]]
    BY <1>2, <1>3 DEF cache_WriteA
  <1> HIDE DEF w, patch
  <1>5. ASSUME NEW g \in Group, NEW i \in Way
        PROVE  /\ w[g][i].valid = c[g][i].valid
               /\ w[g][i].Tag = c[g][i].Tag
               /\ w[g][i].data = IF g = l[2] /\ i \in TagWay(c, l)
                                 THEN patch(c[g][i]) ELSE c[g][i].data
    <2>1. CASE g = l[2] /\ i \in TagWay(c, l)
      <3>1. w[g][i] = [c[g][i] EXCEPT !.data = patch(c[g][i])]
        BY <1>1, <2>1
      <3> QED
        BY <1>3, <2>1, <3>1
    <2>2. CASE ~(g = l[2] /\ i \in TagWay(c, l))
      <3>1. w[g][i] = c[g][i]
        BY <1>1, <2>2
      <3> QED
        BY <2>2, <3>1
    <2> QED
      BY <2>1, <2>2
  <1>6. Shape(w)
    <2>1. \A g \in Group : \A i, j \in Way : i < j /\ w[g][j].valid => w[g][i].valid
      BY <1>5 DEF Shape
    <2>2. \A g \in Group : \A i, j \in Way :
             w[g][i].valid /\ w[g][j].valid /\ w[g][i].Tag = w[g][j].Tag => i = j
      BY <1>5 DEF Shape
    <2> QED
      BY <1>4, <2>1, <2>2 DEF Shape
  <1>7. ASSUME NEW g \in Group, NEW i \in Way, c[g][i].valid, NEW b \in Offset
        PROVE  w[g][i].data[b] = IF <<c[g][i].Tag, g>> = l /\ b \in lo .. hi
                                 THEN d[b - lo + from] ELSE c[g][i].data[b]
    <2>1. (g = l[2] /\ i \in TagWay(c, l)) <=> <<c[g][i].Tag, g>> = l
      BY <1>7, TagWayLive
    <2>2. patch(c[g][i])[b] = IF b \in lo .. hi THEN d[b - lo + from] ELSE c[g][i].data[b]
      BY DEF patch
    <2> QED
      BY <1>5, <2>1, <2>2
  <1>8. Updates(c, w, l, lo, hi, d, from)
    BY <1>5, <1>7 DEF Updates
  <1> QED
    BY <1>6, <1>8 DEF w

(* The memory after a write, line by line.                                 *)
Written(l, o, len, d) ==
    [k \in Line |-> [b \in Offset |->
        IF k = l /\ b \in o .. o + len - 1 THEN d[b - o]
        ELSE IF k = NextLine(l) /\ b < o + len - B THEN d[b + B - o]
        ELSE hw_mem[k][b]]]

(* cache_write keeps shape and mirror, whether it updates one line or two. *)
LEMMA WriteStep ==
    ASSUME IInv, NEW l \in Line, NEW o \in Offset, NEW len \in Lens,
           NEW d \in [0 .. len - 1 -> Byte], paddr_write(l, o, len, d)
    PROVE  /\ Shape(cache') /\ Mirrors(cache', hw_mem')
           /\ hw_mem' = Written(l, o, len, d)
           /\ hw_mem' \in [Line -> [Offset -> Byte]]
           /\ loaded' = loaded /\ loaded /\ ret' = <<>>
  <1> DEFINE m == NextLine(l)
             temp == o + len - B
             c == cache_WriteA(cache, l, o, o + len - 1, d, 0)
             e == cache_WriteA(c, m, 0, temp - 1, d, len - temp)
  <1>1. /\ Fits(l, o, len) /\ hw_mem' = Written(l, o, len, d)
        /\ cache' = IF temp > 0 THEN e ELSE c
        /\ loaded' = loaded /\ loaded /\ ret' = <<>>
    BY DEF paddr_write, cache_write, hw_mem_write, Written
  <1>2. Shape(cache) /\ Mirrors(cache, hw_mem) /\ hw_mem \in [Line -> [Offset -> Byte]]
    BY InvSplit
  <1>3. len \in Nat /\ o \in Nat /\ B \in Nat /\ o < B /\ len > 0 /\ len =< B
    BY LensAssumption, SizeAssumption DEF Offset
  <1>4. hw_mem' \in [Line -> [Offset -> Byte]]
    BY <1>1, <1>2, <1>3 DEF Written, Offset
  <1>5. m # l
    BY NextLineOther
  <1>6. Shape(c) /\ Updates(cache, c, l, o, o + len - 1, d, 0)
    <2>1. \A b \in Offset : b \in o .. o + len - 1 => d[b - o + 0] \in Byte
      BY <1>3 DEF Offset
    <2> QED
      BY <1>2, <2>1, WriteAKeeps
  <1>7. ASSUME temp > 0
        PROVE  m \in Line /\ Shape(e) /\ Updates(c, e, m, 0, temp - 1, d, len - temp)
    <2>1. m \in Line
      BY <1>1, <1>3, <1>7 DEF Fits
    <2>2. \A b \in Offset : b \in 0 .. temp - 1 => d[b - 0 + (len - temp)] \in Byte
      BY <1>3, <1>7 DEF Offset
    <2> HIDE DEF c, m, temp
    <2> QED
      BY <1>6, <2>1, <2>2, WriteAKeeps
  <1>8. Shape(cache')
    BY <1>1, <1>6, <1>7
  <1>9. ASSUME NEW g \in Group, NEW i \in Way, cache'[g][i].valid
        PROVE  /\ <<cache'[g][i].Tag, g>> \in Line
               /\ cache'[g][i].data = hw_mem'[<<cache'[g][i].Tag, g>>]
    <2> DEFINE k == <<cache[g][i].Tag, g>>
    <2> HIDE DEF c, e, m, temp
    <2>1. /\ c[g][i].valid = cache[g][i].valid
          /\ c[g][i].Tag = cache[g][i].Tag
      BY <1>6 DEF Updates
    <2>2. /\ cache'[g][i].valid = cache[g][i].valid
          /\ cache'[g][i].Tag = cache[g][i].Tag
      <3>1. CASE temp > 0
        <4>1. e[g][i].valid = c[g][i].valid /\ e[g][i].Tag = c[g][i].Tag
          BY <1>7, <3>1 DEF Updates
        <4> QED
          BY <1>1, <2>1, <3>1, <4>1
      <3> QED
        BY <1>1, <2>1, <3>1
    <2>3. cache[g][i].valid /\ c[g][i].valid
      BY <1>9, <2>1, <2>2
    <2>4. k \in Line /\ cache[g][i].data = hw_mem[k]
      BY <1>2, <2>3 DEF Mirrors
    <2>5. ASSUME NEW b \in Offset
          PROVE  c[g][i].data[b] = IF k = l /\ b \in o .. o + len - 1
                                   THEN d[b - o + 0] ELSE hw_mem[k][b]
      BY <1>6, <2>3, <2>4 DEF Updates
    <2>6. ASSUME NEW b \in Offset, temp > 0
          PROVE  e[g][i].data[b] = IF k = m /\ b \in 0 .. temp - 1
                                   THEN d[b - 0 + (len - temp)] ELSE c[g][i].data[b]
      BY <1>7, <2>1, <2>3, <2>6 DEF Updates
    <2>7. ASSUME NEW b \in Offset
          PROVE  hw_mem'[k][b] = IF k = l /\ b \in o .. o + len - 1 THEN d[b - o]
                                 ELSE IF k = m /\ b < temp THEN d[b + B - o]
                                 ELSE hw_mem[k][b]
      BY <1>1, <2>4 DEF Written, m, temp
    <2>8. ASSUME NEW b \in Offset
          PROVE  cache'[g][i].data[b] = hw_mem'[k][b]
      <3> HIDE DEF k
      <3>1. b \in Nat /\ b < B /\ b - o + 0 = b - o
        BY <1>3 DEF Offset
      <3>2. CASE temp > 0
        <4>1. cache' = e /\ b - 0 + (len - temp) = b + B - o
              /\ (b \in 0 .. temp - 1 <=> b < temp)
          BY <1>1, <1>3, <3>1, <3>2 DEF temp
        <4>2. ~(k = m /\ k = l)
          BY <1>5
        <4> QED
          BY <2>5, <2>6, <2>7, <3>1, <3>2, <4>1, <4>2
      <3>3. CASE ~(temp > 0)
        <4>1. cache' = c /\ ~(b < temp)
          BY <1>1, <1>3, <3>1, <3>3 DEF temp
        <4> QED
          BY <2>5, <2>7, <3>1, <4>1
      <3> QED
        BY <3>2, <3>3
    <2>9. cache'[g][i].data \in [Offset -> Byte] /\ hw_mem'[k] \in [Offset -> Byte]
      <3>1. cache'[g][i] \in Entry
        BY <1>8 DEF Shape
      <3>2. hw_mem'[k] \in [Offset -> Byte]
        BY <1>4, <2>4
      <3> QED
        BY <3>1, <3>2 DEF Entry
    <2>10. cache'[g][i].data = hw_mem'[k]
      <3> HIDE DEF k
      <3> QED
        BY <2>8, <2>9
    <2> QED
      BY <2>2, <2>4, <2>10
  <1>10. Mirrors(cache', hw_mem')
    BY <1>9 DEF Mirrors
  <1> QED
    BY <1>1, <1>4, <1>8, <1>10

----------------------------------------------------------------------------
(* memset leaves bytes.                                                    *)
LEMMA BlankType == Blank \in [Line -> [Offset -> Byte]]
  BY ByteAssumption DEF Blank

(* The initial state satisfies the invariant.                              *)
LEMMA InitInv == Init => IInv
  <1> SUFFICES ASSUME Init PROVE IInv
    OBVIOUS
  <1> DEFINE e == [valid |-> FALSE, Tag |-> 0, data |-> [o \in Offset |-> Zero]]
  <1>1. e \in Entry
    BY ByteAssumption, SizeAssumption DEF Entry, Tag
  <1>2. cache = [g \in Group |-> [i \in Way |-> e]]
    BY DEF Init
  <1>3. Shape(cache) /\ Mirrors(cache, hw_mem) /\ Cold
    BY <1>1, <1>2 DEF Shape, Mirrors, Cold
  <1> QED
    BY <1>3, BlankType, InvSplit DEF Init

(* init_mem may leave any tag and any data behind, for no way is valid.    *)
LEMMA InitMemInv ==
    ASSUME IInv, init_mem
    PROVE  IInv'
  <1>1. Shape(cache)
    BY InvSplit
  <1>2. \A g \in Group : \A i \in Way :
           /\ cache'[g][i] = [cache[g][i] EXCEPT !.valid = FALSE]
           /\ cache[g][i] \in Entry
    BY <1>1 DEF init_mem, init_cache, Shape
  <1>3. \A g \in Group : \A i \in Way : cache'[g][i] \in Entry /\ ~cache'[g][i].valid
    <2> TAKE g \in Group
    <2> TAKE i \in Way
    <2> DEFINE e == cache[g][i]
    <2>1. e \in Entry /\ cache'[g][i] = [e EXCEPT !.valid = FALSE]
      BY <1>2
    <2> HIDE DEF e
    <2>2. [e EXCEPT !.valid = FALSE] \in Entry
      BY <2>1 DEF Entry
    <2>3. [e EXCEPT !.valid = FALSE].valid = FALSE
      BY <2>1 DEF Entry
    <2> QED
      BY <2>1, <2>2, <2>3
  <1>4. cache' \in [Group -> [Way -> Entry]]
    BY <1>3 DEF init_mem, init_cache
  <1> QED
    BY <1>3, <1>4, BlankType
    DEF init_mem, IInv, TypeOK, ValidPrefix, UniqueTags, Coherent, Cold

(* load_image bypasses the cache, so a valid way would go stale: by Cold   *)
(* there is none.                                                          *)
LEMMA LoadImageInv ==
    ASSUME IInv, NEW img \in Images, load_image(img)
    PROVE  IInv'
  <1>1. hw_mem \in [Line -> [Offset -> Byte]] /\ IsImage(img)
    BY ImageAssumption DEF IInv, TypeOK
  <1>2. hw_mem' \in [Line -> [Offset -> Byte]]
    BY <1>1 DEF load_image, IsImage
  <1> QED
    BY <1>2 DEF load_image, IInv, TypeOK, ValidPrefix, UniqueTags, Coherent, Cold

(* paddr_read keeps the invariant.                                         *)
LEMMA ReadInv ==
    ASSUME IInv, NEW l \in Line, NEW o \in Offset, NEW len \in Lens,
           paddr_read(l, o, len)
    PROVE  IInv' /\ loaded'
  <1> DEFINE R == [j \in 0 .. len - 1 |->
                     IF o + j < B THEN hw_mem[l][o + j]
                     ELSE hw_mem[NextLine(l)][o + j - B]]
  <1>1. /\ Shape(cache') /\ Mirrors(cache', hw_mem)
        /\ hw_mem' = hw_mem /\ loaded' = loaded /\ loaded /\ ret' = R
    BY ReadStep
  <1>2. hw_mem \in [Line -> [Offset -> Byte]] /\ loaded \in BOOLEAN
    BY DEF IInv, TypeOK
  <1>3. R \in [0 .. len - 1 -> Byte]
    <2> SUFFICES ASSUME NEW j \in 0 .. len - 1
                 PROVE  (IF o + j < B THEN hw_mem[l][o + j]
                         ELSE hw_mem[NextLine(l)][o + j - B]) \in Byte
      OBVIOUS
    <2>1. len \in 1 .. B /\ o \in 0 .. B - 1 /\ B \in Nat
      BY LensAssumption, SizeAssumption DEF Offset
    <2>2. CASE o + j < B
      BY <1>2, <2>1, <2>2 DEF Offset
    <2>3. CASE o + j >= B
      <3>1. NextLine(l) \in Line
        BY <2>1, <2>3 DEF paddr_read, Fits
      <3> QED
        BY <1>2, <2>1, <2>3, <3>1 DEF Offset
    <2> QED
      BY <2>1, <2>2, <2>3
  <1> HIDE DEF R
  <1> QED
    BY <1>1, <1>2, <1>3
    DEF IInv, TypeOK, ValidPrefix, UniqueTags, Coherent, Cold, Shape, Mirrors

(* paddr_write keeps the invariant.                                        *)
LEMMA WriteInv ==
    ASSUME IInv, NEW l \in Line, NEW o \in Offset, NEW len \in Lens,
           NEW d \in [0 .. len - 1 -> Byte], paddr_write(l, o, len, d)
    PROVE  IInv' /\ loaded'
  <1>1. loaded \in BOOLEAN
    BY DEF IInv, TypeOK
  <1> QED
    BY <1>1, WriteStep
    DEF IInv, TypeOK, ValidPrefix, UniqueTags, Coherent, Cold, Shape, Mirrors

(* Every step keeps the invariant.                                         *)
LEMMA NextInv == IInv /\ [Next]_vars => IInv'
  <1> SUFFICES ASSUME IInv, [Next]_vars PROVE IInv'
    OBVIOUS
  <1>1. CASE init_mem
    BY <1>1, InitMemInv
  <1>2. ASSUME NEW img \in Images, load_image(img) PROVE IInv'
    BY <1>2, LoadImageInv
  <1>3. ASSUME NEW l \in Line, NEW o \in Offset, NEW len \in Lens, paddr_read(l, o, len)
        PROVE  IInv'
    BY <1>3, ReadInv
  <1>4. ASSUME NEW l \in Line, NEW o \in Offset, NEW len \in Lens,
               NEW d \in [0 .. len - 1 -> Byte], paddr_write(l, o, len, d)
        PROVE  IInv'
    BY <1>4, WriteInv
  <1>5. CASE UNCHANGED vars
    BY <1>5 DEF vars, IInv, TypeOK, ValidPrefix, UniqueTags, Coherent, Cold
  <1> QED
    BY <1>1, <1>2, <1>3, <1>4, <1>5 DEF Next

(* The invariant holds throughout: types, the order of the valid ways, one *)
(* way per line, coherence, and a cold cache until the image is loaded.    *)
THEOREM Invariance == Spec => []IInv
  BY InitInv, NextInv, PTL DEF Spec

(* The state keeps its types.                                              *)
THEOREM TypeCorrect == Spec => []TypeOK
  <1>1. IInv => TypeOK
    BY DEF IInv
  <1> QED
    BY <1>1, Invariance, PTL

(* A line is in one way of its set at most, however often the set was      *)
(* refilled.                                                               *)
THEOREM WaysAlways == Spec => []UniqueTags
  <1>1. IInv => UniqueTags
    BY DEF IInv
  <1> QED
    BY <1>1, Invariance, PTL

(* In every set the valid ways come first: a fetch takes the first way     *)
(* that is not valid, and nothing but init_cache empties one.              *)
THEOREM ValidPrefixAlways == Spec => []ValidPrefix
  <1>1. IInv => ValidPrefix
    BY DEF IInv
  <1> QED
    BY <1>1, Invariance, PTL

(* The cache never holds bytes the memory does not: write-through, partial *)
(* and line-crossing updates, evictions and restarts included.             *)
THEOREM CoherentAlways == Spec => []Coherent
  <1>1. IInv => Coherent
    BY DEF IInv
  <1> QED
    BY <1>1, Invariance, PTL

(* cache_WriteA needs no valid test: the first way with the tag is the     *)
(* valid one whenever the line is cached.                                  *)
THEOREM WriteFindsLiveAlways == Spec => []WriteFindsLive
  <1>1. ASSUME IInv PROVE WriteFindsLive
    <2> SUFFICES ASSUME NEW l \in Line, Hit(cache, l) # {}
                 PROVE  TagWay(cache, l) = Hit(cache, l)
      BY DEF WriteFindsLive
    <2>1. Shape(cache) /\ l[2] \in Group /\ l = <<l[1], l[2]>>
      BY <1>1, InvSplit, LineParts
    <2>2. PICK i \in Way : i \in Hit(cache, l) /\ cache[l[2]][i].Tag = l[1] /\ cache[l[2]][i].valid
      BY DEF Hit, First
    <2>3. i \in TagWay(cache, l)
      BY <2>1, <2>2, TagWayLive
    <2>4. \A j \in Hit(cache, l) : j = i
      BY <2>2 DEF Hit, First, Way
    <2>5. \A j \in TagWay(cache, l) : j = i
      BY <2>3 DEF TagWay, First, Way
    <2> QED
      BY <2>2, <2>3, <2>4, <2>5
  <1>2. IInv => WriteFindsLive
    BY <1>1
  <1> QED
    BY <1>2, Invariance, PTL

----------------------------------------------------------------------------
(* The memory the CPU sees, as the refinement mapping gives it.            *)
SeenMem == [l \in Line |-> Seen(l)]

(* By coherence the memory the CPU sees is the array.                      *)
LEMMA SeenIsMemory == IInv => SeenMem = hw_mem
  <1> SUFFICES ASSUME IInv PROVE SeenMem = hw_mem
    OBVIOUS
  <1>1. ASSUME NEW l \in Line PROVE Seen(l) = hw_mem[l]
    <2>1. CASE Hit(cache, l) = {}
      BY <2>1 DEF Seen
    <2>2. CASE Hit(cache, l) # {}
      <3> DEFINE i == CHOOSE j \in Hit(cache, l) : TRUE
      <3>1. i \in Hit(cache, l)
        BY <2>2
      <3>2. i \in Way /\ cache[l[2]][i].valid /\ cache[l[2]][i].Tag = l[1]
        BY <3>1 DEF Hit, First
      <3> HIDE DEF i
      <3>3. cache[l[2]][i].data = hw_mem[<<l[1], l[2]>>]
        BY <3>2, LineParts DEF IInv, Coherent
      <3> QED
        BY <2>2, <3>3, LineParts DEF Seen, i
    <2> QED
      BY <2>1, <2>2
  <1>2. hw_mem = [l \in Line |-> hw_mem[l]]
    BY DEF IInv, TypeOK
  <1> QED
    BY <1>1, <1>2 DEF SeenMem

(* The same after a step.                                                  *)
LEMMA SeenIsMemoryNext == IInv' => SeenMem' = hw_mem'
  <1>1. (IInv => SeenMem = hw_mem)'
    BY SeenIsMemory, PTL
  <1> QED
    BY <1>1

(* Initial states of the cached memory are initial states of the flat one. *)
LEMMA FlatInit == Init => Flat!Init
  <1> SUFFICES ASSUME Init PROVE Flat!Init
    OBVIOUS
  <1>1. SeenMem = hw_mem
    BY InitInv, SeenIsMemory
  <1>2. SeenMem = Flat!Blank
    BY <1>1 DEF Init, Blank, Flat!Blank, Offset, Flat!Offset
  <1> QED
    BY <1>2 DEF Init, Flat!Init, SeenMem

(* A step of the cached memory is a step of the flat one or a stutter.     *)
LEMMA FlatNext == IInv /\ IInv' /\ [Next]_vars => [Flat!Next]_Flat!vars
  <1> SUFFICES ASSUME IInv, IInv', [Next]_vars PROVE [Flat!Next]_Flat!vars
    OBVIOUS
  <1>1. SeenMem = hw_mem /\ SeenMem' = hw_mem'
    BY SeenIsMemory, SeenIsMemoryNext
  <1>2. Flat!Blank = Blank /\ Flat!Offset = Offset
    BY DEF Blank, Flat!Blank, Offset, Flat!Offset
  <1>3. CASE init_mem
    <2>1. Flat!Reset
      BY <1>1, <1>2, <1>3 DEF init_mem, Flat!Reset, SeenMem
    <2> QED
      BY <2>1 DEF Flat!Next
  <1>4. ASSUME NEW img \in Images, load_image(img) PROVE Flat!Next
    <2>1. hw_mem' = [l \in Line |-> IF l \in DOMAIN img THEN img[l] ELSE hw_mem[l]]
      BY <1>4 DEF load_image
    <2>2. SeenMem' = [l \in Line |-> IF l \in DOMAIN img THEN img[l] ELSE SeenMem[l]]
      BY <1>1, <2>1
    <2>3. Flat!Load(img)
      BY <1>4, <2>2 DEF load_image, Flat!Load, SeenMem
    <2> QED
      BY <2>3 DEF Flat!Next
  <1>5. ASSUME NEW l \in Line, NEW o \in Offset, NEW len \in Lens, paddr_read(l, o, len)
        PROVE  Flat!Next
    <2>1. /\ hw_mem' = hw_mem /\ loaded' = loaded /\ loaded
          /\ ret' = [j \in 0 .. len - 1 |->
                       IF o + j < B THEN hw_mem[l][o + j]
                       ELSE hw_mem[NextLine(l)][o + j - B]]
      BY <1>5, ReadStep
    <2>2. Flat!Fits(l, o, len) /\ Flat!NextLine(l) = NextLine(l)
      BY <1>5 DEF paddr_read, Fits, Flat!Fits, NextLine, Flat!NextLine
    <2>3. ret' = [j \in 0 .. len - 1 |-> Flat!At(l, o, j)]
      BY <1>1, <2>1, <2>2 DEF Flat!At, SeenMem
    <2>4. Flat!Read(l, o, len)
      BY <1>1, <2>1, <2>2, <2>3 DEF Flat!Read, SeenMem
    <2> QED
      BY <1>2, <2>4 DEF Flat!Next
  <1>6. ASSUME NEW l \in Line, NEW o \in Offset, NEW len \in Lens,
               NEW d \in [0 .. len - 1 -> Byte], paddr_write(l, o, len, d)
        PROVE  Flat!Next
    <2>1. hw_mem' = Written(l, o, len, d) /\ loaded' = loaded /\ loaded /\ ret' = <<>>
      BY <1>6, WriteStep
    <2>2. Flat!Fits(l, o, len) /\ Flat!NextLine(l) = NextLine(l)
      BY <1>6 DEF paddr_write, Fits, Flat!Fits, NextLine, Flat!NextLine
    <2>3. SeenMem' = Flat!Stored(l, o, len, d)
      BY <1>1, <1>2, <2>1, <2>2 DEF Written, Flat!Stored, SeenMem
    <2>4. Flat!Write(l, o, len, d)
      BY <2>1, <2>2, <2>3 DEF Flat!Write, SeenMem
    <2> QED
      BY <1>2, <2>4 DEF Flat!Next
  <1>7. CASE UNCHANGED vars
    <2>1. SeenMem' = SeenMem
      BY <1>1, <1>7 DEF vars
    <2> QED
      BY <1>7, <2>1 DEF vars, Flat!vars, SeenMem
  <1> QED
    BY <1>3, <1>4, <1>5, <1>6, <1>7 DEF Next

(* The cached memory implements the flat one: whatever the alignment of    *)
(* the operands and the victims rand() picks, a read returns the bytes     *)
(* written last.                                                           *)
THEOREM Refinement == Spec => ImplementsFlat
  <1>1. Spec => Flat!Spec
    BY FlatInit, FlatNext, Invariance, PTL DEF Spec, Flat!Spec
  <1> QED
    BY <1>1 DEF ImplementsFlat
============================================================================
