----------------------------- MODULE TlbProofs -----------------------------
(***************************************************************************)
(* Proofs about Paging and Tlb for every layout of memory, every program   *)
(* and every size of the TLB.  The first part is about Paging: arithmetic  *)
(* of pages, the frames mm_malloc hands out, and what the kernel's steps   *)
(* keep.  The second is about the system: no operand is ever translated by *)
(* a stale entry, and what the first part shows holds of it.               *)
(***************************************************************************)
EXTENDS Tlb, FiniteSetTheorems, TLAPS

----------------------------------------------------------------------------
(* An address is a page and an offset, in one way only.                    *)
LEMMA Split ==
    ASSUME NEW a \in Nat
    PROVE  PageOf(a) \in Nat /\ a % B \in 0 .. B - 1 /\ a = PageOf(a) * B + (a % B)
  BY LayoutAssumption DEF PageOf

LEMMA NextBytes ==
    ASSUME NEW p \in Nat, NEW q \in Nat, p < q
    PROVE  p * B + B =< q * B
  <1>1. (p + 1) * B =< q * B
    BY LayoutAssumption
  <1>2. (p + 1) * B = p * B + B
    BY LayoutAssumption
  <1> QED
    BY <1>1, <1>2

LEMMA SplitUnique ==
    ASSUME NEW p \in Nat, NEW q \in Nat, NEW i \in 0 .. B - 1, NEW j \in 0 .. B - 1,
           p * B + i = q * B + j
    PROVE  p = q /\ i = j
  <1>0. p * B \in Nat /\ q * B \in Nat
    BY LayoutAssumption
  <1>1. ~(p < q) /\ ~(q < p)
    BY <1>0, NextBytes, LayoutAssumption
  <1> QED
    BY <1>0, <1>1, LayoutAssumption

LEMMA Join ==
    ASSUME NEW p \in Nat, NEW i \in 0 .. B - 1
    PROVE  p * B + i \in Nat /\ PageOf(p * B + i) = p /\ (p * B + i) % B = i
  <1>1. p * B + i \in Nat
    BY LayoutAssumption
  <1> DEFINE a == p * B + i
  <1>2. PageOf(a) \in Nat /\ a % B \in 0 .. B - 1 /\ a = PageOf(a) * B + (a % B)
    BY <1>1, Split
  <1>3. PageOf(a) = p /\ a % B = i
    BY <1>2, SplitUnique
  <1> QED
    BY <1>1, <1>3

(* Pages ascend with addresses, and a page is B bytes.                     *)
LEMMA Ascend ==
    ASSUME NEW a \in Nat, NEW b \in Nat, a =< b
    PROVE  PageOf(a) =< PageOf(b)
  <1>1. PageOf(a) \in Nat /\ a % B \in 0 .. B - 1 /\ a = PageOf(a) * B + (a % B)
    BY Split
  <1>2. PageOf(b) \in Nat /\ b % B \in 0 .. B - 1 /\ b = PageOf(b) * B + (b % B)
    BY Split
  <1>3. PageOf(a) * B \in Nat /\ PageOf(b) * B \in Nat
    BY <1>1, <1>2, LayoutAssumption
  <1>4. ~(PageOf(b) < PageOf(a))
    <2>1. ASSUME PageOf(b) < PageOf(a) PROVE PageOf(b) * B + B =< PageOf(a) * B
      BY <1>1, <1>2, <2>1, NextBytes
    <2> QED
      BY <1>1, <1>2, <1>3, <2>1, LayoutAssumption
  <1> QED
    BY <1>1, <1>2, <1>4

LEMMA SamePage ==
    ASSUME NEW a \in Nat, NEW b \in Nat, PageOf(a) = PageOf(b)
    PROVE  b % B = (a % B) + (b - a)
  <1>1. PageOf(a) \in Nat /\ a % B \in 0 .. B - 1 /\ a = PageOf(a) * B + (a % B)
    BY Split
  <1>2. PageOf(b) \in Nat /\ b % B \in 0 .. B - 1 /\ b = PageOf(b) * B + (b % B)
    BY Split
  <1>3. PageOf(a) * B \in Nat
    BY <1>1, LayoutAssumption
  <1>4. b = PageOf(a) * B + (b % B)
    BY <1>2
  <1> QED
    BY <1>1, <1>2, <1>3, <1>4

LEMMA InRange ==
    ASSUME NEW n \in Nat, NEW p \in 0 .. n - 1, NEW i \in 0 .. B - 1
    PROVE  p * B + i \in 0 .. n * B - 1
  <1>1. (p + 1) * B =< n * B
    BY LayoutAssumption
  <1>2. (p + 1) * B = p * B + B
    BY LayoutAssumption
  <1>3. p * B \in Nat /\ n * B \in Nat
    BY LayoutAssumption
  <1> QED
    BY <1>1, <1>2, <1>3, LayoutAssumption

(* The byte after the last one of a page.                                  *)
LEMMA NextPage ==
    ASSUME NEW a \in Nat
    PROVE  LET b == a + (B - (a % B))
           IN  b \in Nat /\ PageOf(b) = PageOf(a) + 1 /\ b % B = 0 /\ b > a
  <1> DEFINE b == a + (B - (a % B))
  <1>1. PageOf(a) \in Nat /\ a % B \in 0 .. B - 1 /\ a = PageOf(a) * B + (a % B)
    BY Split
  <1>2. (PageOf(a) + 1) * B = PageOf(a) * B + B
    BY <1>1, LayoutAssumption
  <1>3. b = (PageOf(a) + 1) * B + 0
    BY <1>1, <1>2, LayoutAssumption
  <1>4. 0 \in 0 .. B - 1 /\ PageOf(a) + 1 \in Nat
    BY <1>1, LayoutAssumption
  <1>5. PageOf(b) = PageOf(a) + 1 /\ b % B = 0 /\ b \in Nat
    BY <1>3, <1>4, Join
  <1>6. b > a
    BY <1>1, LayoutAssumption
  <1> QED
    BY <1>5, <1>6

----------------------------------------------------------------------------
(* mm_malloc.  The frame of a page is the number of absent pages before it *)
(* in the range, counted from pf_idx.                                      *)
Dir == [Page -> Frame \cup {NotPresent}]

LEMMA AbsentFinite ==
    ASSUME NEW d, NEW first \in Int, NEW last \in Int
    PROVE  IsFiniteSet(Absent(d, first, last)) /\ Cardinality(Absent(d, first, last)) \in Nat
  <1>1. IsFiniteSet(first .. last)
    BY FS_Interval
  <1>2. Absent(d, first, last) \in SUBSET (first .. last)
    BY DEF Absent
  <1>3. IsFiniteSet(Absent(d, first, last))
    BY <1>1, <1>2, FS_Subset
  <1> QED
    BY <1>3, FS_CardinalityType

(* The count grows with every absent page.                                 *)
LEMMA AbsentBefore ==
    ASSUME NEW d, NEW first \in Int, NEW last \in Int, NEW p \in Absent(d, first, last)
    PROVE  Cardinality(Absent(d, first, p - 1)) < Cardinality(Absent(d, first, last))
  <1> DEFINE S == Absent(d, first, p - 1)
             T == Absent(d, first, last)
  <1>1. p \in Int /\ p - 1 \in Int
    BY DEF Absent
  <1>2. IsFiniteSet(S) /\ Cardinality(S) \in Nat /\ IsFiniteSet(T) /\ Cardinality(T) \in Nat
    BY <1>1, AbsentFinite
  <1>3. p \notin S /\ S \cup {p} \in SUBSET T
    BY <1>1 DEF Absent
  <1>4. Cardinality(S \cup {p}) = Cardinality(S) + 1
    BY <1>2, <1>3, FS_AddElement
  <1>5. Cardinality(S \cup {p}) =< Cardinality(T)
    BY <1>2, <1>3, FS_Subset
  <1> QED
    BY <1>2, <1>4, <1>5

(* Pages already mapped, and pages outside the range, keep their frames;   *)
(* the others get frames of their own from pf_idx on.                      *)
LEMMA MappedFrames ==
    ASSUME NEW d \in Dir, NEW first \in Page, NEW last \in Page, pf_idx \in KFrame .. NFrame,
           Taken(d, first, last) =< NFrame
    PROVE  LET m == Mapped(d, first, last)
               t == Taken(d, first, last)
           IN  /\ m \in Dir
               /\ t \in pf_idx .. NFrame
               /\ \A p \in Page : d[p] # NotPresent => m[p] = d[p]
               /\ \A p \in Page : p \notin first .. last => m[p] = d[p]
               /\ \A p \in first .. last : m[p] # NotPresent
               /\ \A p \in Page : d[p] = NotPresent /\ m[p] # NotPresent =>
                      p \in first .. last /\ m[p] \in pf_idx .. t - 1
               /\ \A p, q \in Page :
                      d[p] = NotPresent /\ d[q] = NotPresent /\ m[p] = m[q]
                      /\ m[p] # NotPresent => p = q
  <1> DEFINE m == Mapped(d, first, last)
             t == Taken(d, first, last)
             A == Absent(d, first, last)
             C(p) == Cardinality(Absent(d, first, p - 1))
  <1>0. /\ first \in Int /\ last \in Int /\ pf_idx \in Nat /\ NFrame \in Nat
        /\ first .. last \subseteq Page /\ NotPresent \notin Page /\ Frame \subseteq Page
    BY LayoutAssumption DEF Page, Frame
  <1>1. Cardinality(A) \in Nat /\ t = pf_idx + Cardinality(A)
    BY <1>0, AbsentFinite DEF Taken
  <1>2. ASSUME NEW p \in A
        PROVE  C(p) \in Nat /\ C(p) < Cardinality(A) /\ m[p] = pf_idx + C(p)
               /\ m[p] \in pf_idx .. t - 1 /\ m[p] \in Frame
    <2>1. p \in first .. last /\ p \in Page /\ p - 1 \in Int
      BY <1>0 DEF Absent
    <2>2. C(p) \in Nat
      BY <1>0, <2>1, AbsentFinite
    <2>3. C(p) < Cardinality(A)
      BY <1>0, AbsentBefore
    <2>4. m[p] = pf_idx + C(p)
      BY <2>1 DEF Mapped
    <2> QED
      BY <1>0, <1>1, <2>2, <2>3, <2>4, LayoutAssumption DEF Frame
  <1>3. \A p \in Page : p \notin A => m[p] = d[p]
    BY DEF Mapped
  <1>4. \A p \in Page : p \in A <=> p \in first .. last /\ d[p] = NotPresent
    BY DEF Absent
  <1>5. m \in Dir
    <2>1. m = [p \in Page |-> m[p]]
      BY DEF Mapped
    <2>2. \A p \in Page : m[p] \in Frame \cup {NotPresent}
      BY <1>2, <1>3 DEF Dir
    <2> HIDE DEF m
    <2> QED
      BY <2>1, <2>2 DEF Dir
  <1>6. ASSUME NEW p \in A, NEW q \in A, p < q PROVE m[p] # m[q]
    <2>1. p \in Int /\ q \in Int /\ p \in Absent(d, first, q - 1) /\ q - 1 \in Int
      BY <1>0, <1>6 DEF Absent
    <2>2. C(p) < C(q)
      BY <1>0, <2>1, AbsentBefore
    <2>3. m[p] = pf_idx + C(p) /\ m[q] = pf_idx + C(q) /\ C(p) \in Nat /\ C(q) \in Nat
      BY <1>2
    <2> HIDE DEF C, m
    <2> QED
      BY <1>0, <2>2, <2>3
  <1> HIDE DEF C, m, t, A
  <1>7. \A p, q \in A : m[p] = m[q] => p = q
    <2>1. A \subseteq Int
      BY <1>0 DEF A, Absent
    <2> QED
      BY <1>6, <2>1
  <1>8. \A p \in first .. last : m[p] # NotPresent
    BY <1>0, <1>2, <1>3, <1>4
  <1>9. \A p \in Page : d[p] = NotPresent /\ m[p] # NotPresent => p \in A
    BY <1>3
  <1>10. t \in pf_idx .. NFrame
    BY <1>0, <1>1 DEF t
  <1>11. /\ \A p \in Page : d[p] # NotPresent => m[p] = d[p]
         /\ \A p \in Page : p \notin first .. last => m[p] = d[p]
    BY <1>3, <1>4
  <1>12. \A p \in Page : d[p] = NotPresent /\ m[p] # NotPresent =>
             p \in first .. last /\ m[p] \in pf_idx .. t - 1
    BY <1>2, <1>4, <1>9
  <1>13. \A p, q \in Page : d[p] = NotPresent /\ d[q] = NotPresent /\ m[p] = m[q]
                             /\ m[p] # NotPresent => p = q
    BY <1>7, <1>9
  <1> QED
    BY <1>5, <1>8, <1>10, <1>11, <1>12, <1>13 DEF m, t

(* A range whose pages are absent, or absent but for the first one, gets   *)
(* consecutive frames.                                                     *)
LEMMA MappedRun ==
    ASSUME NEW d \in Dir, NEW first \in Page, NEW last \in Page, first =< last,
           pf_idx \in Nat,
           \A p \in first .. last : p # first => d[p] = NotPresent,
           d[first] # NotPresent => d[first] = pf_idx - 1
    PROVE  LET m == Mapped(d, first, last)
           IN  /\ \A p \in first .. last : m[p] = m[first] + (p - first)
               /\ m[last] = Taken(d, first, last) - 1
  <1> DEFINE m == Mapped(d, first, last)
             C(p) == Cardinality(Absent(d, first, p))
  <1>0. first \in Int /\ last \in Int /\ first .. last \subseteq Page
    BY LayoutAssumption DEF Page
  <1>1. CASE d[first] = NotPresent
    <2>1. ASSUME NEW p \in Int, p \in first - 1 .. last PROVE C(p) = p - first + 1
      <3>1. Absent(d, first, p) = first .. p
        BY <1>0, <1>1, <2>1 DEF Absent
      <3> QED
        BY <1>0, <2>1, <3>1, FS_Interval
    <2>2. ASSUME NEW p \in first .. last PROVE m[p] = pf_idx + (p - first)
      <3>1. p \in Absent(d, first, last) /\ p \in Page
        BY <1>0, <1>1 DEF Absent
      <3>2. m[p] = pf_idx + C(p - 1)
        BY <3>1 DEF Mapped
      <3>3. C(p - 1) = p - 1 - first + 1
        BY <1>0, <2>1
      <3> HIDE DEF C, m
      <3> QED
        BY <1>0, <3>2, <3>3
    <2>3. Taken(d, first, last) = pf_idx + (last - first + 1)
      BY <1>0, <2>1 DEF Taken
    <2> HIDE DEF C, m
    <2>4. m[first] = pf_idx /\ m[last] = pf_idx + (last - first)
      BY <1>0, <2>2
    <2> QED
      BY <1>0, <2>2, <2>3, <2>4 DEF m
  <1>2. CASE d[first] # NotPresent
    <2>1. ASSUME NEW p \in Int, p \in first .. last PROVE C(p) = p - first
      <3>1. Absent(d, first, p) = first + 1 .. p
        BY <1>0, <1>2, <2>1 DEF Absent
      <3>2. first + 1 \in Int
        BY <1>0
      <3>3. Cardinality(first + 1 .. p) = IF first + 1 > p THEN 0 ELSE p - (first + 1) + 1
        BY <3>2, FS_Interval
      <3> QED
        BY <1>0, <2>1, <3>1, <3>3
    <2>2. ASSUME NEW p \in first .. last PROVE m[p] = pf_idx - 1 + (p - first)
      <3>1. CASE p = first
        <4>1. p \notin Absent(d, first, last)
          BY <1>2, <3>1 DEF Absent
        <4>2. m[p] = d[p]
          BY <1>0, <4>1 DEF Mapped
        <4> HIDE DEF m
        <4> QED
          BY <1>0, <1>2, <3>1, <4>2
      <3>2. CASE p # first
        <4>1. p \in Absent(d, first, last) /\ p \in Page
          BY <1>0, <3>2 DEF Absent
        <4>2. m[p] = pf_idx + C(p - 1)
          BY <4>1 DEF Mapped
        <4>3. C(p - 1) = p - 1 - first
          BY <1>0, <2>1, <3>2
        <4> HIDE DEF C, m
        <4> QED
          BY <1>0, <4>2, <4>3
      <3> QED
        BY <3>1, <3>2
    <2>3. Taken(d, first, last) = pf_idx + (last - first)
      BY <1>0, <2>1 DEF Taken
    <2> HIDE DEF C, m
    <2>4. m[first] = pf_idx - 1 /\ m[last] = pf_idx - 1 + (last - first)
      BY <1>0, <2>2
    <2> QED
      BY <1>0, <2>2, <2>3, <2>4 DEF m
  <1> QED
    BY <1>1, <1>2
----------------------------------------------------------------------------
(* The invariant of the kernel's part.                                     *)
EndOf(s) == s.vaddr + s.memsz - 1
InUser   == UserPage \cup (StackFirst .. KPage - 1)
KMap     == [p \in Page |-> IF p \in Frame THEN p
                            ELSE IF p \in High THEN p - KPage ELSE NotPresent]

KType ==
    /\ kpdir \in Dir /\ updir \in Dir
    /\ cr3 \in {"off", "kpdir", "updir"}
    /\ pf_idx \in KFrame .. NFrame
    /\ brk \in Nat /\ seg \in 0 .. Len(elf) /\ done \in Nat /\ base \in Nat
    /\ elf \in Elfs
    /\ stage \in Boot
    /\ content \in [0 .. NFrame * B - 1 -> Nat \cup {NotPresent}]

(* What each stage of booting has done and what is still to come.          *)
Stages ==
    /\ stage = "reset" => cr3 = "off" /\ kpdir = Empty
    /\ stage \in {"boot", "loader", "copy"} => cr3 = "kpdir"
    /\ stage = "user" => cr3 = "updir" /\ seg = Len(elf)
    /\ stage # "reset" => kpdir = KMap
    /\ stage \in {"reset", "boot"} => updir = Empty /\ seg = 0
    /\ stage = "copy" => seg < Len(elf) /\ done < elf[seg + 1].memsz
    /\ stage # "user" => brk = IF seg = 0 THEN 0 ELSE EndOf(elf[seg])
    /\ stage = "user" => PageOf(brk) \in UserPage

(* What a present page of the program's directory may be, V the pages of   *)
(* the video memory if they are mapped, and that no frame is given twice.  *)
Placed(d, t, V) ==
    \A p \in Page : d[p] # NotPresent =>
        \/ p \in High /\ d[p] = p - KPage
        \/ p \in V /\ d[p] = p
        \/ p \in InUser /\ d[p] \in KFrame .. t - 1
Unshared(d) ==
    \A p, q \in InUser : d[p] # NotPresent /\ d[p] = d[q] => p = q

VideoMapped == IF stage = "user" THEN Video ELSE {}

(* While segments are loaded, the last page mapped is the last page of the *)
(* segment at hand and has the newest frame.                               *)
Newest ==
    LET ms == IF stage = "copy" THEN seg + 1 ELSE seg
    IN  stage \in {"loader", "copy"} =>
          /\ \A p \in InUser : updir[p] # NotPresent =>
                ms > 0 /\ p =< PageOf(EndOf(elf[ms]))
          /\ ms > 0 => updir[PageOf(EndOf(elf[ms]))] = pf_idx - 1

(* base + i is the i-th byte of the segment being copied, and the bytes    *)
(* before the current one are there.                                       *)
InCopy ==
    stage = "copy" =>
        LET s == elf[seg + 1]
        IN  /\ \A v \in SegBytes(s) :
                  /\ updir[PageOf(v)] # NotPresent
                  /\ base + (v - s.vaddr) = updir[PageOf(v)] * B + (v % B)
            /\ \A v \in s.vaddr .. s.vaddr + done - 1 :
                  content[base + (v - s.vaddr)] = v

(* The segments loaded are in place.                                       *)
Image(n, d) ==
    \A i \in 1 .. n : \A a \in SegBytes(elf[i]) :
        /\ d[PageOf(a)] # NotPresent
        /\ content[d[PageOf(a)] * B + (a % B)] = a

KInv ==
    /\ KType /\ Stages
    /\ Placed(updir, pf_idx, VideoMapped) /\ Unshared(updir)
    /\ Newest /\ InCopy /\ Image(seg, updir) /\ HeapMapped

----------------------------------------------------------------------------
(* Where the parts of memory lie.                                          *)
LEMMA Layout ==
    /\ Frame \subseteq Page /\ NotPresent \notin Page /\ NotPresent \notin Frame
    /\ High \subseteq Page /\ InUser \subseteq Page /\ Video \subseteq Page
    /\ Page \subseteq Nat /\ KFrame \in Nat /\ NFrame \in Nat /\ KPage \in Nat
    /\ InUser \cap High = {} /\ InUser \cap Video = {}
    /\ InUser \cap (KFrame .. NFrame - 1) = {}
    /\ InUser \cap LowKernel = {}
    /\ Video \cap High = {} /\ Video \subseteq 0 .. KFrame - 1
    /\ High \cap Frame = {}
    /\ \A p \in InUser : p >= NPT /\ p > 0
    /\ StackFirst \in Page /\ KPage - 1 \in Page /\ StackFirst .. KPage - 1 \subseteq InUser
  BY LayoutAssumption, KernelAssumption, UserAssumption, SMTT(30)
     DEF Page, Frame, High, InUser

LEMMA UserConvex ==
    ASSUME NEW p \in UserPage, NEW q \in UserPage
    PROVE  p .. q \subseteq UserPage /\ UserPage \subseteq Page
  BY UserAssumption, LayoutAssumption DEF Page

LEMMA ElementOf ==
    ASSUME NEW S, NEW q \in Seq(S), NEW i \in 1 .. Len(q)
    PROVE  q[i] \in S
  OBVIOUS

(* The segments of a program.                                              *)
LEMMA Segments ==
    ASSUME NEW f \in Elfs
    PROVE  /\ f \in Seq([vaddr : Nat, memsz : Nat \ {0}]) /\ Len(f) \in Nat \ {0}
           /\ \A i \in 1 .. Len(f) :
                 /\ f[i].vaddr \in Nat /\ f[i].memsz \in Nat \ {0}
                 /\ EndOf(f[i]) \in SegBytes(f[i]) /\ f[i].vaddr \in SegBytes(f[i])
                 /\ SegBytes(f[i]) = f[i].vaddr .. EndOf(f[i])
                 /\ \A a \in SegBytes(f[i]) : a \in Nat /\ PageOf(a) \in UserPage
           /\ \A i, j \in 1 .. Len(f) : i < j => EndOf(f[i]) < f[j].vaddr
  <1>1. /\ f \in Seq([vaddr : Nat, memsz : Nat \ {0}]) /\ f # <<>>
        /\ \A i \in DOMAIN f : \A a \in SegBytes(f[i]) : PageOf(a) \in UserPage
        /\ \A i, j \in DOMAIN f : i < j => f[i].vaddr + f[i].memsz =< f[j].vaddr
    BY UserAssumption DEF IsElf
  <1>2. DOMAIN f = 1 .. Len(f) /\ Len(f) \in Nat \ {0}
    BY <1>1
  <1>3. ASSUME NEW i \in 1 .. Len(f) PROVE f[i].vaddr \in Nat /\ f[i].memsz \in Nat \ {0}
    <2>1. f[i] \in [vaddr : Nat, memsz : Nat \ {0}]
      BY <1>1, ElementOf
    <2> QED
      BY <2>1
  <1>4. \A i \in 1 .. Len(f) : SegBytes(f[i]) = f[i].vaddr .. EndOf(f[i])
    BY DEF SegBytes, EndOf
  <1>5. \A i \in 1 .. Len(f) :
           EndOf(f[i]) \in SegBytes(f[i]) /\ f[i].vaddr \in SegBytes(f[i])
    BY <1>3, <1>4 DEF EndOf
  <1>6. \A i \in 1 .. Len(f) : \A a \in SegBytes(f[i]) : a \in Nat
    BY <1>3, <1>4 DEF EndOf
  <1>7. ASSUME NEW i \in 1 .. Len(f), NEW j \in 1 .. Len(f), i < j
        PROVE  EndOf(f[i]) < f[j].vaddr
    <2>1. f[i].vaddr + f[i].memsz =< f[j].vaddr
      BY <1>1, <1>2, <1>7
    <2>2. /\ f[i].vaddr \in Nat /\ f[i].memsz \in Nat \ {0}
          /\ f[j].vaddr \in Nat
      BY <1>3
    <2> QED
      BY <2>1, <2>2 DEF EndOf
  <1> QED
    BY <1>1, <1>2, <1>3, <1>4, <1>5, <1>6, <1>7

(* mm_malloc of pages of the program keeps the directory in order.         *)
LEMMA MallocDir ==
    ASSUME NEW d \in Dir, NEW V \in SUBSET Video, pf_idx \in KFrame .. NFrame,
           Placed(d, pf_idx, V), Unshared(d),
           NEW first \in Page, NEW last \in Page, first .. last \subseteq InUser,
           Taken(d, first, last) =< NFrame
    PROVE  LET m == Mapped(d, first, last)
           IN  Placed(m, Taken(d, first, last), V) /\ Unshared(m)
  <1> DEFINE m == Mapped(d, first, last)
             t == Taken(d, first, last)
  <1>1. /\ m \in Dir
        /\ t \in pf_idx .. NFrame
        /\ \A p \in Page : d[p] # NotPresent => m[p] = d[p]
        /\ \A p \in Page : d[p] = NotPresent /\ m[p] # NotPresent =>
               p \in first .. last /\ m[p] \in pf_idx .. t - 1
        /\ \A p, q \in Page : d[p] = NotPresent /\ d[q] = NotPresent /\ m[p] = m[q]
                               /\ m[p] # NotPresent => p = q
    BY MappedFrames
  <1> HIDE DEF m, t
  <1>2. KFrame \in Nat /\ pf_idx \in Nat /\ t \in Nat /\ pf_idx =< t /\ KFrame =< pf_idx
    BY <1>1, Layout
  <1>3. Placed(m, t, V)
    <2> SUFFICES ASSUME NEW p \in Page, m[p] # NotPresent
                 PROVE  \/ p \in High /\ m[p] = p - KPage
                        \/ p \in V /\ m[p] = p
                        \/ p \in InUser /\ m[p] \in KFrame .. t - 1
      BY DEF Placed
    <2>1. CASE d[p] = NotPresent
      BY <1>1, <1>2, <2>1
    <2>2. CASE d[p] # NotPresent
      BY <1>1, <1>2, <2>2 DEF Placed
    <2> QED
      BY <2>1, <2>2
  <1>4. Unshared(m)
    <2> SUFFICES ASSUME NEW p \in InUser, NEW q \in InUser, m[p] # NotPresent, m[p] = m[q]
                 PROVE  p = q
      BY DEF Unshared
    <2>1. p \in Page /\ q \in Page
      BY Layout
    <2>2. ASSUME NEW r \in InUser, r \in Page, d[r] # NotPresent
          PROVE  m[r] = d[r] /\ m[r] \in KFrame .. pf_idx - 1
      BY <1>1, <2>2, Layout DEF Placed
    <2>3. ASSUME NEW r \in Page, d[r] = NotPresent, m[r] # NotPresent
          PROVE  m[r] \in pf_idx .. t - 1
      BY <1>1, <2>3
    <2>4. CASE d[p] # NotPresent /\ d[q] # NotPresent
      BY <2>1, <2>2, <2>4 DEF Unshared
    <2>5. CASE d[p] = NotPresent /\ d[q] = NotPresent
      BY <1>1, <2>1, <2>5
    <2>6. CASE d[p] = NotPresent /\ d[q] # NotPresent
      BY <1>2, <2>1, <2>2, <2>3, <2>6
    <2>7. CASE d[p] # NotPresent /\ d[q] = NotPresent
      BY <1>2, <2>1, <2>2, <2>3, <2>7
    <2> QED
      BY <2>4, <2>5, <2>6, <2>7
  <1> QED
    BY <1>3, <1>4 DEF m, t
----------------------------------------------------------------------------
(* The steps of the kernel.                                                *)
LEMMA MapTypes ==
    /\ Empty \in Dir /\ KMap \in Dir
    /\ \A p \in High : KMap[p] = p - KPage
    /\ \A p \in Page : KMap[p] # NotPresent => p \in Frame \cup High
    /\ \A p \in Frame : KMap[p] = p
  BY Layout, LayoutAssumption DEF Empty, KMap, Dir, High, Frame, Page

LEMMA KInit == PagingInit => KInv
  <1> SUFFICES ASSUME PagingInit PROVE KInv
    OBVIOUS
  <1> USE DEF PagingInit
  <1>1. elf \in Elfs /\ Len(elf) \in Nat \ {0}
    BY Segments
  <1>2. KType
    BY <1>1, MapTypes, LayoutAssumption DEF KType, Boot, Frame
  <1>3. Stages
    BY DEF Stages
  <1>4. Placed(updir, pf_idx, VideoMapped) /\ Unshared(updir)
    BY Layout DEF Placed, Unshared, Empty
  <1>5. Newest /\ InCopy /\ Image(seg, updir) /\ HeapMapped
    BY DEF Newest, InCopy, Image, HeapMapped
  <1> QED
    BY <1>2, <1>3, <1>4, <1>5 DEF KInv

LEMMA KInitPage == ASSUME KInv, init_page PROVE KInv'
  <1> USE DEF init_page
  <1>1. kpdir' = KMap
    BY DEF KMap
  <1>2. KType'
    BY <1>1, MapTypes DEF KInv, KType, Boot
  <1>3. Stages'
    BY <1>1 DEF KInv, Stages
  <1>4. (Placed(updir, pf_idx, VideoMapped) /\ Unshared(updir))'
    BY DEF KInv, VideoMapped, Placed, Unshared
  <1>5. seg = 0
    BY DEF KInv, Stages
  <1>6. (Newest /\ InCopy /\ Image(seg, updir) /\ HeapMapped)'
    BY <1>5 DEF Newest, InCopy, Image, HeapMapped
  <1> QED
    BY <1>2, <1>3, <1>4, <1>6 DEF KInv

LEMMA KInitMm == ASSUME KInv, init_mm PROVE KInv'
  <1> USE DEF init_mm
  <1>1. kpdir = KMap /\ seg = 0 /\ kpdir \in Dir
    BY DEF KInv, Stages, KType
  <1>2. \A p \in Page : updir'[p] = IF p \in High THEN p - KPage ELSE NotPresent
    BY <1>1, MapTypes
  <1>3. updir' \in Dir
    BY <1>1 DEF Dir
  <1>4. KType'
    BY <1>3 DEF KInv, KType, Boot
  <1>5. Stages'
    BY <1>1 DEF KInv, Stages
  <1>6. (Placed(updir, pf_idx, VideoMapped) /\ Unshared(updir))'
    BY <1>2, Layout DEF Placed, Unshared
  <1>7. (Newest /\ InCopy /\ Image(seg, updir) /\ HeapMapped)'
    BY <1>1, <1>2, Layout DEF Newest, InCopy, Image, HeapMapped
  <1> QED
    BY <1>4, <1>5, <1>6, <1>7 DEF KInv

(* A range of bytes of a segment spans its pages.                          *)
LEMMA SegPages ==
    ASSUME NEW f \in Elfs, NEW i \in 1 .. Len(f)
    PROVE  LET first == PageOf(f[i].vaddr)
               last  == PageOf(EndOf(f[i]))
           IN  /\ first \in UserPage /\ last \in UserPage /\ first =< last
               /\ first .. last \subseteq UserPage
               /\ \A v \in SegBytes(f[i]) : PageOf(v) \in first .. last
  <1> DEFINE first == PageOf(f[i].vaddr)
             last  == PageOf(EndOf(f[i]))
  <1>1. /\ f[i].vaddr \in Nat /\ EndOf(f[i]) \in Nat /\ first \in UserPage /\ last \in UserPage
        /\ SegBytes(f[i]) = f[i].vaddr .. EndOf(f[i])
        /\ f[i].vaddr =< EndOf(f[i])
    BY Segments DEF EndOf
  <1>2. first \in Nat /\ last \in Nat
    BY <1>1, Split
  <1>3. first =< last
    BY <1>1, Ascend
  <1>4. first .. last \subseteq UserPage
    BY <1>1, UserConvex
  <1>5. ASSUME NEW v \in SegBytes(f[i]) PROVE PageOf(v) \in first .. last
    <2>1. v \in Nat /\ f[i].vaddr =< v /\ v =< EndOf(f[i])
      BY <1>1
    <2>2. PageOf(v) \in Nat /\ first =< PageOf(v) /\ PageOf(v) =< last
      BY <1>1, <2>1, Ascend, Split
    <2> QED
      BY <1>2, <2>2
  <1> QED
    BY <1>1, <1>3, <1>4, <1>5

(* Consecutive frames carry consecutive bytes.                             *)
LEMMA Consecutive ==
    ASSUME NEW a \in Nat, NEW v \in Nat, NEW f \in Nat, NEW g \in Nat,
           PageOf(a) =< PageOf(v), g = f + (PageOf(v) - PageOf(a))
    PROVE  f * B + (a % B) + (v - a) = g * B + (v % B)
  <1>1. PageOf(a) \in Nat /\ a % B \in Nat /\ a = PageOf(a) * B + (a % B)
    BY Split
  <1>2. PageOf(v) \in Nat /\ v % B \in Nat /\ v = PageOf(v) * B + (v % B)
    BY Split
  <1>3. /\ PageOf(a) * B \in Nat /\ PageOf(v) * B \in Nat /\ f * B \in Nat
    BY <1>1, <1>2, LayoutAssumption
  <1>4. g * B = f * B + PageOf(v) * B - PageOf(a) * B
    BY <1>1, <1>2, LayoutAssumption
  <1> QED
    BY <1>1, <1>2, <1>3, <1>4
(* A place in the image stays mapped when the directory grows.             *)
LEMMA ImageGrows ==
    ASSUME NEW d, NEW m, NEW n \in 0 .. Len(elf), elf \in Elfs, Image(n, d),
           \A p \in UserPage : d[p] # NotPresent => m[p] = d[p]
    PROVE  Image(n, m)
  <1> SUFFICES ASSUME NEW i \in 1 .. n, NEW a \in SegBytes(elf[i])
               PROVE  /\ m[PageOf(a)] # NotPresent
                      /\ content[m[PageOf(a)] * B + (a % B)] = a
    BY DEF Image
  <1>1. i \in 1 .. Len(elf)
    BY Segments
  <1>2. PageOf(a) \in UserPage
    BY <1>1, Segments
  <1> QED
    BY <1>2 DEF Image

LEMMA KLoaderMalloc == ASSUME KInv, loader_malloc PROVE KInv'
  <1> USE DEF loader_malloc, mm_malloc
  <1> DEFINE s == elf[seg + 1]
             first == PageOf(s.vaddr)
             last  == PageOf(EndOf(s))
             m == Mapped(updir, first, last)
             t == Taken(updir, first, last)
  <1>1. /\ elf \in Elfs /\ seg \in Nat /\ seg + 1 \in 1 .. Len(elf) /\ Len(elf) \in Nat
        /\ seg \in 0 .. Len(elf)
    BY Segments DEF KInv, KType
  <1>2. /\ first \in UserPage /\ last \in UserPage /\ first =< last
        /\ first .. last \subseteq UserPage
        /\ \A v \in SegBytes(s) : PageOf(v) \in first .. last
    BY <1>1, SegPages
  <1>3. /\ first \in Page /\ last \in Page /\ UserPage \subseteq InUser
        /\ first .. last \subseteq InUser /\ first .. last \subseteq Page
        /\ first \in Nat /\ last \in Nat
    BY <1>2, Layout DEF InUser
  <1>4. /\ s.vaddr \in Nat /\ s.memsz \in Nat \ {0} /\ EndOf(s) \in Nat
        /\ SegBytes(s) = s.vaddr .. EndOf(s)
        /\ s.vaddr \in SegBytes(s) /\ EndOf(s) \in SegBytes(s)
    BY <1>1, Segments DEF EndOf
  <1>5. /\ t =< NFrame /\ updir' = m /\ pf_idx' = t
        /\ base' = m[first] * B + (s.vaddr % B)
    BY DEF EndOf
  <1>6. /\ updir \in Dir /\ pf_idx \in KFrame .. NFrame /\ pf_idx \in Nat
        /\ Placed(updir, pf_idx, {}) /\ Unshared(updir)
    BY Layout DEF KInv, KType, VideoMapped
  <1>7. /\ m \in Dir
        /\ t \in pf_idx .. NFrame
        /\ \A p \in Page : updir[p] # NotPresent => m[p] = updir[p]
        /\ \A p \in Page : p \notin first .. last => m[p] = updir[p]
        /\ \A p \in first .. last : m[p] # NotPresent
    BY <1>3, <1>5, <1>6, MappedFrames
  <1>8. Placed(m, t, {}) /\ Unshared(m)
    BY <1>3, <1>5, <1>6, MallocDir
  (* The pages of the range are absent, but for a first page that holds    *)
  (* the end of the segment before.                                        *)
  <1>9. ASSUME NEW p \in InUser, updir[p] # NotPresent
        PROVE  p =< first /\ (p = first => updir[first] = pf_idx - 1)
    <2>1. /\ seg > 0 /\ p =< PageOf(EndOf(elf[seg]))
          /\ updir[PageOf(EndOf(elf[seg]))] = pf_idx - 1
      BY <1>1, <1>9 DEF KInv, Newest
    <2>2. seg \in 1 .. Len(elf) /\ seg < seg + 1
      BY <1>1, <2>1
    <2>3. EndOf(elf[seg]) < s.vaddr /\ EndOf(elf[seg]) \in Nat
      <3>1. EndOf(elf[seg]) < s.vaddr
        BY <1>1, <2>2, Segments
      <3>2. EndOf(elf[seg]) \in SegBytes(elf[seg])
        BY <1>1, <2>2, Segments
      <3>3. EndOf(elf[seg]) \in Nat
        BY <1>1, <2>2, <3>2, Segments
      <3> QED
        BY <3>1, <3>3
    <2>4. PageOf(EndOf(elf[seg])) =< first /\ PageOf(EndOf(elf[seg])) \in Nat
      <3> DEFINE e == EndOf(elf[seg])
      <3>1. e \in Nat /\ s.vaddr \in Nat /\ e =< s.vaddr
        BY <1>4, <2>3
      <3> HIDE DEF e, s
      <3>2. PageOf(e) =< PageOf(s.vaddr) /\ PageOf(e) \in Nat
        BY <3>1, Ascend, Split
      <3> QED
        BY <3>2 DEF e
    <2>5. p \in Nat
      BY Layout
    <2> HIDE DEF first
    <2> QED
      BY <1>3, <2>1, <2>4, <2>5
  <1>10. /\ \A p \in first .. last : m[p] = m[first] + (p - first)
         /\ m[last] = t - 1
    <2>1. \A p \in first .. last : p # first => updir[p] = NotPresent
      BY <1>3, <1>9
    <2>2. updir[first] # NotPresent => updir[first] = pf_idx - 1
      BY <1>2, <1>3, <1>9
    <2> QED
      BY <1>2, <1>3, <1>6, <2>1, <2>2, MappedRun
  <1>11. m[first] \in Nat /\ first \in first .. last /\ \A p \in first .. last : m[p] \in Nat
    BY <1>2, <1>3, <1>7, LayoutAssumption DEF Dir, Frame
  <1>12. s.vaddr % B \in Nat
    BY <1>4, Split
  <1> HIDE DEF m, t, first, last
  <1>13. KType'
    <2>1. base' \in Nat
      BY <1>5, <1>11, <1>12, LayoutAssumption, SMTT(30)
    <2>2. t \in KFrame .. NFrame
      BY <1>6, <1>7, Layout
    <2> QED
      BY <1>5, <1>7, <2>1, <2>2 DEF KInv, KType, Boot
  <1>14. Stages'
    BY <1>1, <1>4 DEF KInv, Stages
  <1>15. (Placed(updir, pf_idx, VideoMapped) /\ Unshared(updir))'
    BY <1>5, <1>8 DEF VideoMapped
  <1>16. Newest'
    <2>1. ASSUME NEW p \in InUser, m[p] # NotPresent PROVE p =< last
      <3>1. p \in Page /\ p \in Nat
        BY Layout
      <3>2. CASE p \in first .. last
        BY <1>3, <3>2
      <3>3. CASE p \notin first .. last
        BY <1>2, <1>3, <1>7, <1>9, <2>1, <3>1, <3>3
      <3> QED
        BY <3>2, <3>3
    <2> QED
      BY <1>1, <1>5, <1>10, <2>1 DEF Newest, last
  <1>17. InCopy'
    <2> SUFFICES ASSUME NEW v \in SegBytes(s)
                 PROVE  m[PageOf(v)] # NotPresent /\
                        base' + (v - s.vaddr) = m[PageOf(v)] * B + (v % B)
      BY <1>4, <1>5, SMTT(30) DEF InCopy
    <2>1. PageOf(v) \in first .. last /\ v \in Nat /\ v >= s.vaddr
      BY <1>2, <1>4
    <2>2. m[PageOf(v)] = m[first] + (PageOf(v) - first) /\ m[PageOf(v)] \in Nat
      BY <1>10, <1>11, <2>1
    <2>3. first =< PageOf(v)
      BY <1>3, <2>1
    <2>4. m[first] * B + (s.vaddr % B) + (v - s.vaddr) = m[PageOf(v)] * B + (v % B)
      BY <1>4, <1>11, <2>1, <2>2, <2>3, Consecutive, SMTT(30) DEF first
    <2> QED
      BY <1>5, <1>7, <2>1, <2>4
  <1>18. Image(seg, updir)'
    <2>1. \A p \in UserPage : updir[p] # NotPresent => m[p] = updir[p]
      BY <1>3, <1>7, Layout
    <2>2. Image(seg, m)
      BY <1>1, <2>1, ImageGrows DEF KInv
    <2> QED
      BY <1>5, <2>2 DEF Image
  <1>19. HeapMapped'
    BY DEF HeapMapped
  <1> QED
    BY <1>13, <1>14, <1>15, <1>16, <1>17, <1>18, <1>19 DEF KInv

(* A byte the loader stores is where the directory puts it, and no byte    *)
(* that is there already is overwritten.                                   *)
LEMMA StorePlace ==
    ASSUME KInv, stage = "copy",
           NEW i \in 1 .. seg + 1, NEW a \in SegBytes(elf[i]), updir[PageOf(a)] # NotPresent
    PROVE  LET s == elf[seg + 1]
           IN  /\ s.vaddr + done \in SegBytes(s)
               /\ base + done \in DOMAIN content
               /\ updir[PageOf(a)] * B + (a % B) \in DOMAIN content
               /\ updir[PageOf(a)] * B + (a % B) = base + done => a = s.vaddr + done
  <1> DEFINE s == elf[seg + 1]
             v == s.vaddr + done
  <1>1. /\ elf \in Elfs /\ seg \in Nat /\ seg + 1 \in 1 .. Len(elf) /\ i \in 1 .. Len(elf)
        /\ done \in Nat /\ done < s.memsz /\ updir \in Dir
        /\ DOMAIN content = 0 .. NFrame * B - 1
    <2>1. /\ elf \in Elfs /\ seg \in 0 .. Len(elf) /\ done \in Nat /\ updir \in Dir
          /\ DOMAIN content = 0 .. NFrame * B - 1
      BY DEF KInv, KType
    <2>2. seg < Len(elf) /\ done < s.memsz
      BY DEF KInv, Stages
    <2>3. Len(elf) \in Nat
      BY <2>1, Segments
    <2> QED
      BY <2>1, <2>2, <2>3
  <1>2. v \in SegBytes(s) /\ v - s.vaddr = done
    <2>1. s.vaddr \in Nat /\ s.memsz \in Nat /\ SegBytes(s) = s.vaddr .. s.vaddr + s.memsz - 1
      BY <1>1, Segments DEF SegBytes
    <2> QED
      BY <1>1, <2>1
  <1>3. /\ updir[PageOf(v)] # NotPresent
        /\ base + done = updir[PageOf(v)] * B + (v % B)
    BY <1>2 DEF KInv, InCopy
  <1>4. /\ v \in Nat /\ a \in Nat /\ PageOf(v) \in UserPage /\ PageOf(a) \in UserPage
    BY <1>1, <1>2, Segments
  <1>5. /\ PageOf(v) \in InUser /\ PageOf(a) \in InUser
        /\ PageOf(v) \in Page /\ PageOf(a) \in Page
    BY <1>4, Layout DEF InUser
  <1>6. updir[PageOf(v)] \in Frame /\ updir[PageOf(a)] \in Frame
    BY <1>1, <1>3, <1>5 DEF Dir
  <1>7. Frame = 0 .. NFrame - 1 /\ NFrame \in Nat
    BY LayoutAssumption DEF Frame
  <1>8. v % B \in 0 .. B - 1 /\ a % B \in 0 .. B - 1
    BY <1>4, Split
  <1>9. /\ updir[PageOf(v)] * B + (v % B) \in 0 .. NFrame * B - 1
        /\ updir[PageOf(a)] * B + (a % B) \in 0 .. NFrame * B - 1
    BY <1>6, <1>7, <1>8, InRange
  <1>10. ASSUME updir[PageOf(a)] * B + (a % B) = updir[PageOf(v)] * B + (v % B)
         PROVE  a = v
    <2>1. updir[PageOf(a)] = updir[PageOf(v)] /\ a % B = v % B
      <3> DEFINE f == updir[PageOf(a)]
                 g == updir[PageOf(v)]
                 j == a % B
                 k == v % B
      <3>1. f \in Nat /\ g \in Nat /\ j \in 0 .. B - 1 /\ k \in 0 .. B - 1
            /\ f * B + j = g * B + k
        BY <1>6, <1>7, <1>8, <1>10
      <3> HIDE DEF f, g, j, k
      <3>2. f = g /\ j = k
        BY <3>1, SplitUnique
      <3> QED
        BY <3>2 DEF f, g, j, k
    <2>2. PageOf(a) = PageOf(v)
      BY <1>3, <1>5, <2>1 DEF KInv, Unshared
    <2>3. a = PageOf(a) * B + (a % B)
      BY <1>4, Split
    <2>4. v = PageOf(v) * B + (v % B)
      BY <1>4, Split
    <2> QED
      BY <2>1, <2>2, <2>3, <2>4
  <1> QED
    BY <1>1, <1>2, <1>3, <1>9, <1>10

LEMMA KLoaderStore ==
    ASSUME KInv, stage = "copy", loader_store(base + done) PROVE KInv'
  <1> DEFINE s == elf[seg + 1]
             v == s.vaddr + done
             pa == base + done
  <1>1. /\ elf \in Elfs /\ seg \in Nat /\ seg + 1 \in 1 .. Len(elf) /\ Len(elf) \in Nat
        /\ done \in Nat /\ done < s.memsz /\ base \in Nat
        /\ content \in [0 .. NFrame * B - 1 -> Nat \cup {NotPresent}]
    BY Segments DEF KInv, KType, Stages
  <1>2. /\ content' = [content EXCEPT ![pa] = v]
        /\ UNCHANGED <<kpdir, updir, cr3, pf_idx, elf, base>>
    BY DEF loader_store
  <1>3. /\ s.vaddr \in Nat /\ s.memsz \in Nat \ {0} /\ EndOf(s) \in Nat
        /\ SegBytes(s) = s.vaddr .. EndOf(s) /\ EndOf(s) = s.vaddr + s.memsz - 1
    BY <1>1, Segments DEF EndOf
  <1>4. v \in SegBytes(s) /\ v \in Nat
    BY <1>1, <1>3, SMTT(30)
  <1>5. \A b \in SegBytes(s) :
           /\ updir[PageOf(b)] # NotPresent
           /\ base + (b - s.vaddr) = updir[PageOf(b)] * B + (b % B)
    BY DEF KInv, InCopy
  <1>6. pa \in 0 .. NFrame * B - 1
    <2>1. updir[PageOf(v)] # NotPresent /\ seg + 1 \in 1 .. seg + 1
      BY <1>1, <1>4, <1>5
    <2>2. DOMAIN content = 0 .. NFrame * B - 1
      BY <1>1
    <2> QED
      BY <1>4, <2>1, <2>2, StorePlace
  <1>7. content'[pa] = v
    BY <1>1, <1>2, <1>6
  (* What was in place stays in place.                                     *)
  <1>8. ASSUME NEW i \in 1 .. seg + 1, NEW a \in SegBytes(elf[i]),
               updir[PageOf(a)] # NotPresent,
               content[updir[PageOf(a)] * B + (a % B)] = a
        PROVE  content'[updir[PageOf(a)] * B + (a % B)] = a
    <2> DEFINE x == updir[PageOf(a)] * B + (a % B)
    <2>1. x \in DOMAIN content /\ (x = pa => a = v)
      BY <1>8, StorePlace
    <2> HIDE DEF x, v, pa
    <2>2. content'[x] = a
      BY <1>1, <1>2, <1>7, <1>8, <2>1 DEF x
    <2> QED
      BY <2>2 DEF x
  <1>9. \A b \in s.vaddr .. v :
           b \in SegBytes(s) /\ content'[base + (b - s.vaddr)] = b
    <2> SUFFICES ASSUME NEW b \in s.vaddr .. v
                 PROVE  b \in SegBytes(s) /\ content'[base + (b - s.vaddr)] = b
      OBVIOUS
    <2>1. b \in SegBytes(s) /\ b \in Nat
      BY <1>1, <1>3, SMTT(30)
    <2>2. CASE b = v
      <3>1. base + (b - s.vaddr) = pa
        BY <1>1, <1>3, <2>2
      <3> QED
        BY <1>7, <2>1, <2>2, <3>1
    <2>3. CASE b # v
      <3>1. b \in s.vaddr .. s.vaddr + done - 1
        BY <1>1, <1>3, <2>3, SMTT(30)
      <3>2. content[base + (b - s.vaddr)] = b
        BY <3>1 DEF KInv, InCopy
      <3>3. /\ updir[PageOf(b)] # NotPresent
            /\ base + (b - s.vaddr) = updir[PageOf(b)] * B + (b % B)
        BY <1>5, <2>1
      <3>4. seg + 1 \in 1 .. seg + 1
        BY <1>1
      <3>5. content[updir[PageOf(b)] * B + (b % B)] = b
        BY <3>2, <3>3
      <3>6. content'[updir[PageOf(b)] * B + (b % B)] = b
        BY <1>8, <2>1, <3>3, <3>4, <3>5
      <3> QED
        BY <2>1, <3>3, <3>6
    <2> QED
      BY <2>2, <2>3
  <1>10. content' \in [0 .. NFrame * B - 1 -> Nat \cup {NotPresent}]
    BY <1>1, <1>2, <1>4
  <1>11. Image(seg, updir)'  \/ seg' = seg + 1
    <2>1. CASE seg' = seg
      BY <1>1, <1>2, <1>8, <2>1 DEF KInv, Image
    <2> QED
      BY <2>1 DEF loader_store
  <1>12. (Placed(updir, pf_idx, VideoMapped) /\ Unshared(updir))'
    BY <1>2 DEF KInv, VideoMapped, Placed, Unshared, loader_store
  <1>13. CASE done + 1 < s.memsz
    <2>1. done' = done + 1 /\ UNCHANGED <<seg, brk, stage>>
      BY <1>13 DEF loader_store
    <2>2. KType'
      BY <1>1, <1>2, <1>10, <2>1 DEF KInv, KType
    <2>3. Stages'
      BY <1>2, <1>13, <2>1 DEF KInv, Stages
    <2>4. Newest'
      BY <1>2, <2>1 DEF KInv, Newest
    <2>5. InCopy'
      <3>1. s.vaddr + (done + 1) - 1 = v
        BY <1>1, <1>3
      <3> QED
        BY <1>2, <1>5, <1>9, <2>1, <3>1 DEF InCopy
    <2>6. Image(seg, updir)' /\ HeapMapped'
      BY <1>11, <1>1, <2>1 DEF HeapMapped
    <2> QED
      BY <1>12, <2>2, <2>3, <2>4, <2>5, <2>6 DEF KInv
  <1>14. CASE ~(done + 1 < s.memsz)
    <2>1. /\ done' = 0 /\ seg' = seg + 1 /\ stage' = "loader"
          /\ brk' = IF brk < EndOf(s) THEN EndOf(s) ELSE brk
      BY <1>14 DEF loader_store, EndOf
    <2>2. v = EndOf(s)
      BY <1>1, <1>3, <1>14
    <2>3. brk' = EndOf(s)
      <3>1. brk = IF seg = 0 THEN 0 ELSE EndOf(elf[seg])
        BY DEF KInv, Stages
      <3>2. CASE seg = 0
        BY <1>3, <2>1, <3>1, <3>2
      <3>3. CASE seg # 0
        <4>1. seg \in 1 .. Len(elf) /\ seg < seg + 1
          BY <1>1, <3>3
        <4>2. EndOf(elf[seg]) < s.vaddr /\ EndOf(elf[seg]) \in Nat
          <5>1. EndOf(elf[seg]) < s.vaddr
            BY <1>1, <4>1, Segments
          <5>2. EndOf(elf[seg]) \in SegBytes(elf[seg])
            BY <1>1, <4>1, Segments
          <5> QED
            BY <1>1, <4>1, <5>1, <5>2, Segments
        <4>3. EndOf(elf[seg]) < EndOf(s)
          BY <1>3, <4>2
        <4> QED
          BY <2>1, <3>1, <3>3, <4>3
      <3> QED
        BY <3>2, <3>3
    <2>4. KType'
      <3>1. seg + 1 \in 0 .. Len(elf)
        BY <1>1
      <3> QED
        BY <1>1, <1>2, <1>3, <1>10, <2>1, <2>3, <3>1 DEF KInv, KType, Boot
    <2>5. Stages'
      BY <1>1, <1>2, <2>1, <2>3 DEF KInv, Stages
    <2>6. Newest'
      BY <1>2, <2>1 DEF KInv, Newest
    <2>7. Image(seg, updir)'
      <3> SUFFICES ASSUME NEW i \in 1 .. seg + 1, NEW a \in SegBytes(elf[i])
                   PROVE  /\ updir[PageOf(a)] # NotPresent
                          /\ content'[updir[PageOf(a)] * B + (a % B)] = a
        BY <1>2, <2>1 DEF Image
      <3>1. CASE i = seg + 1
        <4>1. a \in s.vaddr .. v /\ a \in SegBytes(s)
          BY <1>3, <2>2, <3>1
        <4> QED
          BY <1>5, <1>9, <4>1
      <3>2. CASE i # seg + 1
        <4>1. i \in 1 .. seg
          BY <1>1, <3>2
        <4>2. updir[PageOf(a)] # NotPresent /\ content[updir[PageOf(a)] * B + (a % B)] = a
          BY <4>1 DEF KInv, Image
        <4> QED
          BY <1>8, <4>2
      <3> QED
        BY <3>1, <3>2
    <2>8. InCopy' /\ HeapMapped'
      BY <2>1 DEF InCopy, HeapMapped
    <2> QED
      BY <1>12, <2>4, <2>5, <2>6, <2>7, <2>8 DEF KInv
  <1> QED
    BY <1>13, <1>14

LEMMA KLoaderEnd == ASSUME KInv, loader_end PROVE KInv'
  <1> USE DEF loader_end
  <1> DEFINE first == StackFirst
             last  == KPage - 1
             m == Mapped(updir, first, last)
             t == Taken(updir, first, last)
  <1>1. /\ elf \in Elfs /\ Len(elf) \in Nat \ {0} /\ seg = Len(elf)
        /\ seg \in 0 .. Len(elf) /\ seg \in 1 .. Len(elf)
        /\ updir \in Dir /\ pf_idx \in KFrame .. NFrame
        /\ Placed(updir, pf_idx, {}) /\ Unshared(updir)
    BY Segments DEF KInv, KType, VideoMapped
  <1>2. /\ first \in Page /\ last \in Page /\ first .. last \subseteq InUser
    BY Layout
  <1>3. t =< NFrame /\ updir' = WithVideo(m) /\ pf_idx' = t
    OBVIOUS
  <1>4. /\ m \in Dir
        /\ t \in pf_idx .. NFrame
        /\ \A p \in Page : updir[p] # NotPresent => m[p] = updir[p]
    BY <1>1, <1>2, <1>3, MappedFrames
  <1>5. Placed(m, t, {}) /\ Unshared(m)
    BY <1>1, <1>2, <1>3, MallocDir
  <1> HIDE DEF m, t, first, last
  <1>6. \A p \in Page : updir'[p] = IF p \in Video THEN p
                                     ELSE IF p < NPT THEN NotPresent ELSE m[p]
    BY <1>3 DEF WithVideo
  <1>7. \A p \in InUser : p \in Page /\ updir'[p] = m[p]
    <2> SUFFICES ASSUME NEW p \in InUser PROVE p \in Page /\ updir'[p] = m[p]
      OBVIOUS
    <2>1. p \in Page /\ p \notin Video /\ p >= NPT /\ p \in Nat
      BY Layout
    <2>2. ~(p < NPT)
      BY <2>1, LayoutAssumption
    <2> QED
      BY <1>6, <2>1, <2>2
  <1>8. updir' \in Dir
    <2>1. updir' = [p \in Page |-> updir'[p]]
      BY <1>3 DEF WithVideo
    <2>2. ASSUME NEW p \in Page PROVE updir'[p] \in Frame \cup {NotPresent}
      <3>1. Video \subseteq Frame
        BY KernelAssumption, LayoutAssumption DEF Frame
      <3> QED
        BY <1>4, <1>6, <3>1 DEF Dir
    <2> QED
      BY <2>1, <2>2 DEF Dir
  <1>9. KType'
    <2>1. t \in KFrame .. NFrame
      BY <1>1, <1>4, Layout
    <2> QED
      BY <1>3, <1>8, <2>1 DEF KInv, KType, Boot
  <1>10. brk = EndOf(elf[Len(elf)]) /\ PageOf(brk) \in UserPage
    <2>1. brk = EndOf(elf[Len(elf)])
      BY <1>1 DEF KInv, Stages
    <2>2. EndOf(elf[Len(elf)]) \in SegBytes(elf[Len(elf)])
      BY <1>1, Segments
    <2> QED
      BY <1>1, <2>1, <2>2, Segments
  <1>11. Stages'
    <2>1. kpdir = KMap
      BY DEF KInv, Stages
    <2> QED
      BY <1>1, <1>10, <2>1 DEF Stages
  <1>12. Placed(updir, pf_idx, VideoMapped)'
    <2> SUFFICES ASSUME NEW p \in Page, updir'[p] # NotPresent
                 PROVE  \/ p \in High /\ updir'[p] = p - KPage
                        \/ p \in Video /\ updir'[p] = p
                        \/ p \in InUser /\ updir'[p] \in KFrame .. t - 1
      BY <1>3 DEF Placed, VideoMapped
    <2>1. CASE p \in Video
      BY <1>6, <2>1
    <2>2. CASE p \notin Video
      <3>1. updir'[p] = m[p]
        BY <1>6, <2>2
      <3> QED
        BY <1>5, <3>1 DEF Placed
    <2> QED
      BY <2>1, <2>2
  <1>13. Unshared(updir)'
    BY <1>5, <1>7 DEF Unshared
  <1>14. Image(seg, updir)'
    <2>1. \A p \in UserPage : updir[p] # NotPresent => updir'[p] = updir[p]
      <3>1. UserPage \subseteq InUser
        BY DEF InUser
      <3> QED
        BY <1>4, <1>7, <3>1
    <2>2. Image(seg, updir')
      BY <1>1, <2>1, ImageGrows DEF KInv
    <2> QED
      BY <2>2 DEF Image
  <1>15. Newest' /\ InCopy'
    BY DEF Newest, InCopy
  <1>16. HeapMapped'
    <2>1. ImageEnd' = brk' /\ brk' \in Nat
      BY <1>10 DEF ImageEnd, EndOf, KInv, KType
    <2>2. ImageEnd' .. brk' - 1 = {}
      BY <2>1
    <2> QED
      BY <2>2 DEF HeapMapped
  <1> QED
    BY <1>9, <1>11, <1>12, <1>13, <1>14, <1>15, <1>16 DEF KInv

LEMMA KBrk == ASSUME KInv, NEW b \in Brks, mm_brk(b) PROVE KInv'
  <1> USE DEF mm_brk
  <1> DEFINE first == PageOf(brk)
             last  == PageOf(b - 1)
             m == Mapped(updir, first, last)
             t == Taken(updir, first, last)
  <1>1. /\ elf \in Elfs /\ Len(elf) \in Nat \ {0} /\ seg = Len(elf)
        /\ seg \in 0 .. Len(elf)
        /\ updir \in Dir /\ pf_idx \in KFrame .. NFrame /\ pf_idx \in Nat
        /\ Placed(updir, pf_idx, Video) /\ Unshared(updir)
        /\ brk \in Nat /\ PageOf(brk) \in UserPage /\ kpdir = KMap /\ cr3 = "updir"
    BY Segments, Layout DEF KInv, KType, VideoMapped, Stages
  <1>2. b \in Nat /\ PageOf(b) \in UserPage
    BY UserAssumption
  <1>3. stage' = "user" /\ brk' = b /\ UNCHANGED <<kpdir, cr3, elf, seg, done, base, content>>
    OBVIOUS
  <1>4. ImageEnd \in Nat
    <2>1. ImageEnd = EndOf(elf[Len(elf)]) /\ Len(elf) \in 1 .. Len(elf)
      BY <1>1 DEF ImageEnd, EndOf
    <2>2. EndOf(elf[Len(elf)]) \in SegBytes(elf[Len(elf)])
      BY <1>1, <2>1, Segments
    <2> QED
      BY <1>1, <2>1, <2>2, Segments
  <1>5. Newest' /\ InCopy'
    BY DEF Newest, InCopy
  <1>6. Stages'
    BY <1>1, <1>2 DEF Stages
  <1>7. CASE ~(b > brk)
    <2>1. UNCHANGED <<updir, pf_idx>>
      BY <1>7
    <2>2. KType'
      BY <1>2, <2>1 DEF KInv, KType
    <2>3. (Placed(updir, pf_idx, VideoMapped) /\ Unshared(updir))'
      BY <2>1 DEF KInv, VideoMapped, Placed, Unshared
    <2>4. Image(seg, updir)'
      BY <2>1 DEF KInv, Image
    <2>5. HeapMapped'
      <3>1. ImageEnd' = ImageEnd
        BY DEF ImageEnd
      <3>2. \A a \in ImageEnd .. b - 1 : a \in ImageEnd .. brk - 1
        BY <1>1, <1>2, <1>4, <1>7
      <3> QED
        BY <2>1, <3>1, <3>2 DEF KInv, HeapMapped
    <2> QED
      BY <1>5, <1>6, <2>2, <2>3, <2>4, <2>5 DEF KInv
  <1>8. CASE b > brk
    <2>1. b - 1 \in Nat /\ brk =< b - 1 /\ b - 1 =< b /\ brk + (b - brk) - 1 = b - 1
      BY <1>1, <1>2, <1>8
    <2>2. t =< NFrame /\ updir' = m /\ pf_idx' = t
      BY <1>8, <2>1 DEF mm_malloc
    <2>3. /\ first \in Nat /\ last \in Nat /\ PageOf(b) \in Nat
          /\ first =< last /\ last =< PageOf(b)
      <3>1. first \in Nat /\ last \in Nat /\ PageOf(b) \in Nat
        BY <1>1, <1>2, <2>1, Split
      <3>2. first =< last
        BY <1>1, <2>1, Ascend
      <3>3. last =< PageOf(b)
        BY <1>2, <2>1, Ascend
      <3> QED
        BY <3>1, <3>2, <3>3
    <2>4. first .. PageOf(b) \subseteq UserPage /\ UserPage \subseteq Page
      BY <1>1, <1>2, UserConvex
    <2>5. first \in Page /\ last \in Page /\ first .. last \subseteq InUser
      BY <2>3, <2>4 DEF InUser
    <2>6. /\ m \in Dir
          /\ t \in pf_idx .. NFrame
          /\ \A p \in Page : updir[p] # NotPresent => m[p] = updir[p]
          /\ \A p \in first .. last : m[p] # NotPresent
      BY <1>1, <2>2, <2>5, MappedFrames
    <2>7. Placed(m, t, Video) /\ Unshared(m)
      BY <1>1, <2>2, <2>5, MallocDir
    <2> HIDE DEF m, t, first, last
    <2>8. KType'
      <3>1. t \in KFrame .. NFrame
        BY <1>1, <2>6, Layout
      <3> QED
        BY <1>2, <2>2, <2>6, <3>1 DEF KInv, KType
    <2>9. (Placed(updir, pf_idx, VideoMapped) /\ Unshared(updir))'
      BY <1>3, <2>2, <2>7 DEF VideoMapped
    <2>10. Image(seg, updir)'
      <3>1. \A p \in UserPage : updir[p] # NotPresent => m[p] = updir[p]
        BY <2>4, <2>6
      <3>2. Image(seg, m)
        BY <1>1, <3>1, ImageGrows DEF KInv
      <3> QED
        BY <2>2, <3>2 DEF Image
    <2>11. HeapMapped'
      <3> SUFFICES ASSUME NEW a \in ImageEnd .. b - 1 PROVE m[PageOf(a)] # NotPresent
        BY <2>2 DEF HeapMapped, ImageEnd
      <3>1. a \in Nat /\ a =< b - 1
        BY <1>2, <1>4
      <3>2. PageOf(a) \in Nat /\ PageOf(a) =< last
        BY <2>1, <3>1, Ascend, Split DEF last
      <3>3. CASE a < brk
        <4>1. a \in ImageEnd .. brk - 1
          BY <1>1, <1>4, <3>1, <3>3
        <4>2. updir[PageOf(a)] # NotPresent
          BY <4>1 DEF KInv, HeapMapped
        <4>3. PageOf(a) \in Page
          BY <2>5, <3>2, LayoutAssumption DEF Page
        <4> QED
          BY <2>6, <4>2, <4>3
      <3>4. CASE ~(a < brk)
        <4>1. brk =< a
          BY <1>1, <3>1, <3>4
        <4>2. first =< PageOf(a)
          BY <1>1, <3>1, <4>1, Ascend DEF first
        <4> QED
          BY <2>3, <2>6, <3>2, <4>2
      <3> QED
        BY <3>3, <3>4
    <2> QED
      BY <1>5, <1>6, <2>8, <2>9, <2>10, <2>11 DEF KInv
  <1> QED
    BY <1>7, <1>8

----------------------------------------------------------------------------
(* The TLB.                                                                *)
Entry == [key : Page \cup {NotPresent}, pte : Frame]

(* The pages touched while the kernel's directory is in force.  Both       *)
(* directories agree on them, where the program's has them at all.         *)
KTouched == LowKernel \cup (KFrame .. NFrame - 1) \cup High

(* What an entry may hold.                                                 *)
Sound(e) ==
    e.key # NotPresent =>
       \/ e.key \in KTouched /\ e.pte = KMap[e.key]
       \/ cr3 = "updir" /\ updir[e.key] # NotPresent /\ e.pte = updir[e.key]

Filled(t) == t \in [Slot -> Entry] /\ \A i \in Slot : Sound(t[i])

TInv == KInv /\ Filled(tlb)

----------------------------------------------------------------------------
LEMMA Touching ==
    /\ KTouched \subseteq Page /\ KTouched \cap InUser = {}
    /\ LowKernel \subseteq Frame /\ Video \subseteq Frame
    /\ NFrame * B =< NPage * B
  <1>1. LowKernel \subseteq Frame /\ Video \subseteq Frame
    BY KernelAssumption, LayoutAssumption DEF Frame
  <1>2. KTouched \subseteq Page /\ KTouched \cap InUser = {}
    BY <1>1, Layout, LayoutAssumption DEF KTouched, Frame
  <1>3. NFrame * B =< NPage * B
    BY LayoutAssumption
  <1> QED
    BY <1>1, <1>2, <1>3

(* A sound entry agrees with the tables in force.                          *)
LEMMA Agrees ==
    ASSUME KInv, cr3 # "off", NEW e \in Entry, Sound(e), e.key # NotPresent,
           Walk(e.key) # NotPresent
    PROVE  e.pte = Walk(e.key)
  <1>1. e.key \in Page
    BY DEF Entry
  <1>2. /\ cr3 \in {"off", "kpdir", "updir"} /\ stage \in Boot
        /\ cr3 = "kpdir" => kpdir = KMap
        /\ cr3 = "updir" => stage = "user"
    BY DEF KInv, KType, Stages, Boot
  <1>3. CASE cr3 = "kpdir"
    BY <1>2, <1>3 DEF Sound, Walk
  <1>4. CASE cr3 = "updir"
    <2>1. Walk(e.key) = updir[e.key]
      BY <1>4 DEF Walk
    <2>2. CASE e.key \in KTouched /\ e.pte = KMap[e.key]
      <3>1. \/ e.key \in High /\ updir[e.key] = e.key - KPage
            \/ e.key \in Video /\ updir[e.key] = e.key
            \/ e.key \in InUser
        BY <1>1, <1>2, <1>4, <2>1 DEF KInv, Placed, VideoMapped
      <3>2. e.key \notin InUser
        BY <2>2, Touching
      <3> QED
        BY <2>1, <2>2, <3>1, <3>2, MapTypes, Touching
    <2>3. CASE ~(e.key \in KTouched /\ e.pte = KMap[e.key])
      BY <2>1, <2>3 DEF Sound
    <2> QED
      BY <2>2, <2>3
  <1> QED
    BY <1>2, <1>3, <1>4

(* One fetch: the entry found or filled is the translation, and the others *)
(* stay sound.                                                             *)
LEMMA Fetch ==
    ASSUME KInv, cr3 # "off", NEW t, Filled(t), NEW p \in Page,
           cr3 = "kpdir" => p \in KTouched,
           NEW i \in tlb_query(t, p), Reachable(t, p, i)
    PROVE  LET u == Fetched(t, p, i)
           IN  /\ Filled(u) /\ u[i].pte \in Frame
               /\ Walk(p) # NotPresent => u[i].pte = Walk(p)
  <1>1. i \in Slot /\ t \in [Slot -> Entry] /\ t[i] \in Entry /\ p # NotPresent
    BY Layout DEF tlb_query, Filled
  <1>2. CASE t[i].key = p
    <2>1. Fetched(t, p, i) = t
      BY <1>2 DEF Fetched
    <2>2. t[i].pte \in Frame /\ Sound(t[i])
      BY <1>1 DEF Filled, Entry
    <2>3. Walk(p) # NotPresent => t[i].pte = Walk(p)
      BY <1>1, <1>2, <2>2, Agrees
    <2> QED
      BY <2>1, <2>2, <2>3
  <1>3. CASE t[i].key # p
    <2> DEFINE e == [key |-> p, pte |-> Walk(p)]
               u == [t EXCEPT ![i] = e]
    <2>1. Fetched(t, p, i) = u /\ Walk(p) # NotPresent
      BY <1>3 DEF Fetched, Reachable
    <2>2. /\ kpdir \in Dir /\ updir \in Dir /\ cr3 \in {"off", "kpdir", "updir"}
          /\ cr3 = "kpdir" => kpdir = KMap
      BY DEF KInv, KType, Stages, Boot
    <2>3. Walk(p) \in Frame
      BY <2>1, <2>2 DEF Walk, Dir
    <2>4. e \in Entry
      BY <2>3 DEF Entry
    <2>5. Sound(e)
      BY <2>1, <2>2 DEF Sound, Walk
    <2>6. u \in [Slot -> Entry] /\ u[i] = e
      BY <1>1, <2>4
    <2>7. \A j \in Slot : Sound(u[j])
      <3> SUFFICES ASSUME NEW j \in Slot PROVE Sound(u[j])
        OBVIOUS
      <3>1. CASE j = i
        BY <2>5, <2>6, <3>1
      <3>2. CASE j # i
        <4>1. u[j] = t[j] /\ Sound(t[j])
          BY <1>1, <3>2 DEF Filled
        <4> QED
          BY <4>1
      <3> QED
        BY <3>1, <3>2
    <2> HIDE DEF u
    <2> QED
      BY <2>1, <2>3, <2>6, <2>7 DEF Filled
  <1> QED
    BY <1>2, <1>3

LEMMA PageIn ==
    ASSUME NEW n \in Nat, NEW a \in Nat, a < n * B
    PROVE  PageOf(a) \in 0 .. n - 1
  <1>1. PageOf(a) \in Nat /\ a % B \in 0 .. B - 1 /\ a = PageOf(a) * B + (a % B)
    BY Split
  <1>2. PageOf(a) * B \in Nat /\ n * B \in Nat
    BY <1>1, LayoutAssumption
  <1>3. CASE n = PageOf(a)
    BY <1>1, <1>2, <1>3
  <1>4. CASE n < PageOf(a)
    BY <1>1, <1>2, <1>4, NextBytes, LayoutAssumption
  <1> QED
    BY <1>1, <1>3, <1>4

(* The bytes of an operand that lie in page P with frame f.                *)
LEMMA Byte ==
    ASSUME NEW P \in Nat, NEW f \in Frame, NEW v \in Nat, NEW o \in 0 .. B - 1,
           v = P * B + o
    PROVE  PageOf(v) = P /\ v % B = o /\ f * B + o \in 0 .. NFrame * B - 1
  BY Join, InRange, LayoutAssumption DEF Frame

----------------------------------------------------------------------------
(* An operand in one page or in two: every byte is where the tables in     *)
(* force put it.                                                           *)
Placement(a, len, pas) ==
    /\ pas \in [a .. a + len - 1 -> 0 .. NFrame * B - 1]
    /\ \A v \in a .. a + len - 1 :
          Walk(PageOf(v)) # NotPresent => pas[v] = Walk(PageOf(v)) * B + (v % B)

LEMMA Access ==
    ASSUME KInv, Filled(tlb), cr3 # "off",
           NEW a \in Nat, NEW len \in 1 .. B, a + len =< NPage * B,
           cr3 = "kpdir" => {PageOf(a), PageOf(a + len - 1)} \subseteq KTouched,
           NEW tNew, NEW pas, laddr_access(a, len, tNew, pas)
    PROVE  Filled(tNew) /\ Placement(a, len, pas)
  <1> DEFINE P == PageOf(a)
             Q == PageOf(a + len - 1)
             o == a % B
             temp == FirstPart(a)
  <1>1. PICK i \in tlb_query(tlb, P) :
           LET t1  == Fetched(tlb, P, i)
               pa1 == t1[i].pte * B + o
           IN  /\ Reachable(tlb, P, i)
               /\ \/ /\ P = Q
                     /\ tNew = t1
                     /\ pas = [v \in a .. a + len - 1 |-> pa1 + v - a]
                  \/ /\ P # Q
                     /\ \E k \in tlb_query(t1, PageOf(a + temp)) :
                           LET t2  == Fetched(t1, PageOf(a + temp), k)
                               pa2 == t2[k].pte * B + ((a + temp) % B)
                           IN  /\ Reachable(t1, PageOf(a + temp), k)
                               /\ tNew = t2
                               /\ pas = [v \in a .. a + len - 1 |->
                                           IF v < a + temp THEN pa1 + v - a
                                           ELSE pa2 + v - (a + temp)]
    BY DEF laddr_access
  <1> DEFINE t1 == Fetched(tlb, P, i)
             f  == t1[i].pte
  <1>2. /\ B \in Nat \ {0} /\ NPage \in Nat /\ NFrame \in Nat
        /\ a + len - 1 \in Nat /\ NPage * B \in Nat /\ a < NPage * B /\ a + len - 1 < NPage * B
    BY LayoutAssumption
  <1>3. P \in Page /\ Q \in Page
    <2>1. P \in 0 .. NPage - 1
      BY <1>2, PageIn
    <2>2. Q \in 0 .. NPage - 1
      <3> DEFINE z == a + len - 1
      <3>1. z \in Nat /\ z < NPage * B
        BY <1>2
      <3> HIDE DEF z
      <3>2. PageOf(z) \in 0 .. NPage - 1
        BY <1>2, <3>1, PageIn
      <3> QED
        BY <3>2 DEF z
    <2> QED
      BY <2>1, <2>2 DEF Page
  <1>4. /\ Filled(t1) /\ f \in Frame
        /\ Walk(P) # NotPresent => f = Walk(P)
    BY <1>1, <1>3, Fetch
  <1>5. P \in Nat /\ o \in 0 .. B - 1 /\ a = P * B + o /\ f \in Nat /\ f * B \in Nat /\ P * B \in Nat
    BY <1>2, <1>4, Split DEF Frame
  <1> HIDE DEF t1, f, P, Q, o, temp
  <1>6. CASE P = Q
    <2>1. tNew = t1 /\ pas = [v \in a .. a + len - 1 |-> (f * B + o) + v - a]
      BY <1>1, <1>6 DEF t1, f
    <2>2. ASSUME NEW v \in a .. a + len - 1
          PROVE  /\ v \in Nat /\ PageOf(v) = P
                 /\ (f * B + o) + v - a = f * B + (v % B)
                 /\ f * B + (v % B) \in 0 .. NFrame * B - 1
      <3>1. v \in Nat /\ a =< v /\ v =< a + len - 1
        BY <1>2
      <3>2. PageOf(v) \in Nat /\ P =< PageOf(v) /\ PageOf(v) =< Q
        BY <1>2, <3>1, Ascend, Split DEF P, Q
      <3>3. PageOf(v) = P
        BY <1>5, <1>6, <3>2
      <3>4. v % B \in 0 .. B - 1 /\ v % B = o + (v - a)
        BY <3>1, <3>3, SamePage, Split DEF P, o
      <3>5. (f * B + o) + v - a = f * B + (v % B)
        BY <1>2, <1>5, <3>1, <3>4
      <3>6. f * B + (v % B) \in 0 .. NFrame * B - 1
        BY <1>2, <1>4, <3>4, InRange DEF Frame
      <3> QED
        BY <3>1, <3>3, <3>5, <3>6
    <2>3. Placement(a, len, pas)
      BY <1>4, <2>1, <2>2 DEF Placement
    <2> QED
      BY <1>4, <2>1, <2>3
  <1>7. CASE P # Q
    <2>1. temp = B - o /\ temp \in 1 .. B /\ a + temp \in Nat
          /\ PageOf(a + temp) = P + 1 /\ (a + temp) % B = 0
          /\ a + temp = (P + 1) * B
      <3>1. temp = B - o
        BY DEF temp, FirstPart, o
      <3>2. PageOf(a + temp) = P + 1 /\ (a + temp) % B = 0
        BY NextPage DEF temp, FirstPart, P
      <3>3. (P + 1) * B = P * B + B
        BY <1>2, <1>5
      <3> QED
        BY <1>2, <1>5, <3>1, <3>2, <3>3
    <2>2. Q = P + 1 /\ a + temp =< a + len - 1
      <3>1. P \in Nat /\ Q \in Nat /\ P =< Q
        <4> DEFINE z == a + len - 1
        <4>1. z \in Nat /\ a =< z
          BY <1>2
        <4> HIDE DEF z
        <4>2. PageOf(z) \in Nat /\ P =< PageOf(z)
          BY <4>1, Ascend, Split DEF P
        <4> QED
          BY <1>5, <4>2 DEF z, Q
      <3>2. Q =< P + 1
        <4> DEFINE z == a + len - 1
                   y == (P + 1) * B + o
        <4>1. y = a + B
          BY <1>2, <1>5, <2>1
        <4>2. PageOf(y) = P + 1 /\ y \in Nat
          BY <1>5, Join
        <4>3. z \in Nat /\ z =< y
          BY <1>2, <4>1
        <4> HIDE DEF y, z
        <4>4. PageOf(z) =< PageOf(y)
          BY <4>2, <4>3, Ascend
        <4> QED
          BY <4>2, <4>4 DEF z, Q
      <3>3. ASSUME a + len - 1 < a + temp PROVE FALSE
        <4>1. a + len - 1 = P * B + (o + len - 1) /\ o + len - 1 \in 0 .. B - 1
          BY <1>2, <1>5, <2>1, <3>3
        <4>2. Q = P
          BY <1>5, <4>1, Join DEF Q
        <4> QED
          BY <1>7, <4>2
      <3> QED
        BY <1>2, <1>7, <2>1, <3>1, <3>2, <3>3
    <2>3. PICK k \in tlb_query(t1, PageOf(a + temp)) :
             /\ Reachable(t1, PageOf(a + temp), k)
             /\ tNew = Fetched(t1, PageOf(a + temp), k)
             /\ pas = [v \in a .. a + len - 1 |->
                         IF v < a + temp THEN (f * B + o) + v - a
                         ELSE (Fetched(t1, PageOf(a + temp), k)[k].pte * B
                               + ((a + temp) % B)) + v - (a + temp)]
      BY <1>1, <1>7 DEF t1, f
    <2> DEFINE g == Fetched(t1, PageOf(a + temp), k)[k].pte
    <2>4. PageOf(a + temp) = Q
      BY <2>1, <2>2
    <2>5. cr3 = "kpdir" => Q \in KTouched
      BY DEF P, Q
    <2>6. /\ Filled(tNew) /\ g \in Frame
          /\ Walk(Q) # NotPresent => g = Walk(Q)
      BY <1>3, <1>4, <2>3, <2>4, <2>5, Fetch
    <2>7. pas = [v \in a .. a + len - 1 |->
                   IF v < a + temp THEN (f * B + o) + v - a
                   ELSE (g * B + 0) + v - (a + temp)]
      BY <2>1, <2>3
    <2>8. g \in Nat /\ g * B \in Nat
      BY <1>2, <2>6 DEF Frame
    <2> HIDE DEF g
    <2>9. ASSUME NEW v \in a .. a + len - 1, v < a + temp
          PROVE  /\ PageOf(v) = P /\ (f * B + o) + v - a = f * B + (v % B)
                 /\ f * B + (v % B) \in 0 .. NFrame * B - 1
      <3> DEFINE r == o + (v - a)
      <3>1. v \in Nat /\ r \in 0 .. B - 1 /\ v = P * B + r /\ (f * B + o) + v - a = f * B + r
        BY <1>2, <1>5, <2>1, <2>9
      <3> HIDE DEF r
      <3>2. PageOf(v) = P /\ v % B = r /\ f * B + r \in 0 .. NFrame * B - 1
        BY <1>4, <1>5, <3>1, Byte
      <3> QED
        BY <3>1, <3>2
    <2>10. ASSUME NEW v \in a .. a + len - 1, ~(v < a + temp)
           PROVE  /\ PageOf(v) = Q /\ (g * B + 0) + v - (a + temp) = g * B + (v % B)
                  /\ g * B + (v % B) \in 0 .. NFrame * B - 1
      <3> DEFINE r == v - (a + temp)
      <3>1. v \in Nat /\ r \in 0 .. B - 1 /\ v = Q * B + r
            /\ (g * B + 0) + v - (a + temp) = g * B + r /\ Q \in Nat
        BY <1>2, <1>5, <2>1, <2>2, <2>8, <2>10
      <3> HIDE DEF r
      <3>2. PageOf(v) = Q /\ v % B = r /\ g * B + r \in 0 .. NFrame * B - 1
        BY <2>6, <3>1, Byte
      <3> QED
        BY <3>1, <3>2
    <2>11. Placement(a, len, pas)
      BY <1>4, <2>6, <2>7, <2>9, <2>10 DEF Placement
    <2> QED
      BY <2>6, <2>11
  <1> QED
    BY <1>6, <1>7

----------------------------------------------------------------------------
(* The invariant.                                                          *)
LEMMA TInit == Init => TInv
  <1> SUFFICES ASSUME Init PROVE TInv
    OBVIOUS
  <1>1. KInv
    BY KInit DEF Init
  <1>2. Filled(tlb)
    BY LayoutAssumption DEF Init, Filled, Entry, Sound, Frame
  <1> QED
    BY <1>1, <1>2 DEF TInv

LEMMA KInitPrimed == (PagingInit => KInv)'
  BY KInit, PTL

(* Entries survive a step that keeps the translations they hold.           *)
LEMMA Survive ==
    ASSUME Filled(tlb), UNCHANGED tlb,
           cr3 = "updir" => /\ cr3' = "updir"
                            /\ \A p \in Page : updir[p] # NotPresent => updir'[p] = updir[p]
    PROVE  Filled(tlb)'
  <1>1. tlb' \in [Slot -> Entry]
    BY DEF Filled
  <1>2. ASSUME NEW i \in Slot PROVE Sound(tlb[i])'
    <2>1. Sound(tlb[i]) /\ tlb'[i] = tlb[i] /\ tlb[i] \in Entry
      BY DEF Filled
    <2> QED
      BY <2>1, Layout DEF Sound, Entry
  <1> QED
    BY <1>1, <1>2 DEF Filled

LEMMA TRestart == TInv /\ restart => TInv'
  <1> SUFFICES ASSUME TInv, restart PROVE TInv'
    OBVIOUS
  <1>1. PagingInit'
    BY DEF restart, PagingInit, TInv, KInv, KType
  <1>2. KInv'
    BY <1>1, KInitPrimed
  <1>3. Filled(tlb)'
    BY LayoutAssumption DEF restart, Filled, Entry, Sound, Frame
  <1> QED
    BY <1>2, <1>3 DEF TInv

LEMMA TKernel == TInv /\ kernel => TInv'
  <1> SUFFICES ASSUME TInv, kernel PROVE TInv'
    OBVIOUS
  <1> USE DEF TInv
  <1>1. UNCHANGED tlb
    BY DEF kernel
  <1>2. CASE init_page
    <2>1. KInv' /\ cr3 # "updir"
      BY <1>2, KInitPage DEF init_page, KInv, Stages
    <2> QED
      BY <1>1, <2>1, Survive
  <1>3. CASE init_mm
    <2>1. KInv' /\ cr3 # "updir"
      BY <1>3, KInitMm DEF init_mm, KInv, Stages
    <2> QED
      BY <1>1, <2>1, Survive
  <1>4. CASE loader_malloc
    <2>1. KInv' /\ cr3 # "updir"
      BY <1>4, KLoaderMalloc DEF loader_malloc, KInv, Stages
    <2> QED
      BY <1>1, <2>1, Survive
  <1>5. CASE loader_end
    <2>1. KInv' /\ cr3 # "updir"
      BY <1>5, KLoaderEnd DEF loader_end, KInv, Stages
    <2> QED
      BY <1>1, <2>1, Survive
  <1>6. ASSUME NEW b \in Brks, mm_brk(b) PROVE TInv'
    <2>1. KInv'
      BY <1>6, KBrk
    <2>2. cr3' = cr3
      BY <1>6 DEF mm_brk
    <2>3. \A p \in Page : updir[p] # NotPresent => updir'[p] = updir[p]
      <3>1. CASE UNCHANGED <<updir, pf_idx>>
        BY <3>1
      <3>2. CASE mm_malloc(brk, b - brk)
        BY <3>2 DEF mm_malloc, Mapped, Absent
      <3> QED
        BY <1>6, <3>1, <3>2 DEF mm_brk
    <2> QED
      BY <1>1, <2>1, <2>2, <2>3, Survive
  <1> QED
    BY <1>2, <1>3, <1>4, <1>5, <1>6 DEF kernel

(* An access leaves the directories alone, so what is sound before is      *)
(* sound after.                                                            *)
LEMMA SamePlaces ==
    ASSUME UNCHANGED <<kpdir, updir, cr3>>, Filled(tlb')
    PROVE  Filled(tlb)'
  BY DEF Filled, Sound

LEMMA TAccess ==
    ASSUME TInv, NEW a \in 0 .. NPage * B - 1, NEW len \in Lens,
           a + len =< NPage * B, access(a, len)
    PROVE  TInv' /\ Placement(a, len, ret')
  <1>1. a \in Nat /\ len \in 1 .. B
    BY TlbAssumption, LayoutAssumption
  <1>2. cr3 = "kpdir" => {PageOf(a), PageOf(a + len - 1)} \subseteq KTouched
    BY DEF access, Touched, KTouched
  <1>3. /\ cr3 # "off" /\ laddr_access(a, len, tlb', ret') /\ UNCHANGED kernelVars
        /\ KInv /\ Filled(tlb)
    BY DEF access, TInv
  <1>4. Filled(tlb') /\ Placement(a, len, ret')
    BY <1>1, <1>2, <1>3, Access
  <1>5. Filled(tlb)'
    BY <1>3, <1>4, SamePlaces DEF kernelVars
  <1>6. KInv'
    BY <1>3 DEF kernelVars, KInv, KType, Stages, Placed, Unshared, VideoMapped, Newest,
                InCopy, Image, HeapMapped, ImageEnd
  <1> QED
    BY <1>4, <1>5, <1>6 DEF TInv

(* The address mm_malloc returned is, through the low half of kpdir, the   *)
(* frame itself.                                                           *)
LEMMA TLoaderCopy ==
    ASSUME TInv, loader_copy
    PROVE  /\ TInv' /\ Placement(base + done, 1, ret')
           /\ base + done \in Nat /\ base + done + 1 =< NPage * B
           /\ UNCHANGED <<kpdir, updir, cr3>>
  <1> DEFINE s == elf[seg + 1]
             v == s.vaddr + done
             a == base + done
  <1>1. /\ KInv /\ Filled(tlb) /\ stage = "copy" /\ cr3 = "kpdir" /\ kpdir = KMap
        /\ laddr_access(a, 1, tlb', ret') /\ loader_store(ret'[a])
    BY DEF TInv, loader_copy, KInv, Stages
  <1>2. /\ elf \in Elfs /\ seg \in Nat /\ seg + 1 \in 1 .. Len(elf) /\ base \in Nat /\ done \in Nat
        /\ done < s.memsz /\ updir \in Dir /\ pf_idx \in KFrame .. NFrame
    BY <1>1, Segments DEF KInv, KType, Stages
  <1>3. v \in SegBytes(s) /\ v - s.vaddr = done
    <2>1. s.vaddr \in Nat /\ s.memsz \in Nat /\ SegBytes(s) = s.vaddr .. s.vaddr + s.memsz - 1
      BY <1>2, Segments DEF SegBytes
    <2> QED
      BY <1>2, <2>1
  <1>4. updir[PageOf(v)] # NotPresent /\ a = updir[PageOf(v)] * B + (v % B)
    BY <1>1, <1>3 DEF KInv, InCopy
  <1>5. v \in Nat /\ PageOf(v) \in UserPage /\ PageOf(v) \in InUser /\ PageOf(v) \in Page
    <2>1. v \in Nat /\ PageOf(v) \in UserPage
      BY <1>2, <1>3, Segments
    <2> QED
      BY <2>1, Layout DEF InUser
  <1>6. updir[PageOf(v)] \in KFrame .. NFrame - 1
    <2>1. PageOf(v) \notin High
      BY <1>5, Layout
    <2>2. updir[PageOf(v)] \in KFrame .. pf_idx - 1
      BY <1>1, <1>4, <1>5, <2>1 DEF KInv, Placed, VideoMapped
    <2> QED
      BY <1>2, <2>2, Layout
  <1> DEFINE f == updir[PageOf(v)]
             o == v % B
  <1>7. f \in KFrame .. NFrame - 1 /\ f \in Frame /\ f \in Nat /\ o \in 0 .. B - 1 /\ a = f * B + o
    <2>1. f \in Frame /\ f \in Nat
      BY <1>6, LayoutAssumption DEF Frame
    <2> HIDE DEF v
    <2>2. o \in 0 .. B - 1
      BY <1>5, Split
    <2> QED
      BY <1>4, <1>6, <2>1, <2>2
  <1> HIDE DEF f, o
  <1>8. /\ a \in Nat /\ PageOf(a) = f /\ a % B = o /\ a \in 0 .. NFrame * B - 1
    <2>1. f * B + o \in Nat /\ PageOf(f * B + o) = f /\ (f * B + o) % B = o
      BY <1>7, Join
    <2>2. f * B + o \in 0 .. NFrame * B - 1
      BY <1>7, InRange, LayoutAssumption DEF Frame
    <2> QED
      BY <1>7, <2>1, <2>2
  <1> HIDE DEF a, v, s
  <1>9. /\ a + 1 =< NPage * B /\ a + 1 - 1 = a /\ 1 \in 1 .. B /\ a .. a + 1 - 1 = {a}
    <2>1. NFrame * B \in Int /\ NPage * B \in Int /\ B \in Nat \ {0}
      BY LayoutAssumption
    <2> QED
      BY <1>8, <2>1, Touching
  <1>10. {PageOf(a), PageOf(a + 1 - 1)} \subseteq KTouched
    BY <1>7, <1>8, <1>9 DEF KTouched
  <1>11. Filled(tlb') /\ Placement(a, 1, ret')
    BY <1>1, <1>8, <1>9, <1>10, Access
  <1>12. ret'[a] = a
    <2>1. Walk(f) = f /\ f # NotPresent
      BY <1>1, <1>7, MapTypes, Layout DEF Walk
    <2> QED
      BY <1>7, <1>8, <1>9, <1>11, <2>1 DEF Placement
  <1>13. loader_store(base + done)
    BY <1>1, <1>12 DEF a
  <1>14. KInv'
    BY <1>1, <1>13, KLoaderStore
  <1>15. UNCHANGED <<kpdir, updir, cr3>>
    BY <1>13 DEF loader_store
  <1>16. Filled(tlb)'
    BY <1>11, <1>15, SamePlaces
  <1> QED
    BY <1>8, <1>9, <1>11, <1>14, <1>15, <1>16 DEF TInv, a

LEMMA TNext == TInv /\ [Next]_vars => TInv'
  <1> SUFFICES ASSUME TInv, [Next]_vars PROVE TInv'
    OBVIOUS
  <1>1. CASE restart
    BY <1>1, TRestart
  <1>2. CASE kernel
    BY <1>2, TKernel
  <1>3. CASE loader_copy
    BY <1>3, TLoaderCopy
  <1>4. ASSUME NEW a \in 0 .. NPage * B - 1, NEW len \in Lens,
               a + len =< NPage * B, access(a, len)
        PROVE  TInv'
    BY <1>4, TAccess
  <1>5. CASE UNCHANGED vars
    BY <1>5 DEF vars, kernelVars, TInv, Filled, Sound, KInv, KType, Stages, Placed, Unshared,
                VideoMapped, Newest, InCopy, Image, HeapMapped, ImageEnd
  <1> QED
    BY <1>1, <1>2, <1>3, <1>4, <1>5 DEF Next

(* The invariant holds for every layout, program and size of the TLB.      *)
THEOREM Invariance == Spec => []TInv
  BY TInit, TNext, PTL DEF Spec

----------------------------------------------------------------------------
(* The state is of its type, in particular an entry never holds a page     *)
(* without a frame.                                                        *)
THEOREM TypeCorrect == Spec => []TypeOK
  <1>1. TInv => TypeOK
    BY DEF TInv, KInv, KType, Filled, Entry, Dir, TypeOK
  <1> QED
    BY <1>1, Invariance, PTL

(* The loader puts every program where the program's directory finds it,   *)
(* although it copies through physical addresses and takes the frames of a *)
(* segment to be consecutive.                                              *)
THEOREM LoadedAlways == Spec => []LoadedInPlace
  <1>1. TInv => LoadedInPlace
    BY DEF TInv, KInv, Image, LoadedInPlace
  <1> QED
    BY <1>1, Invariance, PTL

(* The program never reaches the kernel's frames through its own half, and *)
(* no frame is given to two of its pages.                                  *)
THEOREM FramesAlways == Spec => []FramesPrivate
  <1>1. TInv => FramesPrivate
    <2> SUFFICES ASSUME TInv PROVE FramesPrivate
      OBVIOUS
    <2>1. Placed(updir, pf_idx, VideoMapped) /\ Unshared(updir)
      BY DEF TInv, KInv
    <2>2. ASSUME NEW p \in Given PROVE p \in InUser /\ updir[p] \in KFrame .. pf_idx - 1
      <3>1. p \in Page /\ p \notin High /\ p \notin Video /\ updir[p] # NotPresent
        BY LayoutAssumption DEF Given, Page, High
      <3> QED
        BY <2>1, <3>1 DEF Placed, VideoMapped
    <2>3. \A p \in Given : updir[p] # NotPresent
      BY DEF Given
    <2> QED
      BY <2>1, <2>2, <2>3 DEF FramesPrivate, Unshared
  <1> QED
    BY <1>1, Invariance, PTL

(* Every byte of the heap below the break is mapped, also when brk() moved *)
(* the break down and up again within a page.                              *)
THEOREM HeapAlways == Spec => []HeapMapped
  <1>1. TInv => HeapMapped
    BY DEF TInv, KInv
  <1> QED
    BY <1>1, Invariance, PTL

----------------------------------------------------------------------------
(* Refinement of DirectWalk.                                               *)
Dirs == [p \in Page |-> Walk(p)]

LEMMA DirsType == KInv => Dirs \in [Walked!Page -> Walked!Frame \cup {NotPresent}]
  BY DEF KInv, KType, Dirs, Dir, Walk, Page, Frame, Walked!Page, Walked!Frame

LEMMA DirsTypePrimed == (KInv => Dirs \in [Walked!Page -> Walked!Frame \cup {NotPresent}])'
  BY DirsType, PTL

LEMMA WalkedInit == Init => Walked!Init
  BY DEF Init, PagingInit, Walked!Init, Walked!Page, Page, Walk

LEMMA WalkedAccess ==
    ASSUME NEW a \in Nat, NEW len \in Nat, a + len =< NPage * B,
           Placement(a, len, ret'), UNCHANGED <<kpdir, updir, cr3>>
    PROVE  Walked!Access(a, len)
  <1>1. Dirs' = Dirs
    BY DEF Dirs, Walk
  <1>2. ret' \in [a .. a + len - 1 -> 0 .. NFrame * B - 1]
    BY DEF Placement
  <1>3. ASSUME NEW v \in a .. a + len - 1, Dirs[v \div B] # NotPresent
        PROVE  ret'[v] = Walked!Phys(v)
    <2>1. v \in Nat /\ v < NPage * B
      BY LayoutAssumption
    <2>2. PageOf(v) \in Page
      BY <2>1, PageIn, LayoutAssumption DEF Page
    <2>3. PageOf(v) = v \div B /\ Dirs[PageOf(v)] = Walk(PageOf(v))
      BY <2>2 DEF PageOf, Dirs
    <2>4. ret'[v] = Walk(PageOf(v)) * B + (v % B)
      BY <1>3, <2>3 DEF Placement
    <2> QED
      BY <2>3, <2>4 DEF Walked!Phys, Dirs
  <1> QED
    BY <1>1, <1>2, <1>3 DEF Walked!Access, Dirs

LEMMA WalkedNext == TInv /\ TInv' /\ [Next]_vars => [Walked!Next]_Walked!vars
  <1> SUFFICES ASSUME TInv, TInv', [Next]_vars PROVE [Walked!Next]_Walked!vars
    OBVIOUS
  <1>1. ASSUME ret' = <<>> PROVE Walked!Next
    <2>1. KInv'
      BY DEF TInv
    <2>2. Dirs' \in [Walked!Page -> Walked!Frame \cup {NotPresent}]
      BY <2>1, DirsTypePrimed
    <2> QED
      BY <1>1, <2>2 DEF Walked!Next, Walked!Tables, Dirs
  <1>2. CASE restart
    BY <1>1, <1>2 DEF restart
  <1>3. CASE kernel
    BY <1>1, <1>3 DEF kernel
  <1>4. CASE loader_copy
    <2>1. /\ Placement(base + done, 1, ret')
          /\ base + done \in Nat /\ base + done + 1 =< NPage * B
          /\ UNCHANGED <<kpdir, updir, cr3>>
      BY <1>4, TLoaderCopy
    <2>2. Walked!Access(base + done, 1)
      BY <2>1, WalkedAccess
    <2>3. base + done \in 0 .. NPage * B - 1 /\ 1 \in 1 .. B
      BY <2>1, LayoutAssumption
    <2> QED
      BY <2>1, <2>2, <2>3 DEF Walked!Next
  <1>5. ASSUME NEW a \in 0 .. NPage * B - 1, NEW len \in Lens,
               a + len =< NPage * B, access(a, len)
        PROVE  Walked!Next
    <2>1. a \in Nat /\ len \in 1 .. B /\ len \in Nat
      BY TlbAssumption, LayoutAssumption
    <2>2. Placement(a, len, ret') /\ UNCHANGED <<kpdir, updir, cr3>>
      BY <1>5, TAccess DEF access, kernelVars
    <2>3. Walked!Access(a, len)
      BY <1>5, <2>1, <2>2, WalkedAccess
    <2> QED
      BY <1>5, <2>1, <2>3 DEF Walked!Next
  <1>6. CASE UNCHANGED vars
    BY <1>6 DEF vars, kernelVars, Walked!vars, Walk
  <1> QED
    BY <1>2, <1>3, <1>4, <1>5, <1>6 DEF Next

(* No stale translation is ever used: although neither a write to CR3 nor  *)
(* a change of a page table flushes the TLB, every operand is where the    *)
(* tables in force put it, whatever slots the misses evict.                *)
THEOREM Refinement == Spec => ImplementsWalk
  BY WalkedInit, WalkedNext, Invariance, PTL DEF Spec, ImplementsWalk, Walked!Spec
=============================================================================
