------------------------------- MODULE Paging -------------------------------
(***************************************************************************)
(* The kernel's page tables and the order in which it builds them:         *)
(* kernel/src/memory/kvm.c, mm.c, vmem.c, the loader of                    *)
(* kernel/src/elf/elf.c and the calls of kernel/src/main.c.                *)
(*                                                                         *)
(* Addresses are bytes, B of them to a page.  A page directory with its    *)
(* tables is one function from pages to frames.  The low NFrame pages are  *)
(* the physical memory itself, the pages from KPage on are the kernel's    *)
(* (KOFFSET); frames from KFrame on (KMEM) are given to the program.       *)
(***************************************************************************)
EXTENDS Integers, Sequences, FiniteSets

CONSTANTS
    B,           \* bytes of a page
    NPage,       \* pages of the address space
    NFrame,      \* frames of physical memory
    KPage,       \* first page of the kernel's half
    KFrame,      \* first frame for the program
    NPT,         \* pages under one directory entry
    Video,       \* pages of the video memory
    LowKernel,   \* low pages the kernel touches before the program runs
    UserPage,    \* pages of the program's image and heap
    StackFirst,  \* first page of the program's stack, which ends at KOFFSET
    Elfs,        \* ELF files: sequences of segments [vaddr, memsz]
    Brks,        \* arguments of brk() the program may pass
    NotPresent   \* an entry whose present bit is clear

Page  == 0 .. NPage - 1
Frame == 0 .. NFrame - 1
PageOf(a) == a \div B
High  == KPage .. KPage + NFrame - 1

SegBytes(s) == s.vaddr .. s.vaddr + s.memsz - 1

(* Segments ascend and do not overlap, as the ELF format has it.           *)
IsElf(f) ==
    /\ f \in Seq([vaddr : Nat, memsz : Nat \ {0}])
    /\ f # <<>>
    /\ \A i \in DOMAIN f : \A a \in SegBytes(f[i]) : PageOf(a) \in UserPage
    /\ \A i, j \in DOMAIN f : i < j => f[i].vaddr + f[i].memsz =< f[j].vaddr

ASSUME LayoutAssumption ==
    /\ B \in Nat \ {0} /\ NPage \in Nat /\ NFrame \in Nat /\ KPage \in Nat
    /\ KFrame \in Frame /\ NPT \in 1 .. KFrame
    /\ NFrame < KPage /\ KPage + NFrame =< NPage
    /\ NotPresent \notin Page
ASSUME KernelAssumption ==
    /\ Video \subseteq 0 .. NPT - 1
    /\ Video \subseteq LowKernel
    /\ LowKernel \subseteq 0 .. KFrame - 1
(* Image and heap lie above the first directory entry and outside the      *)
(* frames for programs: the game between 8 MB and KMEM, the other programs *)
(* above the 128 MB of memory.                                             *)
ASSUME UserAssumption ==
    /\ StackFirst \in NFrame .. KPage - 1
    /\ \E p, q \in Page : UserPage = p .. q
    /\ UserPage \subseteq (NPT .. KFrame - 1) \cup (NFrame .. StackFirst - 1)
    /\ UserPage \cap LowKernel = {}
    /\ \A f \in Elfs : IsElf(f)
    /\ \A b \in Brks : b \in Nat /\ PageOf(b) \in UserPage

VARIABLES
    kpdir,     \* the kernel's directory
    updir,     \* the program's directory
    cr3,       \* "off" until paging is enabled, then the directory in force
    pf_idx,    \* first frame mm_malloc has not given away
    brk,       \* program break
    stage,     \* where init_cond and loader are
    elf,       \* the program on the disk
    seg,       \* segments loaded
    done,      \* bytes of the current segment stored
    base,      \* physical address mm_malloc returned for it
    content    \* physical address -> address whose image byte it holds

kernelVars == <<kpdir, updir, cr3, pf_idx, brk, stage, elf, seg, done, base, content>>

Empty == [p \in Page |-> NotPresent]
Boot  == {"reset", "boot", "loader", "copy", "user"}

PagingInit ==
    /\ kpdir = Empty /\ updir = Empty
    /\ cr3 = "off"
    /\ pf_idx = KFrame
    /\ brk = 0
    /\ stage = "reset"
    /\ elf \in Elfs
    /\ seg = 0 /\ done = 0 /\ base = 0
    /\ content = [a \in 0 .. NFrame * B - 1 |-> NotPresent]

(* page_walk: the entry for page p in the tables in force.                 *)
Walk(p) == IF cr3 = "kpdir" THEN kpdir[p]
           ELSE IF cr3 = "updir" THEN updir[p] ELSE NotPresent

----------------------------------------------------------------------------
(* Bugs: every page of the range is given a new frame, mapped or not;      *)
(* frames are numbered by the page's place in the range.                   *)
Mapped_Again(d, first, last) ==
    [p \in Page |-> IF p \in first .. last THEN pf_idx + p - first ELSE d[p]]
Mapped_ByPlace(d, first, last) ==
    [p \in Page |-> IF p \in first .. last /\ d[p] = NotPresent
                    THEN pf_idx + p - first ELSE d[p]]
(* mm_malloc, delivered as an object file: each page of the range that is  *)
(* not mapped yet gets the next frame.                                     *)
Absent(d, first, last) == {p \in first .. last : d[p] = NotPresent}

Mapped(d, first, last) ==
    [p \in Page |-> IF p \in Absent(d, first, last)
                    THEN pf_idx + Cardinality(Absent(d, first, p - 1))
                    ELSE d[p]]

(* Frames the call takes; it panics when memory is exhausted.              *)
Taken(d, first, last) == pf_idx + Cardinality(Absent(d, first, last))

mm_malloc(vaddr, len) ==
    LET first == PageOf(vaddr)
        last  == PageOf(vaddr + len - 1)
    IN  /\ Taken(updir, first, last) =< NFrame
        /\ updir' = Mapped(updir, first, last)
        /\ pf_idx' = Taken(updir, first, last)

----------------------------------------------------------------------------
(* Physical memory at its own address and again above KOFFSET; then PG is  *)
(* set.                                                                    *)
init_page ==
    /\ stage = "reset"
    /\ kpdir' = [p \in Page |-> IF p \in Frame THEN p
                                ELSE IF p \in High THEN p - KPage ELSE NotPresent]
    /\ cr3' = "kpdir"
    /\ stage' = "boot"
    /\ UNCHANGED <<updir, pf_idx, brk, elf, seg, done, base, content>>

init_mm ==
    /\ stage = "boot"
    /\ updir' = [p \in Page |-> IF p \in High THEN kpdir[p] ELSE NotPresent]
    /\ stage' = "loader"
    /\ UNCHANGED <<kpdir, cr3, pf_idx, brk, elf, seg, done, base, content>>

(* The loader takes the next segment: mm_malloc, which returns the         *)
(* physical address of its first byte.                                     *)
loader_malloc ==
    /\ stage = "loader"
    /\ seg < Len(elf)
    /\ LET s == elf[seg + 1]
       IN  /\ mm_malloc(s.vaddr, s.memsz)
           /\ base' = updir'[PageOf(s.vaddr)] * B + (s.vaddr % B)
    /\ done' = 0
    /\ stage' = "copy"
    /\ UNCHANGED <<kpdir, cr3, brk, elf, seg, content>>

(* ide_read and memset store the segment byte by byte from base on; pa is  *)
(* where the MMU puts the store.  After the last one the break is raised.  *)
loader_store(pa) ==
    LET s == elf[seg + 1]
        new_brk == s.vaddr + s.memsz - 1
    IN  /\ content' = [content EXCEPT ![pa] = s.vaddr + done]
        /\ IF done + 1 < s.memsz
           THEN done' = done + 1 /\ UNCHANGED <<seg, brk, stage>>
           ELSE /\ done' = 0
                /\ seg' = seg + 1
                /\ stage' = "loader"
                /\ brk' = IF brk < new_brk THEN new_brk ELSE brk
        /\ UNCHANGED <<kpdir, updir, cr3, pf_idx, elf, base>>

(* create_video_mapping puts a table of its own under the first directory  *)
(* entry.                                                                  *)
WithVideo(d) == [p \in Page |-> IF p \in Video THEN p
                                ELSE IF p < NPT THEN NotPresent ELSE d[p]]

(* The end of loader: stack, video mapping, and the switch to updir.       *)
loader_end ==
    /\ stage = "loader"
    /\ seg = Len(elf)
    /\ LET first == StackFirst
           last  == KPage - 1
       IN  /\ Taken(updir, first, last) =< NFrame
           /\ updir' = WithVideo(Mapped(updir, first, last))
           /\ pf_idx' = Taken(updir, first, last)
    /\ cr3' = "updir"
    /\ stage' = "user"
    /\ UNCHANGED <<kpdir, brk, elf, seg, done, base, content>>

(* Bug: the page of the old break is taken to be mapped.                   *)
mm_brk_NextPage(new_brk) ==
    LET start == (PageOf(brk) + 1) * B
    IN  /\ stage = "user"
        /\ IF new_brk > start THEN mm_malloc(start, new_brk - start)
                              ELSE UNCHANGED <<updir, pf_idx>>
        /\ brk' = new_brk
        /\ UNCHANGED <<kpdir, cr3, stage, elf, seg, done, base, content>>

(* brk(): memory is added when the break grows and never taken back.       *)
mm_brk(new_brk) ==
    /\ stage = "user"
    /\ IF new_brk > brk THEN mm_malloc(brk, new_brk - brk)
                        ELSE UNCHANGED <<updir, pf_idx>>
    /\ brk' = new_brk
    /\ UNCHANGED <<kpdir, cr3, stage, elf, seg, done, base, content>>

----------------------------------------------------------------------------
(* Each byte of the image the loader has stored is where the program's     *)
(* directory puts it.  mm_malloc returns one address for a whole segment,  *)
(* so this needs its frames to be consecutive, also when the first page    *)
(* was mapped with the segment before.                                     *)
LoadedInPlace ==
    stage # "copy" =>
        \A i \in 1 .. seg : \A a \in SegBytes(elf[i]) :
            content[updir[PageOf(a)] * B + (a % B)] = a

(* The program's pages have frames of their own, none of them the kernel's *)
(* and none mapped twice below the kernel's half.                          *)
Given == {p \in 0 .. KPage - 1 : p \notin Video /\ updir[p] # NotPresent}

FramesPrivate ==
    /\ \A p \in Given : updir[p] \in KFrame .. pf_idx - 1
    /\ \A p, q \in Given : updir[p] = updir[q] => p = q

(* Below the break every byte of the heap is mapped, however the break     *)
(* went up and down.                                                       *)
ImageEnd == elf[Len(elf)].vaddr + elf[Len(elf)].memsz - 1

HeapMapped ==
    stage = "user" =>
        \A a \in ImageEnd .. brk - 1 : updir[PageOf(a)] # NotPresent
=============================================================================
