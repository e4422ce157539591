------------------------------ MODULE KernelFs ------------------------------
(***************************************************************************)
(* A system call on files, down to the drive: kernel/src/fs/fs.c over      *)
(* ide_read (kernel/src/driver/ide/ide.c), the direct-mapped sector cache  *)
(* (cache.c), the read command (disk.c) and the drive of the emulator      *)
(* (nemu/src/device/dev/ide.c).  Sizes and offsets are words mod Mod.      *)
(*                                                                         *)
(* Nothing calls the kernel's ide_write, so no slot is ever dirty and the  *)
(* write-backs are left out.  The flag used and the index of an open file  *)
(* are never read.  How the wait sees the drive's interrupt, or loses it,  *)
(* is in module Interrupts.                                                *)
(***************************************************************************)
EXTENDS Integers, Sequences

CONSTANTS
    File, Size, Start, Disk, Offs, Reqs, Raw,  \* as in FileSystem
    Mod,         \* 2 ^ 32
    NR_SEC_CACHE,\* slots of the sector cache
    SectorSize,  \* bytes of a sector
    Long,        \* bytes in_long transfers
    Junk         \* a byte behind the end of the disk image

Addr == DOMAIN Disk

ASSUME SizeAssumption ==
    /\ NR_SEC_CACHE \in Nat \ {0} /\ Long \in Nat \ {0}
    /\ SectorSize \in Nat \ {0} /\ SectorSize % Long = 0
    /\ Mod \in Nat /\ Mod % 2 = 0
ASSUME FileAssumption ==
    /\ File \subseteq Nat
    /\ Size \in [File -> Nat] /\ Start \in [File -> Nat]
    /\ \A f \in File : /\ 2 * Size[f] < Mod
                       /\ Start[f] .. Start[f] + Size[f] - 1 \subseteq Addr
    /\ \A x \in Raw : x \in Nat \X Nat /\ x[1] .. x[1] + x[2] - 1 \subseteq Addr
(* A buffer lies below KOFFSET, so a length and a position do not wrap;    *)
(* lseek's offset is a signed word.                                        *)
ASSUME ArgAssumption ==
    /\ Reqs \subseteq Nat
    /\ \A f \in File, len \in Reqs : len + Size[f] < Mod
    /\ Offs \subseteq -(Mod \div 2) .. Mod \div 2 - 1

VARIABLES
    offset,   \* file -> files[fd].offset
    cache,    \* slot -> [used, sector, content]
    fpos,     \* position of the drive's disk_fp
    byte_cnt, \* bytes transferred since the last command
    call,     \* the ide_read in progress: [file, from, len, buf]
    pc,       \* where it is
    ret       \* result of the last call

vars == <<offset, cache, fpos, byte_cnt, call, pc, ret>>

Slot   == 0 .. NR_SEC_CACHE - 1
InSect == 0 .. SectorSize - 1
Byte   == {Disk[a] : a \in Addr} \cup {Junk}

Kernel == -1   \* caller of ide_read that is no file: the loader

Idle == [file |-> Kernel, from |-> 0, len |-> 0, buf |-> <<>>]

Result(v, d) == [val |-> v, data |-> d]

Init ==
    /\ offset = [f \in File |-> 0]
    /\ cache = [k \in Slot |-> [used |-> FALSE, sector |-> 0,
                                content |-> [b \in InSect |-> Junk]]]
    /\ fpos = 0 /\ byte_cnt = 0
    /\ call = Idle /\ pc = "idle"
    /\ ret = Result(0, <<>>)

driver == <<cache, fpos, byte_cnt, call, pc>>

----------------------------------------------------------------------------
fs_open(f) ==
    /\ pc = "idle"
    /\ offset' = [offset EXCEPT ![f] = 0]
    /\ ret' = Result(f, <<>>)
    /\ UNCHANGED driver

fs_close(f) ==
    /\ pc = "idle"
    /\ offset' = [offset EXCEPT ![f] = 0]
    /\ ret' = Result(0, <<>>)
    /\ UNCHANGED driver

(* Bug: the bound is not applied, so a position behind the end stays.      *)
Bounded_Never(f, o) == o

(* The end of fs_lseek: the unsigned position against the size.            *)
Bounded(f, o) == IF o > Size[f] THEN Size[f] ELSE o

fs_lseek(f, off, base) ==
    /\ pc = "idle"
    /\ LET o == (base + off) % Mod
       IN  /\ offset' = [offset EXCEPT ![f] = Bounded(f, o)]
           /\ ret' = Result(IF o > Size[f] THEN -1 ELSE o, <<>>)
    /\ UNCHANGED driver

(* Bug: the position is not part of the test for the end of the file.      *)
Clamped_NoOffset(f, len) == IF len > Size[f] THEN Size[f] - offset[f] ELSE len

(* How much of len fs_read reads.                                          *)
Clamped(f, len) ==
    IF (len + offset[f]) % Mod > Size[f] THEN (Size[f] - offset[f]) % Mod ELSE len

fs_read(f, len) ==
    /\ pc = "idle"
    /\ IF len = 0
       THEN ret' = Result(0, <<>>) /\ UNCHANGED <<call, pc>>
       ELSE /\ call' = [file |-> f, from |-> Start[f] + offset[f],
                        len |-> Clamped(f, len), buf |-> <<>>]
            /\ pc' = "read"
            /\ UNCHANGED ret
    /\ UNCHANGED <<offset, cache, fpos, byte_cnt>>

(* loader: the header and the segments, by disk offset.                    *)
loader_read(from, len) ==
    /\ pc = "idle"
    /\ call' = [file |-> Kernel, from |-> from, len |-> len, buf |-> <<>>]
    /\ pc' = "read"
    /\ UNCHANGED <<offset, cache, fpos, byte_cnt, ret>>

----------------------------------------------------------------------------
(* ide_read's loop: the byte wanted next, its sector and the slot for it.  *)
Wanted == call.from + Len(call.buf)
Sector == Wanted \div SectorSize
SlotOf(s) == s % NR_SEC_CACHE

(* Bug: a used slot is a hit whatever its sector.                          *)
Hit_AnySector(s) == cache[SlotOf(s)].used

Hit(s) == cache[SlotOf(s)].used /\ cache[SlotOf(s)].sector = s

(* read_byte on a hit.                                                     *)
read_byte ==
    /\ pc = "read"
    /\ Len(call.buf) < call.len
    /\ Hit(Sector)
    /\ call' = [call EXCEPT !.buf =
                  Append(@, cache[SlotOf(Sector)].content[Wanted % SectorSize])]
    /\ UNCHANGED <<offset, cache, fpos, byte_cnt, pc, ret>>

(* Bug: the drive goes on counting from the last command.                  *)
issue_read_KeepsCount ==
    /\ pc = "read"
    /\ Len(call.buf) < call.len
    /\ ~Hit(Sector)
    /\ fpos' = Sector * SectorSize
    /\ pc' = "wait"
    /\ UNCHANGED <<offset, cache, byte_cnt, call, ret>>

(* A miss: disk_do_read programs the drive, which seeks (handler_ide).     *)
issue_read ==
    /\ pc = "read"
    /\ Len(call.buf) < call.len
    /\ ~Hit(Sector)
    /\ fpos' = Sector * SectorSize
    /\ byte_cnt' = 0
    /\ pc' = "wait"
    /\ UNCHANGED <<offset, cache, call, ret>>

(* wait_ide_intr returns.                                                  *)
ide_intr ==
    /\ pc = "wait"
    /\ pc' = "transfer"
    /\ UNCHANGED <<offset, cache, fpos, byte_cnt, call, ret>>

DiskByte(a) == IF a \in Addr THEN Disk[a] ELSE Junk

(* Bugs: the slot is marked without its sector, or not marked.             *)
Filled_OldSector(k) == [k EXCEPT !.used = TRUE]
Filled_NotUsed(k) == [k EXCEPT !.sector = Sector]

(* cache_fetch once the sector is in.                                      *)
Filled(k) == [k EXCEPT !.used = TRUE, !.sector = Sector]

(* in_long: four bytes of the disk into the slot's content, in place.      *)
in_long ==
    /\ pc = "transfer"
    /\ LET k == SlotOf(Sector)
           new == [cache[k] EXCEPT !.content =
                     [b \in InSect |-> IF b \in byte_cnt .. byte_cnt + Long - 1
                                       THEN DiskByte(fpos + b - byte_cnt) ELSE @[b]]]
       IN  IF byte_cnt + Long < SectorSize
           THEN cache' = [cache EXCEPT ![k] = new] /\ UNCHANGED pc
           ELSE cache' = [cache EXCEPT ![k] = Filled(new)] /\ pc' = "read"
    /\ fpos' = fpos + Long
    /\ byte_cnt' = byte_cnt + Long
    /\ UNCHANGED <<offset, call, ret>>

(* ide_read returns; fs_read moves the position.                           *)
read_done ==
    /\ pc = "read"
    /\ Len(call.buf) = call.len
    /\ offset' = IF call.file = Kernel THEN offset
                 ELSE [offset EXCEPT ![call.file] = (@ + call.len) % Mod]
    /\ ret' = Result(call.len, call.buf)
    /\ call' = Idle
    /\ pc' = "idle"
    /\ UNCHANGED <<cache, fpos, byte_cnt>>

Reading == read_byte \/ issue_read \/ in_long \/ read_done

Next ==
    \/ \E f \in File :
          \/ fs_open(f) \/ fs_close(f)
          \/ \E len \in Reqs : fs_read(f, len)
          \/ \E off \in Offs, base \in {0, offset[f], Size[f]} : fs_lseek(f, off, base)
    \/ \E x \in Raw : loader_read(x[1], x[2])
    \/ ide_intr
    \/ Reading

(* The CPU thread runs on; whether the drive's interrupt reaches it is not *)
(* assumed.                                                                *)
Spec == Init /\ [][Next]_vars /\ WF_vars(Reading)

----------------------------------------------------------------------------
(* Types of the state.                                                     *)
TypeOK ==
    /\ offset \in [File -> Nat]
    /\ cache \in [Slot -> [used : BOOLEAN, sector : Nat, content : [InSect -> Byte]]]
    /\ fpos \in Nat /\ byte_cnt \in 0 .. SectorSize
    /\ call \in [file : File \cup {Kernel}, from : Nat, len : Nat, buf : Seq(Byte)]
    /\ pc \in {"idle", "read", "wait", "transfer"}

(* A position never passes the end of its file, whatever the program seeks *)
(* with, and a read in progress stays in the file: size - offset cannot    *)
(* wrap, and no file's neighbour on the disk is read.                      *)
InFile ==
    /\ \A f \in File : offset[f] =< Size[f]
    /\ call.file # Kernel =>
          /\ call.from = Start[call.file] + offset[call.file]
          /\ offset[call.file] + call.len =< Size[call.file]
    /\ Len(call.buf) =< call.len

(* A used slot mirrors its sector, except the one being refilled: that one *)
(* still bears its old sector number.                                      *)
Refilling(k) == pc \in {"wait", "transfer"} /\ k = SlotOf(Sector)

Mirrors ==
    \A k \in Slot : cache[k].used /\ ~Refilling(k) =>
        /\ SlotOf(cache[k].sector) = k
        /\ \A b \in InSect :
              cache[k].content[b] = DiskByte(cache[k].sector * SectorSize + b)

Fs == INSTANCE FileSystem WITH pos <- offset

(* Reads through the cache and the drive return the file's bytes, and word *)
(* arithmetic agrees with the integers.                                    *)
ImplementsFs == Fs!Spec

(* A read returns, however its sectors collide in the cache, unless one of *)
(* its interrupts never arrives.                                           *)
ReadReturns == pc = "read" ~> (pc = "idle" \/ [](pc = "wait"))
=============================================================================
