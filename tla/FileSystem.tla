----------------------------- MODULE FileSystem -----------------------------
(***************************************************************************)
(* What the file system of the kernel promises its callers                 *)
(* (kernel/src/fs/fs.c): read-only files of fixed size, one position per   *)
(* file, and the bytes of the disk from that position on.  Integers, no    *)
(* words; a call is one step.                                              *)
(***************************************************************************)
EXTENDS Integers, Sequences

CONSTANTS
    File,      \* the files of file_table; a descriptor is its file
    Size,      \* file -> length
    Start,     \* file -> disk_offset
    Disk,      \* address -> byte of the disk image
    Offs,      \* offsets a program passes to lseek
    Reqs,      \* lengths a program passes to read
    Raw        \* extents <<offset, length>> the loader reads past the files

VARIABLES pos,    \* file -> position
          ret     \* result of the last call: [val, data]

vars == <<pos, ret>>

Min2(a, b) == IF a < b THEN a ELSE b

Result(v, d) == [val |-> v, data |-> d]

Extent(from, n) == [k \in 1 .. n |-> Disk[from + k - 1]]

Init == pos = [f \in File |-> 0] /\ ret = Result(0, <<>>)

Open(f) == pos' = [pos EXCEPT ![f] = 0] /\ ret' = Result(f, <<>>)

Close(f) == pos' = [pos EXCEPT ![f] = 0] /\ ret' = Result(0, <<>>)

(* The bytes from the position on, as many as there are.                   *)
Read(f, len) ==
    LET n == Min2(len, Size[f] - pos[f])
    IN  /\ ret' = Result(n, Extent(Start[f] + pos[f], n))
        /\ pos' = [pos EXCEPT ![f] = @ + n]

(* A target outside the file fails and leaves the position at the end.     *)
Seek(f, off, from) ==
    LET target == from + off
    IN  IF target \in 0 .. Size[f]
        THEN pos' = [pos EXCEPT ![f] = target] /\ ret' = Result(target, <<>>)
        ELSE pos' = [pos EXCEPT ![f] = Size[f]] /\ ret' = Result(-1, <<>>)

(* The loader reads the disk itself.                                       *)
Load(from, n) == ret' = Result(n, Extent(from, n)) /\ UNCHANGED pos

Next ==
    \/ \E f \in File :
          \/ Open(f) \/ Close(f)
          \/ \E len \in Reqs : Read(f, len)
          \/ \E off \in Offs, from \in {0, pos[f], Size[f]} : Seek(f, off, from)
    \/ \E x \in Raw : Load(x[1], x[2])

Spec == Init /\ [][Next]_vars
=============================================================================
