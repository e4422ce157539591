--------------------------- MODULE KernelFsProofs ---------------------------
(***************************************************************************)
(* Proofs about KernelFs for every disk, file table, cache and word width: *)
(* positions stay in their files, used slots mirror their sectors, and the *)
(* calls implement FileSystem.                                             *)
(***************************************************************************)
EXTENDS KernelFs, SequenceTheorems, TLAPS

----------------------------------------------------------------------------
(* Between calls the driver is at rest.                                    *)
AtRest == pc = "idle" => call = Idle

(* A command in progress is one for the byte wanted next, and the drive    *)
(* has transferred whole longs of its sector.                              *)
Programmed ==
    pc \in {"wait", "transfer"} =>
        /\ Len(call.buf) < call.len
        /\ fpos = Sector * SectorSize + byte_cnt
        /\ byte_cnt < SectorSize
        /\ \E m \in Nat : byte_cnt = m * Long

(* What it has transferred is in the slot.                                 *)
Transferred ==
    pc \in {"wait", "transfer"} =>
        \A b \in InSect : b < byte_cnt =>
            cache[SlotOf(Sector)].content[b] = DiskByte(Sector * SectorSize + b)

(* The buffer holds the bytes of the disk read so far.                     *)
Got == \A i \in 1 .. Len(call.buf) : call.buf[i] = DiskByte(call.from + i - 1)

(* All that a call reads is on the disk.                                   *)
OnDisk == call.from .. call.from + call.len - 1 \subseteq Addr

(* A call in progress is one the program, or the loader, has made.         *)
Asked ==
    pc # "idle" =>
        IF call.file = Kernel THEN <<call.from, call.len>> \in Raw
        ELSE \E len \in Reqs : call.len = Fs!Min2(len, Size[call.file] - offset[call.file])

IInv == /\ TypeOK /\ InFile /\ Mirrors /\ AtRest /\ Programmed
        /\ Transferred /\ Got /\ OnDisk /\ Asked

----------------------------------------------------------------------------
(* An address is a sector and a place in it.                               *)
LEMMA Split ==
    ASSUME NEW a \in Nat
    PROVE  /\ a \div SectorSize \in Nat /\ a % SectorSize \in InSect
           /\ a = (a \div SectorSize) * SectorSize + (a % SectorSize)
  BY SizeAssumption DEF InSect

LEMMA SlotOfType ==
    ASSUME NEW s \in Nat
    PROVE  SlotOf(s) \in Slot
  BY SizeAssumption DEF SlotOf, Slot

LEMMA DiskByteType ==
    ASSUME NEW a
    PROVE  DiskByte(a) \in Byte
  BY DEF DiskByte, Byte

(* Longs fill a sector exactly.                                            *)
LEMMA WholeLongs ==
    ASSUME NEW m \in Nat, m * Long < SectorSize
    PROVE  m * Long + Long =< SectorSize /\ m * Long + Long = (m + 1) * Long
  <1> DEFINE n == SectorSize \div Long
  <1>1. n \in Nat /\ SectorSize = n * Long
    BY SizeAssumption
  <1>2. m < n
    <2>1. ASSUME n =< m PROVE n * Long =< m * Long
      BY <1>1, <2>1, SizeAssumption
    <2>2. m * Long \in Nat
      BY SizeAssumption
    <2> QED
      BY <1>1, <2>1, <2>2, SizeAssumption
  <1>3. (m + 1) * Long =< n * Long
    <2>1. m + 1 =< n
      BY <1>1, <1>2
    <2> HIDE DEF n
    <2> QED
      BY <1>1, <2>1, SizeAssumption
  <1>4. (m + 1) * Long = m * Long + Long
    BY SizeAssumption
  <1> QED
    BY <1>1, <1>3, <1>4

(* lseek's target in words and in integers.                                *)
LEMMA Target ==
    ASSUME NEW f \in File, NEW off \in Offs, NEW base \in 0 .. Size[f],
           NEW o, o = (base + off) % Mod
    PROVE  /\ o \in Nat
           /\ base + off \in 0 .. Size[f] => o = base + off
           /\ base + off \notin 0 .. Size[f] => o > Size[f]
  <1> DEFINE t == base + off
  <1>1. Size[f] \in Nat /\ 2 * Size[f] < Mod /\ Mod \in Nat /\ Mod % 2 = 0
    BY FileAssumption, SizeAssumption
  <1>2. off \in -(Mod \div 2) .. Mod \div 2 - 1
    BY ArgAssumption
  <1>3. Mod = 2 * (Mod \div 2) /\ Mod \div 2 \in Nat /\ Mod > 0
    BY <1>1
  <1>4. t \in Int /\ t >= -(Mod \div 2) /\ t < Size[f] + (Mod \div 2)
    BY <1>1, <1>2, <1>3
  <1>5. t < Mod
    BY <1>1, <1>3, <1>4
  <1>6. CASE t >= 0
    <2>1. o = t
      BY <1>1, <1>3, <1>4, <1>5, <1>6, SMTT(30)
    <2> QED
      BY <1>1, <1>4, <1>6, <2>1
  <1>7. CASE t < 0
    <2>1. o = t + Mod
      <3>1. t + Mod \in 0 .. Mod - 1
        BY <1>1, <1>3, <1>4, <1>7
      <3> QED
        BY <1>1, <1>3, <1>4, <1>7, <3>1
    <2>2. o > Size[f] /\ o \in Nat
      BY <1>1, <1>3, <1>4, <1>7, <2>1
    <2> QED
      BY <1>1, <1>7, <2>2
  <1> QED
    BY <1>4, <1>6, <1>7

----------------------------------------------------------------------------
LEMMA IdleTypes ==
    ASSUME TypeOK
    PROVE  Idle \in [file : File \cup {Kernel}, from : Nat, len : Nat, buf : Seq(Byte)]
  BY DEF Idle

LEMMA InitInv == Init => IInv
  <1> SUFFICES ASSUME Init PROVE IInv
    OBVIOUS
  <1> USE DEF Init, Idle
  <1>1. TypeOK
    <2>1. Junk \in Byte
      BY DEF Byte
    <2>2. [k \in Slot |-> [used |-> FALSE, sector |-> 0, content |-> [b \in InSect |-> Junk]]]
            \in [Slot -> [used : BOOLEAN, sector : Nat, content : [InSect -> Byte]]]
      BY <2>1
    <2> QED
      BY <2>2, SizeAssumption DEF TypeOK
  <1>2. InFile
    BY FileAssumption DEF InFile
  <1>3. Mirrors
    BY DEF Mirrors
  <1>4. AtRest /\ Programmed /\ Transferred /\ Got /\ OnDisk /\ Asked
    BY DEF AtRest, Programmed, Transferred, Got, OnDisk, Asked
  <1> QED
    BY <1>1, <1>2, <1>3, <1>4 DEF IInv

(* A step that changes only the result keeps everything.                   *)
LEMMA RetKeeps ==
    ASSUME IInv, UNCHANGED <<offset, driver>>
    PROVE  IInv'
  <1> USE DEF IInv, driver
  <1>1. TypeOK' /\ InFile' /\ AtRest' /\ Got' /\ OnDisk' /\ Asked'
    BY DEF TypeOK, InFile, AtRest, Got, OnDisk, Asked
  <1>2. Mirrors' /\ Programmed' /\ Transferred'
    BY DEF Mirrors, Refilling, Programmed, Transferred, Sector, Wanted
  <1> QED
    BY <1>1, <1>2

(* Between calls a position may move anywhere in its file.                 *)
LEMMA PositionKeeps ==
    ASSUME IInv, pc = "idle", NEW f \in File, NEW v \in 0 .. Size[f],
           offset' = [offset EXCEPT ![f] = v], UNCHANGED driver
    PROVE  IInv'
  <1> USE DEF IInv, driver
  <1>1. call.file = Kernel /\ call'.file = Kernel
    BY DEF AtRest, Idle
  <1>2. TypeOK'
    BY FileAssumption DEF TypeOK
  <1>3. InFile'
    <2>1. ASSUME NEW g \in File PROVE offset'[g] =< Size[g]
      BY FileAssumption DEF InFile, TypeOK
    <2> QED
      BY <1>1, <2>1 DEF InFile
  <1>4. AtRest' /\ Got' /\ OnDisk' /\ Asked'
    BY DEF AtRest, Got, OnDisk, Asked
  <1>5. Mirrors' /\ Programmed' /\ Transferred'
    BY DEF Mirrors, Refilling, Programmed, Transferred, Sector, Wanted
  <1> QED
    BY <1>2, <1>3, <1>4, <1>5

LEMMA OpenKeeps ==
    ASSUME IInv, NEW f \in File, fs_open(f) \/ fs_close(f)
    PROVE  IInv'
  <1>1. 0 \in 0 .. Size[f]
    BY FileAssumption
  <1> QED
    BY <1>1, PositionKeeps DEF fs_open, fs_close

LEMMA SeekKeeps ==
    ASSUME IInv, NEW f \in File, NEW off \in Offs, NEW base \in {0, offset[f], Size[f]},
           fs_lseek(f, off, base)
    PROVE  IInv'
  <1> DEFINE o == (base + off) % Mod
  <1>1. base \in 0 .. Size[f]
    BY FileAssumption DEF IInv, InFile, TypeOK
  <1>2. o \in Nat
    BY <1>1, Target
  <1>3. Bounded(f, o) \in 0 .. Size[f]
    BY <1>2, FileAssumption DEF Bounded
  <1>4. pc = "idle" /\ offset' = [offset EXCEPT ![f] = Bounded(f, o)] /\ UNCHANGED driver
    BY DEF fs_lseek
  <1> QED
    BY <1>3, <1>4, PositionKeeps

(* The part of a file that a read asks for: no word wraps.                 *)
LEMMA ClampedInFile ==
    ASSUME IInv, NEW f \in File, NEW len \in Reqs
    PROVE  /\ Clamped(f, len) = Fs!Min2(len, Size[f] - offset[f])
           /\ Clamped(f, len) \in Nat
           /\ offset[f] + Clamped(f, len) =< Size[f]
  <1>1. len \in Nat /\ len + Size[f] < Mod /\ Size[f] \in Nat /\ Mod \in Nat
    BY ArgAssumption, FileAssumption, SizeAssumption
  <1>2. offset[f] \in 0 .. Size[f]
    BY FileAssumption DEF IInv, InFile, TypeOK
  <1>3. (len + offset[f]) % Mod = len + offset[f]
    BY <1>1, <1>2
  <1>4. (Size[f] - offset[f]) % Mod = Size[f] - offset[f]
    BY <1>1, <1>2
  <1> QED
    BY <1>1, <1>2, <1>3, <1>4 DEF Clamped, Fs!Min2

(* A call of ide_read begins.                                              *)
LEMMA BeginKeeps ==
    ASSUME IInv, pc = "idle",
           NEW f \in File \cup {Kernel}, NEW from \in Nat, NEW len \in Nat,
           call' = [file |-> f, from |-> from, len |-> len, buf |-> <<>>],
           pc' = "read",
           f # Kernel => from = Start[f] + offset[f] /\ offset[f] + len =< Size[f],
           from .. from + len - 1 \subseteq Addr,
           Asked',
           UNCHANGED <<offset, cache, fpos, byte_cnt>>
    PROVE  IInv'
  <1> USE DEF IInv
  <1>1. TypeOK'
    BY DEF TypeOK
  <1>2. InFile'
    BY DEF InFile
  <1>3. Mirrors'
    BY DEF Mirrors, Refilling
  <1>4. AtRest' /\ Programmed' /\ Transferred' /\ Got' /\ OnDisk'
    BY DEF AtRest, Programmed, Transferred, Got, OnDisk
  <1> QED
    BY <1>1, <1>2, <1>3, <1>4

LEMMA ReadKeeps ==
    ASSUME IInv, NEW f \in File, NEW len \in Reqs, fs_read(f, len)
    PROVE  IInv'
  <1>1. CASE len = 0
    BY <1>1, RetKeeps DEF fs_read, driver
  <1>2. CASE len # 0
    <2> DEFINE n == Clamped(f, len)
               from == Start[f] + offset[f]
    <2>1. n = Fs!Min2(len, Size[f] - offset[f]) /\ n \in Nat /\ offset[f] + n =< Size[f]
      BY ClampedInFile
    <2>2. offset[f] \in Nat /\ Start[f] \in Nat /\ Size[f] \in Nat
      BY FileAssumption DEF IInv, TypeOK
    <2>3. from \in Nat /\ from .. from + n - 1 \subseteq Addr
      <3>1. from .. from + n - 1 \subseteq Start[f] .. Start[f] + Size[f] - 1
        BY <2>1, <2>2
      <3> QED
        BY <2>2, <3>1, FileAssumption
    <2>4. /\ call' = [file |-> f, from |-> from, len |-> n, buf |-> <<>>]
          /\ pc = "idle" /\ pc' = "read"
          /\ UNCHANGED <<offset, cache, fpos, byte_cnt>>
      BY <1>2 DEF fs_read
    <2>5. f # Kernel
      BY FileAssumption DEF Kernel
    <2> HIDE DEF n, from
    <2>6. Asked'
      BY <2>1, <2>4, <2>5 DEF Asked
    <2> QED
      BY <2>1, <2>3, <2>4, <2>6, BeginKeeps DEF n, from
  <1> QED
    BY <1>1, <1>2

LEMMA LoaderKeeps ==
    ASSUME IInv, NEW x \in Raw, loader_read(x[1], x[2])
    PROVE  IInv'
  <1>1. x[1] \in Nat /\ x[2] \in Nat /\ x[1] .. x[1] + x[2] - 1 \subseteq Addr /\ x = <<x[1], x[2]>>
    BY FileAssumption
  <1>2. /\ call' = [file |-> Kernel, from |-> x[1], len |-> x[2], buf |-> <<>>]
        /\ pc = "idle" /\ pc' = "read"
        /\ UNCHANGED <<offset, cache, fpos, byte_cnt>>
    BY DEF loader_read
  <1>3. Asked'
    BY <1>1, <1>2 DEF Asked
  <1> QED
    BY <1>1, <1>2, <1>3, BeginKeeps

----------------------------------------------------------------------------
(* The byte wanted next.                                                   *)
LEMMA WantedType ==
    ASSUME TypeOK
    PROVE  /\ Wanted \in Nat /\ Sector \in Nat
           /\ Wanted % SectorSize \in InSect
           /\ Wanted = Sector * SectorSize + (Wanted % SectorSize)
           /\ SlotOf(Sector) \in Slot
  <1>1. Wanted \in Nat
    <2>1. Len(call.buf) \in Nat
      BY DEF TypeOK
    <2> QED
      BY <2>1 DEF TypeOK, Wanted
  <1> QED
    BY <1>1, Split, SlotOfType DEF Sector

LEMMA ReadByteKeeps ==
    ASSUME IInv, read_byte
    PROVE  IInv'
  <1> USE DEF IInv
  <1> DEFINE k == SlotOf(Sector)
             x == cache[k].content[Wanted % SectorSize]
  <1>1. /\ Wanted \in Nat /\ Sector \in Nat /\ k \in Slot
        /\ Wanted % SectorSize \in InSect
        /\ Wanted = Sector * SectorSize + (Wanted % SectorSize)
    BY WantedType
  <1>2. /\ pc = "read" /\ Hit(Sector) /\ Len(call.buf) < call.len
        /\ call' = [call EXCEPT !.buf = Append(@, x)]
        /\ UNCHANGED <<offset, cache, fpos, byte_cnt, pc, ret>>
    BY DEF read_byte
  <1>3. x = DiskByte(Wanted) /\ x \in Byte
    <2>1. ~Refilling(k) /\ cache[k].used /\ cache[k].sector = Sector
      BY <1>2 DEF Refilling, Hit
    <2>2. x = DiskByte(Sector * SectorSize + (Wanted % SectorSize))
      BY <1>1, <2>1 DEF Mirrors
    <2> QED
      BY <1>1, <2>2, DiskByteType
  <1> HIDE DEF k, x
  <1>4. call.buf \in Seq(Byte) /\ Len(call.buf) \in Nat /\ call.len \in Nat /\ call.from \in Nat
    BY DEF TypeOK
  <1>5. /\ call'.buf = Append(call.buf, x) /\ call'.buf \in Seq(Byte)
        /\ Len(call'.buf) = Len(call.buf) + 1
        /\ call'.file = call.file /\ call'.from = call.from /\ call'.len = call.len
    BY <1>2, <1>3, <1>4 DEF TypeOK
  <1>6. TypeOK'
    BY <1>2, <1>5 DEF TypeOK
  <1>7. InFile'
    BY <1>2, <1>4, <1>5 DEF InFile
  <1>8. Mirrors'
    BY <1>2 DEF Mirrors, Refilling
  <1>9. AtRest' /\ Programmed' /\ Transferred'
    BY <1>2 DEF AtRest, Programmed, Transferred
  <1>10. Got'
    <2>1. ASSUME NEW i \in 1 .. Len(call.buf) + 1
          PROVE  call'.buf[i] = DiskByte(call.from + i - 1)
      <3>1. CASE i \in 1 .. Len(call.buf)
        <4>1. call'.buf[i] = call.buf[i]
          BY <1>3, <1>4, <1>5, <3>1
        <4> QED
          BY <3>1, <4>1 DEF Got
      <3>2. CASE i = Len(call.buf) + 1
        <4>1. call'.buf[i] = x
          BY <1>3, <1>4, <1>5, <3>2
        <4>2. call.from + i - 1 = Wanted
          BY <1>4, <3>2 DEF Wanted
        <4> QED
          BY <1>3, <4>1, <4>2
      <3> QED
        BY <1>4, <2>1, <3>1, <3>2
    <2> QED
      BY <1>5, <2>1 DEF Got, DiskByte
  <1>11. OnDisk' /\ Asked'
    BY <1>2, <1>5 DEF OnDisk, Asked
  <1> QED
    BY <1>6, <1>7, <1>8, <1>9, <1>10, <1>11

LEMMA IssueKeeps ==
    ASSUME IInv, issue_read
    PROVE  IInv'
  <1> USE DEF IInv
  <1>1. Sector \in Nat /\ Sector * SectorSize \in Nat
    BY WantedType, SizeAssumption
  <1>2. /\ pc = "read" /\ pc' = "wait" /\ Len(call.buf) < call.len
        /\ fpos' = Sector * SectorSize /\ byte_cnt' = 0
        /\ UNCHANGED <<offset, cache, call, ret>>
    BY DEF issue_read
  <1>3. Sector' = Sector
    BY <1>2 DEF Sector, Wanted
  <1>4. TypeOK'
    BY <1>1, <1>2, SizeAssumption DEF TypeOK
  <1>5. InFile' /\ AtRest' /\ Got' /\ OnDisk' /\ Asked'
    BY <1>2 DEF InFile, AtRest, Got, OnDisk, Asked
  <1>6. Mirrors'
    BY <1>2 DEF Mirrors, Refilling
  <1>7. Programmed'
    <2>1. 0 = 0 * Long /\ 0 < SectorSize
      BY SizeAssumption
    <2> QED
      BY <1>1, <1>2, <1>3, <2>1 DEF Programmed
  <1>8. Transferred'
    BY <1>2 DEF Transferred, InSect
  <1> QED
    BY <1>4, <1>5, <1>6, <1>7, <1>8

LEMMA IntrKeeps ==
    ASSUME IInv, ide_intr
    PROVE  IInv'
  <1> USE DEF IInv
  <1>1. /\ pc = "wait" /\ pc' = "transfer"
        /\ UNCHANGED <<offset, cache, fpos, byte_cnt, call, ret>>
    BY DEF ide_intr
  <1>2. Sector' = Sector
    BY <1>1 DEF Sector, Wanted
  <1>3. TypeOK' /\ InFile' /\ AtRest' /\ Got' /\ OnDisk' /\ Asked'
    BY <1>1 DEF TypeOK, InFile, AtRest, Got, OnDisk, Asked
  <1>4. Mirrors'
    BY <1>1, <1>2 DEF Mirrors, Refilling
  <1>5. Programmed' /\ Transferred'
    BY <1>1, <1>2 DEF Programmed, Transferred
  <1> QED
    BY <1>3, <1>4, <1>5

(* The long just transferred, and those before it, are the sector's bytes; *)
(* after the last the slot mirrors its sector.                             *)
LEMMA LongKeeps ==
    ASSUME IInv, in_long
    PROVE  IInv'
  <1> USE DEF IInv
  <1> DEFINE k == SlotOf(Sector)
             cont == [b \in InSect |-> IF b \in byte_cnt .. byte_cnt + Long - 1
                                       THEN DiskByte(fpos + b - byte_cnt)
                                       ELSE cache[k].content[b]]
             new == [cache[k] EXCEPT !.content = cont]
             full == ~(byte_cnt + Long < SectorSize)
             slot == IF full THEN Filled(new) ELSE new
  <1>1. /\ Sector \in Nat /\ k \in Slot /\ Sector * SectorSize \in Nat
        /\ byte_cnt \in Nat /\ Long \in Nat /\ SectorSize \in Nat /\ Long > 0
    BY WantedType, SizeAssumption, SMTT(30) DEF TypeOK
  <1>2. /\ Len(call.buf) < call.len
        /\ fpos = Sector * SectorSize + byte_cnt /\ byte_cnt < SectorSize
    BY DEF Programmed, in_long
  <1>3. PICK m \in Nat : byte_cnt = m * Long
    BY DEF Programmed, in_long
  <1>4. byte_cnt + Long =< SectorSize /\ byte_cnt + Long = (m + 1) * Long
    BY <1>2, <1>3, WholeLongs
  <1>5. /\ pc = "transfer" /\ pc' = (IF full THEN "read" ELSE "transfer")
        /\ cache' = [cache EXCEPT ![k] = slot]
        /\ fpos' = fpos + Long /\ byte_cnt' = byte_cnt + Long
        /\ UNCHANGED <<offset, call, ret>>
    BY DEF in_long
  <1>6. Sector' = Sector /\ SlotOf(Sector)' = k
    BY <1>5 DEF Sector, Wanted, SlotOf
  <1>7. cache[k] \in [used : BOOLEAN, sector : Nat, content : [InSect -> Byte]]
    BY <1>1 DEF TypeOK
  <1>8. cont \in [InSect -> Byte]
    BY <1>7, DiskByteType
  <1>9. /\ slot \in [used : BOOLEAN, sector : Nat, content : [InSect -> Byte]]
        /\ slot.content = cont
        /\ full => slot.used /\ slot.sector = Sector
    BY <1>1, <1>7, <1>8 DEF Filled
  <1>10. ASSUME NEW b \in InSect, b < byte_cnt + Long
         PROVE  cont[b] = DiskByte(Sector * SectorSize + b)
    <2>1. b \in Nat
      BY DEF InSect
    <2>2. CASE b < byte_cnt
      BY <1>1, <1>5, <2>1, <2>2 DEF Transferred
    <2>3. CASE b >= byte_cnt
      <3>1. b \in byte_cnt .. byte_cnt + Long - 1
        BY <1>1, <1>10, <2>1, <2>3
      <3>2. fpos + b - byte_cnt = Sector * SectorSize + b
        BY <1>1, <1>2, <2>1
      <3>3. cont[b] = DiskByte(fpos + b - byte_cnt)
        BY <3>1
      <3> QED
        BY <3>2, <3>3
    <2> QED
      BY <1>1, <2>1, <2>2, <2>3
  <1> HIDE DEF k, cont, slot
  <1>11. TypeOK'
    <2>1. cache' \in [Slot -> [used : BOOLEAN, sector : Nat, content : [InSect -> Byte]]]
      BY <1>1, <1>5, <1>9 DEF TypeOK
    <2> QED
      BY <1>1, <1>4, <1>5, <2>1 DEF TypeOK
  <1>12. InFile' /\ AtRest' /\ Got' /\ OnDisk' /\ Asked'
    BY <1>5 DEF InFile, AtRest, Got, OnDisk, Asked, DiskByte
  <1>13. Mirrors'
    <2> SUFFICES ASSUME NEW j \in Slot, cache'[j].used, ~Refilling(j)'
                 PROVE  /\ SlotOf(cache'[j].sector) = j
                        /\ \A b \in InSect : cache'[j].content[b]
                              = DiskByte(cache'[j].sector * SectorSize + b)
      BY DEF Mirrors, SlotOf, DiskByte
    <2>1. CASE j = k
      <3>1. full
        BY <1>5, <1>6, <2>1 DEF Refilling
      <3>2. cache'[j] = slot /\ slot.sector = Sector /\ slot.content = cont
        BY <1>1, <1>5, <1>9, <2>1, <3>1 DEF TypeOK
      <3>3. \A b \in InSect : b < byte_cnt + Long
        BY <1>1, <3>1 DEF InSect
      <3> QED
        BY <1>10, <2>1, <3>2, <3>3 DEF k
    <2>2. CASE j # k
      <3>1. cache'[j] = cache[j]
        BY <1>1, <1>5, <2>2 DEF TypeOK
      <3>2. ~Refilling(j)
        BY <2>2 DEF Refilling, k
      <3> QED
        BY <3>1, <3>2 DEF Mirrors
    <2> QED
      BY <2>1, <2>2
  <1>14. Programmed'
    BY <1>1, <1>2, <1>3, <1>4, <1>5, <1>6 DEF Programmed
  <1>15. Transferred'
    <2>1. cache'[k] = slot
      BY <1>1, <1>5 DEF TypeOK
    <2> QED
      BY <1>5, <1>6, <1>9, <1>10, <2>1 DEF Transferred, DiskByte
  <1> QED
    BY <1>11, <1>12, <1>13, <1>14, <1>15

(* A read is over: the position moves within the file.                     *)
LEMMA DoneKeeps ==
    ASSUME IInv, read_done
    PROVE  IInv'
  <1> USE DEF IInv
  <1>1. /\ call' = Idle /\ pc' = "idle" /\ UNCHANGED <<cache, fpos, byte_cnt>>
        /\ offset' = IF call.file = Kernel THEN offset
                     ELSE [offset EXCEPT ![call.file] = (@ + call.len) % Mod]
    BY DEF read_done
  <1>2. ASSUME call.file # Kernel
        PROVE  /\ call.file \in File /\ offset[call.file] + call.len \in 0 .. Size[call.file]
               /\ (offset[call.file] + call.len) % Mod = offset[call.file] + call.len
    <2>1. call.file \in File /\ call.len \in Nat /\ offset[call.file] \in Nat
      BY <1>2 DEF TypeOK
    <2>2. offset[call.file] + call.len \in 0 .. Size[call.file]
      BY <1>2, <2>1, FileAssumption DEF InFile
    <2>3. Size[call.file] \in Nat /\ 2 * Size[call.file] < Mod /\ Mod \in Nat
      BY <2>1, FileAssumption, SizeAssumption
    <2> QED
      BY <2>1, <2>2, <2>3
  <1>3. /\ offset' \in [File -> Nat]
        /\ \A f \in File : offset'[f] =< Size[f]
    BY <1>1, <1>2, FileAssumption DEF TypeOK, InFile
  <1>4. TypeOK'
    BY <1>1, <1>3, IdleTypes DEF TypeOK
  <1>5. InFile'
    BY <1>1, <1>3 DEF InFile, Idle
  <1>6. Mirrors'
    BY <1>1 DEF Mirrors, Refilling, read_done
  <1>7. AtRest' /\ Programmed' /\ Transferred' /\ Got' /\ OnDisk' /\ Asked'
    BY <1>1 DEF AtRest, Programmed, Transferred, Got, OnDisk, Asked, Idle
  <1> QED
    BY <1>4, <1>5, <1>6, <1>7

----------------------------------------------------------------------------
(* The invariant behind the theorems below: the bytes a call has gathered, *)
(* the transfer under way and the used slots all agree with the disk image *)
(* (fs.c, ide.c, cache.c, disk.c).                                         *)
THEOREM Invariance == Spec => []IInv
  <1>1. IInv /\ [Next]_vars => IInv'
    <2> SUFFICES ASSUME IInv, [Next]_vars PROVE IInv'
      OBVIOUS
    <2>1. CASE \E f \in File : \/ fs_open(f) \/ fs_close(f)
                               \/ \E len \in Reqs : fs_read(f, len)
                               \/ \E off \in Offs, base \in {0, offset[f], Size[f]} :
                                     fs_lseek(f, off, base)
      BY <2>1, OpenKeeps, ReadKeeps, SeekKeeps
    <2>2. CASE \E x \in Raw : loader_read(x[1], x[2])
      BY <2>2, LoaderKeeps
    <2>3. CASE ide_intr
      BY <2>3, IntrKeeps
    <2>4. CASE Reading
      BY <2>4, ReadByteKeeps, IssueKeeps, LongKeeps, DoneKeeps DEF Reading
    <2>5. CASE UNCHANGED vars
      BY <2>5, RetKeeps DEF vars, driver
    <2> QED
      BY <2>1, <2>2, <2>3, <2>4, <2>5 DEF Next
  <1> QED
    BY <1>1, InitInv, PTL DEF Spec

(* Types of the state, for any disk and cache.                             *)
THEOREM TypeCorrect == Spec => []TypeOK
  <1>1. IInv => TypeOK
    BY DEF IInv
  <1> QED
    BY <1>1, Invariance, PTL

(* Whatever a program seeks with, positions and reads in progress stay in  *)
(* their files: no subtraction of fs_read or fs_lseek wraps.               *)
THEOREM InFileAlways == Spec => []InFile
  <1>1. IInv => InFile
    BY DEF IInv
  <1> QED
    BY <1>1, Invariance, PTL

(* A used slot of the sector cache holds its sector's bytes, whatever      *)
(* sectors collide.                                                        *)
THEOREM MirrorsAlways == Spec => []Mirrors
  <1>1. IInv => Mirrors
    BY DEF IInv
  <1> QED
    BY <1>1, Invariance, PTL

----------------------------------------------------------------------------
(* lseek in words is lseek in integers.                                    *)
LEMMA SeekRefines ==
    ASSUME IInv, NEW f \in File, NEW off \in Offs, NEW base \in {0, offset[f], Size[f]},
           fs_lseek(f, off, base)
    PROVE  Fs!Seek(f, off, base)
  <1> DEFINE o == (base + off) % Mod
  <1>1. base \in 0 .. Size[f] /\ Size[f] \in Nat
    BY FileAssumption DEF IInv, InFile, TypeOK
  <1>2. /\ o \in Nat
        /\ base + off \in 0 .. Size[f] => o = base + off
        /\ base + off \notin 0 .. Size[f] => o > Size[f]
    BY <1>1, Target
  <1>3. /\ offset' = [offset EXCEPT ![f] = Bounded(f, o)]
        /\ ret' = Result(IF o > Size[f] THEN -1 ELSE o, <<>>)
    BY DEF fs_lseek
  <1> HIDE DEF o
  <1>4. CASE base + off \in 0 .. Size[f]
    <2>1. ~(o > Size[f]) /\ o = base + off
      BY <1>1, <1>2, <1>4
    <2> QED
      BY <1>3, <1>4, <2>1 DEF Fs!Seek, Fs!Result, Result, Bounded
  <1>5. CASE base + off \notin 0 .. Size[f]
    <2>1. o > Size[f]
      BY <1>2, <1>5
    <2>2. offset' = [offset EXCEPT ![f] = Size[f]] /\ ret' = Result(-1, <<>>)
      BY <1>3, <2>1 DEF Bounded
    <2> QED
      BY <1>5, <2>2 DEF Fs!Seek, Fs!Result, Result
  <1> QED
    BY <1>4, <1>5

(* A finished buffer is the extent of the disk that was asked for.         *)
LEMMA Buffer ==
    ASSUME IInv, Len(call.buf) = call.len
    PROVE  call.buf = Fs!Extent(call.from, call.len)
  <1>1. call.buf \in Seq(Byte) /\ call.len \in Nat /\ call.from \in Nat
    BY DEF IInv, TypeOK
  <1>2. call.buf \in [1 .. call.len -> Byte]
    BY <1>1, LenProperties
  <1>3. ASSUME NEW i \in 1 .. call.len
        PROVE  call.buf[i] = Disk[call.from + i - 1]
    <2>1. call.from + i - 1 \in Addr
      BY <1>1 DEF IInv, OnDisk
    <2>2. call.buf[i] = DiskByte(call.from + i - 1)
      BY DEF IInv, Got
    <2> QED
      BY <2>1, <2>2 DEF DiskByte
  <1> QED
    BY <1>1, <1>2, <1>3 DEF Fs!Extent

LEMMA NothingRead ==
    ASSUME IInv, NEW f \in File, 0 \in Reqs, fs_read(f, 0)
    PROVE  Fs!Read(f, 0)
  <1>1. offset[f] \in 0 .. Size[f] /\ Size[f] \in Nat /\ Start[f] \in Nat
    BY FileAssumption DEF IInv, InFile, TypeOK
  <1>2. Fs!Min2(0, Size[f] - offset[f]) = 0
    BY <1>1 DEF Fs!Min2
  <1>3. Fs!Extent(Start[f] + offset[f], 0) = <<>>
    BY DEF Fs!Extent
  <1>4. [offset EXCEPT ![f] = @ + 0] = offset
    BY <1>1 DEF IInv, TypeOK
  <1>5. ret' = Result(0, <<>>) /\ offset' = offset
    BY DEF fs_read
  <1> QED
    BY <1>2, <1>3, <1>4, <1>5 DEF Fs!Read, Fs!Result, Result

LEMMA DoneRefines ==
    ASSUME IInv, read_done
    PROVE  \/ \E f \in File, len \in Reqs : Fs!Read(f, len)
           \/ \E x \in Raw : Fs!Load(x[1], x[2])
  <1>1. /\ Len(call.buf) = call.len /\ pc # "idle"
        /\ ret' = Result(call.len, call.buf)
        /\ offset' = IF call.file = Kernel THEN offset
                     ELSE [offset EXCEPT ![call.file] = (@ + call.len) % Mod]
    BY DEF read_done
  <1>2. call.buf = Fs!Extent(call.from, call.len)
    BY <1>1, Buffer
  <1>3. CASE call.file = Kernel
    <2> DEFINE x == <<call.from, call.len>>
    <2>1. x \in Raw
      BY <1>1, <1>3 DEF IInv, Asked
    <2>2. Fs!Load(x[1], x[2])
      BY <1>1, <1>2, <1>3 DEF Fs!Load, Fs!Result, Result
    <2> QED
      BY <2>1, <2>2
  <1>4. CASE call.file # Kernel
    <2> DEFINE f == call.file
    <2>1. f \in File /\ call.len \in Nat /\ offset[f] \in Nat /\ offset \in [File -> Nat]
      BY <1>4 DEF IInv, TypeOK
    <2>2. call.from = Start[f] + offset[f] /\ offset[f] + call.len =< Size[f]
      BY <1>4 DEF IInv, InFile
    <2>3. PICK len \in Reqs : call.len = Fs!Min2(len, Size[f] - offset[f])
      BY <1>1, <1>4 DEF IInv, Asked
    <2>4. (offset[f] + call.len) % Mod = offset[f] + call.len
      <3> DEFINE n == offset[f] + call.len
      <3>1. Size[f] \in Nat /\ 2 * Size[f] < Mod /\ Mod \in Nat
        BY <2>1, FileAssumption, SizeAssumption
      <3>2. n \in Nat /\ n < Mod
        BY <2>1, <2>2, <3>1
      <3> HIDE DEF n
      <3>3. n % Mod = n
        BY <3>1, <3>2
      <3> QED
        BY <3>3 DEF n
    <2>5. offset' = [offset EXCEPT ![f] = @ + call.len]
      BY <1>1, <1>4, <2>1, <2>4
    <2>6. Fs!Read(f, len)
      BY <1>1, <1>2, <2>2, <2>3, <2>5 DEF Fs!Read, Fs!Result, Result
    <2> QED
      BY <2>1, <2>6
  <1> QED
    BY <1>3, <1>4

(* Reads through the word arithmetic, the sector cache and the drive are   *)
(* reads of the file's bytes on the disk image, for any disk, any cache    *)
(* and any sequence of calls: fs.c implements FileSystem.                  *)
THEOREM Refinement == Spec => ImplementsFs
  <1>1. Init => Fs!Init
    BY DEF Init, Fs!Init, Result, Fs!Result
  <1>2. IInv /\ [Next]_vars => [Fs!Next]_(Fs!vars)
    <2> SUFFICES ASSUME IInv, [Next]_vars PROVE Fs!Next \/ UNCHANGED <<offset, ret>>
      BY DEF Fs!vars
    <2>1. ASSUME NEW f \in File, fs_open(f) \/ fs_close(f) PROVE Fs!Next
      <3>1. Fs!Open(f) \/ Fs!Close(f)
        BY <2>1 DEF fs_open, fs_close, Fs!Open, Fs!Close, Result, Fs!Result
      <3> QED
        BY <3>1 DEF Fs!Next
    <2>2. ASSUME NEW f \in File, NEW len \in Reqs, fs_read(f, len)
          PROVE  Fs!Next \/ UNCHANGED <<offset, ret>>
      <3>1. CASE len = 0
        BY <2>2, <3>1, NothingRead DEF Fs!Next
      <3>2. CASE len # 0
        BY <2>2, <3>2 DEF fs_read
      <3> QED
        BY <3>1, <3>2
    <2>3. ASSUME NEW f \in File, NEW off \in Offs, NEW base \in {0, offset[f], Size[f]},
                 fs_lseek(f, off, base)
          PROVE  Fs!Next
      BY <2>3, SeekRefines DEF Fs!Next
    <2>4. CASE read_done
      BY <2>4, DoneRefines DEF Fs!Next
    <2>5. CASE \/ \E x \in Raw : loader_read(x[1], x[2])
               \/ read_byte \/ issue_read \/ ide_intr \/ in_long
      BY <2>5 DEF loader_read, read_byte, issue_read, ide_intr, in_long
    <2>6. CASE UNCHANGED vars
      BY <2>6 DEF vars
    <2> QED
      BY <2>1, <2>2, <2>3, <2>4, <2>5, <2>6 DEF Next, Reading
  <1> QED
    BY <1>1, <1>2, Invariance, PTL DEF Spec, ImplementsFs, Fs!Spec
=============================================================================
