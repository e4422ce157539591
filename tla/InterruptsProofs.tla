-------------------------- MODULE InterruptsProofs --------------------------
(***************************************************************************)
(* Proofs about Interrupts for every number of keys, of disk reads and of  *)
(* interrupts nested in a panic, and every interleaving of the stores of   *)
(* the two threads.                                                        *)
(***************************************************************************)
EXTENDS Interrupts, TLAPS

(* Interrupts are delivered only where they are not masked, and a handler  *)
(* masks them; so what raise_intr saves is never a handler's state.        *)
Masked ==
    /\ HandlerAtomic
    /\ pc \in HandlerPc => ~eflags_IF
    /\ ph \in {"query", "ack", "raise"} => eflags_IF
    /\ \A i \in DOMAIN frames : frames[i].fl = TRUE

(* The places a keyboard interrupt can be between keyboard_down and the    *)
(* handler.  The slot does not count while do_intr's ack, which has copied *)
(* the number, still has to erase it.                                      *)
One(b) == IF b THEN 1 ELSE 0

KeyRaising == sirq = "keyboard" /\ "no" \in stodo
KeyInSlot  == intr_no = "keyboard" /\ ~(ph = "ack" /\ "no" \in ctodo)
KeyTaken   == num = "keyboard" /\ ph \in {"ack", "raise"}

KeysDue == One(KeyRaising) + One(KeyInSlot) + One(KeyTaken) + One(pc = "keyboard")

(* Each key is in one of them at most once, so the runs made and the runs  *)
(* due never exceed the keys, whose last one is in the buffer.             *)
KeyCount ==
    /\ keys = scan_code_buf
    /\ kbdRuns + KeysDue =< scan_code_buf
    /\ kbdRuns =< key_code

IInv == TypeOK /\ Masked /\ KeyCount

(* The initial state satisfies the invariant.                              *)
LEMMA InitInv == Init => IInv
  <1> SUFFICES ASSUME Init PROVE IInv
    OBVIOUS
  <1> USE DEF Init
  <1>1. TypeOK
    <2>1. frames \in Seq(Frame)
      OBVIOUS
    <2> QED
      BY <2>1 DEF TypeOK, Irq, Stores, MainPc, HandlerPc, Pc
  <1>2. Masked
    BY DEF Masked, HandlerAtomic, HandlerPc, Irq
  <1>3. KeyCount
    BY DEF KeyCount, KeysDue, KeyRaising, KeyInSlot, KeyTaken, One
  <1> QED
    BY <1>1, <1>2, <1>3 DEF IInv

(* The frame iret pops, and those that stay.                               *)
LEMMA Popped ==
    ASSUME NEW S, NEW q \in Seq(S), q # <<>>
    PROVE  q[1] \in S /\ Tail(q) \in Seq(S) /\ 1 \in DOMAIN q
  OBVIOUS

(* Every step of either thread keeps the types.                             *)
LEMMA TypeNext ==
    ASSUME IInv, [Next]_vars
    PROVE  TypeOK'
  <1> USE DEF IInv, TypeOK, Pc, Frame, Irq, Stores, MainPc, HandlerPc
  <1>1. CASE User
    BY <1>1 DEF User, Step, pic, sdlv, cpuv, kern
  <1>2. CASE Sti
    BY <1>2 DEF Sti, Step, pic, sdlv, cpuv, kern
  <1>3. CASE EnterHlt
    BY <1>3 DEF EnterHlt, pic, sdlv, cpuv, kern
  <1>4. CASE Hlt
    BY <1>4 DEF Hlt, pic, sdlv, cpuv, kern
  <1>5. CASE ClearIdeIntr
    BY <1>5, ZenonT(60) DEF ClearIdeIntr, Step, pic, sdlv, cpuv, kern
  <1>6. CASE IssueRead
    BY <1>6 DEF IssueRead, pic, sdlv, cpuv, kern
  <1>7. CASE OutStore
    <2>1. PICK s \in ctodo : RaiseStore(s, "ide") /\ ctodo' = ctodo \ {s}
                  /\ ph' = IF ctodo = {s} THEN "check" ELSE "out"
      BY <1>7 DEF OutStore
    <2>2. intr' \in BOOLEAN
      BY <2>1, Zenon DEF RaiseStore
    <2>3. intr_no' \in Irq \union {"none"}
      BY <2>1 DEF RaiseStore
    <2> QED
      BY <1>7, <2>1, <2>2, <2>3 DEF OutStore, sdlv, kern
  <1>8. CASE TestIdeIntr
    BY <1>8 DEF TestIdeIntr, Step, pic, sdlv, cpuv, kern
  <1>9. CASE Transfer
    BY <1>9, ZenonT(60) DEF Transfer, Step, pic, sdlv, cpuv, kern
  <1>10. CASE TimerHandler
    BY <1>10 DEF TimerHandler, Step, pic, sdlv, cpuv, kern
  <1>11. CASE KeyboardHandler
    BY <1>11 DEF KeyboardHandler, Step, pic, sdlv, cpuv, kern
  <1>12. CASE IdeHandler
    BY <1>12 DEF IdeHandler, Step, pic, sdlv, cpuv, kern
  <1>13. CASE Iret
    <2>1. frames[1] \in Frame /\ Tail(frames) \in Seq(Frame) /\ 1 \in DOMAIN frames
      <3>1. frames \in Seq(Frame)
        OBVIOUS
      <3>2. frames # <<>>
        BY <1>13 DEF Iret
      <3> QED
        BY ONLY <3>1, <3>2, Popped
    <2>2. frames[1].pc \notin HandlerPc
      BY <2>1 DEF Masked, HandlerAtomic
    <2>3. frames[1].fl \in BOOLEAN
      BY <2>1, Zenon
    <2> QED
      BY <1>13, <2>1, <2>2, <2>3 DEF Iret, Step, pic, sdlv, kern
  <1>14. CASE PanicLog
    BY <1>14 DEF PanicLog, Step, pic, sdlv, cpuv, kern
  <1>15. CASE Panic
    BY <1>15 DEF Panic, Step, pic, sdlv, cpuv, kern
  <1>16. CASE LeaveExec
    BY <1>16 DEF LeaveExec, pic, sdlv, cpuv, kern
  <1>17. CASE CheckIntr
    BY <1>17 DEF CheckIntr, pic, sdlv, cpuv, kern
  <1>18. CASE QueryIntrNo
    BY <1>18 DEF QueryIntrNo, pic, sdlv, cpuv, kern
  <1>19. CASE AckIntr
    <2>1. PICK s \in ctodo : AckStore(s) /\ ctodo' = ctodo \ {s}
                  /\ ph' = IF ctodo = {s} THEN "raise" ELSE "ack"
      BY <1>19 DEF AckIntr
    <2>2. intr' \in BOOLEAN
      BY <2>1, Zenon DEF AckStore
    <2>3. intr_no' \in Irq \union {"none"}
      BY <2>1 DEF AckStore
    <2> QED
      BY <1>19, <2>1, <2>2, <2>3 DEF AckIntr, sdlv, kern
  <1>20. CASE RaiseIntr
    <2>1. [pc |-> pc, fl |-> eflags_IF] \in Frame
      BY Zenon
    <2>2. frames' \in Seq(Frame) /\ frames' # <<>>
      BY <1>20, <2>1 DEF RaiseIntr
    <2>3. eflags_IF' \in BOOLEAN
      BY <1>20, Zenon DEF RaiseIntr
    <2> QED
      BY <1>20, <2>2, <2>3, ZenonT(60) DEF RaiseIntr, pic, sdlv, kern
  <1>21. CASE TimerTick
    <2>1. CASE nemu_state = "RUN"
      BY <1>21, <2>1 DEF TimerTick, pic, cpuv, kern
    <2>2. CASE nemu_state # "RUN"
      <3>1. UNCHANGED <<sirq, stodo>>
        BY <1>21, <2>2 DEF TimerTick
      <3> QED
        BY <1>21, <3>1 DEF TimerTick, pic, cpuv, kern
    <2> QED
      BY <2>1, <2>2
  <1>22. CASE SdlStore
    <2>1. PICK s \in stodo : RaiseStore(s, sirq) /\ stodo' = stodo \ {s}
      BY <1>22 DEF SdlStore
    <2>2. intr' \in BOOLEAN
      BY <2>1, Zenon DEF RaiseStore
    <2>4. sirq # "none"
      BY <2>1
    <2>3. intr_no' \in Irq \union {"none"}
      BY <2>1, <2>4 DEF RaiseStore
    <2> QED
      BY <1>22, <2>1, <2>2, <2>3 DEF SdlStore, cpuv, kern
  <1>23. CASE KeyEvent
    BY <1>23 DEF KeyEvent, pic, sdlv, cpuv, kern
  <1>24. CASE QuitEvent
    BY <1>24 DEF QuitEvent, pic, sdlv, cpuv, kern
  <1>25. CASE Delay
    BY <1>25 DEF Delay, pic, sdlv, cpuv, kern
  <1>26. CASE UNCHANGED vars
    BY <1>26 DEF vars, pic, sdlv, cpuv, kern
  <1> QED
    BY <1>1, <1>2, <1>3, <1>4, <1>5, <1>6, <1>7, <1>8, <1>9, <1>10,
       <1>11, <1>12, <1>13, <1>14, <1>15, <1>16, <1>17, <1>18, <1>19,
       <1>20, <1>21, <1>22, <1>23, <1>24, <1>25, <1>26 DEF Next, CpuNext

(* Every step keeps handlers masked and out of the saved frames.           *)
LEMMA MaskedNext ==
    ASSUME IInv, [Next]_vars
    PROVE  Masked'
  <1> USE DEF IInv, Masked, HandlerAtomic, TypeOK, Pc, Frame, Irq, Stores, MainPc, HandlerPc
  <1>1. CASE User
    BY <1>1 DEF User, Step, pic, sdlv, cpuv, kern
  <1>2. CASE Sti
    BY <1>2 DEF Sti, Step, pic, sdlv, cpuv, kern
  <1>3. CASE EnterHlt
    BY <1>3 DEF EnterHlt, pic, sdlv, cpuv, kern
  <1>4. CASE Hlt
    BY <1>4 DEF Hlt, pic, sdlv, cpuv, kern
  <1>5. CASE ClearIdeIntr
    BY <1>5 DEF ClearIdeIntr, Step, pic, sdlv, cpuv, kern
  <1>6. CASE IssueRead
    BY <1>6 DEF IssueRead, pic, sdlv, cpuv, kern
  <1>7. CASE OutStore
    BY <1>7 DEF OutStore, RaiseStore, pic, sdlv, cpuv, kern
  <1>8. CASE TestIdeIntr
    BY <1>8 DEF TestIdeIntr, Step, pic, sdlv, cpuv, kern
  <1>9. CASE Transfer
    BY <1>9 DEF Transfer, Step, pic, sdlv, cpuv, kern
  <1>10. CASE TimerHandler
    BY <1>10 DEF TimerHandler, Step, pic, sdlv, cpuv, kern
  <1>11. CASE KeyboardHandler
    BY <1>11 DEF KeyboardHandler, Step, pic, sdlv, cpuv, kern
  <1>12. CASE IdeHandler
    BY <1>12 DEF IdeHandler, Step, pic, sdlv, cpuv, kern
  <1>13. CASE Iret
    BY <1>13 DEF Iret, Step, pic, sdlv, cpuv, kern
  <1>14. CASE PanicLog
    BY <1>14 DEF PanicLog, Step, pic, sdlv, cpuv, kern
  <1>15. CASE Panic
    BY <1>15 DEF Panic, Step, pic, sdlv, cpuv, kern
  <1>16. CASE LeaveExec
    BY <1>16 DEF LeaveExec, pic, sdlv, cpuv, kern
  <1>17. CASE CheckIntr
    BY <1>17 DEF CheckIntr, pic, sdlv, cpuv, kern
  <1>18. CASE QueryIntrNo
    BY <1>18 DEF QueryIntrNo, pic, sdlv, cpuv, kern
  <1>19. CASE AckIntr
    BY <1>19 DEF AckIntr, AckStore, pic, sdlv, cpuv, kern
  <1>20. CASE RaiseIntr
    BY <1>20 DEF RaiseIntr, pic, sdlv, cpuv, kern
  <1>21. CASE TimerTick
    BY <1>21 DEF TimerTick, pic, sdlv, cpuv, kern
  <1>22. CASE SdlStore
    BY <1>22 DEF SdlStore, RaiseStore, pic, sdlv, cpuv, kern
  <1>23. CASE KeyEvent
    BY <1>23 DEF KeyEvent, pic, sdlv, cpuv, kern
  <1>24. CASE QuitEvent
    BY <1>24 DEF QuitEvent, pic, sdlv, cpuv, kern
  <1>25. CASE Delay
    BY <1>25 DEF Delay, pic, sdlv, cpuv, kern
  <1>26. CASE UNCHANGED vars
    BY <1>26 DEF vars, pic, sdlv, cpuv, kern
  <1> QED
    BY <1>1, <1>2, <1>3, <1>4, <1>5, <1>6, <1>7, <1>8, <1>9, <1>10,
       <1>11, <1>12, <1>13, <1>14, <1>15, <1>16, <1>17, <1>18, <1>19,
       <1>20, <1>21, <1>22, <1>23, <1>24, <1>25, <1>26 DEF Next, CpuNext

(* A step moves a keyboard interrupt from place to place or loses it.      *)
LEMMA KeyNext ==
    ASSUME IInv, [Next]_vars
    PROVE  KeyCount'
  <1> USE DEF IInv, Masked, HandlerAtomic, KeyCount, KeysDue, KeyRaising, KeyInSlot,
             KeyTaken, One, TypeOK, Pc, Frame, Irq, Stores, MainPc, HandlerPc
  <1>1. CASE User
    BY <1>1 DEF User, Step, pic, sdlv, cpuv, kern
  <1>2. CASE Sti
    BY <1>2 DEF Sti, Step, pic, sdlv, cpuv, kern
  <1>3. CASE EnterHlt
    BY <1>3 DEF EnterHlt, pic, sdlv, cpuv, kern
  <1>4. CASE Hlt
    BY <1>4 DEF Hlt, pic, sdlv, cpuv, kern
  <1>5. CASE ClearIdeIntr
    BY <1>5 DEF ClearIdeIntr, Step, pic, sdlv, cpuv, kern
  <1>6. CASE IssueRead
    BY <1>6 DEF IssueRead, pic, sdlv, cpuv, kern
  <1>7. CASE OutStore
    BY <1>7 DEF OutStore, RaiseStore, pic, sdlv, cpuv, kern
  <1>8. CASE TestIdeIntr
    BY <1>8 DEF TestIdeIntr, Step, pic, sdlv, cpuv, kern
  <1>9. CASE Transfer
    BY <1>9 DEF Transfer, Step, pic, sdlv, cpuv, kern
  <1>10. CASE TimerHandler
    BY <1>10 DEF TimerHandler, Step, pic, sdlv, cpuv, kern
  <1>11. CASE KeyboardHandler
    BY <1>11 DEF KeyboardHandler, Step, pic, sdlv, cpuv, kern
  <1>12. CASE IdeHandler
    BY <1>12 DEF IdeHandler, Step, pic, sdlv, cpuv, kern
  <1>13. CASE Iret
    BY <1>13 DEF Iret, Step, pic, sdlv, cpuv, kern
  <1>14. CASE PanicLog
    BY <1>14 DEF PanicLog, Step, pic, sdlv, cpuv, kern
  <1>15. CASE Panic
    BY <1>15 DEF Panic, Step, pic, sdlv, cpuv, kern
  <1>16. CASE LeaveExec
    BY <1>16 DEF LeaveExec, pic, sdlv, cpuv, kern
  <1>17. CASE CheckIntr
    BY <1>17 DEF CheckIntr, pic, sdlv, cpuv, kern
  <1>18. CASE QueryIntrNo
    BY <1>18 DEF QueryIntrNo, pic, sdlv, cpuv, kern
  <1>19. CASE AckIntr
    BY <1>19 DEF AckIntr, AckStore, pic, sdlv, cpuv, kern
  <1>20. CASE RaiseIntr
    BY <1>20 DEF RaiseIntr, pic, sdlv, cpuv, kern
  <1>21. CASE TimerTick
    BY <1>21 DEF TimerTick, pic, sdlv, cpuv, kern
  <1>22. CASE SdlStore
    BY <1>22 DEF SdlStore, RaiseStore, pic, sdlv, cpuv, kern
  <1>23. CASE KeyEvent
    BY <1>23 DEF KeyEvent, pic, sdlv, cpuv, kern
  <1>24. CASE QuitEvent
    BY <1>24 DEF QuitEvent, pic, sdlv, cpuv, kern
  <1>25. CASE Delay
    BY <1>25 DEF Delay, pic, sdlv, cpuv, kern
  <1>26. CASE UNCHANGED vars
    BY <1>26 DEF vars, pic, sdlv, cpuv, kern
  <1> QED
    BY <1>1, <1>2, <1>3, <1>4, <1>5, <1>6, <1>7, <1>8, <1>9, <1>10,
       <1>11, <1>12, <1>13, <1>14, <1>15, <1>16, <1>17, <1>18, <1>19,
       <1>20, <1>21, <1>22, <1>23, <1>24, <1>25, <1>26 DEF Next, CpuNext

(* The invariant holds throughout.                                         *)
THEOREM Invariance == Spec => []IInv
  <1>1. IInv /\ [Next]_vars => IInv'
    BY TypeNext, MaskedNext, KeyNext DEF IInv
  <1> QED
    BY InitInv, <1>1, PTL DEF Spec

(* The state keeps its types, and a handler always has a frame to return   *)
(* through.                                                                *)
THEOREM TypeCorrect == Spec => []TypeOK
  <1>1. IInv => TypeOK
    BY DEF IInv
  <1> QED
    BY <1>1, Invariance, PTL

(* No handler is ever interrupted, whatever the SDL thread and the disk    *)
(* raise and whenever they do.                                             *)
THEOREM HandlerAtomicAlways == Spec => []HandlerAtomic
  <1>1. IInv => HandlerAtomic
    BY DEF IInv, Masked
  <1> QED
    BY <1>1, Invariance, PTL

(* A key is never delivered twice, in whatever order the four stores of    *)
(* i8259_raise_intr and i8259_ack_intr interleave.                         *)
THEOREM NoKeyTwiceAlways == Spec => []NoKeyTwice
  <1>1. IInv => NoKeyTwice
    BY DEF IInv, KeyCount, NoKeyTwice
  <1> QED
    BY <1>1, Invariance, PTL
----------------------------------------------------------------------------
(* The disk.  The program is interrupted once: below the saved state of a  *)
(* panic there are only those of other panics and, last, the program's.    *)
Stack ==
    /\ pc \in MainPc => frames = <<>>
    /\ ph = "halted" => pc \in {"halt", "wait"}
    /\ \A i \in DOMAIN frames : frames[i].pc \in MainPc => i = Len(frames)

(* The program, running or interrupted, is at p.                           *)
At(p) == pc = p \/ \E i \in DOMAIN frames : frames[i].pc = p

(* The places the interrupt of a read can be, as for a key.                *)
IdeRaising == ph = "out" /\ "no" \in ctodo
IdeInSlot  == intr_no = "ide" /\ ~(ph = "ack" /\ "no" \in ctodo)
IdeTaken   == num = "ide" /\ ph \in {"ack", "raise"}

IdeDue == One(IdeRaising) + One(IdeInSlot) + One(IdeTaken) + One(pc = "ide")

(* Outside wait_ide_intr every read was answered; inside, the flag says    *)
(* that the last one was.                                                  *)
ReadCount ==
    /\ ideRuns + IdeDue =< reads
    /\ reads =< ideRuns + 1
    /\ ideRuns = reads \/ (~has_ide_intr /\ (At("test") \/ At("wait")))
    /\ At("issue") => ~has_ide_intr

RInv == Stack /\ ReadCount

(* What a push and a pop do to the saved states.                           *)
LEMMA Pushed ==
    ASSUME NEW S, NEW q \in Seq(S), NEW f \in S
    PROVE  LET r == <<f>> \o q
           IN  /\ r[1] = f /\ Len(r) = Len(q) + 1
               /\ DOMAIN r = 1 .. Len(q) + 1
               /\ \A i \in DOMAIN q : i + 1 \in DOMAIN r /\ r[i + 1] = q[i]
               /\ \A i \in DOMAIN r : i = 1 \/ (i - 1 \in DOMAIN q /\ r[i] = q[i - 1])
  OBVIOUS

(* What a pop leaves: the frames below the first, moved up by one.         *)
LEMMA PoppedRest ==
    ASSUME NEW S, NEW q \in Seq(S), q # <<>>
    PROVE  LET r == Tail(q)
           IN  /\ Len(r) = Len(q) - 1 /\ Len(q) >= 1
               /\ \A i \in DOMAIN r : i + 1 \in DOMAIN q /\ r[i] = q[i + 1]
               /\ \A i \in DOMAIN q : i = 1 \/ (i - 1 \in DOMAIN r /\ r[i - 1] = q[i])
               /\ Len(q) = 1 => r = <<>>
  OBVIOUS

(* iret and raise_intr leave the program where it is.                      *)
LEMMA IretAt ==
    ASSUME IInv, Iret
    PROVE  \A p \in MainPc : At(p)' <=> At(p)
  <1>1. frames \in Seq(Frame) /\ frames # <<>> /\ frames' = Tail(frames) /\ pc = "iret"
    BY DEF IInv, TypeOK, Iret, Step
  <1>2. pc' = frames[1].pc /\ 1 \in DOMAIN frames
    BY <1>1, Popped DEF Iret, Step
  <1>3. /\ \A i \in DOMAIN frames' : i + 1 \in DOMAIN frames /\ frames'[i] = frames[i + 1]
        /\ \A i \in DOMAIN frames : i = 1 \/ (i - 1 \in DOMAIN frames' /\ frames'[i - 1] = frames[i])
    BY <1>1, PoppedRest
  <1> SUFFICES ASSUME NEW p \in MainPc PROVE At(p)' <=> At(p)
    OBVIOUS
  <1>4. ASSUME At(p)' PROVE At(p)
    BY <1>2, <1>3, <1>4 DEF At
  <1>5. ASSUME At(p) PROVE At(p)'
    <2>1. p # "iret"
      BY DEF MainPc
    <2>2. PICK i \in DOMAIN frames : frames[i].pc = p
      BY <1>1, <1>5, <2>1 DEF At
    <2>3. CASE i = 1
      BY <1>2, <2>2, <2>3 DEF At
    <2>4. CASE i # 1
      BY <1>3, <2>2, <2>4 DEF At
    <2> QED
      BY <2>3, <2>4
  <1> QED
    BY <1>4, <1>5

(* raise_intr leaves the program where it is, and saves pc on top of the   *)
(* frames.                                                                 *)
LEMMA RaiseIntrAt ==
    ASSUME IInv, RaiseIntr
    PROVE  /\ \A p \in MainPc : At(p)' <=> At(p)
           /\ \A i \in DOMAIN frames' :
                 /\ i \in Nat
                 /\ \/ i = 1 /\ frames'[i].pc = pc
                    \/ i - 1 \in DOMAIN frames /\ frames'[i] = frames[i - 1]
           /\ Len(frames') = Len(frames) + 1
  <1> DEFINE f == [pc |-> pc, fl |-> eflags_IF]
  <1>1. frames \in Seq(Frame) /\ frames' = <<f>> \o frames
    BY DEF IInv, TypeOK, RaiseIntr
  <1>2. f \in Frame
    BY Zenon DEF IInv, TypeOK, Frame
  <1>3. f.pc = pc
    OBVIOUS
  <1> HIDE DEF f
  <1>4. /\ frames'[1] = f /\ Len(frames') = Len(frames) + 1
        /\ DOMAIN frames' = 1 .. Len(frames) + 1
        /\ \A i \in DOMAIN frames : i + 1 \in DOMAIN frames' /\ frames'[i + 1] = frames[i]
        /\ \A i \in DOMAIN frames' : i = 1 \/ (i - 1 \in DOMAIN frames /\ frames'[i] = frames[i - 1])
    BY <1>1, <1>2, Pushed
  <1>5. Len(frames) \in Nat
    BY <1>1
  <1>6. 1 \in DOMAIN frames'
    BY <1>4, <1>5
  <1>7. pc' \notin MainPc
    BY DEF RaiseIntr, MainPc, Irq
  <1>8. ASSUME NEW p \in MainPc PROVE At(p)' <=> At(p)
    <2>1. ASSUME At(p)' PROVE At(p)
      BY <1>3, <1>4, <1>7, <2>1 DEF At
    <2>2. ASSUME At(p) PROVE At(p)'
      BY <1>3, <1>4, <1>6, <2>2 DEF At
    <2> QED
      BY <2>1, <2>2
  <1>9. \A i \in DOMAIN frames' : i \in Nat
    BY <1>4, <1>5
  <1> QED
    BY <1>3, <1>4, <1>8, <1>9

(* The program's state stays at the bottom of the stack.                   *)
LEMMA StackNext ==
    ASSUME IInv, Stack, [Next]_vars
    PROVE  Stack'
  <1> USE DEF IInv, Stack, TypeOK, Pc, Frame, Irq, Stores, MainPc, HandlerPc
  <1>1. CASE User
    BY <1>1 DEF User, Step, pic, sdlv, cpuv, kern
  <1>2. CASE Sti
    BY <1>2 DEF Sti, Step, pic, sdlv, cpuv, kern
  <1>3. CASE EnterHlt
    BY <1>3 DEF EnterHlt, pic, sdlv, cpuv, kern
  <1>4. CASE Hlt
    BY <1>4 DEF Hlt, pic, sdlv, cpuv, kern
  <1>5. CASE ClearIdeIntr
    BY <1>5 DEF ClearIdeIntr, Step, pic, sdlv, cpuv, kern
  <1>6. CASE IssueRead
    BY <1>6 DEF IssueRead, pic, sdlv, cpuv, kern
  <1>7. CASE OutStore
    BY <1>7 DEF OutStore, RaiseStore, pic, sdlv, cpuv, kern
  <1>8. CASE TestIdeIntr
    BY <1>8 DEF TestIdeIntr, Step, pic, sdlv, cpuv, kern
  <1>9. CASE Transfer
    BY <1>9 DEF Transfer, Step, pic, sdlv, cpuv, kern
  <1>10. CASE TimerHandler
    BY <1>10 DEF TimerHandler, Step, pic, sdlv, cpuv, kern
  <1>11. CASE KeyboardHandler
    BY <1>11 DEF KeyboardHandler, Step, pic, sdlv, cpuv, kern
  <1>12. CASE IdeHandler
    BY <1>12 DEF IdeHandler, Step, pic, sdlv, cpuv, kern
  <1>13. CASE Iret
    <2>1. frames \in Seq(Frame) /\ frames # <<>> /\ frames' = Tail(frames)
      BY <1>13 DEF Iret
    <2>2. pc' = frames[1].pc /\ 1 \in DOMAIN frames
      BY <1>13, <2>1, Popped DEF Iret, Step
    <2>3. /\ Len(frames') = Len(frames) - 1
          /\ \A i \in DOMAIN frames' : i + 1 \in DOMAIN frames /\ frames'[i] = frames[i + 1]
          /\ Len(frames) = 1 => frames' = <<>>
      BY ONLY <2>1, PoppedRest
    <2>4. ASSUME NEW i \in DOMAIN frames', frames'[i].pc \in MainPc PROVE i = Len(frames')
      <3>1. i + 1 = Len(frames)
        BY <2>3, <2>4
      <3>2. i \in Int /\ Len(frames) \in Int
        BY <2>1
      <3> QED
        BY ONLY <2>3, <3>1, <3>2
    <2>5. pc' \in MainPc => frames' = <<>>
      BY <2>2, <2>3
    <2>6. ph' # "halted"
      BY <1>13 DEF Iret, Step
    <2> QED
      BY <2>4, <2>5, <2>6
  <1>14. CASE PanicLog
    BY <1>14 DEF PanicLog, Step, pic, sdlv, cpuv, kern
  <1>15. CASE Panic
    BY <1>15 DEF Panic, Step, pic, sdlv, cpuv, kern
  <1>16. CASE LeaveExec
    BY <1>16 DEF LeaveExec, pic, sdlv, cpuv, kern
  <1>17. CASE CheckIntr
    BY <1>17 DEF CheckIntr, pic, sdlv, cpuv, kern
  <1>18. CASE QueryIntrNo
    BY <1>18 DEF QueryIntrNo, pic, sdlv, cpuv, kern
  <1>19. CASE AckIntr
    BY <1>19 DEF AckIntr, AckStore, pic, sdlv, cpuv, kern
  <1>20. CASE RaiseIntr
    <2>1. pc' \notin MainPc
      BY <1>20 DEF RaiseIntr
    <2>2. ASSUME NEW i \in DOMAIN frames', frames'[i].pc \in MainPc PROVE i = Len(frames')
      <3>1. Len(frames') = Len(frames) + 1 /\ Len(frames) \in Nat
        BY <1>20, RaiseIntrAt
      <3>2. CASE i = 1 /\ frames'[i].pc = pc
        <4>1. frames = <<>>
          BY <2>2, <3>2
        <4> QED
          BY <3>1, <3>2, <4>1
      <3>3. CASE i - 1 \in DOMAIN frames /\ frames'[i] = frames[i - 1]
        <4>1. i - 1 = Len(frames)
          BY <2>2, <3>3
        <4>2. i \in Int
          BY <1>20, <2>2, RaiseIntrAt
        <4> QED
          BY ONLY <3>1, <4>1, <4>2
      <3> QED
        BY <1>20, <2>2, <3>2, <3>3, RaiseIntrAt
    <2>3. ph' # "halted"
      BY <1>20 DEF RaiseIntr
    <2> QED
      BY <2>1, <2>2, <2>3
  <1>21. CASE TimerTick
    BY <1>21 DEF TimerTick, pic, sdlv, cpuv, kern
  <1>22. CASE SdlStore
    BY <1>22 DEF SdlStore, RaiseStore, pic, sdlv, cpuv, kern
  <1>23. CASE KeyEvent
    BY <1>23 DEF KeyEvent, pic, sdlv, cpuv, kern
  <1>24. CASE QuitEvent
    BY <1>24 DEF QuitEvent, pic, sdlv, cpuv, kern
  <1>25. CASE Delay
    BY <1>25 DEF Delay, pic, sdlv, cpuv, kern
  <1>26. CASE UNCHANGED vars
    BY <1>26 DEF vars, pic, sdlv, cpuv, kern
  <1> QED
    BY <1>1, <1>2, <1>3, <1>4, <1>5, <1>6, <1>7, <1>8, <1>9, <1>10,
       <1>11, <1>12, <1>13, <1>14, <1>15, <1>16, <1>17, <1>18, <1>19,
       <1>20, <1>21, <1>22, <1>23, <1>24, <1>25, <1>26 DEF Next, CpuNext

(* A step moves the disk's interrupt from place to place or loses it.      *)
LEMMA ReadNext ==
    ASSUME IInv, RInv, [Next]_vars
    PROVE  ReadCount'
  <1>a. Iret => \A p \in {"test", "wait", "issue"} : At(p)' <=> At(p)
    BY IretAt DEF MainPc
  <1>b. RaiseIntr => \A p \in {"test", "wait", "issue"} : At(p)' <=> At(p)
    BY RaiseIntrAt DEF MainPc
  <1> USE DEF IInv, RInv, Masked, HandlerAtomic, Stack, ReadCount, At, IdeDue,
             IdeRaising, IdeInSlot, IdeTaken, One, TypeOK, Pc, Frame, Irq, Stores, MainPc, HandlerPc
  <1>1. CASE User
    BY <1>1 DEF User, Step, pic, sdlv, cpuv, kern
  <1>2. CASE Sti
    BY <1>2 DEF Sti, Step, pic, sdlv, cpuv, kern
  <1>3. CASE EnterHlt
    BY <1>3 DEF EnterHlt, pic, sdlv, cpuv, kern
  <1>4. CASE Hlt
    BY <1>4 DEF Hlt, pic, sdlv, cpuv, kern
  <1>5. CASE ClearIdeIntr
    BY <1>5 DEF ClearIdeIntr, Step, pic, sdlv, cpuv, kern
  <1>6. CASE IssueRead
    BY <1>6 DEF IssueRead, pic, sdlv, cpuv, kern
  <1>7. CASE OutStore
    BY <1>7 DEF OutStore, RaiseStore, pic, sdlv, cpuv, kern
  <1>8. CASE TestIdeIntr
    BY <1>8 DEF TestIdeIntr, Step, pic, sdlv, cpuv, kern
  <1>9. CASE Transfer
    BY <1>9 DEF Transfer, Step, pic, sdlv, cpuv, kern
  <1>10. CASE TimerHandler
    BY <1>10 DEF TimerHandler, Step, pic, sdlv, cpuv, kern
  <1>11. CASE KeyboardHandler
    BY <1>11 DEF KeyboardHandler, Step, pic, sdlv, cpuv, kern
  <1>12. CASE IdeHandler
    BY <1>12 DEF IdeHandler, Step, pic, sdlv, cpuv, kern
  <1>13. CASE Iret
    <2>1. \A p \in {"test", "wait", "issue"} : At(p)' <=> At(p)
      BY ONLY <1>a, <1>13
    <2>2. pc' # "ide"
      <3>1. frames \in Seq(Frame) /\ frames # <<>>
        BY <1>13 DEF Iret
      <3>2. 1 \in DOMAIN frames
        BY ONLY <3>1, Popped
      <3> QED
        BY <1>13, <3>2 DEF Iret, Step
    <2>3. IdeDue' =< IdeDue /\ IdeDue \in Nat /\ IdeDue' \in Nat
      BY <1>13, <2>2 DEF Iret, Step, pic, kern
    <2>4. UNCHANGED <<has_ide_intr, reads, ideRuns>> /\ reads \in Nat /\ ideRuns \in Nat
      BY <1>13 DEF Iret, kern
    <2> QED
      BY ONLY ReadCount, <2>1, <2>3, <2>4 DEF ReadCount
  <1>14. CASE PanicLog
    BY <1>14 DEF PanicLog, Step, pic, sdlv, cpuv, kern
  <1>15. CASE Panic
    BY <1>15 DEF Panic, Step, pic, sdlv, cpuv, kern
  <1>16. CASE LeaveExec
    BY <1>16 DEF LeaveExec, pic, sdlv, cpuv, kern
  <1>17. CASE CheckIntr
    BY <1>17 DEF CheckIntr, pic, sdlv, cpuv, kern
  <1>18. CASE QueryIntrNo
    BY <1>18 DEF QueryIntrNo, pic, sdlv, cpuv, kern
  <1>19. CASE AckIntr
    BY <1>19 DEF AckIntr, AckStore, pic, sdlv, cpuv, kern
  <1>20. CASE RaiseIntr
    <2>1. \A p \in {"test", "wait", "issue"} : At(p)' <=> At(p)
      BY ONLY <1>b, <1>20
    <2>2. IdeDue' =< IdeDue /\ IdeDue \in Nat /\ IdeDue' \in Nat
      BY <1>20 DEF RaiseIntr, pic, kern
    <2>3. UNCHANGED <<has_ide_intr, reads, ideRuns>> /\ reads \in Nat /\ ideRuns \in Nat
      BY <1>20 DEF RaiseIntr, kern
    <2> QED
      BY ONLY ReadCount, <2>1, <2>2, <2>3 DEF ReadCount
  <1>21. CASE TimerTick
    BY <1>21 DEF TimerTick, pic, sdlv, cpuv, kern
  <1>22. CASE SdlStore
    BY <1>22 DEF SdlStore, RaiseStore, pic, sdlv, cpuv, kern
  <1>23. CASE KeyEvent
    BY <1>23 DEF KeyEvent, pic, sdlv, cpuv, kern
  <1>24. CASE QuitEvent
    BY <1>24 DEF QuitEvent, pic, sdlv, cpuv, kern
  <1>25. CASE Delay
    BY <1>25 DEF Delay, pic, sdlv, cpuv, kern
  <1>26. CASE UNCHANGED vars
    BY <1>26 DEF vars, pic, sdlv, cpuv, kern
  <1> QED
    BY <1>1, <1>2, <1>3, <1>4, <1>5, <1>6, <1>7, <1>8, <1>9, <1>10,
       <1>11, <1>12, <1>13, <1>14, <1>15, <1>16, <1>17, <1>18, <1>19,
       <1>20, <1>21, <1>22, <1>23, <1>24, <1>25, <1>26 DEF Next, CpuNext

(* The invariant of the disk holds throughout.                             *)
THEOREM ReadInvariance == Spec => []RInv
  <1>1. Init => RInv
    BY DEF Init, RInv, Stack, ReadCount, At, IdeDue, IdeRaising, IdeInSlot, IdeTaken, One
  <1>2. IInv /\ RInv /\ [Next]_vars => RInv'
    BY StackNext, ReadNext DEF RInv
  <1> QED
    BY <1>1, <1>2, Invariance, PTL DEF Spec

(* disk_do_read transfers only after the interrupt of its own read, though *)
(* every interrupt ends the hlt it waits in.                               *)
THEOREM ReadAccountedAlways == Spec => []ReadAccounted
  <1>1. IInv /\ RInv => ReadAccounted
    BY DEF IInv, TypeOK, RInv, Stack, ReadCount, At, ReadAccounted, MainPc
  <1> QED
    BY <1>1, Invariance, ReadInvariance, PTL
----------------------------------------------------------------------------
(* A step that loses the interrupt of the read takes its number out of the *)
(* slot: everywhere else it moves on, and a read does not begin to wait    *)
(* before its interrupt is on its way.                                     *)
Loses == ~IdeLost /\ IdeLost' => intr_no = "ide" /\ intr_no' # "ide"

LEMMA WaitsAt == ReadWaits <=> At("test") \/ At("wait")
  BY DEF ReadWaits, Waiting, At

LEMMA WaitsAtPrimed == ReadWaits' <=> At("test")' \/ At("wait")'
  BY DEF ReadWaits, Waiting, At

LEMMA LosesNext ==
    ASSUME IInv, RInv, [Next]_vars
    PROVE  Loses
  <1>a. Iret => (ReadWaits' <=> ReadWaits)
    BY IretAt, WaitsAt, WaitsAtPrimed DEF MainPc
  <1>b. RaiseIntr => (ReadWaits' <=> ReadWaits)
    BY RaiseIntrAt, WaitsAt, WaitsAtPrimed DEF MainPc
  <1> USE DEF Loses, IdeLost, IdeUnderway
  <1>1. CASE User
    BY <1>1 DEF User, Step, ReadWaits, Waiting, pic, sdlv, cpuv, kern, IInv, RInv, Stack, TypeOK, MainPc
  <1>2. CASE Sti
    BY <1>2 DEF Sti, Step, ReadWaits, Waiting, pic, sdlv, cpuv, kern
  <1>3. CASE EnterHlt
    BY <1>3 DEF EnterHlt, ReadWaits, Waiting, pic, sdlv, cpuv, kern
  <1>4. CASE Hlt
    BY <1>4 DEF Hlt, ReadWaits, Waiting, pic, sdlv, cpuv, kern, RInv, Stack
  <1>5. CASE ClearIdeIntr
    BY <1>5 DEF ClearIdeIntr, Step, ReadWaits, Waiting, pic, sdlv, cpuv, kern, IInv, RInv, Stack, TypeOK, MainPc
  <1>6. CASE IssueRead
    BY <1>6 DEF IssueRead, ReadWaits, Waiting, pic, sdlv, cpuv, kern, Stores, IInv, TypeOK
  <1>7. CASE OutStore
    BY <1>7 DEF OutStore, RaiseStore, ReadWaits, Waiting, pic, sdlv, cpuv, kern, Stores, IInv, TypeOK
  <1>8. CASE TestIdeIntr
    BY <1>8 DEF TestIdeIntr, Step, ReadWaits, Waiting, pic, sdlv, cpuv, kern
  <1>9. CASE Transfer
    BY <1>9 DEF Transfer, Step, ReadWaits, Waiting, pic, sdlv, cpuv, kern, IInv, RInv, Stack, TypeOK, MainPc
  <1>10. CASE TimerHandler
    BY <1>10 DEF TimerHandler, Step, ReadWaits, Waiting, pic, sdlv, cpuv, kern
  <1>11. CASE KeyboardHandler
    BY <1>11 DEF KeyboardHandler, Step, ReadWaits, Waiting, pic, sdlv, cpuv, kern
  <1>12. CASE IdeHandler
    BY <1>12 DEF IdeHandler, Step, ReadWaits, Waiting, pic, sdlv, cpuv, kern
  <1>13. CASE Iret
    <2>1. ReadWaits' <=> ReadWaits
      BY ONLY <1>a, <1>13
    <2>2. IdeUnderway => IdeUnderway'
      BY <1>13 DEF Iret, Step, pic, kern
    <2> QED
      BY ONLY <2>1, <2>2 DEF Loses, IdeLost
  <1>14. CASE PanicLog
    BY <1>14 DEF PanicLog, Step, ReadWaits, Waiting, pic, sdlv, cpuv, kern
  <1>15. CASE Panic
    BY <1>15 DEF Panic, Step, ReadWaits, Waiting, pic, sdlv, cpuv, kern
  <1>16. CASE LeaveExec
    BY <1>16 DEF LeaveExec, ReadWaits, Waiting, pic, sdlv, cpuv, kern
  <1>17. CASE CheckIntr
    BY <1>17 DEF CheckIntr, ReadWaits, Waiting, pic, sdlv, cpuv, kern
  <1>18. CASE QueryIntrNo
    BY <1>18 DEF QueryIntrNo, ReadWaits, Waiting, pic, sdlv, cpuv, kern
  <1>19. CASE AckIntr
    BY <1>19 DEF AckIntr, AckStore, ReadWaits, Waiting, pic, sdlv, cpuv, kern, Stores, IInv, TypeOK
  <1>20. CASE RaiseIntr
    <2>1. ReadWaits' <=> ReadWaits
      BY ONLY <1>b, <1>20
    <2>2. pc # "ide"
      BY <1>20 DEF RaiseIntr, IInv, Masked, HandlerPc, Irq
    <2>3. IdeUnderway => IdeUnderway'
      BY <1>20, <2>2 DEF RaiseIntr, pic, kern, Irq
    <2> QED
      BY ONLY <2>1, <2>3 DEF Loses, IdeLost
  <1>21. CASE TimerTick
    BY <1>21 DEF TimerTick, ReadWaits, Waiting, pic, sdlv, cpuv, kern
  <1>22. CASE SdlStore
    BY <1>22 DEF SdlStore, RaiseStore, ReadWaits, Waiting, pic, sdlv, cpuv, kern
  <1>23. CASE KeyEvent
    BY <1>23 DEF KeyEvent, ReadWaits, Waiting, pic, sdlv, cpuv, kern
  <1>24. CASE QuitEvent
    BY <1>24 DEF QuitEvent, ReadWaits, Waiting, pic, sdlv, cpuv, kern
  <1>25. CASE Delay
    BY <1>25 DEF Delay, ReadWaits, Waiting, pic, sdlv, cpuv, kern
  <1>26. CASE UNCHANGED vars
    BY <1>26 DEF ReadWaits, Waiting, vars, pic, sdlv, cpuv, kern
  <1> QED
    BY <1>1, <1>2, <1>3, <1>4, <1>5, <1>6, <1>7, <1>8, <1>9, <1>10,
       <1>11, <1>12, <1>13, <1>14, <1>15, <1>16, <1>17, <1>18, <1>19,
       <1>20, <1>21, <1>22, <1>23, <1>24, <1>25, <1>26 DEF Next, CpuNext

(* The disk's interrupt is lost only in the one-slot controller, before    *)
(* do_intr has its number, whatever the number of reads, keys and ticks.   *)
THEOREM LostOnlyInSlotAlways == Spec => LostOnlyInSlot
  <1>1. IInv /\ RInv /\ [Next]_vars =>
          [~IdeLost /\ IdeLost' => intr_no = "ide" /\ intr_no' # "ide"]_vars
    BY LosesNext DEF Loses
  <1> QED
    BY <1>1, Invariance, ReadInvariance, PTL DEF Spec, LostOnlyInSlot
============================================================================
