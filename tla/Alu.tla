-------------------------------- MODULE Alu --------------------------------
(***************************************************************************)
(* Integer arithmetic of NEMU, nemu/src/cpu/alu.c, with the instructions   *)
(* that use it (nemu/src/cpu/instr) and the conditions of jcc and setcc    *)
(* (nemu/include/cpu/instr_helper.h), on words of W bits for its 32.       *)
(*                                                                         *)
(* What a compiler makes of integers longer than a word ties the flags of  *)
(* one instruction to the next: add and adc, sub and sbb, neg and adc and  *)
(* neg, and a jump after the last of them.  PF, which looks at eight bits  *)
(* whatever W, is left out.                                                *)
(***************************************************************************)
EXTENDS Integers, Sequences

CONSTANTS W,      \* bits of a word
          Words,  \* lengths of the numbers, in words
          Sizes   \* operand sizes of shifts, in bits
ASSUME WidthAssumption ==
    W \in Nat \ {0, 1} /\ Words \subseteq Nat \ {0} /\ Sizes \subseteq 2 .. W

VARIABLES job,    \* the computation: [op, x, y, size], words low first
          res,    \* result words so far
          eflags  \* [CF, ZF, SF, OF]

vars == <<job, res, eflags>>

(* b to the power n, as a recursive function that a proof can unfold.      *)
Pow(b, n) == LET p[i \in 0 .. n] == IF i = 0 THEN 1 ELSE b * p[i - 1]
             IN  p[n]

M     == Pow(2, W)
Word  == 0 .. M - 1
Bit   == 0 .. 1
Flags == [CF : Bit, ZF : Bit, SF : Bit, OF : Bit]
Idle  == [op |-> "idle", x |-> <<>>, y |-> <<>>, size |-> W]

Flag(b) == IF b THEN 1 ELSE 0
sign(v) == v \div Pow(2, W - 1)

----------------------------------------------------------------------------
(* alu.c; each operator returns the result and the flags it leaves.        *)
set_OF_add(r, src, dest) == Flag(sign(src) = sign(dest) /\ sign(src) # sign(r))

(* Bug: the sign of the result is compared with that of dest only.         *)
set_OF_sub_Dest(r, src, dest) == Flag(sign(dest) # sign(r))
set_OF_sub(r, src, dest) == Flag(sign(src) # sign(dest) /\ sign(src) = sign(r))

alu_add(src, dest) ==
    LET r == (dest + src) % M
    IN  [res |-> r,
         flags |-> [CF |-> Flag(r < src), ZF |-> Flag(r = 0), SF |-> sign(r),
                    OF |-> set_OF_add(r, src, dest)]]

(* Bug: the carry out is that of the second addition only.                 *)
alu_adc_LastCarry(cf, src, dest) ==
    LET first  == alu_add(src, dest)
        second == alu_add(cf, first.res)
    IN  [second EXCEPT !.flags.OF = first.flags.OF]

(* OF is that of the first of the two additions.                           *)
alu_adc(cf, src, dest) ==
    LET first  == alu_add(src, dest)
        second == alu_add(cf, first.res)
    IN  [second EXCEPT !.flags.CF = Flag(first.flags.CF = 1 \/ second.flags.CF = 1),
                       !.flags.OF = first.flags.OF]

alu_sub(src, dest) ==
    LET r == alu_add((M - src) % M, dest)
    IN  [r EXCEPT !.flags.CF = Flag(dest < src),
                  !.flags.OF = set_OF_sub(r.res, src, dest)]

alu_sbb(cf, src, dest) ==
    LET s == alu_add(cf, src)
        r == alu_sub(s.res, dest)
    IN  [r EXCEPT !.flags.CF = Flag(s.flags.CF = 1 \/ r.flags.CF = 1),
                  !.flags.OF = set_OF_sub(r.res, src, dest)]

(* neg_v sets CF and no other flag.                                        *)
neg(v, f) == [res |-> (M - v) % M, flags |-> [f EXCEPT !.CF = Flag(v # 0)]]

(* The loops of the shifts, one turn per position.                         *)
LoopLeft(v, cf, n, size) ==
    LET l[i \in 0 .. n] ==
            IF i = 0 THEN <<v, cf>>
            ELSE LET u == l[i - 1][1]
                 IN  <<(u * 2) % M, (u \div Pow(2, size - 1)) % 2>>
    IN  l[n]
LoopRight(v, cf, n) ==
    LET l[i \in 0 .. n] ==
            IF i = 0 THEN <<v, cf>>
            ELSE LET u == l[i - 1][1] IN <<u \div 2, u % 2>>
    IN  l[n]

(* The low size bits are the result; the bits above them are dest's.       *)
ShiftResult(low, cf, dest, size, f) ==
    [res |-> low + (dest - (dest % Pow(2, size))),
     flags |-> [f EXCEPT !.CF = cf, !.ZF = Flag(low = 0),
                         !.SF = (low \div Pow(2, size - 1)) % 2]]

alu_shl(n, dest, size, f) ==
    LET l == LoopLeft(dest, f.CF, n, size)
    IN  ShiftResult(l[1] % Pow(2, size), l[2], dest, size, f)

alu_shr(n, dest, size, f) ==
    LET l == LoopRight(dest % Pow(2, size), f.CF, n)
    IN  ShiftResult(l[1], l[2], dest, size, f)

(* Bug: the sign is taken from bit 31, whatever the operand size.          *)
alu_sar_Sign32(n, dest, size, f) ==
    LET l == LoopRight(dest % Pow(2, size), f.CF, n)
        fill == IF sign(dest) = 1 THEN Pow(2, size) - Pow(2, size - n) ELSE 0
    IN  ShiftResult(l[1] + fill, l[2], dest, size, f)

alu_sar(n, dest, size, f) ==
    LET l == LoopRight(dest % Pow(2, size), f.CF, n)
        fill == IF (dest \div Pow(2, size - 1)) % 2 = 1
                THEN Pow(2, size) - Pow(2, size - n) ELSE 0
    IN  ShiftResult(l[1] + fill, l[2], dest, size, f)

----------------------------------------------------------------------------
(* Conditions of jcc and setcc.                                            *)
condition_e(f)  == f.ZF = 1
condition_b(f)  == f.CF = 1
condition_ae(f) == f.CF = 0
condition_a(f)  == f.CF = 0 /\ f.ZF = 0
condition_be(f) == f.CF = 1 \/ f.ZF = 1
condition_l(f)  == f.SF # f.OF
condition_ge(f) == f.SF = f.OF
condition_g(f)  == f.ZF = 0 /\ f.SF = f.OF
condition_le(f) == f.ZF = 1 \/ f.SF # f.OF

----------------------------------------------------------------------------
Init == job = Idle /\ res = <<>> /\ eflags = [CF |-> 0, ZF |-> 0, SF |-> 0, OF |-> 0]

(* The program takes up the next computation; loads do not touch flags.    *)
begin ==
    /\ job = Idle
    /\ \/ \E op \in {"sum", "diff"}, n \in Words : \E x, y \in [1 .. n -> Word] :
             job' = [op |-> op, x |-> x, y |-> y, size |-> W]
       \/ \E x \in [1 .. 2 -> Word] :
             job' = [op |-> "neg", x |-> x, y |-> <<>>, size |-> W]
       \/ \E op \in {"shl", "shr", "sar"}, s \in Sizes, v \in Word :
             \E n \in 1 .. s - 1 :
                job' = [op |-> op, x |-> <<v>>, y |-> <<n>>, size |-> s]
    /\ UNCHANGED <<res, eflags>>

Writes(r) == res' = Append(res, r.res) /\ eflags' = r.flags /\ UNCHANGED job

(* The word an instruction works on.                                       *)
k == Len(res) + 1

add == job.op = "sum" /\ k = 1 /\ Writes(alu_add(job.y[k], job.x[k]))
adc == /\ job.op = "sum" /\ k \in 2 .. Len(job.x)
       /\ Writes(alu_adc(eflags.CF, job.y[k], job.x[k]))
sub == job.op = "diff" /\ k = 1 /\ Writes(alu_sub(job.y[k], job.x[k]))
sbb == /\ job.op = "diff" /\ k \in 2 .. Len(job.x)
       /\ Writes(alu_sbb(eflags.CF, job.y[k], job.x[k]))

(* neg low; adc $0, high; neg high.                                        *)
neg_low  == job.op = "neg" /\ k = 1 /\ Writes(neg(job.x[1], eflags))
adc_high == job.op = "neg" /\ k = 2 /\ Writes(alu_adc(eflags.CF, 0, job.x[2]))
neg_high == job.op = "neg" /\ k = 3 /\ Writes(neg(res[2], eflags))

shift ==
    /\ k = 1
    /\ \/ job.op = "shl" /\ Writes(alu_shl(job.y[1], job.x[1], job.size, eflags))
       \/ job.op = "shr" /\ Writes(alu_shr(job.y[1], job.x[1], job.size, eflags))
       \/ job.op = "sar" /\ Writes(alu_sar(job.y[1], job.x[1], job.size, eflags))

Complete == \/ job.op \in {"sum", "diff", "shl", "shr", "sar"} /\ k > Len(job.x)
            \/ job.op = "neg" /\ k = 4

(* The result is used and the flags are left.                              *)
end == Complete /\ job' = Idle /\ res' = <<>> /\ UNCHANGED eflags

Next == begin \/ add \/ adc \/ sub \/ sbb \/ neg_low \/ adc_high \/ neg_high
        \/ shift \/ end

Spec == Init /\ [][Next]_vars

----------------------------------------------------------------------------
(* The numbers the words stand for, unsigned and in two's complement.      *)
Val(s) == LET v[i \in 0 .. Len(s)] ==
                  IF i = 0 THEN 0 ELSE v[i - 1] + s[i] * Pow(M, i - 1)
          IN  v[Len(s)]
Signed(s) == Val(s) - (IF sign(s[Len(s)]) = 1 THEN Pow(M, Len(s)) ELSE 0)

(* Sums, differences and negations of numbers of several words are right,  *)
(* and the carry out of the last word is theirs: adc and sbb hand on the   *)
(* carry of both of their additions.                                       *)
LongSum ==
    LET all == Pow(M, Len(job.x))
    IN  Complete =>
          /\ job.op = "sum"  => Val(res) + all * eflags.CF = Val(job.x) + Val(job.y)
          /\ job.op = "diff" => Val(res) - all * eflags.CF = Val(job.x) - Val(job.y)
          /\ job.op = "neg"  => (Val(<<res[1], res[3]>>) + Val(job.x)) % all = 0

(* A jump after a comparison is taken exactly when the numbers compare     *)
(* that way, signed and unsigned, of one word and of several.              *)
LongCompare ==
    LET f == eflags
        one == Len(job.x) = 1
        x == Val(job.x)
        y == Val(job.y)
        i == Signed(job.x)
        j == Signed(job.y)
    IN  Complete /\ job.op = "diff" =>
          /\ condition_b(f) <=> x < y
          /\ condition_ae(f) <=> x >= y
          /\ condition_l(f) <=> i < j
          /\ condition_ge(f) <=> i >= j
          /\ one => /\ condition_e(f) <=> x = y
                    /\ condition_a(f) <=> x > y
                    /\ condition_be(f) <=> x =< y
                    /\ condition_g(f) <=> i > j
                    /\ condition_le(f) <=> i =< j

(* A shift multiplies or divides the low size bits by a power of two,      *)
(* rounding down, keeps the bits above, and CF is the last bit shifted out.*)
ShiftScales ==
    LET s == Pow(2, job.size)
        v == job.x[1] % s
        n == Pow(2, job.y[1])
        neg1 == v >= s \div 2
        low == res[1] % s
    IN  Complete /\ job.op \in {"shl", "shr", "sar"} =>
          /\ res[1] \div s = job.x[1] \div s
          /\ job.op = "shl" => low = (v * n) % s /\ eflags.CF = ((v * n) \div s) % 2
          /\ job.op = "shr" => low = v \div n
          /\ job.op = "sar" => low = ((IF neg1 THEN v - s ELSE v) \div n) % s
          /\ job.op # "shl" => eflags.CF = (v \div (n \div 2)) % 2
=============================================================================
