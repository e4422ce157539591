----------------------------- MODULE AluProofs -----------------------------
(***************************************************************************)
(* Proofs about Alu for every word width, every length of the numbers and  *)
(* every operand size.                                                     *)
(***************************************************************************)
EXTENDS Alu, WellFoundedInduction, TLAPS

----------------------------------------------------------------------------
(* Induction and recursion over the natural numbers.                       *)

(* A set of numbers that is not empty has a least element.                 *)
LEMMA LeastElement ==
    ASSUME NEW S \in SUBSET Nat, S # {}
    PROVE  \E m \in S : \A i \in S : m =< i
  <1> DEFINE R == {ss \in Nat \X Nat : ss[1] < ss[2]}
  <1>1. IsWellFoundedOn(R, Nat)
    BY NatLessThanWellFounded, Zenon DEF OpToRel
  <1> HIDE DEF R
  <1>2. PICK m \in S : \A i \in S : <<i, m>> \notin R
    BY <1>1, WFMin
  <1>3. \A i \in S : ~(i < m)
    BY <1>2 DEF R
  <1> QED
    BY <1>3

(* A set that holds 0, and the successor of each number it holds.          *)
LEMMA NatSet ==
    ASSUME NEW S, 0 \in S, \A i \in Nat : i \in S => i + 1 \in S
    PROVE  \A i \in Nat : i \in S
  <1> SUFFICES ASSUME Nat \ S # {} PROVE FALSE
    OBVIOUS
  <1>1. PICK m \in Nat \ S : \A i \in Nat \ S : m =< i
    BY LeastElement
  <1>2. m - 1 \in Nat /\ m - 1 \in S
    BY <1>1
  <1> QED
    BY <1>1, <1>2

(* A function of 0 .. m with a given first value and a given step exists.  *)
Steps(S, m, step) == step \in [1 .. m -> [S -> S]]
Run(S, m, a, step, f) ==
    /\ f \in [0 .. m -> S]
    /\ f[0] = a /\ \A i \in 1 .. m : f[i] = step[i][f[i - 1]]

LEMMA Recursion ==
    ASSUME NEW S, NEW a \in S, NEW m \in Nat, NEW step, Steps(S, m, step)
    PROVE  \E f : Run(S, m, a, step, f)
  <1> USE DEF Steps, Run
  <1> DEFINE Runs(f, n) == f[0] = a /\ \A i \in 1 .. n : f[i] = step[i][f[i - 1]]
             T == {n \in Nat : n =< m => \E f \in [0 .. n -> S] : Runs(f, n)}
  <1>1. 0 \in T
    <2> DEFINE e == [i \in 0 .. 0 |-> a]
    <2>1. e \in [0 .. 0 -> S] /\ Runs(e, 0)
      OBVIOUS
    <2> QED
      BY <2>1
  <1>2. ASSUME NEW n \in Nat, n \in T PROVE n + 1 \in T
    <2> SUFFICES ASSUME n + 1 =< m PROVE \E f \in [0 .. n + 1 -> S] : Runs(f, n + 1)
      OBVIOUS
    <2>1. PICK f \in [0 .. n -> S] : Runs(f, n)
      BY <1>2
    <2> DEFINE g == [i \in 0 .. n + 1 |-> IF i =< n THEN f[i] ELSE step[n + 1][f[n]]]
    <2>2. step[n + 1] \in [S -> S] /\ f[n] \in S
      BY <2>1
    <2>3. g \in [0 .. n + 1 -> S]
      BY <2>2
    <2>4. Runs(g, n + 1)
      BY <2>1
    <2> HIDE DEF g, Runs
    <2> QED
      BY <2>3, <2>4
  <1>3. m \in T
    <2> HIDE DEF T
    <2> QED
      BY <1>1, <1>2, NatSet
  <1> QED
    BY <1>3

(* Functions that begin and go on in the same way are equal.               *)
InStep(f, g, m) ==
    f[0] = g[0] /\ \A i \in 1 .. m : f[i - 1] = g[i - 1] => f[i] = g[i]

LEMMA Agree ==
    ASSUME NEW m \in Nat, NEW f, NEW g, InStep(f, g, m)
    PROVE  \A i \in 0 .. m : f[i] = g[i]
  <1> DEFINE T == {n \in Nat : n =< m => f[n] = g[n]}
  <1>1. 0 \in T
    BY DEF InStep
  <1>2. ASSUME NEW n \in Nat, n \in T PROVE n + 1 \in T
    <2> SUFFICES ASSUME n + 1 =< m PROVE f[n + 1] = g[n + 1]
      OBVIOUS
    <2>1. n + 1 \in 1 .. m /\ (n + 1) - 1 = n /\ f[n] = g[n]
      BY <1>2
    <2> QED
      BY <2>1 DEF InStep
  <1>3. \A n \in Nat : n \in T
    <2> HIDE DEF T
    <2> QED
      BY <1>1, <1>2, NatSet
  <1> QED
    BY <1>3

----------------------------------------------------------------------------
(* Powers.                                                                 *)
Pos == Nat \ {0}

LEMMA PowFcn ==
    ASSUME NEW b \in Pos, NEW n \in Nat
    PROVE  \E p \in [0 .. n -> Pos] :
               /\ Pow(b, n) = p[n]
               /\ p[0] = 1 /\ \A i \in 1 .. n : p[i] = b * p[i - 1]
  <1> DEFINE step == [i \in 1 .. n |-> [x \in Pos |-> b * x]]
             p == CHOOSE p : p = [i \in 0 .. n |-> IF i = 0 THEN 1 ELSE b * p[i - 1]]
  <1>0. \A x \in Pos : b * x \in Pos
    BY DEF Pos
  <1>1. Steps(Pos, n, step) /\ 1 \in Pos
    BY <1>0 DEF Pos, Steps
  <1>2. PICK f : Run(Pos, n, 1, step, f)
    <2> HIDE DEF step
    <2> QED
      BY <1>1, Recursion
  <1>3. \A i \in 1 .. n : f[i] = b * f[i - 1]
    <2> TAKE i \in 1 .. n
    <2>1. i - 1 \in 0 .. n
      OBVIOUS
    <2>2. f[i - 1] \in Pos /\ f[i] = step[i][f[i - 1]]
      BY <1>2, <2>1 DEF Run
    <2> QED
      BY <2>2
  <1>4. f = [i \in 0 .. n |-> IF i = 0 THEN 1 ELSE b * f[i - 1]]
    BY <1>2, <1>3 DEF Run
  <1>5. p = [i \in 0 .. n |-> IF i = 0 THEN 1 ELSE b * p[i - 1]]
    BY <1>4
  <1>6. Pow(b, n) = p[n]
    BY DEF Pow
  <1> HIDE DEF p
  <1>7. p[0] = 1 /\ \A i \in 1 .. n : p[i] = b * p[i - 1]
    BY <1>5
  <1>8. \A i \in 0 .. n : p[i] = f[i]
    <2>1. InStep(p, f, n)
      BY <1>2, <1>3, <1>7 DEF InStep, Run
    <2> QED
      BY <2>1, Agree
  <1>9. p = f
    BY <1>2, <1>5, <1>8 DEF Run
  <1> QED
    BY <1>2, <1>3, <1>6, <1>9 DEF Run

LEMMA PowZero == ASSUME NEW b \in Pos PROVE Pow(b, 0) = 1
  <1>1. PICK p \in [0 .. 0 -> Pos] :
            Pow(b, 0) = p[0] /\ p[0] = 1 /\ \A i \in 1 .. 0 : p[i] = b * p[i - 1]
    BY PowFcn, Zenon
  <1> QED
    BY <1>1

LEMMA PowType == ASSUME NEW b \in Pos, NEW n \in Nat PROVE Pow(b, n) \in Pos
  <1>1. PICK p \in [0 .. n -> Pos] :
            Pow(b, n) = p[n] /\ p[0] = 1 /\ \A i \in 1 .. n : p[i] = b * p[i - 1]
    BY PowFcn, Zenon
  <1> QED
    BY <1>1

LEMMA PowStep == ASSUME NEW b \in Pos, NEW n \in Nat PROVE Pow(b, n + 1) = b * Pow(b, n)
  <1>0. n + 1 \in Nat
    OBVIOUS
  <1>1. PICK p \in [0 .. n -> Pos] :
            Pow(b, n) = p[n] /\ p[0] = 1 /\ \A i \in 1 .. n : p[i] = b * p[i - 1]
    BY PowFcn, Zenon
  <1>2. PICK q \in [0 .. n + 1 -> Pos] :
            /\ Pow(b, n + 1) = q[n + 1]
            /\ q[0] = 1 /\ \A i \in 1 .. n + 1 : q[i] = b * q[i - 1]
    BY <1>0, PowFcn, Zenon
  <1>3. \A i \in 0 .. n : p[i] = q[i]
    <2>1. InStep(p, q, n)
      BY <1>1, <1>2 DEF InStep
    <2> QED
      BY <2>1, Agree
  <1>4. q[n + 1] = b * q[n]
    BY <1>2
  <1> QED
    BY <1>1, <1>2, <1>3, <1>4

LEMMA PowAdd ==
    ASSUME NEW b \in Pos, NEW m \in Nat, NEW n \in Nat
    PROVE  Pow(b, m + n) = Pow(b, m) * Pow(b, n)
  <1> DEFINE T == {i \in Nat : Pow(b, m + i) = Pow(b, m) * Pow(b, i)}
  <1>1. 0 \in T
    <2>1. Pow(b, m) \in Pos /\ Pow(b, 0) = 1 /\ m + 0 = m
      BY PowZero, PowType
    <2> QED
      BY <2>1 DEF Pos
  <1>2. ASSUME NEW i \in Nat, i \in T PROVE i + 1 \in T
    <2>1. m + i \in Nat /\ m + (i + 1) = (m + i) + 1
      OBVIOUS
    <2>2. Pow(b, (m + i) + 1) = b * Pow(b, m + i) /\ Pow(b, i + 1) = b * Pow(b, i)
      BY <2>1, PowStep
    <2>3. Pow(b, m) \in Pos /\ Pow(b, i) \in Pos
      BY PowType
    <2>4. \A x, y \in Pos : b * (x * y) = x * (b * y)
      BY DEF Pos
    <2> QED
      BY <1>2, <2>1, <2>2, <2>3, <2>4
  <1> HIDE DEF T
  <1>3. n \in T
    BY <1>1, <1>2, NatSet
  <1> QED
    BY <1>3 DEF T

----------------------------------------------------------------------------
(* Division.                                                               *)

(* Quotient and remainder are the only ones.                               *)
LEMMA DivUnique ==
    ASSUME NEW b \in Pos, NEW q \in Int, NEW r \in 0 .. b - 1
    PROVE  (b * q + r) \div b = q /\ (b * q + r) % b = r
  BY DEF Pos

LEMMA DivType ==
    ASSUME NEW a \in Int, NEW b \in Pos
    PROVE  a \div b \in Int /\ a % b \in 0 .. b - 1
  <1>0. b \in Int /\ b > 0
    BY DEF Pos
  <1>1. a \div b \in Int
    BY <1>0
  <1>2. a % b \in 0 .. b - 1
    BY <1>0
  <1> QED
    BY <1>1, <1>2

LEMMA DivDef ==
    ASSUME NEW a \in Int, NEW b \in Pos
    PROVE  \E q \in Int : \E r \in 0 .. b - 1 : a \div b = q /\ a % b = r /\ a = b * q + r
  <1>1. b \in Int /\ b > 0
    BY DEF Pos
  <1>2. a = b * (a \div b) + (a % b)
    BY <1>1
  <1> QED
    BY <1>2, DivType

(* A multiple of the divisor added changes the quotient alone.             *)
LEMMA DivShift ==
    ASSUME NEW a \in Int, NEW b \in Pos, NEW t \in Int
    PROVE  (a + b * t) \div b = a \div b + t /\ (a + b * t) % b = a % b
  <1>1. PICK q \in Int : \E r \in 0 .. b - 1 : a \div b = q /\ a % b = r /\ a = b * q + r
    BY DivDef
  <1>2. PICK r \in 0 .. b - 1 : a \div b = q /\ a % b = r /\ a = b * q + r
    BY <1>1
  <1>3. a + b * t = b * (q + t) + r
    BY <1>2 DEF Pos
  <1>4. q + t \in Int
    OBVIOUS
  <1> QED
    BY <1>2, <1>3, <1>4, DivUnique

(* A factor common to both sides changes the remainder alone.              *)
LEMMA DivScale ==
    ASSUME NEW a \in Int, NEW b \in Pos, NEW c \in Pos
    PROVE  (c * a) \div (c * b) = a \div b
  <1>0. PICK q \in Int : \E r \in 0 .. b - 1 : a \div b = q /\ a % b = r /\ a = b * q + r
    BY DivDef
  <1>1. PICK r \in 0 .. b - 1 : a \div b = q /\ a % b = r /\ a = b * q + r
    BY <1>0
  <1>2. c * b \in Pos
    BY DEF Pos
  <1>3. c * r \in 0 .. c * b - 1
    <2>1. r \in Nat /\ r =< b - 1 /\ c \in Nat /\ b \in Nat /\ c > 0
      BY <1>1 DEF Pos
    <2>2. c * r >= 0 /\ c * (b - 1 - r) >= 0
      BY <2>1
    <2>3. c * (b - 1 - r) = c * b - c - c * r
      BY <2>1
    <2> QED
      BY <2>1, <2>2, <2>3
  <1>4. c * a = (c * b) * q + c * r
    BY <1>1 DEF Pos
  <1> QED
    BY <1>1, <1>2, <1>3, <1>4, DivUnique

(* Dividing twice is dividing by the product.                              *)
LEMMA DivTwice ==
    ASSUME NEW a \in Int, NEW b \in Pos, NEW c \in Pos
    PROVE  (a \div b) \div c = a \div (b * c)
  <1>0. PICK q \in Int : \E r \in 0 .. b - 1 : a \div b = q /\ a % b = r /\ a = b * q + r
    BY DivDef
  <1>1. PICK r \in 0 .. b - 1 : a \div b = q /\ a % b = r /\ a = b * q + r
    BY <1>0
  <1>2. PICK p \in Int : \E s \in 0 .. c - 1 : q \div c = p /\ q % c = s /\ q = c * p + s
    BY DivDef
  <1>3. PICK s \in 0 .. c - 1 : q \div c = p /\ q % c = s /\ q = c * p + s
    BY <1>2
  <1>4. b * c \in Pos
    BY DEF Pos
  <1>5. b * s + r \in 0 .. b * c - 1
    <2>1. s \in Nat /\ s =< c - 1 /\ c \in Nat /\ b \in Nat /\ b > 0
      BY DEF Pos
    <2>2. b * s >= 0 /\ b * (c - 1 - s) >= 0
      BY <2>1
    <2>3. b * (c - 1 - s) = b * c - b - b * s
      BY <2>1
    <2> QED
      BY <2>1, <2>2, <2>3
  <1>6. a = (b * c) * p + (b * s + r)
    BY <1>1, <1>3 DEF Pos
  <1>7. a \div (b * c) = p
    BY <1>3, <1>4, <1>5, <1>6, DivUnique
  <1> QED
    BY <1>1, <1>3, <1>7

----------------------------------------------------------------------------
(* Words and the additions and subtractions of one word.                   *)
Half == Pow(2, W - 1)

LEMMA Width == W \in Nat /\ W >= 2 /\ Half \in Pos /\ Half >= 2 /\ M = 2 * Half /\ M \in Pos
  <1>1. W \in Nat /\ W >= 2 /\ 2 \in Pos
    BY WidthAssumption DEF Pos
  <1>2. W - 1 \in Nat /\ W - 2 \in Nat /\ (W - 1) + 1 = W /\ (W - 2) + 1 = W - 1
    BY <1>1
  <1>3. M = 2 * Half
    BY <1>1, <1>2, PowStep DEF M, Half
  <1>4. Half \in Pos
    BY <1>1, <1>2, PowType DEF Half
  <1>5. Pow(2, W - 1) = 2 * Pow(2, W - 2) /\ Pow(2, W - 2) \in Pos
    BY <1>1, <1>2, PowStep, PowType
  <1> QED
    BY <1>1, <1>3, <1>4, <1>5 DEF Pos, Half

LEMMA SignIs == ASSUME NEW v \in Word PROVE sign(v) = IF v >= Half THEN 1 ELSE 0
  <1>1. Half \in Pos /\ M = 2 * Half /\ v \in Nat /\ v < M
    BY Width DEF Word
  <1>2. CASE v < Half
    <2>1. 0 \in Int /\ v \in 0 .. Half - 1 /\ v = Half * 0 + v
      BY <1>1, <1>2 DEF Pos
    <2>2. v \div Half = 0
      BY <1>1, <2>1, DivUnique
    <2> QED
      BY <1>1, <1>2, <2>2 DEF sign, Half, Pos
  <1>3. CASE v >= Half
    <2>1. 1 \in Int /\ v - Half \in 0 .. Half - 1 /\ v = Half * 1 + (v - Half)
      BY <1>1, <1>3 DEF Pos
    <2>2. v \div Half = 1
      BY <1>1, <2>1, DivUnique
    <2> QED
      BY <1>1, <1>3, <2>2 DEF sign, Half, Pos
  <1> QED
    BY <1>1, <1>2, <1>3 DEF Pos

(* The remainder of a sum that overflows at most once, and of a negation.  *)
LEMMA Wrap ==
    ASSUME NEW v \in 0 .. M + M - 1
    PROVE  v % M = IF v < M THEN v ELSE v - M
  <1>1. M \in Pos /\ M \in Nat
    BY Width DEF Pos
  <1>2. CASE v < M
    <2>1. 0 \in Int /\ v \in 0 .. M - 1 /\ v = M * 0 + v
      BY <1>1, <1>2
    <2> QED
      BY <1>1, <1>2, <2>1, DivUnique
  <1>3. CASE v >= M
    <2>1. 1 \in Int /\ v - M \in 0 .. M - 1 /\ v = M * 1 + (v - M)
      BY <1>1, <1>3
    <2>2. v % M = v - M
      BY <1>1, <2>1, DivUnique
    <2> QED
      BY <1>1, <1>3, <2>2
  <1> QED
    BY <1>1, <1>2, <1>3

(* r is what an instruction leaves: a word, and flags of which ZF and SF   *)
(* tell of it.                                                             *)
Left(r) ==
    /\ r \in [res : Word, flags : Flags]
    /\ r.flags.ZF = Flag(r.res = 0) /\ r.flags.SF = sign(r.res)

(* add: the result and the carry out make the sum.                         *)
LEMMA AddIs ==
    ASSUME NEW src \in Word, NEW dest \in Word
    PROVE  /\ Left(alu_add(src, dest))
           /\ alu_add(src, dest).res + M * alu_add(src, dest).flags.CF = src + dest
  <1> DEFINE r == (dest + src) % M
  <1>1. M \in Nat /\ M >= 4 /\ src \in Nat /\ dest \in Nat /\ src < M /\ dest < M
    BY Width DEF Word, Pos
  <1>2. dest + src \in 0 .. M + M - 1
    BY <1>1
  <1>3. r = IF dest + src < M THEN dest + src ELSE dest + src - M
    BY <1>1, <1>2, Wrap
  <1> HIDE DEF r
  <1>4. r \in Word /\ r + M * Flag(r < src) = src + dest
    BY <1>1, <1>3 DEF Word, Flag
  <1>5. sign(r) \in Bit
    BY <1>4, SignIs DEF Bit
  <1>6. /\ alu_add(src, dest).res = r
        /\ alu_add(src, dest).flags = [CF |-> Flag(r < src), ZF |-> Flag(r = 0), SF |-> sign(r),
                                       OF |-> set_OF_add(r, src, dest)]
        /\ alu_add(src, dest) = [res   |-> alu_add(src, dest).res,
                                 flags |-> alu_add(src, dest).flags]
    BY DEF alu_add, r
  <1> QED
    BY <1>4, <1>5, <1>6 DEF Left, Flags, Bit, Flag, set_OF_add

(* adc: the carry of either of its two additions is the carry out.         *)
LEMMA AdcIs ==
    ASSUME NEW cf \in Bit, NEW src \in Word, NEW dest \in Word
    PROVE  /\ Left(alu_adc(cf, src, dest))
           /\ alu_adc(cf, src, dest).res + M * alu_adc(cf, src, dest).flags.CF = src + dest + cf
  <1> DEFINE a == alu_add(src, dest)
             b == alu_add(cf, a.res)
             c == Flag(a.flags.CF = 1 \/ b.flags.CF = 1)
  <1>1. M \in Nat /\ M >= 4 /\ cf \in Word
    BY Width DEF Word, Bit, Pos
  <1>2. Left(a) /\ a.res + M * a.flags.CF = src + dest
    BY AddIs
  <1>3. a.res \in Word /\ a.flags.CF \in Bit /\ a.flags.OF \in Bit
    BY <1>2 DEF Left, Flags
  <1>4. Left(b) /\ b.res + M * b.flags.CF = cf + a.res
    BY <1>1, <1>3, AddIs
  <1> HIDE DEF a, b
  <1>5. b.res \in Word /\ b.flags \in Flags /\ b.flags.CF \in Bit
    BY <1>4 DEF Left, Flags
  <1>6. alu_adc(cf, src, dest) = [b EXCEPT !.flags.CF = c, !.flags.OF = a.flags.OF]
    BY DEF alu_adc, a, b
  <1>7. c \in Bit
    BY DEF Bit, Flag
  <1> DEFINE f == [[b.flags EXCEPT !.CF = c] EXCEPT !.OF = a.flags.OF]
  <1>8. alu_adc(cf, src, dest) = [res |-> b.res, flags |-> f]
    BY <1>4, <1>5, <1>6 DEF Left
  <1>9. f \in Flags /\ f.CF = c /\ f.ZF = b.flags.ZF /\ f.SF = b.flags.SF
    BY <1>3, <1>5, <1>7 DEF Flags
  <1>10. b.res + M * c = src + dest + cf
    <2>1. src < M /\ dest < M /\ src \in Nat /\ dest \in Nat /\ b.res \in Nat /\ a.res \in Nat
      BY <1>1, <1>3, <1>5 DEF Word
    <2>2. cf \in 0 .. 1 /\ a.flags.CF \in 0 .. 1 /\ b.flags.CF \in 0 .. 1
      BY <1>3, <1>5 DEF Bit
    <2> QED
      BY <1>1, <1>2, <1>4, <2>1, <2>2 DEF Flag
  <1> HIDE DEF f, c
  <1> QED
    BY <1>4, <1>5, <1>8, <1>9, <1>10 DEF Left

(* What neg_v leaves, and the flags it keeps.                              *)
LEMMA NegIs ==
    ASSUME NEW v \in Word
    PROVE  (M - v) % M = (IF v = 0 THEN 0 ELSE M - v) /\ (M - v) % M \in Word
  <1>1. M \in Nat /\ M >= 4 /\ v \in Nat /\ v < M
    BY Width DEF Word, Pos
  <1>2. M - v \in 0 .. M + M - 1
    BY <1>1
  <1>3. (M - v) % M = IF M - v < M THEN M - v ELSE (M - v) - M
    BY <1>2, Wrap
  <1> QED
    BY <1>1, <1>3 DEF Word

(* sub: the result and the borrow make the difference; OF is of its sign.  *)
LEMMA SubIs ==
    ASSUME NEW src \in Word, NEW dest \in Word
    PROVE  /\ Left(alu_sub(src, dest))
           /\ alu_sub(src, dest).res - M * alu_sub(src, dest).flags.CF = dest - src
           /\ alu_sub(src, dest).flags.OF = set_OF_sub(alu_sub(src, dest).res, src, dest)
  <1> DEFINE n == (M - src) % M
             a == alu_add(n, dest)
             c == Flag(dest < src)
             o == set_OF_sub(a.res, src, dest)
  <1>1. M \in Nat /\ M >= 4 /\ src \in Nat /\ dest \in Nat /\ src < M /\ dest < M
    BY Width DEF Word, Pos
  <1>2. n \in Word /\ n = IF src = 0 THEN 0 ELSE M - src
    BY NegIs
  <1>3. Left(a) /\ a.res + M * a.flags.CF = n + dest
    BY <1>2, AddIs
  <1>4. a.res \in Word /\ a.flags \in Flags /\ a.flags.CF \in Bit
    BY <1>3 DEF Left, Flags
  <1>5. alu_sub(src, dest) = [a EXCEPT !.flags.CF = c, !.flags.OF = o]
    BY DEF alu_sub
  <1>6. c \in Bit /\ o \in Bit
    BY DEF Bit, Flag, set_OF_sub
  <1> HIDE DEF n, a, o
  <1> DEFINE f == [[a.flags EXCEPT !.CF = c] EXCEPT !.OF = o]
  <1>7. alu_sub(src, dest) = [res |-> a.res, flags |-> f]
    BY <1>3, <1>4, <1>5 DEF Left
  <1>8. f \in Flags /\ f.CF = c /\ f.OF = o /\ f.ZF = a.flags.ZF /\ f.SF = a.flags.SF
    BY <1>4, <1>6 DEF Flags
  <1>9. a.res - M * c = dest - src
    <2>1. a.res \in Nat /\ a.res < M /\ a.flags.CF \in 0 .. 1
      BY <1>1, <1>4 DEF Word, Bit
    <2> QED
      BY <1>1, <1>2, <1>3, <2>1 DEF Flag
  <1> HIDE DEF f, c
  <1> QED
    BY <1>3, <1>4, <1>7, <1>8, <1>9 DEF Left, o

(* sbb: the borrow of either of its two steps is the borrow out.           *)
LEMMA SbbIs ==
    ASSUME NEW cf \in Bit, NEW src \in Word, NEW dest \in Word
    PROVE  /\ Left(alu_sbb(cf, src, dest))
           /\ alu_sbb(cf, src, dest).res - M * alu_sbb(cf, src, dest).flags.CF = dest - src - cf
           /\ alu_sbb(cf, src, dest).flags.OF = set_OF_sub(alu_sbb(cf, src, dest).res, src, dest)
  <1> DEFINE s == alu_add(cf, src)
             a == alu_sub(s.res, dest)
             c == Flag(s.flags.CF = 1 \/ a.flags.CF = 1)
             o == set_OF_sub(a.res, src, dest)
  <1>1. M \in Nat /\ M >= 4 /\ cf \in Word
    BY Width DEF Word, Bit, Pos
  <1>2. Left(s) /\ s.res + M * s.flags.CF = cf + src
    BY <1>1, AddIs
  <1>3. s.res \in Word /\ s.flags.CF \in Bit
    BY <1>2 DEF Left, Flags
  <1>4. Left(a) /\ a.res - M * a.flags.CF = dest - s.res
    BY <1>3, SubIs
  <1>5. a.res \in Word /\ a.flags \in Flags /\ a.flags.CF \in Bit
    BY <1>4 DEF Left, Flags
  <1>6. alu_sbb(cf, src, dest) = [a EXCEPT !.flags.CF = c, !.flags.OF = o]
    BY DEF alu_sbb
  <1>7. c \in Bit /\ o \in Bit
    BY DEF Bit, Flag, set_OF_sub
  <1> HIDE DEF s, a, o
  <1> DEFINE f == [[a.flags EXCEPT !.CF = c] EXCEPT !.OF = o]
  <1>8. alu_sbb(cf, src, dest) = [res |-> a.res, flags |-> f]
    BY <1>4, <1>5, <1>6 DEF Left
  <1>9. f \in Flags /\ f.CF = c /\ f.OF = o /\ f.ZF = a.flags.ZF /\ f.SF = a.flags.SF
    BY <1>5, <1>7 DEF Flags
  <1>10. a.res - M * c = dest - src - cf
    <2>1. src < M /\ dest < M /\ src \in Nat /\ dest \in Nat /\ a.res \in Nat /\ a.res < M
          /\ s.res \in Nat /\ s.res < M
      BY <1>1, <1>3, <1>5 DEF Word
    <2>2. cf \in 0 .. 1 /\ s.flags.CF \in 0 .. 1 /\ a.flags.CF \in 0 .. 1
      BY <1>3, <1>5 DEF Bit
    <2> QED
      BY <1>1, <1>2, <1>4, <2>1, <2>2 DEF Flag
  <1> HIDE DEF f, c
  <1> QED
    BY <1>4, <1>5, <1>8, <1>9, <1>10 DEF Left, o

----------------------------------------------------------------------------
(* The numbers that sequences of words stand for.                          *)
LEMMA ValFcn ==
    ASSUME NEW s \in Seq(Word)
    PROVE  \E v \in [0 .. Len(s) -> Int] :
               /\ Val(s) = v[Len(s)]
               /\ v[0] = 0
               /\ \A i \in 1 .. Len(s) : v[i] = v[i - 1] + s[i] * Pow(M, i - 1)
  <1> DEFINE n == Len(s)
             step == [i \in 1 .. n |-> [x \in Int |-> x + s[i] * Pow(M, i - 1)]]
             v == CHOOSE v : v = [i \in 0 .. n |-> IF i = 0 THEN 0
                                                   ELSE v[i - 1] + s[i] * Pow(M, i - 1)]
  <1>0. n \in Nat
    OBVIOUS
  <1>1. \A i \in 1 .. n : s[i] * Pow(M, i - 1) \in Int
    <2> TAKE i \in 1 .. n
    <2>1. M \in Pos /\ i - 1 \in Nat /\ s[i] \in Word
      BY Width
    <2>2. Pow(M, i - 1) \in Pos
      BY <2>1, PowType
    <2>3. s[i] \in Int /\ Pow(M, i - 1) \in Int
      BY <2>1, <2>2 DEF Word, Pos
    <2> QED
      BY <2>3
  <1> HIDE DEF n
  <1>2. Steps(Int, n, step) /\ 0 \in Int
    BY <1>1 DEF Steps
  <1>3. PICK f : Run(Int, n, 0, step, f)
    <2> HIDE DEF step
    <2> QED
      BY <1>0, <1>2, Recursion
  <1>4. \A i \in 1 .. n : f[i] = f[i - 1] + s[i] * Pow(M, i - 1)
    <2> TAKE i \in 1 .. n
    <2>1. i - 1 \in 0 .. n
      BY <1>0
    <2>2. f[i - 1] \in Int /\ f[i] = step[i][f[i - 1]]
      BY <1>3, <2>1 DEF Run
    <2> QED
      BY <2>2
  <1>5. f = [i \in 0 .. n |-> IF i = 0 THEN 0 ELSE f[i - 1] + s[i] * Pow(M, i - 1)]
    BY <1>0, <1>3, <1>4 DEF Run
  <1>6. v = [i \in 0 .. n |-> IF i = 0 THEN 0 ELSE v[i - 1] + s[i] * Pow(M, i - 1)]
    BY <1>5
  <1>7. Val(s) = v[n]
    BY DEF Val, n
  <1> HIDE DEF v
  <1>8. v[0] = 0 /\ \A i \in 1 .. n : v[i] = v[i - 1] + s[i] * Pow(M, i - 1)
    BY <1>0, <1>6
  <1>9. InStep(v, f, n)
    BY <1>3, <1>4, <1>8 DEF InStep, Run
  <1>10. \A i \in 0 .. n : v[i] = f[i]
    BY <1>0, <1>9, Agree
  <1>11. v = f
    BY <1>3, <1>6, <1>10 DEF Run
  <1> QED
    BY <1>3, <1>4, <1>7, <1>11 DEF n, Run

LEMMA ValEmpty == Val(<<>>) = 0
  <1>1. <<>> \in Seq(Word) /\ Len(<<>>) = 0
    OBVIOUS
  <1> DEFINE e == <<>>
  <1> HIDE DEF e
  <1>2. e \in Seq(Word) /\ Len(e) = 0
    BY <1>1 DEF e
  <1>3. PICK v \in [0 .. Len(e) -> Int] :
               /\ Val(e) = v[Len(e)]
               /\ v[0] = 0
               /\ \A i \in 1 .. Len(e) : v[i] = v[i - 1] + e[i] * Pow(M, i - 1)
    BY <1>2, ValFcn
  <1>4. Val(e) = 0
    BY <1>2, <1>3
  <1> QED
    BY <1>4 DEF e

LEMMA ValAppend ==
    ASSUME NEW s \in Seq(Word), NEW w \in Word
    PROVE  /\ Append(s, w) \in Seq(Word)
           /\ Len(Append(s, w)) = Len(s) + 1
           /\ Val(Append(s, w)) = Val(s) + w * Pow(M, Len(s))
  <1> DEFINE t == Append(s, w)
             n == Len(s)
  <1>1. /\ t \in Seq(Word) /\ Len(t) = n + 1 /\ n \in Nat
        /\ t[n + 1] = w /\ \A i \in 1 .. n : t[i] = s[i]
    OBVIOUS
  <1> HIDE DEF t
  <1>2. PICK v \in [0 .. Len(s) -> Int] :
               /\ Val(s) = v[Len(s)]
               /\ v[0] = 0
               /\ \A i \in 1 .. Len(s) : v[i] = v[i - 1] + s[i] * Pow(M, i - 1)
    BY ValFcn
  <1>3. PICK u \in [0 .. Len(t) -> Int] :
               /\ Val(t) = u[Len(t)]
               /\ u[0] = 0
               /\ \A i \in 1 .. Len(t) : u[i] = u[i - 1] + t[i] * Pow(M, i - 1)
    BY <1>1, ValFcn
  <1> HIDE DEF n
  <1>4. InStep(v, u, n)
    <2>1. \A i \in 1 .. n : i \in 1 .. Len(t) /\ i \in 1 .. Len(s)
      BY <1>1 DEF n
    <2>2. \A i \in 1 .. n : v[i] = v[i - 1] + s[i] * Pow(M, i - 1)
      BY <1>2 DEF n
    <2>3. \A i \in 1 .. n : u[i] = u[i - 1] + s[i] * Pow(M, i - 1)
      BY <1>1, <1>3, <2>1
    <2> QED
      BY <1>2, <1>3, <2>2, <2>3 DEF InStep
  <1>5. v[n] = u[n]
    BY <1>1, <1>4, Agree
  <1>6. u[n + 1] = u[n] + t[n + 1] * Pow(M, (n + 1) - 1)
    BY <1>1, <1>3
  <1>7. (n + 1) - 1 = n
    BY <1>1
  <1>8. Val(t) = Val(s) + w * Pow(M, n)
    BY <1>1, <1>2, <1>3, <1>5, <1>6, <1>7 DEF n
  <1> QED
    BY <1>1, <1>8 DEF t, n

(* The first i words of a number.                                          *)
First(s, i) == SubSeq(s, 1, i)

LEMMA FirstIs ==
    ASSUME NEW s \in Seq(Word), NEW i \in 0 .. Len(s)
    PROVE  First(s, i) \in Seq(Word) /\ Len(First(s, i)) = i
  BY DEF First

LEMMA FirstAll == ASSUME NEW s \in Seq(Word) PROVE First(s, Len(s)) = s
  BY DEF First

LEMMA FirstNone == ASSUME NEW s \in Seq(Word) PROVE First(s, 0) = <<>>
  BY DEF First

LEMMA FirstStep ==
    ASSUME NEW s \in Seq(Word), NEW i \in 1 .. Len(s)
    PROVE  First(s, i) = Append(First(s, i - 1), s[i])
  BY DEF First

LEMMA ValFirst ==
    ASSUME NEW s \in Seq(Word), NEW i \in 1 .. Len(s)
    PROVE  Val(First(s, i)) = Val(First(s, i - 1)) + s[i] * Pow(M, i - 1)
  <1>1. i - 1 \in 0 .. Len(s) /\ s[i] \in Word
    OBVIOUS
  <1>2. First(s, i - 1) \in Seq(Word) /\ Len(First(s, i - 1)) = i - 1
    BY <1>1, FirstIs
  <1> QED
    BY <1>1, <1>2, FirstStep, ValAppend

(* n words stand for a number below the n-th power of M.                   *)
LEMMA ValBound ==
    ASSUME NEW s \in Seq(Word)
    PROVE  Val(s) \in Nat /\ Val(s) < Pow(M, Len(s))
  <1> DEFINE Below(i) == Val(First(s, i)) \in Nat /\ Val(First(s, i)) < Pow(M, i)
             T == {i \in Nat : i =< Len(s) => Below(i)}
  <1>0. M \in Pos
    BY Width
  <1>1. 0 \in T
    BY <1>0, FirstNone, ValEmpty, PowZero
  <1>2. ASSUME NEW i \in Nat, i \in T PROVE i + 1 \in T
    <2> SUFFICES ASSUME i + 1 =< Len(s) PROVE Below(i + 1)
      OBVIOUS
    <2>1. Below(i) /\ i + 1 \in 1 .. Len(s) /\ (i + 1) - 1 = i /\ s[i + 1] \in Word
      BY <1>2
    <2> DEFINE v == Val(First(s, i))
               w == s[i + 1]
               p == Pow(M, i)
    <2>2. Val(First(s, i + 1)) = v + w * p
      BY <2>1, ValFirst
    <2>3. Pow(M, i + 1) = M * p /\ p \in Pos
      BY <1>0, PowStep, PowType
    <2>4. v \in Nat /\ v < p /\ w \in 0 .. M - 1
      BY <2>1 DEF Word
    <2> HIDE DEF v, w, p
    <2>5. w * p \in Nat /\ (M - 1 - w) * p \in Nat
      BY <1>0, <2>3, <2>4 DEF Pos
    <2>6. (M - 1 - w) * p = M * p - p - w * p
      BY <1>0, <2>3, <2>4 DEF Pos
    <2>7. M * p \in Nat /\ p \in Nat
      BY <1>0, <2>3 DEF Pos
    <2> QED
      BY <2>2, <2>3, <2>4, <2>5, <2>6, <2>7
  <1>3. Len(s) \in T
    <2> HIDE DEF T
    <2> QED
      BY <1>1, <1>2, NatSet
  <1> QED
    BY <1>3, FirstAll

(* The sign of the last word tells on which side of the middle a number is.*)
LEMMA TopSign ==
    ASSUME NEW s \in Seq(Word), NEW n \in Nat \ {0}, Len(s) = n
    PROVE  \E h \in Pos : /\ Pow(M, n) = 2 * h
                          /\ sign(s[n]) = IF Val(s) >= h THEN 1 ELSE 0
  <1> DEFINE w == s[n]
             l == First(s, n - 1)
             v == Val(l)
             p == Pow(M, n - 1)
  <1>1. n \in 1 .. Len(s) /\ n - 1 \in 0 .. Len(s) /\ n - 1 \in Nat /\ (n - 1) + 1 = n
    OBVIOUS
  <1>2. w \in Word /\ M \in Pos /\ Half \in Pos /\ M = 2 * Half
    BY <1>1, Width
  <1>3. l \in Seq(Word) /\ Len(l) = n - 1
    BY <1>1, FirstIs
  <1>4. v \in Nat /\ v < p
    BY <1>3, ValBound
  <1>5. Val(s) = v + w * p
    BY <1>1, ValFirst, FirstAll
  <1>6. Pow(M, n) = M * p /\ p \in Pos
    BY <1>1, <1>2, PowStep, PowType
  <1>7. sign(w) = IF w >= Half THEN 1 ELSE 0
    BY <1>2, SignIs
  <1>8. w \in Nat
    BY <1>2 DEF Word
  <1> HIDE DEF w, l, v, p
  <1> DEFINE h == Half * p
  <1>9. h \in Pos /\ M * p = 2 * h
    BY <1>2, <1>6 DEF Pos
  <1>10. v + w * p >= h <=> w >= Half
    <2>1. CASE w >= Half
      <3>1. (w - Half) * p >= 0 /\ (w - Half) * p = w * p - Half * p
        BY <1>2, <1>6, <1>8, <2>1 DEF Pos
      <3>2. w * p \in Int /\ Half * p \in Int
        BY <1>2, <1>6, <1>8 DEF Pos
      <3> QED
        BY <1>4, <2>1, <3>1, <3>2
    <2>2. CASE w < Half
      <3>1. (Half - 1 - w) * p >= 0 /\ (Half - 1 - w) * p = Half * p - p - w * p
        BY <1>2, <1>6, <1>8, <2>2 DEF Pos
      <3>2. w * p \in Int /\ Half * p \in Int /\ p \in Int
        BY <1>2, <1>6, <1>8 DEF Pos
      <3> QED
        BY <1>2, <1>4, <1>8, <2>2, <3>1, <3>2 DEF Pos
    <2> QED
      BY <1>2, <1>8, <2>1, <2>2 DEF Pos
  <1> HIDE DEF h
  <1>11. Pow(M, n) = 2 * h /\ sign(w) = IF Val(s) >= h THEN 1 ELSE 0
    BY <1>5, <1>6, <1>7, <1>9, <1>10
  <1> QED
    BY <1>9, <1>11 DEF w

(* The words written so far and the carry are the sum, or the difference,  *)
(* of the first words of the operands.                                     *)
Sums(s, x, y, c) ==
    Val(s) + Pow(M, Len(s)) * c = Val(First(x, Len(s))) + Val(First(y, Len(s)))
Differs(s, x, y, c) ==
    Val(s) - Pow(M, Len(s)) * c = Val(First(x, Len(s))) - Val(First(y, Len(s)))

(* Nothing is written yet and nothing is carried.                          *)
LEMMA ChainBegin ==
    ASSUME NEW x \in Seq(Word), NEW y \in Seq(Word)
    PROVE  Sums(<<>>, x, y, 0) /\ Differs(<<>>, x, y, 0)
  <1>1. Val(First(x, 0)) = 0 /\ Val(First(y, 0)) = 0 /\ Val(<<>>) = 0 /\ Len(<<>>) = 0
    BY FirstNone, ValEmpty
  <1>2. M \in Pos /\ Pow(M, 0) = 1
    BY Width, PowZero
  <1> QED
    BY <1>1, <1>2 DEF Sums, Differs

(* One more word: its carry in is the carry out of the words before.       *)
LEMMA ChainStep ==
    ASSUME NEW x \in Seq(Word), NEW y \in Seq(Word), NEW s \in Seq(Word),
           Len(s) < Len(x), Len(s) < Len(y),
           NEW b \in Bit, NEW c \in Bit, NEW r \in Word
    PROVE  LET i == Len(s) + 1
           IN  /\ Sums(s, x, y, b) /\ r + M * c = y[i] + x[i] + b
                     => Sums(Append(s, r), x, y, c)
               /\ Differs(s, x, y, b) /\ r - M * c = x[i] - y[i] - b
                     => Differs(Append(s, r), x, y, c)
  <1> DEFINE n == Len(s)
             X == Val(First(x, n))
             Y == Val(First(y, n))
             V == Val(s)
             p == Pow(M, n)
             u == x[n + 1]
             w == y[n + 1]
  <1>1. n \in Nat /\ n + 1 \in 1 .. Len(x) /\ n + 1 \in 1 .. Len(y) /\ (n + 1) - 1 = n
    OBVIOUS
  <1>2. Val(First(x, n + 1)) = X + u * p /\ Val(First(y, n + 1)) = Y + w * p
    BY <1>1, ValFirst
  <1>3. Len(Append(s, r)) = n + 1 /\ Val(Append(s, r)) = V + r * p
    BY ValAppend
  <1>4. M \in Pos /\ Pow(M, n + 1) = M * p /\ p \in Pos
    BY <1>1, Width, PowStep, PowType
  <1>5. X \in Int /\ Y \in Int /\ V \in Int
    <2>1. n \in 0 .. Len(x) /\ n \in 0 .. Len(y)
      BY <1>1
    <2>2. First(x, n) \in Seq(Word) /\ First(y, n) \in Seq(Word)
      BY <2>1, FirstIs
    <2> QED
      BY <2>2, ValBound
  <1>6. u \in Word /\ w \in Word
    BY <1>1
  <1>7. u \in Int /\ w \in Int /\ r \in Int /\ M \in Int /\ p \in Int /\ b \in Int /\ c \in Int
    BY <1>4, <1>6 DEF Word, Pos, Bit
  <1>8. Sums(s, x, y, b) <=> V + p * b = X + Y
    BY DEF Sums
  <1>9. Differs(s, x, y, b) <=> V - p * b = X - Y
    BY DEF Differs
  <1>10. Sums(Append(s, r), x, y, c) <=> (V + r * p) + (M * p) * c = (X + u * p) + (Y + w * p)
    BY <1>2, <1>3, <1>4 DEF Sums
  <1>11. Differs(Append(s, r), x, y, c) <=> (V + r * p) - (M * p) * c = (X + u * p) - (Y + w * p)
    BY <1>2, <1>3, <1>4 DEF Differs
  <1> HIDE DEF n, X, Y, V, p, u, w
  <1>12. ASSUME V + p * b = X + Y, r + M * c = w + u + b
         PROVE  (V + r * p) + (M * p) * c = (X + u * p) + (Y + w * p)
    <2>1. p * (r + M * c) = p * (w + u + b)
      BY <1>12
    <2>2. p * (r + M * c) = r * p + (M * p) * c
      BY ONLY <1>7
    <2>3. p * (w + u + b) = w * p + u * p + p * b
      BY ONLY <1>7
    <2>4. r * p \in Int /\ (M * p) * c \in Int /\ w * p \in Int /\ u * p \in Int /\ p * b \in Int
      BY ONLY <1>7
    <2> DEFINE rp == r * p
               mc == (M * p) * c
               wp == w * p
               up == u * p
               pb == p * b
    <2>5. rp + mc = wp + up + pb
      BY ONLY <2>1, <2>2, <2>3, Zenon
    <2>6. V + pb = X + Y /\ rp \in Int /\ mc \in Int /\ wp \in Int /\ up \in Int /\ pb \in Int
      BY <1>12, <2>4
    <2> HIDE DEF rp, mc, wp, up, pb
    <2>7. (V + rp) + mc = (X + up) + (Y + wp)
      BY ONLY <1>5, <2>5, <2>6
    <2> QED
      BY <2>7 DEF rp, mc, wp, up
  <1>13. ASSUME V - p * b = X - Y, r - M * c = u - w - b
         PROVE  (V + r * p) - (M * p) * c = (X + u * p) - (Y + w * p)
    <2>1. p * (r - M * c) = p * (u - w - b)
      BY <1>13
    <2>2. p * (r - M * c) = r * p - (M * p) * c
      BY ONLY <1>7
    <2>3. p * (u - w - b) = u * p - w * p - p * b
      BY ONLY <1>7
    <2>4. r * p \in Int /\ (M * p) * c \in Int /\ w * p \in Int /\ u * p \in Int /\ p * b \in Int
      BY ONLY <1>7
    <2> DEFINE rp == r * p
               mc == (M * p) * c
               wp == w * p
               up == u * p
               pb == p * b
    <2>5. rp - mc = up - wp - pb
      BY ONLY <2>1, <2>2, <2>3, Zenon
    <2>6. V - pb = X - Y /\ rp \in Int /\ mc \in Int /\ wp \in Int /\ up \in Int /\ pb \in Int
      BY <1>13, <2>4
    <2> HIDE DEF rp, mc, wp, up, pb
    <2>7. (V + rp) - mc = (X + up) - (Y + wp)
      BY ONLY <1>5, <2>5, <2>6
    <2> QED
      BY <2>7 DEF rp, mc, wp, up
  <1> QED
    BY <1>8, <1>9, <1>10, <1>11, <1>12, <1>13 DEF n, u, w

----------------------------------------------------------------------------
(* Shifts.  An operand size and what it divides a word into.               *)
LEMMA SizeIs ==
    ASSUME NEW size \in 2 .. W
    PROVE  /\ Pow(2, size) \in Pos /\ Pow(2, size - 1) \in Pos
           /\ Pow(2, size) = 2 * Pow(2, size - 1)
           /\ \E c \in Pos : M = Pow(2, size) * c
  <1>1. /\ W \in Nat /\ size \in Nat /\ size - 1 \in Nat /\ (size - 1) + 1 = size
        /\ W - size \in Nat /\ size + (W - size) = W /\ 2 \in Pos
    BY Width DEF Pos
  <1>2. Pow(2, size) \in Pos /\ Pow(2, size - 1) \in Pos /\ Pow(2, W - size) \in Pos
    BY <1>1, PowType
  <1>3. Pow(2, size) = 2 * Pow(2, size - 1)
    BY <1>1, PowStep
  <1>4. M = Pow(2, size) * Pow(2, W - size)
    BY <1>1, PowAdd DEF M
  <1> QED
    BY <1>2, <1>3, <1>4

(* The loop of alu_shl, turn by turn: modulo the operand size its word is  *)
(* the operand times a power of two.                                       *)
LEMMA LoopLeftIs ==
    ASSUME NEW v \in Word, NEW cf \in Bit, NEW n \in Nat \ {0}, NEW size \in 2 .. W
    PROVE  LET s == Pow(2, size)
               l == LoopLeft(v, cf, n, size)
           IN  \E u \in Word, t \in Int :
                   /\ l = <<(u * 2) % M, (u \div Pow(2, size - 1)) % 2>>
                   /\ u = (v % s) * Pow(2, n - 1) + s * t
  <1> DEFINE s == Pow(2, size)
             d == v % s
             h == Pow(2, size - 1)
             S == Word \X Bit
             turn == [q \in S |-> <<(q[1] * 2) % M, (q[1] \div h) % 2>>]
             step == [i \in 1 .. n |-> turn]
             l == CHOOSE l : l = [i \in 0 .. n |-> IF i = 0 THEN <<v, cf>>
                                    ELSE <<(l[i - 1][1] * 2) % M, (l[i - 1][1] \div h) % 2>>]
  <1>0. /\ s \in Pos /\ h \in Pos /\ s = 2 * h /\ M \in Pos /\ n \in Nat /\ 2 \in Pos
        /\ \E c \in Pos : M = s * c
    BY Width, SizeIs DEF Pos
  <1> HIDE DEF h
  <1>1. turn \in [S -> S]
    <2> SUFFICES ASSUME NEW u \in Word
                 PROVE  (u * 2) % M \in Word /\ (u \div h) % 2 \in Bit
      OBVIOUS
    <2>1. u \in Int /\ u * 2 \in Int
      BY DEF Word
    <2>2. (u * 2) % M \in 0 .. M - 1
      BY <1>0, <2>1, DivDef
    <2>3. u \div h \in Int
      BY <1>0, <2>1, DivDef
    <2>4. (u \div h) % 2 \in 0 .. 1
      BY <2>3
    <2> QED
      BY <2>2, <2>4 DEF Word, Bit
  <1> HIDE DEF turn
  <1>2. Steps(S, n, step) /\ <<v, cf>> \in S
    BY <1>1 DEF Steps
  <1>3. PICK f : Run(S, n, <<v, cf>>, step, f)
    <2> HIDE DEF step, S
    <2> QED
      BY <1>0, <1>2, Recursion
  <1>4. \A i \in 1 .. n : /\ f[i - 1] \in S
                          /\ f[i] = <<(f[i - 1][1] * 2) % M, (f[i - 1][1] \div h) % 2>>
    <2> TAKE i \in 1 .. n
    <2>1. i - 1 \in 0 .. n
      BY <1>0
    <2>2. f[i - 1] \in S /\ f[i] = turn[f[i - 1]]
      BY <1>3, <2>1 DEF Run
    <2> QED
      BY <2>2 DEF turn
  <1>5. f = [i \in 0 .. n |-> IF i = 0 THEN <<v, cf>>
                  ELSE <<(f[i - 1][1] * 2) % M, (f[i - 1][1] \div h) % 2>>]
    BY <1>0, <1>3, <1>4 DEF Run
  <1>6. l = [i \in 0 .. n |-> IF i = 0 THEN <<v, cf>>
                  ELSE <<(l[i - 1][1] * 2) % M, (l[i - 1][1] \div h) % 2>>]
    BY <1>5
  <1>7. LoopLeft(v, cf, n, size) = l[n]
    BY DEF LoopLeft, h
  <1> HIDE DEF l
  <1>8. InStep(l, f, n)
    <2>1. l[0] = f[0]
      BY <1>0, <1>3, <1>6 DEF Run
    <2>2. \A i \in 1 .. n : l[i] = <<(l[i - 1][1] * 2) % M, (l[i - 1][1] \div h) % 2>>
      BY <1>0, <1>6
    <2> QED
      BY <1>4, <2>1, <2>2 DEF InStep
  <1>9. l[n] = f[n]
    BY <1>0, <1>8, Agree
  <1> DEFINE T == {i \in Nat : i =< n => \E t \in Int : f[i][1] = d * Pow(2, i) + s * t}
  <1>10. 0 \in T
    <2>1. v \in Int
      BY DEF Word
    <2>2. PICK q \in Int : \E r \in 0 .. s - 1 : v \div s = q /\ v % s = r /\ v = s * q + r
      BY <1>0, <2>1, DivDef
    <2>3. f[0][1] = v /\ Pow(2, 0) = 1
      BY <1>0, <1>3, PowZero DEF Run
    <2>4. v = d * 1 + s * q
      BY <1>0, <2>2 DEF Pos
    <2> QED
      BY <2>3, <2>4
  <1>11. ASSUME NEW i \in Nat, i \in T PROVE i + 1 \in T
    <2> SUFFICES ASSUME i + 1 =< n PROVE \E t \in Int : f[i + 1][1] = d * Pow(2, i + 1) + s * t
      OBVIOUS
    <2>1. PICK t \in Int : f[i][1] = d * Pow(2, i) + s * t
      BY <1>11
    <2>2. i + 1 \in 1 .. n /\ (i + 1) - 1 = i
      OBVIOUS
    <2>3. f[i] \in S /\ f[i + 1][1] = (f[i][1] * 2) % M
      BY <1>4, <2>2
    <2> DEFINE u == f[i][1]
               p == Pow(2, i)
    <2>4. u \in Int /\ u * 2 \in Int
      BY <2>3 DEF Word
    <2>5. PICK q \in Int : \E r \in 0 .. M - 1 : (u * 2) \div M = q /\ (u * 2) % M = r /\ u * 2 = M * q + r
      BY <1>0, <2>4, DivDef
    <2>6. PICK c \in Pos : M = s * c
      BY <1>0
    <2>7. Pow(2, i + 1) = 2 * p /\ p \in Pos /\ d \in Int
      <3>1. v \in Int
        BY DEF Word
      <3>2. d \in Int
        BY <1>0, <3>1, DivDef
      <3> QED
        BY <1>0, <3>2, PowStep, PowType
    <2>8. (u * 2) % M = u * 2 - M * q
      BY <1>0, <2>4, <2>5 DEF Pos
    <2> HIDE DEF u, p, d, s
    <2>9. u = d * p + s * t
      BY <2>1 DEF u, p
    <2>10. u * 2 - M * q = d * (2 * p) + s * (2 * t - c * q)
      BY <1>0, <2>6, <2>7, <2>9 DEF Pos
    <2>11. 2 * t - c * q \in Int
      BY DEF Pos
    <2> QED
      BY <2>3, <2>7, <2>8, <2>10, <2>11 DEF u
  <1>12. n - 1 \in T
    <2> HIDE DEF T
    <2> QED
      BY <1>10, <1>11, NatSet
  <1>13. PICK t \in Int : f[n - 1][1] = d * Pow(2, n - 1) + s * t
    BY <1>12
  <1>14. /\ f[n - 1][1] \in Word
         /\ f[n] = <<(f[n - 1][1] * 2) % M, (f[n - 1][1] \div h) % 2>>
    BY <1>0, <1>4
  <1> QED
    BY <1>7, <1>9, <1>13, <1>14 DEF h

(* The loop of alu_shr and alu_sar: its word is divided by a power of two. *)
LEMMA LoopRightIs ==
    ASSUME NEW v \in Nat, NEW cf \in Bit, NEW n \in Nat \ {0}
    PROVE  LoopRight(v, cf, n) = <<v \div Pow(2, n), (v \div Pow(2, n - 1)) % 2>>
  <1> DEFINE S == Nat \X Bit
             turn == [q \in S |-> <<q[1] \div 2, q[1] % 2>>]
             step == [i \in 1 .. n |-> turn]
             l == CHOOSE l : l = [i \in 0 .. n |-> IF i = 0 THEN <<v, cf>>
                                    ELSE <<l[i - 1][1] \div 2, l[i - 1][1] % 2>>]
  <1>0. n \in Nat /\ 2 \in Pos
    BY DEF Pos
  <1>1. turn \in [S -> S]
    <2> SUFFICES ASSUME NEW u \in Nat
                 PROVE  u \div 2 \in Nat /\ u % 2 \in Bit
      OBVIOUS
    <2> QED
      BY DEF Bit
  <1> HIDE DEF turn
  <1>2. Steps(S, n, step) /\ <<v, cf>> \in S
    BY <1>1 DEF Steps
  <1>3. PICK f : Run(S, n, <<v, cf>>, step, f)
    <2> HIDE DEF step, S
    <2> QED
      BY <1>0, <1>2, Recursion
  <1>4. \A i \in 1 .. n : f[i - 1] \in S /\ f[i] = <<f[i - 1][1] \div 2, f[i - 1][1] % 2>>
    <2> TAKE i \in 1 .. n
    <2>1. i - 1 \in 0 .. n
      BY <1>0
    <2>2. f[i - 1] \in S /\ f[i] = turn[f[i - 1]]
      BY <1>3, <2>1 DEF Run
    <2> QED
      BY <2>2 DEF turn
  <1>5. f = [i \in 0 .. n |-> IF i = 0 THEN <<v, cf>>
                  ELSE <<f[i - 1][1] \div 2, f[i - 1][1] % 2>>]
    BY <1>0, <1>3, <1>4 DEF Run
  <1>6. l = [i \in 0 .. n |-> IF i = 0 THEN <<v, cf>>
                  ELSE <<l[i - 1][1] \div 2, l[i - 1][1] % 2>>]
    BY <1>5
  <1>7. LoopRight(v, cf, n) = l[n]
    BY DEF LoopRight
  <1> HIDE DEF l
  <1>8. InStep(l, f, n)
    <2>1. l[0] = f[0]
      BY <1>0, <1>3, <1>6 DEF Run
    <2>2. \A i \in 1 .. n : l[i] = <<l[i - 1][1] \div 2, l[i - 1][1] % 2>>
      BY <1>0, <1>6
    <2> QED
      BY <1>4, <2>1, <2>2 DEF InStep
  <1>9. l[n] = f[n]
    BY <1>0, <1>8, Agree
  <1> DEFINE T == {i \in Nat : i =< n => f[i][1] = v \div Pow(2, i)}
  <1>10. 0 \in T
    <2>1. f[0][1] = v /\ Pow(2, 0) = 1
      BY <1>0, <1>3, PowZero DEF Run
    <2> QED
      BY <2>1
  <1>11. ASSUME NEW i \in Nat, i \in T PROVE i + 1 \in T
    <2> SUFFICES ASSUME i + 1 =< n PROVE f[i + 1][1] = v \div Pow(2, i + 1)
      OBVIOUS
    <2>1. f[i][1] = v \div Pow(2, i)
      BY <1>11
    <2>2. i + 1 \in 1 .. n /\ (i + 1) - 1 = i
      OBVIOUS
    <2>3. f[i + 1][1] = f[i][1] \div 2
      BY <1>4, <2>2
    <2>4. Pow(2, i) \in Pos /\ Pow(2, i + 1) = 2 * Pow(2, i)
      BY <1>0, PowType, PowStep
    <2>5. 2 * Pow(2, i) = Pow(2, i) * 2
      BY <2>4 DEF Pos
    <2> QED
      BY <1>0, <2>1, <2>3, <2>4, <2>5, DivTwice
  <1>12. \A i \in 0 .. n : f[i][1] = v \div Pow(2, i)
    <2> HIDE DEF T
    <2>1. \A i \in Nat : i \in T
      BY <1>10, <1>11, NatSet
    <2> QED
      BY <2>1 DEF T
  <1>13. n \in 1 .. n /\ n - 1 \in 0 .. n
    BY <1>0
  <1>14. f[n] = <<f[n - 1][1] \div 2, f[n - 1][1] % 2>>
    BY <1>4, <1>13
  <1>15. f[n][1] = v \div Pow(2, n) /\ f[n - 1][1] = v \div Pow(2, n - 1)
    BY <1>12, <1>13
  <1> QED
    BY <1>7, <1>9, <1>14, <1>15

(* Two and its powers: one turn less halves them.                          *)
LEMMA PowHalf ==
    ASSUME NEW n \in Nat \ {0}
    PROVE  /\ Pow(2, n) \in Pos /\ Pow(2, n - 1) \in Pos
           /\ Pow(2, n) = 2 * Pow(2, n - 1) /\ Pow(2, n) \div 2 = Pow(2, n - 1)
  <1>1. n - 1 \in Nat /\ (n - 1) + 1 = n /\ 2 \in Pos
    BY DEF Pos
  <1>2. Pow(2, n) \in Pos /\ Pow(2, n - 1) \in Pos /\ Pow(2, n) = 2 * Pow(2, n - 1)
    BY <1>1, PowType, PowStep
  <1> QED
    BY <1>2 DEF Pos

(* Putting the low bits back leaves them and the bits above as they are.   *)
LEMMA ResultIs ==
    ASSUME NEW size \in 2 .. W, NEW low \in 0 .. Pow(2, size) - 1, NEW dest \in Word,
           NEW cf \in Bit, NEW f \in Flags
    PROVE  LET r == ShiftResult(low, cf, dest, size, f)
               s == Pow(2, size)
           IN  /\ r.res \in Word /\ r.flags \in Flags /\ r.flags.CF = cf
               /\ r.res % s = low /\ r.res \div s = dest \div s
  <1> DEFINE s == Pow(2, size)
             h == Pow(2, size - 1)
             w == low + (dest - (dest % s))
             z == Flag(low = 0)
             g == (low \div h) % 2
  <1>1. s \in Pos /\ h \in Pos /\ M \in Pos
    BY SizeIs, Width
  <1>2. PICK c \in Pos : M = s * c
    BY SizeIs
  <1>3. dest \in Nat /\ dest < M
    BY <1>1 DEF Word, Pos
  <1>4. PICK q \in Int : \E r \in 0 .. s - 1 : dest \div s = q /\ dest % s = r /\ dest = s * q + r
    BY <1>1, <1>3, DivDef
  <1>5. dest \div s = q /\ dest % s \in 0 .. s - 1 /\ dest = s * q + (dest % s)
    BY <1>4
  <1> HIDE DEF s, h
  <1>6. w = s * q + low
    <2>1. s * q \in Int /\ s \in Int
      BY <1>1 DEF Pos
    <2> QED
      BY <1>5, <2>1
  <1>7. low \in 0 .. s - 1
    BY DEF s
  <1>8. w % s = low /\ w \div s = q
    BY <1>1, <1>6, <1>7, DivUnique
  <1>9. w \in Word
    <2>1. s * q < s * c /\ s * q > 0 - s
      BY <1>1, <1>2, <1>3, <1>5 DEF Pos
    <2>2. q < c
      BY <1>1, <2>1 DEF Pos
    <2>3. q > 0 - 1
      BY <1>1, <2>1 DEF Pos
    <2>4. s * (c - 1 - q) >= 0 /\ s * q >= 0
      BY <1>1, <2>2, <2>3 DEF Pos
    <2>5. s * (c - 1 - q) = s * c - s - s * q
      BY <1>1 DEF Pos
    <2>6. s * q \in Int /\ s * c \in Int /\ s \in Int
      BY <1>1 DEF Pos
    <2> QED
      BY <1>2, <1>6, <1>7, <2>4, <2>5, <2>6 DEF Word
  <1>10. z \in Bit /\ g \in Bit
    <2>1. low \div h \in Int
      BY <1>1, DivDef
    <2> QED
      BY <2>1 DEF Bit, Flag
  <1> DEFINE F == [[[f EXCEPT !.CF = cf] EXCEPT !.ZF = z] EXCEPT !.SF = g]
  <1>11. ShiftResult(low, cf, dest, size, f) = [res |-> w, flags |-> F]
    BY DEF ShiftResult, s, h
  <1> HIDE DEF z, g, w
  <1>12. F \in Flags /\ F.CF = cf
    BY <1>10 DEF Flags
  <1> HIDE DEF F
  <1> QED
    BY <1>5, <1>8, <1>9, <1>11, <1>12 DEF s

(* What ShiftScales says of the operand, the count, the operand size, the  *)
(* result and the carry.                                                   *)
Scaled(op, dest, n, size, r, c) ==
    LET s == Pow(2, size)
        v == dest % s
        m == Pow(2, n)
        neg1 == v >= s \div 2
        low == r % s
    IN  /\ r \div s = dest \div s
        /\ op = "shl" => low = (v * m) % s /\ c = ((v * m) \div s) % 2
        /\ op = "shr" => low = v \div m
        /\ op = "sar" => low = ((IF neg1 THEN v - s ELSE v) \div m) % s
        /\ op # "shl" => c = (v \div (m \div 2)) % 2

(* What alu_shl leaves, the bits above the operand size included.          *)
LEMMA ShlIs ==
    ASSUME NEW dest \in Word, NEW size \in 2 .. W, NEW n \in 1 .. size - 1, NEW f \in Flags
    PROVE  LET r == alu_shl(n, dest, size, f)
           IN  /\ r.res \in Word /\ r.flags \in Flags
               /\ Scaled("shl", dest, n, size, r.res, r.flags.CF)
  <1> DEFINE s == Pow(2, size)
             h == Pow(2, size - 1)
             v == dest % s
             m == Pow(2, n)
             p == Pow(2, n - 1)
             l == LoopLeft(dest, f.CF, n, size)
             low == l[1] % s
             r == alu_shl(n, dest, size, f)
  <1>1. n \in Nat \ {0} /\ f.CF \in Bit /\ 2 \in Pos
    BY Width DEF Flags, Pos
  <1>2. /\ s \in Pos /\ h \in Pos /\ s = 2 * h /\ M \in Pos
        /\ m = 2 * p /\ p \in Pos /\ \E c \in Pos : M = s * c
    BY <1>1, SizeIs, Width, PowHalf
  <1>3. PICK c \in Pos : M = s * c
    BY <1>2
  <1>4. \E u \in Word, t \in Int : l = <<(u * 2) % M, (u \div h) % 2>> /\ u = v * p + s * t
    BY <1>1, LoopLeftIs
  <1>5. PICK u \in Word, t \in Int : l = <<(u * 2) % M, (u \div h) % 2>> /\ u = v * p + s * t
    BY <1>4
  <1>6. dest \in Int /\ u \in Int /\ u * 2 \in Int
    BY DEF Word
  <1>7. v \in Int
    <2>1. v \in 0 .. s - 1
      BY <1>2, <1>6, DivType
    <2> QED
      BY <2>1
  <1>8. PICK q \in Int : \E rr \in 0 .. M - 1 : (u * 2) \div M = q /\ (u * 2) % M = rr /\ u * 2 = M * q + rr
    BY <1>2, <1>6, DivDef
  <1>9. (u * 2) % M = u * 2 - M * q
    BY <1>2, <1>6, <1>8 DEF Pos
  <1>10. r = ShiftResult(low, l[2], dest, size, f)
    BY DEF alu_shl
  <1>11. l[1] = (u * 2) % M /\ l[2] = (u \div h) % 2
    BY <1>5
  <1> HIDE DEF s, h, v, m, p, l, r
  (* The result.                                                           *)
  <1>12. u * 2 - M * q = v * m + s * (2 * t - c * q) /\ 2 * t - c * q \in Int
    BY <1>2, <1>3, <1>5, <1>7 DEF Pos
  <1>13. v * m \in Int
    BY <1>2, <1>7 DEF Pos
  <1>14. low = (v * m) % s
    <2> DEFINE e == 2 * t - c * q
    <2>1. low = (v * m + s * e) % s /\ e \in Int
      BY <1>9, <1>11, <1>12
    <2> HIDE DEF e, low
    <2> QED
      BY <1>2, <1>13, <2>1, DivShift
  <1>15. low \in 0 .. s - 1
    BY <1>2, <1>13, <1>14, DivDef
  (* The carry.                                                            *)
  <1>16. u = v * p + h * (2 * t) /\ v * p \in Int /\ 2 * t \in Int
    BY <1>2, <1>5, <1>7 DEF Pos
  <1>17. u \div h = (v * p) \div h + 2 * t
    <2> DEFINE a == v * p
               e == 2 * t
    <2>1. a \in Int /\ e \in Int /\ h \in Pos /\ u = a + h * e
      BY <1>2, <1>16
    <2> HIDE DEF a, e
    <2>2. u \div h = a \div h + e
      BY ONLY <2>1, DivShift
    <2> QED
      BY ONLY <2>2 DEF a, e
  <1>18. (v * p) \div h \in Int
    BY <1>2, <1>16, DivDef
  <1>19. ((v * p) \div h + 2 * t) % 2 = ((v * p) \div h) % 2
    BY <1>1, <1>18, DivShift
  <1>20. (2 * (v * p)) \div (2 * h) = (v * p) \div h
    BY <1>1, <1>2, <1>16, DivScale
  <1>21. 2 * (v * p) = v * m
    BY <1>2, <1>7 DEF Pos
  <1>22. l[2] = ((v * m) \div s) % 2
    BY <1>2, <1>11, <1>17, <1>19, <1>20, <1>21
  <1>23. l[2] \in Bit
    <2>1. (v * m) \div s \in Int
      BY <1>2, <1>13, DivDef
    <2> QED
      BY <1>22, <2>1 DEF Bit
  <1> HIDE DEF low
  <1>24. /\ r.res \in Word /\ r.flags \in Flags /\ r.flags.CF = l[2]
         /\ r.res % s = low /\ r.res \div s = dest \div s
    BY <1>10, <1>15, <1>23, ResultIs DEF s
  <1>25. Scaled("shl", dest, n, size, r.res, r.flags.CF)
    BY <1>14, <1>22, <1>24 DEF Scaled, s, v, m
  <1> QED
    BY <1>24, <1>25 DEF r

(* What the loop of alu_shr and alu_sar leaves.                            *)
LEMMA RightIs ==
    ASSUME NEW dest \in Word, NEW size \in 2 .. W, NEW n \in 1 .. size - 1, NEW f \in Flags
    PROVE  LET s == Pow(2, size)
               v == dest % s
               m == Pow(2, n)
               l == LoopRight(v, f.CF, n)
           IN  /\ s \in Pos /\ m \in Pos /\ v \in 0 .. s - 1
               /\ \E d \in Pos : s = m * d /\ d = Pow(2, size - n) /\ v \div m \in 0 .. d - 1
               /\ l[1] = v \div m /\ l[2] = (v \div (m \div 2)) % 2 /\ l[2] \in Bit
  <1> DEFINE s == Pow(2, size)
             v == dest % s
             m == Pow(2, n)
             d == Pow(2, size - n)
             p == Pow(2, n - 1)
             l == LoopRight(v, f.CF, n)
  <1>1. /\ n \in Nat \ {0} /\ n \in Nat /\ size - n \in Nat /\ n + (size - n) = size
        /\ f.CF \in Bit /\ 2 \in Pos
    BY Width DEF Flags, Pos
  <1>2. s \in Pos /\ m \in Pos /\ p \in Pos /\ m \div 2 = p /\ d \in Pos
    BY <1>1, SizeIs, PowHalf, PowType
  <1>3. s = m * d
    BY <1>1, PowAdd
  <1>4. dest \in Int
    BY DEF Word
  <1>5. v \in 0 .. s - 1
    BY <1>2, <1>4, DivDef
  <1>6. v \in Nat
    BY <1>5
  <1>7. l = <<v \div m, (v \div p) % 2>>
    BY <1>1, <1>6, LoopRightIs
  <1> HIDE DEF s, v, m, p, l, d
  <1>8. v \div m \in 0 .. d - 1
    <2>1. PICK q \in Int : \E r \in 0 .. m - 1 : v \div m = q /\ v % m = r /\ v = m * q + r
      BY <1>2, <1>6, DivDef
    <2>2. PICK r \in 0 .. m - 1 : v \div m = q /\ v = m * q + r
      BY <2>1
    <2>3. m * q > 0 - m /\ m * q < m * d
      BY <1>2, <1>3, <1>5, <2>2 DEF Pos
    <2>4. q > 0 - 1 /\ q < d
      BY <1>2, <2>3 DEF Pos
    <2> QED
      BY <1>2, <2>2, <2>4 DEF Pos
  <1>9. v \div p \in Int
    BY <1>2, <1>6, DivDef
  <1>10. (v \div p) % 2 \in Bit
    BY <1>9 DEF Bit
  <1>11. l[1] = v \div m /\ l[2] = (v \div (m \div 2)) % 2 /\ l[2] \in Bit
    BY <1>2, <1>7, <1>10
  <1> QED
    BY <1>2, <1>3, <1>5, <1>8, <1>11 DEF s, v, m, l, d

LEMMA ShrIs ==
    ASSUME NEW dest \in Word, NEW size \in 2 .. W, NEW n \in 1 .. size - 1, NEW f \in Flags
    PROVE  LET r == alu_shr(n, dest, size, f)
           IN  /\ r.res \in Word /\ r.flags \in Flags
               /\ Scaled("shr", dest, n, size, r.res, r.flags.CF)
  <1> DEFINE s == Pow(2, size)
             v == dest % s
             m == Pow(2, n)
             l == LoopRight(v, f.CF, n)
             r == alu_shr(n, dest, size, f)
  <1>1. /\ s \in Pos /\ m \in Pos /\ v \in 0 .. s - 1
        /\ \E d \in Pos : s = m * d /\ d = Pow(2, size - n) /\ v \div m \in 0 .. d - 1
        /\ l[1] = v \div m /\ l[2] = (v \div (m \div 2)) % 2 /\ l[2] \in Bit
    BY RightIs
  <1>2. r = ShiftResult(l[1], l[2], dest, size, f)
    BY DEF alu_shr
  <1> HIDE DEF s, v, m, l, r
  <1>3. PICK d \in Pos : s = m * d /\ v \div m \in 0 .. d - 1
    BY <1>1
  <1>4. l[1] \in 0 .. s - 1
    <2>1. (m - 1) * d >= 0 /\ (m - 1) * d = m * d - d
      BY <1>1, <1>3 DEF Pos
    <2>2. d =< s /\ d \in Int /\ s \in Int
      BY <1>1, <1>3, <2>1 DEF Pos
    <2> QED
      BY <1>1, <1>3, <2>2
  <1>5. /\ r.res \in Word /\ r.flags \in Flags /\ r.flags.CF = l[2]
        /\ r.res % s = l[1] /\ r.res \div s = dest \div s
    BY <1>1, <1>2, <1>4, ResultIs DEF s
  <1>6. Scaled("shr", dest, n, size, r.res, r.flags.CF)
    BY <1>1, <1>5 DEF Scaled, s, v, m
  <1> QED
    BY <1>5, <1>6 DEF r

(* The top bit of the low size bits.                                       *)
LEMMA TopBit ==
    ASSUME NEW dest \in Word, NEW size \in 2 .. W
    PROVE  LET s == Pow(2, size)
           IN  (dest \div Pow(2, size - 1)) % 2 = 1 <=> dest % s >= s \div 2
  <1> DEFINE s == Pow(2, size)
             h == Pow(2, size - 1)
             v == dest % s
  <1>1. s \in Pos /\ h \in Pos /\ s = 2 * h /\ 2 \in Pos
    BY SizeIs DEF Pos
  <1>2. dest \in Int
    BY DEF Word
  <1> HIDE DEF s, h
  <1>3. PICK q \in Int : \E r \in 0 .. s - 1 : dest \div s = q /\ dest % s = r /\ dest = s * q + r
    BY <1>1, <1>2, DivDef
  <1>4. v \in 0 .. s - 1 /\ dest = s * q + v
    BY <1>3
  <1> HIDE DEF v
  <1>5. dest = v + h * (2 * q) /\ v \in Int /\ 2 * q \in Int
    BY <1>1, <1>4 DEF Pos
  <1>6. dest \div h = v \div h + 2 * q
    BY <1>1, <1>5, DivShift
  <1>7. v \div h = IF v >= h THEN 1 ELSE 0
    <2>1. CASE v >= h
      <3>1. 1 \in Int /\ v - h \in 0 .. h - 1 /\ v = h * 1 + (v - h)
        BY <1>1, <1>4, <2>1 DEF Pos
      <3> QED
        BY <1>1, <2>1, <3>1, DivUnique
    <2>2. CASE ~(v >= h)
      <3>1. 0 \in Int /\ v \in 0 .. h - 1 /\ v = h * 0 + v
        BY <1>1, <1>4, <2>2 DEF Pos
      <3> QED
        BY <1>1, <2>2, <3>1, DivUnique
    <2> QED
      BY <2>1, <2>2
  <1>8. (dest \div h) % 2 = IF v >= h THEN 1 ELSE 0
    BY <1>6, <1>7
  <1>9. s \div 2 = h
    BY <1>1 DEF Pos
  <1> QED
    BY <1>8, <1>9 DEF s, h, v

(* alu_sar fills with the sign of the operand, not of the word.            *)
LEMMA SarIs ==
    ASSUME NEW dest \in Word, NEW size \in 2 .. W, NEW n \in 1 .. size - 1, NEW f \in Flags
    PROVE  LET r == alu_sar(n, dest, size, f)
           IN  /\ r.res \in Word /\ r.flags \in Flags
               /\ Scaled("sar", dest, n, size, r.res, r.flags.CF)
  <1> DEFINE s == Pow(2, size)
             v == dest % s
             m == Pow(2, n)
             d == Pow(2, size - n)
             l == LoopRight(v, f.CF, n)
             top == (dest \div Pow(2, size - 1)) % 2 = 1
             low == l[1] + (IF top THEN s - d ELSE 0)
             r == alu_sar(n, dest, size, f)
  <1>1. /\ s \in Pos /\ m \in Pos /\ v \in 0 .. s - 1
        /\ d \in Pos /\ s = m * d /\ v \div m \in 0 .. d - 1
        /\ l[1] = v \div m /\ l[2] = (v \div (m \div 2)) % 2 /\ l[2] \in Bit
    BY RightIs
  <1>2. r = ShiftResult(low, l[2], dest, size, f)
    BY DEF alu_sar
  <1>3. top <=> v >= s \div 2
    BY TopBit
  <1> HIDE DEF s, v, m, l, r, d, top
  <1>4. d =< s
    <2>1. (m - 1) * d >= 0 /\ (m - 1) * d = m * d - d
      BY <1>1 DEF Pos
    <2> QED
      BY <1>1, <2>1 DEF Pos
  <1>5. low \in 0 .. s - 1
    BY <1>1, <1>4 DEF Pos
  <1>6. low = ((IF top THEN v - s ELSE v) \div m) % s
    <2> DEFINE q == v \div m
               z == v - s
    <2>0. q \in Int /\ s \in Int /\ d \in Int /\ v \in Int /\ l[1] = q /\ v \div m = q
      BY <1>1 DEF Pos
    <2>1. CASE top
      <3>1. low = q + (s - d)
        BY <2>0, <2>1
      <3>2. z = v + m * (0 - d) /\ 0 - d \in Int
        <4>1. m * (0 - d) = 0 - m * d /\ m * d \in Int
          BY <1>1 DEF Pos
        <4> QED
          BY <1>1, <2>0, <4>1
      <3> HIDE DEF q, z, low
      <3>3. z \div m = q + (0 - d)
        <4> DEFINE e == 0 - d
        <4>1. m \in Pos /\ v \in Int /\ e \in Int /\ z = v + m * e
          BY <1>1, <2>0, <3>2
        <4> HIDE DEF e
        <4>2. (v + m * e) \div m = v \div m + e
          BY ONLY <4>1, DivShift
        <4> QED
          BY ONLY <2>0, <4>1, <4>2 DEF e
      <3>4. z \div m = s * (0 - 1) + low /\ 0 - 1 \in Int
        BY <2>0, <3>1, <3>3
      <3>5. (s * (0 - 1) + low) % s = low
        BY <1>1, <1>5, <3>4, DivUnique
      <3>6. (z \div m) % s = low
        BY ONLY <3>4, <3>5
      <3> QED
        BY <2>1, <3>6 DEF z
    <2>2. CASE ~top
      <3>1. low = q
        BY <2>0, <2>2
      <3> HIDE DEF q, low
      <3>2. q = s * 0 + low /\ 0 \in Int
        BY <2>0, <3>1
      <3>3. (s * 0 + low) % s = low
        BY <1>1, <1>5, <3>2, DivUnique
      <3>4. q % s = low
        BY ONLY <3>2, <3>3
      <3> QED
        BY <2>0, <2>2, <3>4
    <2> QED
      BY <2>1, <2>2
  <1> HIDE DEF low
  <1>7. /\ r.res \in Word /\ r.flags \in Flags /\ r.flags.CF = l[2]
        /\ r.res % s = low /\ r.res \div s = dest \div s
    BY <1>1, <1>2, <1>5, ResultIs DEF s
  <1>8. Scaled("sar", dest, n, size, r.res, r.flags.CF)
    BY <1>1, <1>3, <1>6, <1>7 DEF Scaled, s, v, m
  <1> QED
    BY <1>7, <1>8 DEF r

----------------------------------------------------------------------------
(* The invariant: what a computation has come to after each instruction.   *)
Shifts == {"shl", "shr", "sar"}

(* Results are words and flags are bits: no instruction leaves bits above  *)
(* the word, a shift of a byte or half-word included.                      *)
TypeOK ==
    /\ job \in [op : {"idle", "sum", "diff", "neg", "shl", "shr", "sar"},
               x : Seq(Word), y : Seq(Word), size : Sizes \cup {W}]
    /\ res \in Seq(Word)
    /\ eflags \in Flags

(* The operands of each computation, and how far it can get.               *)
Shape ==
    /\ job.op = "idle" => job = Idle /\ res = <<>>
    /\ job.op \in {"sum", "diff"} =>
           Len(job.x) >= 1 /\ Len(job.y) = Len(job.x) /\ Len(res) =< Len(job.x)
    /\ job.op = "neg" => Len(job.x) = 2 /\ Len(res) =< 3
    /\ job.op \in Shifts =>
           /\ Len(job.x) = 1 /\ Len(job.y) = 1 /\ Len(res) =< 1
           /\ job.size \in Sizes /\ job.y[1] \in 1 .. job.size - 1

(* The flags a jump after a comparison looks at.                           *)
Compared(s, x, y, f) ==
    LET i == Len(s)
    IN  /\ f.ZF = Flag(s[i] = 0) /\ f.SF = sign(s[i])
        /\ f.OF = set_OF_sub(s[i], y[i], x[i])

(* After the low word, its carry; after the second, the sum; then the end. *)
Negated(s, x, c) ==
    /\ Len(s) >= 1 => s[1] = (M - x[1]) % M
    /\ Len(s) = 1 => c = Flag(x[1] # 0)
    /\ Len(s) >= 2 => \E d \in Bit : s[2] + M * d = x[2] + Flag(x[1] # 0)
    /\ Len(s) >= 3 => s[3] = (M - s[2]) % M

SumInv  == job.op = "sum" /\ res # <<>> => Sums(res, job.x, job.y, eflags.CF)
DiffInv == job.op = "diff" /\ res # <<>> =>
               /\ Differs(res, job.x, job.y, eflags.CF)
               /\ Compared(res, job.x, job.y, eflags)
NegInv  == job.op = "neg" => Negated(res, job.x, eflags.CF)
ShiftInv == job.op \in Shifts /\ res # <<>> =>
                Scaled(job.op, job.x[1], job.y[1], job.size, res[1], eflags.CF)

IInv == TypeOK /\ Shape /\ SumInv /\ DiffInv /\ NegInv /\ ShiftInv

LEMMA WidthFits == W \in Word
  <1> DEFINE T == {i \in Nat : i < Pow(2, i)}
  <1>0. 2 \in Pos
    BY DEF Pos
  <1>1. 0 \in T
    BY <1>0, PowZero
  <1>2. ASSUME NEW i \in Nat, i \in T PROVE i + 1 \in T
    <2>1. Pow(2, i + 1) = 2 * Pow(2, i) /\ Pow(2, i) \in Pos
      BY <1>0, PowStep, PowType
    <2> QED
      BY <1>2, <2>1 DEF Pos
  <1>3. W \in T
    <2> HIDE DEF T
    <2> QED
      BY <1>1, <1>2, Width, NatSet
  <1>4. W \in Nat /\ W < M
    BY <1>3 DEF M
  <1> QED
    BY <1>4, Width DEF Word, Pos

LEMMA InvInit == Init => IInv
  <1> SUFFICES ASSUME Init PROVE IInv
    OBVIOUS
  <1>1. job = Idle /\ res = <<>> /\ eflags = [CF |-> 0, ZF |-> 0, SF |-> 0, OF |-> 0]
    BY DEF Init
  <1>2. job.op = "idle"
    BY <1>1 DEF Idle
  <1>3. job \in [op : {"idle", "sum", "diff", "neg", "shl", "shr", "sar"},
                 x : Seq(Word), y : Seq(Word), size : Sizes \cup {W}]
    BY <1>1 DEF Idle
  <1>4. eflags \in Flags
    BY <1>1 DEF Flags, Bit
  <1>5. TypeOK
    BY <1>1, <1>3, <1>4 DEF TypeOK
  <1> QED
    BY <1>1, <1>2, <1>5 DEF IInv, Shape, SumInv, DiffInv, NegInv, ShiftInv, Shifts

LEMMA InvBegin == ASSUME IInv, begin PROVE IInv'
  <1>0. res = <<>> /\ res' = <<>> /\ eflags' = eflags /\ eflags \in Flags
    BY DEF IInv, Shape, TypeOK, begin, Idle
  <1> DEFINE Jobs == [op : {"idle", "sum", "diff", "neg", "shl", "shr", "sar"},
                      x : Seq(Word), y : Seq(Word), size : Sizes \cup {W}]
  <1>1. ASSUME job' \in Jobs PROVE TypeOK'
    BY <1>0, <1>1 DEF TypeOK
  <1>2. ASSUME NEW op \in {"sum", "diff"}, NEW n \in Words,
               NEW x \in [1 .. n -> Word], NEW y \in [1 .. n -> Word],
               job' = [op |-> op, x |-> x, y |-> y, size |-> W]
        PROVE  IInv'
    <2>1. n \in Nat /\ n >= 1
      BY WidthAssumption
    <2>2. x \in Seq(Word) /\ y \in Seq(Word) /\ Len(x) = n /\ Len(y) = n
      BY <2>1
    <2>3. job' \in Jobs /\ job'.op = op /\ job'.x = x /\ job'.y = y
      BY <1>2, <2>2
    <2>4. Shape'
      BY <1>0, <2>1, <2>2, <2>3 DEF Shape, Shifts
    <2> QED
      BY <1>0, <1>1, <2>3, <2>4 DEF IInv, SumInv, DiffInv, NegInv, ShiftInv, Shifts
  <1>3. ASSUME NEW x \in [1 .. 2 -> Word],
               job' = [op |-> "neg", x |-> x, y |-> <<>>, size |-> W]
        PROVE  IInv'
    <2>0. \A n \in Nat : \A z \in [1 .. n -> Word] : z \in Seq(Word) /\ Len(z) = n
      OBVIOUS
    <2>1. x \in Seq(Word) /\ Len(x) = 2
      BY <2>0
    <2>2. job' \in Jobs /\ job'.op = "neg" /\ job'.x = x
      BY <1>3, <2>1
    <2>3. Shape'
      BY <1>0, <2>1, <2>2 DEF Shape, Shifts
    <2> QED
      BY <1>0, <1>1, <2>2, <2>3 DEF IInv, SumInv, DiffInv, NegInv, ShiftInv, Shifts, Negated
  <1>4. ASSUME NEW op \in {"shl", "shr", "sar"}, NEW s \in Sizes, NEW v \in Word,
               NEW n \in 1 .. s - 1,
               job' = [op |-> op, x |-> <<v>>, y |-> <<n>>, size |-> s]
        PROVE  IInv'
    <2>1. s \in 2 .. W
      BY WidthAssumption
    <2>2. n \in Word
      BY <2>1, Width, WidthFits DEF Word, Pos
    <2>3. /\ <<v>> \in Seq(Word) /\ <<n>> \in Seq(Word) /\ Len(<<v>>) = 1 /\ Len(<<n>>) = 1
          /\ <<n>>[1] = n
      BY <2>2
    <2>4. job' \in Jobs /\ job'.op = op /\ job'.x = <<v>> /\ job'.y = <<n>> /\ job'.size = s
      BY <1>4, <2>3
    <2>5. Shape'
      BY <1>0, <2>3, <2>4 DEF Shape, Shifts
    <2> QED
      BY <1>0, <1>1, <2>4, <2>5 DEF IInv, SumInv, DiffInv, NegInv, ShiftInv, Shifts
  <1> QED
    BY <1>2, <1>3, <1>4 DEF begin

(* A word is written: the others stay.                                     *)
LEMMA WritesIs ==
    ASSUME TypeOK, NEW r, Writes(r), r.res \in Word, r.flags \in Flags
    PROVE  /\ TypeOK' /\ job' = job /\ eflags' = r.flags /\ res' = Append(res, r.res)
           /\ Len(res') = Len(res) + 1 /\ res'[Len(res) + 1] = r.res
           /\ \A i \in 1 .. Len(res) : res'[i] = res[i]
           /\ Len(res) \in Nat /\ res' # <<>>
  <1>1. job' = job /\ eflags' = r.flags /\ res' = Append(res, r.res) /\ res \in Seq(Word)
    BY DEF Writes, TypeOK
  <1>2. /\ res' \in Seq(Word) /\ Len(res') = Len(res) + 1 /\ res'[Len(res) + 1] = r.res
        /\ \A i \in 1 .. Len(res) : res'[i] = res[i]
        /\ Len(res) \in Nat /\ res' # <<>>
    BY <1>1
  <1>3. TypeOK'
    BY <1>1, <1>2 DEF TypeOK
  <1> QED
    BY <1>1, <1>2, <1>3

(* The operands of a computation on numbers are words.                     *)
LEMMA Operands ==
    ASSUME TypeOK
    PROVE  /\ job.x \in Seq(Word) /\ job.y \in Seq(Word) /\ res \in Seq(Word)
           /\ eflags \in Flags /\ eflags.CF \in Bit
           /\ Len(res) \in Nat /\ Len(job.x) \in Nat /\ Len(job.y) \in Nat
           /\ \A i \in 1 .. Len(job.x) : job.x[i] \in Word
           /\ \A i \in 1 .. Len(job.y) : job.y[i] \in Word
           /\ \A i \in 1 .. Len(res) : res[i] \in Word
  BY DEF TypeOK, Flags

(* One step of a sum: the carry in is 0 for the first word.                *)
LEMMA SumWrites ==
    ASSUME IInv, job.op = "sum", Len(res) < Len(job.x),
           NEW b \in Bit, Sums(res, job.x, job.y, b), NEW r, Left(r), Writes(r),
           r.res + M * r.flags.CF = job.y[Len(res) + 1] + job.x[Len(res) + 1] + b
    PROVE  IInv'
  <1>1. TypeOK /\ Shape /\ r.res \in Word /\ r.flags \in Flags
    BY DEF IInv, Left
  <1>2. /\ TypeOK' /\ job' = job /\ eflags' = r.flags /\ res' = Append(res, r.res)
        /\ Len(res') = Len(res) + 1 /\ Len(res) \in Nat
    BY <1>1, WritesIs
  <1>3. /\ job.x \in Seq(Word) /\ job.y \in Seq(Word) /\ res \in Seq(Word)
        /\ Len(job.x) \in Nat /\ r.flags.CF \in Bit /\ Len(job.y) = Len(job.x)
    BY <1>1, Operands DEF Shape, Flags
  <1>4. Sums(res', job.x, job.y, r.flags.CF)
    BY <1>1, <1>2, <1>3, ChainStep
  <1>5. Shape'
    BY <1>1, <1>2, <1>3 DEF Shape, Shifts
  <1>6. SumInv'
    BY <1>2, <1>4 DEF SumInv
  <1> QED
    BY <1>2, <1>5, <1>6 DEF IInv, DiffInv, NegInv, ShiftInv, Shifts

LEMMA InvAdd == ASSUME IInv, add PROVE IInv'
  <1> DEFINE r == alu_add(job.y[k], job.x[k])
  <1>1. /\ TypeOK /\ Shape /\ job.op = "sum" /\ k = 1 /\ Writes(r)
    BY DEF IInv, add
  <1>2. Len(res) = 0 /\ Len(job.x) >= 1 /\ Len(job.y) = Len(job.x) /\ res = <<>>
        /\ job.x \in Seq(Word) /\ job.y \in Seq(Word) /\ Len(job.x) \in Nat
    BY <1>1, Operands DEF k, Shape
  <1>3. job.x[1] \in Word /\ job.y[1] \in Word
    BY <1>1, <1>2, Operands
  <1>4. Left(r) /\ r.res + M * r.flags.CF = job.y[1] + job.x[1]
    BY <1>1, <1>3, AddIs
  <1>5. Sums(res, job.x, job.y, 0) /\ 0 \in Bit
    BY <1>2, ChainBegin DEF Bit
  <1>6. Len(res) < Len(job.x) /\ Len(res) + 1 = 1
    BY <1>2
  <1>7. job.y[1] + job.x[1] = job.y[1] + job.x[1] + 0
    BY <1>3 DEF Word
  <1> HIDE DEF r
  <1> QED
    BY <1>1, <1>4, <1>5, <1>6, <1>7, SumWrites

LEMMA InvAdc == ASSUME IInv, adc PROVE IInv'
  <1> DEFINE r == alu_adc(eflags.CF, job.y[k], job.x[k])
  <1>1. TypeOK /\ Shape /\ SumInv /\ job.op = "sum" /\ k \in 2 .. Len(job.x) /\ Writes(r)
    BY DEF IInv, adc
  <1>2. /\ Len(res) \in Nat /\ Len(res) >= 1 /\ Len(res) < Len(job.x)
        /\ Len(job.x) \in Nat /\ Len(job.y) = Len(job.x) /\ k = Len(res) + 1
    BY <1>1, Operands DEF k, Shape
  <1>3. job.x[k] \in Word /\ job.y[k] \in Word /\ eflags.CF \in Bit
    BY <1>1, <1>2, Operands
  <1>4. Left(r) /\ r.res + M * r.flags.CF = job.y[k] + job.x[k] + eflags.CF
    BY <1>3, AdcIs
  <1>5. Sums(res, job.x, job.y, eflags.CF)
    BY <1>1, <1>2 DEF SumInv
  <1> HIDE DEF r
  <1> QED
    BY <1>1, <1>2, <1>3, <1>4, <1>5, SumWrites

(* One step of a difference.                                               *)
LEMMA DiffWrites ==
    ASSUME IInv, job.op = "diff", Len(res) < Len(job.x),
           NEW b \in Bit, Differs(res, job.x, job.y, b), NEW r, Left(r), Writes(r),
           r.res - M * r.flags.CF = job.x[Len(res) + 1] - job.y[Len(res) + 1] - b,
           r.flags.OF = set_OF_sub(r.res, job.y[Len(res) + 1], job.x[Len(res) + 1])
    PROVE  IInv'
  <1>1. /\ TypeOK /\ Shape /\ r.res \in Word /\ r.flags \in Flags
        /\ r.flags.ZF = Flag(r.res = 0) /\ r.flags.SF = sign(r.res)
    BY DEF IInv, Left
  <1>2. /\ TypeOK' /\ job' = job /\ eflags' = r.flags /\ res' = Append(res, r.res)
        /\ Len(res') = Len(res) + 1 /\ Len(res) \in Nat /\ res'[Len(res) + 1] = r.res
    BY <1>1, WritesIs
  <1>3. /\ job.x \in Seq(Word) /\ job.y \in Seq(Word) /\ res \in Seq(Word)
        /\ Len(job.x) \in Nat /\ r.flags.CF \in Bit /\ Len(job.y) = Len(job.x)
    BY <1>1, Operands DEF Shape, Flags
  <1>4. Differs(res', job.x, job.y, r.flags.CF)
    BY <1>1, <1>2, <1>3, ChainStep
  <1>5. Compared(res', job.x, job.y, r.flags)
    BY <1>1, <1>2 DEF Compared
  <1>6. Shape'
    BY <1>1, <1>2, <1>3 DEF Shape, Shifts
  <1>7. DiffInv'
    BY <1>2, <1>4, <1>5 DEF DiffInv
  <1> QED
    BY <1>2, <1>6, <1>7 DEF IInv, SumInv, NegInv, ShiftInv, Shifts

LEMMA InvSub == ASSUME IInv, sub PROVE IInv'
  <1> DEFINE r == alu_sub(job.y[k], job.x[k])
  <1>1. /\ TypeOK /\ Shape /\ job.op = "diff" /\ k = 1 /\ Writes(r)
    BY DEF IInv, sub
  <1>2. Len(res) = 0 /\ Len(job.x) >= 1 /\ Len(job.y) = Len(job.x) /\ res = <<>>
        /\ job.x \in Seq(Word) /\ job.y \in Seq(Word) /\ Len(job.x) \in Nat
    BY <1>1, Operands DEF k, Shape
  <1>3. job.x[1] \in Word /\ job.y[1] \in Word
    BY <1>1, <1>2, Operands
  <1>4. /\ Left(r) /\ r.res - M * r.flags.CF = job.x[1] - job.y[1]
        /\ r.flags.OF = set_OF_sub(r.res, job.y[1], job.x[1])
    BY <1>1, <1>3, SubIs
  <1>5. Differs(res, job.x, job.y, 0) /\ 0 \in Bit
    BY <1>2, ChainBegin DEF Bit
  <1>6. Len(res) < Len(job.x) /\ Len(res) + 1 = 1
    BY <1>2
  <1>7. job.x[1] - job.y[1] = job.x[1] - job.y[1] - 0
    BY <1>3 DEF Word
  <1> HIDE DEF r
  <1> QED
    BY <1>1, <1>4, <1>5, <1>6, <1>7, DiffWrites

LEMMA InvSbb == ASSUME IInv, sbb PROVE IInv'
  <1> DEFINE r == alu_sbb(eflags.CF, job.y[k], job.x[k])
  <1>1. TypeOK /\ Shape /\ DiffInv /\ job.op = "diff" /\ k \in 2 .. Len(job.x) /\ Writes(r)
    BY DEF IInv, sbb
  <1>2. /\ Len(res) \in Nat /\ Len(res) >= 1 /\ Len(res) < Len(job.x)
        /\ Len(job.x) \in Nat /\ Len(job.y) = Len(job.x) /\ k = Len(res) + 1
    BY <1>1, Operands DEF k, Shape
  <1>3. job.x[k] \in Word /\ job.y[k] \in Word /\ eflags.CF \in Bit
    BY <1>1, <1>2, Operands
  <1>4. /\ Left(r) /\ r.res - M * r.flags.CF = job.x[k] - job.y[k] - eflags.CF
        /\ r.flags.OF = set_OF_sub(r.res, job.y[k], job.x[k])
    BY <1>3, SbbIs
  <1>5. Differs(res, job.x, job.y, eflags.CF)
    BY <1>1, <1>2 DEF DiffInv
  <1> HIDE DEF r
  <1> QED
    BY <1>1, <1>2, <1>3, <1>4, <1>5, DiffWrites

(* One step of a negation.                                                 *)
LEMMA NegWrites ==
    ASSUME IInv, job.op = "neg", Len(res) =< 2,
           NEW r, r.res \in Word, r.flags \in Flags, Writes(r),
           Negated(Append(res, r.res), job.x, r.flags.CF)
    PROVE  IInv'
  <1>1. TypeOK /\ Shape
    BY DEF IInv
  <1>2. /\ TypeOK' /\ job' = job /\ eflags' = r.flags /\ res' = Append(res, r.res)
        /\ Len(res') = Len(res) + 1 /\ Len(res) \in Nat
    BY <1>1, WritesIs
  <1>3. Shape'
    BY <1>1, <1>2 DEF Shape, Shifts
  <1>4. NegInv'
    BY <1>2 DEF NegInv
  <1> QED
    BY <1>2, <1>3, <1>4 DEF IInv, SumInv, DiffInv, ShiftInv, Shifts

LEMMA Extended ==
    ASSUME NEW s \in Seq(Word), NEW a \in Word
    PROVE  /\ Len(Append(s, a)) = Len(s) + 1
           /\ Append(s, a)[Len(s) + 1] = a
           /\ \A i \in 1 .. Len(s) : Append(s, a)[i] = s[i]
  OBVIOUS

LEMMA InvNegLow == ASSUME IInv, neg_low PROVE IInv'
  <1> DEFINE r == neg(job.x[1], eflags)
             t == Append(res, r.res)
  <1>1. TypeOK /\ Shape /\ job.op = "neg" /\ k = 1 /\ Writes(r)
    BY DEF IInv, neg_low
  <1>2. Len(res) = 0 /\ Len(job.x) = 2 /\ res = <<>>
    BY <1>1, Operands DEF k, Shape
  <1>3. job.x[1] \in Word /\ eflags \in Flags
    BY <1>1, <1>2, Operands
  <1>4. /\ r.res = (M - job.x[1]) % M /\ r.res \in Word
        /\ r.flags = [eflags EXCEPT !.CF = Flag(job.x[1] # 0)]
    BY <1>3, NegIs DEF neg
  <1>5. r.flags \in Flags /\ r.flags.CF = Flag(job.x[1] # 0)
    BY <1>3, <1>4 DEF Flags, Bit, Flag
  <1> HIDE DEF r
  <1>6. Len(t) = 1 /\ t[1] = r.res
    BY <1>2, <1>4
  <1> HIDE DEF t
  <1>7. Negated(t, job.x, r.flags.CF)
    BY <1>4, <1>5, <1>6 DEF Negated
  <1>8. Negated(Append(res, r.res), job.x, r.flags.CF)
    BY <1>7 DEF t
  <1>9. Len(res) =< 2
    BY <1>2
  <1> QED
    BY <1>1, <1>4, <1>5, <1>8, <1>9, NegWrites

LEMMA InvAdcHigh == ASSUME IInv, adc_high PROVE IInv'
  <1> DEFINE r == alu_adc(eflags.CF, 0, job.x[2])
             t == Append(res, r.res)
  <1>1. TypeOK /\ Shape /\ NegInv /\ job.op = "neg" /\ k = 2 /\ Writes(r)
    BY DEF IInv, adc_high
  <1>2. Len(res) = 1 /\ Len(job.x) = 2
    <2>1. Len(res) \in Nat
      BY <1>1, Operands
    <2>2. Len(job.x) = 2
      BY <1>1 DEF Shape
    <2>3. Len(res) + 1 = 2
      BY <1>1 DEF k
    <2>4. Len(res) = 1
      <3>1. \A n \in Nat : n + 1 = 2 => n = 1
        OBVIOUS
      <3> QED
        BY ONLY <2>1, <2>3, <3>1
    <2> QED
      BY <2>2, <2>4
  <1>3. job.x[2] \in Word /\ eflags.CF \in Bit /\ 0 \in Word /\ res[1] \in Word /\ res \in Seq(Word)
    BY <1>1, <1>2, Operands, Width DEF Word, Pos
  <1>4. Left(r) /\ r.res + M * r.flags.CF = 0 + job.x[2] + eflags.CF
    BY <1>3, AdcIs
  <1>5. r.res \in Word /\ r.flags \in Flags /\ r.flags.CF \in Bit
    BY <1>4 DEF Left, Flags
  <1>6. res[1] = (M - job.x[1]) % M /\ eflags.CF = Flag(job.x[1] # 0)
    BY <1>1, <1>2 DEF NegInv, Negated
  <1> HIDE DEF r
  <1>7. Len(t) = 2 /\ t[1] = res[1] /\ t[2] = r.res
    <2>1. /\ Len(t) = Len(res) + 1 /\ t[Len(res) + 1] = r.res
          /\ \A i \in 1 .. Len(res) : t[i] = res[i]
      BY <1>3, <1>5, Extended
    <2> HIDE DEF t
    <2> QED
      BY <1>2, <2>1
  <1> HIDE DEF t
  <1>8. r.res + M * r.flags.CF = job.x[2] + eflags.CF
    BY <1>3, <1>4 DEF Word, Bit
  <1>9. Negated(t, job.x, r.flags.CF)
    BY <1>5, <1>6, <1>7, <1>8 DEF Negated
  <1>10. Negated(Append(res, r.res), job.x, r.flags.CF)
    BY <1>9 DEF t
  <1>11. Len(res) =< 2
    BY <1>2
  <1> QED
    BY <1>1, <1>5, <1>10, <1>11, NegWrites

LEMMA InvNegHigh == ASSUME IInv, neg_high PROVE IInv'
  <1> DEFINE r == neg(res[2], eflags)
             t == Append(res, r.res)
  <1>1. TypeOK /\ Shape /\ NegInv /\ job.op = "neg" /\ k = 3 /\ Writes(r)
    BY DEF IInv, neg_high
  <1>2. Len(res) = 2 /\ Len(job.x) = 2
    <2>1. Len(res) \in Nat /\ k = Len(res) + 1
      BY <1>1, Operands DEF k
    <2>2. Len(job.x) = 2
      BY <1>1 DEF Shape
    <2>3. k = 3
      BY <1>1
    <2> QED
      BY <2>1, <2>2, <2>3 DEF k
  <1>3. res[1] \in Word /\ res[2] \in Word /\ eflags \in Flags /\ res \in Seq(Word)
    BY <1>1, <1>2, Operands
  <1>4. /\ r.res = (M - res[2]) % M /\ r.res \in Word
        /\ r.flags = [eflags EXCEPT !.CF = Flag(res[2] # 0)]
    BY <1>3, NegIs DEF neg
  <1>5. r.flags \in Flags
    BY <1>3, <1>4 DEF Flags, Bit, Flag
  <1>6. /\ res[1] = (M - job.x[1]) % M
        /\ \E d \in Bit : res[2] + M * d = job.x[2] + Flag(job.x[1] # 0)
    BY <1>1, <1>2 DEF NegInv, Negated
  <1> HIDE DEF r
  <1>7. Len(t) = 3 /\ t[1] = res[1] /\ t[2] = res[2] /\ t[3] = r.res
    <2>1. /\ Len(t) = Len(res) + 1 /\ t[Len(res) + 1] = r.res
          /\ \A i \in 1 .. Len(res) : t[i] = res[i]
      BY <1>3, <1>4, Extended
    <2> HIDE DEF t
    <2> QED
      BY <1>2, <2>1
  <1> HIDE DEF t
  <1>8. Negated(t, job.x, r.flags.CF)
    BY <1>4, <1>6, <1>7 DEF Negated
  <1>9. Negated(Append(res, r.res), job.x, r.flags.CF)
    BY <1>8 DEF t
  <1>10. Len(res) =< 2
    BY <1>2
  <1> QED
    BY <1>1, <1>4, <1>5, <1>9, <1>10, NegWrites

LEMMA ShiftWrites ==
    ASSUME IInv, job.op \in Shifts, k = 1,
           NEW r, r.res \in Word, r.flags \in Flags, Writes(r),
           Scaled(job.op, job.x[1], job.y[1], job.size, r.res, r.flags.CF)
    PROVE  IInv'
  <1>1. TypeOK /\ Shape
    BY DEF IInv
  <1>2. /\ TypeOK' /\ job' = job /\ eflags' = r.flags /\ res' = Append(res, r.res)
        /\ Len(res') = Len(res) + 1 /\ Len(res) \in Nat /\ res'[Len(res) + 1] = r.res
    BY <1>1, WritesIs
  <1>3. Len(res) = 0
    BY <1>2 DEF k
  <1>4. Shape'
    BY <1>1, <1>2, <1>3 DEF Shape, Shifts
  <1>5. ShiftInv'
    BY <1>2, <1>3 DEF ShiftInv
  <1> QED
    BY <1>2, <1>4, <1>5 DEF IInv, SumInv, DiffInv, NegInv, Shifts

LEMMA InvShift == ASSUME IInv, shift PROVE IInv'
  <1> DEFINE d == job.x[1]
             n == job.y[1]
  <1>1. TypeOK /\ Shape /\ k = 1
    BY DEF IInv, shift
  <1>2. ASSUME job.op \in Shifts
        PROVE  /\ d \in Word /\ job.size \in 2 .. W /\ n \in 1 .. job.size - 1
               /\ eflags \in Flags
    <2>1. Len(job.x) = 1 /\ job.size \in Sizes /\ n \in 1 .. job.size - 1
      BY <1>1, <1>2 DEF Shape
    <2>2. job.size \in 2 .. W
      BY <2>1, WidthAssumption
    <2>3. d \in Word /\ eflags \in Flags
      <3>1. 1 \in 1 .. Len(job.x)
        BY <2>1
      <3> QED
        BY <1>1, <3>1, Operands
    <2> QED
      BY <2>1, <2>2, <2>3
  <1>3. CASE job.op = "shl" /\ Writes(alu_shl(n, d, job.size, eflags))
    <2> DEFINE r == alu_shl(n, d, job.size, eflags)
    <2>1. job.op \in Shifts
      BY <1>3 DEF Shifts
    <2>2. r.res \in Word /\ r.flags \in Flags /\ Scaled("shl", d, n, job.size, r.res, r.flags.CF)
      BY <1>2, <2>1, ShlIs
    <2> HIDE DEF r
    <2> QED
      BY <1>1, <1>3, <2>1, <2>2, ShiftWrites DEF r
  <1>4. CASE job.op = "shr" /\ Writes(alu_shr(n, d, job.size, eflags))
    <2> DEFINE r == alu_shr(n, d, job.size, eflags)
    <2>1. job.op \in Shifts
      BY <1>4 DEF Shifts
    <2>2. r.res \in Word /\ r.flags \in Flags /\ Scaled("shr", d, n, job.size, r.res, r.flags.CF)
      BY <1>2, <2>1, ShrIs
    <2> HIDE DEF r
    <2> QED
      BY <1>1, <1>4, <2>1, <2>2, ShiftWrites DEF r
  <1>5. CASE job.op = "sar" /\ Writes(alu_sar(n, d, job.size, eflags))
    <2> DEFINE r == alu_sar(n, d, job.size, eflags)
    <2>1. job.op \in Shifts
      BY <1>5 DEF Shifts
    <2>2. r.res \in Word /\ r.flags \in Flags /\ Scaled("sar", d, n, job.size, r.res, r.flags.CF)
      BY <1>2, <2>1, SarIs
    <2> HIDE DEF r
    <2> QED
      BY <1>1, <1>5, <2>1, <2>2, ShiftWrites DEF r
  <1> QED
    BY <1>3, <1>4, <1>5 DEF shift

LEMMA InvEnd == ASSUME IInv, end PROVE IInv'
  <1>1. job' = Idle /\ res' = <<>> /\ eflags' = eflags /\ TypeOK
    BY DEF end, IInv
  <1>2. job'.op = "idle"
    BY <1>1 DEF Idle
  <1>3. TypeOK'
    BY <1>1 DEF TypeOK, Idle
  <1> QED
    BY <1>1, <1>2, <1>3 DEF IInv, Shape, SumInv, DiffInv, NegInv, ShiftInv, Shifts

LEMMA InvNext == IInv /\ [Next]_vars => IInv'
  <1> SUFFICES ASSUME IInv, [Next]_vars PROVE IInv'
    OBVIOUS
  <1>1. CASE UNCHANGED vars
    BY <1>1 DEF vars, IInv, TypeOK, Shape, SumInv, DiffInv, NegInv, ShiftInv
  <1>2. CASE begin
    BY <1>2, InvBegin
  <1>3. CASE add
    BY <1>3, InvAdd
  <1>4. CASE adc
    BY <1>4, InvAdc
  <1>5. CASE sub
    BY <1>5, InvSub
  <1>6. CASE sbb
    BY <1>6, InvSbb
  <1>7. CASE neg_low
    BY <1>7, InvNegLow
  <1>8. CASE adc_high
    BY <1>8, InvAdcHigh
  <1>9. CASE neg_high
    BY <1>9, InvNegHigh
  <1>10. CASE shift
    BY <1>10, InvShift
  <1>11. CASE end
    BY <1>11, InvEnd
  <1> QED
    BY <1>1, <1>2, <1>3, <1>4, <1>5, <1>6, <1>7, <1>8, <1>9, <1>10, <1>11 DEF Next

(* The invariant holds of every computation, of any width and length.      *)
THEOREM Invariance == Spec => []IInv
  BY InvInit, InvNext, PTL DEF Spec

(* Results are words and flags are bits, for any width and operand size.   *)
THEOREM TypeCorrect == Spec => []TypeOK
  <1>1. IInv => TypeOK
    BY DEF IInv
  <1> QED
    BY <1>1, Invariance, PTL

----------------------------------------------------------------------------
(* What the invariant says of a computation that is complete.              *)

LEMMA Finished ==
    ASSUME IInv, Complete
    PROVE  /\ job.op \in {"sum", "diff"} =>
                  /\ Len(res) = Len(job.x) /\ res # <<>>
                  /\ Len(job.x) \in Nat \ {0} /\ Len(job.y) = Len(job.x)
                  /\ First(job.x, Len(res)) = job.x /\ First(job.y, Len(res)) = job.y
           /\ job.op \in Shifts => res # <<>>
           /\ job.op = "neg" => Len(res) = 3 /\ Len(job.x) = 2
  <1>1. TypeOK /\ Shape
    BY DEF IInv
  <1>2. /\ Len(res) \in Nat /\ Len(job.x) \in Nat /\ k = Len(res) + 1
        /\ job.x \in Seq(Word) /\ job.y \in Seq(Word) /\ res \in Seq(Word)
    BY <1>1, Operands DEF k
  <1>3. ASSUME job.op \in {"sum", "diff"}
        PROVE  /\ Len(res) = Len(job.x) /\ res # <<>>
               /\ Len(job.x) \in Nat \ {0} /\ Len(job.y) = Len(job.x)
               /\ First(job.x, Len(res)) = job.x /\ First(job.y, Len(res)) = job.y
    <2>1. Len(job.x) >= 1 /\ Len(job.y) = Len(job.x) /\ Len(res) =< Len(job.x)
      BY <1>1, <1>3 DEF Shape
    <2>2. k > Len(job.x)
      BY <1>3 DEF Complete
    <2>3. Len(res) = Len(job.x)
      BY <1>2, <2>1, <2>2
    <2>4. res # <<>> /\ Len(job.x) \in Nat \ {0}
      BY <1>2, <2>1, <2>3
    <2> QED
      BY <1>2, <2>1, <2>3, <2>4, FirstAll
  <1>4. ASSUME job.op \in Shifts PROVE res # <<>>
    <2>1. Len(job.x) = 1 /\ k > Len(job.x)
      BY <1>1, <1>4 DEF Shape, Shifts, Complete
    <2>2. Len(res) > 0
      BY <1>2, <2>1
    <2> QED
      BY <2>2
  <1>5. ASSUME job.op = "neg" PROVE Len(res) = 3 /\ Len(job.x) = 2
    <2>1. Len(job.x) = 2 /\ Len(res) + 1 = 4
      BY <1>1, <1>5 DEF Shape, Complete, k
    <2>2. \A n \in Nat : n + 1 = 4 => n = 3
      OBVIOUS
    <2> QED
      BY <1>2, <2>1, <2>2
  <1> QED
    BY <1>3, <1>4, <1>5

LEMMA ShiftsRight == ASSUME IInv PROVE ShiftScales
  <1> SUFFICES ASSUME Complete, job.op \in Shifts
               PROVE  Scaled(job.op, job.x[1], job.y[1], job.size, res[1], eflags.CF)
    BY DEF ShiftScales, Scaled, Shifts
  <1>1. res # <<>>
    BY Finished
  <1> QED
    BY <1>1 DEF IInv, ShiftInv

(* A shift, by any count below any operand size, multiplies or divides by a*)
(* power of two and leaves in CF the last bit shifted out.                 *)
THEOREM ShiftScalesAlways == Spec => []ShiftScales
  BY Invariance, ShiftsRight, PTL

(* Two words, low first.                                                   *)
LEMMA ValPair ==
    ASSUME NEW a \in Word, NEW b \in Word
    PROVE  Val(<<a, b>>) = a + b * M
  <1> DEFINE s == Append(<<>>, a)
  <1>0. <<>> \in Seq(Word) /\ Len(<<>>) = 0
    OBVIOUS
  <1>1. /\ s \in Seq(Word) /\ Len(s) = 0 + 1 /\ Val(s) = 0 + a * Pow(M, 0)
    BY <1>0, ValEmpty, ValAppend
  <1>2. Val(Append(s, b)) = Val(s) + b * Pow(M, 1)
    <2> HIDE DEF s
    <2>1. Val(Append(s, b)) = Val(s) + b * Pow(M, Len(s))
      BY <1>1, ValAppend
    <2>2. Len(s) = 1
      BY <1>1
    <2> QED
      BY <2>1, <2>2
  <1>3. Append(s, b) = <<a, b>>
    <2>1. Len(s) = 1 /\ s[1] = a
      BY <1>1
    <2> HIDE DEF s
    <2> DEFINE t == Append(s, b)
    <2>2. t \in Seq(Word) /\ Len(t) = 2 /\ t[1] = a /\ t[2] = b
      <3>1. /\ t \in Seq(Word) /\ Len(t) = Len(s) + 1 /\ t[Len(s) + 1] = b
            /\ \A i \in 1 .. Len(s) : t[i] = s[i]
        BY <1>1, Extended, ValAppend
      <3> HIDE DEF t
      <3> QED
        BY <2>1, <3>1
    <2> HIDE DEF t
    <2>3. t = <<t[1], t[2]>>
      BY <2>2
    <2> QED
      BY <2>2, <2>3 DEF t
  <1>4. Pow(M, 0) = 1 /\ Pow(M, 1) = M /\ M \in Nat
    <2>1. M \in Pos /\ Pow(M, 0) = 1 /\ Pow(M, 0 + 1) = M * Pow(M, 0)
      BY Width, PowZero, PowStep
    <2> QED
      BY <2>1 DEF Pos
  <1>5. Val(<<a, b>>) = Val(s) + b * M /\ Val(s) = a
    <2> HIDE DEF s
    <2>1. a \in Nat
      BY DEF Word
    <2>2. 0 + a * 1 = a
      BY <2>1
    <2> QED
      BY <1>1, <1>2, <1>3, <1>4, <2>2
  <1> QED
    BY <1>5

(* Two words and the words of their negation, as neg, adc and neg leave    *)
(* them, make a number that two words cannot tell from 0.                  *)
LEMMA NegationIs ==
    ASSUME NEW a \in Word, NEW b \in Word, NEW s \in Word, NEW d \in Bit,
           s + M * d = b + Flag(a # 0)
    PROVE  ((((M - a) % M) + ((M - s) % M) * M) + (a + b * M)) % (M * M) = 0
  <1>1. M \in Nat /\ M >= 2 /\ M \in Pos
    BY Width DEF Pos
  <1>2. a \in Nat /\ a < M /\ b \in Nat /\ b < M /\ s \in Nat /\ s < M
    BY <1>1 DEF Word
  <1> DEFINE l == (M - a) % M
             h == (M - s) % M
             p == h * M
             q == b * M
             t == M * M
  <1>3. /\ l = IF a = 0 THEN 0 ELSE M - a
        /\ h = IF s = 0 THEN 0 ELSE M - s
    <2>1. M - a \in 0 .. M + M - 1 /\ M - s \in 0 .. M + M - 1
      BY <1>1, <1>2
    <2>2. l = (IF M - a < M THEN M - a ELSE M - a - M)
      BY <2>1, Wrap
    <2>3. h = (IF M - s < M THEN M - s ELSE M - s - M)
      BY <2>1, Wrap
    <2> HIDE DEF l, h
    <2> QED
      BY <1>1, <1>2, <2>2, <2>3
  <1>4. t \in Nat /\ t \in Pos /\ q \in Nat
    BY <1>1, <1>2 DEF Pos
  <1>5. (l + p) + (a + q) = 0 \/ (l + p) + (a + q) = t
    <2>1. CASE a = 0 /\ b = 0
      <3>1. s = 0
        BY <1>1, <1>2, <2>1 DEF Flag, Bit
      <3>2. l = 0 /\ h = 0 /\ q = 0
        BY <1>1, <1>3, <2>1, <3>1
      <3>3. p = 0
        BY <1>1, <3>2
      <3> HIDE DEF l, h, p, q, t
      <3> QED
        BY <2>1, <3>2, <3>3
    <2>2. CASE a = 0 /\ b # 0
      <3>1. s = b
        BY <1>1, <1>2, <2>2 DEF Flag, Bit
      <3>2. l = 0 /\ h = M - b
        BY <1>3, <2>2, <3>1
      <3>3. p = t - q
        <4>1. (M - b) * M = M * M - b * M
          BY <1>1, <1>2
        <4> QED
          BY <3>2, <4>1
      <3> HIDE DEF l, h, p, q, t
      <3> QED
        BY <1>4, <2>2, <3>2, <3>3
    <2>3. CASE a # 0 /\ b = M - 1
      <3>1. s = 0
        BY <1>1, <1>2, <2>3 DEF Flag, Bit
      <3>2. l = M - a /\ h = 0
        BY <1>3, <2>3, <3>1
      <3>3. p = 0
        BY <1>1, <3>2
      <3>4. q = t - M
        <4>1. (M - 1) * M = M * M - M
          BY <1>1
        <4> QED
          BY <2>3, <4>1
      <3> HIDE DEF l, h, p, q, t
      <3> QED
        BY <1>1, <1>2, <1>4, <3>2, <3>3, <3>4
    <2>4. CASE a # 0 /\ b # M - 1
      <3>1. s = b + 1
        BY <1>1, <1>2, <2>4 DEF Flag, Bit
      <3>2. l = M - a /\ h = M - (b + 1)
        BY <1>2, <1>3, <2>4, <3>1
      <3>3. p = t - q - M
        <4>1. (M - (b + 1)) * M = M * M - b * M - M
          BY <1>1, <1>2
        <4> QED
          BY <3>2, <4>1
      <3> HIDE DEF l, h, p, q, t
      <3> QED
        BY <1>1, <1>2, <1>4, <3>2, <3>3
    <2> QED
      BY <2>1, <2>2, <2>3, <2>4
  <1>6. 0 % t = 0 /\ t % t = 0
    <2> HIDE DEF t
    <2>1. 0 \in 0 .. t - 1 /\ 0 \in Int /\ 1 \in Int
      BY <1>4 DEF Pos
    <2>2. (t * 0 + 0) % t = 0 /\ (t * 1 + 0) % t = 0
      BY <1>4, <2>1, DivUnique
    <2> QED
      BY <1>4, <2>2
  <1> QED
    BY <1>5, <1>6

LEMMA NegationRight ==
    ASSUME IInv, Complete, job.op = "neg"
    PROVE  (Val(<<res[1], res[3]>>) + Val(job.x)) % Pow(M, Len(job.x)) = 0
  <1>1. Len(res) = 3 /\ Len(job.x) = 2 /\ TypeOK
    BY Finished DEF IInv
  <1>2. /\ res[1] \in Word /\ res[2] \in Word /\ res[3] \in Word
        /\ job.x[1] \in Word /\ job.x[2] \in Word /\ job.x \in Seq(Word)
    BY <1>1, Operands
  <1>3. Negated(res, job.x, eflags.CF)
    BY DEF IInv, NegInv
  <1>4. /\ res[1] = (M - job.x[1]) % M /\ res[3] = (M - res[2]) % M
        /\ \E d \in Bit : res[2] + M * d = job.x[2] + Flag(job.x[1] # 0)
    BY <1>1, <1>3 DEF Negated
  <1>5. job.x = <<job.x[1], job.x[2]>>
    BY <1>1, <1>2
  <1>6. /\ Val(job.x) = job.x[1] + job.x[2] * M
        /\ Val(<<res[1], res[3]>>) = res[1] + res[3] * M
    BY <1>2, <1>5, ValPair
  <1>7. Pow(M, 2) = M * M
    <2>1. /\ M \in Pos /\ Pow(M, 0) = 1 /\ Pow(M, 0 + 1) = M * Pow(M, 0)
          /\ Pow(M, 1 + 1) = M * Pow(M, 1)
      BY Width, PowZero, PowStep
    <2> QED
      BY <2>1 DEF Pos
  <1>8. ((res[1] + res[3] * M) + (job.x[1] + job.x[2] * M)) % (M * M) = 0
    BY <1>2, <1>4, NegationIs
  <1> QED
    BY <1>1, <1>6, <1>7, <1>8

LEMMA SumsRight == ASSUME IInv PROVE LongSum
  <1> SUFFICES ASSUME Complete
               PROVE  LET all == Pow(M, Len(job.x))
                      IN  /\ job.op = "sum"  => Val(res) + all * eflags.CF = Val(job.x) + Val(job.y)
                          /\ job.op = "diff" => Val(res) - all * eflags.CF = Val(job.x) - Val(job.y)
                          /\ job.op = "neg"  => (Val(<<res[1], res[3]>>) + Val(job.x)) % all = 0
    BY DEF LongSum
  <1>1. CASE job.op = "sum"
    <2>1. /\ Len(res) = Len(job.x) /\ res # <<>>
          /\ First(job.x, Len(res)) = job.x /\ First(job.y, Len(res)) = job.y
      BY <1>1, Finished
    <2>2. Sums(res, job.x, job.y, eflags.CF)
      BY <1>1, <2>1 DEF IInv, SumInv
    <2> QED
      BY <1>1, <2>1, <2>2 DEF Sums
  <1>2. CASE job.op = "diff"
    <2>1. /\ Len(res) = Len(job.x) /\ res # <<>>
          /\ First(job.x, Len(res)) = job.x /\ First(job.y, Len(res)) = job.y
      BY <1>2, Finished
    <2>2. Differs(res, job.x, job.y, eflags.CF)
      BY <1>2, <2>1 DEF IInv, DiffInv
    <2> QED
      BY <1>2, <2>1, <2>2 DEF Differs
  <1>3. CASE job.op = "neg"
    BY <1>3, NegationRight
  <1> QED
    BY <1>1, <1>2, <1>3

(* Sums, differences and negations are right, with their carry, for words  *)
(* of any width and numbers of any length.                                 *)
THEOREM LongSumAlways == Spec => []LongSum
  BY Invariance, SumsRight, PTL

----------------------------------------------------------------------------
(* v and the carry c are the difference of x and y, numbers below 2 * h    *)
(* whose signs are a and b: the carry orders them as they are, and the sign*)
(* of v, wrong when the difference overflows, in two's complement.         *)
TwosComplement(x, a, h) == x - (IF a = 1 THEN 2 * h ELSE 0)
SignBit(x, a, h) == a = IF x >= h THEN 1 ELSE 0
Ordered(x, y, v, c, a, b, s, h) ==
    /\ c = 1 <=> x < y
    /\ v = 0 <=> x = y
    /\ s # Flag(b # a /\ b = s) <=> TwosComplement(x, a, h) < TwosComplement(y, b, h)
    /\ TwosComplement(x, a, h) = TwosComplement(y, b, h) <=> x = y

LEMMA Ordering ==
    ASSUME NEW h \in Pos, NEW x \in 0 .. 2 * h - 1, NEW y \in 0 .. 2 * h - 1,
           NEW v \in 0 .. 2 * h - 1, NEW c \in Bit, v - (2 * h) * c = x - y,
           NEW a, NEW b, NEW s, SignBit(x, a, h), SignBit(y, b, h), SignBit(v, s, h)
    PROVE  Ordered(x, y, v, c, a, b, s, h)
  <1>1. h \in Nat /\ h > 0 /\ x \in Nat /\ y \in Nat /\ v \in Nat
    BY DEF Pos
  <1>2. c \in {0, 1}
    BY DEF Bit
  <1>3. CASE c = 0
    <2>1. v = x - y
      BY <1>1, <1>3
    <2> QED
      BY <1>1, <1>3, <2>1 DEF Flag, Ordered, TwosComplement, SignBit
  <1>4. CASE c = 1
    <2>1. v - 2 * h = x - y
      BY <1>1, <1>4
    <2> QED
      BY <1>1, <1>4, <2>1 DEF Flag, Ordered, TwosComplement, SignBit
  <1> QED
    BY <1>2, <1>3, <1>4

LEMMA ComparesRight == ASSUME IInv PROVE LongCompare
  <1> SUFFICES ASSUME Complete, job.op = "diff"
               PROVE  LongCompare
    BY DEF LongCompare
  <1> DEFINE n == Len(job.x)
             x == Val(job.x)
             y == Val(job.y)
             v == Val(res)
             a == sign(job.x[n])
             b == sign(job.y[n])
             s == sign(res[n])
             p == Pow(M, n)
  <1>1. /\ Len(res) = n /\ res # <<>> /\ n \in Nat \ {0} /\ Len(job.y) = n /\ TypeOK
        /\ First(job.x, Len(res)) = job.x /\ First(job.y, Len(res)) = job.y
    BY Finished DEF IInv
  <1>2. /\ job.x \in Seq(Word) /\ job.y \in Seq(Word) /\ res \in Seq(Word)
        /\ eflags \in Flags /\ eflags.CF \in Bit
    BY <1>1, Operands
  <1>3. Differs(res, job.x, job.y, eflags.CF) /\ Compared(res, job.x, job.y, eflags)
    BY <1>1 DEF IInv, DiffInv
  <1>4. v - p * eflags.CF = x - y
    BY <1>1, <1>3 DEF Differs
  <1>5. /\ eflags.ZF = Flag(res[n] = 0) /\ eflags.SF = s
        /\ eflags.OF = Flag(b # a /\ b = s)
    BY <1>1, <1>3 DEF Compared, set_OF_sub
  <1>6. PICK h \in Pos : p = 2 * h /\ s = IF v >= h THEN 1 ELSE 0
    BY <1>1, <1>2, TopSign
  <1>7. a = IF x >= h THEN 1 ELSE 0
    <2>1. PICK g \in Pos : p = 2 * g /\ a = IF x >= g THEN 1 ELSE 0
      BY <1>1, <1>2, TopSign
    <2>2. g = h
      BY <1>6, <2>1 DEF Pos
    <2> QED
      BY <2>1, <2>2
  <1>8. b = IF y >= h THEN 1 ELSE 0
    <2>1. PICK g \in Pos : p = 2 * g /\ b = IF y >= g THEN 1 ELSE 0
      BY <1>1, <1>2, TopSign
    <2>2. g = h
      BY <1>6, <2>1 DEF Pos
    <2> QED
      BY <2>1, <2>2
  <1>9. x \in 0 .. 2 * h - 1 /\ y \in 0 .. 2 * h - 1 /\ v \in 0 .. 2 * h - 1
    <2>1. /\ x \in Nat /\ x < p /\ y \in Nat /\ y < p /\ v \in Nat /\ v < p
      BY <1>1, <1>2, ValBound
    <2> HIDE DEF x, y, v, p
    <2> QED
      BY <1>6, <2>1 DEF Pos
  <1>10. ASSUME n = 1 PROVE eflags.ZF = Flag(v = 0)
    <2>1. res[1] \in Word
      BY <1>1, <1>2, <1>10
    <2>2. Val(res) = Val(First(res, 0)) + res[1] * Pow(M, 0)
      BY <1>1, <1>2, <1>10, ValFirst, FirstAll
    <2>3. Val(First(res, 0)) = 0 /\ Pow(M, 0) = 1
      BY <1>2, FirstNone, ValEmpty, Width, PowZero
    <2>4. v = res[1]
      BY <2>1, <2>2, <2>3 DEF Word
    <2> QED
      BY <1>5, <1>10, <2>4
  <1> DEFINE i == x - (IF a = 1 THEN p ELSE 0)
             j == y - (IF b = 1 THEN p ELSE 0)
  <1>11. Signed(job.x) = i /\ Signed(job.y) = j
    <2>1. Signed(job.x) = x - (IF sign(job.x[Len(job.x)]) = 1 THEN Pow(M, Len(job.x)) ELSE 0)
      BY DEF Signed
    <2>2. Signed(job.y) = y - (IF sign(job.y[Len(job.y)]) = 1 THEN Pow(M, Len(job.y)) ELSE 0)
      BY DEF Signed
    <2> QED
      BY <1>1, <2>1, <2>2
  <1> HIDE DEF n, x, y, v, a, b, s, p
  <1>12. /\ eflags.CF = 1 <=> x < y
         /\ v = 0 <=> x = y
         /\ s # Flag(b # a /\ b = s) <=> i < j
         /\ i = j <=> x = y
    <2>1. v - (2 * h) * eflags.CF = x - y
      BY <1>4, <1>6
    <2>2. /\ i = x - (IF a = 1 THEN 2 * h ELSE 0)
          /\ j = y - (IF b = 1 THEN 2 * h ELSE 0)
      BY <1>6
    <2> HIDE DEF i, j
    <2>3. SignBit(x, a, h) /\ SignBit(y, b, h) /\ SignBit(v, s, h)
      BY <1>6, <1>7, <1>8 DEF SignBit
    <2>4. Ordered(x, y, v, eflags.CF, a, b, s, h)
      BY ONLY <1>2, <1>6, <1>9, <2>1, <2>3, Ordering
    <2> QED
      BY ONLY <2>2, <2>4 DEF Ordered, TwosComplement
  <1>13. i \in Int /\ j \in Int /\ x \in Int /\ y \in Int
    BY <1>6, <1>9 DEF Pos
  <1> HIDE DEF i, j
  <1>14. eflags.CF \in {0, 1}
    BY <1>2 DEF Bit
  <1>15. eflags.SF # eflags.OF <=> i < j
    BY <1>5, <1>12
  <1>16. ASSUME n = 1 PROVE eflags.ZF = 1 <=> x = y
    BY <1>10, <1>12, <1>16 DEF Flag
  <1> DEFINE f == eflags
  <1>17. /\ condition_b(f) <=> x < y
         /\ condition_ae(f) <=> x >= y
         /\ condition_l(f) <=> i < j
         /\ condition_ge(f) <=> i >= j
    BY <1>12, <1>13, <1>14, <1>15 DEF condition_b, condition_ae, condition_l, condition_ge
  <1>18. ASSUME n = 1
         PROVE  /\ condition_e(f) <=> x = y
                /\ condition_a(f) <=> x > y
                /\ condition_be(f) <=> x =< y
                /\ condition_g(f) <=> i > j
                /\ condition_le(f) <=> i =< j
    <2>1. eflags.ZF \in {0, 1}
      BY <1>2 DEF Flags, Bit
    <2>2. eflags.ZF = 1 <=> x = y
      BY <1>16, <1>18
    <2> QED
      BY <2>1, <2>2, <1>12, <1>13, <1>14, <1>15
         DEF condition_e, condition_a, condition_be, condition_g, condition_le
  <1> QED
    BY <1>11, <1>17, <1>18 DEF LongCompare, n, x, y

(* A jump after a comparison is taken exactly when the numbers compare that*)
(* way, for words of any width and numbers of any length.                  *)
THEOREM LongCompareAlways == Spec => []LongCompare
  BY Invariance, ComparesRight, PTL

=============================================================================
