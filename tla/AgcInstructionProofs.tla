------------------------ MODULE AgcInstructionProofs ------------------------
(***************************************************************************)
(* Theorems about AgcInstructions, for words of every width and every      *)
(* layout of memory.                                                       *)
(***************************************************************************)
EXTENDS AgcInstructions, DataLemmas, TLAPS

-----------------------------------------------------------------------------
(* Recursive functions of numbers: what holds of the least argument for    *)
(* which they would leave their range cannot hold.                         *)

\* The steps of a division from a state of S, each of which stays in S.
StepsFrom(g, S, start, divisor) ==
  /\ g \in [0 .. Digits -> S] /\ g[0] = start
  /\ \A i \in 1 .. Digits : g[i] = DvStep(g[i - 1], divisor)

LEMMA StepsAre ==
  ASSUME NEW S, NEW start \in S, NEW divisor, \A s \in S : DvStep(s, divisor) \in S
  PROVE  \E g : StepsFrom(g, S, start, divisor) /\ DvSteps(start, divisor) = g[Digits]
<1> DEFINE f == [s \in S |-> DvStep(s, divisor)]
           Solves(h) == h = [i \in 0 .. Digits |-> IF i = 0 THEN start ELSE DvStep(h[i - 1], divisor)]
           after == CHOOSE h : Solves(h)
           Bad == {i \in 0 .. Digits : after[i] \notin S}
<1>0. Digits \in Nat
  BY DigitsAssumption
<1>1. PICK g : Iterates(g, S, start, f, Digits)
  <2>1. f \in [S -> S]
    OBVIOUS
  <2> HIDE DEF f
  <2> QED BY <1>0, <2>1, IterationExists
<1>2. Solves(g)
  <2>1. g \in [0 .. Digits -> S] /\ g[0] = start /\ \A i \in 1 .. Digits : g[i] = f[g[i - 1]]
    BY <1>1 DEF Iterates
  <2>2. ASSUME NEW i \in 0 .. Digits
        PROVE  g[i] = IF i = 0 THEN start ELSE DvStep(g[i - 1], divisor)
    <3>1. CASE i # 0
      <4>1. i \in 1 .. Digits /\ i - 1 \in 0 .. Digits
        BY <1>0, <3>1
      <4>2. g[i - 1] \in S
        BY <2>1, <4>1
      <4> QED BY <2>1, <3>1, <4>1, <4>2
    <3> QED BY <2>1, <3>1
  <2> QED BY <2>1, <2>2
<1>3. Solves(after)
  BY <1>2
<1>4. DvSteps(start, divisor) = after[Digits]
  BY DEF DvSteps
<1> HIDE DEF after
<1>5. Bad = {}
  <2> SUFFICES ASSUME Bad # {} PROVE FALSE
    OBVIOUS
  <2>1. PICK i \in Bad : \A j \in Bad : i <= j
    <3>1. Bad \in SUBSET Nat
      BY <1>0
    <3> QED BY <3>1, LeastNat
  <2>2. i \in 0 .. Digits /\ after[i] \notin S
    BY <2>1
  <2>3. after[i] = IF i = 0 THEN start ELSE DvStep(after[i - 1], divisor)
    BY <2>2, <1>3
  <2>4. i - 1 \in 0 .. Digits /\ ~(i <= i - 1)
    BY <2>2, <2>3, <1>0
  <2>5. i - 1 \notin Bad
    <3> HIDE DEF Bad
    <3> QED BY <2>1, <2>4
  <2> QED BY <2>2, <2>3, <2>4, <2>5
<1>6. StepsFrom(after, S, start, divisor)
  <2>1. after \in [0 .. Digits -> S]
    BY <1>3, <1>5
  <2>2. after[0] = start
    BY <1>0, <1>3
  <2>3. ASSUME NEW i \in 1 .. Digits PROVE after[i] = DvStep(after[i - 1], divisor)
    <3>1. i \in 0 .. Digits /\ i # 0
      BY <1>0
    <3> QED BY <1>3, <3>1
  <2> QED BY <2>1, <2>2, <2>3 DEF StepsFrom
<1> QED BY <1>4, <1>6

LEMMA StepsType ==
  ASSUME NEW S, NEW start \in S, NEW divisor, \A s \in S : DvStep(s, divisor) \in S
  PROVE  DvSteps(start, divisor) \in S
<1>1. PICK g : StepsFrom(g, S, start, divisor) /\ DvSteps(start, divisor) = g[Digits]
  BY StepsAre
<1> QED BY <1>1, DigitsAssumption DEF StepsFrom

\* The weights of the digits.
LEMMA WeightsDouble ==
  /\ Weight \in [0 .. Digits -> Nat] /\ Weight[0] = 1
  /\ \A i \in 1 .. Digits : Weight[i] = 2 * Weight[i - 1]
<1> DEFINE f == [n \in Nat |-> 2 * n]
           Solves(h) == h = [i \in 0 .. Digits |-> IF i = 0 THEN 1 ELSE 2 * h[i - 1]]
           Bad == {i \in 0 .. Digits : Weight[i] \notin Nat}
<1>0. Digits \in Nat
  BY DigitsAssumption
<1>1. PICK g : Iterates(g, Nat, 1, f, Digits)
  <2>1. f \in [Nat -> Nat]
    OBVIOUS
  <2> HIDE DEF f
  <2> QED BY <1>0, <2>1, IterationExists
<1>2. Solves(g)
  <2>1. g \in [0 .. Digits -> Nat] /\ g[0] = 1 /\ \A i \in 1 .. Digits : g[i] = f[g[i - 1]]
    BY <1>1 DEF Iterates
  <2>2. ASSUME NEW i \in 0 .. Digits PROVE g[i] = IF i = 0 THEN 1 ELSE 2 * g[i - 1]
    <3>1. CASE i # 0
      <4>1. i \in 1 .. Digits /\ i - 1 \in 0 .. Digits
        BY <1>0, <3>1
      <4>2. g[i - 1] \in Nat
        BY <2>1, <4>1
      <4> QED BY <2>1, <3>1, <4>1, <4>2
    <3> QED BY <2>1, <3>1
  <2> QED BY <2>1, <2>2
<1>3. Solves(Weight)
  BY <1>2 DEF Weight
<1>4. Bad = {}
  <2> SUFFICES ASSUME Bad # {} PROVE FALSE
    OBVIOUS
  <2>1. PICK i \in Bad : \A j \in Bad : i <= j
    <3>1. Bad \in SUBSET Nat
      BY <1>0
    <3> QED BY <3>1, LeastNat
  <2>2. i \in 0 .. Digits /\ Weight[i] \notin Nat
    BY <2>1
  <2>3. Weight[i] = IF i = 0 THEN 1 ELSE 2 * Weight[i - 1]
    BY <2>2, <1>3
  <2>4. i - 1 \in 0 .. Digits /\ ~(i <= i - 1)
    BY <2>2, <2>3, <1>0
  <2>5. i - 1 \notin Bad
    <3> HIDE DEF Bad
    <3> QED BY <2>1, <2>4
  <2> QED BY <2>2, <2>3, <2>4, <2>5
<1>5. Weight \in [0 .. Digits -> Nat]
  BY <1>3, <1>4
<1>6. Weight[0] = 1
  BY <1>0, <1>3
<1>7. ASSUME NEW i \in 1 .. Digits PROVE Weight[i] = 2 * Weight[i - 1]
  <2>1. i \in 0 .. Digits /\ i # 0
    BY <1>0
  <2> QED BY <1>3, <2>1
<1> QED BY <1>5, <1>6, <1>7

\* The common bits of two numbers are no more than the first.
AndOf(g, p) == IF p[1] = 0 \/ p[2] = 0 THEN 0
               ELSE 2 * g[<<p[1] \div 2, p[2] \div 2>>] + ((p[1] % 2) * (p[2] % 2))

LEMMA AndType ==
  ASSUME NEW a \in Register, NEW b \in Register
  PROVE  And[<<a, b>>] \in 0 .. a
<1> DEFINE Pairs == Register \X Register
           Upto(n) == {p \in Pairs : p[1] <= n}
           Runs(g, n) == \A p \in Upto(n) : g[p] = AndOf(g, p)
           Bad == {n \in Nat : ~\E g : g = [p \in Upto(n) |-> g[p]] /\ Runs(g, n)}
<1>0. HALF \in Nat /\ Register = 0 .. 4 * HALF - 1
  BY HALFAssumption DEF Register
<1>p. \A p \in Pairs : p[1] \in Nat /\ p[2] \in Nat /\ p[1] <= 4 * HALF - 1 /\ p[2] <= 4 * HALF - 1
  BY <1>0
<1>h. ASSUME NEW p \in Pairs, p[1] # 0, p[2] # 0
      PROVE  /\ <<p[1] \div 2, p[2] \div 2>> \in Pairs
             /\ p[1] \div 2 < p[1] /\ p[1] \div 2 \in Nat
             /\ p[1] = 2 * (p[1] \div 2) + (p[1] % 2)
             /\ (p[1] % 2) * (p[2] % 2) \in 0 .. (p[1] % 2)
  <2>1. p[1] \in Nat /\ p[2] \in Nat /\ p[1] <= 4 * HALF - 1 /\ p[2] <= 4 * HALF - 1
    BY <1>p
  <2>2. p[1] % 2 \in {0, 1} /\ p[2] % 2 \in {0, 1}
    BY <2>1
  <2>3. (p[1] % 2) * (p[2] % 2) \in 0 .. (p[1] % 2)
    <3> DEFINE x == p[1] % 2
               y == p[2] % 2
    <3> HIDE DEF x, y
    <3>1. x \in {0, 1} /\ y \in {0, 1} => x * y \in 0 .. x
      OBVIOUS
    <3> QED BY <3>1, <2>2 DEF x, y
  <2>4. \A n \in Nat \ {0} : n \div 2 < n /\ n \div 2 \in Nat /\ n = 2 * (n \div 2) + (n % 2)
    OBVIOUS
  <2>5. p[1] \div 2 \in Register /\ p[2] \div 2 \in Register
    BY <2>1, <2>4, <1>h, <1>0
  <2> QED BY <2>1, <2>3, <2>4, <2>5, <1>h
<1>1. Bad = {}
  <2> SUFFICES ASSUME Bad # {} PROVE FALSE
    OBVIOUS
  <2>1. PICK n \in Bad : \A m \in Bad : n <= m
    BY LeastNat
  <2>2. CASE n = 0
    <3> DEFINE g == [p \in Upto(0) |-> 0]
    <3>1. \A p \in Upto(0) : p[1] = 0
      BY <1>p
    <3>2. Runs(g, 0) /\ g = [p \in Upto(0) |-> g[p]]
      BY <3>1 DEF AndOf
    <3> QED BY <3>2, <2>1, <2>2
  <2>3. CASE n > 0
    <3>1. n - 1 \in Nat /\ n - 1 \notin Bad
      <4>1. n \in Nat
        OBVIOUS
      <4> HIDE DEF Bad
      <4> QED BY <4>1, <2>1, <2>3
    <3>2. PICK g : g = [p \in Upto(n - 1) |-> g[p]] /\ Runs(g, n - 1)
      BY <3>1
    <3> DEFINE h == [p \in Upto(n) |-> IF p[1] <= n - 1 THEN g[p] ELSE AndOf(g, p)]
    <3>3. ASSUME NEW p \in Upto(n) PROVE h[p] = AndOf(h, p)
      <4>1. CASE p[1] = 0 \/ p[2] = 0
        <5>1. AndOf(g, p) = 0 /\ AndOf(h, p) = 0
          BY <4>1 DEF AndOf
        <5>2. p[1] <= n - 1 => g[p] = AndOf(g, p)
          BY <3>2
        <5> QED BY <5>1, <5>2
      <4>2. CASE p[1] # 0 /\ p[2] # 0
        <5> DEFINE q == <<p[1] \div 2, p[2] \div 2>>
        <5>1. q \in Pairs /\ q[1] < p[1] /\ q[1] \in Nat /\ p[1] \in Nat
          <6>1. p \in Pairs
            OBVIOUS
          <6> QED BY <6>1, <4>2, <1>h, <1>p
        <5>2. q[1] <= n - 1
          BY <5>1, <2>1
        <5>3. h[q] = g[q]
          <6> HIDE DEF q
          <6> QED BY <5>1, <5>2, <2>1
        <5>4. AndOf(h, p) = AndOf(g, p)
          BY <5>3 DEF AndOf
        <5>5. p[1] <= n - 1 => g[p] = AndOf(g, p)
          BY <3>2
        <5> QED BY <5>4, <5>5
      <4> QED BY <4>1, <4>2
    <3>4. Runs(h, n) /\ h = [p \in Upto(n) |-> h[p]]
      BY <3>3
    <3> QED BY <3>4, <2>1
  <2> QED BY <2>1, <2>2, <2>3
<1> DEFINE Solves(f) == f = [p \in Pairs |->
             IF p[1] = 0 \/ p[2] = 0 THEN 0
             ELSE 2 * f[<<p[1] \div 2, p[2] \div 2>>] + ((p[1] % 2) * (p[2] % 2))]
<1>2. \E f : Solves(f)
  <2>1. 4 * HALF \in Nat /\ Upto(4 * HALF) = Pairs
    BY <1>0
  <2>2. PICK g : g = [p \in Upto(4 * HALF) |-> g[p]] /\ Runs(g, 4 * HALF)
    BY <1>1, <2>1
  <2>3. \A p \in Pairs : g[p] = AndOf(g, p)
    BY <2>1, <2>2
  <2>4. g = [p \in Pairs |-> AndOf(g, p)]
    <3>1. g = [p \in Pairs |-> g[p]]
      BY <2>1, <2>2
    <3> QED BY <3>1, <2>3
  <2>5. Solves(g)
    BY <2>4 DEF AndOf
  <2> QED BY <2>5
<1>3. Solves(And)
  <2>1. And = CHOOSE f : Solves(f)
    BY DEF And
  <2> QED BY <1>2, <2>1
<1> DEFINE T == {n \in Nat : \E p \in Pairs : p[1] = n /\ And[p] \notin 0 .. n}
<1>4. T = {}
  <2> SUFFICES ASSUME T # {} PROVE FALSE
    OBVIOUS
  <2>1. PICK n \in T : \A m \in T : n <= m
    BY LeastNat
  <2>2. PICK p \in Pairs : p[1] = n /\ And[p] \notin 0 .. n
    BY <2>1
  <2>3. CASE p[1] = 0 \/ p[2] = 0
    BY <1>3, <2>2, <2>3
  <2>4. CASE p[1] # 0 /\ p[2] # 0
    <3> DEFINE q == <<p[1] \div 2, p[2] \div 2>>
    <3>1. q \in Pairs /\ q[1] < n /\ q[1] \in Nat /\ n = 2 * q[1] + (p[1] % 2)
          /\ (p[1] % 2) * (p[2] % 2) \in 0 .. (p[1] % 2)
      BY <2>2, <2>4, <1>h
    <3>2. q[1] \notin T
      BY <3>1, <2>1
    <3>3. And[q] \in 0 .. q[1]
      <4> HIDE DEF q
      <4> QED BY <3>1, <3>2
    <3>4. And[p] = 2 * And[q] + ((p[1] % 2) * (p[2] % 2))
      BY <1>3, <2>4
    <3>5. p[1] % 2 \in {0, 1}
      BY <2>2
    <3> DEFINE x == p[1] % 2
               y == (p[1] % 2) * (p[2] % 2)
               s == And[q]
    <3> HIDE DEF q, x, y, s
    <3>6. n \in Nat /\ x \in {0, 1} /\ y \in 0 .. x /\ s \in 0 .. q[1] /\ n = 2 * q[1] + x /\ q[1] \in Nat
      BY <3>1, <3>3, <3>5 DEF x, y, s
    <3>7. 2 * s + y \in 0 .. n
      BY <3>6
    <3> QED BY <3>4, <3>7, <2>2 DEF y, s
  <2> QED BY <2>3, <2>4
<1> QED
  <2>1. <<a, b>> \in Pairs /\ a \in Nat /\ a \notin T
    BY <1>0, <1>4
  <2> QED BY <2>1

-----------------------------------------------------------------------------
(* The banks.                                                              *)

BankRegs == {RegEB, RegFB, RegBB}

\* Words of memory whose bank registers are numbers.
Banked(c) == c = [p \in Cells |-> c[p]] /\ \A p \in BankRegs : c[p] \in Int

\* A machine in the middle of an instruction.
Running(m) == m = [c |-> m.c, z |-> m.z, r |-> m.r] /\ Banked(m.c)

\* The number of a bank is one of EBS, and survives its place in EB.
LEMMA EBankTwice ==
  ASSUME NEW eb \in Int
  PROVE  /\ EBank(eb) \in 0 .. EBS - 1
         /\ EBank(EBank(eb) * EBUNIT) = EBank(eb)
<1> DEFINE b == EBank(eb)
<1>1. eb \div EBUNIT \in Int
  BY MachineAssumption, DivMod
<1>2. b \in 0 .. EBS - 1
  BY <1>1, MachineAssumption, DivMod DEF EBank
<1> HIDE DEF b
<1>3. (EBUNIT * b + 0) \div EBUNIT = b
  BY <1>2, MachineAssumption, DivModUnique
<1>4. EBUNIT * b + 0 = b * EBUNIT
  BY <1>2, MachineAssumption
<1>5. (b * EBUNIT) \div EBUNIT = b
  BY <1>3, <1>4
<1>6. (EBS * 0 + b) % EBS = b
  BY <1>2, MachineAssumption, DivModUnique
<1>7. EBS * 0 + b = b
  BY <1>2, MachineAssumption
<1>8. EBank(b * EBUNIT) = b
  BY <1>5, <1>6, <1>7 DEF EBank
<1> QED
  BY <1>2, <1>8 DEF b

\* A bank of fixed memory is a multiple of the number of erasable banks.
LEMMA FBankParts ==
  ASSUME NEW fb \in Int, NEW b \in 0 .. EBS - 1
  PROVE  /\ FBank(fb) \in Int
         /\ FBank(FBank(fb) + b) = FBank(fb)
         /\ (FBank(fb) + b) % EBS = b
<1> DEFINE q == fb \div FBUNIT
           k == FBUNIT \div EBS
           n == k * q
<1>1. q \in Int /\ fb = FBUNIT * q + (fb % FBUNIT) /\ fb % FBUNIT \in 0 .. FBUNIT - 1
  BY MachineAssumption, DivMod
<1>2. k \in Int /\ FBUNIT = EBS * k
  BY MachineAssumption, DivMod
<1> HIDE DEF q, k
<1>3. FBank(fb) = FBUNIT * q /\ FBank(fb) \in Int
  BY <1>1, MachineAssumption DEF FBank
<1>4. k >= 1
  BY <1>2, MachineAssumption
<1>5. EBS <= FBUNIT
  BY <1>2, <1>4, MachineAssumption
<1>6. b \in 0 .. FBUNIT - 1
  BY <1>5, MachineAssumption
<1>7. (FBUNIT * q + b) % FBUNIT = b
  BY <1>1, <1>6, MachineAssumption, DivModUnique
<1>8. FBank(FBank(fb) + b) = FBank(fb)
  BY <1>3, <1>7 DEF FBank
<1>9. n \in Int /\ FBUNIT * q = EBS * n
  BY <1>1, <1>2, MachineAssumption
<1> HIDE DEF n
<1>10. (EBS * n + b) % EBS = b
  BY <1>9, MachineAssumption, DivModUnique
<1> QED
  BY <1>3, <1>8, <1>9, <1>10

\* A quotient of a number is no more than the number.
LEMMA QuotientBelow ==
  ASSUME NEW n \in Nat \ {0}, NEW a \in Nat, NEW q \in Int, NEW r \in 0 .. n - 1, a = n * q + r
  PROVE  q \in 0 .. a
<1>1. q >= 0
  <2>1. CASE q <= -1
    <3>1. n * q <= -n
      BY <2>1
    <3> QED
      BY <3>1
  <2> QED
    BY <2>1
<1>2. q <= n * q
  BY <1>1
<1> QED
  BY <1>1, <1>2

\* The places of a bank in FB and in BB are words.
LEMMA FBankWord ==
  ASSUME NEW w \in Word, NEW b \in 0 .. EBS - 1
  PROVE  FBank(w) \in Word /\ FBank(w) + b \in Word
<1> DEFINE q == w \div FBUNIT
           k == (2 * HALF) \div FBUNIT
           j == FBUNIT \div EBS
<1>0. FBUNIT \in Nat \ {0} /\ EBS \in Nat \ {0} /\ HALF \in Nat \ {0} /\ w \in Nat
      /\ Word = 0 .. 2 * HALF - 1
  BY MachineAssumption, HALFAssumption DEF Word
<1>n. w \in Int /\ 2 * HALF \in Int
  BY <1>0
<1>1. q \in Int /\ w = FBUNIT * q + (w % FBUNIT) /\ w % FBUNIT \in 0 .. FBUNIT - 1
  BY <1>0, <1>n, DivMod
<1>2. k \in Int /\ 2 * HALF = FBUNIT * k
  <2>1. (2 * HALF) % FBUNIT = 0
    BY MachineAssumption
  <2> DEFINE h == 2 * HALF
  <2>2. h \in Int
    BY <1>n
  <2> HIDE DEF h
  <2>3. h \div FBUNIT \in Int /\ h = FBUNIT * (h \div FBUNIT) + (h % FBUNIT)
    BY <1>0, <2>2, DivMod
  <2>4. FBUNIT * (h \div FBUNIT) \in Int
    BY <1>0, <2>3
  <2> QED
    BY <2>1, <2>3, <2>4 DEF h
<1>3. j \in Int /\ FBUNIT = EBS * j
  BY <1>0, MachineAssumption, DivMod
<1> HIDE DEF q, k, j
<1>4. q >= 0
  BY <1>0, <1>1, QuotientBelow
<1>5. q < k
  <2>1. CASE q >= k
    <3>1. FBUNIT * q >= FBUNIT * k
      BY <1>0, <1>1, <1>2, <2>1
    <3> QED
      BY <3>1, <1>0, <1>1, <1>2
  <2> QED
    BY <2>1, <1>1, <1>2
<1>6. FBUNIT * q + FBUNIT <= 2 * HALF /\ FBUNIT * q >= 0 /\ FBUNIT * q \in Int
  <2>1. FBUNIT * (q + 1) <= FBUNIT * k
    BY <1>0, <1>1, <1>2, <1>5
  <2>2. FBUNIT * (q + 1) = FBUNIT * q + FBUNIT /\ FBUNIT * q >= 0 /\ FBUNIT * q \in Int
    BY <1>0, <1>1, <1>4
  <2> QED
    BY <2>1, <2>2, <1>2
<1>7. EBS <= FBUNIT
  <2>1. j >= 1
    BY <1>0, <1>3
  <2> QED
    BY <2>1, <1>0, <1>3
<1>8. FBank(w) = FBUNIT * q
  BY <1>0, <1>1, <1>6 DEF FBank
<1> QED
  BY <1>0, <1>6, <1>7, <1>8

\* Banks makes EB, FB and BB agree when they did before the instruction.
LEMMA BanksMakeAgree ==
  ASSUME BanksAgree, Banked(cell), NEW c, Banked(c)
  PROVE  /\ Banks(c)[RegBB] = Banks(c)[RegFB] + EBank(Banks(c)[RegEB])
         /\ Banks(c)[RegEB] = EBank(Banks(c)[RegEB]) * EBUNIT
         /\ Banks(c)[RegFB] = FBank(Banks(c)[RegFB])
<1> DEFINE wrote == cell[RegBB] # c[RegBB]
           moved == cell[RegEB] # c[RegEB] \/ cell[RegFB] # c[RegFB]
           eb == IF wrote THEN (c[RegBB] % EBS) * EBUNIT ELSE c[RegEB]
           fb == IF wrote THEN FBank(c[RegBB]) ELSE c[RegFB]
           bb == IF ~wrote /\ moved THEN FBank(c[RegFB]) + EBank(c[RegEB]) ELSE c[RegBB]
<1>0. EBS \in Nat \ {0} /\ EBUNIT \in Int /\ 0 \in 0 .. EBS - 1
  BY MachineAssumption
<1>1. /\ c[RegEB] \in Int /\ c[RegFB] \in Int /\ c[RegBB] \in Int
      /\ cell[RegEB] \in Int /\ cell[RegFB] \in Int /\ cell[RegBB] \in Int
  BY DEF Banked, BankRegs
<1>2. /\ Banks(c)[RegEB] = EBank(eb) * EBUNIT
      /\ Banks(c)[RegFB] = FBank(fb)
      /\ Banks(c)[RegBB] = FBank(bb) + (bb % EBS)
  BY DEF Banks, Banked, Cells, Registers, RegA, RegEB, RegFB, RegBB, RegZERO
<1>3. \A b \in 0 .. EBS - 1 : EBank(b * EBUNIT) = b
  <2> SUFFICES ASSUME NEW b \in 0 .. EBS - 1 PROVE EBank(b * EBUNIT) = b
    OBVIOUS
  <2>1. (EBUNIT * b + 0) \div EBUNIT = b
    BY MachineAssumption, DivModUnique
  <2>2. (EBS * 0 + b) % EBS = b
    BY MachineAssumption, DivModUnique
  <2>3. EBUNIT * b + 0 = b * EBUNIT /\ EBS * 0 + b = b
    BY MachineAssumption
  <2> QED
    BY <2>1, <2>2, <2>3 DEF EBank
<1>4. eb \in Int /\ fb \in Int /\ EBank(eb) \in 0 .. EBS - 1 /\ FBank(fb) \in Int
      /\ FBank(FBank(fb) + EBank(eb)) = FBank(fb)
      /\ (FBank(fb) + EBank(eb)) % EBS = EBank(eb)
      /\ FBank(FBank(fb)) = FBank(fb)
  <2> USE <1>0
  <2>1. c[RegBB] % EBS \in 0 .. EBS - 1
    BY <1>1, DivMod
  <2>2. FBank(c[RegBB]) \in Int
    BY <1>1, FBankParts
  <2>3. eb \in Int
    BY <1>1, <2>1
  <2>4. fb \in Int
    BY <1>1, <2>2
  <2> HIDE DEF eb, fb
  <2>5. EBank(eb) \in 0 .. EBS - 1
    BY <2>3, EBankTwice
  <2>6. FBank(FBank(fb) + 0) = FBank(fb) /\ FBank(fb) \in Int
    BY <2>2, <2>4, FBankParts
  <2> QED
    BY <2>3, <2>4, <2>5, <2>6, FBankParts
<1>5. FBank(bb) = FBank(fb) /\ bb % EBS = EBank(eb)
  <2>1. CASE wrote
    <3>1. c[RegBB] % EBS \in 0 .. EBS - 1
      BY <1>1, MachineAssumption, DivMod
    <3>2. EBank(eb) = c[RegBB] % EBS
      BY <2>1, <3>1, <1>3
    <3>3. FBank(c[RegBB]) \in Int
      BY FBankParts, <1>0, <1>1
    <3>4. FBank(FBank(c[RegBB]) + 0) = FBank(c[RegBB])
      BY <3>3, <1>0, <1>1, FBankParts
    <3> QED
      BY <2>1, <3>2, <3>3, <3>4
  <2>2. CASE ~wrote /\ moved
    BY <2>2, <1>4
  <2>3. CASE ~wrote /\ ~moved
    <3>1. bb = FBank(fb) + EBank(eb)
      BY <2>3 DEF BanksAgree
    <3> QED
      BY <3>1, <1>4
  <2> QED
    BY <2>1, <2>2, <2>3
<1>6. EBank(EBank(eb) * EBUNIT) = EBank(eb)
  BY <1>3, <1>4
<1> HIDE DEF eb, fb, bb
<1> QED
  BY <1>2, <1>4, <1>5, <1>6

-----------------------------------------------------------------------------
(* The steps that instructions are made of.                                *)

\* Operations on 16 bits stay in 16 bits.
LEMMA WordTypes ==
  ASSUME NEW v \in Register, NEW w \in Register
  PROVE  /\ OverflowCorrected(v) \in Word
         /\ Corrected(v) \in Register
         /\ AddSP16(v, w) \in Register
         /\ Not(v) \in Register
BY HALFAssumption, SMT
   DEF Register, Word, OverflowCorrected, Corrected, SignExtend, IsNegative, AddSP16, Not

LEMMA ExtendedType ==
  ASSUME NEW w \in Word
  PROVE  SignExtend(w) \in Register
BY HALFAssumption, SMT DEF Register, Word, SignExtend, IsNegative

\* What the machine holds when an instruction begins.
LEMMA BeginRuns ==
  ASSUME TypeOK
  PROVE  /\ Running(Begin)
         /\ Begin.c \in [Cells -> Register]
         /\ \A p \in Cells : p >= REG16 => Begin.c[p] \in Word
         /\ \A p \in Cells : p # RegZ => Begin.c[p] = cell[p]
         /\ Begin.c[RegZ] = cell[RegZ] + 1
<1> DEFINE c == Begin.c
<1>1. c = [cell EXCEPT ![RegZ] = @ + 1] /\ Begin = [c |-> Begin.c, z |-> Begin.z, r |-> Begin.r]
  BY DEF Begin
<1>2. RegZ \in Cells /\ RegZ = 5
  BY DEF Cells, Registers, RegA, RegZERO, RegZ
<1>3. cell[RegZ] + 1 \in Word /\ cell[RegZ] + 1 \in Register
  BY HALFAssumption, MachineAssumption, SMT DEF TypeOK, Word, Register
<1>4. c = [p \in Cells |-> IF p = RegZ THEN cell[RegZ] + 1 ELSE cell[p]]
  BY <1>1, <1>2 DEF TypeOK
<1> HIDE DEF c
<1>5. c \in [Cells -> Register]
  BY <1>4, <1>3 DEF TypeOK
<1>6. \A p \in Cells : p >= REG16 => c[p] \in Word
  BY <1>4, <1>3, <1>2 DEF TypeOK
<1>7. Banked(c)
  BY <1>5, HALFAssumption DEF Banked, BankRegs, Register, Cells, Registers, RegEB, RegFB, RegBB, RegA, RegZERO
<1> QED
  BY <1>1, <1>2, <1>4, <1>5, <1>6, <1>7 DEF Running, c

\* Addresses are numbers.
LEMMA CellsAreNumbers == Cells \subseteq Int
BY MachineAssumption DEF Cells, Registers, RegA, RegZERO

LEMMA OperandType ==
  ASSUME TypeOK, NEW p \in Cells
  PROVE  Load(Begin, p) \in Register
BY BeginRuns, ExtendedType, MachineAssumption DEF Load, REG16, Cells, Registers, RegA, RegZERO

\* A register that is not a bank register takes any value.
LEMMA PutRuns ==
  ASSUME NEW m, Running(m), NEW p, NEW v, p \in BankRegs => v \in Int
  PROVE  Running(Put(m, p, v))
<1>1. Put(m, p, v) = [c |-> [m.c EXCEPT ![p] = v], z |-> m.z, r |-> m.r]
  BY DEF Put, Running
<1>2. [m.c EXCEPT ![p] = v] = [q \in Cells |-> IF q = p THEN v ELSE m.c[q]]
  BY DEF Running, Banked
<1>3. Banked([m.c EXCEPT ![p] = v])
  BY <1>2 DEF Running, Banked, BankRegs, Cells, Registers, RegEB, RegFB, RegBB, RegA, RegZERO
<1> QED
  BY <1>1, <1>3 DEF Running

LEMMA AssignRuns ==
  ASSUME NEW m, Running(m), NEW p, NEW w, p \in BankRegs => w \in Int
  PROVE  Running(Assign(m, p, w))
<1> DEFINE v == Edited(p, w)
           z == IF p = RegZ THEN w ELSE m.z
<1>1. p \in BankRegs => v \in Int
  BY DEF BankRegs, Edited, RegEB, RegFB, RegBB, RegCYR, RegSR, RegCYL, RegEDOP, RegZERO
<1> HIDE DEF v
<1>2. Running(Put(m, p, v))
  BY <1>1, PutRuns
<1>3. Assign(m, p, w) = [c |-> [m.c EXCEPT ![p] = v], z |-> z, r |-> m.r]
  <2>1. m = [c |-> m.c, z |-> m.z, r |-> m.r]
    BY DEF Running
  <2>2. Assign(m, p, w) = [m EXCEPT !.c[p] = v, !.z = IF p = RegZ THEN w ELSE @]
    BY DEF Assign, v
  <2> QED
    BY <2>1, <2>2
<1>4. Put(m, p, v).c = [m.c EXCEPT ![p] = v]
  BY DEF Put, Running
<1> QED
  BY <1>2, <1>3, <1>4 DEF Running

LEMMA StoreRuns ==
  ASSUME NEW m, Running(m), NEW p, NEW v \in Register
  PROVE  Running(Store(m, p, v))
<1>1. v \in Int /\ OverflowCorrected(v) \in Int
  BY WordTypes, HALFAssumption DEF Register, Word
<1> QED
  BY <1>1, PutRuns, AssignRuns DEF Store

LEMMA RewriteRuns ==
  ASSUME NEW m, Running(m), NEW p
  PROVE  Running(Rewrite(m, p)) /\ Running(RewriteEditing(m, p))
<1>1. p \in BankRegs => m.c[p] \in Int
  BY DEF Running, Banked
<1> QED
  BY <1>1, AssignRuns DEF Rewrite, RewriteEditing

\* NextZ is no bank register.
LEMMA SkipRuns ==
  ASSUME NEW m, Running(m), NEW z
  PROVE  Running([m EXCEPT !.z = z])
BY DEF Running

\* The end of an instruction leaves the banks in agreement.
LEMMA FinishAgrees ==
  ASSUME TypeOK, BanksAgree, NEW op, NEW k, NEW m, Running(m), Finish(op, k, m)
  PROVE  BanksAgree'
<1> DEFINE c == [m.c EXCEPT ![RegZERO] = AGC_P0, ![RegZ] = m.z % ZMOD, ![RegL] = Corrected(@)]
<1>1. c = [p \in Cells |-> IF p = RegZERO THEN AGC_P0 ELSE IF p = RegZ THEN m.z % ZMOD
                           ELSE IF p = RegL THEN Corrected(m.c[RegL]) ELSE m.c[p]]
  BY DEF Running, Banked, Cells, Registers, RegA, RegL, RegZ, RegZERO
<1>2. cell' = Banks(c)
  BY DEF Finish
<1> HIDE DEF c
<1>3. Banked(c)
  BY <1>1 DEF Running, Banked, BankRegs, RegEB, RegFB, RegBB, RegL, RegZ, RegZERO, Cells, Registers, RegA
<1>4. Banked(cell)
  BY HALFAssumption DEF TypeOK, Banked, BankRegs, Cells, Registers, RegA, RegEB, RegFB, RegBB, RegZERO, Register
<1> QED
  BY <1>2, <1>3, <1>4, BanksMakeAgree DEF BanksAgree

-----------------------------------------------------------------------------
(* Sixteen bits as integers.                                               *)

\* The integers of sixteen bits, and those of a word among them.
LEMMA ValueRange ==
  ASSUME NEW v \in Register
  PROVE  /\ Value(v) \in 1 - 2 * HALF .. 2 * HALF - 1
         /\ Value(Not(v)) = -Value(v)
BY HALFAssumption, SMT DEF Register, Value, Not

LEMMA WordRange ==
  ASSUME NEW w \in Word
  PROVE  /\ OverflowCorrected(SignExtend(w)) = w
         /\ Value(SignExtend(w)) \in 1 - HALF .. HALF - 1
BY HALFAssumption, SMT
   DEF Word, Value, Not, OverflowCorrected, SignExtend, IsNegative

\* AddSP16 adds, modulo Not(0) and exactly when the sum fits.
LEMMA SumAdds ==
  ASSUME NEW a \in Register, NEW b \in Register
  PROVE  Adds(Value(a), Value(b), Value(AddSP16(a, b)))
<1> DEFINE s == Value(AddSP16(a, b))
<1>1. s = Value(a) + Value(b) \/ s = Value(a) + Value(b) - Not(0)
      \/ s = Value(a) + Value(b) + Not(0)
  BY HALFAssumption, SMT DEF Register, Value, Not, AddSP16
<1>2. Value(a) + Value(b) \in 1 - 2 * HALF .. 2 * HALF - 1 => s = Value(a) + Value(b)
  BY HALFAssumption, SMT DEF Register, Value, Not, AddSP16
<1>3. Value(a) \in Int /\ Value(b) \in Int /\ Not(0) \in Int
  BY HALFAssumption, SMT DEF Register, Value, Not
<1>4. \E lap \in {-1, 0, 1} : s = Value(a) + Value(b) - lap * Not(0)
  <2> HIDE DEF s
  <2> QED
    BY <1>1, <1>3
<1> QED
  BY <1>2, <1>4 DEF Adds

\* What overflows a word is what the carry stands for.
LEMMA CarryIsOverflow ==
  ASSUME NEW v \in Register
  PROVE  /\ Value(Carry(v)) = IF Value(v) >= HALF THEN 1 ELSE IF Value(v) <= -HALF THEN -1 ELSE 0
         /\ Value(v) >= HALF => Value(Corrected(v)) = Value(v) - HALF
         /\ Value(v) <= -HALF => Value(Corrected(v)) = Value(v) + HALF
         /\ Value(v) < HALF /\ Value(v) > -HALF => Value(Corrected(v)) = Value(v)
         /\ ValueOverflowed(v) = AGC_P1 <=> Value(v) >= HALF
         /\ ValueOverflowed(v) = AGC_P0 <=> Value(v) < HALF /\ Value(v) > -HALF
BY HALFAssumption, DigitsAssumption, SMT
   DEF Register, Value, Not, Carry, ValueOverflowed, Corrected, OverflowCorrected, SignExtend,
       IsNegative, AGC_P0, AGC_P1, AGC_M1

-----------------------------------------------------------------------------
(* Words and double words as integers.                                     *)

\* The integer of a word, and the words of an integer.
LEMMA WordAsInteger ==
  ASSUME NEW w \in Word
  PROVE  /\ agc2cpu(w) = Value(SignExtend(w))
         /\ IsZero(w) <=> Value(SignExtend(w)) = 0
<1>1. CASE w < HALF
  <2>1. w \in 0 .. HALF - 1 /\ HALF * 0 + w = w /\ HALF \in Nat \ {0}
    BY <1>1, HALFAssumption DEF Word
  <2>2. w % HALF = w /\ w \div HALF = 0
    BY <2>1, DivModUnique
  <2>3. agc2cpu(w) = w
    BY <2>2 DEF agc2cpu, SignBit
  <2> QED
    BY <1>1, <2>1, <2>3, HALFAssumption, SMT
       DEF SignExtend, IsNegative, Value, Not, IsZero, AGC_P0, AGC_M0
<1>2. CASE w >= HALF
  <2>1. w - HALF \in 0 .. HALF - 1 /\ HALF * 1 + (w - HALF) = w /\ HALF \in Nat \ {0}
    BY <1>2, HALFAssumption DEF Word
  <2>2. w % HALF = w - HALF /\ w \div HALF = 1
    BY <2>1, DivModUnique, SMTT(30)
  <2>3. agc2cpu(w) = w - HALF - (HALF - 1)
    BY <2>2 DEF agc2cpu, SignBit
  <2> QED
    BY <1>2, <2>1, <2>3, HALFAssumption, SMT
       DEF SignExtend, IsNegative, Value, Not, IsZero, AGC_P0, AGC_M0, Word
<1> QED
  BY <1>1, <1>2, HALFAssumption DEF Word

\* Factors of one word have a product of two.
LEMMA ProductFits ==
  ASSUME NEW i \in 0 .. HALF - 1, NEW j \in 0 .. HALF - 1
  PROVE  i * j \in 0 .. HALF * HALF - 1
<1>1. HALF - 1 \in Nat /\ i <= HALF - 1 /\ j <= HALF - 1 /\ i \in Nat /\ j \in Nat /\ HALF \in Nat /\ HALF >= 1
  BY HALFAssumption
<1>2. i * j >= 0
  BY <1>1
<1>3. i * j <= (HALF - 1) * j
  BY <1>1
<1>4. (HALF - 1) * j <= (HALF - 1) * (HALF - 1)
  BY <1>1
<1>5. (HALF - 1) * (HALF - 1) < HALF * HALF
  BY <1>1
<1> QED
  BY <1>1, <1>2, <1>3, <1>4, <1>5

\* A double word of two digits, in each sign, as words and as an integer.
LEMMA DecentDigits ==
  ASSUME NEW q \in 0 .. HALF - 1, NEW r \in 0 .. HALF - 1
  PROVE  LET n == HALF * q + r
             d == 4 * HALF * HALF - 1 - n
         IN  /\ DecentToSp(n) = <<q, r>> /\ agc2cpu2(n) = n
             /\ DecentToSp(d) = <<2 * HALF - 1 - q, 2 * HALF - 1 - r>> /\ agc2cpu2(d) = -n
<1> DEFINE S == HALF * HALF
           n == HALF * q + r
           d == 4 * HALF * HALF - 1 - n
           h == 4 * HALF - 1 - q
           F == 4 * HALF
<1>1. HALF \in Nat \ {0} /\ S \in Nat \ {0} /\ HALF * q \in Nat /\ 4 * HALF * HALF = 4 * S
      /\ 2 * HALF * HALF = 2 * S /\ F \in Nat \ {0} /\ q \in Int
  BY HALFAssumption
<1>2. n \in 0 .. S - 1
  <2>1. HALF * q <= HALF * (HALF - 1)
    BY <1>1
  <2>2. HALF * (HALF - 1) = S - HALF
    BY <1>1
  <2> HIDE DEF S
  <2> QED BY <2>1, <2>2, <1>1
<1>3. n % HALF = r /\ n \div HALF = q
  BY <1>1, DivModUnique
<1>4. d = HALF * h + (HALF - 1 - r)
  <2>1. HALF * h = 4 * S - HALF - HALF * q
    BY <1>1
  <2> HIDE DEF S
  <2> QED BY <1>1, <2>1
<1>5. d % HALF = HALF - 1 - r /\ d \div HALF = h
  <2> DEFINE t == HALF - 1 - r
  <2>1. t \in 0 .. HALF - 1 /\ h \in Int
    BY <1>1
  <2> HIDE DEF t, h
  <2>2. (HALF * h + t) % HALF = t /\ (HALF * h + t) \div HALF = h
    BY <1>1, <2>1, DivModUnique
  <2> HIDE DEF d
  <2> QED BY <1>4, <2>2 DEF t
<1>6. q % (4 * HALF) = q /\ h % (4 * HALF) = h
  <2>1. q \in 0 .. F - 1 /\ h \in 0 .. F - 1 /\ F * 0 + q = q /\ F * 0 + h = h
    BY <1>1
  <2> HIDE DEF F, h
  <2>2. q % F = q /\ h % F = h
    BY <1>1, <2>1, ModUnique
  <2> QED BY <2>2 DEF F
<1>7. OverflowCorrected(q) = q /\ OverflowCorrected(h) = 2 * HALF - 1 - q
  BY <1>1 DEF OverflowCorrected
<1> DEFINE T == S - 1 - n
<1> HIDE DEF S, n, d, h, F
<1>8. ~(n >= 2 * HALF * HALF) /\ d >= 2 * HALF * HALF /\ d = S * 3 + T
      /\ T \in 0 .. S - 1 /\ S * 0 + n = n
  BY <1>1, <1>2 DEF d
<1>9. DecentToSp(n) = <<q, r>>
  <2>1. r + 0 = r
    OBVIOUS
  <2> QED BY <2>1, <1>3, <1>6, <1>7, <1>8 DEF DecentToSp
<1>10. DecentToSp(d) = <<2 * HALF - 1 - q, 2 * HALF - 1 - r>>
  <2>1. (HALF - 1 - r) + HALF = 2 * HALF - 1 - r
    BY <1>1
  <2> QED BY <2>1, <1>5, <1>6, <1>7, <1>8 DEF DecentToSp
<1>11. n % S = n /\ n \div S = 0 /\ d % S = T /\ d \div S = 3
  <2> HIDE DEF T
  <2>1. n % S = n /\ n \div S = 0
    BY <1>1, <1>2, <1>8, DivModUnique
  <2>2. (S * 3 + T) % S = T /\ (S * 3 + T) \div S = 3
    BY <1>1, <1>8, DivModUnique
  <2> QED BY <2>1, <2>2, <1>8
<1>12. 0 % 2 = 0 /\ 3 % 2 = 1
  OBVIOUS
<1>13. agc2cpu2(n) = n
  BY <1>11, <1>12 DEF agc2cpu2, S
<1>14. agc2cpu2(d) = -n
  <2>1. agc2cpu2(d) = T - (S - 1)
    BY <1>11, <1>12 DEF agc2cpu2, S
  <2> QED BY <2>1, <1>1, <1>2
<1> QED BY <1>9, <1>10, <1>13, <1>14 DEF n, d

\* The two words of a double integer: their magnitudes are its quotient and
\* remainder by HALF, and both have its sign.
LEMMA DoubleWords ==
  ASSUME NEW n \in 0 .. HALF * HALF - 1
  PROVE  LET q == n \div HALF
             r == n % HALF
         IN  /\ q \in 0 .. HALF - 1 /\ r \in 0 .. HALF - 1 /\ n = HALF * q + r
             /\ DecentToSp(Extended(cpu2agc2(n))) = <<q, r>>
             /\ n > 0 => DecentToSp(Extended(cpu2agc2(-n))) = <<2 * HALF - 1 - q, 2 * HALF - 1 - r>>
<1> DEFINE q == n \div HALF
           r == n % HALF
           S == HALF * HALF
<1>1. HALF \in Nat \ {0} /\ S \in Nat \ {0} /\ n \in Nat /\ n < S
  BY HALFAssumption
<1>2. q \in Int /\ r \in 0 .. HALF - 1 /\ n = HALF * q + r
  BY <1>1, DivMod
<1> HIDE DEF q, r
<1>3. q \in 0 .. HALF - 1
  <2>1. q >= 0
    <3>1. CASE q <= -1
      <4>1. HALF * q <= -HALF
        BY <1>1, <1>2, <3>1
      <4> QED
        BY <4>1, <1>1, <1>2
    <3> QED
      BY <3>1, <1>2
  <2>2. q < HALF
    <3>1. CASE q >= HALF
      <4>1. HALF * q >= S
        BY <1>1, <1>2, <3>1
      <4> QED
        BY <4>1, <1>1, <1>2
    <3> QED
      BY <3>1, <1>1, <1>2
  <2> QED
    BY <2>1, <2>2, <1>1, <1>2
<1>4. n % S = n
  <2>1. S * 0 + n = n /\ n \in 0 .. S - 1
    BY <1>1
  <2> QED
    BY <1>1, <2>1, ModUnique
<1>5. /\ DecentToSp(n) = <<q, r>>
      /\ DecentToSp(4 * HALF * HALF - 1 - n) = <<2 * HALF - 1 - q, 2 * HALF - 1 - r>>
  BY <1>2, <1>3, DecentDigits
<1>6. Extended(cpu2agc2(n)) = n
  BY <1>1, <1>4 DEF Extended, cpu2agc2
<1>7. n > 0 => Extended(cpu2agc2(-n)) = 4 * HALF * HALF - 1 - n
  <2> SUFFICES ASSUME n > 0 PROVE Extended(cpu2agc2(-n)) = 4 * HALF * HALF - 1 - n
    OBVIOUS
  <2>1. -n < 0 /\ -(-n) = n
    BY <1>1
  <2>2. cpu2agc2(-n) = 2 * HALF * HALF - 1 - n
    BY <2>1, <1>4 DEF cpu2agc2
  <2>3. 2 * HALF * HALF - 1 - n >= HALF * HALF
    BY <1>1
  <2>4. 2 * HALF * HALF - 1 - n + 2 * HALF * HALF = 4 * HALF * HALF - 1 - n
    BY <1>1
  <2> QED BY <2>2, <2>3, <2>4 DEF Extended
<1> QED
  BY <1>2, <1>3, <1>5, <1>6, <1>7 DEF q, r

\* The magnitude of a word is a digit, in both signs.
LEMMA SignedDigits ==
  ASSUME NEW q \in 0 .. HALF - 1
  PROVE  /\ q \in Word /\ 2 * HALF - 1 - q \in Word
         /\ Value(SignExtend(q)) = q
         /\ Value(SignExtend(2 * HALF - 1 - q)) = -q
         /\ Corrected(SignExtend(q)) = SignExtend(q)
         /\ Corrected(SignExtend(2 * HALF - 1 - q)) = SignExtend(2 * HALF - 1 - q)
BY HALFAssumption, SMT
   DEF Word, SignExtend, IsNegative, Value, Not, Corrected, OverflowCorrected

\* The number that a product leaves in A and L.
ProductIs(p, n) ==
  /\ p[1] \in Word /\ p[2] \in Word
  /\ Value(SignExtend(p[1])) * HALF + Value(SignExtend(p[2])) = n
  /\ Value(SignExtend(p[1])) * Value(SignExtend(p[2])) >= 0
  /\ Corrected(SignExtend(p[2])) = SignExtend(p[2])

\* A double integer survives its way into two words.
LEMMA IntegerToWords ==
  ASSUME NEW n \in Int, n < HALF * HALF, n > -(HALF * HALF)
  PROVE  ProductIs(DecentToSp(Extended(cpu2agc2(n))), n)
<1>1. HALF \in Nat
  BY HALFAssumption
<1>2. CASE n >= 0
  <2> DEFINE q == n \div HALF
             r == n % HALF
  <2>1. n \in 0 .. HALF * HALF - 1
    BY <1>1, <1>2
  <2>2. /\ q \in 0 .. HALF - 1 /\ r \in 0 .. HALF - 1 /\ n = HALF * q + r
        /\ DecentToSp(Extended(cpu2agc2(n))) = <<q, r>>
    BY <2>1, DoubleWords
  <2> HIDE DEF q, r
  <2>3. q * HALF + r = n /\ q * r >= 0
    BY <1>1, <2>2
  <2> QED
    BY <2>2, <2>3, SignedDigits DEF ProductIs
<1>3. CASE n < 0
  <2> DEFINE N == -n
             q == N \div HALF
             r == N % HALF
  <2>1. N \in 0 .. HALF * HALF - 1 /\ N > 0 /\ -N = n
    BY <1>1, <1>3
  <2> HIDE DEF N
  <2>2. /\ q \in 0 .. HALF - 1 /\ r \in 0 .. HALF - 1 /\ N = HALF * q + r
        /\ DecentToSp(Extended(cpu2agc2(-N))) = <<2 * HALF - 1 - q, 2 * HALF - 1 - r>>
    BY <2>1, DoubleWords
  <2> HIDE DEF q, r
  <2>3. (-q) * HALF + (-r) = -N /\ (-q) * (-r) >= 0
    BY <1>1, <2>2
  <2> QED
    BY <2>1, <2>2, <2>3, SignedDigits DEF ProductIs
<1> QED
  BY <1>2, <1>3

\* Product multiplies the integers of two words.
LEMMA ProductOfWords ==
  ASSUME NEW a \in Word, NEW k \in Word
  PROVE  ProductIs(Product(a, k), Value(SignExtend(a)) * Value(SignExtend(k)))
<1> DEFINE x == Value(SignExtend(a))
           y == Value(SignExtend(k))
<1>1. x \in 1 - HALF .. HALF - 1 /\ y \in 1 - HALF .. HALF - 1
      /\ agc2cpu(a) = x /\ agc2cpu(k) = y
      /\ (IsZero(a) <=> x = 0) /\ (IsZero(k) <=> y = 0)
  BY WordRange, WordAsInteger
<1> HIDE DEF x, y
<1>2. x \in Int /\ y \in Int /\ HALF \in Nat /\ HALF >= 1 /\ x * 0 = 0 /\ 0 * y = 0
  BY <1>1, HALFAssumption
<1>3. ProductIs(<<AGC_P0, AGC_P0>>, 0) /\ ProductIs(<<AGC_M0, AGC_M0>>, 0)
  <2>1. 0 * HALF + 0 = 0 /\ 0 * 0 >= 0
    BY <1>2
  <2>2. \A w \in {AGC_P0, AGC_M0} :
          w \in Word /\ Value(SignExtend(w)) = 0 /\ Corrected(SignExtend(w)) = SignExtend(w)
    BY HALFAssumption, SMT
       DEF AGC_P0, AGC_M0, Word, SignExtend, IsNegative, Value, Not, Corrected, OverflowCorrected
  <2> QED
    BY <2>1, <2>2 DEF ProductIs
<1>4. CASE IsZero(k)
  <2>1. x * y = 0
    BY <1>1, <1>2, <1>4
  <2> QED
    BY <2>1, <1>3, <1>4 DEF Product, x, y
<1>5. CASE ~IsZero(k) /\ IsZero(a)
  <2>1. x * y = 0
    BY <1>1, <1>2, <1>5
  <2> QED
    BY <2>1, <1>3, <1>5 DEF Product, x, y
<1>6. CASE ~IsZero(k) /\ ~IsZero(a)
  <2> DEFINE i == IF x < 0 THEN -x ELSE x
             j == IF y < 0 THEN -y ELSE y
  <2>1. i \in 0 .. HALF - 1 /\ j \in 0 .. HALF - 1
    BY <1>1, <1>2
  <2>2. i * j \in 0 .. HALF * HALF - 1
    BY <2>1, ProductFits
  <2>3. x * y = i * j \/ x * y = -(i * j)
    BY <1>2
  <2>4. i * j \in Int /\ i * j < HALF * HALF /\ i * j >= 0 /\ x * y \in Int /\ HALF * HALF \in Int
    BY <1>2, <2>1, <2>2
  <2> HIDE DEF i, j
  <2>5. x * y < HALF * HALF /\ x * y > -(HALF * HALF)
    BY <2>3, <2>4
  <2>6. ProductIs(DecentToSp(Extended(cpu2agc2(x * y))), x * y)
    BY <2>4, <2>5, IntegerToWords
  <2> QED
    BY <2>6, <1>1, <1>6 DEF Product, x, y
<1> QED
  BY <1>4, <1>5, <1>6

-----------------------------------------------------------------------------
(* Quotients stay in their registers.                                      *)

\* The bits of a register, and its shift.
LEMMA RegisterParts ==
  ASSUME NEW v \in Register
  PROVE  /\ HighBit(v) \in {0, 1} /\ (HighBit(v) = 1 <=> v >= 2 * HALF)
         /\ v % (2 * HALF) \in 0 .. 2 * HALF - 1
         /\ Shifted(v) \in 0 .. 4 * HALF - 2
         /\ (2 * v) % (4 * HALF) \in 0 .. 4 * HALF - 2
<1> DEFINE W == 2 * HALF
           b == v \div W
           r == v % W
<1>1. W \in Nat \ {0} /\ HALF \in Nat \ {0} /\ v \in Int /\ v >= 0 /\ v < 2 * W
  BY HALFAssumption DEF Register
<1>2. b \in Int /\ r \in 0 .. W - 1 /\ v = W * b + r
  BY <1>1, DivMod
<1>3. b \in {0, 1}
  <2>1. CASE b <= -1
    <3>1. W * b <= -W
      BY <1>1, <1>2, <2>1
    <3> QED
      BY <3>1, <1>1, <1>2
  <2>2. CASE b >= 2
    <3>1. W * b >= 2 * W
      BY <1>1, <1>2, <2>2
    <3> QED
      BY <3>1, <1>1, <1>2
  <2> QED
    BY <2>1, <2>2, <1>2
<1>4. b = 1 <=> v >= W
  BY <1>1, <1>2, <1>3
<1>5. v % HALF \in 0 .. HALF - 1
  BY <1>1, DivMod
<1>6. (2 * v) % (4 * HALF) = 2 * r
  <2>1. 4 * HALF \in Nat \ {0} /\ 4 * HALF = 2 * W
    BY <1>1
  <2>2. 2 * r \in 0 .. 4 * HALF - 1
    <3> HIDE DEF W, r
    <3> QED
      BY <1>1, <1>2, <2>1
  <2>3. 2 * v = (4 * HALF) * b + 2 * r
    <3>1. CASE b = 0
      <4> HIDE DEF W, r, b
      <4> QED
        BY <3>1, <1>1, <1>2, <2>1
    <3>2. CASE b = 1
      <4> HIDE DEF W, r, b
      <4> QED
        BY <3>2, <1>1, <1>2, <2>1
    <3> QED
      BY <3>1, <3>2, <1>3
  <2> HIDE DEF r, b
  <2>4. ((4 * HALF) * b + 2 * r) % (4 * HALF) = 2 * r
    BY <2>1, <2>2, <1>2, ModUnique
  <2> QED
    BY <2>3, <2>4
<1>7. HighBit(v) = b
  BY DEF HighBit
<1>8. b * 2 * HALF + 2 * (v % HALF) \in 0 .. 4 * HALF - 2
  BY <1>1, <1>3, <1>5
<1>9. Shifted(v) \in 0 .. 4 * HALF - 2
  BY <1>7, <1>8 DEF Shifted
<1> HIDE DEF b, r
<1>10. r \in 0 .. 2 * HALF - 1 /\ 2 * r \in 0 .. 4 * HALF - 2 /\ (b = 1 <=> v >= 2 * HALF)
  BY <1>1, <1>2, <1>4
<1> QED
  BY <1>3, <1>6, <1>7, <1>9, <1>10 DEF r

\* A step of the hardware's division keeps to its registers.
LEMMA StepType ==
  ASSUME NEW s \in [q : Register, r : Register], NEW divisor \in Register
  PROVE  DvStep(s, divisor) \in [q : Register, r : Register]
<1> DEFINE q == (2 * s.q) % (4 * HALF)
           r == Shifted(s.r) + (IF HighBit(q) = 0 THEN HighBit(s.r) ELSE 0)
           sum == AddSP16(r, divisor)
<1>1. HALF \in Nat /\ Register = 0 .. 4 * HALF - 1
  BY HALFAssumption DEF Register
<1>2. s.q \in Register /\ s.r \in Register
  OBVIOUS
<1>3. q \in 0 .. 4 * HALF - 2
  BY <1>2, RegisterParts
<1>4. Shifted(s.r) \in 0 .. 4 * HALF - 2 /\ HighBit(s.r) \in {0, 1}
  BY <1>2, RegisterParts
<1> HIDE DEF q
<1>5. r \in Register /\ q \in Register /\ q + 1 \in Register
  BY <1>1, <1>3, <1>4
<1> HIDE DEF r
<1>6. sum \in Register
  BY <1>5, WordTypes
<1> HIDE DEF sum
<1>7. DvStep(s, divisor) = IF HighBit(sum) = 1 THEN [q |-> q + 1, r |-> sum] ELSE [q |-> q, r |-> r]
  BY DEF DvStep, q, r, sum
<1> QED
  BY <1>5, <1>6, <1>7

LEMMA SimulateDVType ==
  ASSUME NEW a16 \in Register, NEW l16 \in Register, NEW divisor \in Register
  PROVE  /\ SimulateDV(a16, l16, divisor)[1] \in Register
         /\ SimulateDV(a16, l16, divisor)[2] \in Register
<1> DEFINE a == IF HighBit(a16) = 0 THEN Not(a16) ELSE a16
           dividendSign == IF a = 4 * HALF - 1 THEN HighBit(l16) ELSE HighBit(a16)
           l == AddSP16(IF dividendSign = 1 THEN Not(l16) ELSE l16, HALF)
           d == IF HighBit(divisor) = 1 THEN Not(divisor) ELSE divisor
           start == [q |-> Shifted(l) + HighBit(l),
                     r |-> IF ValueOverflowed(l) # AGC_P1 THEN AddSP16(a, 1) ELSE a]
           end == DvSteps(start, d)
           quotient == HighBit(l) * 2 * HALF + (end.q % (2 * HALF))
<1>1. HALF \in Nat /\ Register = 0 .. 4 * HALF - 1 /\ HALF \in Register /\ 1 \in Register
  BY HALFAssumption DEF Register
<1>2. a \in Register /\ d \in Register
  BY WordTypes
<1>3. l \in Register
  BY <1>1, WordTypes
<1>4. Not(l16) \in Register /\ Not(divisor) \in Register
  BY WordTypes
<1> HIDE DEF a, l, d
<1>5. start \in [q : Register, r : Register]
  <2>1. Shifted(l) \in 0 .. 4 * HALF - 2 /\ HighBit(l) \in {0, 1}
    BY <1>3, RegisterParts
  <2>2. Shifted(l) + HighBit(l) \in Register
    BY <2>1, <1>1
  <2>3. AddSP16(a, 1) \in Register
    BY <1>1, <1>2, WordTypes
  <2> QED
    BY <2>2, <2>3, <1>2
<1> HIDE DEF start
<1>6. end \in [q : Register, r : Register]
  <2>1. \A s \in [q : Register, r : Register] : DvStep(s, d) \in [q : Register, r : Register]
    BY <1>2, StepType
  <2> QED
    BY <2>1, <1>5, StepsType
<1> HIDE DEF end
<1>7. quotient \in Register /\ Not(quotient) \in Register
  <2>1. end.q % (2 * HALF) \in 0 .. 2 * HALF - 1 /\ HighBit(l) \in {0, 1}
    BY <1>3, <1>6, RegisterParts
  <2>2. quotient \in Register
    BY <2>1, <1>1
  <2> HIDE DEF quotient
  <2> QED
    BY <2>2, WordTypes
<1>8. end.r \in Register /\ Not(end.r) \in Register
  BY <1>6, WordTypes
<1> HIDE DEF quotient
<1>9. SimulateDV(a16, l16, divisor) =
        <<IF dividendSign # HighBit(divisor) THEN Not(quotient) ELSE quotient,
          IF dividendSign = 1 THEN end.r ELSE Not(end.r)>>
  BY DEF SimulateDV, a, l, d, start, end, quotient
<1> HIDE DEF dividendSign
<1> QED
  BY <1>7, <1>8, <1>9

\* A double word is a number, and its parts are words.
LEMMA DecentType ==
  ASSUME NEW msb \in Int, NEW lsb \in Int
  PROVE  SpToDecent(msb, lsb) \in Int
<1>1. HALF \in Nat \ {0} /\ 2 * HALF \in Nat \ {0} /\ HALF * HALF \in Nat
  BY HALFAssumption
<1>2. \A n \in Int : n % HALF \in Int /\ n % (2 * HALF) \in Int
  BY <1>1, DivMod
<1>3. \A m, n \in Int : Juxtaposed(m, n) \in Int
  <2> SUFFICES ASSUME NEW m \in Int, NEW n \in Int PROVE Juxtaposed(m, n) \in Int
    OBVIOUS
  <2>1. n % HALF \in Int /\ m * HALF \in Int /\ 2 * HALF * HALF \in Int
    BY <1>1, <1>2
  <2> QED
    BY <2>1 DEF Juxtaposed, Extended
<1>4. \A n \in Int : NegateSP(n) \in Int
  BY <1>1 DEF NegateSP, AGC_M0
<1>5. \A m, n \in Int : Borrowed(m, n)[1] \in Int /\ Borrowed(m, n)[2] \in Int
  <2> SUFFICES ASSUME NEW m \in Int, NEW n \in Int
               PROVE  Borrowed(m, n)[1] \in Int /\ Borrowed(m, n)[2] \in Int
    OBVIOUS
  <2>1. n + HALF + 1 \in Int
    BY <1>1
  <2>2. (n + HALF + 1) % (2 * HALF) \in Int
    BY <1>2, <2>1
  <2> QED
    BY <2>2 DEF Borrowed
<1>6. AGC_M0 \in Int /\ AGC_P0 \in Int
  BY <1>1 DEF AGC_M0, AGC_P0
<1>7. CASE IsZero(msb)
  <2> DEFINE v == SignExtend(lsb % (2 * HALF))
  <2>1. v \in Int
    BY <1>1, <1>2 DEF SignExtend
  <2>2. 4 * HALF * HALF \in Int
    BY <1>1
  <2> HIDE DEF v
  <2>3. (IF v >= 2 * HALF THEN v + 4 * HALF * HALF - 4 * HALF ELSE v) \in Int
    BY <2>1, <2>2, <1>1
  <2> QED
    BY <2>3, <1>7 DEF SpToDecent, v
<1>8. CASE ~IsZero(msb)
  <2>1. Juxtaposed(msb, lsb) \in Int /\ Juxtaposed(msb, AGC_M0) \in Int /\ Juxtaposed(msb, AGC_P0) \in Int
    BY <1>3, <1>6
  <2> DEFINE p == Borrowed(NegateSP(msb), NegateSP(lsb % (2 * HALF)))
             q == Borrowed(msb, lsb)
  <2>2. p[1] \in Int /\ p[2] \in Int /\ q[1] \in Int /\ q[2] \in Int
    BY <1>2, <1>4, <1>5
  <2> HIDE DEF p, q
  <2>3. Juxtaposed(NegateSP(p[1]), NegateSP(p[2])) \in Int /\ Juxtaposed(q[1], q[2]) \in Int
    BY <2>2, <1>3, <1>4
  <2>4. SpToDecent(msb, lsb) \in {Juxtaposed(msb, lsb), Juxtaposed(msb, AGC_M0), Juxtaposed(msb, AGC_P0),
                                  Juxtaposed(NegateSP(p[1]), NegateSP(p[2])), Juxtaposed(q[1], q[2])}
    BY <1>8 DEF SpToDecent, p, q
  <2> QED
    BY <2>1, <2>3, <2>4
<1> QED
  BY <1>7, <1>8

LEMMA DecentWords ==
  ASSUME NEW d \in Int
  PROVE  DecentToSp(d)[1] \in Word
<1>1. HALF \in Nat \ {0} /\ 4 * HALF \in Nat \ {0}
  BY HALFAssumption
<1>2. d \div HALF \in Int
  BY <1>1, DivMod
<1>3. (d \div HALF) % (4 * HALF) \in 0 .. 4 * HALF - 1
  BY <1>1, <1>2, DivMod
<1> QED
  BY <1>3, WordTypes DEF DecentToSp, Register

\* An integer as a word.
LEMMA IntegerWord ==
  ASSUME NEW n \in Int
  PROVE  cpu2agc(n) \in Word
<1>1. 2 * HALF \in Nat \ {0} /\ -n \in Int
  BY HALFAssumption
<1>2. n % (2 * HALF) \in 0 .. 2 * HALF - 1 /\ (-n) % (2 * HALF) \in 0 .. 2 * HALF - 1
  BY <1>1, DivMod
<1> QED
  BY <1>1, <1>2 DEF cpu2agc, Word

LEMMA TruncatedType ==
  ASSUME NEW n \in Int, NEW d \in Int \ {0}
  PROVE  Truncated(n, d) \in Int
<1> DEFINE i == IF n < 0 THEN -n ELSE n
           j == IF d < 0 THEN -d ELSE d
<1>1. i \in Int /\ j \in Nat \ {0}
  OBVIOUS
<1> HIDE DEF i, j
<1>2. i \div j \in Int
  BY <1>1, DivMod
<1> QED
  BY <1>2 DEF Truncated, i, j

\* DV leaves sixteen bits in A and in L, whatever it divides by what.
LEMMA QuotientType ==
  ASSUME NEW a16 \in Register, NEW l16 \in Register, NEW div16 \in Register
  PROVE  Quotient(a16, l16, div16)[1] \in Register /\ Quotient(a16, l16, div16)[2] \in Register
<1> DEFINE decent == SpToDecent(OverflowCorrected(a16), l16)
           pair == DecentToSp(decent)
           k == OverflowCorrected(div16)
           absA == AbsSP(pair[1])
           absL == AbsSP(pair[2])
           absK == AbsSP(k)
           dividend == agc2cpu2(decent)
           divisor == agc2cpu(k)
           remainder == dividend - divisor * Truncated(dividend, divisor)
<1>0. HALF \in Nat \ {0} /\ Register = 0 .. 4 * HALF - 1 /\ Word = 0 .. 2 * HALF - 1
  BY HALFAssumption DEF Register, Word
<1>1. decent \in Int
  <2>1. OverflowCorrected(a16) \in Word
    BY WordTypes
  <2>2. OverflowCorrected(a16) \in Int /\ l16 \in Int
    BY <1>0, <2>1
  <2> QED
    BY <2>2, DecentType
<1> HIDE DEF decent
<1>2. pair[1] \in Word /\ k \in Word
  BY <1>1, WordTypes, DecentWords
<1>3. dividend \in Int
  <2> DEFINE S == HALF * HALF
  <2>1. S \in Nat \ {0}
    BY <1>0
  <2> HIDE DEF S
  <2>2. decent % S \in Int
    BY <1>1, <2>1, DivMod
  <2>3. (decent % S) - (S - 1) \in Int
    BY <2>1, <2>2
  <2> QED
    BY <2>2, <2>3 DEF agc2cpu2, S
<1> DEFINE simulated == SimulateDV(a16, l16, div16)
           small == <<SignExtend(IF SignBit(l16) = SignBit(k)
                                 THEN IF absK = 0 THEN Largest ELSE AGC_P0
                                 ELSE IF absK = 0 THEN Smallest ELSE AGC_M0), l16>>
           equal == <<SignExtend(IF pair[1] = k THEN Largest ELSE Smallest), SignExtend(pair[1])>>
           plain == <<SignExtend(cpu2agc(Truncated(dividend, divisor))),
                      IF remainder # 0 THEN SignExtend(cpu2agc(remainder))
                      ELSE IF dividend >= 0 THEN AGC_P0 ELSE SignExtend(AGC_M0)>>
           beyond == absA > absK \/ (absA = absK /\ absL # AGC_P0) \/ ValueOverflowed(div16) # AGC_P0
<1>4. Largest \in Word /\ Smallest \in Word /\ AGC_P0 \in Word /\ AGC_M0 \in Word
      /\ AGC_P0 \in Register
  BY <1>0 DEF Largest, Smallest, AGC_P0, AGC_M0
<1>5. simulated[1] \in Register /\ simulated[2] \in Register
  BY SimulateDVType
<1>6. small[1] \in Register /\ small[2] \in Register
  BY <1>4, ExtendedType
<1>7. equal[1] \in Register /\ equal[2] \in Register
  BY <1>2, <1>4, ExtendedType
<1>8. ASSUME ~beyond, absA # absK PROVE plain[1] \in Register /\ plain[2] \in Register
  <2>1. absA \in Nat /\ absK \in Nat
    BY <1>0, <1>2 DEF AbsSP, NegateSP, IsNegative, AGC_M0
  <2>2. absK # 0
    BY <2>1, <1>8
  <2>3. ~IsZero(k)
    BY <2>2, <1>0 DEF AbsSP, NegateSP, IsNegative, IsZero, AGC_P0, AGC_M0
  <2>4. divisor \in Int \ {0}
    BY <2>3, <1>2, WordAsInteger, WordRange
  <2> HIDE DEF divisor, dividend
  <2>5. Truncated(dividend, divisor) \in Int
    BY <2>4, <1>3, TruncatedType
  <2>6. remainder \in Int
    BY <2>4, <2>5, <1>3
  <2> HIDE DEF remainder
  <2> QED
    BY <2>5, <2>6, <1>4, IntegerWord, ExtendedType
<1>9. Quotient(a16, l16, div16) = IF beyond THEN simulated
                                  ELSE IF absA = 0 /\ absL = 0 THEN small
                                  ELSE IF absA = absK THEN equal ELSE plain
  BY DEF Quotient, decent
<1> HIDE DEF simulated, small, equal, plain, beyond, absA, absK, absL
<1> QED
  BY <1>5, <1>6, <1>7, <1>8, <1>9

-----------------------------------------------------------------------------
(* The hardware's division and the code's divide integers.                 *)

\* A step of the hardware's division: the next digit of the quotient is 1 if
\* the divisor can be taken away.
Steps(s, d, q, rest) ==
  DvStep(s, d) = IF rest >= d THEN [q |-> q + 1, r |-> Not(rest - d)] ELSE [q |-> q, r |-> Not(rest)]

\* A step brings in the next digit e of the dividend below the remainder R.
LEMMA StepDivides ==
  ASSUME NEW d \in 0 .. HALF - 1, NEW b \in {0, 1}, NEW e \in {0, 1}, NEW R \in 0 .. d,
         NEW u \in 0 .. 2 * HALF - 1, NEW s, 2 * s.q = (4 * HALF) * b + (2 * HALF * e + u), s.r = Not(R)
  PROVE  Steps(s, d, 2 * HALF * e + u, 2 * R + e)
<1> DEFINE q == (2 * s.q) % (4 * HALF)
           r == Shifted(s.r) + (IF HighBit(q) = 0 THEN HighBit(s.r) ELSE 0)
           sum == AddSP16(r, d)
           next == 2 * R + e
<1>1. /\ HALF \in Nat \ {0} /\ 2 * HALF \in Nat \ {0} /\ 4 * HALF \in Nat \ {0} /\ R \in 0 .. HALF - 1
      /\ 2 * HALF * e + u \in 0 .. 4 * HALF - 1 /\ next \in 0 .. 2 * HALF - 1
  BY HALFAssumption
<1>2. q = 2 * HALF * e + u
  <2> DEFINE v == 2 * HALF * e + u
  <2>1. v \in 0 .. 4 * HALF - 1
    BY <1>1
  <2> HIDE DEF v
  <2>2. ((4 * HALF) * b + v) % (4 * HALF) = v
    BY <1>1, <2>1, ModUnique
  <2> QED BY <2>2 DEF v
<1>3. HighBit(q) = e
  <2>1. ((2 * HALF) * e + u) \div (2 * HALF) = e
    <3> DEFINE W == 2 * HALF
    <3>1. W \in Nat \ {0} /\ u \in 0 .. W - 1 /\ e \in Int
      BY <1>1
    <3> HIDE DEF W
    <3>2. (W * e + u) \div W = e
      BY <3>1, DivModUnique
    <3> QED BY <3>2 DEF W
  <2> HIDE DEF q
  <2> QED BY <1>2, <2>1, Zenon DEF HighBit
<1>4. HighBit(s.r) = 1 /\ s.r % HALF = HALF - 1 - R
  <2>1. HALF - 1 - R \in 0 .. HALF - 1 /\ 2 * HALF - 1 - R \in 0 .. 2 * HALF - 1
    BY <1>1
  <2>2. (HALF * 3 + (HALF - 1 - R)) % HALF = HALF - 1 - R
    BY <1>1, <2>1, ModUnique
  <2>3. ((2 * HALF) * 1 + (2 * HALF - 1 - R)) \div (2 * HALF) = 1
    BY <1>1, <2>1, DivModUnique
  <2>4. Not(R) = HALF * 3 + (HALF - 1 - R) /\ Not(R) = (2 * HALF) * 1 + (2 * HALF - 1 - R)
    BY <1>1 DEF Not
  <2> QED BY <2>2, <2>3, <2>4 DEF HighBit
<1>5. r = Not(next)
  <2>1. Shifted(s.r) = 2 * HALF + 2 * (HALF - 1 - R)
    BY <1>1, <1>4 DEF Shifted
  <2> HIDE DEF q
  <2>2. CASE e = 0
    BY <1>1, <1>3, <1>4, <2>1, <2>2 DEF Not
  <2>3. CASE e = 1
    BY <1>1, <1>3, <1>4, <2>1, <2>3 DEF Not
  <2> QED BY <2>2, <2>3
<1> HIDE DEF r, next
<1>6. next >= d => sum = Not(next - d) /\ sum \in Register /\ sum >= 2 * HALF
  BY <1>1, <1>5 DEF AddSP16, Not, Register
<1>7. next < d => sum = d - next /\ sum \in Register /\ sum < 2 * HALF
  BY <1>1, <1>5 DEF AddSP16, Not, Register
<1> HIDE DEF sum, q
<1>8. DvStep(s, d) = IF HighBit(sum) = 1 THEN [q |-> q + 1, r |-> sum] ELSE [q |-> q, r |-> r]
  BY DEF DvStep, q, r, sum
<1> SUFFICES DvStep(s, d) = IF next >= d THEN [q |-> q + 1, r |-> Not(next - d)]
                            ELSE [q |-> q, r |-> Not(next)]
  BY <1>2, Zenon DEF Steps, next
<1>9. CASE next >= d
  <2>1. HighBit(sum) = 1
    BY <1>6, <1>9, RegisterParts
  <2> QED BY <2>1, <1>2, <1>6, <1>8, <1>9 DEF next
<1>10. CASE next < d
  <2>1. HighBit(sum) # 1
    BY <1>7, <1>10, <1>1, RegisterParts
  <2>2. ~(next >= d)
    BY <1>10, <1>1
  <2> QED BY <2>1, <2>2, <1>2, <1>5, <1>8 DEF next
<1>11. next >= d \/ next < d
  BY <1>1
<1> QED BY <1>9, <1>10, <1>11

\* Where a division stands after some of its steps: Q is the quotient so far, of
\* as many digits as P is the weight of, R is what is left, and t the digits of
\* the dividend that have not come in, the next of which has half the weight c.
Divided(s, P, c, dividend, d) ==
  \E b \in {0, 1}, Q \in 0 .. P - 1, R \in 0 .. d, t \in 0 .. c - 1 :
    /\ s.q = 2 * HALF * b + 2 * (P * t) + Q
    /\ s.r = Not(R)
    /\ dividend = (Q * d + R) * c + t
    /\ R = d => t = 0 /\ Q = P - 1

\* A step takes a division one digit further.
LEMMA StepOfDivision ==
  ASSUME NEW d \in 0 .. HALF - 1, NEW P \in Nat \ {0}, NEW c \in Nat \ {0}, P * (2 * c) = HALF,
         NEW dividend \in Nat, NEW s, Divided(s, P, 2 * c, dividend, d)
  PROVE  Divided(DvStep(s, d), 2 * P, c, dividend, d)
<1>1. PICK b \in {0, 1}, Q \in 0 .. P - 1, R \in 0 .. d, t \in 0 .. 2 * c - 1 :
        /\ s.q = 2 * HALF * b + 2 * (P * t) + Q
        /\ s.r = Not(R)
        /\ dividend = (Q * d + R) * (2 * c) + t
        /\ R = d => t = 0 /\ Q = P - 1
  BY DEF Divided
<1> DEFINE e == IF t >= c THEN 1 ELSE 0
           t1 == t - e * c
           u == 2 * (2 * P * t1) + 2 * Q
           next == 2 * R + e
<1>2. e \in {0, 1} /\ t1 \in 0 .. c - 1 /\ t = c * e + t1 /\ (R = d => e = 0 /\ t1 = 0)
  BY <1>1
<1>3. HALF \in Nat \ {0} /\ HALF = 2 * (P * c)
  BY HALFAssumption
<1> HIDE DEF e, t1
<1>4. P * t1 \in Nat /\ P * t1 <= P * c - P
  BY <1>2
<1>5. u \in 0 .. 2 * HALF - 1
  <2>1. 4 * (P * t1) <= 2 * HALF - 4 * P /\ 4 * (P * t1) \in Nat
    BY <1>3, <1>4
  <2>2. u = 4 * (P * t1) + 2 * Q
    BY <1>2
  <2> QED BY <2>1, <2>2, <1>1, <1>3
<1>6. 2 * s.q = (4 * HALF) * b + (2 * HALF * e + u)
  <2>1. P * t = P * c * e + P * t1
    BY <1>2
  <2>2. 4 * (P * t) = 2 * HALF * e + 4 * (P * t1)
    <3>1. 2 * HALF * e = 4 * (P * c * e)
      <4>1. e = 0 => P * c * e = 0 /\ 2 * HALF * e = 0
        BY <1>3
      <4>2. e = 1 => P * c * e = P * c /\ 2 * HALF * e = 2 * HALF
        BY <1>3
      <4> QED BY <4>1, <4>2, <1>2, <1>3
    <3>2. P * c * e \in Int /\ P * t1 \in Int
      BY <1>2
    <3> QED BY <2>1, <3>1, <3>2
  <2> QED BY <2>2, <1>1, <1>2, <1>3, <1>4
<1>7. dividend = ((2 * (Q * d)) + next) * c + t1
  <2>1. (Q * d + R) * (2 * c) = (2 * (Q * d) + 2 * R) * c
    BY <1>1
  <2>2. (2 * (Q * d) + 2 * R) * c + c * e = ((2 * (Q * d)) + next) * c
    BY <1>1, <1>2
  <2> QED BY <2>1, <2>2, <1>1, <1>2
<1> HIDE DEF u
<1>8. next \in Nat
  BY <1>1, <1>2
<1>s. Steps(s, d, 2 * HALF * e + u, next)
  <2>1. s.r = Not(R)
    BY <1>1
  <2> QED BY <2>1, <1>2, <1>5, <1>6, StepDivides, Zenon
<1>9. CASE next >= d
  <2>1. DvStep(s, d) = [q |-> 2 * HALF * e + u + 1, r |-> Not(next - d)]
    BY <1>9, <1>s DEF Steps
  <2>2. /\ next - d \in 0 .. d /\ 2 * Q + 1 \in 0 .. 2 * P - 1
        /\ next - d = d => t1 = 0 /\ 2 * Q + 1 = 2 * P - 1
    BY <1>1, <1>2, <1>9
  <2>3. 2 * HALF * e + u + 1 = 2 * HALF * e + 2 * ((2 * P) * t1) + (2 * Q + 1)
    BY <1>1, <1>2, <1>3, <1>4 DEF u
  <2>4. dividend = ((2 * Q + 1) * d + (next - d)) * c + t1
    <3>1. (2 * Q + 1) * d + (next - d) = 2 * (Q * d) + next
      BY <1>1, <1>8
    <3> QED BY <3>1, <1>7
  <2> HIDE DEF next
  <2>5. DvStep(s, d).q = 2 * HALF * e + 2 * ((2 * P) * t1) + (2 * Q + 1)
        /\ DvStep(s, d).r = Not(next - d)
    BY <2>1, <2>3
  <2> QED BY <2>2, <2>4, <2>5, <1>2, Zenon DEF Divided
<1>10. CASE next < d
  <2>1. DvStep(s, d) = [q |-> 2 * HALF * e + u, r |-> Not(next)]
    BY <1>8, <1>10, <1>s DEF Steps
  <2>2. next \in 0 .. d /\ 2 * Q \in 0 .. 2 * P - 1 /\ next # d
    BY <1>1, <1>8, <1>10
  <2>3. 2 * HALF * e + u = 2 * HALF * e + 2 * ((2 * P) * t1) + 2 * Q
    BY <1>1, <1>2, <1>3, <1>4 DEF u
  <2>4. dividend = ((2 * Q) * d + next) * c + t1
    <3>1. (2 * Q) * d = 2 * (Q * d)
      BY <1>1
    <3> QED BY <3>1, <1>7
  <2> HIDE DEF next
  <2>5. DvStep(s, d).q = 2 * HALF * e + 2 * ((2 * P) * t1) + 2 * Q /\ DvStep(s, d).r = Not(next)
    BY <2>1, <2>3
  <2> QED BY <2>2, <2>4, <2>5, <1>2, Zenon DEF Divided
<1> QED BY <1>8, <1>9, <1>10

\* The steps are a long division: of a dividend of two digits X and m in base
\* HALF by d, when its quotient fits one digit, or is the least that does not.
LongDivision(end, dividend, d, Q, R) ==
  /\ end.r = Not(R) /\ end.q % (2 * HALF) = Q
  /\ dividend = Q * d + R /\ R <= d /\ (R = d => Q = HALF - 1)

\* All the steps together, from a dividend split between the two registers.
LEMMA StepsDivide ==
  ASSUME NEW X \in 0 .. HALF - 1, NEW m \in 0 .. HALF - 1, NEW d \in 0 .. HALF - 1,
         X < d \/ (X = d /\ m = 0)
  PROVE  \E Q, R \in 0 .. HALF - 1 :
           LongDivision(DvSteps([q |-> 2 * m, r |-> Not(X)], d), X * HALF + m, d, Q, R)
<1> DEFINE S == [q : Register, r : Register]
           start == [q |-> 2 * m, r |-> Not(X)]
           dividend == X * HALF + m
           Stands(s, P, c) == P * c = HALF /\ Divided(s, P, c, dividend, d)
<1>0. /\ Digits \in Nat /\ HALF \in Nat \ {0} /\ Register = 0 .. 4 * HALF - 1
      /\ Weight \in [0 .. Digits -> Nat] /\ Weight[0] = 1 /\ Weight[Digits] = HALF
      /\ \A i \in 1 .. Digits : Weight[i] = 2 * Weight[i - 1]
  <2>1. HALF \in Nat \ {0} /\ Register = 0 .. 4 * HALF - 1
    BY HALFAssumption DEF Register
  <2>2. Digits \in Nat \ {0} /\ Weight[Digits] = HALF
    BY DigitsAssumption, Zenon
  <2>3. Digits \in Nat
    BY <2>2
  <2> QED BY <2>1, <2>2, <2>3, WeightsDouble, Zenon
<1>1. start \in S /\ d \in Register /\ dividend \in Nat
  <2>1. 2 * m \in Register /\ Not(X) \in Register /\ d \in Register
    BY <1>0 DEF Not
  <2>2. X * HALF \in Nat
    BY <1>0
  <2>3. dividend \in Nat
    BY <2>2
  <2> HIDE DEF dividend
  <2> QED BY <2>1, <2>3
<1>2. PICK g : StepsFrom(g, S, start, d) /\ DvSteps(start, d) = g[Digits]
  <2>1. \A s \in S : DvStep(s, d) \in S
    BY <1>1, StepType
  <2> HIDE DEF S, start
  <2>2. \E g : StepsFrom(g, S, start, d) /\ DvSteps(start, d) = g[Digits]
    BY <1>1, <2>1, StepsAre, Zenon
  <2> QED BY <2>2, Zenon
<1>3. g[0] = start /\ \A i \in 1 .. Digits : g[i] = DvStep(g[i - 1], d)
  BY <1>2 DEF StepsFrom
<1> DEFINE At(i) == Stands(g[i], Weight[i], Weight[Digits - i])
           Bad == {i \in 0 .. Digits : ~At(i)}
<1>4. At(0)
  <2>1. /\ g[0].q = 2 * HALF * 0 + 2 * (1 * m) + 0 /\ g[0].r = Not(X)
        /\ dividend = (0 * d + X) * HALF + m
    BY <1>0, <1>3
  <2>2. 0 \in 0 .. 1 - 1 /\ X \in 0 .. d /\ (X = d => m = 0 /\ 0 = 1 - 1)
    BY <1>0
  <2>3. Divided(g[0], 1, HALF, dividend, d)
    <3> HIDE DEF dividend
    <3> QED BY <2>1, <2>2 DEF Divided
  <2>4. Digits - 0 = Digits /\ 1 * HALF = HALF
    BY <1>0
  <2> HIDE DEF dividend
  <2> QED BY <1>0, <2>3, <2>4
<1> HIDE DEF dividend, start
<1>5. ASSUME NEW i \in 1 .. Digits, At(i - 1) PROVE At(i)
  <2> DEFINE P == Weight[i - 1]
             c == Weight[Digits - i]
  <2>1. P \in Nat /\ c \in Nat /\ Weight[i] = 2 * P /\ g[i] = DvStep(g[i - 1], d)
    BY <1>0, <1>3
  <2>2. Weight[Digits - (i - 1)] = 2 * c
    <3>1. Digits - (i - 1) \in 1 .. Digits /\ (Digits - (i - 1)) - 1 = Digits - i
      BY <1>0
    <3> QED BY <1>0, <3>1
  <2>3. P * (2 * c) = HALF /\ Divided(g[i - 1], P, 2 * c, dividend, d)
    BY <1>5, <2>2
  <2> HIDE DEF P, c
  <2>4. P # 0 /\ c # 0
    <3>1. P * (2 * c) # 0
      BY <1>0, <2>3
    <3>2. P = 0 => P * (2 * c) = 0
      BY <2>1
    <3>3. c = 0 => P * (2 * c) = 0
      BY <2>1
    <3> QED BY <3>1, <3>2, <3>3
  <2>5. Divided(DvStep(g[i - 1], d), 2 * P, c, dividend, d)
    BY <1>1, <2>1, <2>3, <2>4, StepOfDivision
  <2>6. (2 * P) * c = HALF
    BY <2>1, <2>3
  <2> QED BY <2>1, <2>5, <2>6 DEF c
<1> HIDE DEF At
<1>6. Bad = {}
  <2> SUFFICES ASSUME Bad # {} PROVE FALSE
    OBVIOUS
  <2>1. PICK i \in Bad : \A j \in Bad : i <= j
    <3>1. Bad \in SUBSET Nat
      BY <1>0
    <3> QED BY <3>1, LeastNat
  <2>2. i \in 0 .. Digits /\ ~At(i)
    BY <2>1
  <2>3. i \in 1 .. Digits /\ i - 1 \in 0 .. Digits /\ ~(i <= i - 1)
    BY <2>2, <1>0, <1>4
  <2>4. i - 1 \notin Bad
    <3> HIDE DEF Bad
    <3> QED BY <2>1, <2>3
  <2> QED BY <2>2, <2>3, <2>4, <1>5
<1>7. At(Digits)
  BY <1>0, <1>6
<1>8. Divided(g[Digits], HALF, 1, dividend, d)
  <2>1. Digits - Digits = 0
    BY <1>0
  <2> QED BY <1>0, <1>7, <2>1 DEF At
<1>9. PICK b \in {0, 1}, Q \in 0 .. HALF - 1, R \in 0 .. d, t \in 0 .. 1 - 1 :
        /\ g[Digits].q = 2 * HALF * b + 2 * (HALF * t) + Q
        /\ g[Digits].r = Not(R)
        /\ dividend = (Q * d + R) * 1 + t
        /\ R = d => t = 0 /\ Q = HALF - 1
  BY <1>8 DEF Divided
<1>10. g[Digits].q = (2 * HALF) * b + Q /\ dividend = Q * d + R /\ R <= d /\ R \in 0 .. HALF - 1
  <2>1. t = 0
    OBVIOUS
  <2> QED BY <1>0, <1>9, <2>1
<1>11. g[Digits].q % (2 * HALF) = Q
  <2> DEFINE W == 2 * HALF
  <2>1. W \in Nat \ {0} /\ Q \in 0 .. W - 1 /\ b \in Int
    BY <1>0
  <2> HIDE DEF W
  <2>2. (W * b + Q) % W = Q
    BY <2>1, ModUnique
  <2> QED BY <1>10, <2>2 DEF W
<1>12. LongDivision(g[Digits], dividend, d, Q, R)
  BY <1>9, <1>10, <1>11 DEF LongDivision
<1> QED BY <1>2, <1>10, <1>12 DEF dividend, start

-----------------------------------------------------------------------------
(* The two digits, in base HALF, of a dividend.                            *)

\* A word of the other sign than the dividend borrows from the first.
Within(v) == v \in Register /\ (v < HALF \/ v >= 3 * HALF)
Negative(v) == v >= 2 * HALF
Below(a, l) == IF Value(a) = 0 THEN Negative(l) ELSE Negative(a)
Lower(a, l) == IF Below(a, l) THEN -Value(l) ELSE Value(l)
HighDigit(a, l) == Magnitude(Value(a)) - (IF Lower(a, l) < 0 THEN 1 ELSE 0)
LowDigit(a, l) == Lower(a, l) + (IF Lower(a, l) < 0 THEN HALF ELSE 0)
Signed(negative, n) == IF negative THEN -n ELSE n

\* The digits are those of the magnitude of the dividend.
LEMMA DividendDigits ==
  ASSUME NEW a, NEW l, Within(a), Within(l)
  PROVE  /\ HighDigit(a, l) \in 0 .. HALF - 1 /\ LowDigit(a, l) \in 0 .. HALF - 1
         /\ Value(a) * HALF + Value(l) = Signed(Below(a, l), HALF * HighDigit(a, l) + LowDigit(a, l))
<1> DEFINE x == Value(a)
           y == Value(l)
           X == HighDigit(a, l)
           m == LowDigit(a, l)
<1>1. /\ HALF \in Nat \ {0} /\ x \in 1 - HALF .. HALF - 1 /\ y \in 1 - HALF .. HALF - 1
      /\ (x < 0 => Negative(a)) /\ (x > 0 => ~Negative(a))
      /\ (y < 0 => Negative(l)) /\ (y > 0 => ~Negative(l))
  BY HALFAssumption DEF Within, Register, Value, Not, Negative
<1> HIDE DEF x, y
<1>2. CASE Below(a, l)
  <2>1. x <= 0 /\ Lower(a, l) = -y /\ (x = 0 => y <= 0) /\ Magnitude(x) = -x
    BY <1>1, <1>2 DEF Below, Lower, Magnitude, x, y
  <2>2. X = -x - (IF -y < 0 THEN 1 ELSE 0) /\ m = -y + (IF -y < 0 THEN HALF ELSE 0)
    BY <2>1 DEF HighDigit, LowDigit, x
  <2> HIDE DEF X, m
  <2>3. X \in 0 .. HALF - 1 /\ m \in 0 .. HALF - 1
    BY <1>1, <2>1, <2>2
  <2>4. CASE y > 0
    <3>1. X = -x - 1 /\ m = HALF - y
      BY <1>1, <2>2, <2>4
    <3>2. HALF * X = -(x * HALF) - HALF
      BY <1>1, <3>1
    <3>3. x * HALF + y = -(HALF * X + m)
      BY <1>1, <2>3, <3>1, <3>2
    <3> QED BY <2>3, <3>3, <1>2 DEF Signed, X, m, x, y
  <2>5. CASE ~(y > 0)
    <3>1. X = -x /\ m = -y
      BY <1>1, <2>2, <2>5
    <3>2. HALF * X = -(x * HALF)
      BY <1>1, <3>1
    <3>3. x * HALF + y = -(HALF * X + m)
      BY <1>1, <2>3, <3>1, <3>2
    <3> QED BY <2>3, <3>3, <1>2 DEF Signed, X, m, x, y
  <2> QED BY <2>4, <2>5
<1>3. CASE ~Below(a, l)
  <2>1. x >= 0 /\ Lower(a, l) = y /\ (x = 0 => y >= 0) /\ Magnitude(x) = x
    BY <1>1, <1>3 DEF Below, Lower, Magnitude, x, y
  <2>2. X = x - (IF y < 0 THEN 1 ELSE 0) /\ m = y + (IF y < 0 THEN HALF ELSE 0)
    BY <2>1 DEF HighDigit, LowDigit, x
  <2> HIDE DEF X, m
  <2>3. X \in 0 .. HALF - 1 /\ m \in 0 .. HALF - 1
    BY <1>1, <2>1, <2>2
  <2>4. CASE y < 0
    <3>1. X = x - 1 /\ m = HALF + y
      BY <1>1, <2>2, <2>4
    <3>2. HALF * X = x * HALF - HALF
      BY <1>1, <3>1
    <3>3. x * HALF + y = HALF * X + m
      BY <1>1, <2>3, <3>1, <3>2
    <3> QED BY <2>3, <3>3, <1>3 DEF Signed, X, m, x, y
  <2>5. CASE ~(y < 0)
    <3>1. X = x /\ m = y
      BY <1>1, <2>2, <2>5
    <3>2. HALF * X = x * HALF
      BY <1>1, <3>1
    <3>3. x * HALF + y = HALF * X + m
      BY <1>1, <2>3, <3>1, <3>2
    <3> QED BY <2>3, <3>3, <1>3 DEF Signed, X, m, x, y
  <2> QED BY <2>4, <2>5
<1> QED BY <1>2, <1>3

\* Two digits as a double word of one sign bit, and back.
LEMMA JuxtaposedDigits ==
  ASSUME NEW X \in 0 .. HALF - 1, NEW m \in 0 .. HALF - 1, NEW v
  PROVE  /\ v % HALF = m => Juxtaposed(X, v) = HALF * X + m
         /\ v % HALF = HALF - 1 - m
              => Juxtaposed(2 * HALF - 1 - X, v) = 4 * HALF * HALF - 1 - (HALF * X + m)
<1> DEFINE S == HALF * HALF
           M == HALF * X + m
<1>1. HALF \in Nat \ {0} /\ S \in Nat /\ HALF * X \in Nat
  BY HALFAssumption
<1>2. M \in Nat /\ M < S
  <2>1. HALF * X <= S - HALF
    <3>1. HALF * X <= HALF * (HALF - 1)
      BY <1>1
    <3> QED BY <3>1, <1>1
  <2> HIDE DEF S
  <2> QED BY <2>1, <1>1
<1>3. v % HALF = m => Juxtaposed(X, v) = M
  <2>1. X * HALF = HALF * X
    BY <1>1
  <2>2. ~(M >= S)
    BY <1>1, <1>2
  <2> HIDE DEF S
  <2> QED BY <2>1, <2>2 DEF Juxtaposed, Extended, S
<1>4. v % HALF = HALF - 1 - m => Juxtaposed(2 * HALF - 1 - X, v) = 4 * HALF * HALF - 1 - M
  <2>1. (2 * HALF - 1 - X) * HALF + (HALF - 1 - m) = 2 * S - 1 - M
    <3>1. (2 * HALF - 1 - X) * HALF = 2 * S - HALF - HALF * X
      BY <1>1
    <3> HIDE DEF S
    <3> QED BY <3>1, <1>1
  <2>2. 2 * HALF * HALF = 2 * S /\ 4 * HALF * HALF = 4 * S
    BY <1>1
  <2> HIDE DEF S, M
  <2>3. 2 * S - 1 - M >= S /\ (2 * S - 1 - M) + 2 * S = 4 * S - 1 - M
    BY <1>1, <1>2
  <2>4. ASSUME v % HALF = HALF - 1 - m
        PROVE  Juxtaposed(2 * HALF - 1 - X, v) = 4 * HALF * HALF - 1 - M
    <3>1. Juxtaposed(2 * HALF - 1 - X, v) = Extended(2 * S - 1 - M)
      BY <2>1, <2>4 DEF Juxtaposed
    <3> QED BY <2>2, <2>3, <3>1 DEF Extended, S
  <2> QED BY <2>4
<1> QED BY <1>3, <1>4

\* What SpToDecent makes of the accumulator pair, a positive one with a low
\* word of -0 apart.
LEMMA CodeDividend ==
  ASSUME NEW a, NEW l, Within(a), Within(l), ~(l = Not(0) /\ Value(a) > 0)
  PROVE  LET M == HALF * HighDigit(a, l) + LowDigit(a, l)
         IN  SpToDecent(OverflowCorrected(a), l)
               = IF Below(a, l) THEN 4 * HALF * HALF - 1 - M ELSE M
<1> DEFINE X == HighDigit(a, l)
           m == LowDigit(a, l)
           w == OverflowCorrected(a)
           x == Value(a)
           y == Value(l)
           W == 2 * HALF
<1>0. HALF \in Nat \ {0} /\ W \in Nat \ {0} /\ HALF > 1
  BY HALFAssumption, DigitsAssumption
<1>1. X \in 0 .. HALF - 1 /\ m \in 0 .. HALF - 1
  BY DividendDigits
<1>2. /\ a < HALF => x = a /\ w = x /\ x \in 0 .. HALF - 1 /\ ~Negative(a)
      /\ a >= 3 * HALF => /\ x = a - (4 * HALF - 1) /\ w = 2 * HALF - 1 + x /\ x \in 1 - HALF .. 0
                          /\ Negative(a)
      /\ a < HALF \/ a >= 3 * HALF
  BY <1>0 DEF Within, Register, Value, Not, OverflowCorrected, Negative
<1>3. /\ l < HALF => y = l /\ l = y /\ y \in 0 .. HALF - 1 /\ ~Negative(l)
      /\ l >= 3 * HALF => y = l - (4 * HALF - 1) /\ l = 4 * HALF - 1 + y /\ y \in 1 - HALF .. 0 /\ Negative(l)
      /\ l < HALF \/ l >= 3 * HALF
  BY <1>0 DEF Within, Register, Value, Not, Negative
<1>4. /\ l < HALF => SignBit(l) = 0 /\ l % HALF = y /\ l % W = y
      /\ l >= 3 * HALF => SignBit(l) = 1 /\ l % HALF = HALF - 1 + y /\ l % W = 2 * HALF - 1 + y
  <2>1. CASE l < HALF
    <3>1. y \in 0 .. HALF - 1 /\ l = y /\ y \in 0 .. W - 1 /\ HALF * 0 + y = y /\ W * 0 + y = y
      BY <1>0, <1>3, <2>1
    <3> HIDE DEF y, W
    <3>2. y % HALF = y /\ y \div HALF = 0 /\ y % W = y
      BY <1>0, <3>1, DivModUnique
    <3>3. ~(l >= 3 * HALF)
      BY <2>1, <3>1, <1>0
    <3>4. 0 % 2 = 0
      OBVIOUS
    <3> QED BY <2>1, <3>1, <3>2, <3>3, <3>4 DEF SignBit
  <2>2. CASE l >= 3 * HALF
    <3>1. /\ y \in 1 - HALF .. 0 /\ l = HALF * 3 + (HALF - 1 + y) /\ l = W * 1 + (2 * HALF - 1 + y)
          /\ HALF - 1 + y \in 0 .. HALF - 1 /\ 2 * HALF - 1 + y \in 0 .. W - 1
      BY <1>0, <1>3, <2>2
    <3> HIDE DEF y, W
    <3>2. l % HALF = HALF - 1 + y /\ l \div HALF = 3
      BY <1>0, <3>1, DivModUnique
    <3>3. l % W = 2 * HALF - 1 + y
      <4>1. (W * 1 + (2 * HALF - 1 + y)) % W = 2 * HALF - 1 + y
        BY <1>0, <3>1, ModUnique
      <4> QED BY <3>1, <4>1
    <3>4. ~(l < HALF)
      BY <2>2, <3>1, <1>0
    <3>5. 3 % 2 = 1
      OBVIOUS
    <3> QED BY <2>2, <3>2, <3>3, <3>4, <3>5 DEF SignBit
  <2> QED BY <2>1, <2>2, <1>3
<1>5. /\ x >= 0 /\ x # 0 => w \in 1 .. HALF - 1 /\ ~IsZero(w) /\ ~IsNegative(w) /\ SignBit(w) = 0
      /\ x < 0 => w \in HALF .. W - 2 /\ ~IsZero(w) /\ IsNegative(w) /\ SignBit(w) = 1
  <2>1. CASE x >= 0 /\ x # 0
    <3>1. a < HALF /\ w = x /\ w \in 1 .. HALF - 1 /\ HALF * 0 + w = w /\ w \in 0 .. HALF - 1
      BY <1>0, <1>2, <2>1
    <3> HIDE DEF w, x, W
    <3>2. w \div HALF = 0
      BY <1>0, <3>1, DivModUnique
    <3>3. 0 % 2 = 0 /\ ~(x < 0) /\ ~IsZero(w) /\ ~IsNegative(w)
      BY <3>1, <2>1, <1>0 DEF IsZero, IsNegative, AGC_P0, AGC_M0
    <3> QED BY <3>1, <3>2, <3>3 DEF SignBit
  <2>2. CASE x < 0
    <3> HIDE DEF w, x
    <3>1. /\ w = 2 * HALF - 1 + x /\ w \in HALF .. W - 2
          /\ w = HALF * 1 + (HALF - 1 + x) /\ HALF - 1 + x \in 0 .. HALF - 1
      <4>1. w = 2 * HALF - 1 + x /\ x \in 1 - HALF .. -1
        BY <1>0, <1>2, <2>2
      <4> QED BY <4>1, <1>0
    <3>2. w \div HALF = 1
      <4> DEFINE r == HALF - 1 + x
      <4>1. HALF \in Nat \ {0} /\ r \in 0 .. HALF - 1 /\ 1 \in Int /\ w = HALF * 1 + r
        BY <1>0, <3>1
      <4> HIDE DEF r
      <4>2. (HALF * 1 + r) \div HALF = 1
        BY <4>1, DivModUnique
      <4> QED BY <4>1, <4>2
    <3>3. 1 % 2 = 1 /\ ~(x >= 0) /\ ~IsZero(w) /\ IsNegative(w)
      BY <3>1, <2>2, <1>0, <1>2 DEF IsZero, IsNegative, AGC_P0, AGC_M0
    <3> QED BY <3>1, <3>2, <3>3 DEF SignBit
  <2> QED BY <2>1, <2>2, <1>2
<1> DEFINE positive == HALF * X + m
           negative == 4 * HALF * HALF - 1 - (HALF * X + m)
<1>6. \A v : /\ v % HALF = m => Juxtaposed(X, v) = positive
             /\ v % HALF = HALF - 1 - m => Juxtaposed(2 * HALF - 1 - X, v) = negative
  BY <1>1, JuxtaposedDigits
<1> HIDE DEF positive, negative
<1>7. /\ x = 0 => Below(a, l) = Negative(l)
      /\ x > 0 => Below(a, l) = FALSE
      /\ x < 0 => Below(a, l) = TRUE
  <2>1. /\ x > 0 => ~(x = 0) /\ Negative(a) = FALSE
        /\ x < 0 => ~(x = 0) /\ Negative(a) = TRUE
    BY <1>0, <1>2 DEF Negative
  <2> QED BY <2>1 DEF Below
<1>8. /\ Lower(a, l) = IF Below(a, l) THEN -y ELSE y
      /\ X = Magnitude(x) - (IF Lower(a, l) < 0 THEN 1 ELSE 0)
      /\ m = Lower(a, l) + (IF Lower(a, l) < 0 THEN HALF ELSE 0)
  BY DEF Lower, HighDigit, LowDigit
<1> HIDE DEF X, m, x, y, w
<1>9. CASE x = 0
  <2>1. IsZero(w)
    BY <1>0, <1>2, <1>9 DEF IsZero, AGC_P0, AGC_M0
  <2>m. Magnitude(x) = 0
    BY <1>9 DEF Magnitude
  <2>2. SpToDecent(w, l) = LET v == SignExtend(l % (2 * HALF))
                           IN  IF v >= 2 * HALF THEN v + 4 * HALF * HALF - 4 * HALF ELSE v
    BY <2>1 DEF SpToDecent
  <2>3. CASE l < HALF
    <3>1. y \in 0 .. HALF - 1 /\ Below(a, l) = FALSE /\ l % W = y
      BY <1>0, <1>3, <1>4, <1>7, <1>9, <2>3
    <3>2. X = 0 /\ m = y
      <4>1. Lower(a, l) = y /\ ~(y < 0)
        <5>1. ~Below(a, l)
          BY <3>1
        <5> QED BY <1>0, <1>8, <3>1, <5>1
      <4>2. ~(Lower(a, l) < 0)
        BY <4>1
      <4>3. X = Magnitude(x) - 0 /\ m = Lower(a, l) + 0
        BY <1>8, <4>2
      <4> QED BY <2>m, <3>1, <4>1, <4>3
    <3>3. SignExtend(l % (2 * HALF)) = y
      BY <1>0, <3>1 DEF SignExtend, IsNegative
    <3>4. positive = y
      BY <1>0, <3>1, <3>2 DEF positive
    <3>5. ~(y >= 2 * HALF)
      BY <1>0, <3>1
    <3> QED BY <2>2, <3>1, <3>3, <3>4, <3>5 DEF w, positive, X, m
  <2>4. CASE l >= 3 * HALF
    <3>1. y \in 1 - HALF .. 0 /\ Below(a, l) = TRUE /\ l % W = 2 * HALF - 1 + y
      BY <1>0, <1>3, <1>4, <1>7, <1>9, <2>4
    <3>2. X = 0 /\ m = -y
      <4>1. Lower(a, l) = -y /\ ~(-y < 0)
        <5>1. Below(a, l)
          BY <3>1
        <5> QED BY <1>0, <1>8, <3>1, <5>1
      <4>2. ~(Lower(a, l) < 0)
        BY <4>1
      <4>3. X = Magnitude(x) - 0 /\ m = Lower(a, l) + 0
        BY <1>8, <4>2
      <4> QED BY <1>0, <2>m, <3>1, <4>1, <4>3
    <3>3. SignExtend(l % (2 * HALF)) = 4 * HALF - 1 + y
      BY <1>0, <3>1 DEF SignExtend, IsNegative
    <3>4. negative = (4 * HALF - 1 + y) + 4 * HALF * HALF - 4 * HALF
      <4>1. 4 * HALF * HALF \in Nat /\ HALF * X + m = -y
        BY <1>0, <3>1, <3>2
      <4> QED BY <1>0, <3>1, <4>1 DEF negative
    <3>5. 4 * HALF - 1 + y >= 2 * HALF
      BY <1>0, <3>1
    <3> QED BY <2>2, <3>1, <3>3, <3>4, <3>5 DEF w, negative, X, m
  <2> QED BY <2>3, <2>4, <1>3
<1>10. CASE x > 0
  <2>1. x >= 0 /\ x # 0 /\ w = x /\ x \in 1 .. HALF - 1 /\ Below(a, l) = FALSE /\ Magnitude(x) = x
    BY <1>0, <1>2, <1>7, <1>10 DEF Magnitude
  <2>2. ~IsZero(w) /\ ~IsNegative(w) /\ SignBit(w) = 0
    BY <1>5, <2>1
  <2>3. CASE l < HALF
    <3>1. SpToDecent(w, l) = Juxtaposed(w, l)
      BY <1>4, <2>2, <2>3 DEF SpToDecent
    <3>2. X = w /\ m = y /\ l % HALF = m
      BY <1>0, <1>3, <1>4, <1>8, <2>1, <2>3
    <3> QED BY <1>6, <2>1, <3>1, <3>2 DEF w, positive, X, m
  <2>4. CASE l >= 3 * HALF
    <3>1. y \in 1 - HALF .. -1 /\ l = 4 * HALF - 1 + y /\ ~IsZero(l) /\ SignBit(l) = 1
      <4>1. l # Not(0)
        BY <1>10 DEF x
      <4>2. l # 4 * HALF - 1
        BY <4>1, <1>0 DEF Not
      <4> QED BY <1>0, <1>3, <1>4, <2>4, <4>2 DEF IsZero, AGC_P0, AGC_M0
    <3>2. SpToDecent(w, l) = LET p == Borrowed(w, l) IN Juxtaposed(p[1], p[2])
      BY <2>2, <3>1 DEF SpToDecent
    <3>3. X = x - 1 /\ m = HALF + y
      BY <1>0, <1>8, <2>1, <3>1
    <3>4. (l + HALF + 1) % (2 * HALF) = m
      <4>1. l + HALF + 1 = W * 2 + m /\ m \in 0 .. W - 1
        BY <1>0, <1>1, <3>1, <3>3 DEF X, m
      <4> HIDE DEF W
      <4>2. (W * 2 + m) % W = m
        BY <1>0, <4>1, ModUnique
      <4> QED BY <4>1, <4>2 DEF W
    <3>5. Borrowed(w, l) = <<X, m>>
      BY <2>1, <3>3, <3>4 DEF Borrowed
    <3>6. m % HALF = m
      <4>1. HALF * 0 + m = m /\ m \in 0 .. HALF - 1
        BY <1>0, <1>1 DEF X, m
      <4> QED BY <1>0, <4>1, ModUnique
    <3> QED BY <1>6, <2>1, <3>2, <3>5, <3>6 DEF w, positive, X, m
  <2> QED BY <2>3, <2>4, <1>3
<1>11. CASE x < 0
  <2>1. /\ ~(x >= 0) /\ w = 2 * HALF - 1 + x /\ x \in 1 - HALF .. -1 /\ Below(a, l) = TRUE
        /\ Magnitude(x) = -x
    BY <1>0, <1>2, <1>7, <1>11 DEF Magnitude
  <2>2. ~IsZero(w) /\ IsNegative(w) /\ SignBit(w) = 1
    BY <1>5, <1>11
  <2>3. CASE l >= 3 * HALF
    <3>1. SpToDecent(w, l) = Juxtaposed(w, l)
      BY <1>4, <2>2, <2>3 DEF SpToDecent
    <3>2. y \in 1 - HALF .. 0 /\ l % HALF = HALF - 1 + y
      BY <1>0, <1>3, <1>4, <2>3
    <3>3. X = -x /\ m = -y
      BY <1>0, <1>8, <2>1, <3>2
    <3>4. w = 2 * HALF - 1 - X /\ l % HALF = HALF - 1 - m
      BY <1>0, <2>1, <3>2, <3>3
    <3> QED BY <1>6, <2>1, <3>1, <3>4 DEF w, negative, X, m
  <2>4. CASE l < HALF /\ y = 0
    <3>1. SignBit(l) = 0 /\ IsZero(l)
      BY <1>0, <1>3, <1>4, <2>4 DEF IsZero, AGC_P0
    <3>2. SpToDecent(w, l) = Juxtaposed(w, AGC_M0)
      BY <2>2, <3>1 DEF SpToDecent
    <3>3. X = -x /\ m = 0
      BY <1>0, <1>8, <2>1, <2>4
    <3>4. AGC_M0 % HALF = HALF - 1
      <4>1. (HALF * 1 + (HALF - 1)) % HALF = HALF - 1
        BY <1>0, ModUnique
      <4>2. AGC_M0 = HALF * 1 + (HALF - 1)
        BY <1>0 DEF AGC_M0
      <4> QED BY <4>1, <4>2
    <3>5. w = 2 * HALF - 1 - X /\ AGC_M0 % HALF = HALF - 1 - m
      BY <1>0, <2>1, <3>3, <3>4
    <3> QED BY <1>6, <2>1, <3>2, <3>5 DEF w, negative, X, m
  <2>5. CASE l < HALF /\ y # 0
    <3>1. y \in 1 .. HALF - 1 /\ l = y /\ SignBit(l) = 0 /\ l % W = y
      BY <1>0, <1>3, <1>4, <2>5
    <3>2. ~IsZero(l)
      BY <1>0, <3>1 DEF IsZero, AGC_P0, AGC_M0
    <3>3. SpToDecent(w, l) = LET p == Borrowed(NegateSP(w), NegateSP(l % (2 * HALF)))
                             IN  Juxtaposed(NegateSP(p[1]), NegateSP(p[2]))
      BY <2>2, <3>1, <3>2 DEF SpToDecent
    <3>4. X = -x - 1 /\ m = HALF - y
      BY <1>0, <1>8, <2>1, <3>1
    <3>5. NegateSP(w) = -x /\ NegateSP(l % (2 * HALF)) = 2 * HALF - 1 - y
      BY <1>0, <2>1, <3>1 DEF NegateSP, AGC_M0
    <3>6. (2 * HALF - 1 - y + HALF + 1) % (2 * HALF) = m
      <4>1. 2 * HALF - 1 - y + HALF + 1 = W * 1 + m /\ m \in 0 .. W - 1
        BY <1>0, <3>1, <3>4
      <4> HIDE DEF W
      <4>2. (W * 1 + m) % W = m
        BY <1>0, <4>1, ModUnique
      <4> QED BY <4>1, <4>2 DEF W
    <3>7. Borrowed(NegateSP(w), NegateSP(l % (2 * HALF))) = <<X, m>>
      BY <3>4, <3>5, <3>6 DEF Borrowed
    <3>8. SpToDecent(w, l) = Juxtaposed(NegateSP(X), NegateSP(m))
      BY <3>3, <3>7
    <3>9. NegateSP(X) = 2 * HALF - 1 - X
      BY DEF NegateSP, AGC_M0
    <3>10. NegateSP(m) % HALF = HALF - 1 - m
      <4>1. NegateSP(m) = HALF * 1 + (HALF - 1 - m) /\ HALF - 1 - m \in 0 .. HALF - 1
        BY <1>0, <3>1, <3>4 DEF NegateSP, AGC_M0
      <4>2. (HALF * 1 + (HALF - 1 - m)) % HALF = HALF - 1 - m
        BY <1>0, <4>1, ModUnique
      <4> QED BY <4>1, <4>2
    <3> QED BY <1>6, <2>1, <3>8, <3>9, <3>10 DEF w, negative, X, m
  <2> QED BY <2>3, <2>4, <2>5, <1>3
<1>12. x = 0 \/ x > 0 \/ x < 0
  BY <1>0, <1>2
<1> QED BY <1>9, <1>10, <1>11, <1>12

\* What a division leaves in A and L, as a quotient and a remainder.
Leaves(left, below, negative, Q, R) ==
  /\ Value(left[1]) = Signed(below # negative, Q)
  /\ Value(Corrected(left[2])) = Signed(below, R)

\* A word that stands for a digit, or for its opposite.
LEMMA DigitValue ==
  ASSUME NEW n \in 0 .. HALF - 1
  PROVE  /\ Value(n) = n /\ Value(Not(n)) = -n
         /\ Corrected(n) = n /\ Corrected(Not(n)) = Not(n)
         /\ SignExtend(n) = n /\ SignExtend(2 * HALF - 1 - n) = Not(n)
         /\ OverflowCorrected(n) = n /\ OverflowCorrected(Not(n)) = 2 * HALF - 1 - n
BY HALFAssumption DEF Value, Not, Corrected, OverflowCorrected, SignExtend, IsNegative

\* A quotient and a remainder by K, of which the division stops one step short
\* when the quotient would not fit.
Quotients(M, K, Q, R) == M = Q * K + R /\ R <= K /\ (R = K => Q = HALF - 1)

\* The hardware's division is that of the magnitudes, and its results take the
\* signs of the dividend and of the divisor.
LEMMA HardwareDivides ==
  ASSUME NEW a, NEW l, NEW v, Within(a), Within(l), Within(v),
         \/ HighDigit(a, l) < Magnitude(Value(v))
         \/ HighDigit(a, l) = Magnitude(Value(v)) /\ LowDigit(a, l) = 0
  PROVE  \E Q, R \in 0 .. HALF - 1 :
           /\ Quotients(HighDigit(a, l) * HALF + LowDigit(a, l), Magnitude(Value(v)), Q, R)
           /\ Leaves(SimulateDV(a, l, v), Below(a, l), Negative(v), Q, R)
<1> DEFINE X == HighDigit(a, l)
           m == LowDigit(a, l)
           K == Magnitude(Value(v))
           s == Lower(a, l)
           a1 == IF HighBit(a) = 0 THEN Not(a) ELSE a
           dividendSign == IF a1 = 4 * HALF - 1 THEN HighBit(l) ELSE HighBit(a)
           l1 == AddSP16(IF dividendSign = 1 THEN Not(l) ELSE l, HALF)
           d == IF HighBit(v) = 1 THEN Not(v) ELSE v
           start == [q |-> Shifted(l1) + HighBit(l1),
                     r |-> IF ValueOverflowed(l1) # AGC_P1 THEN AddSP16(a1, 1) ELSE a1]
           end == DvSteps(start, d)
           quotient == HighBit(l1) * 2 * HALF + (end.q % (2 * HALF))
<1>0. HALF \in Nat \ {0} /\ HALF > 1
  BY HALFAssumption, DigitsAssumption
<1>1. X \in 0 .. HALF - 1 /\ m \in 0 .. HALF - 1
  BY DividendDigits
<1>2. \A u \in {a, l, v} : /\ HighBit(u) \in {0, 1} /\ (HighBit(u) = 1 <=> Negative(u))
                           /\ u \in Register
  <2>1. a \in Register /\ l \in Register /\ v \in Register
    BY DEF Within
  <2> QED BY <2>1, RegisterParts DEF Negative
<1>3. a1 = Not(Magnitude(Value(a))) /\ Value(a) \in 1 - HALF .. HALF - 1
      /\ (a1 = 4 * HALF - 1 <=> Value(a) = 0)
  <2>1. HighBit(a) = 0 <=> a < 2 * HALF
    BY <1>0, <1>2 DEF Within, Register, Negative
  <2> QED BY <1>0, <2>1 DEF Within, Register, Value, Not, Magnitude
<1>4. dividendSign \in {0, 1} /\ (dividendSign = 1 <=> Below(a, l))
  BY <1>2, <1>3 DEF Below
<1>5. s \in 1 - HALF .. HALF - 1 /\ l1 = s + HALF
  <2>1. CASE Below(a, l)
    <3>1. l1 = AddSP16(Not(l), HALF) /\ s = -Value(l)
      BY <1>4, <2>1 DEF Lower
    <3> HIDE DEF l1, s
    <3> QED BY <1>0, <3>1 DEF Within, Register, Value, Not, AddSP16
  <2>2. CASE ~Below(a, l)
    <3>1. l1 = AddSP16(l, HALF) /\ s = Value(l)
      BY <1>4, <2>2 DEF Lower
    <3> HIDE DEF l1, s
    <3> QED BY <1>0, <3>1 DEF Within, Register, Value, Not, AddSP16
  <2> QED BY <2>1, <2>2
<1> HIDE DEF s, l1, a1, dividendSign
<1>6. HighBit(l1) = 0 /\ l1 \in Register
  <2>1. l1 \in Register /\ ~(l1 >= 2 * HALF)
    BY <1>0, <1>5 DEF Register
  <2> QED BY <2>1, RegisterParts
<1>7. m = s + (IF s < 0 THEN HALF ELSE 0) /\ X = Magnitude(Value(a)) - (IF s < 0 THEN 1 ELSE 0)
  BY DEF LowDigit, HighDigit, s
<1> HIDE DEF m, X
<1>8. l1 % HALF = m
  <2>1. CASE s < 0
    <3>1. HALF * 0 + m = l1
      BY <1>0, <1>5, <1>7, <2>1
    <3> QED BY <1>0, <1>1, <3>1, ModUnique
  <2>2. CASE ~(s < 0)
    <3>1. HALF * 1 + m = l1
      BY <1>0, <1>5, <1>7, <2>2
    <3>2. (HALF * 1 + m) % HALF = m
      BY <1>0, <1>1, ModUnique
    <3> QED BY <3>1, <3>2
  <2> QED BY <2>1, <2>2
<1>9. Shifted(l1) + HighBit(l1) = 2 * m
  BY <1>0, <1>1, <1>6, <1>8 DEF Shifted
<1>10. (IF ValueOverflowed(l1) # AGC_P1 THEN AddSP16(a1, 1) ELSE a1) = Not(X)
  <2>1. ValueOverflowed(l1) = AGC_P1 <=> ~(s < 0)
    BY <1>0, <1>5 DEF ValueOverflowed, AGC_P1, AGC_M1, AGC_P0
  <2>2. Magnitude(Value(a)) \in 0 .. HALF - 1
    BY <1>0, <1>3 DEF Magnitude
  <2>3. CASE s < 0
    <3>1. X = Magnitude(Value(a)) - 1
      BY <1>7, <2>3
    <3>2. AddSP16(a1, 1) = Not(X)
      BY <1>0, <1>1, <1>3, <2>2, <3>1 DEF Not, AddSP16
    <3> QED BY <2>1, <2>3, <3>2
  <2>4. CASE ~(s < 0)
    <3>1. X = Magnitude(Value(a))
      BY <1>7, <2>2, <2>4
    <3> QED BY <1>3, <2>1, <2>4, <3>1
  <2> QED BY <2>3, <2>4
<1>11. start = [q |-> 2 * m, r |-> Not(X)]
  BY <1>9, <1>10
<1>12. d = K /\ K \in 0 .. HALF - 1
  <2>1. HighBit(v) = 1 <=> v >= 2 * HALF
    BY <1>2 DEF Negative
  <2> QED BY <1>0, <2>1 DEF Within, Register, Value, Not, Magnitude
<1> HIDE DEF K, d, start
<1>13. X < K \/ (X = K /\ m = 0)
  BY DEF X, K, m
<1>14. PICK Q, R \in 0 .. HALF - 1 : LongDivision(end, X * HALF + m, K, Q, R)
  BY <1>1, <1>11, <1>12, <1>13, StepsDivide
<1>15. Quotients(X * HALF + m, K, Q, R)
  BY <1>14 DEF LongDivision, Quotients
<1>16. end.r = Not(R) /\ quotient = Q
  <2>1. end.q % (2 * HALF) = Q /\ end.r = Not(R)
    BY <1>14 DEF LongDivision
  <2> HIDE DEF end
  <2> QED BY <1>0, <1>6, <2>1
<1> HIDE DEF end, quotient
<1>17. SimulateDV(a, l, v) =
        <<IF dividendSign # HighBit(v) THEN Not(quotient) ELSE quotient,
          IF dividendSign = 1 THEN end.r ELSE Not(end.r)>>
  BY DEF SimulateDV, a1, l1, d, start, end, quotient, dividendSign
<1>18. Not(Not(R)) = R
  BY <1>0 DEF Not
<1>19. dividendSign # HighBit(v) <=> Below(a, l) # Negative(v)
  <2>1. \A u : Negative(u) \in BOOLEAN
    BY DEF Negative
  <2>2. Below(a, l) \in BOOLEAN
    <3>1. Below(a, l) = Negative(l) \/ Below(a, l) = Negative(a)
      BY DEF Below
    <3> QED BY <2>1, <3>1
  <2>3. HighBit(v) \in {0, 1} /\ (HighBit(v) = 1 <=> Negative(v))
    BY <1>2
  <2>4. ASSUME NEW B \in BOOLEAN, NEW N \in BOOLEAN, NEW i \in {0, 1}, NEW j \in {0, 1},
               i = 1 <=> B, j = 1 <=> N
        PROVE  i # j <=> B # N
    BY <2>4
  <2> QED BY <2>1, <2>2, <2>3, <2>4, <1>4
<1>20. Leaves(SimulateDV(a, l, v), Below(a, l), Negative(v), Q, R)
  <2> DEFINE q == IF dividendSign # HighBit(v) THEN Not(Q) ELSE Q
             r == IF dividendSign = 1 THEN Not(R) ELSE R
  <2>1. SimulateDV(a, l, v) = <<q, r>>
    BY <1>16, <1>17, <1>18
  <2>2. Value(q) = Signed(Below(a, l) # Negative(v), Q)
    BY <1>19, DigitValue DEF Signed
  <2>3. Value(Corrected(r)) = Signed(Below(a, l), R)
    BY <1>4, DigitValue DEF Signed
  <2> HIDE DEF q, r
  <2> QED BY <2>1, <2>2, <2>3 DEF Leaves
<1> QED BY <1>15, <1>20 DEF X, m, K

\* Sixteen bits without overflow are a digit, or its opposite.
LEMMA WithinDigit ==
  ASSUME NEW u, Within(u)
  PROVE  LET n == Magnitude(Value(u))
         IN  /\ n \in 0 .. HALF - 1 /\ u = IF Negative(u) THEN Not(n) ELSE n
             /\ Value(u) = Signed(Negative(u), n) /\ ValueOverflowed(u) = AGC_P0
BY HALFAssumption
   DEF Within, Register, Magnitude, Value, Not, Negative, Signed, ValueOverflowed, AGC_P0, AGC_P1, AGC_M1

\* The sign and the magnitude of a digit and of its opposite.
LEMMA DigitSigns ==
  ASSUME NEW n \in 0 .. HALF - 1
  PROVE  /\ SignBit(n) = 0 /\ SignBit(Not(n)) = 1 /\ SignBit(2 * HALF - 1 - n) = 1
         /\ AbsSP(n) = n /\ AbsSP(2 * HALF - 1 - n) = n
<1> DEFINE t == HALF - 1 - n
<1>1. HALF \in Nat \ {0} /\ t \in 0 .. HALF - 1 /\ HALF * 0 + n = n
      /\ Not(n) = HALF * 3 + t /\ 2 * HALF - 1 - n = HALF * 1 + t
  BY HALFAssumption DEF Not
<1>2. AbsSP(n) = n /\ AbsSP(2 * HALF - 1 - n) = n
  BY <1>1 DEF AbsSP, NegateSP, IsNegative, AGC_M0
<1> HIDE DEF t
<1>3. n \div HALF = 0 /\ (HALF * 3 + t) \div HALF = 3 /\ (HALF * 1 + t) \div HALF = 1
  BY <1>1, DivModUnique
<1>4. 0 % 2 = 0 /\ 3 % 2 = 1 /\ 1 % 2 = 1
  OBVIOUS
<1> QED BY <1>1, <1>2, <1>3, <1>4 DEF SignBit

\* The divisor that the C division uses.
LEMMA CodeDivisor ==
  ASSUME NEW v, Within(v)
  PROVE  LET k == OverflowCorrected(v)
             K == Magnitude(Value(v))
         IN  /\ k = IF Negative(v) THEN 2 * HALF - 1 - K ELSE K
             /\ AbsSP(k) = K /\ SignBit(k) = SignBit(v)
             /\ agc2cpu(k) = Signed(Negative(v), K)
<1> DEFINE K == Magnitude(Value(v))
<1>1. K \in 0 .. HALF - 1 /\ v = IF Negative(v) THEN Not(K) ELSE K
  BY WithinDigit
<1> HIDE DEF K
<1>2. K \in Word /\ 2 * HALF - 1 - K \in Word /\ Value(SignExtend(K)) = K
      /\ Value(SignExtend(2 * HALF - 1 - K)) = -K
  BY <1>1, SignedDigits
<1>3. agc2cpu(K) = K /\ agc2cpu(2 * HALF - 1 - K) = -K
  BY <1>2, WordAsInteger
<1>4. CASE Negative(v)
  <2>1. v = Not(K) /\ OverflowCorrected(v) = 2 * HALF - 1 - K
    BY <1>1, <1>4, DigitValue
  <2> QED BY <2>1, <1>1, <1>3, <1>4, DigitSigns DEF Signed, K
<1>5. CASE ~Negative(v)
  <2>1. v = K /\ OverflowCorrected(v) = K
    BY <1>1, <1>5, DigitValue
  <2> QED BY <2>1, <1>1, <1>3, <1>5, DigitSigns DEF Signed, K
<1> QED BY <1>4, <1>5

\* The two words and the integer that the C division divides.
LEMMA CodeDividendParts ==
  ASSUME NEW a, NEW l, Within(a), Within(l), ~(l = Not(0) /\ Value(a) > 0)
  PROVE  LET X == HighDigit(a, l)
             m == LowDigit(a, l)
             decent == SpToDecent(OverflowCorrected(a), l)
             pair == DecentToSp(decent)
         IN  /\ pair = IF Below(a, l) THEN <<2 * HALF - 1 - X, 2 * HALF - 1 - m>> ELSE <<X, m>>
             /\ AbsSP(pair[1]) = X /\ AbsSP(pair[2]) = m
             /\ agc2cpu2(decent) = Signed(Below(a, l), HALF * X + m)
<1> DEFINE X == HighDigit(a, l)
           m == LowDigit(a, l)
           M == HALF * X + m
           d == 4 * HALF * HALF - 1 - M
           decent == SpToDecent(OverflowCorrected(a), l)
<1>1. X \in 0 .. HALF - 1 /\ m \in 0 .. HALF - 1
  BY DividendDigits
<1>2. decent = IF Below(a, l) THEN d ELSE M
  BY CodeDividend
<1> HIDE DEF X, m, decent
<1>3. /\ DecentToSp(M) = <<X, m>> /\ agc2cpu2(M) = M
      /\ DecentToSp(d) = <<2 * HALF - 1 - X, 2 * HALF - 1 - m>> /\ agc2cpu2(d) = -M
  BY <1>1, DecentDigits
<1> HIDE DEF d, M
<1>4. CASE Below(a, l)
  <2>1. decent = d
    BY <1>2, <1>4
  <2>2. DecentToSp(decent) = <<2 * HALF - 1 - X, 2 * HALF - 1 - m>> /\ agc2cpu2(decent) = -M
    BY <2>1, <1>3
  <2> QED BY <2>2, <1>1, <1>4, DigitSigns DEF Signed, X, m, decent, M
<1>5. CASE ~Below(a, l)
  <2>1. decent = M
    BY <1>2, <1>5
  <2>2. DecentToSp(decent) = <<X, m>> /\ agc2cpu2(decent) = M
    BY <2>1, <1>3
  <2> QED BY <2>2, <1>1, <1>5, DigitSigns DEF Signed, X, m, decent, M
<1> QED BY <1>4, <1>5

\* The word of a small integer.
LEMMA IntegerDigit ==
  ASSUME NEW n \in 0 .. HALF - 1, NEW negative \in BOOLEAN
  PROVE  LET v == SignExtend(cpu2agc(Signed(negative, n)))
         IN  Value(v) = Signed(negative, n) /\ Value(Corrected(v)) = Signed(negative, n)
<1> DEFINE W == 2 * HALF
<1>1. n % (2 * HALF) = n /\ HALF \in Nat \ {0}
  <2>1. W \in Nat \ {0} /\ n \in 0 .. W - 1 /\ W * 0 + n = n /\ HALF \in Nat \ {0}
    BY HALFAssumption
  <2> HIDE DEF W
  <2>2. n % W = n
    BY <2>1, ModUnique
  <2> QED BY <2>1, <2>2 DEF W
<1>2. /\ Value(SignExtend(n)) = n /\ Corrected(SignExtend(n)) = SignExtend(n)
      /\ Value(SignExtend(2 * HALF - 1 - n)) = -n
      /\ Corrected(SignExtend(2 * HALF - 1 - n)) = SignExtend(2 * HALF - 1 - n)
  BY SignedDigits
<1>3. cpu2agc(n) = n
  BY <1>1 DEF cpu2agc
<1>4. CASE ~negative
  BY <1>2, <1>3, <1>4 DEF Signed
<1>5. CASE negative /\ n = 0
  <2>1. Signed(negative, n) = n
    <3>1. -n = n
      <4>1. n \in Int /\ n = 0
        BY <1>1, <1>5
      <4>2. \A i \in Int : i <= 0 /\ i >= 0 => -i = i
        OBVIOUS
      <4>3. n <= 0 /\ n >= 0
        BY <4>1
      <4> QED BY <4>1, <4>2, <4>3, Zenon
    <3> QED BY <3>1 DEF Signed
  <2> QED BY <1>2, <1>3, <2>1
<1>6. CASE negative /\ n # 0
  <2>1. Signed(negative, n) = -n /\ -n < 0 /\ -(-n) = n
    BY <1>6 DEF Signed
  <2>2. cpu2agc(-n) = 2 * HALF - 1 - n
    BY <1>1, <2>1 DEF cpu2agc
  <2> QED BY <1>2, <2>1, <2>2
<1> QED BY <1>4, <1>5, <1>6

\* Truncating division of signed magnitudes, and its remainder.
LEMMA TruncatedDivides ==
  ASSUME NEW K \in Nat \ {0}, NEW Q \in Nat, NEW R \in 0 .. K - 1,
         NEW below \in BOOLEAN, NEW negative \in BOOLEAN
  PROVE  LET n == Signed(below, Q * K + R)
             d == Signed(negative, K)
         IN  /\ Truncated(n, d) = Signed(below # negative, Q)
             /\ n - d * Truncated(n, d) = Signed(below, R)
<1> DEFINE M == Q * K + R
           n == Signed(below, M)
           d == Signed(negative, K)
           i == IF n < 0 THEN -n ELSE n
           j == IF d < 0 THEN -d ELSE d
<1>1. M \div K = Q /\ M \in Nat /\ Q * K \in Nat
  <2>1. (K * Q + R) \div K = Q
    BY DivModUnique
  <2>2. K * Q = Q * K /\ Q * K \in Nat
    OBVIOUS
  <2> QED BY <2>1, <2>2
<1>2. M = 0 => Q = 0 /\ R = 0
  <2> SUFFICES ASSUME M = 0 PROVE Q = 0 /\ R = 0
    OBVIOUS
  <2>1. Q * K = 0 /\ R = 0
    BY <1>1
  <2> QED BY <2>1
<1> HIDE DEF M
<1>3. i = M /\ j = K /\ (d < 0 <=> negative) /\ (n < 0 <=> below /\ M # 0)
  BY <1>1 DEF Signed
<1> HIDE DEF i, j
<1>4. Truncated(n, d) = IF (n < 0) = (d < 0) THEN i \div j ELSE -(i \div j)
  BY DEF Truncated, i, j
<1> HIDE DEF n, d
<1>5. Truncated(n, d) = IF (n < 0) = (d < 0) THEN Q ELSE -Q
  BY <1>1, <1>3, <1>4
<1>6. Truncated(n, d) = Signed(below # negative, Q)
  <2>1. CASE M = 0
    BY <1>2, <1>5, <2>1 DEF Signed
  <2>2. CASE M # 0
    BY <1>3, <1>5, <2>2 DEF Signed
  <2> QED BY <2>1, <2>2
<1>7. n - d * Truncated(n, d) = Signed(below, R)
  <2>1. d * Truncated(n, d) = Signed(below, Q * K)
    BY <1>6 DEF Signed, d
  <2>2. Signed(below, M) - Signed(below, Q * K) = Signed(below, R)
    BY <1>1 DEF Signed, M
  <2> QED BY <2>1, <2>2 DEF n
<1> QED BY <1>6, <1>7 DEF n, d, M

\* The dividend and the divisor for which the code divides as C does.
Fits(a, l, v) ==
  \/ HighDigit(a, l) < Magnitude(Value(v))
  \/ HighDigit(a, l) = Magnitude(Value(v)) /\ LowDigit(a, l) = 0

\* Signs are truth values.
LEMMA SignsAreBoolean ==
  ASSUME NEW a, NEW l
  PROVE  Negative(l) \in BOOLEAN /\ Below(a, l) \in BOOLEAN
<1>1. \A u : Negative(u) \in BOOLEAN
  BY DEF Negative
<1>2. Below(a, l) = Negative(l) \/ Below(a, l) = Negative(a)
  BY DEF Below
<1> QED BY <1>1, <1>2

\* Which of its four divisions the code performs.
LEMMA WhichDivision ==
  ASSUME NEW a, NEW l, NEW v, Within(a), Within(l), ~(l = Not(0) /\ Value(a) > 0)
  PROVE  LET X == HighDigit(a, l)
             m == LowDigit(a, l)
             K == Magnitude(Value(v))
             decent == SpToDecent(OverflowCorrected(a), l)
             k == OverflowCorrected(v)
             dividend == agc2cpu2(decent)
             divisor == agc2cpu(k)
             remainder == dividend - divisor * Truncated(dividend, divisor)
         IN  /\ ValueOverflowed(v) # AGC_P0 => Quotient(a, l, v) = SimulateDV(a, l, v)
             /\ Within(v) /\ ~Fits(a, l, v) => Quotient(a, l, v) = SimulateDV(a, l, v)
             /\ Within(v) /\ Fits(a, l, v) /\ X = 0 /\ m = 0
                  => Quotient(a, l, v)
                       = <<SignExtend(IF SignBit(l) = SignBit(k)
                                      THEN IF K = 0 THEN Largest ELSE AGC_P0
                                      ELSE IF K = 0 THEN Smallest ELSE AGC_M0), l>>
             /\ Within(v) /\ Fits(a, l, v) /\ ~(X = 0 /\ m = 0) /\ X = K
                  => Quotient(a, l, v)
                       = <<SignExtend(IF DecentToSp(decent)[1] = k THEN Largest ELSE Smallest),
                           SignExtend(DecentToSp(decent)[1])>>
             /\ Within(v) /\ Fits(a, l, v) /\ ~(X = 0 /\ m = 0) /\ X # K
                  => Quotient(a, l, v)
                       = <<SignExtend(cpu2agc(Truncated(dividend, divisor))),
                           IF remainder # 0 THEN SignExtend(cpu2agc(remainder))
                           ELSE IF dividend >= 0 THEN AGC_P0 ELSE SignExtend(AGC_M0)>>
<1> DEFINE X == HighDigit(a, l)
           m == LowDigit(a, l)
           K == Magnitude(Value(v))
           decent == SpToDecent(OverflowCorrected(a), l)
           pair == DecentToSp(decent)
           k == OverflowCorrected(v)
           absA == AbsSP(pair[1])
           absL == AbsSP(pair[2])
           absK == AbsSP(k)
           dividend == agc2cpu2(decent)
           divisor == agc2cpu(k)
           remainder == dividend - divisor * Truncated(dividend, divisor)
           beyond == absA > absK \/ (absA = absK /\ absL # AGC_P0) \/ ValueOverflowed(v) # AGC_P0
           simulated == SimulateDV(a, l, v)
           small == <<SignExtend(IF SignBit(l) = SignBit(k)
                                 THEN IF absK = 0 THEN Largest ELSE AGC_P0
                                 ELSE IF absK = 0 THEN Smallest ELSE AGC_M0), l>>
           equal == <<SignExtend(IF pair[1] = k THEN Largest ELSE Smallest), SignExtend(pair[1])>>
           plain == <<SignExtend(cpu2agc(Truncated(dividend, divisor))),
                      IF remainder # 0 THEN SignExtend(cpu2agc(remainder))
                      ELSE IF dividend >= 0 THEN AGC_P0 ELSE SignExtend(AGC_M0)>>
<1>1. Quotient(a, l, v) = IF beyond THEN simulated
                          ELSE IF absA = 0 /\ absL = 0 THEN small
                          ELSE IF absA = absK THEN equal ELSE plain
  BY DEF Quotient
<1>2. absA = X /\ absL = m /\ X \in 0 .. HALF - 1 /\ m \in 0 .. HALF - 1
  BY CodeDividendParts, DividendDigits
<1>3. Within(v) => absK = K /\ K \in 0 .. HALF - 1 /\ ValueOverflowed(v) = AGC_P0
  BY CodeDivisor, WithinDigit
<1>4. ValueOverflowed(v) # AGC_P0 => beyond
  OBVIOUS
<1>5. Within(v) => (beyond <=> ~Fits(a, l, v))
  <2> SUFFICES ASSUME Within(v) PROVE beyond <=> ~Fits(a, l, v)
    OBVIOUS
  <2>1. beyond <=> X > K \/ (X = K /\ m # 0)
    BY <1>2, <1>3 DEF AGC_P0
  <2>2. Fits(a, l, v) <=> X < K \/ (X = K /\ m = 0)
    BY DEF Fits
  <2>3. X \in Int /\ K \in Int
    BY <1>2, <1>3, HALFAssumption
  <2> HIDE DEF X, K, beyond, m
  <2> QED BY <2>1, <2>2, <2>3
<1>6. Within(v) => small = <<SignExtend(IF SignBit(l) = SignBit(k)
                                        THEN IF K = 0 THEN Largest ELSE AGC_P0
                                        ELSE IF K = 0 THEN Smallest ELSE AGC_M0), l>>
  BY <1>3
<1> HIDE DEF beyond, simulated, small, absA, absL, absK, equal, plain, X, m
<1> QED BY <1>1, <1>2, <1>3, <1>4, <1>5, <1>6 DEF simulated, equal, plain, X, m

\* What the C division leaves: the numbers that the hardware does, the sign of a
\* zero apart.
LEMMA CodeDivides ==
  ASSUME NEW a, NEW l, NEW v, Within(a), Within(l), Within(v),
         ~(l = Not(0) /\ Value(a) > 0), Fits(a, l, v), NEW Q \in 0 .. HALF - 1, NEW R \in 0 .. HALF - 1,
         Quotients(HighDigit(a, l) * HALF + LowDigit(a, l), Magnitude(Value(v)), Q, R)
  PROVE  Leaves(Quotient(a, l, v), Below(a, l), Negative(v), Q, R)
<1> DEFINE X == HighDigit(a, l)
           m == LowDigit(a, l)
           K == Magnitude(Value(v))
           B == Below(a, l)
           N == Negative(v)
           decent == SpToDecent(OverflowCorrected(a), l)
           first == DecentToSp(decent)[1]
           k == OverflowCorrected(v)
           dividend == agc2cpu2(decent)
           divisor == agc2cpu(k)
           truncated == Truncated(dividend, divisor)
           remainder == dividend - divisor * truncated
<1>1. HALF \in Nat \ {0} /\ HALF > 1 /\ X \in 0 .. HALF - 1 /\ m \in 0 .. HALF - 1 /\ K \in 0 .. HALF - 1
  BY DividendDigits, WithinDigit, HALFAssumption, DigitsAssumption
<1>2. B \in BOOLEAN /\ N \in BOOLEAN
  BY SignsAreBoolean
<1>3. X * HALF + m = Q * K + R /\ R <= K /\ (R = K => Q = HALF - 1)
  BY DEF Quotients
<1>4. X < K \/ (X = K /\ m = 0)
  BY DEF Fits
<1>5. /\ first = IF B THEN 2 * HALF - 1 - X ELSE X
      /\ k = IF N THEN 2 * HALF - 1 - K ELSE K
      /\ dividend = Signed(B, HALF * X + m) /\ divisor = Signed(N, K)
      /\ SignBit(k) = SignBit(v)
  BY CodeDividendParts, CodeDivisor
<1>6. /\ X = 0 /\ m = 0
           => Quotient(a, l, v)
                = <<SignExtend(IF SignBit(l) = SignBit(k)
                               THEN IF K = 0 THEN Largest ELSE AGC_P0
                               ELSE IF K = 0 THEN Smallest ELSE AGC_M0), l>>
      /\ ~(X = 0 /\ m = 0) /\ X = K
           => Quotient(a, l, v) = <<SignExtend(IF first = k THEN Largest ELSE Smallest), SignExtend(first)>>
      /\ ~(X = 0 /\ m = 0) /\ X # K
           => Quotient(a, l, v) = <<SignExtend(cpu2agc(truncated)),
                                    IF remainder # 0 THEN SignExtend(cpu2agc(remainder))
                                    ELSE IF dividend >= 0 THEN AGC_P0 ELSE SignExtend(AGC_M0)>>
  BY WhichDivision
<1>7. /\ Value(SignExtend(Largest)) = HALF - 1 /\ Value(SignExtend(Smallest)) = -(HALF - 1)
      /\ Value(SignExtend(AGC_P0)) = 0 /\ Value(SignExtend(AGC_M0)) = 0
      /\ AGC_P0 = SignExtend(AGC_P0) /\ Corrected(SignExtend(AGC_P0)) = SignExtend(AGC_P0)
      /\ Corrected(SignExtend(AGC_M0)) = SignExtend(AGC_M0)
  BY <1>1 DEF Largest, Smallest, AGC_P0, AGC_M0, SignExtend, IsNegative, Value, Not, Corrected,
              OverflowCorrected
<1>8. \A b : Signed(b, 0) = 0
  <2>1. \A i \in Int : i <= 0 /\ i >= 0 => -i = 0
    OBVIOUS
  <2>2. -0 = 0
    <3>1. 0 \in Int /\ 0 <= 0 /\ 0 >= 0
      OBVIOUS
    <3> QED BY <2>1, <3>1, Zenon
  <2> QED BY <2>2, Zenon DEF Signed
<1> HIDE DEF K, X, m, B, N, first, k, dividend, divisor
<1>9. CASE X = 0 /\ m = 0
  <2>1. Q * K = 0 /\ R = 0
    <3>1. X * HALF + m = 0 /\ Q * K \in Nat
      BY <1>1, <1>9
    <3> QED BY <3>1, <1>1, <1>3
  <2>2. Value(l) = 0 /\ Value(a) = 0
    <3> DEFINE x == Value(a)
               y == Lower(a, l)
    <3>1. y \in Int /\ y > -HALF /\ (y = 0 => Value(l) = 0) /\ x \in Int
      BY <1>1 DEF Lower, Within, Register, Value, Not
    <3>2. Magnitude(x) - (IF y < 0 THEN 1 ELSE 0) = 0 /\ y + (IF y < 0 THEN HALF ELSE 0) = 0
      BY <1>9 DEF X, m, HighDigit, LowDigit
    <3> HIDE DEF x, y
    <3>3. y = 0
      BY <1>1, <3>1, <3>2
    <3>4. x = 0
      BY <3>1, <3>2, <3>3 DEF Magnitude
    <3> QED BY <3>1, <3>3, <3>4 DEF x
  <2>3. B = Negative(l)
    BY <2>2 DEF Below, B
  <2>4. Corrected(l) = l
    BY WithinDigit, DigitValue
  <2>5. SignBit(l) = SignBit(k) <=> ~(B # N)
    <3>1. /\ SignBit(l) = IF Negative(l) THEN 1 ELSE 0
          /\ SignBit(v) = IF Negative(v) THEN 1 ELSE 0
      BY WithinDigit, DigitSigns
    <3> QED BY <1>2, <1>5, <2>3, <3>1 DEF N
  <2>6. K = 0 => Q = HALF - 1
    BY <1>3, <2>1
  <2>7. K # 0 => Q = 0
    BY <1>1, <2>1
  <2> DEFINE q == SignExtend(IF SignBit(l) = SignBit(k)
                             THEN IF K = 0 THEN Largest ELSE AGC_P0
                             ELSE IF K = 0 THEN Smallest ELSE AGC_M0)
  <2>8. Value(q) = Signed(B # N, Q)
    <3>1. CASE K = 0
      BY <3>1, <2>5, <2>6, <1>7 DEF Signed
    <3>2. CASE K # 0
      BY <3>2, <2>7, <1>7, <1>8
    <3> QED BY <3>1, <3>2
  <2>9. Value(Corrected(l)) = Signed(B, R)
    BY <2>1, <2>2, <2>4, <1>8
  <2>10. Quotient(a, l, v) = <<q, l>>
    BY <1>6, <1>9
  <2> HIDE DEF q
  <2> QED BY <2>8, <2>9, <2>10 DEF Leaves, B, N
<1>10. CASE ~(X = 0 /\ m = 0) /\ X = K
  <2>1. R = K /\ Q = HALF - 1 /\ K > 0 /\ m = 0
    <3>1. m = 0 /\ K > 0
      BY <1>1, <1>4, <1>10
    <3>2. R = (HALF - Q) * K
      BY <1>1, <1>3, <1>10, <3>1
    <3>3. (HALF - Q) * K >= K
      <4>1. HALF - Q \in Nat \ {0}
        BY <1>1
      <4>2. \A i \in Nat \ {0}, j \in Nat : i * j >= j
        OBVIOUS
      <4> QED BY <1>1, <4>1, <4>2
    <3> QED BY <1>1, <1>3, <3>1, <3>2, <3>3
  <2>2. first = k <=> ~(B # N)
    BY <1>1, <1>2, <1>5, <1>10, <2>1
  <2>3. Value(SignExtend(IF first = k THEN Largest ELSE Smallest)) = Signed(B # N, Q)
    BY <1>7, <2>1, <2>2 DEF Signed
  <2>4. Value(Corrected(SignExtend(first))) = Signed(B, R)
    <3>1. R \in 0 .. HALF - 1 /\ first = IF B THEN 2 * HALF - 1 - R ELSE R
      BY <1>5, <1>10, <2>1
    <3> QED BY <3>1, SignedDigits DEF Signed
  <2>5. Quotient(a, l, v) = <<SignExtend(IF first = k THEN Largest ELSE Smallest), SignExtend(first)>>
    BY <1>6, <1>10
  <2> QED BY <2>3, <2>4, <2>5 DEF Leaves, B, N
<1>11. CASE ~(X = 0 /\ m = 0) /\ X # K
  <2>1. X < K /\ K > 0
    BY <1>1, <1>4, <1>11
  <2>2. R < K
    <3> SUFFICES ASSUME R = K PROVE FALSE
      BY <1>1, <1>3
    <3>1. Q * K + R = HALF * K
      BY <1>1, <1>3
    <3>2. HALF * X <= HALF * (K - 1)
      BY <1>1, <2>1
    <3>3. HALF * (K - 1) = HALF * K - HALF /\ X * HALF = HALF * X
      BY <1>1
    <3>4. HALF * K \in Int /\ HALF * X \in Int
      BY <1>1
    <3> QED BY <3>1, <3>2, <3>3, <3>4, <1>1, <1>3
  <2>3. dividend = Signed(B, Q * K + R)
    <3>1. HALF * X + m = Q * K + R
      BY <1>1, <1>3
    <3> QED BY <3>1, <1>5
  <2>4. truncated = Signed(B # N, Q) /\ remainder = Signed(B, R)
    <3>1. K \in Nat \ {0} /\ Q \in Nat /\ R \in 0 .. K - 1 /\ B \in BOOLEAN /\ N \in BOOLEAN
      BY <1>1, <1>2, <2>1, <2>2
    <3> QED BY <3>1, <2>3, <1>5, TruncatedDivides
  <2> HIDE DEF truncated, remainder
  <2> DEFINE q == SignExtend(cpu2agc(truncated))
             r == IF remainder # 0 THEN SignExtend(cpu2agc(remainder))
                  ELSE IF dividend >= 0 THEN AGC_P0 ELSE SignExtend(AGC_M0)
  <2>5. Value(q) = Signed(B # N, Q)
    <3>1. (B # N) \in BOOLEAN
      OBVIOUS
    <3> QED BY <2>4, <3>1, IntegerDigit
  <2>6. Value(Corrected(r)) = Signed(B, R)
    <3>1. CASE remainder # 0
      BY <2>4, <1>2, <3>1, IntegerDigit
    <3>2. CASE remainder = 0
      BY <2>4, <1>7, <3>2
    <3> QED BY <3>1, <3>2
  <2>7. Quotient(a, l, v) = <<q, r>>
    BY <1>6, <1>11
  <2> HIDE DEF q, r
  <2> QED BY <2>5, <2>6, <2>7 DEF Leaves, B, N
<1> QED BY <1>9, <1>10, <1>11

-----------------------------------------------------------------------------
(* The types of the machine.                                               *)

\* A machine in the middle of an instruction, with words in its memory.
Typed(m) ==
  /\ m = [c |-> m.c, z |-> m.z, r |-> m.r]
  /\ m.c \in [Cells -> Register]
  /\ \A p \in Cells : p >= REG16 => m.c[p] \in Word
  /\ m.z \in Nat
  /\ m.r \subseteq {RegTIME3, RegTIME4, RegTIME5}

LEMMA TypedRuns ==
  ASSUME NEW m, Typed(m)
  PROVE  Running(m)
BY HALFAssumption
   DEF Typed, Running, Banked, BankRegs, Register, Cells, Registers, RegEB, RegFB, RegBB, RegA, RegZERO

LEMMA BeginTyped ==
  ASSUME TypeOK
  PROVE  Typed(Begin)
<1>1. Begin.z \in Nat /\ Begin.r \subseteq {RegTIME3, RegTIME4, RegTIME5}
  BY MachineAssumption DEF TypeOK, Begin
<1> QED
  BY <1>1, BeginRuns DEF Typed, Running

LEMMA PutTyped ==
  ASSUME NEW m, Typed(m), NEW p, NEW v \in Register, p \in Cells /\ p >= REG16 => v \in Word
  PROVE  Typed(Put(m, p, v))
<1> DEFINE c == [m.c EXCEPT ![p] = v]
<1>1. Put(m, p, v) = [c |-> c, z |-> m.z, r |-> m.r]
  BY DEF Put, Typed
<1>2. c = [q \in Cells |-> IF q = p THEN v ELSE m.c[q]]
  BY DEF Typed
<1> HIDE DEF c
<1>3. c \in [Cells -> Register] /\ \A q \in Cells : q >= REG16 => c[q] \in Word
  BY <1>2 DEF Typed
<1> QED
  BY <1>1, <1>3 DEF Typed

\* A, L and Q keep sixteen bits.
LEMMA PutRegisters ==
  ASSUME NEW m, Typed(m), NEW v \in Register
  PROVE  Typed(Put(m, RegA, v)) /\ Typed(Put(m, RegL, v)) /\ Typed(Put(m, RegQ, v))
BY PutTyped DEF RegA, RegL, RegQ, REG16

LEMMA EditedType ==
  ASSUME NEW p, NEW w \in Word
  PROVE  Edited(p, w) \in Word
<1>1. HALF \in Nat \ {0} /\ 2 * HALF \in Nat \ {0} /\ w \in Nat /\ w <= 2 * HALF - 1
      /\ Word = 0 .. 2 * HALF - 1
  BY HALFAssumption DEF Word
<1>2. w \div 2 \in 0 .. HALF - 1 /\ w % 2 \in {0, 1}
  BY <1>1
<1>3. (w \div 2) + (w % 2) * HALF \in Word
  <2> DEFINE x == w \div 2
             y == w % 2
  <2> HIDE DEF x, y
  <2>1. x \in 0 .. HALF - 1 /\ y \in {0, 1} => x + y * HALF \in Word
    BY <1>1
  <2> QED
    BY <2>1, <1>2 DEF x, y
<1>4. (w \div 2) + (IF IsNegative(w) THEN HALF ELSE 0) \in Word
  BY <1>1, <1>2
<1>5. ((2 * w) % (2 * HALF)) + (IF IsNegative(w) THEN 1 ELSE 0) \in Word
  <2>1. CASE ~IsNegative(w)
    <3>1. (2 * w) % (2 * HALF) \in 0 .. 2 * HALF - 1
      BY <1>1, DivMod, SMTT(30)
    <3> QED
      BY <3>1, <2>1, <1>1
  <2>2. CASE IsNegative(w)
    <3>1. 2 * w = (2 * HALF) * 1 + (2 * w - 2 * HALF) /\ 2 * w - 2 * HALF \in 0 .. 2 * HALF - 1
      BY <2>2, <1>1 DEF IsNegative
    <3>2. (2 * w) % (2 * HALF) = 2 * w - 2 * HALF
      BY <3>1, <1>1, ModUnique
    <3> QED
      BY <3>2, <2>2, <1>1
  <2> QED
    BY <2>1, <2>2
<1>6. (w \div EDOPUNIT) % EDOPUNIT \in Word
  <2> DEFINE q == w \div EDOPUNIT
             s == q \div EDOPUNIT
  <2>0. w \in Int /\ EDOPUNIT \in Nat \ {0}
    BY <1>1, MachineAssumption
  <2>1. q \in Int /\ w = EDOPUNIT * q + (w % EDOPUNIT) /\ w % EDOPUNIT \in 0 .. EDOPUNIT - 1
        /\ EDOPUNIT \in Nat \ {0}
    BY <2>0, DivMod
  <2>2. q \in 0 .. w
    BY <2>1, <1>1, QuotientBelow
  <2> HIDE DEF q
  <2>3. s \in Int /\ q = EDOPUNIT * s + (q % EDOPUNIT) /\ q % EDOPUNIT \in 0 .. EDOPUNIT - 1
    BY <2>1, DivMod
  <2>4. s \in 0 .. q
    BY <2>1, <2>2, <2>3, QuotientBelow
  <2> HIDE DEF s
  <2>5. EDOPUNIT * s >= 0
    BY <2>1, <2>4
  <2>6. q % EDOPUNIT <= q
    BY <2>1, <2>2, <2>3, <2>5
  <2> QED
    BY <2>2, <2>3, <2>6, <1>1, <2>1 DEF q
<1>7. AGC_P0 \in Word
  BY <1>1 DEF AGC_P0
<1> QED
  BY <1>3, <1>4, <1>5, <1>6, <1>7 DEF Edited

LEMMA AssignTyped ==
  ASSUME NEW m, Typed(m), NEW p, NEW w \in Word
  PROVE  Typed(Assign(m, p, w))
<1> DEFINE v == Edited(p, w)
           z == IF p = RegZ THEN w ELSE m.z
<1>1. v \in Word /\ v \in Register /\ w \in Nat
  <2>1. v \in Word
    BY EditedType
  <2> HIDE DEF v
  <2> QED
    BY <2>1, HALFAssumption DEF Word, Register
<1> HIDE DEF v
<1>2. Typed(Put(m, p, v))
  BY <1>1, PutTyped
<1>3. Assign(m, p, w) = [c |-> [m.c EXCEPT ![p] = v], z |-> z, r |-> m.r]
  <2>1. m = [c |-> m.c, z |-> m.z, r |-> m.r]
    BY DEF Typed
  <2>2. Assign(m, p, w) = [m EXCEPT !.c[p] = v, !.z = IF p = RegZ THEN w ELSE @]
    BY DEF Assign, v
  <2> QED
    BY <2>1, <2>2
<1>4. Put(m, p, v).c = [m.c EXCEPT ![p] = v]
  BY DEF Put, Typed
<1>5. z \in Nat
  BY <1>1 DEF Typed
<1> HIDE DEF z
<1> QED
  BY <1>2, <1>3, <1>4, <1>5 DEF Typed

LEMMA StoreTyped ==
  ASSUME NEW m, Typed(m), NEW p, NEW v \in Register
  PROVE  Typed(Store(m, p, v))
<1>1. CASE p < REG16
  <2>1. p \in Cells => ~(p >= REG16)
    BY <1>1, CellsAreNumbers DEF REG16
  <2> QED
    BY <1>1, <2>1, PutTyped DEF Store
<1>2. CASE ~(p < REG16)
  BY <1>2, WordTypes, AssignTyped DEF Store
<1> QED
  BY <1>1, <1>2

LEMMA RewriteTyped ==
  ASSUME NEW m, Typed(m), NEW p \in Cells
  PROVE  Typed(Rewrite(m, p)) /\ Typed(RewriteEditing(m, p))
<1>1. p < REG16 \/ m.c[p] \in Word
  BY CellsAreNumbers DEF Typed, REG16
<1>2. p \in Editing => m.c[p] \in Word
  BY DEF Typed, Editing, REG16, RegCYR, RegSR, RegCYL, RegEDOP
<1> QED
  BY <1>1, <1>2, AssignTyped DEF Rewrite, RewriteEditing

LEMMA SkipTyped ==
  ASSUME NEW m, Typed(m), NEW z \in Nat
  PROVE  Typed([m EXCEPT !.z = z])
BY DEF Typed

\* The carry into TIME2 is a word, and a request one of the three.
LEMMA RequestsTyped ==
  ASSUME NEW m, Typed(m), NEW k, NEW sum
  PROVE  Typed(InterruptRequests(m, k, sum))
<1>1. \A w \in Word : CounterPINC(w) \in Word /\ CounterPINC(w) \in Register
  BY HALFAssumption, DigitsAssumption, SMT DEF Word, Register, CounterPINC, AGC_P0, AGC_P1, AGC_M0
<1>2. Typed([m EXCEPT !.c[RegTIME2] = CounterPINC(@)])
  <2>1. CASE RegTIME2 \in Cells
    <3>1. m.c[RegTIME2] \in Word
      BY <2>1 DEF Typed, RegTIME2, REG16
    <3>2. Typed(Put(m, RegTIME2, CounterPINC(m.c[RegTIME2])))
      BY <3>1, <1>1, PutTyped
    <3> QED
      BY <3>2 DEF Put
  <2>2. CASE RegTIME2 \notin Cells
    <3>1. [m EXCEPT !.c[RegTIME2] = CounterPINC(@)] = m
      BY <2>2 DEF Typed
    <3> QED
      BY <3>1
  <2> QED
    BY <2>1, <2>2
<1>3. \A r \in SUBSET {RegTIME3, RegTIME4, RegTIME5} : Typed([m EXCEPT !.r = r])
  BY DEF Typed
<1>4. m.r \cup ({k} \cap {RegTIME3, RegTIME4, RegTIME5}) \in SUBSET {RegTIME3, RegTIME4, RegTIME5}
  BY DEF Typed
<1> QED
  BY <1>2, <1>3, <1>4 DEF InterruptRequests

\* The mirrors of the bank registers are words.
LEMMA BankWords ==
  ASSUME NEW c \in [Cells -> Register], \A p \in Cells : p >= REG16 => c[p] \in Word
  PROVE  /\ Banks(c) \in [Cells -> Register]
         /\ \A p \in Cells : p >= REG16 => Banks(c)[p] \in Word
         /\ \A p \in Cells \ BankRegs : Banks(c)[p] = c[p]
<1> DEFINE wrote == cell[RegBB] # c[RegBB]
           moved == cell[RegEB] # c[RegEB] \/ cell[RegFB] # c[RegFB]
           eb == IF wrote THEN (c[RegBB] % EBS) * EBUNIT ELSE c[RegEB]
           fb == IF wrote THEN FBank(c[RegBB]) ELSE c[RegFB]
           bb == IF ~wrote /\ moved THEN FBank(c[RegFB]) + EBank(c[RegEB]) ELSE c[RegBB]
           x == EBank(eb) * EBUNIT
           y == FBank(fb)
           z == FBank(bb) + (bb % EBS)
<1>0. EBS \in Nat \ {0} /\ EBUNIT \in Nat \ {0} /\ FBUNIT \in Nat \ {0} /\ HALF \in Nat \ {0}
      /\ Word = 0 .. 2 * HALF - 1 /\ Register = 0 .. 4 * HALF - 1
  BY MachineAssumption, HALFAssumption DEF Word, Register
<1>1. c[RegEB] \in Word /\ c[RegFB] \in Word /\ c[RegBB] \in Word
  BY DEF RegEB, RegFB, RegBB, REG16, Cells, Registers, RegA, RegZERO
<1>2. \A b \in 0 .. EBS - 1 : b * EBUNIT \in Word
  <2> SUFFICES ASSUME NEW b \in 0 .. EBS - 1 PROVE b * EBUNIT \in Word
    OBVIOUS
  <2>1. b + 1 \in 1 .. EBS /\ (b + 1) - 1 = b
    BY <1>0
  <2>2. EBUNIT * b \in Word
    BY <2>1, MachineAssumption
  <2>3. EBUNIT * b = b * EBUNIT
    BY <1>0
  <2> QED
    BY <2>2, <2>3
<1>3. \A w \in Word, b \in 0 .. EBS - 1 : FBank(w) \in Word /\ FBank(w) + b \in Word
  BY FBankWord
<1>4. eb \in Word /\ fb \in Word /\ bb \in Word
  <2>0. c[RegBB] \in Int /\ c[RegEB] \in Int
    BY <1>0, <1>1
  <2>1. c[RegBB] % EBS \in 0 .. EBS - 1
    BY <1>0, <2>0, DivMod
  <2>2. EBank(c[RegEB]) \in 0 .. EBS - 1
    BY <2>0, EBankTwice
  <2>3. 0 \in 0 .. EBS - 1
    BY <1>0
  <2> QED
    BY <1>1, <1>2, <1>3, <2>1, <2>2, <2>3
<1>5. Banks(c) = [c EXCEPT ![RegEB] = x, ![RegFB] = y, ![RegBB] = z]
  BY DEF Banks
<1> HIDE DEF eb, fb, bb
<1>6. EBank(eb) \in 0 .. EBS - 1 /\ bb % EBS \in 0 .. EBS - 1 /\ 0 \in 0 .. EBS - 1
  <2>1. eb \in Int /\ bb \in Int
    BY <1>0, <1>4
  <2> QED
    <3>1. EBank(eb) \in 0 .. EBS - 1
      BY <2>1, EBankTwice
    <3>2. bb % EBS \in 0 .. EBS - 1
      BY <1>0, <2>1, DivMod
    <3> QED
      BY <1>0, <3>1, <3>2
<1>7. x \in Word /\ y \in Word /\ z \in Word
  BY <1>2, <1>3, <1>4, <1>6
<1> HIDE DEF x, y, z
<1>8. x \in Register /\ y \in Register /\ z \in Register
  BY <1>7, <1>0
<1>9. Banks(c) = [p \in Cells |-> IF p = RegBB THEN z ELSE IF p = RegFB THEN y
                                  ELSE IF p = RegEB THEN x ELSE c[p]]
  BY <1>5 DEF RegEB, RegFB, RegBB
<1> QED
  BY <1>7, <1>8, <1>9 DEF BankRegs

\* The end of an instruction keeps the types.
LEMMA FinishTyped ==
  ASSUME TypeOK, NEW op, NEW k, NEW m, Typed(m), Finish(op, k, m)
  PROVE  TypeOK'
<1> DEFINE c == [m.c EXCEPT ![RegZERO] = AGC_P0, ![RegZ] = m.z % ZMOD, ![RegL] = Corrected(@)]
<1>0. /\ RegL \in Cells /\ RegZ \in Cells /\ RegZERO \in Cells
      /\ RegL # RegZ /\ RegL # RegZERO /\ RegZ # RegZERO /\ ~(RegL >= REG16)
      /\ RegL \notin BankRegs /\ RegZ \notin BankRegs /\ RegZERO \notin BankRegs
  BY DEF Cells, Registers, BankRegs, RegA, RegL, RegEB, RegFB, RegZ, RegBB, RegZERO, REG16
<1>1. c = [p \in Cells |-> IF p = RegZERO THEN AGC_P0 ELSE IF p = RegZ THEN m.z % ZMOD
                           ELSE IF p = RegL THEN Corrected(m.c[RegL]) ELSE m.c[p]]
  BY <1>0 DEF Typed
<1>2. cell' = Banks(c) /\ rupts' = rupts \cup m.r
  BY DEF Finish
<1>3. m.z % ZMOD \in 0 .. ZMOD - 1 /\ ZMOD \in Nat /\ ZMOD <= HALF /\ HALF \in Nat /\ HALF >= 1
  <2>1. m.z \in Int /\ ZMOD \in Nat \ {0}
    BY MachineAssumption DEF Typed
  <2> QED
    BY <2>1, MachineAssumption, HALFAssumption, DivMod
<1>4. AGC_P0 \in Word /\ AGC_P0 \in Register /\ m.z % ZMOD \in Word /\ m.z % ZMOD \in Register
  BY <1>3 DEF AGC_P0, Word, Register
<1>5. m.c[RegL] \in Register
  BY <1>0 DEF Typed
<1>6. Corrected(m.c[RegL]) \in Register /\ Corrected(Corrected(m.c[RegL])) = Corrected(m.c[RegL])
  <2>1. OverflowCorrected(m.c[RegL]) \in Word
    BY <1>5, WordTypes
  <2> QED
    BY <1>5, <2>1, WordTypes, WordRange DEF Corrected
<1> HIDE DEF c
<1>7. c \in [Cells -> Register] /\ \A p \in Cells : p >= REG16 => c[p] \in Word
  BY <1>0, <1>1, <1>4, <1>6 DEF Typed
<1>8. /\ cell' \in [Cells -> Register]
      /\ \A p \in Cells : p >= REG16 => cell'[p] \in Word
      /\ \A p \in Cells \ BankRegs : cell'[p] = c[p]
  BY <1>2, <1>7, BankWords
<1>9. /\ cell'[RegL] = Corrected(m.c[RegL])
      /\ cell'[RegZ] = m.z % ZMOD
      /\ cell'[RegZERO] = AGC_P0
  BY <1>0, <1>1, <1>8
<1>10. rupts' \subseteq {RegTIME3, RegTIME4, RegTIME5}
  BY <1>2 DEF Typed, TypeOK
<1> QED
  BY <1>3, <1>6, <1>8, <1>9, <1>10 DEF TypeOK

-----------------------------------------------------------------------------
(* Every instruction keeps the types.                                      *)

LEMMA FetchTypes ==
  ASSUME TypeOK, NEW k, FindMemoryWord(k) \in Cells
  PROVE  /\ A \in Register /\ L \in Register /\ Operand(k) \in Register
         /\ PlusOne \in Register /\ MinusOne \in Register
<1>1. A \in Register /\ L \in Register
  BY BeginRuns DEF A, L, Cells, Registers, RegA, RegL, RegZERO
<1>2. PlusOne \in Register /\ AGC_M1 \in Word
  BY DigitsAssumption, HALFAssumption DEF PlusOne, AGC_P1, AGC_M1, Register, Word
<1> QED
  BY <1>1, <1>2, OperandType, ExtendedType DEF Operand, MinusOne

\* The sign of an overflow, as a word and as what it carries.
LEMMA CarryType ==
  ASSUME NEW v
  PROVE  Carry(v) \in Register /\ SignExtend(ValueOverflowed(v)) \in Register
<1>1. ValueOverflowed(v) \in Word
  BY DigitsAssumption, HALFAssumption DEF ValueOverflowed, AGC_P0, AGC_P1, AGC_M1, Word
<1> QED
  BY <1>1, ExtendedType DEF Carry

LEMMA DoubleTypes ==
  ASSUME TypeOK, NEW k, FindMemoryWord(k) \in Cells, FindMemoryWord(k) - 1 \in Cells
  PROVE  LowSum(k) \in Register /\ HighSum(k) \in Register /\ Corrected(LowSum(k)) \in Register
<1>1. LowSum(k) \in Register /\ Corrected(LowSum(k)) \in Register
  BY FetchTypes, WordTypes DEF LowSum
<1>2. AddSP16(A, Load(Begin, FindMemoryWord(k) - 1)) \in Register
  BY FetchTypes, OperandType, WordTypes
<1> QED
  BY <1>1, <1>2, CarryType, WordTypes DEF HighSum

LEMMA LoadType ==
  ASSUME NEW m, Typed(m), NEW p \in Cells
  PROVE  Load(m, p) \in Register
BY CellsAreNumbers, ExtendedType DEF Load, REG16, Typed

\* What CCS, MASK and MSU leave in A.
LEMMA DiminishedType ==
  ASSUME NEW v \in Register
  PROVE  odabs(v) \in Register
BY HALFAssumption DEF odabs, Diminished, Not, Register, AGC_P0

LEMMA MaskType ==
  ASSUME NEW v \in Register, NEW w \in Register
  PROVE  /\ And[<<v, w>>] \in Register
         /\ SignExtend(And[<<OverflowCorrected(v), OverflowCorrected(w)>>]) \in Register
<1>1. \A a, b \in Register : And[<<a, b>>] \in 0 .. a
  BY AndType
<1>2. /\ OverflowCorrected(v) \in Word /\ OverflowCorrected(w) \in Word
      /\ OverflowCorrected(v) \in Register /\ OverflowCorrected(w) \in Register
  <2>1. OverflowCorrected(v) \in Word /\ OverflowCorrected(w) \in Word
    BY WordTypes
  <2>2. Word \subseteq Register
    BY HALFAssumption DEF Word, Register
  <2> QED
    BY <2>1, <2>2
<1> DEFINE a == OverflowCorrected(v)
           b == OverflowCorrected(w)
           s == And[<<a, b>>]
           t == And[<<v, w>>]
<1>3. s \in 0 .. a /\ t \in 0 .. v
  BY <1>1, <1>2
<1> HIDE DEF a, b, s, t
<1>4. a \in Word /\ t \in 0 .. v /\ s \in 0 .. a
  BY <1>2, <1>3 DEF a
<1>5. s \in Word /\ t \in Register
  BY <1>4, HALFAssumption DEF Word, Register
<1> QED
  BY <1>5, ExtendedType DEF s, t, a, b

LEMMA DifferenceType ==
  ASSUME NEW u \in Register, NEW v \in Register
  PROVE  /\ Difference(u, v) % (4 * HALF) \in Register
         /\ SignExtend(Difference(u, v) % (2 * HALF)) \in Register
<1>1. HALF \in Nat \ {0} /\ 2 * HALF \in Nat \ {0} /\ 4 * HALF \in Nat \ {0} /\ u \in Int /\ v \in Int
  BY HALFAssumption DEF Register
<1> DEFINE d == Difference(u, v)
<1>2. d \in Int
  BY <1>1 DEF Difference
<1> HIDE DEF d
<1>3. d % (4 * HALF) \in 0 .. 4 * HALF - 1 /\ d % (2 * HALF) \in 0 .. 2 * HALF - 1
  BY <1>1, <1>2, DivMod
<1> QED
  BY <1>3, ExtendedType DEF d, Register, Word

LEMMA DivisorType ==
  ASSUME TypeOK, NEW k, FindMemoryWord(k) \in Cells
  PROVE  DvOperand(k) \in Register
<1>1. A \in Register /\ L \in Register /\ Operand(k) \in Register
  BY FetchTypes
<1>2. Not(A) \in Register /\ Not(L) \in Register
  BY <1>1, WordTypes
<1>3. HALF \in Register
  BY HALFAssumption DEF Register
<1>4. Begin.c[RegZ] + (IF DvNegative THEN 2 * HALF ELSE 0) \in Register
  <2>1. Begin.c[RegZ] \in Word
    BY BeginRuns DEF Cells, Registers, RegA, RegZ, RegZERO, REG16
  <2> QED
    BY <2>1, HALFAssumption DEF Word, Register
<1>5. \A s \in Register : Corrected(AddSP16(s, HALF)) \in Register
  BY <1>3, WordTypes
<1> QED
  BY <1>1, <1>2, <1>4, <1>5 DEF DvOperand

LEMMA ChangedTyped ==
  ASSUME TypeOK, NEW k, FindMemoryWord(k) \in Cells, NEW by \in Register
  PROVE  Typed(Changed(k, by))
BY BeginTyped, FetchTypes, WordTypes, StoreTyped DEF Changed

\* An instruction runs to its end with words in its registers.
Ends(k) == \E op, m : Typed(m) /\ Finish(op, k, m)

LEMMA Ended ==
  ASSUME NEW op, NEW k, NEW m, Typed(m), Finish(op, k, m)
  PROVE  Ends(k)
BY DEF Ends

LEMMA OneWordEnds ==
  ASSUME TypeOK, NEW k, FindMemoryWord(k) \in Cells, OneWord(k)
  PROVE  Ends(k)
<1> DEFINE p == FindMemoryWord(k)
<1> USE BeginTyped, FetchTypes
<1>1. CASE CCS(k)
  <2> DEFINE m == Rewrite(Put(Begin, RegA, odabs(Operand(k))), p)
  <2>1. Typed(m)
    BY DiminishedType, PutRegisters, RewriteTyped
  <2>2. m.z + CcsSkip(Operand(k)) \in Nat
    BY <2>1 DEF Typed, CcsSkip
  <2>3. Finish("CCS", k, [m EXCEPT !.z = @ + CcsSkip(Operand(k))])
    BY <1>1 DEF CCS
  <2> HIDE DEF m
  <2>4. Typed([m EXCEPT !.z = @ + CcsSkip(Operand(k))])
    BY <2>1, <2>2, SkipTyped
  <2> QED
    BY <2>3, <2>4, Ended
<1>2. CASE LXCH(k) \/ QXCH(k) \/ XCH(k)
  <2>1. Begin.c[RegA] \in Register /\ Begin.c[RegL] \in Register /\ Begin.c[RegQ] \in Register
    BY DEF Typed, Cells, Registers, RegA, RegL, RegQ, RegZERO
  <2>2. Typed(Exchange(RegL, k)) /\ Typed(Exchange(RegQ, k)) /\ Typed(Exchange(RegA, k))
    BY <2>1, PutRegisters, StoreTyped DEF Exchange
  <2> QED
    BY <2>2, <1>2, Ended DEF LXCH, QXCH, XCH
<1>3. CASE INCR(k) \/ AUG(k) \/ DIM(k)
  <2>1. \A by \in {PlusOne, MinusOne} :
          /\ Typed(Changed(k, by))
          /\ \A sum : Typed(InterruptRequests(Changed(k, by), k, sum))
    BY ChangedTyped, RequestsTyped
  <2> QED
    BY <2>1, <1>3, Ended DEF INCR, AUG, DIM
<1>4. CASE CA(k) \/ CS(k)
  <2>1. Typed(Rewrite(Put(Begin, RegA, Operand(k)), p))
    BY PutRegisters, RewriteTyped
  <2>2. Typed(Rewrite(Put(Begin, RegA, Not(Operand(k))), p))
    BY WordTypes, PutRegisters, RewriteTyped
  <2> QED
    BY <2>1, <2>2, <1>4, Ended DEF CA, CS
<1>5. CASE AD(k) \/ SU(k)
  <2>1. AddSP16(A, Operand(k)) \in Register /\ AddSP16(A, Not(Operand(k))) \in Register
    BY WordTypes
  <2>2. \A v \in Register : Typed(Put(Rewrite(Begin, p), RegA, v))
    BY RewriteTyped, PutRegisters
  <2> QED
    BY <2>1, <2>2, <1>5, Ended DEF AD, SU
<1>6. CASE ADS(k)
  <2>1. AddSP16(A, Operand(k)) \in Register
    BY WordTypes
  <2> QED
    BY <2>1, <1>6, PutRegisters, StoreTyped, Ended DEF ADS
<1>7. CASE TS(k)
  <2> DEFINE stored == IF k = RegA THEN Begin
                       ELSE IF k = RegZ THEN [Begin EXCEPT !.z = A % (2 * HALF)]
                       ELSE Store(Begin, p, A)
             signed == IF k = RegA THEN stored
                       ELSE Put(stored, RegA, SignExtend(ValueOverflowed(A)))
  <2>1. Typed(stored)
    <3>1. A % (2 * HALF) \in Nat
      BY RegisterParts
    <3> QED
      BY <3>1, StoreTyped, SkipTyped
  <2>2. Typed(signed)
    BY <2>1, CarryType, PutRegisters
  <2> HIDE DEF signed
  <2>3. Typed([signed EXCEPT !.z = IF k = RegZ THEN @ ELSE @ + 1])
    <3>1. (IF k = RegZ THEN signed.z ELSE signed.z + 1) \in Nat
      BY <2>2 DEF Typed
    <3> QED
      BY <2>2, <3>1, SkipTyped
  <2>4. Finish("TS", k, IF ValueOverflowed(A) = AGC_P0 THEN stored
                        ELSE [signed EXCEPT !.z = IF k = RegZ THEN @ ELSE @ + 1])
    BY <1>7 DEF TS, signed
  <2> HIDE DEF stored
  <2> QED
    BY <2>1, <2>3, <2>4, Ended
<1>8. CASE MASK(k)
  BY <1>8, MaskType, PutRegisters, Ended DEF MASK
<1>9. CASE MSU(k)
  <2> DEFINE d == IF k < REG16 THEN Difference(A, Not(Operand(k)))
                  ELSE Difference(OverflowCorrected(A), NegateSP(OverflowCorrected(Operand(k))))
             v == IF k = RegQ THEN d % (4 * HALF) ELSE SignExtend(d % (2 * HALF))
  <2>1. \A w \in Register : OverflowCorrected(w) \in Register
                            /\ NegateSP(OverflowCorrected(w)) \in Register
    BY HALFAssumption, SMT DEF Register, OverflowCorrected, NegateSP, AGC_M0
  <2>2. Not(Operand(k)) \in Register
    BY WordTypes
  <2>3. v \in Register
    BY <2>1, <2>2, DifferenceType
  <2> HIDE DEF v
  <2>4. Typed(RewriteEditing(Put(Begin, RegA, v), k))
    <3>1. CASE k \in Editing
      <4>1. k = p
        BY <3>1, MachineAssumption
           DEF FindMemoryWord, Editing, RegCYR, RegSR, RegCYL, RegEDOP, RegTIME5
      <4> QED
        BY <4>1, <2>3, PutRegisters, RewriteTyped
    <3>2. CASE k \notin Editing
      BY <2>3, <3>2, PutRegisters DEF RewriteEditing
    <3> QED
      BY <3>1, <3>2
  <2> QED
    BY <2>4, <1>9, Ended DEF MSU, v
<1>10. CASE MP(k)
  <2> DEFINE d == Product(OverflowCorrected(A), OverflowCorrected(Operand(k)))
  <2>1. d[1] \in Word /\ d[2] \in Word
    BY WordTypes, ProductOfWords DEF ProductIs
  <2> HIDE DEF d
  <2>2. SignExtend(d[1]) \in Register /\ SignExtend(d[2]) \in Register
    BY <2>1, ExtendedType
  <2> QED
    BY <2>2, <1>10, PutRegisters, Ended DEF MP, d
<1>11. CASE DV(k)
  <2> DEFINE q == Quotient(A, L, DvOperand(k))
  <2>1. q[1] \in Register /\ q[2] \in Register
    BY DivisorType, QuotientType
  <2> HIDE DEF q
  <2> QED
    BY <2>1, <1>11, PutRegisters, Ended DEF DV, q
<1> QED
  BY <1>1, <1>2, <1>3, <1>4, <1>5, <1>6, <1>7, <1>8, <1>9, <1>10, <1>11 DEF OneWord

\* The words of a double address that editing may change.
LEMMA EditedBoth ==
  ASSUME TypeOK, NEW k \in Int, FindMemoryWord(k) \in Cells, FindMemoryWord(k) - 1 \in Cells,
         NEW m, Typed(m)
  PROVE  Typed(RewriteEditing(RewriteEditing(m, k), k - 1))
<1>1. \A n, j : Typed(n) /\ (j \in Editing => j \in Cells) => Typed(RewriteEditing(n, j))
  BY RewriteTyped DEF RewriteEditing
<1>2. k \in Editing => k \in Cells
  BY MachineAssumption DEF FindMemoryWord, Editing, RegCYR, RegSR, RegCYL, RegEDOP, RegTIME5
<1>3. k - 1 \in Editing => k - 1 \in Cells
  <2> SUFFICES ASSUME k - 1 \in Editing PROVE k - 1 \in Cells
    OBVIOUS
  <2>1. k < 3 * BANK => FindMemoryWord(k) = k
    BY DEF FindMemoryWord
  <2>2. k < 3 * BANK
    BY MachineAssumption DEF Editing, RegCYR, RegSR, RegCYL, RegEDOP, RegTIME5
  <2> QED
    BY <2>1, <2>2
<1> QED
  BY <1>1, <1>2, <1>3

LEMMA TwoWordsEnd ==
  ASSUME TypeOK, NEW k \in Int, FindMemoryWord(k) \in Cells, FindMemoryWord(k) - 1 \in Cells,
         TwoWords(k)
  PROVE  Ends(k)
<1> DEFINE p == FindMemoryWord(k)
<1> USE BeginTyped, FetchTypes
<1>1. CASE DAS(k)
  <2> DEFINE cleared == Put(Put(Begin, RegA, Carry(HighSum(k))), RegL, AGC_P0)
  <2>1. AGC_P0 \in Register
    BY HALFAssumption DEF AGC_P0, Register
  <2>2. Typed(Put(Put(Begin, RegA, HighSum(k)), RegL, Corrected(LowSum(k)))) /\ Typed(cleared)
    BY <2>1, DoubleTypes, CarryType, PutRegisters
  <2>3. Typed(Store(Store(cleared, p, Corrected(LowSum(k))), p - 1, HighSum(k)))
    BY <2>2, DoubleTypes, StoreTyped
  <2> QED
    BY <2>2, <2>3, <1>1, Ended DEF DAS
<1>2. CASE DXCH(k)
  <2> DEFINE low == Store(Put(Begin, RegL, Operand(k)), p, L)
             mid == [low EXCEPT !.c[RegL] = Corrected(@)]
  <2>1. Typed(low)
    BY PutRegisters, StoreTyped
  <2> HIDE DEF low
  <2>2. low.c[RegL] \in Register
    BY <2>1 DEF Typed, Cells, Registers, RegA, RegL, RegZERO
  <2>3. Typed(mid)
    BY <2>1, <2>2, WordTypes, PutRegisters DEF Put
  <2> HIDE DEF mid
  <2>4. mid.c[RegA] \in Register /\ Load(mid, p - 1) \in Register
    BY <2>3, LoadType DEF Typed, Cells, Registers, RegA, RegZERO
  <2>5. Typed(Store(Put(mid, RegA, Load(mid, p - 1)), p - 1, mid.c[RegA]))
    BY <2>3, <2>4, PutRegisters, StoreTyped
  <2> QED
    BY <2>5, <1>2, Ended DEF DXCH, low, mid
<1>3. CASE DCA(k)
  <2> DEFINE low == Put(Begin, RegL, Corrected(Operand(k)))
             m == Put(low, RegA, Load(low, p - 1))
  <2>1. Typed(low)
    BY WordTypes, PutRegisters
  <2>2. Typed(m)
    BY <2>1, LoadType, PutRegisters
  <2> HIDE DEF m
  <2>3. Typed(RewriteEditing(RewriteEditing(m, k), k - 1))
    BY <2>2, EditedBoth
  <2> QED
    BY <2>3, <1>3, Ended DEF DCA, m
<1>4. CASE DCS(k)
  <2> DEFINE low == Put(Begin, RegL, Corrected(Not(Operand(k))))
             m == Put(low, RegA, Not(Load(low, p - 1)))
  <2>1. Typed(low)
    BY WordTypes, PutRegisters
  <2>2. Typed(m)
    BY <2>1, LoadType, WordTypes, PutRegisters
  <2> HIDE DEF m
  <2>3. Typed(RewriteEditing(RewriteEditing(m, k), k - 1))
    BY <2>2, EditedBoth
  <2> QED
    BY <2>3, <1>4, Ended DEF DCS, m
<1> QED
  BY <1>1, <1>2, <1>3, <1>4 DEF TwoWords

\* A step is an instruction that ends, or changes nothing.
LEMMA StepEnds ==
  ASSUME TypeOK, Next
  PROVE  \E k : Ends(k)
<1>1. PICK k \in Addresses : \/ Reaches(k) /\ OneWord(k)
                             \/ ReachesTwo(k) /\ TwoWords(k)
  BY DEF Next
<1>2. CASE Reaches(k) /\ OneWord(k)
  BY <1>2, OneWordEnds DEF Reaches
<1>3. CASE ReachesTwo(k) /\ TwoWords(k)
  <2>1. \A p \in Memory : p % BANK \in Int
    BY MachineAssumption, DivMod DEF RegTIME5
  <2>2. k \in Int
    BY <2>1, CellsAreNumbers, MachineAssumption DEF Addresses
  <2> QED
    BY <1>3, <2>2, TwoWordsEnd DEF Reaches, ReachesTwo
<1> QED
  BY <1>1, <1>2, <1>3

\* Whatever is computed, A, L and Q hold sixteen bits and the others a word,
\* L has no overflow left in it, Z stays below ZMOD and ZERO is zero: no
\* instruction leaves a bit where the next one does not expect it.
THEOREM WordsKeepTypes == Spec => []TypeOK
<1>1. Init => TypeOK
  <2> SUFFICES ASSUME Init PROVE TypeOK
    OBVIOUS
  <2>1. ZMOD \div 2 \in 0 .. ZMOD - 1
    BY MachineAssumption
  <2>2. 0 \in Word /\ 0 \in Register /\ ZMOD \div 2 \in Word /\ ZMOD \div 2 \in Register
    BY <2>1, MachineAssumption, HALFAssumption DEF Word, Register
  <2>3. /\ cell[RegL] = 0 /\ cell[RegZ] = ZMOD \div 2 /\ cell[RegZERO] = 0
        /\ cell \in [Cells -> Register] /\ \A p \in Cells : p >= REG16 => cell[p] \in Word
    BY <2>2 DEF Init, Cells, Registers, RegA, RegL, RegZ, RegZERO
  <2>4. Corrected(0) = 0
    BY HALFAssumption DEF Corrected, OverflowCorrected, SignExtend, IsNegative
  <2> QED
    BY <2>1, <2>3, <2>4 DEF Init, TypeOK, AGC_P0
<1>2. TypeOK /\ [Next]_vars => TypeOK'
  <2> SUFFICES ASSUME TypeOK, [Next]_vars PROVE TypeOK'
    OBVIOUS
  <2>1. CASE UNCHANGED vars
    BY <2>1 DEF vars, TypeOK
  <2>2. CASE Next
    BY <2>2, StepEnds, FinishTyped DEF Ends
  <2> QED
    BY <2>1, <2>2
<1> QED
  BY <1>1, <1>2, PTL DEF Spec

\* EB, FB and BB name the same banks after every instruction of the switch of
\* agc_engine(), whatever the program writes into any of them.
THEOREM BanksStayTogether == Spec => []BanksAgree
<1>1. Init => BanksAgree
  <2>1. 0 \div EBUNIT = 0 /\ 0 % EBS = 0 /\ 0 % FBUNIT = 0
    <3>1. (EBUNIT * 0 + 0) \div EBUNIT = 0 /\ (EBS * 0 + 0) % EBS = 0
          /\ (FBUNIT * 0 + 0) % FBUNIT = 0
      BY MachineAssumption, DivModUnique
    <3> QED
      BY <3>1, MachineAssumption
  <2> QED
    BY <2>1, MachineAssumption
       DEF Init, BanksAgree, EBank, FBank, Cells, Registers, RegA, RegEB, RegFB, RegZ, RegBB, RegZERO
<1>2. TypeOK /\ BanksAgree /\ [Next]_vars => BanksAgree'
  <2> SUFFICES ASSUME TypeOK, BanksAgree, [Next]_vars PROVE BanksAgree'
    OBVIOUS
  <2>1. CASE UNCHANGED vars
    BY <2>1 DEF vars, BanksAgree
  <2>2. CASE Next
    BY <2>2, StepEnds, TypedRuns, FinishAgrees DEF Ends
  <2> QED
    BY <2>1, <2>2
<1> QED
  BY <1>1, <1>2, WordsKeepTypes, PTL DEF Spec


-----------------------------------------------------------------------------
(* Which cells an instruction changes.                                     *)

\* A word of memory that a program may count in: one without editing.
LEMMA PlainMemory ==
  ASSUME NEW p \in Memory \ Editing
  PROVE  /\ p \in Cells /\ ~(p < REG16) /\ p \in Int
         /\ p # RegA /\ p # RegL /\ p # RegZ /\ p # RegZERO /\ ~(p \in BankRegs)
         /\ \A w : Edited(p, w) = w
BY MachineAssumption
   DEF Cells, Registers, RegA, RegL, RegEB, RegFB, RegZ, RegBB, RegZERO, REG16, BankRegs, Edited, Editing

LEMMA StoreCells ==
  ASSUME NEW m, Running(m), NEW p \in Memory \ Editing, NEW v
  PROVE  /\ Store(m, p, v).c[p] = OverflowCorrected(v)
         /\ \A q \in Cells \ {p} : Store(m, p, v).c[q] = m.c[q]
<1>1. Store(m, p, v).c = [m.c EXCEPT ![p] = OverflowCorrected(v)]
  BY PlainMemory DEF Store, Assign, Running
<1> QED
  BY <1>1, PlainMemory DEF Running, Banked

\* The end of an instruction keeps A, Q and memory.
LEMMA FinishCells ==
  ASSUME NEW op, NEW k, NEW m, Running(m), Finish(op, k, m)
  PROVE  /\ cell'[RegA] = m.c[RegA]
         /\ cell'[RegQ] = m.c[RegQ]
         /\ cell'[RegL] = Corrected(m.c[RegL])
         /\ \A q \in Memory : cell'[q] = m.c[q]
<1> DEFINE c == [m.c EXCEPT ![RegZERO] = AGC_P0, ![RegZ] = m.z % ZMOD, ![RegL] = Corrected(@)]
<1>1. c = [p \in Cells |-> IF p = RegZERO THEN AGC_P0 ELSE IF p = RegZ THEN m.z % ZMOD
                           ELSE IF p = RegL THEN Corrected(m.c[RegL]) ELSE m.c[p]]
  <2>1. m.c = [p \in Cells |-> m.c[p]]
    BY DEF Running, Banked
  <2>2. RegZERO \in Cells /\ RegZ \in Cells /\ RegL \in Cells
        /\ RegL # RegZ /\ RegL # RegZERO /\ RegZ # RegZERO
    BY DEF Cells, Registers, RegA, RegL, RegZ, RegZERO
  <2> QED
    BY <2>1, <2>2
<1>2. cell' = Banks(c)
  BY DEF Finish
<1> HIDE DEF c
<1>3. \A q \in Cells \ BankRegs : Banks(c)[q] = c[q]
  BY <1>1 DEF Banks, BankRegs, Cells, Registers, RegA, RegEB, RegFB, RegBB, RegZERO
<1>4. \A q \in Memory : q \in Cells \ BankRegs /\ q # RegZERO /\ q # RegZ /\ q # RegL
  BY MachineAssumption
     DEF BankRegs, Cells, Registers, RegA, RegL, RegEB, RegFB, RegZ, RegBB, RegZERO
<1>5. RegA \in Cells \ BankRegs /\ RegQ \in Cells \ BankRegs /\ RegL \in Cells \ BankRegs
  BY DEF BankRegs, Cells, Registers, RegA, RegL, RegQ, RegEB, RegFB, RegBB, RegZERO
<1>6. /\ c[RegA] = m.c[RegA] /\ c[RegQ] = m.c[RegQ] /\ c[RegL] = Corrected(m.c[RegL])
      /\ \A q \in Memory : c[q] = m.c[q]
  BY <1>1, <1>4, <1>5 DEF RegA, RegL, RegQ, RegZ, RegZERO
<1> QED
  BY <1>2, <1>3, <1>4, <1>5, <1>6

\* Neither the carry into TIME2 nor a request touches a bank register.
LEMMA RequestsRun ==
  ASSUME NEW m, Running(m), NEW k, NEW sum
  PROVE  Running(InterruptRequests(m, k, sum))
<1>1. ~(RegTIME2 \in BankRegs)
  BY DEF RegTIME2, BankRegs, RegEB, RegFB, RegBB
<1>2. Running([m EXCEPT !.c[RegTIME2] = CounterPINC(@)])
  BY <1>1, PutRuns DEF Put
<1>3. \A r : Running([m EXCEPT !.r = r])
  BY DEF Running
<1> QED
  BY <1>2, <1>3 DEF InterruptRequests

LEMMA ChangedRuns ==
  ASSUME TypeOK, NEW k, FindMemoryWord(k) \in Cells, NEW by \in Register
  PROVE  Running(Changed(k, by))
BY BeginRuns, FetchTypes, WordTypes, StoreRuns DEF Changed


-----------------------------------------------------------------------------
(* Sums.                                                                   *)

\* The word an instruction reads is the one its address holds.
LEMMA OperandHolds ==
  ASSUME TypeOK, NEW k \in Addresses, Reaches(k)
  PROVE  /\ FindMemoryWord(k) \in Cells
         /\ k # RegZ => Holds(FindMemoryWord(k)) = Value(Operand(k))
         /\ Holds(RegA) = Value(A) /\ Holds(RegL) = Value(L)
<1> DEFINE p == FindMemoryWord(k)
<1>1. p \in Cells
  BY DEF Reaches
<1>2. k \in Int
  <2>1. ASSUME NEW q \in Memory PROVE 3 * BANK + (q % BANK) \in Int
    <3>1. q \in Int /\ BANK \in Nat \ {0}
      BY MachineAssumption DEF RegTIME5
    <3>2. q % BANK \in 0 .. BANK - 1
      BY <3>1, DivMod
    <3> QED
      BY <3>1, <3>2
  <2> QED
    BY <2>1, MachineAssumption DEF Addresses, Cells, Registers, RegA, RegZERO
<1>3. k # RegZ => p # RegZ
  <2>1. CASE k < 3 * BANK
    BY <2>1 DEF FindMemoryWord
  <2>2. CASE k >= 3 * BANK
    BY <2>2, MachineAssumption DEF Reaches, RegZ, Registers, RegA, RegZERO
  <2> QED
    BY <2>1, <2>2, <1>2, MachineAssumption
<1>4. k # RegZ => Begin.c[p] = cell[p]
  BY <1>1, <1>3, BeginRuns
<1>5. Begin.c[RegA] = cell[RegA] /\ Begin.c[RegL] = cell[RegL]
  BY BeginRuns DEF Cells, Registers, RegA, RegL, RegZ, RegZERO
<1> QED
  BY <1>1, <1>4, <1>5 DEF Holds, Operand, Load, A, L, REG16, RegA, RegL

\* A number that was stored in a word has lost at most one unit of overflow.
LEMMA StoredCounts ==
  ASSUME NEW v \in Register, NEW n \in Int, NEW by \in Int,
         Value(v) = n + by, n < HALF, n > -HALF, by < HALF, by > -HALF
  PROVE  \E over \in {-1, 0, 1} :
           /\ n + by = Value(Corrected(v)) + over * HALF
           /\ over # 0 => n * over >= 0 /\ by * over > 0
<1> DEFINE x == Value(v)
           y == Value(Corrected(v))
<1>1. x \in Int /\ HALF \in Int
  BY ValueRange, HALFAssumption DEF Register, Value, Not
<1>2. /\ x >= HALF => y = x - HALF
      /\ x <= -HALF => y = x + HALF
      /\ x < HALF /\ x > -HALF => y = x
  BY CarryIsOverflow
<1> HIDE DEF x, y
<1>3. CASE x >= HALF
  <2>1. n + by = y + 1 * HALF /\ n * 1 >= 0 /\ by * 1 > 0
    BY <1>1, <1>2, <1>3 DEF x
  <2> QED
    BY <2>1 DEF y
<1>4. CASE x <= -HALF
  <2>1. n + by = y + (-1) * HALF /\ n * (-1) >= 0 /\ by * (-1) > 0
    BY <1>1, <1>2, <1>4 DEF x
  <2> QED
    BY <2>1 DEF y
<1>5. CASE x < HALF /\ x > -HALF
  <2>1. n + by = y + 0 * HALF
    BY <1>1, <1>2, <1>5 DEF x
  <2> QED
    BY <2>1 DEF y
<1> QED
  BY <1>1, <1>3, <1>4, <1>5

LEMMA AccumulatorSums ==
  ASSUME TypeOK, NEW k \in Addresses, Reaches(k), AD(k) \/ SU(k), k # RegZ
  PROVE  LET p == FindMemoryWord(k)
         IN  /\ AD(k) => Adds(Holds(RegA), Holds(p), Value(cell'[RegA]))
             /\ SU(k) => Adds(Holds(RegA), -Holds(p), Value(cell'[RegA]))
<1> DEFINE p == FindMemoryWord(k)
           m == Rewrite(Begin, p)
<1>1. p \in Cells /\ Holds(p) = Value(Operand(k)) /\ Holds(RegA) = Value(A)
  BY OperandHolds
<1>2. A \in Register /\ Operand(k) \in Register /\ Not(Operand(k)) \in Register
  BY <1>1, FetchTypes, WordTypes
<1>3. Running(m) /\ RegA \in Cells /\ ~(RegA \in BankRegs)
  BY BeginRuns, RewriteRuns
     DEF Cells, Registers, RegA, RegZERO, BankRegs, RegEB, RegFB, RegBB
<1> HIDE DEF m
<1>4. ASSUME NEW v PROVE Running(Put(m, RegA, v)) /\ Put(m, RegA, v).c[RegA] = v
  <2>1. Running(Put(m, RegA, v))
    BY <1>3, PutRuns
  <2>2. Put(m, RegA, v).c[RegA] = v
    BY <1>3 DEF Put, Running, Banked
  <2> QED
    BY <2>1, <2>2
<1>5. ASSUME AD(k) PROVE Adds(Holds(RegA), Holds(p), Value(cell'[RegA]))
  <2> DEFINE v == AddSP16(A, Operand(k))
  <2>1. Finish("AD", k, Put(m, RegA, v))
    BY <1>5 DEF AD, m
  <2>2. cell'[RegA] = v
    BY <2>1, <1>4, FinishCells
  <2>3. Adds(Value(A), Value(Operand(k)), Value(v))
    BY <1>2, SumAdds
  <2> HIDE DEF v
  <2> QED
    BY <2>2, <2>3, <1>1
<1>6. ASSUME SU(k) PROVE Adds(Holds(RegA), -Holds(p), Value(cell'[RegA]))
  <2> DEFINE v == AddSP16(A, Not(Operand(k)))
  <2>1. Finish("SU", k, Put(m, RegA, v))
    BY <1>6 DEF SU, m
  <2>2. cell'[RegA] = v
    BY <2>1, <1>4, FinishCells
  <2>3. Adds(Value(A), Value(Not(Operand(k))), Value(v))
    BY <1>2, SumAdds
  <2>4. Value(Not(Operand(k))) = -Value(Operand(k))
    BY <1>2, ValueRange
  <2> HIDE DEF v
  <2> QED
    BY <2>2, <2>3, <2>4, <1>1
<1> QED
  BY <1>5, <1>6

\* What ADS leaves in A and in memory.
LEMMA AddedSums ==
  ASSUME TypeOK, NEW k \in Addresses, Reaches(k), ADS(k), FindMemoryWord(k) \in Memory \ Editing
  PROVE  LET p == FindMemoryWord(k)
             sum == AddSP16(A, Operand(k))
         IN  sum \in Register /\ cell'[RegA] = sum /\ cell'[p] = OverflowCorrected(sum)
<1> DEFINE p == FindMemoryWord(k)
           sum == AddSP16(A, Operand(k))
           m == Put(Begin, RegA, sum)
<1>1. p \in Cells /\ p # RegA /\ p \in Memory /\ p \in Memory \ Editing
  BY PlainMemory
<1>2. sum \in Register
  BY <1>1, FetchTypes, WordTypes
<1>3. Finish("ADS", k, Store(m, p, sum))
  BY DEF ADS
<1> HIDE DEF sum, p
<1>4. Running(m)
  BY BeginRuns, PutRuns DEF BankRegs, RegA, RegEB, RegFB, RegBB
<1>5. RegA \in Cells \ {p} /\ m.c[RegA] = sum
  BY <1>1, BeginRuns DEF Put, Running, Banked, Cells, Registers, RegA, RegZERO
<1> HIDE DEF m
<1>6. Running(Store(m, p, sum))
  BY <1>2, <1>4, StoreRuns
<1>7. /\ Store(m, p, sum).c[p] = OverflowCorrected(sum)
      /\ Store(m, p, sum).c[RegA] = sum
  BY <1>1, <1>4, <1>5, StoreCells
<1>8. cell'[RegA] = sum /\ cell'[p] = OverflowCorrected(sum)
  BY <1>1, <1>3, <1>6, <1>7, FinishCells
<1> QED
  BY <1>2, <1>8 DEF sum, p

\* The number in a word of memory.
LEMMA PlainHolds ==
  ASSUME TypeOK, NEW p \in Memory \ Editing
  PROVE  /\ Holds(p) = Value(SignExtend(cell[p])) /\ cell[p] \in Word
         /\ Holds(p) \in 1 - HALF .. HALF - 1
         /\ Begin.c[p] = cell[p] /\ Load(Begin, p) = SignExtend(cell[p])
         /\ SignExtend(cell[p]) \in Register
<1>1. p \in Cells /\ ~(p < REG16) /\ p \in Int /\ p # RegZ
  BY PlainMemory
<1>2. cell[p] \in Word /\ Begin.c[p] = cell[p]
  BY <1>1, BeginRuns DEF TypeOK, REG16
<1> QED
  BY <1>1, <1>2, WordRange, ExtendedType DEF Holds, Load

LEMMA MemorySums ==
  ASSUME TypeOK, NEW k \in Addresses, Reaches(k), ADS(k), NEW p \in Memory \ Editing,
         p = FindMemoryWord(k)
  PROVE  /\ Adds(Holds(RegA), Holds(p), Holds(RegA)')
         /\ Plain => Counts(p, Holds(RegA))
<1> DEFINE sum == AddSP16(A, Operand(k))
<1>1. p \in Cells /\ ~(p < REG16) /\ k # RegZ
  <2>1. CASE k = RegZ
    BY <2>1, PlainMemory, MachineAssumption DEF FindMemoryWord, RegZ, RegTIME5
  <2> QED
    BY <2>1, PlainMemory
<1>2. sum \in Register /\ cell'[RegA] = sum /\ cell'[p] = OverflowCorrected(sum)
  BY AddedSums
<1>3. Holds(p) = Value(Operand(k)) /\ Holds(RegA) = Value(A)
  BY <1>1, OperandHolds
<1>4. A \in Register /\ Operand(k) \in Register
  BY <1>1, FetchTypes
<1>5. Adds(Value(A), Value(Operand(k)), Value(sum))
  BY <1>4, SumAdds
<1> HIDE DEF sum
<1>6. Holds(RegA)' = Value(sum) /\ Holds(p)' = Value(Corrected(sum))
  BY <1>1, <1>2 DEF Holds, Corrected, RegA, REG16
<1>7. ASSUME Plain PROVE Counts(p, Holds(RegA))
  <2>1. A = cell[RegA]
    BY BeginRuns DEF A, Cells, Registers, RegA, RegZ, RegZERO
  <2>2. Value(A) < HALF /\ Value(A) > -HALF /\ Value(A) \in Int
    BY <1>4, <1>7, <2>1, CarryIsOverflow, ValueRange, HALFAssumption DEF Plain
  <2>3. Holds(p) \in 1 - HALF .. HALF - 1
    BY PlainHolds
  <2>4. Holds(p) \in Int /\ Holds(p) < HALF /\ Holds(p) > -HALF
    BY <2>3, HALFAssumption
  <2>5. Value(A) + Holds(p) \in 1 - 2 * HALF .. 2 * HALF - 1
    BY <2>2, <2>4, HALFAssumption
  <2>6. Value(sum) = Holds(p) + Value(A)
    BY <1>3, <1>5, <2>2, <2>4, <2>5 DEF Adds
  <2>7. \E over \in {-1, 0, 1} :
           /\ Holds(p) + Value(A) = Value(Corrected(sum)) + over * HALF
           /\ over # 0 => Holds(p) * over >= 0 /\ Value(A) * over > 0
    BY <1>2, <2>2, <2>4, <2>6, StoredCounts
  <2> QED
    BY <1>1, <1>3, <1>6, <2>7 DEF Counts
<1> QED
  BY <1>3, <1>5, <1>6, <1>7

\* What INCR leaves: a register that has counted in sixteen bits, a word of
\* memory that has counted in fifteen, and TIME2 with the carry of TIME1.
LEMMA IncrementedCells ==
  ASSUME TypeOK, NEW k \in Addresses, Reaches(k), INCR(k), NEW p \in (Memory \ Editing) \cup {RegA, RegQ},
         p = FindMemoryWord(k)
  PROVE  LET sum == AddSP16(PlusOne, Operand(k))
         IN  /\ p < REG16 => cell'[p] = sum
             /\ p >= REG16 => cell'[p] = OverflowCorrected(sum)
             /\ k = RegTIME1 /\ RegTIME2 # p =>
                  cell'[RegTIME2] = IF ValueOverflowed(sum) = AGC_P0 THEN cell[RegTIME2]
                                    ELSE CounterPINC(cell[RegTIME2])
<1> DEFINE sum == AddSP16(PlusOne, Operand(k))
           m == Changed(k, PlusOne)
           n == InterruptRequests(m, k, sum)
<1>1. p \in Cells /\ p \in Int /\ ~(p \in BankRegs)
  BY PlainMemory DEF RegA, RegQ, BankRegs, RegEB, RegFB, RegBB, Cells, Registers, RegZERO
<1>2. sum \in Register /\ Running(m) /\ Running(n)
  BY <1>1, FetchTypes, WordTypes, ChangedRuns, RequestsRun
<1>3. Finish("INCR", k, n)
  BY DEF INCR
<1>4. m = Store(Begin, p, sum)
  BY DEF Changed
<1>5. k = RegTIME1 => p = RegTIME1 /\ RegTIME1 \in Memory /\ RegTIME2 \in Memory
  <2>1. k = RegTIME1 => p = RegTIME1
    BY MachineAssumption DEF FindMemoryWord, RegTIME1, RegTIME5
  <2> QED
    BY <2>1, MachineAssumption DEF RegTIME1, RegA, RegQ
<1> HIDE DEF sum
<1>6. /\ p < REG16 => m.c[p] = sum
      /\ p >= REG16 => m.c[p] = OverflowCorrected(sum)
      /\ RegTIME2 \in Cells \ {p} => m.c[RegTIME2] = Begin.c[RegTIME2]
  <2>1. CASE p < REG16
    <3>1. m.c = [Begin.c EXCEPT ![p] = sum]
      BY <2>1, <1>4, BeginRuns DEF Store, Put, Running
    <3> QED
      BY <3>1, <2>1, <1>1, BeginRuns DEF Running, Banked, REG16
  <2>2. CASE ~(p < REG16)
    <3>1. p \in Memory \ Editing
      BY <2>2 DEF RegA, RegQ, REG16
    <3> QED
      BY <3>1, <2>2, <1>4, BeginRuns, StoreCells
  <2> QED
    BY <2>1, <2>2
<1> HIDE DEF m
<1>7. n.c = IF ValueOverflowed(sum) # AGC_P0 /\ k = RegTIME1
            THEN [m.c EXCEPT ![RegTIME2] = CounterPINC(@)] ELSE m.c
  BY <1>2 DEF InterruptRequests, Running
<1> HIDE DEF n
<1>8. ~(k = RegTIME1 /\ p = RegTIME2)
  BY <1>5 DEF RegTIME1, RegTIME2
<1>9. n.c[p] = m.c[p]
  BY <1>1, <1>2, <1>7, <1>8 DEF Running, Banked
<1>10. cell'[p] = n.c[p]
  BY <1>2, <1>3, FinishCells
<1>11. ASSUME k = RegTIME1, RegTIME2 # p
       PROVE  cell'[RegTIME2] = IF ValueOverflowed(sum) = AGC_P0 THEN cell[RegTIME2]
                                ELSE CounterPINC(cell[RegTIME2])
  <2>1. RegTIME2 \in Memory /\ RegTIME2 \in Cells \ {p} /\ RegTIME2 # RegZ
    BY <1>5, <1>11 DEF Cells, RegTIME2, RegZ
  <2>2. m.c[RegTIME2] = cell[RegTIME2]
    BY <2>1, <1>6, BeginRuns
  <2>3. cell'[RegTIME2] = n.c[RegTIME2]
    BY <2>1, <1>2, <1>3, FinishCells
  <2>4. n.c[RegTIME2] = IF ValueOverflowed(sum) = AGC_P0 THEN m.c[RegTIME2]
                        ELSE CounterPINC(m.c[RegTIME2])
    BY <2>1, <1>2, <1>7, <1>11 DEF Running, Banked
  <2> QED
    BY <2>2, <2>3, <2>4
<1> QED
  BY <1>6, <1>9, <1>10, <1>11 DEF sum

\* Counting up one word.
LEMMA IncrementCounts ==
  ASSUME TypeOK, NEW k \in Addresses, Reaches(k), INCR(k),
         NEW p \in (Memory \ Editing) \cup {RegA, RegQ}, p = FindMemoryWord(k)
  PROVE  Counts(p, 1)
<1> DEFINE sum == AddSP16(PlusOne, Operand(k))
<1>1. p \in Cells /\ k # RegZ
  <2>1. CASE k = RegZ
    BY <2>1, PlainMemory, MachineAssumption DEF FindMemoryWord, RegZ, RegTIME5, RegA, RegQ
  <2> QED
    BY <2>1, OperandHolds
<1>2. Holds(p) = Value(Operand(k)) /\ Operand(k) \in Register /\ PlusOne \in Register
  BY <1>1, OperandHolds, FetchTypes
<1>3. Value(PlusOne) = 1
  BY DigitsAssumption, HALFAssumption DEF Value, PlusOne, AGC_P1
<1>4. sum \in Register /\ Adds(Holds(p), 1, Value(sum))
  <2>1. sum = AddSP16(Operand(k), PlusOne)
    BY <1>2, HALFAssumption DEF AddSP16, Register
  <2>2. Adds(Value(Operand(k)), Value(PlusOne), Value(AddSP16(Operand(k), PlusOne)))
    BY <1>2, SumAdds
  <2>3. sum \in Register
    BY <1>2, WordTypes
  <2> QED
    BY <1>2, <1>3, <2>1, <2>2, <2>3
<1>5. /\ p < REG16 => cell'[p] = sum
      /\ p >= REG16 => cell'[p] = OverflowCorrected(sum)
  BY IncrementedCells
<1> HIDE DEF sum
<1>6. Holds(p) \in Int /\ HALF \in Int /\ HALF > 1 /\ 1 \in Int
  BY <1>2, ValueRange, HALFAssumption, DigitsAssumption
<1>7. CASE p < REG16
  <2>1. Holds(p)' = Value(sum)
    BY <1>5, <1>7 DEF Holds
  <2> QED
    BY <2>1, <1>4, <1>7 DEF Counts
<1>8. CASE ~(p < REG16)
  <2>1. p \in Memory \ Editing /\ p >= REG16
    BY <1>8, PlainMemory DEF RegA, RegQ, REG16
  <2>2. Holds(p)' = Value(Corrected(sum))
    BY <2>1, <1>5, <1>8 DEF Holds, Corrected
  <2>3. Holds(p) < HALF /\ Holds(p) > -HALF
    BY <2>1, <1>6, PlainHolds
  <2>4. Holds(p) + 1 \in 1 - 2 * HALF .. 2 * HALF - 1
    BY <2>3, <1>6
  <2>5. Value(sum) = Holds(p) + 1
    BY <2>4, <1>4, <1>6 DEF Adds
  <2>6. 1 < HALF /\ 1 > -HALF
    BY <1>6
  <2>7. \E over \in {-1, 0, 1} :
           /\ Holds(p) + 1 = Value(Corrected(sum)) + over * HALF
           /\ over # 0 => Holds(p) * over >= 0 /\ 1 * over > 0
    BY <1>4, <1>6, <2>3, <2>5, <2>6, StoredCounts
  <2> QED
    BY <2>2, <2>7, <1>8 DEF Counts
<1> QED
  BY <1>7, <1>8

\* The carry that the program makes from TIME1 into TIME2.
LEMMA ProgramCarries ==
  ASSUME TypeOK, Reaches(RegTIME1), RegTIME1 \in Addresses, INCR(RegTIME1),
         Holds(RegTIME2) < HALF - 1
  PROVE  ClockCounts
<1> DEFINE sum == AddSP16(PlusOne, Operand(RegTIME1))
           low == cell[RegTIME1]
           high == cell[RegTIME2]
<1>1. FindMemoryWord(RegTIME1) = RegTIME1
  BY MachineAssumption DEF FindMemoryWord, RegTIME1, RegTIME5
<1>2. RegTIME1 \in Memory \ Editing /\ RegTIME2 \in Memory \ Editing /\ RegTIME1 # RegTIME2
  BY <1>1, MachineAssumption
     DEF Reaches, Cells, Registers, RegA, RegZERO, RegTIME1, RegTIME2, Editing, RegCYR, RegSR, RegCYL, RegEDOP
<1>3. ~(RegTIME1 < REG16) /\ ~(RegTIME2 < REG16) /\ RegTIME1 >= REG16
  BY DEF RegTIME1, RegTIME2, REG16
<1>4. /\ cell'[RegTIME1] = OverflowCorrected(sum)
      /\ cell'[RegTIME2] = IF ValueOverflowed(sum) = AGC_P0 THEN high ELSE CounterPINC(high)
  BY <1>1, <1>2, <1>3, IncrementedCells
<1>5. low \in Word /\ high \in Word /\ Operand(RegTIME1) = SignExtend(low)
  BY <1>1, <1>2, PlainHolds DEF Operand
<1>6. high < HALF - 1 \/ high >= HALF
  BY <1>2, <1>3, <1>5, HALFAssumption DEF Holds, Value, SignExtend, IsNegative, Word
<1>7. sum = AddSP16(1, SignExtend(low))
  BY <1>5 DEF PlusOne, AGC_P1
<1>8. /\ Holds(RegTIME1) = Value(SignExtend(low))
      /\ Holds(RegTIME2) = Value(SignExtend(high))
      /\ Holds(RegTIME1)' = Value(SignExtend(cell'[RegTIME1]))
      /\ Holds(RegTIME2)' = Value(SignExtend(cell'[RegTIME2]))
  BY <1>3 DEF Holds
<1> HIDE DEF low, high, sum
<1>9. \/ /\ Holds(RegTIME1)' = Holds(RegTIME1) + 1
         /\ Holds(RegTIME2)' = Holds(RegTIME2)
      \/ /\ Holds(RegTIME1)' = Holds(RegTIME1) + 1 - HALF
         /\ Holds(RegTIME2)' = Holds(RegTIME2) + 1
  <2>1. CASE ValueOverflowed(sum) = AGC_P0
    <3>1. Value(SignExtend(OverflowCorrected(sum))) = Value(SignExtend(low)) + 1
      BY <1>5, <1>7, <2>1, HALFAssumption, DigitsAssumption, SMT
         DEF Word, Value, Not, SignExtend, IsNegative, AddSP16, OverflowCorrected, ValueOverflowed,
             AGC_P0, AGC_P1, AGC_M1
    <3> QED
      BY <3>1, <2>1, <1>4, <1>8
  <2>2. CASE ValueOverflowed(sum) # AGC_P0
    <3>1. Value(SignExtend(OverflowCorrected(sum))) = Value(SignExtend(low)) + 1 - HALF
      BY <1>5, <1>7, <2>2, HALFAssumption, DigitsAssumption, SMT
         DEF Word, Value, Not, SignExtend, IsNegative, AddSP16, OverflowCorrected, ValueOverflowed,
             AGC_P0, AGC_P1, AGC_M1
    <3>2. Value(SignExtend(CounterPINC(high))) = Value(SignExtend(high)) + 1
      BY <1>5, <1>6, HALFAssumption, DigitsAssumption, SMT
         DEF Word, Value, Not, SignExtend, IsNegative, CounterPINC, AGC_P0, AGC_P1, AGC_M0
    <3> QED
      BY <3>1, <3>2, <2>2, <1>4, <1>8
  <2> QED
    BY <2>1, <2>2
<1>10. Holds(RegTIME1) \in Int /\ Holds(RegTIME2) \in Int /\ HALF \in Int
  BY <1>2, PlainHolds, HALFAssumption
<1>11. Holds(RegTIME2)' * HALF + Holds(RegTIME1)'
         = Holds(RegTIME2) * HALF + Holds(RegTIME1) + 1
  BY <1>9, <1>10
<1> QED
  BY <1>11 DEF ClockCounts

\* What a count of one past the end of a word leaves for the overflow bits, up
\* and down.
LEMMA OverflowAtEnd ==
  ASSUME NEW w \in Word
  PROVE  LET v == SignExtend(w)
         IN  /\ ValueOverflowed(AddSP16(PlusOne, v)) = AGC_P0 <=> Value(v) # HALF - 1
             /\ v < 2 * HALF => Value(v) # 1 - HALF
             /\ v >= 2 * HALF =>
                  /\ ValueOverflowed(AddSP16(MinusOne, v)) = AGC_P0 <=> Value(v) # 1 - HALF
                  /\ Value(v) # HALF - 1
BY HALFAssumption, DigitsAssumption, SMT
   DEF Word, Value, Not, SignExtend, IsNegative, AddSP16, OverflowCorrected, ValueOverflowed,
       AGC_P0, AGC_P1, AGC_M1, PlusOne, MinusOne

\* The program that counts a timer past its end asks for the interrupt.
LEMMA TimerRequests ==
  ASSUME TypeOK, NEW k \in Timers, Reaches(k),
         \/ INCR(k) /\ Executes("INCR", k)
         \/ AUG(k) /\ Executes("AUG", k)
  PROVE  TimerAsks(k)
<1> DEFINE v == SignExtend(cell[k])
<1>1. k >= REG16 /\ k # RegTIME1 /\ k # RegZ /\ FindMemoryWord(k) = k
  BY MachineAssumption
     DEF Timers, RegTIME1, RegTIME3, RegTIME4, RegTIME5, REG16, RegZ, FindMemoryWord
<1>2. k \in Cells /\ ~(k < REG16)
  BY <1>1 DEF Reaches, Timers, RegTIME3, RegTIME4, RegTIME5, REG16
<1>3. cell[k] \in Word
  BY <1>1, <1>2 DEF TypeOK
<1>4. Operand(k) = v
  BY <1>1, <1>2, BeginRuns DEF Operand, Load
<1>5. Holds(k) = Value(v)
  BY <1>2 DEF Holds
<1>6. \A by : Changed(k, by).r = {} /\ "r" \in DOMAIN Changed(k, by)
  BY <1>1, <1>2 DEF Changed, Store, Assign, Begin
<1>7. \A by : LET m == Changed(k, by)
                  sum == AddSP16(by, v)
              IN  InterruptRequests(m, k, sum).r
                    = IF ValueOverflowed(sum) = AGC_P0 THEN {} ELSE {k}
  <2>1. ASSUME NEW m, m.r = {}, "r" \in DOMAIN m, NEW sum
        PROVE  InterruptRequests(m, k, sum).r = IF ValueOverflowed(sum) = AGC_P0 THEN {} ELSE {k}
    BY <1>1, <2>1 DEF InterruptRequests, Timers
  <2> QED
    BY <1>6, <2>1
<1>8. \A op, m : Finish(op, k, m) => rupts' = rupts \cup m.r
  BY DEF Finish
<1> HIDE DEF v
<1>9. CASE INCR(k) /\ Executes("INCR", k)
  <2>1. rupts' = rupts \cup (IF ValueOverflowed(AddSP16(PlusOne, v)) = AGC_P0 THEN {} ELSE {k})
    BY <1>4, <1>7, <1>8, <1>9 DEF INCR
  <2>2. ~Executes("AUG", k)
    BY <1>9 DEF Executes
  <2>3. ValueOverflowed(AddSP16(PlusOne, v)) = AGC_P0 <=> Value(v) # HALF - 1
    BY <1>3, OverflowAtEnd DEF v
  <2> QED
    BY <2>1, <2>2, <2>3, <1>5 DEF TimerAsks, AtEnd
<1>10. CASE AUG(k) /\ Executes("AUG", k)
  <2>1. CASE v < 2 * HALF
    <3>1. rupts' = rupts \cup (IF ValueOverflowed(AddSP16(PlusOne, v)) = AGC_P0 THEN {} ELSE {k})
      BY <2>1, <1>4, <1>7, <1>8, <1>10 DEF AUG
    <3>2. /\ ValueOverflowed(AddSP16(PlusOne, v)) = AGC_P0 <=> Value(v) # HALF - 1
          /\ Value(v) # 1 - HALF
      BY <2>1, <1>3, OverflowAtEnd DEF v
    <3> QED
      BY <3>1, <3>2, <1>5 DEF TimerAsks, AtEnd
  <2>2. CASE ~(v < 2 * HALF)
    <3>1. rupts' = rupts \cup (IF ValueOverflowed(AddSP16(MinusOne, v)) = AGC_P0 THEN {} ELSE {k})
      BY <2>2, <1>4, <1>7, <1>8, <1>10 DEF AUG
    <3>2. v >= 2 * HALF
      BY <2>2, <1>3, HALFAssumption, DigitsAssumption DEF v, SignExtend, Word, IsNegative
    <3>3. /\ ValueOverflowed(AddSP16(MinusOne, v)) = AGC_P0 <=> Value(v) # 1 - HALF
          /\ Value(v) # HALF - 1
      BY <3>2, <1>3, OverflowAtEnd DEF v
    <3> QED
      BY <3>1, <3>3, <1>5, <1>10 DEF TimerAsks, AtEnd
  <2> QED
    BY <2>1, <2>2
<1> QED
  BY <1>9, <1>10

\* What DAS leaves in A and in two words of memory.
LEMMA DoubleCells ==
  ASSUME TypeOK, NEW k \in Addresses, DAS(k), NEW p \in Memory \ Editing, p = FindMemoryWord(k),
         p - 1 \in Memory \ Editing
  PROVE  /\ cell'[RegA] = Carry(HighSum(k))
         /\ cell'[p - 1] = OverflowCorrected(HighSum(k))
         /\ cell'[p] = OverflowCorrected(Corrected(LowSum(k)))
<1> DEFINE cleared == Put(Put(Begin, RegA, Carry(HighSum(k))), RegL, AGC_P0)
           m == Store(cleared, p, Corrected(LowSum(k)))
           n == Store(m, p - 1, HighSum(k))
           high == HighSum(k)
           low == Corrected(LowSum(k))
           q == p - 1
<1>1. /\ p \in Cells /\ q \in Cells /\ p # q
      /\ RegA \in Cells \ {p} /\ RegA \in Cells \ {q}
  <2>1. p \in Cells /\ q \in Cells /\ p \in Int /\ p # RegA /\ q # RegA
    BY PlainMemory
  <2> QED
    BY <2>1 DEF Cells, Registers, RegA, RegZERO
<1>2. high \in Register /\ low \in Register
  BY <1>1, DoubleTypes
<1>3. k # RegL
  <2>1. CASE k = RegL
    BY <2>1, PlainMemory, MachineAssumption DEF FindMemoryWord, RegL, RegTIME5
  <2> QED
    BY <2>1
<1>4. Finish("DAS", k, n)
  BY <1>3 DEF DAS
<1>5. Running(Put(Begin, RegA, Carry(high)))
  BY BeginRuns, PutRuns DEF BankRegs, RegA, RegEB, RegFB, RegBB
<1>6. Running(cleared)
  BY <1>5, PutRuns DEF BankRegs, RegL, RegEB, RegFB, RegBB
<1>7. cleared.c[RegA] = Carry(high)
  <2>1. cleared.c = [[Begin.c EXCEPT ![RegA] = Carry(high)] EXCEPT ![RegL] = AGC_P0]
    BY BeginRuns DEF Put, Running
  <2> QED
    BY <2>1, <1>1, BeginRuns DEF Running, Banked, RegA, RegL
<1> HIDE DEF cleared
<1>8. Running(m) /\ Running(n)
  BY <1>2, <1>6, StoreRuns
<1>9. m.c[p] = OverflowCorrected(low) /\ m.c[RegA] = Carry(high)
  BY <1>1, <1>6, <1>7, StoreCells
<1> HIDE DEF m
<1>10. p \in Cells \ {q}
  BY <1>1
<1> HIDE DEF q
<1>11. n.c[q] = OverflowCorrected(high) /\ n.c[p] = m.c[p] /\ n.c[RegA] = m.c[RegA]
  BY <1>1, <1>8, <1>10, StoreCells DEF q
<1> HIDE DEF n
<1> QED
  BY <1>4, <1>8, <1>9, <1>11, FinishCells DEF q

\* DAS adds two double words, and leaves in A what overflows the sum.
LEMMA DoubleSums ==
  ASSUME TypeOK, NEW k \in Addresses, Reaches(k), DAS(k), NEW p \in Memory \ Editing,
         p = FindMemoryWord(k), p - 1 \in Memory \ Editing, Plain
  PROVE  DoubleAdds(p)
<1> DEFINE low == LowSum(k)
           first == AddSP16(A, Load(Begin, p - 1))
           high == HighSum(k)
           a == Value(A)
           l == Value(L)
           y == Holds(p)
           x == Holds(p - 1)
           c == Value(Carry(low))
           d == Value(Carry(high))
           s == Value(low)
           t == Value(high)
<1>1. p \in Cells /\ p - 1 \in Cells /\ ~(p < REG16) /\ ~(p - 1 < REG16) /\ k # RegZ
  <2>1. CASE k = RegZ
    BY <2>1, PlainMemory, MachineAssumption DEF FindMemoryWord, RegZ, RegTIME5
  <2> QED
    BY <2>1, PlainMemory
<1>2. /\ A \in Register /\ L \in Register /\ Operand(k) \in Register
      /\ Load(Begin, p - 1) \in Register /\ first \in Register
  BY <1>1, FetchTypes, OperandType, WordTypes
<1>3. low \in Register /\ high \in Register
  BY <1>1, DoubleTypes
<1>4. /\ Holds(RegA) = a /\ Holds(RegL) = l /\ y = Value(Operand(k))
      /\ x = Value(Load(Begin, p - 1)) /\ HALF \in Int /\ HALF > 1
  BY <1>1, OperandHolds, PlainHolds, DigitsAssumption, HALFAssumption
<1>5. /\ x \in Int /\ x < HALF /\ x > -HALF /\ y \in Int /\ y < HALF /\ y > -HALF
      /\ a \in Int /\ a < HALF /\ a > -HALF /\ l \in Int /\ l < HALF /\ l > -HALF
  <2>1. x \in 1 - HALF .. HALF - 1 /\ y \in 1 - HALF .. HALF - 1
    BY PlainHolds
  <2>2. A = cell[RegA] /\ L = cell[RegL]
    BY BeginRuns DEF A, L, Cells, Registers, RegA, RegL, RegZ, RegZERO
  <2>3. a < HALF /\ a > -HALF
    BY <1>2, <2>2, CarryIsOverflow DEF Plain
  <2>4. a \in Int /\ l \in Int
    BY <1>2, ValueRange, HALFAssumption
  <2>5. L = Corrected(L)
    BY <2>2 DEF TypeOK
  <2>6. l < HALF /\ l > -HALF
    BY <1>2, <2>5, HALFAssumption, SMT
       DEF Corrected, OverflowCorrected, SignExtend, IsNegative, Value, Not, Register
  <2> QED
    BY <2>1, <2>3, <2>4, <2>6, HALFAssumption
<1>6. s = l + y
  <2>1. Adds(l, y, s)
    BY <1>2, <1>4, SumAdds DEF LowSum
  <2>2. l + y \in 1 - 2 * HALF .. 2 * HALF - 1
    BY <1>4, <1>5
  <2> QED
    BY <2>1, <2>2 DEF Adds
<1>7. /\ c \in {-1, 0, 1} /\ d \in {-1, 0, 1}
      /\ Value(Corrected(low)) = s - c * HALF
      /\ Value(Corrected(high)) = t - d * HALF
  <2>1. s \in Int /\ t \in Int
    BY <1>3, <1>4, ValueRange
  <2>2. c \in {-1, 0, 1} /\ Value(Corrected(low)) = s - c * HALF
    BY <1>3, <1>4, <2>1, CarryIsOverflow
  <2>3. d \in {-1, 0, 1} /\ Value(Corrected(high)) = t - d * HALF
    BY <1>3, <1>4, <2>1, CarryIsOverflow
  <2> QED
    BY <2>2, <2>3
<1>8. t = a + x + c
  <2>1. Adds(a, x, Value(first))
    BY <1>2, <1>4, SumAdds
  <2>2. a + x \in 1 - 2 * HALF .. 2 * HALF - 1
    BY <1>4, <1>5
  <2>3. Value(first) = a + x
    BY <2>1, <2>2 DEF Adds
  <2>4. Adds(Value(first), c, t)
    BY <1>1, <1>2, CarryType, SumAdds DEF HighSum
  <2>5. a + x + c \in 1 - 2 * HALF .. 2 * HALF - 1
    BY <1>4, <1>5, <1>7
  <2> QED
    BY <2>3, <2>4, <2>5 DEF Adds
<1>9. /\ Holds(RegA)' = d
      /\ Holds(p - 1)' = Value(Corrected(high))
      /\ Holds(p)' = Value(Corrected(low))
  <2>1. /\ cell'[RegA] = Carry(high)
        /\ cell'[p - 1] = OverflowCorrected(high)
        /\ cell'[p] = OverflowCorrected(Corrected(low))
    BY DoubleCells
  <2>2. OverflowCorrected(Corrected(low)) = OverflowCorrected(low)
    BY <1>3, WordTypes, WordRange DEF Corrected
  <2> QED
    BY <2>1, <2>2, <1>1 DEF Holds, Corrected, RegA, REG16
<1> HIDE DEF a, l, x, y, c, d, s, t, low, high
<1>10. Holds(RegA)' * HALF * HALF + Holds(p - 1)' * HALF + Holds(p)'
         = (a + x) * HALF + l + y
  <2>1. d * HALF * HALF + (t - d * HALF) * HALF = t * HALF
    BY <1>4, <1>5, <1>7, <1>8
  <2>2. t * HALF = (a + x) * HALF + c * HALF
    BY <1>4, <1>5, <1>7, <1>8
  <2>3. a + x \in Int /\ t \in Int /\ s \in Int /\ (a + x) * HALF \in Int /\ c * HALF \in Int
        /\ d * HALF * HALF \in Int /\ (t - d * HALF) * HALF \in Int
    BY <1>4, <1>5, <1>6, <1>7, <1>8
  <2>4. Holds(RegA)' * HALF * HALF + Holds(p - 1)' * HALF = (a + x) * HALF + c * HALF
    BY <2>1, <2>2, <1>7, <1>9
  <2>5. Holds(p)' = s - c * HALF
    BY <1>7, <1>9
  <2>6. s = l + y
    BY <1>6
  <2> QED
    BY <2>3, <2>4, <2>5, <2>6, <1>5
<1> QED
  BY <1>10, <1>4 DEF DoubleAdds, x, y

\* The name of an instruction tells which one was executed.
LEMMA WhichInstruction ==
  ASSUME Next, NEW k
  PROVE  /\ Executes("AD", k) => AD(k) /\ Reaches(k)
         /\ Executes("SU", k) => SU(k) /\ Reaches(k)
         /\ Executes("ADS", k) => ADS(k) /\ Reaches(k)
         /\ Executes("INCR", k) => INCR(k) /\ Reaches(k) /\ k \in Addresses
         /\ Executes("AUG", k) => AUG(k) /\ Reaches(k)
         /\ Executes("MP", k) => MP(k) /\ Reaches(k)
         /\ Executes("DV", k) => DV(k) /\ Reaches(k)
         /\ Executes("DAS", k) => DAS(k) /\ Reaches(k)
<1> USE DEF Executes
<1>1. ASSUME NEW j \in Addresses, Reaches(j), OneWord(j)
      PROVE  \/ AD(j) /\ last' = <<"AD", j>>
             \/ SU(j) /\ last' = <<"SU", j>>
             \/ ADS(j) /\ last' = <<"ADS", j>>
             \/ INCR(j) /\ last' = <<"INCR", j>>
             \/ AUG(j) /\ last' = <<"AUG", j>>
             \/ MP(j) /\ last' = <<"MP", j>>
             \/ DV(j) /\ last' = <<"DV", j>>
             \/ last'[1] \in {"CCS", "LXCH", "QXCH", "XCH", "DIM", "CA", "CS", "TS", "MASK", "MSU"}
  <2>1. \A op, m : Finish(op, j, m) => last' = <<op, j>>
    BY DEF Finish
  <2>2. CASE CCS(j) \/ LXCH(j) \/ QXCH(j) \/ XCH(j)
    BY <2>1, <2>2 DEF CCS, LXCH, QXCH, XCH
  <2>3. CASE AUG(j) \/ DIM(j) \/ CA(j) \/ CS(j)
    BY <2>1, <2>3 DEF AUG, DIM, CA, CS
  <2>4. CASE TS(j) \/ MASK(j) \/ MSU(j)
    BY <2>1, <2>4 DEF TS, MASK, MSU
  <2>5. CASE AD(j) \/ SU(j) \/ ADS(j)
    BY <2>1, <2>5 DEF AD, SU, ADS
  <2>6. CASE INCR(j) \/ MP(j) \/ DV(j)
    BY <2>1, <2>6 DEF INCR, MP, DV
  <2> QED
    BY <1>1, <2>2, <2>3, <2>4, <2>5, <2>6 DEF OneWord
<1>2. ASSUME NEW j \in Addresses, ReachesTwo(j), TwoWords(j)
      PROVE  \/ DAS(j) /\ last' = <<"DAS", j>>
             \/ last'[1] \in {"DXCH", "DCA", "DCS"}
  <2>1. \A op, m : Finish(op, j, m) => last' = <<op, j>>
    BY DEF Finish
  <2> QED
    BY <1>2, <2>1 DEF TwoWords, DAS, DXCH, DCA, DCS
<1>3. PICK j \in Addresses : \/ Reaches(j) /\ OneWord(j)
                             \/ ReachesTwo(j) /\ TwoWords(j)
  BY DEF Next
<1> QED
  BY <1>1, <1>2, <1>3 DEF ReachesTwo

\* Sums of one word and of two are those of the integers, in A and in memory.
THEOREM SumsOfIntegers == Spec => SumsAreExact
<1>1. ASSUME TypeOK, Next, NEW k \in Addresses, NEW p \in {FindMemoryWord(k)}
      PROVE  SumIsExact(k, p)
  <2> USE <1>1
  <2>1. ASSUME Executes("AD", k), k # RegZ PROVE Adds(Holds(RegA), Holds(p), Holds(RegA)')
    <3>1. Holds(RegA)' = Value(cell'[RegA])
      BY DEF Holds, RegA, REG16
    <3> QED
      BY <2>1, <3>1, WhichInstruction, AccumulatorSums
  <2>2. ASSUME Executes("SU", k), k # RegZ PROVE Adds(Holds(RegA), -Holds(p), Holds(RegA)')
    <3>1. Holds(RegA)' = Value(cell'[RegA])
      BY DEF Holds, RegA, REG16
    <3> QED
      BY <2>2, <3>1, WhichInstruction, AccumulatorSums
  <2>3. ASSUME Executes("ADS", k), p \in Memory \ Editing
        PROVE  Adds(Holds(RegA), Holds(p), Holds(RegA)') /\ (Plain => Counts(p, Holds(RegA)))
    BY <2>3, WhichInstruction, MemorySums
  <2>4. ASSUME Executes("INCR", k), p \in (Memory \ Editing) \cup {RegA, RegQ} PROVE Counts(p, 1)
    BY <2>4, WhichInstruction, IncrementCounts
  <2>5. ASSUME Executes("INCR", RegTIME1), Holds(RegTIME2) < HALF - 1 PROVE ClockCounts
    BY <2>5, WhichInstruction, ProgramCarries
  <2>6. ASSUME Executes("DAS", k), p \in Memory \ Editing, p - 1 \in Memory \ Editing, Plain
        PROVE  DoubleAdds(p)
    BY <2>6, WhichInstruction, DoubleSums
  <2>7. ASSUME k \in Timers, Executes("INCR", k) \/ Executes("AUG", k) PROVE TimerAsks(k)
    BY <2>7, WhichInstruction, TimerRequests
  <2> QED
    BY <2>1, <2>2, <2>3, <2>4, <2>5, <2>6, <2>7 DEF SumIsExact
<1>2. TypeOK /\ [Next]_vars => [\A k \in Addresses : \A p \in {FindMemoryWord(k)} : SumIsExact(k, p)]_vars
  BY <1>1
<1> QED
  BY <1>2, WordsKeepTypes, PTL DEF Spec, SumsAreExact
-----------------------------------------------------------------------------
(* Products.                                                               *)

\* MP multiplies, for words of every width: no sign, carry or zero is lost on
\* the way through a double word of one sign bit.
THEOREM ProductsOfIntegers == Spec => ProductsAreExact
<1>1. ASSUME TypeOK, Next, NEW k \in Addresses
      PROVE  ProductIsExact(k)
  <2> DEFINE p == FindMemoryWord(k)
             a == OverflowCorrected(A)
             b == OverflowCorrected(Operand(k))
  <2> SUFFICES ASSUME Executes("MP", k), Plain, p < REG16 => ValueOverflowed(cell[p]) = AGC_P0,
                      p # RegZ
               PROVE  /\ Holds(RegA)' * HALF + Holds(RegL)' = Holds(RegA) * Holds(p)
                      /\ Holds(RegA)' * Holds(RegL)' >= 0
    BY DEF ProductIsExact
  <2>1. MP(k) /\ Reaches(k)
    BY <1>1, WhichInstruction
  <2>2. k # RegZ
    BY MachineAssumption DEF FindMemoryWord, RegZ, RegTIME5
  <2>3. p \in Cells /\ Holds(p) = Value(Operand(k)) /\ Holds(RegA) = Value(A)
    BY <1>1, <2>1, <2>2, OperandHolds
  <2>4. A \in Register /\ Operand(k) \in Register /\ a \in Word /\ b \in Word
    BY <1>1, <2>3, FetchTypes, WordTypes
  <2>5. Value(SignExtend(a)) = Value(A)
    <3>1. A = cell[RegA]
      BY <1>1, BeginRuns DEF A, Cells, Registers, RegA, RegZ, RegZERO
    <3> QED
      BY <3>1, <2>4, CarryIsOverflow DEF Plain, Corrected
  <2>6. Value(SignExtend(b)) = Value(Operand(k))
    <3>1. Begin.c[p] = cell[p]
      BY <1>1, <2>3, BeginRuns
    <3>2. CASE p < REG16
      <4>1. Operand(k) = cell[p]
        BY <3>1, <3>2 DEF Operand, Load
      <4> QED
        BY <4>1, <3>2, <2>4, CarryIsOverflow DEF Corrected
    <3>3. CASE ~(p < REG16)
      <4>1. Operand(k) = SignExtend(cell[p])
        BY <3>1, <3>3 DEF Operand, Load
      <4>2. cell[p] \in Word
        <5>1. p \in Int
          BY <2>3, CellsAreNumbers
        <5> QED
          BY <5>1, <1>1, <2>3, <3>3 DEF TypeOK, REG16
      <4> QED
        BY <4>1, <4>2, WordRange
    <3> QED
      BY <3>2, <3>3
  <2> DEFINE d == Product(a, b)
             m == Put(Put(Begin, RegA, SignExtend(d[1])), RegL, SignExtend(d[2]))
  <2>7. ProductIs(d, Holds(RegA) * Holds(p))
    BY <2>3, <2>4, <2>5, <2>6, ProductOfWords
  <2>8. Finish("MP", k, m)
    BY <2>1 DEF MP
  <2> HIDE DEF d
  <2>9. Running(Put(Begin, RegA, SignExtend(d[1])))
    BY <1>1, BeginRuns, PutRuns DEF BankRegs, RegA, RegEB, RegFB, RegBB
  <2>10. Running(m)
    BY <2>9, PutRuns DEF BankRegs, RegL, RegEB, RegFB, RegBB
  <2>11. m.c[RegA] = SignExtend(d[1]) /\ m.c[RegL] = SignExtend(d[2])
    <3>1. m.c = [[Begin.c EXCEPT ![RegA] = SignExtend(d[1])] EXCEPT ![RegL] = SignExtend(d[2])]
      BY <1>1, BeginRuns DEF Put, Running
    <3>2. RegA \in Cells /\ RegL \in Cells /\ RegA # RegL
      BY DEF Cells, Registers, RegA, RegL, RegZERO
    <3> QED
      BY <3>1, <3>2, <1>1, BeginRuns DEF Running, Banked
  <2> HIDE DEF m
  <2>12. cell'[RegA] = SignExtend(d[1]) /\ cell'[RegL] = Corrected(SignExtend(d[2]))
    BY <2>8, <2>10, <2>11, FinishCells
  <2>13. Holds(RegA)' = Value(SignExtend(d[1])) /\ Holds(RegL)' = Value(SignExtend(d[2]))
    BY <2>7, <2>12 DEF Holds, ProductIs, RegA, RegL, REG16
  <2> QED
    BY <2>7, <2>13 DEF ProductIs
<1>2. TypeOK /\ [Next]_vars => [\A k \in Addresses : ProductIsExact(k)]_vars
  BY <1>1
<1> QED
  BY <1>2, WordsKeepTypes, PTL DEF Spec, ProductsAreExact

-----------------------------------------------------------------------------
(* Quotients.                                                              *)

\* What DV leaves in A and L.
LEMMA DivisionCells ==
  ASSUME TypeOK, NEW k \in Addresses, Reaches(k), DV(k)
  PROVE  LET q == Quotient(A, L, DvOperand(k))
         IN  Holds(RegA)' = Value(q[1]) /\ Holds(RegL)' = Value(Corrected(q[2]))
<1> DEFINE q == Quotient(A, L, DvOperand(k))
           m == Put(Put(Begin, RegA, q[1]), RegL, q[2])
<1>1. Finish("DV", k, m)
  BY DEF DV
<1> HIDE DEF q
<1>2. Running(Put(Begin, RegA, q[1]))
  BY BeginRuns, PutRuns DEF BankRegs, RegA, RegEB, RegFB, RegBB
<1>3. Running(m)
  BY <1>2, PutRuns DEF BankRegs, RegL, RegEB, RegFB, RegBB
<1>4. m.c[RegA] = q[1] /\ m.c[RegL] = q[2]
  <2>1. m.c = [[Begin.c EXCEPT ![RegA] = q[1]] EXCEPT ![RegL] = q[2]]
    BY BeginRuns DEF Put, Running
  <2>2. RegA \in Cells /\ RegL \in Cells /\ RegA # RegL
    BY DEF Cells, Registers, RegA, RegL, RegZERO
  <2> QED BY <2>1, <2>2, BeginRuns DEF Running, Banked
<1> HIDE DEF m
<1>5. cell'[RegA] = q[1] /\ cell'[RegL] = Corrected(q[2])
  BY <1>1, <1>3, <1>4, FinishCells
<1> QED BY <1>5 DEF Holds, RegA, RegL, REG16, q

\* A and L carry no overflow into a division.
LEMMA AccumulatorWithin ==
  ASSUME TypeOK, Plain
  PROVE  /\ Within(A) /\ Within(L)
         /\ Holds(RegA) = Value(A) /\ Holds(RegL) = Value(L)
         /\ MinusZeroLow <=> L = Not(0) /\ Value(A) > 0
<1>1. A = cell[RegA] /\ L = cell[RegL] /\ A \in Register /\ L \in Register
  <2>1. RegA \in Cells /\ RegL \in Cells /\ RegA # RegZ /\ RegL # RegZ
    BY DEF Cells, Registers, RegA, RegL, RegZ, RegZERO
  <2> QED BY <2>1, BeginRuns DEF A, L
<1>2. Within(A)
  BY <1>1, HALFAssumption, DigitsAssumption
     DEF Plain, Within, Register, ValueOverflowed, AGC_P0, AGC_P1, AGC_M1
<1>3. Within(L)
  <2>1. L = Corrected(L)
    BY <1>1 DEF TypeOK
  <2> QED BY <2>1, <1>1, HALFAssumption
          DEF Within, Register, Corrected, OverflowCorrected, SignExtend, IsNegative
<1> QED BY <1>1, <1>2, <1>3 DEF Holds, RegA, RegL, REG16, MinusZeroLow

\* A divisor in memory or in Q.
LEMMA DivisorWithin ==
  ASSUME TypeOK, NEW k \in Addresses, Reaches(k), FindMemoryWord(k) \in Memory \cup {RegQ},
         ValueOverflowed(cell[FindMemoryWord(k)]) = AGC_P0
  PROVE  Within(DvOperand(k)) /\ Value(DvOperand(k)) = Holds(FindMemoryWord(k))
<1> DEFINE p == FindMemoryWord(k)
<1>1. k # RegA /\ k # RegL /\ k # RegZ
  BY MachineAssumption
     DEF FindMemoryWord, RegA, RegL, RegQ, RegZ, RegTIME5, Registers, RegZERO
<1>2. DvOperand(k) = Operand(k)
  BY <1>1 DEF DvOperand
<1>3. p \in Cells /\ Holds(p) = Value(Operand(k))
  BY <1>1, OperandHolds
<1>4. p # RegZ /\ (p < REG16 => p = RegQ) /\ p \in Int
  <2>1. p \in Int
    BY <1>3, CellsAreNumbers
  <2>2. CASE p \in Memory
    <3>1. p \in Nat /\ p \notin Registers
      BY <2>2, MachineAssumption
    <3> HIDE DEF p
    <3> QED BY <3>1 DEF RegZ, Registers, RegA, RegZERO, REG16
  <2>3. CASE p = RegQ
    BY <2>1, <2>3 DEF RegQ, RegZ
  <2> QED BY <2>1, <2>2, <2>3
<1>5. Begin.c[p] = cell[p]
  BY <1>3, <1>4, BeginRuns
<1>6. CASE p < REG16
  <2>1. Operand(k) = cell[p] /\ cell[p] \in Register
    BY <1>3, <1>5, <1>6 DEF Operand, Load, TypeOK
  <2> QED BY <1>2, <1>3, <2>1, HALFAssumption, DigitsAssumption
          DEF Within, Register, ValueOverflowed, AGC_P0, AGC_P1, AGC_M1
<1>7. CASE ~(p < REG16)
  <2>1. Operand(k) = SignExtend(cell[p]) /\ cell[p] \in Word
    BY <1>3, <1>4, <1>5, <1>7 DEF Operand, Load, TypeOK, REG16
  <2>2. Within(SignExtend(cell[p]))
    BY <2>1, HALFAssumption DEF Word, Register, Within, SignExtend, IsNegative
  <2> QED BY <1>2, <1>3, <2>1, <2>2
<1> QED BY <1>6, <1>7

\* What is left by the division of the magnitudes divides the numbers.
LEMMA SignedDivides ==
  ASSUME NEW K \in Nat, NEW Q \in Nat, NEW R \in Nat, R < K, NEW below \in BOOLEAN, NEW negative \in BOOLEAN
  PROVE  Divides(Signed(below, Q * K + R), Signed(negative, K), Signed(below # negative, Q), Signed(below, R))
<1> DEFINE n == Signed(below, Q * K + R)
           d == Signed(negative, K)
           q == Signed(below # negative, Q)
           r == Signed(below, R)
<1>1. Q * K \in Nat
  OBVIOUS
<1>2. n = q * d + r
  BY <1>1 DEF Signed
<1>3. Magnitude(r) = R /\ Magnitude(d) = K
  BY DEF Magnitude, Signed
<1>4. r # 0 => SameSign(r, n)
  BY <1>1 DEF SameSign, Signed
<1> QED BY <1>2, <1>3, <1>4 DEF Divides

\* The two divisions leave the same numbers, and these divide.
LEMMA DivisionOfNumbers ==
  ASSUME TypeOK, Next, NEW k \in Addresses, Executes("DV", k), Plain, ~MinusZeroLow
  PROVE  DivisionAgrees(k) /\ DivisionIsExact(k)
<1> DEFINE v == DvOperand(k)
           q == Quotient(A, L, v)
           h == SimulateDV(A, L, v)
           X == HighDigit(A, L)
           m == LowDigit(A, L)
           K == Magnitude(Value(v))
           B == Below(A, L)
           N == Negative(v)
           p == FindMemoryWord(k)
<1>1. Reaches(k) /\ DV(k)
  BY WhichInstruction
<1>2. v \in Register
  BY <1>1, DivisorType DEF Reaches
<1>3. /\ Within(A) /\ Within(L) /\ ~(L = Not(0) /\ Value(A) > 0)
      /\ Holds(RegA) = Value(A) /\ Holds(RegL) = Value(L)
  BY AccumulatorWithin
<1>4. Holds(RegA)' = Value(q[1]) /\ Holds(RegL)' = Value(Corrected(q[2]))
  BY <1>1, DivisionCells
<1>5. B \in BOOLEAN /\ N \in BOOLEAN
  BY SignsAreBoolean
<1>6. ASSUME Within(v), Fits(A, L, v)
      PROVE  \E Q, R \in 0 .. HALF - 1 :
               Quotients(X * HALF + m, K, Q, R) /\ Leaves(h, B, N, Q, R) /\ Leaves(q, B, N, Q, R)
  <2>1. PICK Q, R \in 0 .. HALF - 1 : Quotients(X * HALF + m, K, Q, R) /\ Leaves(h, B, N, Q, R)
    BY <1>3, <1>6, HardwareDivides DEF Fits
  <2>2. Leaves(q, B, N, Q, R)
    BY <1>3, <1>6, <2>1, CodeDivides
  <2> QED BY <2>1, <2>2
<1> HIDE DEF v, q, h, X, m, K, B, N
<1>7. Value(q[1]) = Value(h[1]) /\ Value(Corrected(q[2])) = Value(Corrected(h[2]))
  <2>1. CASE Within(v) /\ Fits(A, L, v)
    BY <1>6, <2>1 DEF Leaves
  <2>2. CASE ~Within(v)
    <3>1. ValueOverflowed(v) # AGC_P0
      BY <1>2, <2>2, HALFAssumption, DigitsAssumption
         DEF Within, Register, ValueOverflowed, AGC_P0, AGC_P1, AGC_M1
    <3>2. q = h
      BY <1>3, <3>1, WhichDivision DEF q, h
    <3> QED BY <3>2
  <2>3. CASE Within(v) /\ ~Fits(A, L, v)
    <3>1. q = h
      BY <1>3, <2>3, WhichDivision DEF q, h
    <3> QED BY <3>1
  <2> QED BY <2>1, <2>2, <2>3
<1>8. DivisionAgrees(k)
  BY <1>4, <1>7 DEF DivisionAgrees, h, v
<1>9. DivisionIsExact(k)
  <2> SUFFICES ASSUME p \in Memory \cup {RegQ}, ValueOverflowed(cell[p]) = AGC_P0,
                      Magnitude(Dividend) < Magnitude(Holds(p)) * HALF
               PROVE  Divides(Dividend, Holds(p), Holds(RegA)', Holds(RegL)')
    BY DEF DivisionIsExact
  <2> DEFINE M == HALF * X + m
  <2>0. HALF \in Nat \ {0}
    BY HALFAssumption
  <2>1. Within(v) /\ Value(v) = Holds(p)
    BY <1>1, DivisorWithin DEF v
  <2>2. K \in 0 .. HALF - 1 /\ Holds(p) = Signed(N, K) /\ Magnitude(Holds(p)) = K
    BY <2>1, WithinDigit DEF K, N
  <2>3. X \in 0 .. HALF - 1 /\ m \in 0 .. HALF - 1 /\ Dividend = Signed(B, M)
    BY <1>3, DividendDigits DEF X, m, B, Dividend
  <2>4. M < K * HALF /\ M \in Nat /\ HALF * X \in Nat /\ K * HALF \in Nat
    <3>1. HALF * X \in Nat /\ K * HALF \in Nat
      BY <2>0, <2>2, <2>3
    <3>2. M \in Nat
      BY <2>3, <3>1, <2>0
    <3> HIDE DEF M
    <3>3. Magnitude(Dividend) = M
      BY <2>3, <3>2 DEF Magnitude, Signed
    <3> QED BY <2>2, <3>1, <3>2, <3>3
  <2>5. X < K
    <3> SUFFICES ASSUME X >= K PROVE FALSE
      BY <2>0, <2>2, <2>3
    <3>1. HALF * X >= K * HALF
      BY <2>0, <2>2, <2>3
    <3> QED BY <2>0, <2>3, <2>4, <3>1
  <2>6. PICK Q, R \in 0 .. HALF - 1 :
          Quotients(X * HALF + m, K, Q, R) /\ Leaves(q, B, N, Q, R)
    <3>1. Fits(A, L, v)
      BY <2>5 DEF Fits, X, K
    <3> QED BY <1>6, <2>1, <3>1
  <2>7. M = Q * K + R /\ R <= K /\ (R = K => Q = HALF - 1)
    <3>1. X * HALF = HALF * X
      BY <2>0, <2>3
    <3> QED BY <2>6, <3>1 DEF Quotients
  <2>8. R < K
    <3> SUFFICES ASSUME R = K PROVE FALSE
      BY <2>0, <2>2, <2>7
    <3>1. Q * K + R = K * HALF
      BY <2>0, <2>2, <2>7
    <3> QED BY <2>4, <2>7, <3>1
  <2> HIDE DEF M
  <2>9. Q \in Nat /\ R \in Nat /\ K \in Nat
    BY <2>0, <2>2
  <2>10. Divides(Signed(B, Q * K + R), Signed(N, K), Signed(B # N, Q), Signed(B, R))
    BY <1>5, <2>8, <2>9, SignedDivides
  <2> QED BY <1>4, <2>2, <2>3, <2>6, <2>7, <2>10 DEF Leaves
<1> QED BY <1>8, <1>9

\* The code's C division and the hardware's, step by step, leave the same numbers
\* in A and L for words of every width, and these are the truncated quotient and
\* its remainder whenever the quotient fits a word.
THEOREM QuotientsOfIntegers == Spec => DivisionsAgree
<1>1. ASSUME TypeOK, Next, NEW k \in Addresses
      PROVE  DivisionAgrees(k) /\ (MinusZeroLow \/ DivisionIsExact(k))
  <2>1. CASE Executes("DV", k) /\ Plain /\ ~MinusZeroLow
    BY <1>1, <2>1, DivisionOfNumbers
  <2>2. CASE ~(Executes("DV", k) /\ Plain /\ ~MinusZeroLow)
    BY <2>2 DEF DivisionAgrees, DivisionIsExact
  <2> QED BY <2>1, <2>2
<1>2. TypeOK /\ [Next]_vars
        => [\A k \in Addresses : DivisionAgrees(k) /\ (MinusZeroLow \/ DivisionIsExact(k))]_vars
  BY <1>1
<1> QED BY <1>2, WordsKeepTypes, PTL DEF Spec, DivisionsAgree
=============================================================================
