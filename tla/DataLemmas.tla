----------------------------- MODULE DataLemmas -----------------------------
(***************************************************************************)
(* Facts about numbers and sequences that several proofs need: quotients   *)
(* and remainders, least numbers, and sequences of sequences.              *)
(***************************************************************************)
EXTENDS Integers, SequencesExt, FiniteSetTheorems, SequenceTheorems, WellFoundedInduction, TLAPS

-----------------------------------------------------------------------------
(* Quotients and remainders: phases, banks, products.                      *)

\* Of the multiples of n only 0 is nearer to 0 than n.
LEMMA NoMultipleBetween ==
  ASSUME NEW n \in Nat \ {0}, NEW k \in Int, n * k < n, -n < n * k
  PROVE  k = 0
OBVIOUS

\* The quotient and the remainder make up the number.
LEMMA DivMod ==
  ASSUME NEW n \in Nat \ {0}, NEW a \in Int
  PROVE  /\ a = n * (a \div n) + (a % n)
         /\ a % n \in 0 .. n - 1
         /\ a \div n \in Int
OBVIOUS

\* They are the only ones that do.
LEMMA DivModUnique ==
  ASSUME NEW n \in Nat \ {0}, NEW q \in Int, NEW r \in 0 .. n - 1
  PROVE  (n * q + r) % n = r /\ (n * q + r) \div n = q
<1> DEFINE a == n * q + r
           d == a \div n
<1>1. a \in Int /\ d \in Int /\ a % n \in 0 .. n - 1
  BY DivMod
<1>2. n * q + r = n * d + (a % n)
  BY DivMod, <1>1
<1>3. n * (q - d) = (a % n) - r
  BY <1>1, <1>2
<1>4. n * (q - d) < n /\ -n < n * (q - d)
  BY <1>1, <1>3
<1>5. q - d \in Int
  BY <1>1
<1> HIDE DEF a, d
<1>6. q - d = 0
  BY <1>4, <1>5, NoMultipleBetween
<1>7. (a % n) - r = 0 /\ d = q
  BY <1>3, <1>6, <1>1
<1> QED
  BY <1>7, <1>1 DEF a, d

\* The remainder alone.
LEMMA ModUnique ==
  ASSUME NEW n \in Nat \ {0}, NEW q \in Int, NEW r \in 0 .. n - 1
  PROVE  (n * q + r) % n = r
BY DivModUnique

-----------------------------------------------------------------------------
(* Least numbers: what cannot hold of the least counterexample holds.      *)

\* A set of numbers has a least member.
LEMMA LeastNat == \A T \in SUBSET Nat : T # {} => \E x \in T : \A y \in T : x <= y
<1> SUFFICES ASSUME NEW T \in SUBSET Nat, T # {}
             PROVE  \E x \in T : \A y \in T : x <= y
  OBVIOUS
<1> DEFINE U == {0 .. x : x \in T}
<1>1. U \subseteq FiniteSubsetsOf(Nat) /\ U # {}
  <2>1. ASSUME NEW x \in T PROVE 0 .. x \in SUBSET Nat /\ IsFiniteSet(0 .. x)
    BY FS_Interval
  <2> QED BY <2>1 DEF FiniteSubsetsOf
<1>2. \E u \in U : \A v \in U : ~(<<v, u>> \in StrictSubsetOrdering(Nat))
  <2> HIDE DEF U
  <2> QED BY <1>1, FS_StrictSubsetOrderingWellFounded, WFMin
<1>3. PICK x \in T : \A y \in T : ~(<<0 .. y, 0 .. x>> \in StrictSubsetOrdering(Nat))
  BY <1>2
<1>4. ASSUME NEW y \in T, y < x PROVE FALSE
  <2>1. 0 .. y \in SUBSET Nat /\ 0 .. x \in SUBSET Nat
    OBVIOUS
  <2>2. 0 .. y \subseteq 0 .. x
    BY <1>4
  <2>3. 0 .. y # 0 .. x
    <3>1. x \in 0 .. x /\ x \notin 0 .. y
      BY <1>4
    <3> QED BY <3>1
  <2> QED BY <2>1, <2>2, <2>3, <1>3 DEF StrictSubsetOrdering
<1> QED BY <1>4

\* What is done to a member of S, time after time, leaves members of S.
Iterates(g, S, start, f, n) ==
  g \in [0 .. n -> S] /\ g[0] = start /\ \A i \in 1 .. n : g[i] = f[g[i - 1]]

LEMMA IterationExists ==
  ASSUME NEW S, NEW start \in S, NEW f \in [S -> S]
  PROVE  \A n \in Nat : \E g : Iterates(g, S, start, f, n)
<1> DEFINE Bad == {n \in Nat : ~\E g : Iterates(g, S, start, f, n)}
<1> SUFFICES ASSUME Bad # {} PROVE FALSE
  OBVIOUS
<1>1. PICK n \in Bad : \A m \in Bad : n <= m
  BY LeastNat
<1>2. n \in Nat /\ ~\E g : Iterates(g, S, start, f, n)
  BY <1>1
<1>3. CASE n = 0
  <2>1. Iterates([i \in 0 .. 0 |-> start], S, start, f, 0)
    BY DEF Iterates
  <2> QED BY <2>1, <1>2, <1>3
<1>4. CASE n > 0
  <2>1. n - 1 \in Nat /\ ~(n <= n - 1)
    BY <1>2, <1>4
  <2>2. n - 1 \notin Bad
    <3> HIDE DEF Bad
    <3> QED BY <1>1, <2>1
  <2>3. PICK g : Iterates(g, S, start, f, n - 1)
    BY <2>1, <2>2
  <2> DEFINE h == [i \in 0 .. n |-> IF i = n THEN f[g[n - 1]] ELSE g[i]]
  <2>4. g[n - 1] \in S /\ f[g[n - 1]] \in S
    BY <2>1, <2>3 DEF Iterates
  <2>5. h \in [0 .. n -> S]
    BY <1>2, <2>3, <2>4 DEF Iterates
  <2>6. h[0] = start
    BY <1>2, <1>4, <2>3 DEF Iterates
  <2>7. \A i \in 1 .. n : h[i] = f[h[i - 1]]
    BY <1>2, <2>3 DEF Iterates
  <2>8. Iterates(h, S, start, f, n)
    BY <2>5, <2>6, <2>7 DEF Iterates
  <2> QED BY <2>8, <1>2
<1> QED BY <1>2, <1>3, <1>4

-----------------------------------------------------------------------------
(* Sequences.                                                              *)

AppendsToTheLast(S) == \A s, t \in Seq(S), e \in S : Append(s \o t, e) = s \o Append(t, e)

LEMMA AppendConcat == \A S : AppendsToTheLast(S)
BY DEF AppendsToTheLast

\* Three sequences one after the other; and four, and five, of which the middle
\* ones are taken together.
Threefold(a, b, c) == (a \o b) \o c = a \o (b \o c)
Fourfold(a, b, c, d) == (a \o b) \o (c \o d) = (a \o (b \o c)) \o d
Fivefold(a, b, c, d, e) == ((a \o b) \o c) \o (d \o e) = (a \o ((b \o c) \o d)) \o e

LEMMA ConcatThree == \A S : \A a, b, c \in Seq(S) : Threefold(a, b, c)
BY ConcatAssociative DEF Threefold

LEMMA ConcatFour ==
  ASSUME NEW S, NEW a \in Seq(S), NEW b \in Seq(S), NEW c \in Seq(S), NEW d \in Seq(S)
  PROVE  Fourfold(a, b, c, d)
<1>1. a \o b \in Seq(S)
  OBVIOUS
<1>2. Threefold(a \o b, c, d) /\ Threefold(a, b, c)
  BY <1>1, ConcatThree, Zenon
<1> QED BY <1>2, Zenon DEF Threefold, Fourfold

LEMMA ConcatFive ==
  ASSUME NEW S, NEW a \in Seq(S), NEW b \in Seq(S), NEW c \in Seq(S), NEW d \in Seq(S),
         NEW e \in Seq(S)
  PROVE  Fivefold(a, b, c, d, e)
<1>1. b \o c \in Seq(S)
  OBVIOUS
<1>2. Threefold(a, b, c) /\ Fourfold(a, b \o c, d, e)
  BY <1>1, ConcatThree, ConcatFour, Zenon
<1> QED BY <1>2, Zenon DEF Threefold, Fourfold, Fivefold

-----------------------------------------------------------------------------
(* Sequences of sequences, one after the other.                            *)

\* f[n] is what the first n sequences of ss make.
Parts(f, ss) == f[0] = <<>> /\ \A i \in 1 .. Len(ss) : f[i] = f[i - 1] \o ss[i]

\* Every sequence of sequences has its parts.
LEMMA PartsExist ==
  ASSUME NEW S, NEW ss \in Seq(Seq(S))
  PROVE  \E f \in [0 .. Len(ss) -> Seq(S)] : Parts(f, ss)
<1> DEFINE last == Len(ss)
           Upto(f, n) == /\ f \in [0 .. n -> Seq(S)] /\ f[0] = <<>>
                         /\ \A i \in 1 .. n : f[i] = f[i - 1] \o ss[i]
           Bad == {n \in 0 .. last : ~\E f : Upto(f, n)}
<1>1. last \in Nat /\ \A i \in 1 .. last : ss[i] \in Seq(S)
  OBVIOUS
<1> HIDE DEF last
<1>2. Bad = {}
  <2> SUFFICES ASSUME Bad # {} PROVE FALSE
    OBVIOUS
  <2>1. PICK n \in Bad : \A m \in Bad : n <= m
    <3>1. Bad \in SUBSET Nat
      <4> HIDE DEF Upto
      <4> QED BY <1>1
    <3> HIDE DEF Bad
    <3> QED BY <3>1, LeastNat
  <2>2. n \in 0 .. last /\ ~\E f : Upto(f, n)
    BY <2>1
  <2>3. CASE n = 0
    <3>1. Upto([i \in 0 .. 0 |-> <<>>], 0)
      OBVIOUS
    <3> QED BY <3>1, <2>2, <2>3
  <2>4. CASE n > 0
    <3>1. n - 1 \in 0 .. last /\ n - 1 \notin Bad
      <4>1. n - 1 \in 0 .. last /\ ~(n <= n - 1)
        BY <2>2, <2>4, <1>1
      <4> HIDE DEF Bad
      <4> QED BY <4>1, <2>1
    <3>2. PICK f : Upto(f, n - 1)
      BY <3>1
    <3> DEFINE h == [i \in 0 .. n |-> IF i = n THEN f[n - 1] \o ss[n] ELSE f[i]]
    <3>3. f[n - 1] \o ss[n] \in Seq(S)
      BY <3>2, <2>2, <2>4, <1>1
    <3>4. h \in [0 .. n -> Seq(S)] /\ h[0] = <<>>
      BY <3>2, <3>3, <2>2, <2>4, <1>1
    <3>5. ASSUME NEW i \in 1 .. n PROVE h[i] = h[i - 1] \o ss[i]
      <4>1. i \in 0 .. n /\ i - 1 \in 0 .. n /\ i - 1 # n
        BY <2>2, <1>1
      <4>2. h[i - 1] = f[i - 1]
        BY <4>1
      <4>3. CASE i = n
        BY <4>1, <4>2, <4>3
      <4>4. CASE i # n
        <5>1. i \in 1 .. n - 1
          BY <4>4, <2>2, <1>1
        <5>2. f[i] = f[i - 1] \o ss[i]
          BY <5>1, <3>2
        <5> QED BY <5>2, <4>1, <4>2, <4>4
      <4> QED BY <4>3, <4>4
    <3> QED BY <3>4, <3>5, <2>2
  <2> QED BY <2>2, <2>3, <2>4, <1>1
<1>3. PICK f : Upto(f, last)
  <2> HIDE DEF Upto
  <2>1. last \in 0 .. last
    BY <1>1
  <2> QED BY <2>1, <1>2
<1>4. Parts(f, ss)
  BY <1>3 DEF Parts, last
<1> QED BY <1>3, <1>4 DEF last

\* All of the parts is the flattened sequence.
LEMMA FlattenIs ==
  ASSUME NEW S, NEW ss \in Seq(Seq(S)), NEW f, Parts(f, ss)
  PROVE  FlattenSeq(ss) = f[Len(ss)]
<1> DEFINE n == Len(ss)
           Solves(g) == g = [i \in 1 .. n |-> IF i = 1 THEN ss[i] ELSE g[i - 1] \o ss[i]]
           flatten == CHOOSE g : Solves(g)
<1>1. n \in Nat /\ \A i \in 1 .. n : ss[i] \in Seq(S)
  OBVIOUS
<1>p. \A i \in 1 .. n : f[i] = f[i - 1] \o ss[i]
  BY DEF Parts
<1>2. ASSUME n # 0 PROVE f[1] = ss[1]
  <2>1. 1 \in 1 .. n /\ 1 - 1 = 0
    <3> HIDE DEF n
    <3> QED BY <1>1, <1>2
  <2>2. f[1] = f[1 - 1] \o ss[1] /\ ss[1] \in Seq(S)
    <3> HIDE DEF n
    <3> QED BY <2>1, <1>1, <1>p
  <2>3. f[1] = <<>> \o ss[1]
    BY <2>1, <2>2 DEF Parts
  <2> QED BY <2>2, <2>3, ConcatEmptySeq
<1>3. CASE n = 0
  <2>1. ss = <<>>
    BY <1>3
  <2> QED BY <2>1 DEF FlattenSeq, Parts
<1>4. CASE n # 0
  <2>1. Solves([i \in 1 .. n |-> f[i]])
    <3> DEFINE g == [i \in 1 .. n |-> f[i]]
    <3>1. ASSUME NEW i \in 1 .. n
          PROVE  f[i] = IF i = 1 THEN ss[i] ELSE g[i - 1] \o ss[i]
      <4>1. CASE i = 1
        BY <4>1, <1>2, <1>4
      <4>2. CASE i # 1
        <5>1. i - 1 \in 1 .. n /\ f[i] = f[i - 1] \o ss[i]
          <6> HIDE DEF n
          <6>1. i - 1 \in 1 .. n
            BY <4>2, <1>1
          <6> QED BY <6>1, <1>p
        <5> QED BY <5>1, <4>2
      <4> QED BY <4>1, <4>2
    <3> QED BY <3>1
  <2>2. Solves(flatten)
    BY <2>1
  <2>3. FlattenSeq(ss) = flatten[n]
    BY <1>4 DEF FlattenSeq
  <2> HIDE DEF flatten
  <2> DEFINE Bad == {i \in 1 .. n : flatten[i] # f[i]}
  <2>4. Bad = {}
    <3> SUFFICES ASSUME Bad # {} PROVE FALSE
      OBVIOUS
    <3>1. PICK i \in Bad : \A j \in Bad : i <= j
      <4>1. Bad \in SUBSET Nat
        OBVIOUS
      <4> QED BY <4>1, LeastNat
    <3>2. i \in 1 .. n /\ flatten[i] # f[i]
      BY <3>1
    <3>3. flatten[i] = IF i = 1 THEN ss[i] ELSE flatten[i - 1] \o ss[i]
      BY <2>2, <3>2
    <3>4. i # 1
      BY <3>2, <3>3, <1>2, <1>4
    <3>5. i - 1 \in 1 .. n /\ ~(i <= i - 1) /\ f[i] = f[i - 1] \o ss[i]
      <4> HIDE DEF n, Bad
      <4>1. i - 1 \in 1 .. n /\ ~(i <= i - 1)
        BY <3>2, <3>4, <1>1
      <4> QED BY <4>1, <3>2, <1>p
    <3>6. i - 1 \notin Bad
      <4> HIDE DEF Bad
      <4> QED BY <3>1, <3>5
    <3>7. flatten[i - 1] = f[i - 1]
      BY <3>5, <3>6
    <3> QED BY <3>2, <3>3, <3>4, <3>5, <3>7
  <2>5. n \in 1 .. n /\ n \notin Bad
    BY <2>4, <1>1, <1>4
  <2> QED BY <2>3, <2>5
<1> QED BY <1>3, <1>4

LEMMA FlattenType ==
  ASSUME NEW S, NEW ss \in Seq(Seq(S))
  PROVE  FlattenSeq(ss) \in Seq(S)
<1>1. PICK f \in [0 .. Len(ss) -> Seq(S)] : Parts(f, ss)
  BY PartsExist
<1>2. FlattenSeq(ss) = f[Len(ss)]
  BY <1>1, FlattenIs
<1>3. Len(ss) \in 0 .. Len(ss)
  OBVIOUS
<1> QED BY <1>2, <1>3

\* What two sequences make is what each makes, one after the other.
LEMMA FlattenConcat ==
  ASSUME NEW S, NEW ss \in Seq(Seq(S)), NEW ts \in Seq(Seq(S))
  PROVE  FlattenSeq(ss \o ts) = FlattenSeq(ss) \o FlattenSeq(ts)
<1> DEFINE k == Len(ss)
           l == Len(ts)
           all == ss \o ts
<1>1. PICK f \in [0 .. Len(ss) -> Seq(S)] : Parts(f, ss)
  BY PartsExist
<1>2. PICK g \in [0 .. Len(ts) -> Seq(S)] : Parts(g, ts)
  BY PartsExist
<1> DEFINE h == [i \in 0 .. k + l |-> IF i <= k THEN f[i] ELSE f[k] \o g[i - k]]
<1>3. k \in Nat /\ l \in Nat /\ all \in Seq(Seq(S)) /\ Len(all) = k + l
  OBVIOUS
<1>4. \A i \in 1 .. k + l : all[i] = IF i <= k THEN ss[i] ELSE ts[i - k]
  BY ConcatProperties
<1>5. f[0] = <<>> /\ \A i \in 1 .. k : f[i] = f[i - 1] \o ss[i]
  BY <1>1 DEF Parts
<1>6. g[0] = <<>> /\ \A i \in 1 .. l : g[i] = g[i - 1] \o ts[i]
  BY <1>2 DEF Parts
<1>7. /\ f[k] \in Seq(S) /\ \A i \in 0 .. l : g[i] \in Seq(S)
      /\ \A i \in 1 .. l : ts[i] \in Seq(S)
      /\ f[k] \o <<>> = f[k]
  <2>1. k \in 0 .. k
    BY <1>3
  <2>2. f[k] \in Seq(S)
    BY <2>1
  <2>3. \A i \in 0 .. l : g[i] \in Seq(S)
    OBVIOUS
  <2>4. \A i \in 1 .. l : ts[i] \in Seq(S)
    OBVIOUS
  <2>5. \A t \in Seq(S) : t \o <<>> = t
    BY ConcatEmptySeq
  <2> HIDE DEF k, l
  <2> QED BY <2>2, <2>3, <2>4, <2>5
<1>8. FlattenSeq(ss) = f[k] /\ FlattenSeq(ts) = g[l]
  BY <1>1, <1>2, FlattenIs
<1> HIDE DEF all, k, l
<1>9. ASSUME NEW i \in 1 .. k + l PROVE h[i] = h[i - 1] \o all[i]
  <2>1. i \in 0 .. k + l /\ i - 1 \in 0 .. k + l
    BY <1>3
  <2>2. CASE i <= k
    <3>1. i \in 1 .. k /\ i - 1 <= k
      BY <2>2, <1>3
    <3> QED BY <3>1, <2>1, <2>2, <1>4, <1>5
  <2>3. CASE ~(i <= k)
    <3>1. i - k \in 1 .. l /\ (i - 1) - k = (i - k) - 1 /\ (i - k) - 1 \in 0 .. l
      BY <2>3, <1>3
    <3>2. h[i] = f[k] \o g[i - k] /\ all[i] = ts[i - k]
      BY <2>1, <2>3, <1>4
    <3>3. g[i - k] = g[(i - k) - 1] \o ts[i - k]
      BY <3>1, <1>6
    <3>4. h[i - 1] = f[k] \o g[(i - k) - 1]
      <4>1. CASE i - 1 <= k
        <5>1. i - 1 = k /\ (i - k) - 1 = 0
          BY <4>1, <2>3, <1>3
        <5>2. h[i - 1] = f[k]
          BY <5>1, <2>1
        <5> QED BY <5>1, <5>2, <1>6, <1>7
      <4>2. CASE ~(i - 1 <= k)
        BY <4>2, <3>1, <2>1
      <4> QED BY <4>1, <4>2
    <3>5. f[k] \in Seq(S) /\ g[(i - k) - 1] \in Seq(S) /\ ts[i - k] \in Seq(S)
      BY <3>1, <1>7
    <3>6. (f[k] \o g[(i - k) - 1]) \o ts[i - k] = f[k] \o (g[(i - k) - 1] \o ts[i - k])
      <4>1. Threefold(f[k], g[(i - k) - 1], ts[i - k])
        BY <3>5, ConcatThree, Zenon
      <4> QED BY <4>1 DEF Threefold
    <3> HIDE DEF h
    <3> QED BY <3>2, <3>3, <3>4, <3>6
  <2> QED BY <2>2, <2>3
<1>10. h[0] = <<>> /\ h[k + l] = f[k] \o g[l]
  <2>1. h[0] = <<>>
    BY <1>3, <1>5
  <2>2. CASE l = 0
    <3>1. h[k + l] = f[k] /\ g[l] = <<>>
      BY <2>2, <1>3, <1>6
    <3> QED BY <2>1, <3>1, <1>7
  <2>3. CASE l # 0
    <3>1. ~(k + l <= k) /\ (k + l) - k = l /\ k + l \in 0 .. k + l
      BY <2>3, <1>3
    <3> QED BY <2>1, <3>1
  <2> QED BY <2>2, <2>3
<1> HIDE DEF h
<1>11. Parts(h, all)
  BY <1>3, <1>9, <1>10 DEF Parts
<1>12. FlattenSeq(all) = h[Len(all)]
  BY <1>3, <1>11, FlattenIs
<1> QED BY <1>3, <1>8, <1>10, <1>12 DEF all

LEMMA FlattenOne ==
  ASSUME NEW S, NEW s \in Seq(S)
  PROVE  FlattenSeq(<<s>>) = s
<1> DEFINE f == [i \in 0 .. 1 |-> IF i = 0 THEN <<>> ELSE s]
<1>1. <<s>> \in Seq(Seq(S)) /\ Len(<<s>>) = 1 /\ <<s>>[1] = s /\ <<>> \o s = s
  BY ConcatEmptySeq
<1>2. f[0] = <<>> /\ f[1] = s
  OBVIOUS
<1> HIDE DEF f
<1>3. Parts(f, <<s>>)
  <2> SUFFICES ASSUME NEW i \in 1 .. 1 PROVE f[i] = f[i - 1] \o <<s>>[i]
    BY <1>1, <1>2 DEF Parts
  <2>1. i = 1 /\ i - 1 = 0
    OBVIOUS
  <2> QED BY <2>1, <1>1, <1>2
<1> QED BY <1>1, <1>2, <1>3, FlattenIs

\* A sequence more at the end comes after what the others make.
LEMMA FlattenAppend ==
  ASSUME NEW S, NEW ss \in Seq(Seq(S)), NEW s \in Seq(S)
  PROVE  FlattenSeq(Append(ss, s)) = FlattenSeq(ss) \o s
<1>1. Append(ss, s) = ss \o <<s>> /\ <<s>> \in Seq(Seq(S))
  BY AppendIsConcat
<1>2. FlattenSeq(<<s>>) = s
  BY FlattenOne
<1>3. FlattenSeq(ss \o <<s>>) = FlattenSeq(ss) \o FlattenSeq(<<s>>)
  BY <1>1, FlattenConcat
<1> QED BY <1>1, <1>2, <1>3

\* A sequence more at the front comes before it.
LEMMA FlattenFront ==
  ASSUME NEW S, NEW ss \in Seq(Seq(S)), NEW s \in Seq(S)
  PROVE  FlattenSeq(<<s>> \o ss) = s \o FlattenSeq(ss)
<1>1. <<s>> \in Seq(Seq(S))
  OBVIOUS
<1>2. FlattenSeq(<<s>>) = s
  BY FlattenOne
<1>3. FlattenSeq(<<s>> \o ss) = FlattenSeq(<<s>>) \o FlattenSeq(ss)
  BY <1>1, FlattenConcat
<1> QED BY <1>2, <1>3

-----------------------------------------------------------------------------
(* Bits of 15-bit numbers.                                                 *)

Weights == {1, 2, 4, 8, 16, 32, 64, 128, 256, 512, 1024, 2048, 4096, 8192, 16384}
\* The number with the bits c, in two parts.
Sum10(c) == c[1] + 2 * c[2] + 4 * c[4] + 8 * c[8] + 16 * c[16] + 32 * c[32] + 64 * c[64]
            + 128 * c[128] + 256 * c[256] + 512 * c[512]
Sum5(c) == c[1024] + 2 * c[2048] + 4 * c[4096] + 8 * c[8192] + 16 * c[16384]

LEMMA WeightsAre == \A u \in Weights : u \in Nat \ {0}
BY DEF Weights

LEMMA SumRange ==
  ASSUME NEW c, \A u \in Weights : c[u] \in {0, 1}
  PROVE  Sum10(c) \in Int /\ 0 <= Sum10(c) /\ Sum10(c) < 1024 /\ Sum5(c) \in Int
<1>1. /\ c[1] \in {0, 1} /\ c[2] \in {0, 1} /\ c[4] \in {0, 1} /\ c[8] \in {0, 1}
      /\ c[16] \in {0, 1} /\ c[32] \in {0, 1} /\ c[64] \in {0, 1} /\ c[128] \in {0, 1}
      /\ c[256] \in {0, 1} /\ c[512] \in {0, 1} /\ c[1024] \in {0, 1} /\ c[2048] \in {0, 1}
      /\ c[4096] \in {0, 1} /\ c[8192] \in {0, 1} /\ c[16384] \in {0, 1}
  BY DEF Weights
<1>2. \A a, b, d, e, f \in {0, 1} : a + 2 * b + 4 * d + 8 * e + 16 * f \in 0 .. 31
  OBVIOUS
<1> DEFINE first == c[1] + 2 * c[2] + 4 * c[4] + 8 * c[8] + 16 * c[16]
           second == c[32] + 2 * c[64] + 4 * c[128] + 8 * c[256] + 16 * c[512]
<1>3. first \in 0 .. 31 /\ second \in 0 .. 31
  BY <1>1, <1>2
<1>4. Sum10(c) = first + 32 * second
  BY <1>1 DEF Sum10
<1>5. Sum5(c) \in 0 .. 31
  BY <1>1, <1>2 DEF Sum5
<1> HIDE DEF first, second
<1> QED BY <1>3, <1>4, <1>5

\* The same number by octal digits.
Digit(c, u) == c[u] * u + c[2 * u] * (2 * u) + c[4 * u] * (4 * u)

LEMMA SumOfDigits ==
  ASSUME NEW c, \A u \in Weights : c[u] \in Int
  PROVE  Digit(c, 1) + Digit(c, 8) + Digit(c, 64) + Digit(c, 512) + Digit(c, 4096)
           = Sum10(c) + 1024 * Sum5(c)
<1>1. /\ c[1] \in Int /\ c[2] \in Int /\ c[4] \in Int /\ c[8] \in Int /\ c[16] \in Int
      /\ c[32] \in Int /\ c[64] \in Int /\ c[128] \in Int /\ c[256] \in Int /\ c[512] \in Int
      /\ c[1024] \in Int /\ c[2048] \in Int /\ c[4096] \in Int /\ c[8192] \in Int
      /\ c[16384] \in Int
  BY DEF Weights
<1>2. Digit(c, 1) = c[1] + 2 * c[2] + 4 * c[4] /\ Digit(c, 8) = 8 * c[8] + 16 * c[16] + 32 * c[32]
  BY <1>1 DEF Digit
<1>3. Digit(c, 64) = 64 * c[64] + 128 * c[128] + 256 * c[256]
  BY <1>1 DEF Digit
<1>4. Digit(c, 512) = 512 * c[512] + 1024 * c[1024] + 2048 * c[2048]
  BY <1>1 DEF Digit
<1>5. Digit(c, 4096) = 4096 * c[4096] + 8192 * c[8192] + 16384 * c[16384]
  BY <1>1 DEF Digit
<1> DEFINE d1 == Digit(c, 1)
           d2 == Digit(c, 8)
           d3 == Digit(c, 64)
           d4 == Digit(c, 512)
           d5 == Digit(c, 4096)
<1>6. d1 \in Int /\ d2 \in Int /\ d3 \in Int /\ d4 \in Int /\ d5 \in Int
  BY <1>1, <1>2, <1>3, <1>4, <1>5
<1>7. Sum10(c) = d1 + d2 + d3 + 512 * c[512] /\ Sum10(c) \in Int
  BY <1>1, <1>2, <1>3 DEF Sum10
<1>8. 1024 * Sum5(c) = 1024 * c[1024] + 2048 * c[2048] + d5 /\ Sum5(c) \in Int
  BY <1>1, <1>5 DEF Sum5
<1>9. d4 = 512 * c[512] + 1024 * c[1024] + 2048 * c[2048]
  BY <1>4
<1> HIDE DEF d1, d2, d3, d4, d5
<1>10. d1 + d2 + d3 + d4 + d5 = Sum10(c) + 1024 * Sum5(c)
  BY <1>1, <1>6, <1>7, <1>8, <1>9
<1> QED BY <1>10 DEF d1, d2, d3, d4, d5

\* The bit of a number in two parts and what is above it.
LEMMA BitOfParts ==
  ASSUME NEW u \in Nat \ {0}, NEW lo \in Int, 0 <= lo, lo < u, NEW b \in {0, 1}, NEW hi \in Int
  PROVE  (((lo + b * u) + hi * (2 * u)) \div u) % 2 = b
<1> DEFINE q == b + 2 * hi
<1>1. q \in Int /\ (lo + b * u) + hi * (2 * u) = u * q + lo
  OBVIOUS
<1>2. lo \in 0 .. u - 1
  OBVIOUS
<1>3. (u * q + lo) \div u = q
  BY <1>1, <1>2, DivModUnique
<1>4. q % 2 = b
  <2>1. 2 \in Nat \ {0} /\ b \in 0 .. 2 - 1
    OBVIOUS
  <2>2. (2 * hi + b) % 2 = b
    BY <2>1, ModUnique
  <2> QED BY <2>2
<1> HIDE DEF q
<1> QED BY <1>1, <1>3, <1>4

\* x has the bit b of weight u, and h above it.
SplitAt(x, u, b, h) ==
  \E l \in Int : /\ 0 <= l /\ l < u /\ b \in {0, 1} /\ h \in Int
                 /\ x = (l + b * u) + h * (2 * u)
\* h has the lowest bit b and k above it; v is the next weight after u.
Tied(h, b, k) == b \in {0, 1} /\ k \in Int /\ h = b + 2 * k
NextWeight(u, v) == u \in Nat \ {0} /\ v = 2 * u

LEMMA NextSplit ==
  \A x, u, v, b, h, b2, h2 :
    SplitAt(x, u, b, h) /\ Tied(h, b2, h2) /\ NextWeight(u, v) => SplitAt(x, v, b2, h2)
<1> TAKE x, u, v, b, h, b2, h2
<1> HAVE SplitAt(x, u, b, h) /\ Tied(h, b2, h2) /\ NextWeight(u, v)
<1>1. /\ u \in Nat \ {0} /\ v = 2 * u /\ b2 \in {0, 1} /\ h2 \in Int /\ h = b2 + 2 * h2
      /\ b \in {0, 1}
  BY DEF SplitAt, Tied, NextWeight
<1>2. PICK l \in Int : 0 <= l /\ l < u /\ x = (l + b * u) + h * (2 * u)
  BY DEF SplitAt
<1> DEFINE k == l + b * u
<1>3. k \in Int /\ 0 <= k /\ k < v
  BY <1>1, <1>2
<1>4. x = k + h * (2 * u)
  BY <1>2
<1> HIDE DEF k
<1>5. x = (k + b2 * v) + h2 * (2 * v)
  BY <1>1, <1>3, <1>4
<1> QED BY <1>1, <1>3, <1>5 DEF SplitAt

\* The bits of that number are c.
LEMMA BitOfSum ==
  ASSUME NEW c, \A u \in Weights : c[u] \in {0, 1}
  PROVE  \A u \in Weights : ((Sum10(c) + 1024 * Sum5(c)) \div u) % 2 = c[u]
<1> DEFINE x == Sum10(c) + 1024 * Sum5(c)
           h16384 == 0
           h8192 == c[16384] + 2 * h16384
           h4096 == c[8192] + 2 * h8192
           h2048 == c[4096] + 2 * h4096
           h1024 == c[2048] + 2 * h2048
           h512 == c[1024] + 2 * h1024
           h256 == c[512] + 2 * h512
           h128 == c[256] + 2 * h256
           h64 == c[128] + 2 * h128
           h32 == c[64] + 2 * h64
           h16 == c[32] + 2 * h32
           h8 == c[16] + 2 * h16
           h4 == c[8] + 2 * h8
           h2 == c[4] + 2 * h4
           h1 == c[2] + 2 * h2
<1> HIDE DEF x, h1, h2, h4, h8, h16, h32, h64, h128, h256, h512, h1024, h2048, h4096, h8192, h16384
<1>1. /\ c[1] \in {0, 1} /\ c[2] \in {0, 1} /\ c[4] \in {0, 1} /\ c[8] \in {0, 1}
      /\ c[16] \in {0, 1} /\ c[32] \in {0, 1} /\ c[64] \in {0, 1} /\ c[128] \in {0, 1}
      /\ c[256] \in {0, 1} /\ c[512] \in {0, 1} /\ c[1024] \in {0, 1} /\ c[2048] \in {0, 1}
      /\ c[4096] \in {0, 1} /\ c[8192] \in {0, 1} /\ c[16384] \in {0, 1}
  BY DEF Weights
<1>2. h16384 \in Int /\ \A b \in {0, 1} : b \in Int
  BY DEF h16384
<1>3. Tied(h8192, c[16384], h16384) /\ h8192 \in Int
  BY <1>1, <1>2 DEF Tied, h8192
<1>4. Tied(h4096, c[8192], h8192) /\ h4096 \in Int
  BY <1>1, <1>3 DEF Tied, h4096
<1>5. Tied(h2048, c[4096], h4096) /\ h2048 \in Int
  BY <1>1, <1>4 DEF Tied, h2048
<1>6. Tied(h1024, c[2048], h2048) /\ h1024 \in Int
  BY <1>1, <1>5 DEF Tied, h1024
<1>7. Tied(h512, c[1024], h1024) /\ h512 \in Int
  BY <1>1, <1>6 DEF Tied, h512
<1>8. Tied(h256, c[512], h512) /\ h256 \in Int
  BY <1>1, <1>7 DEF Tied, h256
<1>9. Tied(h128, c[256], h256) /\ h128 \in Int
  BY <1>1, <1>8 DEF Tied, h128
<1>10. Tied(h64, c[128], h128) /\ h64 \in Int
  BY <1>1, <1>9 DEF Tied, h64
<1>11. Tied(h32, c[64], h64) /\ h32 \in Int
  BY <1>1, <1>10 DEF Tied, h32
<1>12. Tied(h16, c[32], h32) /\ h16 \in Int
  BY <1>1, <1>11 DEF Tied, h16
<1>13. Tied(h8, c[16], h16) /\ h8 \in Int
  BY <1>1, <1>12 DEF Tied, h8
<1>14. Tied(h4, c[8], h8) /\ h4 \in Int
  BY <1>1, <1>13 DEF Tied, h4
<1>15. Tied(h2, c[4], h4) /\ h2 \in Int
  BY <1>1, <1>14 DEF Tied, h2
<1>16. Tied(h1, c[2], h2) /\ h1 \in Int
  BY <1>1, <1>15 DEF Tied, h1
<1>17. x = c[1] + 2 * h1
  <2>1. /\ c[1] \in Int /\ c[2] \in Int /\ c[4] \in Int /\ c[8] \in Int /\ c[16] \in Int
        /\ c[32] \in Int /\ c[64] \in Int /\ c[128] \in Int /\ c[256] \in Int /\ c[512] \in Int
        /\ c[1024] \in Int /\ c[2048] \in Int /\ c[4096] \in Int /\ c[8192] \in Int
        /\ c[16384] \in Int
    BY <1>1, <1>2
  <2>2. Sum5(c) = c[1024] + 2 * h1024
    BY <2>1 DEF Sum5, h16384, h8192, h4096, h2048, h1024
  <2>3. /\ h1024 \in Int
        /\ Sum10(c) = (c[1] + 2 * c[2] + 4 * c[4] + 8 * c[8] + 16 * c[16])
                      + 32 * (c[32] + 2 * c[64] + 4 * c[128] + 8 * c[256] + 16 * c[512])
    BY <2>1, <1>3, <1>4, <1>5, <1>6, <1>7, <1>8, <1>9, <1>10, <1>11, <1>12, <1>13, <1>14, <1>15, <1>16 DEF Sum10
  <2>4. h16 = c[32] + 2 * c[64] + 4 * c[128] + 8 * c[256] + 16 * c[512] + 32 * (c[1024] + 2 * h1024)
    <3>1. h128 = c[256] + 2 * c[512] + 4 * (c[1024] + 2 * h1024)
      BY <2>1, <2>3 DEF h128, h256, h512
    <3>2. h16 = c[32] + 2 * c[64] + 4 * c[128] + 8 * h128 /\ h128 \in Int
      BY <2>1, <1>9, <1>10 DEF h16, h32, h64
    <3> QED BY <2>1, <2>3, <3>1, <3>2
  <2>5. h1 = c[2] + 2 * c[4] + 4 * c[8] + 8 * c[16] + 16 * h16 /\ h16 \in Int
    BY <2>1, <1>3, <1>4, <1>5, <1>6, <1>7, <1>8, <1>9, <1>10, <1>11, <1>12, <1>13, <1>14, <1>15, <1>16 DEF h1, h2, h4, h8
  <2> DEFINE s1 == c[1] + 2 * c[2] + 4 * c[4] + 8 * c[8] + 16 * c[16]
             s2 == c[32] + 2 * c[64] + 4 * c[128] + 8 * c[256] + 16 * c[512]
             s3 == c[1024] + 2 * h1024
  <2>6. /\ s1 \in Int /\ s2 \in Int /\ s3 \in Int
        /\ Sum10(c) = s1 + 32 * s2 /\ Sum5(c) = s3 /\ h16 = s2 + 32 * s3
    BY <2>1, <2>2, <2>3, <2>4
  <2>7. c[1] + 2 * h1 = s1 + 32 * h16
    BY <2>1, <2>5
  <2> HIDE DEF s1, s2, s3, h1, h16
  <2> QED BY <2>6, <2>7 DEF x
<1>18. SplitAt(x, 1, c[1], h1)
  <2>1. 0 \in Int /\ c[1] \in Int /\ h1 \in Int /\ x = (0 + c[1] * 1) + h1 * (2 * 1)
    BY <1>1, <1>2, <1>16, <1>17
  <2> QED BY <2>1, <1>1 DEF SplitAt
<1>19. /\ NextWeight(1, 2) /\ NextWeight(2, 4) /\ NextWeight(4, 8)
       /\ NextWeight(8, 16) /\ NextWeight(16, 32) /\ NextWeight(32, 64)
       /\ NextWeight(64, 128) /\ NextWeight(128, 256) /\ NextWeight(256, 512)
       /\ NextWeight(512, 1024) /\ NextWeight(1024, 2048) /\ NextWeight(2048, 4096)
       /\ NextWeight(4096, 8192) /\ NextWeight(8192, 16384)
  BY DEF NextWeight
<1>20. SplitAt(x, 2, c[2], h2)
  BY <1>16, <1>19, <1>18, NextSplit
<1>21. SplitAt(x, 4, c[4], h4)
  BY <1>15, <1>19, <1>20, NextSplit
<1>22. SplitAt(x, 8, c[8], h8)
  BY <1>14, <1>19, <1>21, NextSplit
<1>23. SplitAt(x, 16, c[16], h16)
  BY <1>13, <1>19, <1>22, NextSplit
<1>24. SplitAt(x, 32, c[32], h32)
  BY <1>12, <1>19, <1>23, NextSplit
<1>25. SplitAt(x, 64, c[64], h64)
  BY <1>11, <1>19, <1>24, NextSplit
<1>26. SplitAt(x, 128, c[128], h128)
  BY <1>10, <1>19, <1>25, NextSplit
<1>27. SplitAt(x, 256, c[256], h256)
  BY <1>9, <1>19, <1>26, NextSplit
<1>28. SplitAt(x, 512, c[512], h512)
  BY <1>8, <1>19, <1>27, NextSplit
<1>29. SplitAt(x, 1024, c[1024], h1024)
  BY <1>7, <1>19, <1>28, NextSplit
<1>30. SplitAt(x, 2048, c[2048], h2048)
  BY <1>6, <1>19, <1>29, NextSplit
<1>31. SplitAt(x, 4096, c[4096], h4096)
  BY <1>5, <1>19, <1>30, NextSplit
<1>32. SplitAt(x, 8192, c[8192], h8192)
  BY <1>4, <1>19, <1>31, NextSplit
<1>33. SplitAt(x, 16384, c[16384], h16384)
  BY <1>3, <1>19, <1>32, NextSplit
<1>34. ASSUME NEW u \in Nat \ {0}, NEW h, SplitAt(x, u, c[u], h)
       PROVE  (x \div u) % 2 = c[u]
  <2>1. PICK l \in Int : /\ 0 <= l /\ l < u /\ c[u] \in {0, 1} /\ h \in Int
                         /\ x = (l + c[u] * u) + h * (2 * u)
    BY <1>34 DEF SplitAt
  <2> DEFINE b == c[u]
  <2>2. b \in {0, 1} /\ x = (l + b * u) + h * (2 * u)
    BY <2>1
  <2> HIDE DEF b
  <2>3. (((l + b * u) + h * (2 * u)) \div u) % 2 = b
    BY <2>1, <2>2, BitOfParts
  <2> QED BY <2>2, <2>3 DEF b
<1>35. ASSUME NEW u \in Weights PROVE \E h : SplitAt(x, u, c[u], h)
  BY <1>18, <1>20, <1>21, <1>22, <1>23, <1>24, <1>25, <1>26,
     <1>27, <1>28, <1>29, <1>30, <1>31, <1>32, <1>33 DEF Weights
<1> QED BY <1>34, <1>35, WeightsAre DEF x
=============================================================================
