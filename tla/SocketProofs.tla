---------------------------- MODULE SocketProofs ----------------------------
(***************************************************************************)
(* Theorems about the socket server, for any number of clients, whatever   *)
(* they send, in whatever pieces it arrives.                               *)
(***************************************************************************)
EXTENDS MCSockets, DataLemmas, TLAPS

-----------------------------------------------------------------------------
(* The packets in a stream of bytes.                                       *)

\* f[n] are the packets in the first n bytes.
Quad(bytes, n) == SubSeq(bytes, n - 3, n)
Scans(f, bytes) ==
  /\ f[0] = <<>>
  /\ \A n \in 1 .. Len(bytes) :
       f[n] = IF Found(bytes, n) THEN Append(f[n - 1], Quad(bytes, n)) ELSE f[n - 1]

LEMMA ScanExists ==
  ASSUME NEW bytes \in Seq(Byte)
  PROVE  \E f \in [0 .. Len(bytes) -> Seq(Seq(Byte))] : Scans(f, bytes)
<1> DEFINE last == Len(bytes)
           Upto(f, n) == /\ f \in [0 .. n -> Seq(Seq(Byte))] /\ f[0] = <<>>
                         /\ \A i \in 1 .. n : f[i] = IF Found(bytes, i)
                                                     THEN Append(f[i - 1], Quad(bytes, i))
                                                     ELSE f[i - 1]
           Bad == {n \in 0 .. last : ~\E f : Upto(f, n)}
<1>1. last \in Nat /\ \A n \in 1 .. last : Found(bytes, n) => Quad(bytes, n) \in Seq(Byte)
  BY DEF Found, Quad
<1> HIDE DEF last
<1>2. Bad = {}
  <2> SUFFICES ASSUME Bad # {} PROVE FALSE
    OBVIOUS
  <2>1. PICK n \in Bad : \A m \in Bad : n <= m
    <3>1. Bad \in SUBSET Nat
      <4> HIDE DEF Upto
      <4> QED BY <1>1
    <3> HIDE DEF Bad
    <3> QED BY <3>1, LeastNat
  <2>2. n \in 0 .. last /\ ~\E f : Upto(f, n)
    BY <2>1
  <2>3. CASE n = 0
    <3>1. Upto([i \in 0 .. 0 |-> <<>>], 0)
      OBVIOUS
    <3> QED BY <3>1, <2>2, <2>3
  <2>4. CASE n > 0
    <3>1. n - 1 \in 0 .. last /\ n - 1 \notin Bad
      <4>1. n - 1 \in 0 .. last /\ ~(n <= n - 1)
        BY <2>2, <2>4, <1>1
      <4> HIDE DEF Bad
      <4> QED BY <4>1, <2>1
    <3>2. PICK f : Upto(f, n - 1)
      BY <3>1
    <3> DEFINE new == IF Found(bytes, n) THEN Append(f[n - 1], Quad(bytes, n)) ELSE f[n - 1]
               h == [i \in 0 .. n |-> IF i = n THEN new ELSE f[i]]
    <3>3. new \in Seq(Seq(Byte))
      <4>1. n \in 1 .. last /\ f[n - 1] \in Seq(Seq(Byte))
        BY <3>2, <2>2, <2>4, <1>1
      <4> QED BY <4>1, <1>1
    <3>4. h \in [0 .. n -> Seq(Seq(Byte))] /\ h[0] = <<>>
      <4> HIDE DEF new
      <4> QED BY <3>2, <3>3, <2>2, <2>4, <1>1
    <3>5. ASSUME NEW i \in 1 .. n
          PROVE  h[i] = IF Found(bytes, i) THEN Append(h[i - 1], Quad(bytes, i)) ELSE h[i - 1]
      <4>1. i \in 0 .. n /\ i - 1 \in 0 .. n /\ i - 1 # n
        BY <2>2, <1>1
      <4>2. h[i - 1] = f[i - 1]
        BY <4>1
      <4>3. CASE i = n
        BY <4>1, <4>2, <4>3
      <4>4. CASE i # n
        <5>1. i \in 1 .. n - 1
          BY <4>4, <2>2, <1>1
        <5>2. f[i] = IF Found(bytes, i) THEN Append(f[i - 1], Quad(bytes, i)) ELSE f[i - 1]
          BY <5>1, <3>2
        <5> QED BY <5>2, <4>1, <4>2, <4>4
      <4> QED BY <4>3, <4>4
    <3> QED BY <3>4, <3>5, <2>2
  <2> QED BY <2>2, <2>3, <2>4, <1>1
<1>3. PICK f : Upto(f, last)
  <2> HIDE DEF Upto
  <2>1. last \in 0 .. last
    BY <1>1
  <2> QED BY <2>1, <1>2
<1>4. Scans(f, bytes)
  BY <1>3 DEF Scans, last
<1> QED BY <1>3, <1>4 DEF last

LEMMA ScanIs ==
  ASSUME NEW bytes \in Seq(Byte), NEW f, Scans(f, bytes)
  PROVE  PacketsIn(bytes) = f[Len(bytes)]
<1> DEFINE last == Len(bytes)
           Step(g, n) == IF n = 0 THEN <<>>
                         ELSE IF Found(bytes, n) THEN Append(g[n - 1], SubSeq(bytes, n - 3, n))
                         ELSE g[n - 1]
           Solves(g) == g = [n \in 0 .. last |-> Step(g, n)]
           among == CHOOSE g : Solves(g)
<1>1. last \in Nat
  OBVIOUS
<1>2. \A n \in 1 .. last : f[n] = Step(f, n)
  BY DEF Scans, Quad
<1>3. f[0] = <<>>
  BY DEF Scans
<1> HIDE DEF last
<1>4. Solves([n \in 0 .. last |-> f[n]])
  <2> DEFINE g == [n \in 0 .. last |-> f[n]]
  <2>1. ASSUME NEW n \in 0 .. last PROVE f[n] = Step(g, n)
    <3>1. CASE n = 0
      BY <3>1, <1>3
    <3>2. CASE n # 0
      <4>1. n \in 1 .. last /\ n - 1 \in 0 .. last
        BY <3>2, <1>1
      <4>2. Step(g, n) = Step(f, n)
        BY <4>1
      <4> QED BY <4>1, <4>2, <1>2
    <3> QED BY <3>1, <3>2
  <2> HIDE DEF Step
  <2> QED BY <2>1
<1>5. Solves(among)
  <2> HIDE DEF Solves
  <2> QED BY <1>4
<1>6. PacketsIn(bytes) = among[last]
  BY DEF PacketsIn, last
<1> HIDE DEF among
<1>7. \A n \in 0 .. last : among[n] = Step(among, n)
  <2> HIDE DEF Step
  <2> QED BY <1>5
<1> DEFINE Bad == {n \in 0 .. last : among[n] # f[n]}
<1>8. Bad = {}
  <2> SUFFICES ASSUME Bad # {} PROVE FALSE
    OBVIOUS
  <2>1. PICK n \in Bad : \A m \in Bad : n <= m
    <3>1. Bad \in SUBSET Nat
      OBVIOUS
    <3> QED BY <3>1, LeastNat
  <2>2. n \in 0 .. last /\ among[n] # f[n]
    BY <2>1
  <2>3. n # 0
    BY <2>2, <1>1, <1>3, <1>7
  <2>4. n - 1 \in 0 .. last /\ n \in 1 .. last /\ ~(n <= n - 1)
    <3> HIDE DEF Bad
    <3> QED BY <2>2, <2>3, <1>1
  <2>5. n - 1 \notin Bad
    <3> HIDE DEF Bad
    <3> QED BY <2>1, <2>4
  <2>6. among[n - 1] = f[n - 1]
    BY <2>4, <2>5
  <2> HIDE DEF Bad
  <2>7. Step(among, n) = Step(f, n)
    BY <2>6
  <2> QED BY <2>2, <2>4, <2>7, <1>2, <1>7
<1>9. last \in 0 .. last /\ last \notin Bad
  BY <1>1, <1>8
<1> QED BY <1>6, <1>9 DEF last

LEMMA PacketsInType ==
  ASSUME NEW bytes \in Seq(Byte)
  PROVE  PacketsIn(bytes) \in Seq(Seq(Byte))
<1>1. PICK f \in [0 .. Len(bytes) -> Seq(Seq(Byte))] : Scans(f, bytes)
  BY ScanExists
<1>2. PacketsIn(bytes) = f[Len(bytes)] /\ Len(bytes) \in 0 .. Len(bytes)
  BY <1>1, ScanIs
<1> QED BY <1>2

LEMMA PacketsInEmpty == PacketsIn(<<>>) = <<>>
<1>1. PICK f \in [0 .. Len(<<>>) -> Seq(Seq(Byte))] : Scans(f, <<>>)
  <2>1. <<>> \in Seq(Byte)
    OBVIOUS
  <2> QED BY <2>1, ScanExists
<1>2. PacketsIn(<<>>) = f[0] /\ f[0] = <<>>
  <2>1. <<>> \in Seq(Byte) /\ Len(<<>>) = 0
    OBVIOUS
  <2>2. PacketsIn(<<>>) = f[Len(<<>>)]
    BY <1>1, <2>1, ScanIs
  <2> QED BY <1>1, <2>1, <2>2 DEF Scans
<1> QED BY <1>2

\* Whether the first n bytes end in a packet, byte by byte.
LEMMA FoundIs ==
  ASSUME NEW b \in Seq(Byte), NEW n \in 1 .. Len(b)
  PROVE  /\ Found(b, n) <=> n >= 4 /\ \A j \in 1 .. 4 : Signature(b[n - 4 + j]) = j - 1
         /\ n >= 4 => /\ Quad(b, n) \in Seq(Byte) /\ Len(Quad(b, n)) = 4
                      /\ \A j \in 1 .. 4 : Quad(b, n)[j] = b[n - 4 + j]
<1>1. Len(b) \in Nat
  OBVIOUS
<1>2. ASSUME n >= 4
      PROVE  /\ Quad(b, n) \in Seq(Byte) /\ Len(Quad(b, n)) = 4
             /\ \A j \in 1 .. 4 : Quad(b, n)[j] = b[n - 4 + j]
  <2>1. Quad(b, n) \in Seq(Byte) /\ Len(Quad(b, n)) = 4
    BY <1>1, <1>2 DEF Quad
  <2>2. \A j \in 1 .. 4 : SubSeq(b, n - 3, n)[j] = b[(n - 3) + j - 1]
    BY <1>1, <1>2
  <2>3. \A j \in 1 .. 4 : (n - 3) + j - 1 = n - 4 + j
    BY <1>1
  <2> QED BY <2>1, <2>2, <2>3 DEF Quad
<1>3. Found(b, n) <=> n >= 4 /\ \A j \in 1 .. 4 : Signature(Quad(b, n)[j]) = j - 1
  BY DEF Found, IsSignedPacket, Quad
<1> HIDE DEF Quad
<1> QED BY <1>2, <1>3

\* Two streams that agree on the last bytes agree on the packet.
LEMMA FoundSame ==
  ASSUME NEW b \in Seq(Byte), NEW d \in Seq(Byte), NEW n \in 1 .. Len(b), NEW m \in 1 .. Len(d),
         n >= 4, m >= 4, \A j \in 1 .. 4 : b[n - 4 + j] = d[m - 4 + j]
  PROVE  (Found(b, n) <=> Found(d, m)) /\ Quad(b, n) = Quad(d, m)
<1>1. Found(b, n) <=> Found(d, m)
  <2>1. Found(b, n) <=> \A j \in 1 .. 4 : Signature(b[n - 4 + j]) = j - 1
    BY FoundIs
  <2>2. Found(d, m) <=> \A j \in 1 .. 4 : Signature(d[m - 4 + j]) = j - 1
    BY FoundIs
  <2> QED BY <2>1, <2>2, Zenon
<1>2. /\ Quad(b, n) \in Seq(Byte) /\ Len(Quad(b, n)) = 4 /\ Quad(d, m) \in Seq(Byte)
      /\ Len(Quad(d, m)) = 4 /\ \A j \in 1 .. 4 : Quad(b, n)[j] = Quad(d, m)[j]
  BY FoundIs
<1>3. Quad(b, n) = Quad(d, m)
  BY <1>2, SeqEqual
<1> QED BY <1>1, <1>3

LEMMA PacketsInAppend ==
  ASSUME NEW b \in Seq(Byte), NEW c \in Byte
  PROVE  PacketsIn(Append(b, c)) =
           IF Found(Append(b, c), Len(b) + 1)
           THEN Append(PacketsIn(b), Quad(Append(b, c), Len(b) + 1)) ELSE PacketsIn(b)
<1> DEFINE all == Append(b, c)
           k == Len(b)
<1>1. /\ k \in Nat /\ all \in Seq(Byte) /\ Len(all) = k + 1
      /\ \A n \in 1 .. k : all[n] = b[n]
  OBVIOUS
<1>2. PICK f \in [0 .. Len(b) -> Seq(Seq(Byte))] : Scans(f, b)
  BY ScanExists
<1> DEFINE last == IF Found(all, k + 1) THEN Append(f[k], Quad(all, k + 1)) ELSE f[k]
           h == [n \in 0 .. k + 1 |-> IF n = k + 1 THEN last ELSE f[n]]
<1>3. f[0] = <<>> /\ \A n \in 1 .. k :
        f[n] = IF Found(b, n) THEN Append(f[n - 1], Quad(b, n)) ELSE f[n - 1]
  BY <1>2 DEF Scans
<1>4. ASSUME NEW n \in 1 .. k, n >= 4 PROVE (Found(all, n) <=> Found(b, n)) /\ Quad(all, n) = Quad(b, n)
  <2>1. \A j \in 1 .. 4 : n - 4 + j \in 1 .. k
    BY <1>1, <1>4
  <2>2. \A j \in 1 .. 4 : all[n - 4 + j] = b[n - 4 + j]
    BY <2>1, <1>1
  <2>3. n \in 1 .. Len(all) /\ n \in 1 .. Len(b) /\ all \in Seq(Byte)
    BY <1>1
  <2> HIDE DEF all
  <2> QED BY <2>2, <2>3, <1>4, FoundSame
<1>5. \A n \in 1 .. k : ~(n >= 4) => ~Found(all, n) /\ ~Found(b, n)
  BY DEF Found
<1> HIDE DEF all, k, last
<1>6. ASSUME NEW n \in 1 .. k + 1
      PROVE  h[n] = IF Found(all, n) THEN Append(h[n - 1], Quad(all, n)) ELSE h[n - 1]
  <2>1. n \in 0 .. k + 1 /\ n - 1 \in 0 .. k + 1 /\ n - 1 # k + 1
    BY <1>1
  <2>2. h[n - 1] = f[n - 1]
    BY <2>1
  <2>3. CASE n = k + 1
    <3>1. n - 1 = k /\ h[n] = last
      BY <2>1, <2>3, <1>1
    <3> QED BY <3>1, <2>2, <2>3 DEF last
  <2>4. CASE n # k + 1
    <3>1. n \in 1 .. k /\ h[n] = f[n]
      BY <2>1, <2>4, <1>1
    <3>2. CASE n >= 4
      BY <3>1, <3>2, <2>2, <1>3, <1>4
    <3>3. CASE ~(n >= 4)
      BY <3>1, <3>3, <2>2, <1>3, <1>5
    <3> QED BY <3>2, <3>3
  <2> QED BY <2>3, <2>4
<1>7. h[0] = <<>> /\ h[k + 1] = last
  BY <1>1, <1>3
<1>8. Scans(h, all)
  BY <1>1, <1>6, <1>7 DEF Scans
<1>9. PacketsIn(all) = last
  <2> HIDE DEF h
  <2> QED BY <1>1, <1>7, <1>8, ScanIs
<1>10. PacketsIn(b) = f[k]
  BY <1>2, ScanIs DEF k
<1> QED BY <1>9, <1>10 DEF last, all, k

LEMMA AppendPackets ==
  \A s, t \in Seq(Seq(Byte)), q \in Seq(Byte) : Append(s \o t, q) = s \o Append(t, q)
<1> DEFINE B == Seq(Byte)
<1>1. ASSUME NEW s \in Seq(B), NEW t \in Seq(B), NEW q \in B
      PROVE  Append(s \o t, q) = s \o Append(t, q)
  <2> HIDE DEF B
  <2> QED OBVIOUS
<1> QED BY <1>1

\* No packet lies across a place where one ends or one begins.
LEMMA PacketsInConcat ==
  ASSUME NEW x \in Seq(Byte), NEW y \in Seq(Byte),
         \/ x = <<>> \/ Signature(x[Len(x)]) = 3
         \/ y = <<>> \/ Signature(y[1]) = 0
  PROVE  PacketsIn(x \o y) = PacketsIn(x) \o PacketsIn(y)
<1> DEFINE all == x \o y
           k == Len(x)
           l == Len(y)
<1>1. /\ k \in Nat /\ l \in Nat /\ all \in Seq(Byte) /\ Len(all) = k + l
      /\ \A n \in 1 .. k : all[n] = x[n]
      /\ \A m \in 1 .. l : all[k + m] = y[m]
  <2>1. k \in Nat /\ l \in Nat /\ all \in Seq(Byte) /\ Len(all) = k + l
    OBVIOUS
  <2>2. \A n \in 1 .. k + l : all[n] = IF n <= k THEN x[n] ELSE y[n - k]
    BY ConcatProperties
  <2> HIDE DEF all, k, l
  <2>3. \A n \in 1 .. k : n \in 1 .. k + l /\ n <= k
    BY <2>1
  <2>4. \A m \in 1 .. l : k + m \in 1 .. k + l /\ ~(k + m <= k) /\ (k + m) - k = m
    BY <2>1
  <2> QED BY <2>1, <2>2, <2>3, <2>4
<1>2. PICK f \in [0 .. Len(x) -> Seq(Seq(Byte))] : Scans(f, x)
  BY ScanExists
<1>3. PICK g \in [0 .. Len(y) -> Seq(Seq(Byte))] : Scans(g, y)
  BY ScanExists
<1> DEFINE h == [n \in 0 .. k + l |-> IF n <= k THEN f[n] ELSE f[k] \o g[n - k]]
<1>4. f[0] = <<>> /\ \A n \in 1 .. k :
        f[n] = IF Found(x, n) THEN Append(f[n - 1], Quad(x, n)) ELSE f[n - 1]
  BY <1>2 DEF Scans
<1>5. g[0] = <<>> /\ \A m \in 1 .. l :
        g[m] = IF Found(y, m) THEN Append(g[m - 1], Quad(y, m)) ELSE g[m - 1]
  BY <1>3 DEF Scans
<1>6. /\ f[k] \in Seq(Seq(Byte)) /\ \A m \in 0 .. l : g[m] \in Seq(Seq(Byte))
      /\ \A m \in 1 .. l : Found(y, m) => Quad(y, m) \in Seq(Byte)
  <2>1. \A m \in 1 .. l : Found(y, m) => Quad(y, m) \in Seq(Byte)
    BY DEF Found, Quad
  <2> QED BY <2>1, <1>1
<1>7. \/ k = 0 \/ Signature(x[k]) = 3 \/ l = 0 \/ Signature(y[1]) = 0
  OBVIOUS
<1> HIDE DEF all, k, l
<1>8. ASSUME NEW n \in 1 .. k
      PROVE  (Found(all, n) <=> Found(x, n)) /\ (n >= 4 => Quad(all, n) = Quad(x, n))
  <2>1. CASE n >= 4
    <3>1. \A j \in 1 .. 4 : n - 4 + j \in 1 .. k
      BY <1>1, <2>1
    <3>2. \A j \in 1 .. 4 : all[n - 4 + j] = x[n - 4 + j]
      BY <3>1, <1>1
    <3>3. n \in 1 .. Len(all) /\ n \in 1 .. Len(x) /\ all \in Seq(Byte)
      BY <1>1 DEF k
    <3> QED BY <3>2, <3>3, <2>1, FoundSame
  <2>2. CASE ~(n >= 4)
    BY <2>2 DEF Found
  <2> QED BY <2>1, <2>2
<1>9. ASSUME NEW m \in 1 .. l
      PROVE  (Found(all, k + m) <=> Found(y, m)) /\ (m >= 4 => Quad(all, k + m) = Quad(y, m))
  <2>0. k + m \in 1 .. Len(all) /\ m \in 1 .. Len(y)
    BY <1>1 DEF l
  <2>1. CASE m >= 4
    <3>1. \A j \in 1 .. 4 : m - 4 + j \in 1 .. l /\ (k + m) - 4 + j = k + (m - 4 + j)
      BY <1>1, <2>1
    <3>2. \A j \in 1 .. 4 : all[(k + m) - 4 + j] = y[m - 4 + j]
      BY <3>1, <1>1
    <3>3. k + m >= 4
      BY <2>1, <1>1
    <3> QED BY <3>2, <3>3, <2>0, <2>1, <1>1, FoundSame
  <2>2. CASE ~(m >= 4)
    <3>1. ~Found(y, m)
      BY <2>2 DEF Found
    <3>2. ASSUME Found(all, k + m) PROVE FALSE
      <4>1. k + m >= 4 /\ \A j \in 1 .. 4 : Signature(all[(k + m) - 4 + j]) = j - 1
        BY <3>2, <2>0, <1>1, FoundIs
      <4>2. m \in 1 .. 3 /\ k >= 1
        BY <4>1, <2>2, <1>1
      <4>3. 4 - m \in 1 .. 4 /\ 5 - m \in 1 .. 4
        BY <4>2
      <4>4. (k + m) - 4 + (4 - m) = k /\ (k + m) - 4 + (5 - m) = k + 1
        BY <4>2, <1>1
      <4>5. Signature(all[k]) = (4 - m) - 1
        BY <4>1, <4>3, <4>4
      <4>6. Signature(all[k + 1]) = (5 - m) - 1
        BY <4>1, <4>3, <4>4
      <4>7. all[k] = x[k] /\ all[k + 1] = y[1]
        BY <4>2, <1>1
      <4> QED BY <4>2, <4>5, <4>6, <4>7, <1>1, <1>7
    <3> QED BY <3>1, <3>2, <2>2
  <2> QED BY <2>1, <2>2
<1>10. ASSUME NEW n \in 1 .. k + l
       PROVE  h[n] = IF Found(all, n) THEN Append(h[n - 1], Quad(all, n)) ELSE h[n - 1]
  <2>1. n \in 0 .. k + l /\ n - 1 \in 0 .. k + l
    BY <1>1
  <2>2. CASE n <= k
    <3>1. n \in 1 .. k /\ n - 1 <= k
      BY <2>2, <1>1
    <3>2. h[n] = f[n] /\ h[n - 1] = f[n - 1]
      BY <2>1, <2>2, <3>1
    <3>3. Found(x, n) => n >= 4
      BY DEF Found
    <3> HIDE DEF h
    <3> QED BY <3>1, <3>2, <3>3, <1>4, <1>8
  <2>3. CASE n > k
    <3>1. PICK m \in 1 .. l : n = k + m
      <4>1. n - k \in 1 .. l /\ n = k + (n - k)
        BY <2>3, <1>1
      <4> QED BY <4>1
    <3>2. h[n] = f[k] \o g[m]
      <4>1. n - k = m /\ ~(n <= k)
        BY <3>1, <2>3, <1>1
      <4> QED BY <4>1, <2>1
    <3>3. h[n - 1] = f[k] \o g[m - 1]
      <4>1. CASE m = 1
        <5>1. n - 1 = k /\ g[m - 1] = <<>>
          BY <3>1, <4>1, <1>1, <1>5
        <5>2. h[n - 1] = f[k]
          BY <5>1, <2>1
        <5> QED BY <5>1, <5>2, <1>6, ConcatEmptySeq
      <4>2. CASE m # 1
        <5>1. (n - 1) - k = m - 1 /\ ~(n - 1 <= k)
          BY <3>1, <4>2, <1>1
        <5> QED BY <5>1, <2>1
      <4> QED BY <4>1, <4>2
    <3>4. g[m] = IF Found(y, m) THEN Append(g[m - 1], Quad(y, m)) ELSE g[m - 1]
      BY <1>5
    <3>5. Found(y, m) => m >= 4
      BY DEF Found
    <3>6. \A s, t \in Seq(Seq(Byte)), q \in Seq(Byte) : Append(s \o t, q) = s \o Append(t, q)
      BY AppendPackets
    <3>7. m - 1 \in 0 .. l
      BY <1>1
    <3> HIDE DEF h
    <3> QED BY <3>1, <3>2, <3>3, <3>4, <3>5, <3>6, <3>7, <1>6, <1>9
  <2> QED BY <2>2, <2>3, <1>1
<1>11. h[0] = <<>> /\ h[k + l] = f[k] \o g[l]
  <2>1. h[0] = <<>>
    BY <1>1, <1>4
  <2>2. CASE l = 0
    <3>1. h[k + l] = f[k] /\ g[l] = <<>>
      BY <2>2, <1>1, <1>5
    <3> QED BY <2>1, <3>1, <1>6, ConcatEmptySeq
  <2>3. CASE l # 0
    <3>1. ~(k + l <= k) /\ (k + l) - k = l /\ k + l \in 0 .. k + l
      BY <2>3, <1>1
    <3> QED BY <2>1, <3>1
  <2> QED BY <2>2, <2>3
<1> HIDE DEF h
<1>12. Scans(h, all)
  BY <1>1, <1>10, <1>11 DEF Scans
<1>13. PacketsIn(all) = h[k + l]
  BY <1>1, <1>12, ScanIs
<1>14. PacketsIn(x) = f[k] /\ PacketsIn(y) = g[l]
  BY <1>2, <1>3, ScanIs DEF k, l
<1> QED BY <1>11, <1>13, <1>14 DEF all
-----------------------------------------------------------------------------
(* What has been handled is what there is in the bytes.                    *)

\* Of a connection: b are the bytes received, p the packet the engine keeps,
\* h those it has handled.  It keeps the last bytes, with signatures from 0 on;
\* if none, no last bytes have them; and it has handled what came before.
SignedFrom(b, k) == k <= Len(b) /\ \A j \in 1 .. k : Signature(b[Len(b) - k + j]) = j - 1
KeptLast(b, p) ==
  /\ b \in Seq(Byte) /\ p \in Seq(Byte) /\ Len(p) <= 4 /\ SignedFrom(b, Len(p))
  /\ \A j \in 1 .. Len(p) : p[j] = b[Len(b) - Len(p) + j]
NothingElse(b, p) == Len(p) < 4 => \A k \in 1 .. 3 : SignedFrom(b, k) => k = Len(p)
Handled(b, p, h) ==
  /\ h \in Seq(Seq(Byte))
  /\ IF Len(p) = 4 THEN PacketsIn(b) = Append(h, p) ELSE PacketsIn(b) = h
Listened(b, p, h) == KeptLast(b, p) /\ NothingElse(b, p) /\ Handled(b, p, h)

\* The invariant: what each connection of the engine has come to, and what the
\* clients have in store for it.
StoryType ==
  /\ sends \in [1 .. MAX_CLIENTS -> Seq(Seq(Byte))]
  /\ connection \in [Ports -> Nat] /\ arrived \in [Ports -> Nat]
  /\ \A i \in Ports : /\ connection[i] <= Len(sends[i + 1])
                      /\ knocks[i] \/ peer[i] = "open" => connection[i] >= 1
ServerType ==
  /\ Clients \in [Ports -> ClientRecords] /\ polled \in Ports
  /\ inbox \in [Ports -> Seq(Byte)]
  /\ received \in [Ports -> Seq(Byte)] /\ handed \in [Ports -> Seq(Seq(Byte))]
  /\ DOMAIN knocks = Ports /\ DOMAIN peer = Ports
EachIsListened ==
  \A i \in Ports : IsConnected(i) => Listened(received[i], Clients[i].Packet, handed[i])
ListenInv == StoryType /\ ServerType /\ EachIsListened

-----------------------------------------------------------------------------
(* A byte more, and a packet less.                                         *)

LEMMA NothingYet == Listened(<<>>, <<>>, <<>>)
<1>1. <<>> \in Seq(Byte) /\ <<>> \in Seq(Seq(Byte)) /\ Len(<<>>) = 0
  OBVIOUS
<1>2. \A k \in 1 .. 3 : ~SignedFrom(<<>>, k)
  BY <1>1 DEF SignedFrom
<1>3. KeptLast(<<>>, <<>>)
  BY <1>1 DEF KeptLast, SignedFrom
<1> QED
  BY <1>1, <1>2, <1>3, PacketsInEmpty DEF Listened, NothingElse, Handled

\* The last k bytes after one more, for the k that the byte allows.
LEMMA SignedAfter ==
  ASSUME NEW b \in Seq(Byte), NEW c \in Byte, NEW k \in Nat, k >= 1
  PROVE  SignedFrom(Append(b, c), k) <=> SignedFrom(b, k - 1) /\ Signature(c) = k - 1
<1> DEFINE all == Append(b, c)
           n == Len(b)
<1>1. /\ n \in Nat /\ Len(all) = n + 1 /\ all[n + 1] = c
      /\ \A m \in 1 .. n : all[m] = b[m]
  OBVIOUS
<1> HIDE DEF all
<1>2. k <= n + 1 <=> k - 1 <= n
  BY <1>1
<1>3. ASSUME k <= n + 1
      PROVE  \A j \in 1 .. k - 1 : all[(n + 1) - k + j] = b[n - (k - 1) + j]
  <2> TAKE j \in 1 .. k - 1
  <2>1. (n + 1) - k + j \in 1 .. n /\ (n + 1) - k + j = n - (k - 1) + j
    BY <1>1, <1>3
  <2> QED BY <2>1, <1>1
<1>4. (n + 1) - k + k = n + 1 /\ k \in 1 .. k
  BY <1>1
<1>5. \A j \in 1 .. k : j = k \/ j \in 1 .. k - 1
  OBVIOUS
<1>6. \A j \in 1 .. k - 1 : j \in 1 .. k
  OBVIOUS
<1>7. SignedFrom(all, k) <=> k <= n + 1 /\ \A j \in 1 .. k : Signature(all[(n + 1) - k + j]) = j - 1
  BY <1>1 DEF SignedFrom
<1>8. SignedFrom(b, k - 1)
        <=> k - 1 <= n /\ \A j \in 1 .. k - 1 : Signature(b[n - (k - 1) + j]) = j - 1
  BY DEF SignedFrom
<1> HIDE DEF n
<1>9. ASSUME k <= n + 1
      PROVE  (\A j \in 1 .. k : Signature(all[(n + 1) - k + j]) = j - 1)
               <=> /\ \A j \in 1 .. k - 1 : Signature(b[n - (k - 1) + j]) = j - 1
                   /\ Signature(c) = k - 1
  <2>1. Signature(all[(n + 1) - k + k]) = Signature(c)
    BY <1>1, <1>4
  <2> QED BY <2>1, <1>3, <1>4, <1>5, <1>6, <1>9
<1> QED
  BY <1>2, <1>7, <1>8, <1>9 DEF all

LEMMA ByteListened ==
  ASSUME NEW b, NEW p, NEW h, Listened(b, p, h), Len(p) < 4, NEW c \in Byte
  PROVE  Listened(Append(b, c), After(p, c), h)
<1> DEFINE all == Append(b, c)
           n == Len(b)
           l == Len(p)
<1>1. /\ b \in Seq(Byte) /\ p \in Seq(Byte) /\ h \in Seq(Seq(Byte)) /\ PacketsIn(b) = h
      /\ SignedFrom(b, l) /\ \A j \in 1 .. l : p[j] = b[n - l + j]
      /\ \A k \in 1 .. 3 : SignedFrom(b, k) => k = l
  <2>1. p \in Seq(Byte)
    BY DEF Listened, KeptLast
  <2>2. Len(p) # 4
    BY <2>1
  <2> QED BY <2>1, <2>2 DEF Listened, KeptLast, NothingElse, Handled
<1>2. /\ n \in Nat /\ l \in Nat /\ l <= n /\ all \in Seq(Byte) /\ Len(all) = n + 1
      /\ all[n + 1] = c /\ \A m \in 1 .. n : all[m] = b[m]
  BY <1>1 DEF SignedFrom
<1>3. Signature(c) \in 0 .. 3
  BY DEF Signature, Byte
<1>4. \A k \in 1 .. 4 : SignedFrom(all, k) <=> SignedFrom(b, k - 1) /\ Signature(c) = k - 1
  <2> TAKE k \in 1 .. 4
  <2>1. k \in Nat /\ k >= 1 /\ b \in Seq(Byte)
    BY <1>1
  <2> HIDE DEF n, l
  <2> QED BY <2>1, SignedAfter
<1>5. SignedFrom(b, 0)
  BY <1>2 DEF SignedFrom
<1>6. Found(all, n + 1) <=> SignedFrom(all, 4)
  <2>1. n + 1 \in 1 .. Len(all)
    BY <1>2
  <2>2. Found(all, n + 1) <=> n + 1 >= 4 /\ \A j \in 1 .. 4 : Signature(all[(n + 1) - 4 + j]) = j - 1
    BY <2>1, <1>2, FoundIs
  <2>3. n + 1 >= 4 <=> 4 <= n + 1
    BY <1>2
  <2> HIDE DEF all
  <2> QED BY <2>2, <2>3, <1>2 DEF SignedFrom
<1>7. PacketsIn(all) = IF Found(all, n + 1) THEN Append(h, Quad(all, n + 1)) ELSE h
  BY <1>1, PacketsInAppend
<1>10. Len(p) # 4
  <2>1. p \in Seq(Byte)
    BY <1>1
  <2> QED BY <2>1
<1> HIDE DEF all, n
<1>8. CASE Signature(c) = l
  <2> DEFINE q == Append(p, c)
  <2>1. After(p, c) = q
    BY <1>8 DEF After
  <2>2. q \in Seq(Byte) /\ Len(q) = l + 1 /\ q[l + 1] = c /\ \A j \in 1 .. l : q[j] = p[j]
    BY <1>1
  <2>3. l + 1 \in 1 .. 4 /\ (l + 1) - 1 = l
    BY <1>2
  <2>4. SignedFrom(all, l + 1)
    BY <2>3, <1>1, <1>4, <1>8
  <2>5. ASSUME NEW j \in 1 .. l + 1 PROVE q[j] = all[(n + 1) - (l + 1) + j]
    <3>1. CASE j = l + 1
      <4>1. (n + 1) - (l + 1) + j = n + 1
        BY <3>1, <1>2
      <4> QED BY <3>1, <4>1, <2>2, <1>2
    <3>2. CASE j # l + 1
      <4>1. j \in 1 .. l /\ (n + 1) - (l + 1) + j = n - l + j /\ n - l + j \in 1 .. n
        BY <3>2, <1>2
      <4> QED BY <4>1, <2>2, <1>1, <1>2
    <3> QED BY <3>1, <3>2
  <2> HIDE DEF q
  <2>6. KeptLast(all, q)
    BY <2>2, <2>3, <2>4, <2>5, <1>2 DEF KeptLast
  <2>7. NothingElse(all, q)
    <3>1. \A k \in 1 .. 3 : SignedFrom(all, k) => k = l + 1
      BY <1>2, <1>4, <1>8
    <3> QED BY <3>1, <2>2 DEF NothingElse
  <2>8. Handled(all, q, h)
    <3>1. CASE l = 3
      <4>1. SignedFrom(all, 4) /\ Len(q) = 4
        BY <3>1, <2>2, <2>4
      <4>2. n + 1 \in 1 .. Len(all) /\ n + 1 >= 4
        BY <3>1, <1>2
      <4>3. Quad(all, n + 1) \in Seq(Byte) /\ Len(Quad(all, n + 1)) = 4
            /\ \A j \in 1 .. 4 : Quad(all, n + 1)[j] = all[(n + 1) - 4 + j]
        BY <4>2, <1>2, FoundIs
      <4>4. \A j \in 1 .. 4 : q[j] = all[(n + 1) - 4 + j]
        BY <3>1, <2>5
      <4>5. Quad(all, n + 1) = q
        BY <4>1, <4>3, <4>4, <2>2, SeqEqual
      <4> QED BY <4>1, <4>5, <1>1, <1>6, <1>7 DEF Handled
    <3>2. CASE l # 3
      <4>1. ~SignedFrom(all, 4) /\ Len(q) # 4
        BY <3>2, <2>2, <1>2, <1>4, <1>8
      <4> QED BY <4>1, <1>1, <1>6, <1>7 DEF Handled
    <3> QED BY <3>1, <3>2
  <2> QED BY <2>1, <2>6, <2>7, <2>8 DEF Listened, all
<1>9. CASE Signature(c) # l
  <2>1. ~SignedFrom(all, 4)
    <3>1. SignedFrom(all, 4) => SignedFrom(b, 4 - 1) /\ Signature(c) = 4 - 1
      BY <1>4
    <3>2. 4 - 1 = 3 /\ (SignedFrom(b, 3) => 3 = l)
      BY <1>1
    <3> QED BY <3>1, <3>2, <1>9
  <2>2. PacketsIn(all) = h
    BY <2>1, <1>6, <1>7
  <2>3. CASE Signature(c) = 0
    <3>0. <<c>> \in Seq(Byte) /\ Len(<<c>>) = 1 /\ <<c>>[1] = c
      OBVIOUS
    <3>1. After(p, c) = <<c>>
      BY <1>10, <1>9, <2>3 DEF After
    <3>2. SignedFrom(all, 1)
      BY <1>4, <1>5, <2>3
    <3>3. \A k \in 1 .. 3 : SignedFrom(all, k) => k = 1
      BY <1>4, <2>3
    <3>4. (n + 1) - 1 + 1 = n + 1
      BY <1>2
    <3>5. KeptLast(all, <<c>>)
      BY <3>0, <3>2, <3>4, <1>2 DEF KeptLast
    <3> QED BY <3>0, <3>1, <3>3, <3>5, <2>2, <1>1 DEF Listened, NothingElse, Handled, all
  <2>4. CASE Signature(c) # 0
    <3>0. <<>> \in Seq(Byte) /\ Len(<<>>) = 0
      OBVIOUS
    <3>1. After(p, c) = <<>>
      BY <1>10, <1>9, <2>4 DEF After
    <3>2. \A k \in 1 .. 3 : ~SignedFrom(all, k)
      <4> TAKE k \in 1 .. 3
      <4>1. CASE k = 1
        BY <4>1, <1>4, <2>4
      <4>2. CASE k # 1
        <5>1. k - 1 \in 1 .. 3 /\ k \in 1 .. 4
          BY <4>2
        <5>2. SignedFrom(b, k - 1) => k - 1 = l
          BY <5>1, <1>1
        <5>3. SignedFrom(all, k) => SignedFrom(b, k - 1) /\ Signature(c) = k - 1
          BY <5>1, <1>4
        <5> QED BY <5>2, <5>3, <1>9
      <4> QED BY <4>1, <4>2
    <3>3. KeptLast(all, <<>>)
      BY <3>0, <1>2 DEF KeptLast, SignedFrom
    <3> QED BY <3>0, <3>1, <3>2, <3>3, <2>2, <1>1 DEF Listened, NothingElse, Handled, all
  <2> QED BY <2>3, <2>4
<1> QED BY <1>8, <1>9

\* A packet that is handled was the next in the bytes, and nothing is kept of it.
LEMMA PacketTaken ==
  ASSUME NEW b, NEW p, NEW h, Listened(b, p, h), Len(p) = 4
  PROVE  Listened(b, <<>>, Append(h, p))
<1>1. /\ b \in Seq(Byte) /\ p \in Seq(Byte) /\ h \in Seq(Seq(Byte))
      /\ PacketsIn(b) = Append(h, p) /\ SignedFrom(b, 4) /\ Len(b) \in Nat
  BY DEF Listened, KeptLast, Handled
<1>2. <<>> \in Seq(Byte) /\ Len(<<>>) = 0 /\ Append(h, p) \in Seq(Seq(Byte))
  BY <1>1
<1>3. \A k \in 1 .. 3 : ~SignedFrom(b, k)
  <2>1. Signature(b[Len(b)]) = 3
    <3>1. Len(b) - 4 + 4 = Len(b) /\ 4 \in 1 .. 4
      BY <1>1
    <3> QED BY <3>1, <1>1 DEF SignedFrom
  <2> TAKE k \in 1 .. 3
  <2>2. ASSUME SignedFrom(b, k) PROVE FALSE
    <3>1. Len(b) - k + k = Len(b) /\ k \in 1 .. k
      BY <1>1
    <3>2. Signature(b[Len(b)]) = k - 1
      BY <3>1, <2>2 DEF SignedFrom
    <3> QED BY <3>2, <2>1
  <2> QED BY <2>2
<1>4. KeptLast(b, <<>>)
  BY <1>1, <1>2 DEF KeptLast, SignedFrom
<1> QED
  BY <1>1, <1>2, <1>3, <1>4 DEF Listened, NothingElse, Handled

-----------------------------------------------------------------------------
(* The steps of the engine and of the clients.                             *)

LEMMA PortsAre == 0 \in Ports /\ \A i \in Ports : i + 1 \in 1 .. MAX_CLIENTS
BY ServerAssumption DEF Ports

LEMMA NextPort ==
  ASSUME NEW i \in Ports PROVE (i + 1) % MAX_CLIENTS \in Ports
<1>1. MAX_CLIENTS \in Nat \ {0} /\ i + 1 \in Int
  BY ServerAssumption DEF Ports
<1>2. (i + 1) % MAX_CLIENTS \in 0 .. MAX_CLIENTS - 1
  BY <1>1, DivMod
<1> QED BY <1>2 DEF Ports

LEMMA ParsedValue ==
  ASSUME NEW p \in Seq(Byte), Len(p) = 4
  PROVE  ParseIoPacket(p).Value \in Word
<1>1. \A j \in 1 .. Len(p) : p[j] \in Byte
  OBVIOUS
<1>2. \A c \in Byte : c \in Int
  BY DEF Byte
<1>3. p[2] \in Int /\ p[3] \in Int /\ p[4] \in Int
  BY <1>1, <1>2
<1> DEFINE a == p[2] % 8
           b == p[3] % 64
           c == p[4] % 64
<1>4. ParseIoPacket(p).Value = a * 4096 + (b * 64 + c)
  BY DEF ParseIoPacket
<1>5. a \in Int /\ 0 <= a /\ a <= 7
  BY <1>3
<1>6. b \in Int /\ 0 <= b /\ b <= 63
  BY <1>3
<1>7. c \in Int /\ 0 <= c /\ c <= 63
  BY <1>3
<1> HIDE DEF a, b, c
<1>8. a * 4096 + (b * 64 + c) \in Int /\ 0 <= a * 4096 + (b * 64 + c)
      /\ a * 4096 + (b * 64 + c) <= 32767
  BY <1>5, <1>6, <1>7
<1>9. \A v \in Int : 0 <= v /\ v <= 32767 => v \in Word
  <2>1. HALF \in Int /\ 2 * HALF - 1 = 32767
    BY IoAssumption
  <2> QED BY <2>1 DEF Word
<1> QED
  BY <1>4, <1>8, <1>9

\* A broadcast leaves a client and its bytes as they are, or removes it.
LEMMA BecomesEffect ==
  ASSUME ServerType, NEW s, NEW clients \in [Ports -> ClientRecords], Becomes(s, clients)
  PROVE  /\ Clients' \in [Ports -> ClientRecords] /\ inbox' \in [Ports -> Seq(Byte)]
         /\ DOMAIN peer' = Ports /\ knocks' = knocks
         /\ \A i \in Ports : /\ peer'[i] = "open" => peer[i] = "open"
                             /\ \/ Clients'[i] = clients[i] /\ inbox'[i] = inbox[i]
                                \/ ~Clients'[i].Socket
<1>1. inbox \in [Ports -> Seq(Byte)] /\ DOMAIN peer = Ports /\ knocks' = knocks
  BY DEF ServerType, Becomes
<1>2. CASE s.sent = <<>>
  <2>1. Clients' = clients /\ inbox' = inbox /\ peer' = peer
    BY <1>2 DEF Becomes
  <2> QED BY <2>1, <1>1
<1>3. CASE s.sent # <<>>
  <2> DEFINE set == {i \in Ports : IsConnected(i)}
             gone == {i \in set : peer[i] = "reset"}
  <2>1. SendTo(set, clients, s.sent[1][1], s.sent[1][2])
    BY <1>3 DEF Becomes
  <2>2. PICK resets : 
          /\ Clients' = [i \in Ports |-> IF i \in gone THEN Removed(clients[i]) ELSE clients[i]]
          /\ peer' = [i \in Ports |-> CASE i \in gone -> "none"
                                        [] i \in resets -> "reset"
                                        [] OTHER -> peer[i]]
          /\ inbox' = [i \in Ports |-> IF i \in gone THEN <<>> ELSE inbox[i]]
    BY <2>1 DEF SendTo
  <2>3. \A i \in Ports : Removed(clients[i]) \in ClientRecords /\ ~Removed(clients[i]).Socket
    BY DEF Removed, ClientRecords
  <2>4. <<>> \in Seq(Byte)
    OBVIOUS
  <2> HIDE DEF gone
  <2>5. Clients' \in [Ports -> ClientRecords] /\ inbox' \in [Ports -> Seq(Byte)] /\ DOMAIN peer' = Ports
    BY <2>2, <2>3, <2>4, <1>1
  <2>6. \A i \in Ports : /\ peer'[i] = "open" => peer[i] = "open"
                         /\ \/ Clients'[i] = clients[i] /\ inbox'[i] = inbox[i]
                            \/ ~Clients'[i].Socket
    BY <2>2, <2>3
  <2> QED BY <2>5, <2>6, <1>1
<1> QED BY <1>2, <1>3

LEMMA StoryStays ==
  ASSUME StoryType, UNCHANGED <<sends, connection, arrived>>,
         \A i \in Ports : knocks'[i] \/ peer'[i] = "open" => knocks[i] \/ peer[i] = "open"
  PROVE  StoryType'
BY DEF StoryType

\* What is received in a step in which the rest of the inbox stays.
LEMMA ObserveNothing ==
  ASSUME ServerType, NEW i \in Ports, Observe(i), inbox' \in [Ports -> Seq(Byte)]
  PROVE  /\ received' \in [Ports -> Seq(Byte)]
         /\ \A j \in Ports : inbox'[j] = inbox[j] => received'[j] = received[j]
         /\ UNCHANGED <<sends, connection, arrived>>
<1>1. /\ received \in [Ports -> Seq(Byte)] /\ inbox[i] \in Seq(Byte) /\ inbox'[i] \in Seq(Byte)
      /\ received[i] \in Seq(Byte)
  BY DEF ServerType
<1>2. UNCHANGED <<sends, connection, arrived>>
  BY DEF Observe, storyVars
<1> DEFINE k == Len(inbox[i]) - Len(inbox'[i])
           new == SubSeq(inbox[i], 1, k)
<1>3. received' = [received EXCEPT ![i] = received[i] \o new]
  BY <1>1 DEF Observe
<1>4. k \in Int /\ k <= Len(inbox[i]) /\ Len(inbox[i]) \in Nat
  BY <1>1
<1>5. new \in Seq(Byte)
  <2> HIDE DEF k
  <2> QED BY <1>1, <1>4
<1>6. inbox'[i] = inbox[i] => new = <<>>
  <2>1. inbox'[i] = inbox[i] => k = 0
    BY <1>1
  <2> HIDE DEF k
  <2> QED BY <2>1, <1>1
<1> HIDE DEF new
<1>7. received[i] \o <<>> = received[i] /\ received[i] \o new \in Seq(Byte)
  BY <1>1, <1>5, ConcatEmptySeq
<1> QED
  BY <1>1, <1>2, <1>3, <1>6, <1>7

LEMMA NewClientType == NewClient \in ClientRecords
<1>1. <<>> \in Seq(Byte) /\ [ch \in Channels |-> \o77777] \in [Channels -> Word]
  <2>1. \o77777 \in Word
    <3>1. HALF \in Int /\ 2 * HALF - 1 = 32767
      BY IoAssumption
    <3> QED BY <3>1 DEF Word
  <2> QED BY <2>1
<1> QED BY <1>1 DEF NewClient, ClientRecords

\* New and missing clients.
LEMMA RoutineStep ==
  ASSUME ListenInv, ChannelRoutine, UNCHANGED <<sends, connection, arrived>>,
         received' = [i \in Ports |-> IF IsConnected(i) THEN received[i] ELSE <<>>],
         handed' = [i \in Ports |-> IF IsConnected(i) THEN handed[i] ELSE <<>>]
  PROVE  ListenInv'
<1>1. /\ StoryType /\ ServerType /\ EachIsListened /\ polled' = polled
      /\ <<>> \in Seq(Byte) /\ <<>> \in Seq(Seq(Byte))
  BY DEF ListenInv, ChannelRoutine
<1>2. /\ Clients \in [Ports -> ClientRecords] /\ inbox \in [Ports -> Seq(Byte)]
      /\ received \in [Ports -> Seq(Byte)] /\ handed \in [Ports -> Seq(Seq(Byte))]
      /\ DOMAIN knocks = Ports /\ DOMAIN peer = Ports /\ polled \in Ports
  BY <1>1 DEF ServerType
<1>3. received' \in [Ports -> Seq(Byte)] /\ handed' \in [Ports -> Seq(Seq(Byte))]
  BY <1>1, <1>2
<1>4. \A i \in Ports : IsConnected(i) => received'[i] = received[i] /\ handed'[i] = handed[i]
  OBVIOUS
<1>5. \A i \in Ports : ~IsConnected(i) => received'[i] = <<>> /\ handed'[i] = <<>>
  OBVIOUS
<1>6. \A i \in Ports : IsConnected(i) => Listened(received'[i], Clients[i].Packet, handed'[i])
  BY <1>1, <1>4 DEF EachIsListened
<1>7. CASE ChannelRoutineCount # 0
  <2>1. Clients' = Clients /\ inbox' = inbox /\ knocks' = knocks /\ peer' = peer
    BY <1>7 DEF ChannelRoutine, worldVars
  <2>2. ServerType'
    BY <1>1, <1>2, <1>3, <2>1 DEF ServerType
  <2>3. StoryType'
    BY <1>1, <2>1, StoryStays
  <2>4. EachIsListened'
    BY <1>6, <2>1 DEF EachIsListened, IsConnected
  <2> QED BY <2>2, <2>3, <2>4 DEF ListenInv
<1>8. CASE ChannelRoutineCount = 0
  <2> DEFINE clients == [i \in Ports |-> IF i \in Accepted THEN Welcomed(i) ELSE Clients[i]]
             gone == {i \in Ports : Probes /\ peer[i] = "reset"}
  <2>1. PICK resets :
          /\ peer' = [i \in Ports |-> CASE i \in Accepted -> "open"
                                        [] i \in gone -> "none"
                                        [] i \in resets -> "reset"
                                        [] OTHER -> peer[i]]
          /\ Clients' = [i \in Ports |-> IF i \in gone THEN Removed(clients[i]) ELSE clients[i]]
          /\ knocks' = [i \in Ports |-> knocks[i] /\ i \notin Accepted]
          /\ inbox' = [i \in Ports |-> IF i \in gone \cup Accepted THEN <<>> ELSE inbox[i]]
    BY <1>8 DEF ChannelRoutine
  <2>2. \A i \in Ports : clients[i] \in ClientRecords
    BY <1>2, NewClientType DEF Welcomed
  <2>3. \A i \in Ports : i \in Accepted => clients[i] = NewClient /\ ~IsConnected(i) /\ knocks[i]
    BY DEF Accepted, Welcomed
  <2>4. \A i \in Ports : i \notin Accepted => clients[i] = Clients[i]
    OBVIOUS
  <2> HIDE DEF clients, gone
  <2>5. \A i \in Ports : Removed(clients[i]) \in ClientRecords /\ ~Removed(clients[i]).Socket
    BY <2>2 DEF Removed, ClientRecords
  <2>6. ServerType'
    BY <1>1, <1>2, <1>3, <2>1, <2>2, <2>5 DEF ServerType
  <2>7. \A i \in Ports : knocks'[i] \/ peer'[i] = "open" => knocks[i] \/ peer[i] = "open"
    BY <2>1, <2>3
  <2>8. StoryType'
    BY <1>1, <2>7, StoryStays
  <2>9. ASSUME NEW i \in Ports, IsConnected(i)'
        PROVE  Listened(received'[i], Clients'[i].Packet, handed'[i])
    <3>1. Clients'[i] = clients[i] /\ Clients'[i].Socket
      BY <2>1, <2>5, <2>9 DEF IsConnected
    <3>2. CASE i \in Accepted
      <4>1. Clients'[i].Packet = <<>> /\ received'[i] = <<>> /\ handed'[i] = <<>>
        BY <3>1, <3>2, <2>3, <1>5 DEF NewClient
      <4> QED BY <4>1, NothingYet
    <3>3. CASE i \notin Accepted
      BY <3>1, <3>3, <2>4, <1>6 DEF IsConnected
    <3> QED BY <3>2, <3>3
  <2>10. EachIsListened'
    BY <2>9 DEF EachIsListened
  <2> QED BY <2>6, <2>8, <2>10 DEF ListenInv
<1> QED BY <1>7, <1>8

\* What the engine sends.
LEMMA BroadcastStep ==
  ASSUME ListenInv, NEW s, Becomes(s, Clients), polled' \in Ports,
         UNCHANGED <<sends, connection, arrived, received, handed>>
  PROVE  ListenInv'
<1>1. /\ StoryType /\ ServerType /\ EachIsListened /\ Clients \in [Ports -> ClientRecords]
  BY DEF ListenInv, ServerType
<1>2. /\ Clients' \in [Ports -> ClientRecords] /\ inbox' \in [Ports -> Seq(Byte)]
      /\ DOMAIN peer' = Ports /\ knocks' = knocks
      /\ \A i \in Ports : /\ peer'[i] = "open" => peer[i] = "open"
                          /\ Clients'[i] = Clients[i] \/ ~Clients'[i].Socket
  BY <1>1, BecomesEffect
<1>3. ServerType'
  BY <1>1, <1>2 DEF ServerType
<1>4. StoryType'
  BY <1>1, <1>2, StoryStays
<1>5. EachIsListened'
  BY <1>1, <1>2 DEF EachIsListened, IsConnected
<1> QED BY <1>3, <1>4, <1>5 DEF ListenInv

LEMMA PassOverStep ==
  ASSUME ListenInv, PassOver, Observe(polled), handed' = handed
  PROVE  ListenInv'
<1>1. /\ StoryType /\ ServerType /\ EachIsListened /\ polled \in Ports /\ polled' \in Ports
      /\ UNCHANGED <<Clients, inbox, knocks, peer>>
  BY NextPort DEF ListenInv, ServerType, PassOver, Onwards, worldVars
<1>2. /\ received' \in [Ports -> Seq(Byte)] /\ \A j \in Ports : received'[j] = received[j]
      /\ UNCHANGED <<sends, connection, arrived>>
  <2>1. inbox' \in [Ports -> Seq(Byte)]
    BY <1>1 DEF ServerType
  <2> QED BY <1>1, <2>1, ObserveNothing
<1>3. ServerType'
  BY <1>1, <1>2 DEF ServerType
<1>4. StoryType'
  BY <1>1, <1>2, StoryStays
<1>5. EachIsListened'
  BY <1>1, <1>2 DEF EachIsListened, IsConnected
<1> QED BY <1>3, <1>4, <1>5 DEF ListenInv

LEMMA ReceiveByteStep ==
  ASSUME ListenInv, ReceiveByte, Observe(polled), handed' = handed
  PROVE  ListenInv'
<1> DEFINE i == polled
           c == Head(inbox[i])
<1>1. /\ StoryType /\ ServerType /\ EachIsListened /\ polled' = polled
      /\ i \in Ports /\ inbox[i] \in Seq(Byte) /\ inbox[i] # <<>> /\ knocks' = knocks /\ peer' = peer
      /\ Clients' = [Clients EXCEPT ![i].Packet = After(@, c)]
      /\ inbox' = [inbox EXCEPT ![i] = Tail(inbox[i])]
      /\ IsConnected(i) /\ Len(Clients[i].Packet) < 4
  BY DEF ListenInv, ServerType, ReceiveByte
<1>2. /\ Clients \in [Ports -> ClientRecords] /\ inbox \in [Ports -> Seq(Byte)]
      /\ received \in [Ports -> Seq(Byte)] /\ handed \in [Ports -> Seq(Seq(Byte))]
      /\ received[i] \in Seq(Byte)
  BY <1>1 DEF ServerType
<1>3. /\ c \in Byte /\ Tail(inbox[i]) \in Seq(Byte) /\ Len(inbox[i]) - Len(Tail(inbox[i])) = 1
      /\ SubSeq(inbox[i], 1, 1) = <<c>>
  <2>1. \A s \in Seq(Byte) : s # <<>> =>
          /\ Head(s) \in Byte /\ Tail(s) \in Seq(Byte) /\ Len(s) - Len(Tail(s)) = 1
          /\ SubSeq(s, 1, 1) = <<Head(s)>>
    <3> SUFFICES ASSUME NEW s \in Seq(Byte), s # <<>>
                 PROVE  /\ Head(s) \in Byte /\ Tail(s) \in Seq(Byte) /\ Len(s) - Len(Tail(s)) = 1
                        /\ SubSeq(s, 1, 1) = <<Head(s)>>
      OBVIOUS
    <3>1. Head(s) \in Byte /\ Tail(s) \in Seq(Byte) /\ Len(s) - Len(Tail(s)) = 1
      OBVIOUS
    <3>2. /\ SubSeq(s, 1, 1) \in Seq(Byte) /\ Len(SubSeq(s, 1, 1)) = 1
          /\ SubSeq(s, 1, 1)[1] = Head(s)
      OBVIOUS
    <3>3. <<Head(s)>> \in Seq(Byte) /\ Len(<<Head(s)>>) = 1 /\ <<Head(s)>>[1] = Head(s)
      BY <3>1
    <3>4. SubSeq(s, 1, 1) = <<Head(s)>>
      <4>1. \A n \in 1 .. Len(SubSeq(s, 1, 1)) : SubSeq(s, 1, 1)[n] = <<Head(s)>>[n]
        BY <3>2, <3>3
      <4> QED BY <4>1, <3>2, <3>3, SeqEqual
    <3> QED BY <3>1, <3>4
  <2> QED BY <2>1, <1>1
<1>4. received' = [received EXCEPT ![i] = Append(received[i], c)]
  <2>1. inbox'[i] = Tail(inbox[i])
    BY <1>1, <1>2
  <2>2. received' = [received EXCEPT ![i] = received[i] \o <<c>>]
    BY <1>2, <1>3, <2>1 DEF Observe
  <2>3. received[i] \o <<c>> = Append(received[i], c)
    BY <1>2, <1>3
  <2> QED BY <2>2, <2>3
<1>5. UNCHANGED <<sends, connection, arrived>>
  BY DEF Observe, storyVars
<1>6. Listened(received[i], Clients[i].Packet, handed[i])
  BY <1>1 DEF EachIsListened
<1> HIDE DEF c
<1>7. Listened(Append(received[i], c), After(Clients[i].Packet, c), handed[i])
  BY <1>1, <1>3, <1>6, ByteListened
<1>8. After(Clients[i].Packet, c) \in Seq(Byte) /\ Append(received[i], c) \in Seq(Byte)
  BY <1>7 DEF Listened, KeptLast
<1>9. Clients' \in [Ports -> ClientRecords] /\ inbox' \in [Ports -> Seq(Byte)]
      /\ received' \in [Ports -> Seq(Byte)]
  <2>1. Clients[i] \in ClientRecords
    BY <1>1, <1>2
  <2>2. [Clients[i] EXCEPT !.Packet = After(@, c)] \in ClientRecords
    BY <2>1, <1>8 DEF ClientRecords
  <2>3. Clients' = [Clients EXCEPT ![i] = [Clients[i] EXCEPT !.Packet = After(@, c)]]
    BY <1>1
  <2>4. Clients' \in [Ports -> ClientRecords]
    BY <2>2, <2>3, <1>1, <1>2
  <2> QED BY <2>4, <1>1, <1>2, <1>3, <1>4, <1>8
<1>10. ServerType'
  BY <1>1, <1>9 DEF ServerType
<1>11. StoryType'
  BY <1>1, <1>5, StoryStays
<1>12. ASSUME NEW j \in Ports, IsConnected(j)'
       PROVE  Listened(received'[j], Clients'[j].Packet, handed'[j])
  <2>1. CASE j = i
    <3>1. received'[i] = Append(received[i], c) /\ Clients'[i].Packet = After(Clients[i].Packet, c)
      <4>1. Clients[i] \in ClientRecords
        BY <1>1, <1>2
      <4> QED BY <4>1, <1>1, <1>2, <1>4 DEF ClientRecords
    <3> QED BY <2>1, <3>1, <1>7
  <2>2. CASE j # i
    <3>1. received'[j] = received[j] /\ Clients'[j] = Clients[j]
      BY <2>2, <1>1, <1>2, <1>4
    <3> QED BY <3>1, <1>1, <1>12 DEF EachIsListened, IsConnected
  <2> QED BY <2>1, <2>2
<1>13. EachIsListened'
  BY <1>12 DEF EachIsListened
<1> QED BY <1>10, <1>11, <1>13 DEF ListenInv

\* A packet of the client that is polled is handled: clients are the records
\* then, but for those that a broadcast removes.
LEMMA PacketHandled ==
  ASSUME ListenInv, Observe(polled), polled' \in Ports,
         Len(Clients[polled].Packet) = 4,
         handed' = [handed EXCEPT ![polled] = Append(@, Clients[polled].Packet)],
         NEW clients \in [Ports -> ClientRecords],
         clients[polled].Packet = <<>>, clients[polled].Socket = IsConnected(polled),
         \A j \in Ports \ {polled} : clients[j] = Clients[j],
         Clients' \in [Ports -> ClientRecords], inbox' \in [Ports -> Seq(Byte)],
         DOMAIN peer' = Ports, knocks' = knocks,
         \A j \in Ports : /\ peer'[j] = "open" => peer[j] = "open"
                          /\ \/ Clients'[j] = clients[j] /\ inbox'[j] = inbox[j]
                             \/ ~Clients'[j].Socket
  PROVE  ListenInv'
<1> DEFINE i == polled
           p == Clients[i].Packet
<1>1. /\ StoryType /\ ServerType /\ EachIsListened /\ i \in Ports
      /\ handed \in [Ports -> Seq(Seq(Byte))] /\ received \in [Ports -> Seq(Byte)]
      /\ p \in Seq(Byte)
  BY DEF ListenInv, ServerType, ClientRecords
<1>2. /\ received' \in [Ports -> Seq(Byte)]
      /\ \A j \in Ports : inbox'[j] = inbox[j] => received'[j] = received[j]
      /\ UNCHANGED <<sends, connection, arrived>>
  BY <1>1, ObserveNothing
<1>3. IsConnected(i) => Listened(received[i], p, handed[i])
  BY <1>1 DEF EachIsListened
<1>4. IsConnected(i) => Listened(received[i], <<>>, Append(handed[i], p))
  BY <1>3, PacketTaken
<1> HIDE DEF p
<1>5. handed' = [handed EXCEPT ![i] = Append(handed[i], p)]
  BY <1>1 DEF p
<1>6. Append(handed[i], p) \in Seq(Seq(Byte))
  BY <1>1
<1>7. handed' \in [Ports -> Seq(Seq(Byte))]
  BY <1>1, <1>5, <1>6
<1>8. ServerType'
  BY <1>1, <1>2, <1>7 DEF ServerType
<1>9. StoryType'
  BY <1>1, <1>2, StoryStays
<1>10. ASSUME NEW j \in Ports, IsConnected(j)'
       PROVE  Listened(received'[j], Clients'[j].Packet, handed'[j])
  <2>1. Clients'[j] = clients[j] /\ received'[j] = received[j]
    BY <1>2, <1>10 DEF IsConnected
  <2>2. CASE j = i
    <3>1. Clients'[j].Packet = <<>> /\ handed'[j] = Append(handed[i], p)
      BY <2>1, <2>2, <1>1, <1>5
    <3>2. IsConnected(i)
      BY <2>1, <2>2, <1>10 DEF IsConnected
    <3> QED BY <3>1, <3>2, <2>1, <2>2, <1>4
  <2>3. CASE j # i
    <3>1. Clients'[j] = Clients[j] /\ handed'[j] = handed[j]
      BY <2>1, <2>3, <1>1, <1>5
    <3> QED BY <3>1, <2>1, <1>1, <1>10 DEF EachIsListened, IsConnected
  <2> QED BY <2>2, <2>3
<1>11. EachIsListened'
  BY <1>10 DEF EachIsListened
<1> QED BY <1>8, <1>9, <1>11 DEF ListenInv

LEMMA EmptiedType ==
  ASSUME ServerType
  PROVE  /\ Emptied(polled) \in [Ports -> ClientRecords]
         /\ Emptied(polled)[polled].Packet = <<>>
         /\ Emptied(polled)[polled].Socket = IsConnected(polled)
         /\ \A j \in Ports \ {polled} : Emptied(polled)[j] = Clients[j]
<1> DEFINE less == [Clients[polled] EXCEPT !.Packet = <<>>]
<1>1. polled \in Ports /\ Clients \in [Ports -> ClientRecords] /\ <<>> \in Seq(Byte)
      /\ Clients[polled] \in ClientRecords
  BY DEF ServerType
<1>2. less \in ClientRecords /\ less.Packet = <<>> /\ less.Socket = IsConnected(polled)
  BY <1>1 DEF ClientRecords, IsConnected
<1>3. Emptied(polled) = [Clients EXCEPT ![polled] = less]
  BY DEF Emptied
<1> HIDE DEF less
<1> QED BY <1>1, <1>2, <1>3

LEMMA ReceiveMaskStep ==
  ASSUME ListenInv, ReceiveMask, Observe(polled),
         handed' = [handed EXCEPT ![polled] = Append(@, Clients[polled].Packet)]
  PROVE  ListenInv'
<1> DEFINE record == [Emptied(polled)[polled] EXCEPT !.ChannelMasks[Parsed.Channel] = Parsed.Value]
<1>1. /\ ServerType /\ polled \in Ports /\ polled' \in Ports /\ Len(Clients[polled].Packet) = 4
      /\ UNCHANGED <<inbox, knocks, peer>>
      /\ Clients' = [Emptied(polled) EXCEPT ![polled].ChannelMasks[Parsed.Channel] = Parsed.Value]
  BY NextPort DEF ListenInv, ServerType, ReceiveMask, HasPacket, InPoll, Onwards, worldVars
<1>2. /\ Clients \in [Ports -> ClientRecords] /\ Clients[polled].Packet \in Seq(Byte)
      /\ inbox \in [Ports -> Seq(Byte)] /\ DOMAIN peer = Ports
  BY <1>1 DEF ServerType, ClientRecords
<1>3. Parsed.Value \in Word
  BY <1>1, <1>2, ParsedValue DEF Parsed
<1>4. /\ Emptied(polled) \in [Ports -> ClientRecords] /\ Emptied(polled)[polled].Packet = <<>>
      /\ Emptied(polled)[polled].Socket = IsConnected(polled)
      /\ \A j \in Ports \ {polled} : Emptied(polled)[j] = Clients[j]
  BY <1>1, EmptiedType
<1>5. /\ record \in ClientRecords /\ record.Packet = <<>> /\ record.Socket = IsConnected(polled)
  <2>1. Emptied(polled)[polled] \in ClientRecords
    BY <1>1, <1>4
  <2> QED BY <2>1, <1>3, <1>4 DEF ClientRecords
<1>6. Clients' = [Emptied(polled) EXCEPT ![polled] = record]
  BY <1>1
<1> HIDE DEF record
<1>7. /\ Clients' \in [Ports -> ClientRecords] /\ Clients'[polled].Packet = <<>>
      /\ Clients'[polled].Socket = IsConnected(polled)
      /\ \A j \in Ports \ {polled} : Clients'[j] = Clients[j]
  BY <1>1, <1>4, <1>5, <1>6
<1>8. /\ inbox' \in [Ports -> Seq(Byte)] /\ DOMAIN peer' = Ports /\ knocks' = knocks
      /\ \A j \in Ports : peer'[j] = "open" => peer[j] = "open"
      /\ \A j \in Ports : inbox'[j] = inbox[j]
  BY <1>1, <1>2
<1>9. PICK clients \in [Ports -> ClientRecords] : clients = Clients'
  BY <1>7
<1> QED
  BY <1>1, <1>7, <1>8, <1>9, PacketHandled

LEMMA ReceiveOtherStep ==
  ASSUME ListenInv, ReceiveCount \/ ReceiveValue, Observe(polled),
         handed' = [handed EXCEPT ![polled] = Append(@, Clients[polled].Packet)]
  PROVE  ListenInv'
<1>1. /\ ServerType /\ polled \in Ports /\ polled' \in Ports /\ Len(Clients[polled].Packet) = 4
  BY NextPort, PortsAre DEF ListenInv, ServerType, ReceiveCount, ReceiveValue, HasPacket, Onwards
<1>2. PICK s : Becomes(s, Emptied(polled))
  BY DEF ReceiveCount, ReceiveValue
<1>3. /\ Emptied(polled) \in [Ports -> ClientRecords] /\ Emptied(polled)[polled].Packet = <<>>
      /\ Emptied(polled)[polled].Socket = IsConnected(polled)
      /\ \A j \in Ports \ {polled} : Emptied(polled)[j] = Clients[j]
  BY <1>1, EmptiedType
<1>4. /\ Clients' \in [Ports -> ClientRecords] /\ inbox' \in [Ports -> Seq(Byte)]
      /\ DOMAIN peer' = Ports /\ knocks' = knocks
      /\ \A i \in Ports : /\ peer'[i] = "open" => peer[i] = "open"
                          /\ \/ Clients'[i] = Emptied(polled)[i] /\ inbox'[i] = inbox[i]
                             \/ ~Clients'[i].Socket
  BY <1>1, <1>2, <1>3, BecomesEffect
<1> QED
  BY <1>1, <1>3, <1>4, PacketHandled

\* The clients.
LEMMA ConnectsStep ==
  ASSUME ListenInv, NEW i \in Ports, Connects(i)
  PROVE  ListenInv'
<1>1. /\ StoryType /\ ServerType /\ EachIsListened /\ connection[i] < Len(sends[i + 1])
      /\ knocks' = [knocks EXCEPT ![i] = TRUE]
      /\ connection' = [connection EXCEPT ![i] = @ + 1] /\ arrived' = [arrived EXCEPT ![i] = 0]
      /\ UNCHANGED <<sends, received, handed, Clients, polled, peer, inbox>>
  BY DEF ListenInv, Connects, Knock, storyVars, engineVars
<1>2. ServerType'
  BY <1>1 DEF ServerType
<1>3. StoryType'
  <2>1. sends[i + 1] \in Seq(Seq(Byte)) /\ connection[i] \in Nat
    BY <1>1, PortsAre DEF StoryType
  <2>2. Len(sends[i + 1]) \in Nat
    BY <2>1
  <2>3. connection' \in [Ports -> Nat] /\ arrived' \in [Ports -> Nat]
    BY <1>1, <2>1 DEF StoryType
  <2>4. ASSUME NEW j \in Ports
        PROVE  /\ connection'[j] <= Len(sends[j + 1])
               /\ knocks'[j] \/ peer'[j] = "open" => connection'[j] >= 1
    <3>1. CASE j = i
      <4>1. connection'[j] = connection[i] + 1
        BY <1>1, <3>1 DEF StoryType
      <4> QED BY <4>1, <3>1, <1>1, <2>1, <2>2
    <3>2. CASE j # i
      <4>1. connection'[j] = connection[j] /\ knocks'[j] = knocks[j] /\ peer'[j] = peer[j]
        BY <1>1, <3>2 DEF StoryType, ServerType
      <4> QED BY <4>1, <1>1 DEF StoryType
    <3> QED BY <3>1, <3>2
  <2> QED BY <1>1, <2>3, <2>4 DEF StoryType
<1>4. EachIsListened'
  BY <1>1 DEF EachIsListened, IsConnected
<1> QED BY <1>2, <1>3, <1>4 DEF ListenInv

LEMMA BytesStep ==
  ASSUME ListenInv, NEW i \in Ports, Bytes(i)
  PROVE  ListenInv'
<1>1. /\ StoryType /\ ServerType /\ EachIsListened /\ peer[i] = "open"
      /\ UNCHANGED <<sends, connection, received, handed>>
  BY DEF ListenInv, Bytes, storyVars
<1>2. PICK n \in arrived[i] + 1 .. Len(Script(i)) :
        /\ Arrive(i, SubSeq(Script(i), arrived[i] + 1, n))
        /\ arrived' = [arrived EXCEPT ![i] = n]
  BY DEF Bytes
<1>3. Script(i) \in Seq(Byte) /\ arrived[i] \in Nat
  <2>1. sends[i + 1] \in Seq(Seq(Byte)) /\ connection[i] \in Nat /\ connection[i] >= 1
        /\ connection[i] <= Len(sends[i + 1]) /\ arrived[i] \in Nat
    BY <1>1, PortsAre DEF StoryType
  <2>2. \A ss \in Seq(Seq(Byte)), k \in Nat : k >= 1 /\ k <= Len(ss) => ss[k] \in Seq(Byte)
    OBVIOUS
  <2> QED BY <2>1, <2>2 DEF Script
<1>4. n \in Nat /\ SubSeq(Script(i), arrived[i] + 1, n) \in Seq(Byte)
  BY <1>3
<1> DEFINE new == SubSeq(Script(i), arrived[i] + 1, n)
<1>5. /\ inbox' = [inbox EXCEPT ![i] = inbox[i] \o new] /\ knocks' = knocks /\ peer' = peer
      /\ UNCHANGED <<Clients, polled>> /\ inbox[i] \in Seq(Byte)
  BY <1>1, <1>2 DEF Arrive, engineVars, ServerType
<1> HIDE DEF new
<1>6. inbox[i] \o new \in Seq(Byte)
  BY <1>4, <1>5 DEF new
<1>7. ServerType'
  BY <1>1, <1>5, <1>6 DEF ServerType
<1>8. StoryType'
  BY <1>1, <1>2, <1>4, <1>5 DEF StoryType
<1>9. EachIsListened'
  BY <1>1, <1>5 DEF EachIsListened, IsConnected
<1> QED BY <1>7, <1>8, <1>9 DEF ListenInv

LEMMA LeavesStep ==
  ASSUME ListenInv, NEW i \in Ports, Leaves(i)
  PROVE  ListenInv'
<1>1. /\ StoryType /\ ServerType /\ EachIsListened /\ peer' = [peer EXCEPT ![i] = "closed"]
      /\ UNCHANGED <<sends, connection, arrived, received, handed, Clients, polled, knocks, inbox>>
  BY DEF ListenInv, Leaves, HangUp, storyVars, engineVars
<1>2. ServerType'
  BY <1>1 DEF ServerType
<1>3. \A j \in Ports : peer'[j] = "open" => peer[j] = "open"
  BY <1>1 DEF ServerType
<1>4. StoryType'
  BY <1>1, <1>3, StoryStays
<1>5. EachIsListened'
  BY <1>1 DEF EachIsListened, IsConnected
<1> QED BY <1>2, <1>4, <1>5 DEF ListenInv

LEMMA EngineStep ==
  ASSUME ListenInv, Engine
  PROVE  ListenInv'
<1>0. polled \in Ports /\ 0 \in Ports
  BY PortsAre DEF ListenInv, ServerType
<1>1. CASE ChannelRoutine
          /\ received' = [i \in Ports |-> IF IsConnected(i) THEN received[i] ELSE <<>>]
          /\ handed' = [i \in Ports |-> IF IsConnected(i) THEN handed[i] ELSE <<>>]
          /\ UNCHANGED <<storyVars, connection, arrived>>
  BY <1>1, RoutineStep DEF storyVars
<1>2. CASE (UpdateDSKY \/ Program(IF listens THEN Outputs ELSE {}))
           /\ UNCHANGED <<storyVars, connection, arrived, received, handed>>
  <2>1. polled' \in Ports
    BY <1>0, <1>2 DEF UpdateDSKY, Program
  <2>2. \E s : Becomes(s, Clients)
    BY <1>2 DEF UpdateDSKY, Program
  <2> QED BY <1>2, <2>1, <2>2, BroadcastStep DEF storyVars
<1>3. CASE PassOver /\ Observe(polled) /\ UNCHANGED handed
  BY <1>3, PassOverStep
<1>4. CASE ReceiveByte /\ Observe(polled) /\ UNCHANGED handed
  BY <1>4, ReceiveByteStep
<1>5. CASE ReceiveMask /\ Observe(polled)
           /\ handed' = [handed EXCEPT ![polled] = Append(@, Clients[polled].Packet)]
  BY <1>5, ReceiveMaskStep
<1>6. CASE (ReceiveCount \/ ReceiveValue) /\ Observe(polled)
           /\ handed' = [handed EXCEPT ![polled] = Append(@, Clients[polled].Packet)]
  BY <1>6, ReceiveOtherStep
<1> QED BY <1>1, <1>2, <1>3, <1>4, <1>5, <1>6 DEF Engine

LEMMA ListenInvInit == MCInit => ListenInv
<1> SUFFICES ASSUME MCInit PROVE ListenInv
  OBVIOUS
<1>1. <<>> \in Seq(Byte) /\ <<>> \in Seq(Seq(Byte)) /\ 0 \in Ports
  BY PortsAre
<1>2. NoClient \in ClientRecords /\ ~NoClient.Socket
  <2>1. 0 \in Word
    BY HALFAssumption DEF Word
  <2> QED BY <2>1, <1>1 DEF NoClient, ClientRecords
<1>3. ServerType
  BY <1>1, <1>2 DEF MCInit, Init, HistoryInit, ServerType
<1>4. sends \in [1 .. MAX_CLIENTS -> Seq(Seq(Byte))]
  <2>1. CASE SendingInit
    BY <2>1, StoryAssumption DEF SendingInit
  <2>2. CASE ListeningInit
    <3>1. \A i \in 1 .. MAX_CLIENTS : [n \in 1 .. Visits[i] |-> <<>>] \in Seq(Seq(Byte))
      <4>1. \A k \in Nat : [n \in 1 .. k |-> <<>>] \in Seq(Seq(Byte))
        BY <1>1, IsASeq
      <4> QED BY <4>1, StoryAssumption
    <3> QED BY <2>2, <3>1 DEF ListeningInit, Listening
  <2> QED BY <2>1, <2>2 DEF MCInit
<1>5. StoryType
  <2>1. \A i \in Ports : Len(sends[i + 1]) \in Nat
    BY <1>4, PortsAre
  <2> QED BY <1>4, <2>1 DEF StoryType, MCInit, Init, HistoryInit
<1>6. EachIsListened
  BY <1>2 DEF EachIsListened, IsConnected, MCInit, Init
<1> QED BY <1>3, <1>5, <1>6 DEF ListenInv

LEMMA ListenInvStep == ListenInv /\ [MCNext]_mcVars => ListenInv'
<1> SUFFICES ASSUME ListenInv, [MCNext]_mcVars PROVE ListenInv'
  OBVIOUS
<1>1. CASE Engine
  BY <1>1, EngineStep
<1>2. ASSUME NEW i \in Ports, Connects(i) \/ Bytes(i) \/ Leaves(i) PROVE ListenInv'
  BY <1>2, ConnectsStep, BytesStep, LeavesStep
<1>3. CASE UNCHANGED mcVars
  BY <1>3 DEF mcVars, serverVars, engineVars, worldVars, storyVars, ListenInv, StoryType,
              ServerType, EachIsListened, IsConnected
<1> QED BY <1>1, <1>2, <1>3 DEF MCNext

THEOREM AlwaysListened == MCSpec => []ListenInv
<1>1. MCInit => ListenInv
  BY ListenInvInit
<1>2. ListenInv /\ [MCNext]_mcVars => ListenInv'
  BY ListenInvStep
<1> QED BY <1>1, <1>2, PTL DEF MCSpec

\* What has been handled of each client is what there is in the bytes of its
\* present connection, in order and each packet once: however many clients there
\* are and whatever they send, in whatever pieces it arrives, and whatever of it
\* is lost or out of place (the byte loop of ChannelInput).
THEOREM HandedIsWhole == MCSpec => []PacketsAreWhole
<1>1. ListenInv => PacketsAreWhole
  <2> SUFFICES ASSUME ListenInv, NEW i \in Ports, IsConnected(i), Len(Clients[i].Packet) < 4
               PROVE  handed[i] = PacketsIn(received[i])
    BY DEF PacketsAreWhole
  <2>1. Listened(received[i], Clients[i].Packet, handed[i])
    BY DEF ListenInv, EachIsListened
  <2>2. Clients[i].Packet \in Seq(Byte)
    BY <2>1 DEF Listened, KeptLast
  <2>3. Len(Clients[i].Packet) # 4
    <3> DEFINE l == Len(Clients[i].Packet)
    <3>1. l < 4 /\ l \in Nat
      BY <2>2
    <3> HIDE DEF l
    <3>2. l # 4
      BY <3>1
    <3> QED BY <3>2 DEF l
  <2> QED BY <2>1, <2>3 DEF Listened, Handled
<1> QED BY <1>1, AlwaysListened, PTL

-----------------------------------------------------------------------------
(* What comes of packets in which one byte goes wrong.                     *)

SignedPackets == {p \in Packet : IsSignedPacket(p)}

LEMMA SignedPacketIs ==
  ASSUME NEW p \in SignedPackets
  PROVE  /\ p \in Seq(Byte) /\ Len(p) = 4 /\ \A j \in 1 .. 4 : p[j] \in Byte /\ Signature(p[j]) = j - 1
         /\ PacketsIn(p) = <<p>>
<1>1. p \in [1 .. 4 -> Byte] /\ \A j \in 1 .. 4 : Signature(p[j]) = j - 1
  BY DEF SignedPackets, IsSignedPacket, Packet
<1>2. p \in Seq(Byte) /\ Len(p) = 4
  <2>1. \A k \in Nat : \A g \in [1 .. k -> Byte] : g \in Seq(Byte) /\ Len(g) = k
    OBVIOUS
  <2> QED BY <2>1, <1>1
<1>3. SignedFrom(p, 4)
  <2>1. \A j \in 1 .. 4 : 4 - 4 + j = j
    OBVIOUS
  <2> QED BY <2>1, <1>1, <1>2 DEF SignedFrom
<1>4. /\ Found(p, 4) /\ Quad(p, 4) \in Seq(Byte) /\ Len(Quad(p, 4)) = 4
      /\ \A j \in 1 .. 4 : Quad(p, 4)[j] = p[j]
  <2>1. 4 \in 1 .. Len(p) /\ \A j \in 1 .. 4 : 4 - 4 + j = j
    BY <1>2
  <2>2. Found(p, 4) <=> 4 >= 4 /\ \A j \in 1 .. 4 : Signature(p[4 - 4 + j]) = j - 1
    BY <2>1, <1>2, FoundIs
  <2>3. 4 >= 4 => /\ Quad(p, 4) \in Seq(Byte) /\ Len(Quad(p, 4)) = 4
                  /\ \A j \in 1 .. 4 : Quad(p, 4)[j] = p[4 - 4 + j]
    BY <2>1, <1>2, FoundIs
  <2> QED BY <2>1, <2>2, <2>3, <1>1
<1>5. Quad(p, 4) = p
  BY <1>2, <1>4, SeqEqual
<1>6. PICK f \in [0 .. Len(p) -> Seq(Seq(Byte))] : Scans(f, p)
  BY <1>2, ScanExists
<1>7. f[0] = <<>> /\ \A n \in 1 .. 4 : f[n] = IF Found(p, n) THEN Append(f[n - 1], Quad(p, n)) ELSE f[n - 1]
  BY <1>2, <1>6 DEF Scans
<1>8. ~Found(p, 1) /\ ~Found(p, 2) /\ ~Found(p, 3)
  BY DEF Found
<1>9. f[1] = <<>> /\ f[2] = <<>> /\ f[3] = <<>>
  <2>1. 1 - 1 = 0 /\ 2 - 1 = 1 /\ 3 - 1 = 2 /\ 1 \in 1 .. 4 /\ 2 \in 1 .. 4 /\ 3 \in 1 .. 4
    OBVIOUS
  <2>2. f[1] = f[0]
    BY <2>1, <1>7, <1>8
  <2>3. f[2] = f[1]
    BY <2>1, <1>7, <1>8
  <2>4. f[3] = f[2]
    BY <2>1, <1>7, <1>8
  <2> QED BY <2>2, <2>3, <2>4, <1>7
<1>10. f[4] = Append(<<>>, p)
  <2>1. 4 - 1 = 3 /\ 4 \in 1 .. 4
    OBVIOUS
  <2> QED BY <2>1, <1>4, <1>5, <1>7, <1>9
<1>11. PacketsIn(p) = f[4]
  BY <1>2, <1>6, ScanIs
<1>12. Append(<<>>, p) = <<p>>
  OBVIOUS
<1> QED BY <1>1, <1>2, <1>10, <1>11, <1>12

\* Packets that are joined are found again.
FoundAgain(ps) ==
  LET all == Joined(ps)
  IN  /\ all \in Seq(Byte) /\ Len(all) = 4 * Len(ps) /\ PacketsIn(all) = ps
      /\ all = <<>> \/ (Signature(all[1]) = 0 /\ Signature(all[Len(all)]) = 3)

LEMMA SignedPacketsAre == Seq(SignedPackets) \subseteq Seq(Seq(Byte))
<1>1. SignedPackets \subseteq Seq(Byte)
  BY SignedPacketIs
<1> QED BY <1>1

LEMMA FoundAgainEmpty == FoundAgain(<<>>)
<1>1. <<>> \in Seq(Byte) /\ Len(<<>>) = 0 /\ 4 * Len(<<>>) = 0
  OBVIOUS
<1>2. Joined(<<>>) = <<>>
  BY <1>1 DEF Joined, FlattenSeq
<1> QED BY <1>1, <1>2, PacketsInEmpty DEF FoundAgain

LEMMA FoundAgainAppend ==
  ASSUME NEW ps \in Seq(SignedPackets), NEW p \in SignedPackets, FoundAgain(ps)
  PROVE  FoundAgain(Append(ps, p))
<1> DEFINE x == Joined(ps)
<1>1. ps \in Seq(Seq(Byte)) /\ p \in Seq(Byte) /\ Len(p) = 4 /\ PacketsIn(p) = <<p>>
      /\ \A j \in 1 .. 4 : Signature(p[j]) = j - 1
  BY SignedPacketsAre, SignedPacketIs
<1>2. Joined(Append(ps, p)) = x \o p
  BY <1>1, FlattenAppend DEF Joined
<1>3. /\ x \in Seq(Byte) /\ Len(x) = 4 * Len(ps) /\ PacketsIn(x) = ps /\ Len(ps) \in Nat
      /\ x = <<>> \/ (Signature(x[1]) = 0 /\ Signature(x[Len(x)]) = 3)
  BY DEF FoundAgain
<1> HIDE DEF x
<1>4. PacketsIn(x \o p) = ps \o <<p>>
  <2>1. Signature(p[1]) = 0
    BY <1>1
  <2> QED BY <2>1, <1>1, <1>3, PacketsInConcat
<1>5. ps \o <<p>> = Append(ps, p) /\ Len(Append(ps, p)) = Len(ps) + 1
  BY AppendIsConcat
<1>6. x \o p \in Seq(Byte) /\ Len(x \o p) = 4 * (Len(ps) + 1)
  <2>1. x \o p \in Seq(Byte) /\ Len(x \o p) = Len(x) + Len(p)
    BY <1>1, <1>3, ConcatProperties
  <2> QED BY <2>1, <1>1, <1>3
<1>7. \A i \in 1 .. Len(x) + Len(p) : (x \o p)[i] = IF i <= Len(x) THEN x[i] ELSE p[i - Len(x)]
  BY <1>1, <1>3, ConcatProperties
<1> DEFINE n == Len(ps)
<1>8. n \in Nat /\ Len(x) = 4 * n /\ Len(x \o p) = 4 * n + 4
  BY <1>3, <1>6
<1> HIDE DEF n
<1>9. Signature((x \o p)[Len(x \o p)]) = 3
  <2>1. 4 * n + 4 \in 1 .. Len(x) + Len(p) /\ ~(4 * n + 4 <= Len(x)) /\ (4 * n + 4) - Len(x) = 4
    BY <1>1, <1>8
  <2>2. (x \o p)[4 * n + 4] = p[4]
    BY <2>1, <1>7
  <2> QED BY <2>2, <1>1, <1>8
<1>10. Signature((x \o p)[1]) = 0
  <2>1. CASE x = <<>>
    <3>1. x \o p = p
      BY <2>1, <1>1, ConcatEmptySeq
    <3> QED BY <3>1, <1>1
  <2>2. CASE x # <<>>
    <3>1. Len(x) >= 1 /\ 1 \in 1 .. Len(x) + Len(p)
      BY <2>2, <1>1, <1>3
    <3>2. (x \o p)[1] = x[1]
      BY <3>1, <1>7
    <3> QED BY <3>2, <2>2, <1>3
  <2> QED BY <2>1, <2>2
<1> QED BY <1>2, <1>4, <1>5, <1>6, <1>9, <1>10 DEF FoundAgain

LEMMA JoinedIs ==
  ASSUME NEW ps \in Seq(SignedPackets)
  PROVE  FoundAgain(ps)
<1> DEFINE n == Len(ps)
           Upto(k) == SubSeq(ps, 1, k)
           Bad == {k \in 0 .. n : ~FoundAgain(Upto(k))}
<1>1. /\ n \in Nat /\ \A k \in 0 .. n : Upto(k) \in Seq(SignedPackets)
      /\ \A k \in 1 .. n : ps[k] \in SignedPackets
  OBVIOUS
<1>2. Upto(0) = <<>> /\ Upto(n) = ps
  BY SubSeqEmpty, SubSeqFull
<1>3. \A k \in 1 .. n : Upto(k) = Append(Upto(k - 1), ps[k])
  <2> TAKE k \in 1 .. n
  <2>1. Upto(k) = Upto(k - 1) \o <<ps[k]>>
    <3>1. 1 \in 1 .. Len(ps) /\ k \in 1 .. Len(ps)
      OBVIOUS
    <3> QED BY <3>1, SubSeqRecursiveSecond
  <2>2. Upto(k - 1) \in Seq(SignedPackets) /\ ps[k] \in SignedPackets
    <3>1. k - 1 \in 0 .. n
      OBVIOUS
    <3> QED BY <3>1, <1>1
  <2> HIDE DEF Upto
  <2> QED BY <2>1, <2>2, AppendIsConcat
<1> HIDE DEF n, Upto
<1>4. Bad = {}
  <2> SUFFICES ASSUME Bad # {} PROVE FALSE
    OBVIOUS
  <2>1. PICK k \in Bad : \A m \in Bad : k <= m
    <3>1. Bad \in SUBSET Nat
      BY <1>1
    <3> HIDE DEF Bad
    <3> QED BY <3>1, LeastNat
  <2>2. k \in 0 .. n /\ ~FoundAgain(Upto(k))
    BY <2>1
  <2>3. k # 0
    BY <2>2, <1>2, FoundAgainEmpty
  <2>4. k \in 1 .. n /\ k - 1 \in 0 .. n /\ ~(k <= k - 1)
    BY <2>2, <2>3, <1>1
  <2>5. k - 1 \notin Bad
    <3> HIDE DEF Bad
    <3> QED BY <2>1, <2>4
  <2>6. FoundAgain(Upto(k - 1))
    BY <2>4, <2>5
  <2> QED BY <2>2, <2>4, <2>6, <1>1, <1>3, FoundAgainAppend
<1>5. n \in 0 .. n /\ n \notin Bad
  <2> HIDE DEF Bad
  <2> QED BY <1>1, <1>4
<1> QED BY <1>2, <1>5

\* In five bytes there is room for one packet.
LEMMA FewBytes ==
  ASSUME NEW b \in Seq(Byte), Len(b) <= 5
  PROVE  /\ Len(b) <= 3 => PacketsIn(b) = <<>>
         /\ \/ PacketsIn(b) = <<>>
            \/ \E q \in Seq(Byte) : PacketsIn(b) = <<q>>
<1> DEFINE n == Len(b)
<1>1. PICK f \in [0 .. Len(b) -> Seq(Seq(Byte))] : Scans(f, b)
  BY ScanExists
<1>2. n \in Nat /\ PacketsIn(b) = f[n]
  BY <1>1, ScanIs
<1>3. f[0] = <<>> /\ \A k \in 1 .. n : f[k] = IF Found(b, k) THEN Append(f[k - 1], Quad(b, k)) ELSE f[k - 1]
  BY <1>1 DEF Scans
<1>4. \A k \in 1 .. n : k >= 4 => Quad(b, k) \in Seq(Byte)
  BY FoundIs
<1>5. 4 <= n /\ 5 <= n => ~(Found(b, 4) /\ Found(b, 5))
  <2> SUFFICES ASSUME 5 <= n, Found(b, 4), Found(b, 5) PROVE FALSE
    OBVIOUS
  <2>1. 4 \in 1 .. Len(b) /\ 5 \in 1 .. Len(b)
    BY <1>2
  <2>2. \A j \in 1 .. 4 : Signature(b[4 - 4 + j]) = j - 1
    BY <2>1, FoundIs
  <2>3. \A j \in 1 .. 4 : Signature(b[5 - 4 + j]) = j - 1
    BY <2>1, FoundIs
  <2>4. Signature(b[2]) = 1
    <3>1. 4 - 4 + 2 = 2 /\ 2 - 1 = 1 /\ 2 \in 1 .. 4
      OBVIOUS
    <3> QED BY <3>1, <2>2
  <2>5. Signature(b[2]) = 0
    <3>1. 5 - 4 + 1 = 2 /\ 1 - 1 = 0 /\ 1 \in 1 .. 4
      OBVIOUS
    <3> QED BY <3>1, <2>3
  <2> QED BY <2>4, <2>5
<1>6. ~Found(b, 1) /\ ~Found(b, 2) /\ ~Found(b, 3)
  BY DEF Found
<1> HIDE DEF n
<1>7. /\ 1 <= n => f[1] = <<>>
      /\ 2 <= n => f[2] = f[1]
      /\ 3 <= n => f[3] = f[2]
      /\ 4 <= n => f[4] = IF Found(b, 4) THEN Append(f[3], Quad(b, 4)) ELSE f[3]
      /\ 5 <= n => f[5] = IF Found(b, 5) THEN Append(f[4], Quad(b, 5)) ELSE f[4]
  <2>1. /\ 1 - 1 = 0 /\ 2 - 1 = 1 /\ 3 - 1 = 2 /\ 4 - 1 = 3 /\ 5 - 1 = 4
        /\ \A k \in {1, 2, 3, 4, 5} : k <= n => k \in 1 .. n
    BY <1>2
  <2>2. 1 <= n => f[1] = <<>>
    BY <2>1, <1>3, <1>6
  <2>3. 2 <= n => f[2] = f[1]
    BY <2>1, <1>3, <1>6
  <2>4. 3 <= n => f[3] = f[2]
    BY <2>1, <1>3, <1>6
  <2>5. 4 <= n => f[4] = IF Found(b, 4) THEN Append(f[3], Quad(b, 4)) ELSE f[3]
    BY <2>1, <1>3
  <2>6. 5 <= n => f[5] = IF Found(b, 5) THEN Append(f[4], Quad(b, 5)) ELSE f[4]
    BY <2>1, <1>3
  <2> QED BY <2>2, <2>3, <2>4, <2>5, <2>6
<1>8. n = 0 \/ n = 1 \/ n = 2 \/ n = 3 \/ n = 4 \/ n = 5
  <2>1. n <= 5
    BY DEF n
  <2> QED BY <2>1, <1>2
<1>9. n <= 3 => f[n] = <<>>
  BY <1>3, <1>7, <1>8
<1>10. \A q : Append(<<>>, q) = <<q>>
  OBVIOUS
<1>11. 4 <= n => f[3] = <<>> /\ (f[4] = <<>> \/ f[4] = <<Quad(b, 4)>>) /\ Quad(b, 4) \in Seq(Byte)
                 /\ (~Found(b, 4) => f[4] = <<>>)
  <2>1. 4 <= n => Quad(b, 4) \in Seq(Byte)
    BY <1>2, <1>4
  <2>2. 4 <= n => 1 <= n /\ 2 <= n /\ 3 <= n
    BY <1>2
  <2> QED BY <2>1, <2>2, <1>7, <1>10
<1>12. 5 <= n => Quad(b, 5) \in Seq(Byte) /\ (f[5] = f[4] \/ f[5] = <<Quad(b, 5)>>)
  <2>1. 5 <= n => Quad(b, 5) \in Seq(Byte) /\ 4 <= n
    BY <1>2, <1>4
  <2> QED BY <2>1, <1>5, <1>7, <1>10, <1>11
<1>13. CASE n <= 3
  BY <1>2, <1>9, <1>13 DEF n
<1>14. CASE n = 4
  BY <1>2, <1>11, <1>14 DEF n
<1>15. CASE n = 5
  <2>1. 4 <= n /\ 5 <= n
    BY <1>15
  <2>2. f[4] = <<>> \/ f[4] = <<Quad(b, 4)>>
    BY <2>1, <1>11
  <2>3. /\ f[5] = f[4] \/ f[5] = <<Quad(b, 5)>>
        /\ Quad(b, 4) \in Seq(Byte) /\ Quad(b, 5) \in Seq(Byte)
    BY <2>1, <1>11, <1>12
  <2>4. PacketsIn(b) = f[5]
    BY <1>2, <1>15, Zenon
  <2>5. ~(Len(b) <= 3)
    BY <1>15 DEF n
  <2>6. PacketsIn(b) = <<>> \/ \E q \in Seq(Byte) : PacketsIn(b) = <<q>>
    BY <2>2, <2>3, <2>4, Zenon
  <2> QED BY <2>5, <2>6
<1> QED BY <1>8, <1>13, <1>14, <1>15

\* A place in the joined packets lies in one of them.
LEMMA PlaceInPacket ==
  ASSUME NEW n \in Nat, NEW k \in 1 .. 4 * n
  PROVE  \E q \in 1 .. n, j \in 1 .. 4 : k = 4 * (q - 1) + j
<1> DEFINE r == (k - 1) \div 4
           d == (k - 1) % 4
<1>1. k - 1 = 4 * r + d /\ d \in 0 .. 3 /\ r \in Int
  BY DivMod
<1> HIDE DEF r, d
<1>2. r + 1 \in 1 .. n /\ d + 1 \in 1 .. 4 /\ k = 4 * ((r + 1) - 1) + (d + 1)
  BY <1>1
<1> QED BY <1>2

\* The packets before, at and after place q, and the bytes they make.
LEMMA Around ==
  ASSUME NEW ps \in Seq(SignedPackets), NEW q \in 1 .. Len(ps)
  PROVE  \E before, after \in Seq(SignedPackets) :
           /\ ps = (before \o <<ps[q]>>) \o after /\ Len(before) = q - 1
           /\ before \o after = RemoveAt(ps, q)
           /\ Joined(ps) = (Joined(before) \o ps[q]) \o Joined(after)
<1> DEFINE before == SubSeq(ps, 1, q - 1)
           after == SubSeq(ps, q + 1, Len(ps))
<1>1. /\ before \in Seq(SignedPackets) /\ after \in Seq(SignedPackets) /\ Len(before) = q - 1
      /\ ps[q] \in SignedPackets /\ <<ps[q]>> \in Seq(SignedPackets)
  OBVIOUS
<1>2. before \o after = RemoveAt(ps, q)
  BY DEF RemoveAt
<1>3. ps = (before \o <<ps[q]>>) \o after
  <2>1. SubSeq(ps, 1, q) = before \o <<ps[q]>>
    <3>1. 1 \in 1 .. Len(ps) /\ q \in 1 .. Len(ps)
      OBVIOUS
    <3> QED BY <3>1, SubSeqRecursiveSecond
  <2>2. SubSeq(ps, 1, q) \o SubSeq(ps, q + 1, Len(ps)) = SubSeq(ps, 1, Len(ps))
    <3>1. 1 \in 1 .. Len(ps) + 1 /\ q \in 1 - 1 .. Len(ps) /\ Len(ps) \in q .. Len(ps)
      OBVIOUS
    <3> QED BY <3>1, ConcatAdjacentSubSeq
  <2>3. SubSeq(ps, 1, Len(ps)) = ps
    BY SubSeqFull
  <2> QED BY <2>1, <2>2, <2>3
<1> HIDE DEF before, after
<1>4. /\ before \in Seq(Seq(Byte)) /\ after \in Seq(Seq(Byte)) /\ <<ps[q]>> \in Seq(Seq(Byte))
      /\ ps[q] \in Seq(Byte)
  BY <1>1, SignedPacketsAre, SignedPacketIs
<1>5. before \o <<ps[q]>> \in Seq(Seq(Byte))
  BY <1>4, ConcatProperties
<1>6. FlattenSeq(before \o <<ps[q]>>) = FlattenSeq(before) \o FlattenSeq(<<ps[q]>>)
  BY <1>4, FlattenConcat
<1>7. FlattenSeq(<<ps[q]>>) = ps[q]
  BY <1>4, FlattenOne
<1>8. FlattenSeq((before \o <<ps[q]>>) \o after) = FlattenSeq(before \o <<ps[q]>>) \o FlattenSeq(after)
  BY <1>4, <1>5, FlattenConcat
<1>9. Joined(ps) = (Joined(before) \o ps[q]) \o Joined(after)
  BY <1>3, <1>6, <1>7, <1>8 DEF Joined
<1> QED BY <1>1, <1>2, <1>3, <1>9

\* Where the middle of three sequences is cut, the others stay whole.
IsCut(S, x, p, y, j, whole, place) ==
  /\ x \in Seq(S) /\ p \in Seq(S) /\ y \in Seq(S) /\ j \in 1 .. Len(p)
  /\ whole = (x \o p) \o y /\ place = Len(x) + j
CutOut(x, p, y, j, whole, place) ==
  /\ SubSeq(whole, 1, place - 1) = x \o SubSeq(p, 1, j - 1)
  /\ SubSeq(whole, place, Len(whole)) = SubSeq(p, j, Len(p)) \o y
  /\ SubSeq(whole, place + 1, Len(whole)) = SubSeq(p, j + 1, Len(p)) \o y

LEMMA CutInTheMiddle ==
  ASSUME NEW S, NEW x, NEW p, NEW y, NEW j, NEW whole, NEW place, IsCut(S, x, p, y, j, whole, place)
  PROVE  CutOut(x, p, y, j, whole, place)
<1> DEFINE all == (x \o p) \o y
           k == Len(x) + j
           a == Len(x)
           m == Len(p)
           c == Len(y)
<1>0. x \in Seq(S) /\ p \in Seq(S) /\ y \in Seq(S) /\ j \in 1 .. Len(p)
  BY DEF IsCut
<1>1. a \in Nat /\ m \in Nat /\ c \in Nat /\ j \in 1 .. m
  BY <1>0
<1>2. x \o p \in Seq(S) /\ Len(x \o p) = a + m
      /\ \A i \in 1 .. a + m : (x \o p)[i] = IF i <= a THEN x[i] ELSE p[i - a]
  BY <1>0, ConcatProperties
<1>3. all \in Seq(S) /\ Len(all) = (a + m) + c
      /\ \A i \in 1 .. (a + m) + c : all[i] = IF i <= a + m THEN (x \o p)[i] ELSE y[i - (a + m)]
  BY <1>0, <1>2, ConcatProperties
<1>4. \A i \in 1 .. (a + m) + c : all[i] = IF i <= a THEN x[i] ELSE IF i <= a + m THEN p[i - a]
                                           ELSE y[i - (a + m)]
  <2> HIDE DEF all, a, m, c
  <2> TAKE i \in 1 .. (a + m) + c
  <2>1. i <= a => i <= a + m
    BY <1>1
  <2>2. i <= a + m => i \in 1 .. a + m
    BY <1>1
  <2>3. all[i] = IF i <= a + m THEN (x \o p)[i] ELSE y[i - (a + m)]
    BY <1>3
  <2>4. i <= a + m => (x \o p)[i] = IF i <= a THEN x[i] ELSE p[i - a]
    BY <2>2, <1>2
  <2> QED BY <2>1, <2>3, <2>4
<1>5. \A i \in 1 .. (a + m) + c : all[i] \in S
  BY <1>3
<1>6. /\ \A i \in 1 .. a : x[i] \in S
      /\ \A i \in 1 .. m : p[i] \in S
  BY <1>0
<1>7. SubSeq(all, 1, k - 1) = x \o SubSeq(p, 1, j - 1)
  <2> DEFINE u == SubSeq(p, 1, j - 1)
             l == SubSeq(all, 1, k - 1)
  <2>1. u \in Seq(S) /\ Len(u) = j - 1 /\ \A i \in 1 .. j - 1 : u[i] = p[i]
    BY <1>0
  <2>2. l \in Seq(S) /\ Len(l) = k - 1 /\ \A i \in 1 .. k - 1 : l[i] = all[i]
    <3> HIDE DEF all
    <3> QED BY <1>1, <1>3
  <2>3. x \o u \in Seq(S) /\ Len(x \o u) = a + (j - 1)
        /\ \A i \in 1 .. a + (j - 1) : (x \o u)[i] = IF i <= a THEN x[i] ELSE u[i - a]
    <3> HIDE DEF u
    <3>1. x \o u \in Seq(S) /\ Len(x \o u) = Len(x) + Len(u)
          /\ \A i \in 1 .. Len(x) + Len(u) : (x \o u)[i] = IF i <= Len(x) THEN x[i] ELSE u[i - Len(x)]
      BY <1>0, <2>1, ConcatProperties
    <3> QED BY <2>1, <3>1
  <2> HIDE DEF u, l, all, a, m, c
  <2>4. k - 1 = a + (j - 1)
    BY <1>1 DEF a
  <2>5. ASSUME NEW i \in 1 .. k - 1 PROVE l[i] = (x \o u)[i]
    <3>1. i \in 1 .. (a + m) + c /\ i <= a + m /\ i \in 1 .. a + (j - 1)
      BY <2>4, <1>1
    <3>2. CASE i <= a
      BY <3>1, <3>2, <2>2, <2>3, <1>4
    <3>3. CASE ~(i <= a)
      <4>1. i - a \in 1 .. j - 1
        BY <3>1, <3>3, <1>1
      <4> QED BY <4>1, <3>1, <3>3, <2>1, <2>2, <2>3, <1>4
    <3> QED BY <3>2, <3>3
  <2> QED BY <2>2, <2>3, <2>4, <2>5, SeqEqual DEF u, l
<1>8. ASSUME NEW h \in j .. m + 1
      PROVE  SubSeq(all, a + h, Len(all)) = SubSeq(p, h, m) \o y
  <2> DEFINE u == SubSeq(p, h, m)
             r == SubSeq(all, a + h, Len(all))
  <2>1. u \in Seq(S) /\ Len(u) = (m - h) + 1 /\ \A i \in 1 .. (m - h) + 1 : u[i] = p[h + i - 1]
    <3> HIDE DEF m
    <3>1. h \in Int /\ m \in Int /\ \A i \in h .. m : p[i] \in S
      BY <1>1, <1>6
    <3>2. /\ SubSeq(p, h, m) \in Seq(S) /\ Len(SubSeq(p, h, m)) = IF h <= m THEN m - h + 1 ELSE 0
          /\ \A i \in 1 .. m - h + 1 : SubSeq(p, h, m)[i] = p[h + i - 1]
      BY <3>1, SubSeqProperties
    <3> QED BY <3>1, <3>2
  <2>2. r \in Seq(S) /\ Len(r) = ((m - h) + 1) + c
        /\ \A i \in 1 .. ((m - h) + 1) + c : r[i] = all[(a + h) + i - 1]
    <3> HIDE DEF all, a, m, c
    <3> DEFINE e == (a + m) + c
    <3>1. a + h \in Int /\ e \in Int /\ \A i \in a + h .. e : all[i] \in S
      BY <1>1, <1>5
    <3>2. r = SubSeq(all, a + h, e)
      BY <1>3
    <3>3. /\ SubSeq(all, a + h, e) \in Seq(S)
          /\ Len(SubSeq(all, a + h, e)) = IF a + h <= e THEN e - (a + h) + 1 ELSE 0
          /\ \A i \in 1 .. e - (a + h) + 1 : SubSeq(all, a + h, e)[i] = all[(a + h) + i - 1]
      BY <3>1, SubSeqProperties
    <3>4. e - (a + h) + 1 = ((m - h) + 1) + c /\ (a + h <= e \/ ((m - h) + 1) + c = 0)
      BY <1>1
    <3>5. a + h <= e => Len(r) = ((m - h) + 1) + c
      BY <3>2, <3>3, <3>4
    <3>6. ~(a + h <= e) => Len(r) = 0 /\ ((m - h) + 1) + c = 0
      BY <3>2, <3>3, <3>4
    <3> HIDE DEF r, e
    <3> QED BY <3>2, <3>3, <3>4, <3>5, <3>6
  <2>3. u \o y \in Seq(S) /\ Len(u \o y) = ((m - h) + 1) + c
        /\ \A i \in 1 .. ((m - h) + 1) + c :
             (u \o y)[i] = IF i <= (m - h) + 1 THEN u[i] ELSE y[i - ((m - h) + 1)]
    <3> HIDE DEF u
    <3>1. u \o y \in Seq(S) /\ Len(u \o y) = Len(u) + Len(y)
          /\ \A i \in 1 .. Len(u) + Len(y) : (u \o y)[i] = IF i <= Len(u) THEN u[i] ELSE y[i - Len(u)]
      BY <1>0, <2>1, ConcatProperties
    <3> HIDE DEF m
    <3> QED BY <2>1, <3>1
  <2> HIDE DEF u, r, all, a, m, c
  <2>4. ASSUME NEW i \in 1 .. ((m - h) + 1) + c PROVE r[i] = (u \o y)[i]
    <3>1. (a + h) + i - 1 \in 1 .. (a + m) + c /\ ~((a + h) + i - 1 <= a)
          /\ ((a + h) + i - 1) - a = h + i - 1
      BY <1>1
    <3>2. CASE i <= (m - h) + 1
      <4>1. (a + h) + i - 1 <= a + m /\ i \in 1 .. (m - h) + 1
        BY <3>2, <1>1
      <4>2. all[(a + h) + i - 1] = p[h + i - 1]
        BY <3>1, <4>1, <1>4
      <4> QED BY <4>1, <4>2, <3>2, <2>1, <2>2, <2>3
    <3>3. CASE ~(i <= (m - h) + 1)
      <4>1. ~((a + h) + i - 1 <= a + m) /\ ((a + h) + i - 1) - (a + m) = i - ((m - h) + 1)
        BY <3>3, <1>1
      <4>2. all[(a + h) + i - 1] = y[i - ((m - h) + 1)]
        BY <3>1, <4>1, <1>4
      <4> QED BY <4>2, <3>3, <2>2, <2>3
    <3> QED BY <3>2, <3>3
  <2> QED BY <2>2, <2>3, <2>4, SeqEqual DEF u, r
<1>9. /\ SubSeq(all, a + j, Len(all)) = SubSeq(p, j, m) \o y
      /\ SubSeq(all, a + (j + 1), Len(all)) = SubSeq(p, j + 1, m) \o y
  <2>1. j \in j .. m + 1 /\ j + 1 \in j .. m + 1
    BY <1>1
  <2> HIDE DEF all, a, m
  <2> QED BY <2>1, <1>8
<1>10. a + (j + 1) = k + 1 /\ a + j = k
  BY <1>1
<1>11. whole = all /\ place = k
  BY DEF IsCut
<1> HIDE DEF all, k
<1> QED BY <1>7, <1>9, <1>10, <1>11 DEF CutOut

LEMMA RemoveMiddle ==
  ASSUME NEW S, NEW s \in Seq(S), NEW e \in S, NEW t \in Seq(S)
  PROVE  RemoveAt((s \o <<e>>) \o t, Len(s) + 1) = s \o t
<1> DEFINE p == <<e>>
           all == (s \o p) \o t
           k == Len(s) + 1
<1>1. p \in Seq(S) /\ Len(p) = 1 /\ 1 \in 1 .. Len(p)
  OBVIOUS
<1> HIDE DEF p
<1>d. IsCut(S, s, p, t, 1, all, k)
  BY <1>1 DEF IsCut
<1> HIDE DEF all, k
<1>2. /\ SubSeq(all, 1, k - 1) = s \o SubSeq(p, 1, 1 - 1)
      /\ SubSeq(all, k + 1, Len(all)) = SubSeq(p, 1 + 1, Len(p)) \o t
  <2>1. CutOut(s, p, t, 1, all, k)
    BY <1>d, CutInTheMiddle, Zenon
  <2> QED BY <2>1, Zenon DEF CutOut
<1>3. SubSeq(p, 1, 1 - 1) = <<>> /\ SubSeq(p, 1 + 1, Len(p)) = <<>>
  BY <1>1, SubSeqEmpty
<1>4. s \o <<>> = s /\ <<>> \o t = t
  BY ConcatEmptySeq
<1>5. RemoveAt(all, k) = s \o t
  BY <1>2, <1>3, <1>4 DEF RemoveAt
<1> QED BY <1>5 DEF all, k, p

\* Bytes in the place of one packet, too few for two.
LEMMA OnePacketHit ==
  ASSUME NEW ps \in Seq(SignedPackets), NEW q \in 1 .. Len(ps),
         NEW before \in Seq(SignedPackets), NEW after \in Seq(SignedPackets),
         before \o after = RemoveAt(ps, q),
         NEW frag \in Seq(Byte), Len(frag) <= 5
  PROVE  OneFewer(PacketsIn((Joined(before) \o frag) \o Joined(after))) \cap OneFewer(ps) # {}
<1> DEFINE x == Joined(before)
           y == Joined(after)
           found == PacketsIn((x \o frag) \o y)
<1>1. /\ x \in Seq(Byte) /\ PacketsIn(x) = before /\ (x = <<>> \/ Signature(x[Len(x)]) = 3)
      /\ y \in Seq(Byte) /\ PacketsIn(y) = after /\ (y = <<>> \/ Signature(y[1]) = 0)
      /\ before \in Seq(Seq(Byte)) /\ after \in Seq(Seq(Byte))
  BY JoinedIs, SignedPacketsAre DEF FoundAgain
<1>2. before \o after \in OneFewer(ps)
  BY DEF OneFewer
<1>3. found = (before \o PacketsIn(frag)) \o after
  <2> HIDE DEF x, y
  <2>1. PacketsIn(x \o frag) = before \o PacketsIn(frag)
    BY <1>1, PacketsInConcat
  <2>2. x \o frag \in Seq(Byte)
    BY <1>1
  <2>3. PacketsIn((x \o frag) \o y) = PacketsIn(x \o frag) \o PacketsIn(y)
    BY <1>1, <2>2, PacketsInConcat
  <2> QED BY <2>1, <2>3, <1>1
<1> HIDE DEF found
<1>4. CASE PacketsIn(frag) = <<>>
  <2>1. found = before \o after
    <3>1. before \o <<>> = before
      BY <1>1, ConcatEmptySeq
    <3> QED BY <3>1, <1>3, <1>4
  <2> QED BY <2>1, <1>2 DEF OneFewer, found
<1>5. ASSUME NEW g \in Seq(Byte), PacketsIn(frag) = <<g>>
      PROVE  before \o after \in OneFewer(found)
  <2>1. found = (before \o <<g>>) \o after
    BY <1>3, <1>5
  <2>2. RemoveAt(found, Len(before) + 1) = before \o after
    BY <2>1, <1>1, RemoveMiddle
  <2>3. Len(found) = (Len(before) + 1) + Len(after) /\ Len(before) \in Nat /\ Len(after) \in Nat
    <3>1. <<g>> \in Seq(Seq(Byte)) /\ Len(<<g>>) = 1
      OBVIOUS
    <3>2. before \o <<g>> \in Seq(Seq(Byte)) /\ Len(before \o <<g>>) = Len(before) + 1
      BY <3>1, <1>1, ConcatProperties
    <3>3. Len((before \o <<g>>) \o after) = Len(before \o <<g>>) + Len(after)
      BY <3>2, <1>1, ConcatProperties
    <3> QED BY <3>2, <3>3, <2>1
  <2>4. Len(before) + 1 \in 1 .. Len(found)
    BY <2>3
  <2> QED BY <2>2, <2>4 DEF OneFewer
<1>6. PacketsIn(frag) = <<>> \/ \E g \in Seq(Byte) : PacketsIn(frag) = <<g>>
  BY FewBytes
<1>7. ASSUME PacketsIn(frag) # <<>> PROVE before \o after \in OneFewer(found)
  BY <1>5, <1>6, <1>7
<1> QED BY <1>2, <1>4, <1>7 DEF found

LEMMA PiecesOfPacket ==
  ASSUME NEW p \in Seq(Byte), Len(p) = 4, NEW j \in 1 .. 4
  PROVE  /\ SubSeq(p, 1, j - 1) \in Seq(Byte) /\ Len(SubSeq(p, 1, j - 1)) = j - 1
         /\ SubSeq(p, j, Len(p)) \in Seq(Byte) /\ Len(SubSeq(p, j, Len(p))) = 5 - j
         /\ SubSeq(p, j + 1, Len(p)) \in Seq(Byte) /\ Len(SubSeq(p, j + 1, Len(p))) = 4 - j
<1>1. j \in Int /\ 1 <= j /\ j <= 4
  OBVIOUS
<1>2. ASSUME NEW m \in Int, NEW n \in Int, 1 <= m, n <= 4, m <= n + 1
      PROVE  SubSeq(p, m, n) \in Seq(Byte) /\ Len(SubSeq(p, m, n)) = (n - m) + 1
  <2>1. \A i \in m .. n : p[i] \in Byte
    BY <1>2
  <2>2. /\ SubSeq(p, m, n) \in Seq(Byte)
        /\ Len(SubSeq(p, m, n)) = IF m <= n THEN n - m + 1 ELSE 0
    BY <2>1, SubSeqProperties
  <2> QED BY <2>2, <1>2
<1>3. SubSeq(p, 1, j - 1) \in Seq(Byte) /\ Len(SubSeq(p, 1, j - 1)) = j - 1
  BY <1>1, <1>2
<1>4. SubSeq(p, j, 4) \in Seq(Byte) /\ Len(SubSeq(p, j, 4)) = 5 - j
  BY <1>1, <1>2
<1>5. SubSeq(p, j + 1, 4) \in Seq(Byte) /\ Len(SubSeq(p, j + 1, 4)) = 4 - j
  BY <1>1, <1>2
<1> QED BY <1>3, <1>4, <1>5

\* A byte that is lost, or one that comes in, among packets.
LEMMA OneFault ==
  ASSUME NEW ps \in Seq(SignedPackets), NEW s \in AtMostOneFault(Joined(ps), Byte)
  PROVE  OneFewer(PacketsIn(s)) \cap OneFewer(ps) # {}
<1> DEFINE all == Joined(ps)
           n == Len(ps)
<1>1. all \in Seq(Byte) /\ Len(all) = 4 * n /\ PacketsIn(all) = ps /\ n \in Nat
      /\ (all = <<>> \/ Signature(all[Len(all)]) = 3) /\ ps \in Seq(Seq(Byte))
  BY JoinedIs, SignedPacketsAre DEF FoundAgain
<1>2. ASSUME PacketsIn(s) = ps PROVE OneFewer(PacketsIn(s)) \cap OneFewer(ps) # {}
  BY <1>2 DEF OneFewer
<1>3. ASSUME NEW k \in 1 .. 4 * n
      PROVE  \E q \in 1 .. n : \E before, after \in Seq(SignedPackets), u, v, w \in Seq(Byte) :
               /\ before \o after = RemoveAt(ps, q)
               /\ SubSeq(all, 1, k - 1) = Joined(before) \o u
               /\ SubSeq(all, k, Len(all)) = v \o Joined(after)
               /\ SubSeq(all, k + 1, Len(all)) = w \o Joined(after)
               /\ Len(u) + Len(v) = 4 /\ Len(u) + Len(w) = 3
  <2>1. PICK q \in 1 .. n, j \in 1 .. 4 : k = 4 * (q - 1) + j
    <3> HIDE DEF n
    <3> QED BY <1>1, PlaceInPacket
  <2>2. PICK before, after \in Seq(SignedPackets) :
          /\ ps = (before \o <<ps[q]>>) \o after /\ Len(before) = q - 1
          /\ before \o after = RemoveAt(ps, q)
          /\ all = (Joined(before) \o ps[q]) \o Joined(after)
    BY Around
  <2> DEFINE x == Joined(before)
             y == Joined(after)
             p == ps[q]
  <2>3. x \in Seq(Byte) /\ Len(x) = 4 * (q - 1) /\ y \in Seq(Byte)
    BY <2>2, JoinedIs DEF FoundAgain
  <2>4. p \in SignedPackets
    OBVIOUS
  <2>5. p \in Seq(Byte) /\ Len(p) = 4 /\ k = Len(x) + j /\ j \in 1 .. Len(p)
    BY <2>1, <2>3, <2>4, SignedPacketIs
  <2> HIDE DEF all, n, x, y, p
  <2>6. /\ SubSeq(all, 1, k - 1) = x \o SubSeq(p, 1, j - 1)
        /\ SubSeq(all, k, Len(all)) = SubSeq(p, j, Len(p)) \o y
        /\ SubSeq(all, k + 1, Len(all)) = SubSeq(p, j + 1, Len(p)) \o y
    <3>1. IsCut(Byte, x, p, y, j, all, k)
      <4>1. all = (x \o p) \o y
        BY <2>2 DEF x, y, p
      <4> QED BY <4>1, <2>3, <2>5 DEF IsCut
    <3>2. CutOut(x, p, y, j, all, k)
      BY <3>1, CutInTheMiddle, Zenon
    <3> QED BY <3>2, Zenon DEF CutOut
  <2>7. /\ SubSeq(p, 1, j - 1) \in Seq(Byte) /\ Len(SubSeq(p, 1, j - 1)) = j - 1
        /\ SubSeq(p, j, Len(p)) \in Seq(Byte) /\ Len(SubSeq(p, j, Len(p))) = 5 - j
        /\ SubSeq(p, j + 1, Len(p)) \in Seq(Byte) /\ Len(SubSeq(p, j + 1, Len(p))) = 4 - j
    BY <2>5, PiecesOfPacket
  <2>8. (j - 1) + (5 - j) = 4 /\ (j - 1) + (4 - j) = 3
    OBVIOUS
  <2> QED BY <2>2, <2>6, <2>7, <2>8 DEF x, y
<1>4. ASSUME NEW k \in 1 .. Len(all), s = RemoveAt(all, k)
      PROVE  OneFewer(PacketsIn(s)) \cap OneFewer(ps) # {}
  <2>1. PICK q \in 1 .. n : \E before, after \in Seq(SignedPackets), u, v, w \in Seq(Byte) :
          /\ before \o after = RemoveAt(ps, q)
          /\ SubSeq(all, 1, k - 1) = Joined(before) \o u
          /\ SubSeq(all, k, Len(all)) = v \o Joined(after)
          /\ SubSeq(all, k + 1, Len(all)) = w \o Joined(after)
          /\ Len(u) + Len(v) = 4 /\ Len(u) + Len(w) = 3
    <3>1. k \in 1 .. 4 * n
      BY <1>1
    <3> HIDE DEF all, n
    <3> QED BY <3>1, <1>3
  <2>p. PICK before, after \in Seq(SignedPackets), u, w \in Seq(Byte) :
          /\ before \o after = RemoveAt(ps, q)
          /\ SubSeq(all, 1, k - 1) = Joined(before) \o u
          /\ SubSeq(all, k + 1, Len(all)) = w \o Joined(after)
          /\ Len(u) + Len(w) = 3
    BY <2>1, Zenon
  <2>2. Joined(before) \in Seq(Byte) /\ Joined(after) \in Seq(Byte)
    BY JoinedIs DEF FoundAgain
  <2>3. u \o w \in Seq(Byte) /\ Len(u \o w) <= 5
    BY <2>p, ConcatProperties
  <2>4. s = (Joined(before) \o (u \o w)) \o Joined(after)
    <3>1. s = (Joined(before) \o u) \o (w \o Joined(after))
      BY <1>4, <2>p DEF RemoveAt
    <3>2. (Joined(before) \o u) \o (w \o Joined(after)) = (Joined(before) \o (u \o w)) \o Joined(after)
      <4>1. Fourfold(Joined(before), u, w, Joined(after))
        BY <2>2, ConcatFour, Zenon
      <4> QED BY <4>1, Zenon DEF Fourfold
    <3> QED BY <3>1, <3>2
  <2> QED BY <2>p, <2>3, <2>4, OnePacketHit
<1>5. ASSUME NEW k \in 1 .. Len(all) + 1, NEW c \in Byte, s = InsertAt(all, k, c)
      PROVE  OneFewer(PacketsIn(s)) \cap OneFewer(ps) # {}
  <2>0. <<c>> \in Seq(Byte) /\ Len(<<c>>) = 1
    OBVIOUS
  <2>1. CASE k = Len(all) + 1
    <3>1. SubSeq(all, 1, k - 1) = all /\ SubSeq(all, k, Len(all)) = <<>>
      <4> HIDE DEF all
      <4>1. k - 1 = Len(all) /\ Len(all) < k /\ k \in Int /\ Len(all) \in Int
        BY <2>1, <1>1
      <4> QED BY <4>1, <1>1, SubSeqFull, SubSeqEmpty
    <3>2. s = all \o <<c>>
      <4> HIDE DEF all
      <4>1. all \o <<c>> \in Seq(Byte)
        BY <1>1, <2>0, ConcatProperties
      <4>2. (all \o <<c>>) \o <<>> = all \o <<c>>
        BY <4>1, ConcatEmptySeq
      <4> QED BY <4>2, <3>1, <1>5 DEF InsertAt
    <3>3. PacketsIn(<<c>>) = <<>>
      <4>1. Len(<<c>>) <= 5 /\ Len(<<c>>) <= 3
        BY <2>0
      <4> QED BY <4>1, <2>0, FewBytes
    <3>4. PacketsIn(all \o <<c>>) = ps \o <<>>
      <4> HIDE DEF all
      <4> QED BY <3>3, <2>0, <1>1, PacketsInConcat
    <3>5. ps \o <<>> = ps
      BY ConcatEmptySeq
    <3> QED BY <3>2, <3>4, <3>5, <1>2
  <2>2. CASE k # Len(all) + 1
    <3>0. PICK q \in 1 .. n : \E before, after \in Seq(SignedPackets), u, v, w \in Seq(Byte) :
            /\ before \o after = RemoveAt(ps, q)
            /\ SubSeq(all, 1, k - 1) = Joined(before) \o u
            /\ SubSeq(all, k, Len(all)) = v \o Joined(after)
            /\ SubSeq(all, k + 1, Len(all)) = w \o Joined(after)
            /\ Len(u) + Len(v) = 4 /\ Len(u) + Len(w) = 3
      <4> HIDE DEF all, n
      <4>1. k \in 1 .. 4 * n
        BY <2>2, <1>1
      <4> QED BY <4>1, <1>3
    <3>1. PICK before, after \in Seq(SignedPackets), u, v \in Seq(Byte) :
            /\ before \o after = RemoveAt(ps, q)
            /\ SubSeq(all, 1, k - 1) = Joined(before) \o u
            /\ SubSeq(all, k, Len(all)) = v \o Joined(after)
            /\ Len(u) + Len(v) = 4
      BY <3>0, Zenon
    <3>2. Joined(before) \in Seq(Byte) /\ Joined(after) \in Seq(Byte)
      BY JoinedIs DEF FoundAgain
    <3>3. (u \o <<c>>) \o v \in Seq(Byte) /\ Len((u \o <<c>>) \o v) <= 5
      <4>1. u \o <<c>> \in Seq(Byte) /\ Len(u \o <<c>>) = Len(u) + 1
        BY <2>0, ConcatProperties
      <4>2. (u \o <<c>>) \o v \in Seq(Byte) /\ Len((u \o <<c>>) \o v) = Len(u \o <<c>>) + Len(v)
        BY <4>1, ConcatProperties
      <4>3. Len(u) \in Nat /\ Len(v) \in Nat
        OBVIOUS
      <4> QED BY <4>1, <4>2, <4>3, <3>1
    <3>4. s = (Joined(before) \o ((u \o <<c>>) \o v)) \o Joined(after)
      <4>1. s = ((Joined(before) \o u) \o <<c>>) \o (v \o Joined(after))
        BY <1>5, <3>1 DEF InsertAt
      <4>2. ((Joined(before) \o u) \o <<c>>) \o (v \o Joined(after))
              = (Joined(before) \o ((u \o <<c>>) \o v)) \o Joined(after)
        <5>1. Fivefold(Joined(before), u, <<c>>, v, Joined(after))
          BY <2>0, <3>2, ConcatFive, Zenon
        <5> QED BY <5>1, Zenon DEF Fivefold
      <4> QED BY <4>1, <4>2
    <3> QED BY <3>1, <3>3, <3>4, OnePacketHit
  <2> QED BY <2>1, <2>2
<1>6. s = all \/ (\E k \in 1 .. Len(all) : s = RemoveAt(all, k))
      \/ \E k \in 1 .. Len(all) + 1, c \in Byte : s = InsertAt(all, k, c)
  BY DEF AtMostOneFault, Without, With
<1> HIDE DEF all
<1>7. s = all => PacketsIn(s) = ps
  BY <1>1
<1> QED BY <1>2, <1>4, <1>5, <1>6, <1>7

\* The scripts stay, and what the first client meant is one of its packets'.
StoryInv == meant # <<>> =>
  /\ meant \in Seq(SignedPackets) /\ sends[1] # <<>>
  /\ sends[1][1] \in AtMostOneFault(Joined(meant), Byte)

THEOREM StoryStaysTrue == MCSpec => []StoryInv
<1>1. MCInit => StoryInv
  <2> SUFFICES ASSUME MCInit, meant # <<>>
               PROVE  /\ meant \in Seq(SignedPackets) /\ sends[1] # <<>>
                      /\ sends[1][1] \in AtMostOneFault(Joined(meant), Byte)
    BY DEF StoryInv
  <2>1. PICK story \in Stories : sends = story.sends /\ meant = story.meant
    BY DEF MCInit, SendingInit, ListeningInit
  <2>2. /\ meant \in Seq(Packet) /\ \A k \in 1 .. Len(meant) : IsSignedPacket(meant[k])
        /\ sends[1] # <<>> /\ sends[1][1] \in AtMostOneFault(Joined(meant), Byte)
    BY <2>1, StoryAssumption
  <2>3. meant \in Seq(SignedPackets)
    <3>1. \A k \in 1 .. Len(meant) : meant[k] \in SignedPackets
      BY <2>2 DEF SignedPackets
    <3> HIDE DEF SignedPackets
    <3> QED BY <3>1, <2>2
  <2> QED BY <2>2, <2>3
<1>2. StoryInv /\ [MCNext]_mcVars => StoryInv'
  <2> SUFFICES ASSUME StoryInv, [MCNext]_mcVars PROVE StoryInv'
    OBVIOUS
  <2>1. sends' = sends /\ meant' = meant
    <3>1. CASE Engine
      BY <3>1 DEF Engine, Observe, storyVars
    <3>2. ASSUME NEW i \in Ports, Connects(i) \/ Bytes(i) \/ Leaves(i) PROVE sends' = sends /\ meant' = meant
      BY <3>2 DEF Connects, Bytes, Leaves, storyVars
    <3>3. CASE UNCHANGED mcVars
      BY <3>3 DEF mcVars, storyVars
    <3> QED BY <3>1, <3>2, <3>3 DEF MCNext
  <2> QED BY <2>1 DEF StoryInv
<1> QED BY <1>1, <1>2, PTL DEF MCSpec

\* A byte that is lost among the packets that the first client meant, or one that
\* comes in, costs at most the packet it hits and makes at most one that was not
\* meant, wherever it goes wrong, however many packets there are and whatever
\* they and the byte are (the byte loop of ChannelInput).
THEOREM OneByteCostsOne == MCSpec => []OneByteOnePacket
<1>1. PacketsAreWhole /\ StoryInv => OneByteOnePacket
  <2> SUFFICES ASSUME PacketsAreWhole, StoryInv, meant # <<>>, HeardOut
               PROVE  OneFewer(handed[0]) \cap OneFewer(meant) # {}
    BY DEF OneByteOnePacket
  <2>1. handed[0] = PacketsIn(Script(0))
    BY PortsAre DEF PacketsAreWhole, HeardOut
  <2>2. Script(0) \in AtMostOneFault(Joined(meant), Byte) /\ meant \in Seq(SignedPackets)
    <3>1. Script(0) = sends[1][1]
      <4>1. 0 + 1 = 1
        OBVIOUS
      <4> QED BY <4>1 DEF Script, HeardOut
    <3> QED BY <3>1 DEF StoryInv
  <2> QED BY <2>1, <2>2, OneFault
<1> QED BY <1>1, HandedIsWhole, StoryStaysTrue, PTL

-----------------------------------------------------------------------------
(* What the clients hear.                                                  *)

\* While everybody listens: the machine between two steps, and what a client
\* shows.  The words are integers here, for what is written to some channels is
\* put together of bits.
ListenStates == [ InputChannel : [Channels -> Int], OutputChannel10 : [0 .. 15 -> Int],
                  RestartLight : BOOLEAN, AgcWarning : BOOLEAN,
                  InterruptRequests : SUBSET {Keyrupt, Uprupt},
                  LastRhc : [Rhc -> Int], Counter : [Counters -> Int],
                  pushed : {<<>>}, sent : {<<>>} ]
ListenViews == [ channel : [Channels -> Int], row : [0 .. 15 -> Int],
                 missed : SUBSET (Channels \X (0 .. 15)) ]
Agrees(v, s) ==
  /\ <<\o11, 0>> \in v.missed \/ v.channel[\o11] = s.InputChannel[\o11]
  /\ \A r \in 0 .. 15 : <<\o10, r>> \in v.missed \/ v.row[r] = s.OutputChannel10[r]
NobodySends ==
  /\ sends = Listening
  /\ \A i \in Ports : inbox[i] = <<>> /\ Clients[i].Packet = <<>>
HearInv ==
  listens => /\ NobodySends /\ State \in ListenStates /\ view \in [Ports -> ListenViews]
             /\ \A i \in Ports : Hears(i) => Agrees(view[i], State)

\* What is put together of bits is a number.
LEMMA MergedIsInt ==
  ASSUME NEW mask \in Int, NEW new \in Int, NEW old \in Int
  PROVE  Merged(mask, new, old) \in Int
<1>1. \A w \in Int, weight \in Nat \ {0} : Bit(w, weight) \in Int
  BY DEF Bit
<1>2. \A weight \in Nat \ {0} : Chosen(mask, new, old, weight) \in Int
  BY <1>1 DEF Chosen
<1>3. \A weight \in Nat \ {0} : ChosenDigit(mask, new, old, weight) \in Int
  <2> TAKE weight \in Nat \ {0}
  <2>1. 2 * weight \in Nat \ {0} /\ 4 * weight \in Nat \ {0}
    OBVIOUS
  <2> QED BY <2>1, <1>2 DEF ChosenDigit
<1>4. 1 \in Nat \ {0} /\ \o10 \in Nat \ {0} /\ \o100 \in Nat \ {0} /\ \o1000 \in Nat \ {0}
      /\ \o10000 \in Nat \ {0}
  OBVIOUS
<1> QED
  BY <1>3, <1>4 DEF Merged

LEMMA WordIsInt == \A w \in Word : w \in Int /\ w \div 2048 \in 0 .. 15
<1>1. HALF \in Int /\ 2 * HALF - 1 = 32767
  BY IoAssumption
<1>2. ASSUME NEW w \in Int, 0 <= w, w <= 32767 PROVE w \div 2048 \in 0 .. 15
  <2>1. w = 2048 * (w \div 2048) + (w % 2048) /\ w % 2048 \in 0 .. 2047 /\ w \div 2048 \in Int
    BY DivMod
  <2>2. 0 <= w % 2048 /\ w % 2048 <= 2047 /\ w % 2048 \in Int
    BY <2>1
  <2> QED BY <2>1, <2>2, <1>2
<1> QED BY <1>1, <1>2 DEF Word

\* Another machine's channels, rows and light.
WithWritten(s, inputs, rows, light) ==
  [s EXCEPT !.InputChannel = inputs, !.OutputChannel10 = rows, !.RestartLight = light]

\* A machine whose clients show the same.
Same(u, s) == /\ u.InputChannel[\o11] = s.InputChannel[\o11]
              /\ \A r \in 0 .. 15 : u.OutputChannel10[r] = s.OutputChannel10[r]
Unheard(t, s) == t \in ListenStates /\ Same(t, s)

LEMMA ListenStateWith ==
  ASSUME NEW s \in ListenStates, NEW inputs \in [Channels -> Int],
         NEW rows \in [0 .. 15 -> Int], NEW light \in BOOLEAN
  PROVE  WithWritten(s, inputs, rows, light) \in ListenStates
<1> DEFINE R == [0 .. 15 -> Int]
<1> HIDE DEF R
<1>1. ListenStates = [ InputChannel : [Channels -> Int], OutputChannel10 : R,
                  RestartLight : BOOLEAN, AgcWarning : BOOLEAN,
                  InterruptRequests : SUBSET {Keyrupt, Uprupt},
                  LastRhc : [Rhc -> Int], Counter : [Counters -> Int],
                  pushed : {<<>>}, sent : {<<>>} ]
  BY DEF ListenStates, R
<1>2. rows \in R
  BY DEF R
<1> QED BY <1>1, <1>2 DEF WithWritten

\* What a warning and a restart do to the machine is not heard of.
LEMMA ListenSteps ==
  ASSUME NEW s \in ListenStates
  PROVE  /\ \A on \in BOOLEAN : Unheard([s EXCEPT !.AgcWarning = on], s)
         /\ \A r : Unheard([s EXCEPT !.InterruptRequests = @ \ {r}], s)
         /\ Unheard(WarningShown(s), s)
         /\ \A standby \in BOOLEAN : Unheard(Restarted(s, standby), s)
         /\ Relatched(s) \in Int
<1> DEFINE C == [Channels -> Int]
           R == [0 .. 15 -> Int]
           F == [Rhc -> Int]
           D == [Counters -> Int]
           x == s.InputChannel[\o33]
<1>1. /\ \o33 \in Channels /\ \o11 \in Channels /\ \o33 # \o11
      /\ s.InputChannel \in C /\ x \in Int
  BY IoAssumption, ServerAssumption DEF ListenStates
<1>2. ListenStates = [ InputChannel : C, OutputChannel10 : R, RestartLight : BOOLEAN,
                       AgcWarning : BOOLEAN, InterruptRequests : SUBSET {Keyrupt, Uprupt},
                       LastRhc : F, Counter : D, pushed : {<<>>}, sent : {<<>>} ]
  BY DEF ListenStates
<1>3. \A w \in Int : Bit(w, WARNING) \in Int /\ Bit(w, UPLINK_TOO_FAST) \in Int
  BY DEF Bit, WARNING, UPLINK_TOO_FAST
<1>4. WithoutBit(x, WARNING) \in Int /\ WithBit(x, UPLINK_TOO_FAST) \in Int
  <2> HIDE DEF x
  <2>1. Bit(x, WARNING) \in Int /\ Bit(x, UPLINK_TOO_FAST) \in Int
    BY <1>1, <1>3
  <2> QED BY <1>1, <2>1 DEF WithoutBit, WithBit, WARNING, UPLINK_TOO_FAST
<1>5. ASSUME NEW w \in Int
      PROVE  LET t == [s EXCEPT !.InputChannel[\o33] = w]
             IN  Unheard(t, s) /\ t.RestartLight = s.RestartLight
  <2> DEFINE c == [s.InputChannel EXCEPT ![\o33] = w]
             t == [s EXCEPT !.InputChannel = c]
  <2>1. c \in C /\ c[\o11] = s.InputChannel[\o11]
    BY <1>1
  <2>2. t = [s EXCEPT !.InputChannel[\o33] = w]
    BY <1>2
  <2> HIDE DEF C, R, F, D, c
  <2>3. t \in ListenStates /\ t.InputChannel = c /\ t.OutputChannel10 = s.OutputChannel10
        /\ t.RestartLight = s.RestartLight
    BY <1>2, <2>1
  <2> HIDE DEF t
  <2>4. Unheard(t, s) /\ t.RestartLight = s.RestartLight
    BY <2>1, <2>3 DEF Unheard, Same
  <2> QED BY <2>2, <2>4
<1> HIDE DEF C, R, F, D
<1>6. ASSUME NEW t \in ListenStates, NEW on \in BOOLEAN
      PROVE  LET u == [t EXCEPT !.AgcWarning = on] IN Unheard(u, t)
  BY <1>2 DEF Unheard, Same
<1>7. ASSUME NEW t \in ListenStates, NEW q \in SUBSET {Keyrupt, Uprupt}, NEW light \in BOOLEAN
      PROVE  LET u == [t EXCEPT !.InterruptRequests = q, !.RestartLight = light]
             IN  Unheard(u, t)
  BY <1>2 DEF Unheard, Same
<1>8. ASSUME NEW r PROVE Unheard([s EXCEPT !.InterruptRequests = @ \ {r}], s)
  BY <1>2 DEF Unheard, Same
<1>9. Unheard(WarningShown(s), s)
  <2>1. Unheard([s EXCEPT !.InputChannel[\o33] = WithoutBit(@, WARNING)], s)
    BY <1>4, <1>5
  <2>2. Unheard(s, s)
    BY DEF Unheard, Same
  <2> QED BY <2>1, <2>2 DEF WarningShown
<1>10. ASSUME NEW standby \in BOOLEAN PROVE Unheard(Restarted(s, standby), s)
  <2> DEFINE w == WithBit(s.InputChannel[\o33], UPLINK_TOO_FAST)
             t == [s EXCEPT !.InputChannel[\o33] = w]
             light == s.RestartLight \/ ~standby
             u == [t EXCEPT !.InterruptRequests = {}, !.RestartLight = light]
  <2>1. Unheard(t, s)
    BY <1>4, <1>5
  <2>2. light \in BOOLEAN /\ {} \in SUBSET {Keyrupt, Uprupt}
    OBVIOUS
  <2>3. Restarted(s, standby) = u
    BY <1>2 DEF Restarted
  <2> HIDE DEF t, light
  <2>4. Unheard(u, t)
    BY <1>7, <2>1, <2>2 DEF Unheard
  <2> HIDE DEF u
  <2> QED BY <2>1, <2>3, <2>4 DEF Unheard, Same
<1>11. Relatched(s) \in Int
  <2> DEFINE all == \o76000 + (x % \o2000)
  <2>1. all \in Int
    BY <1>1
  <2> HIDE DEF all
  <2>2. Bit(all, WARNING) \in Int
    BY <1>3, <2>1
  <2>3. WithoutBit(all, WARNING) \in Int
    BY <2>1, <2>2 DEF WithoutBit, WARNING
  <2> QED BY <2>1, <2>3 DEF Relatched, all
<1> QED BY <1>6, <1>8, <1>9, <1>10, <1>11

LEMMA ChannelOutputState ==
  ASSUME NEW s \in ListenStates, NEW ch \in Channels, NEW v \in Int, ch # 7
  PROVE  /\ [ChannelOutput(s, ch, v) EXCEPT !.sent = <<>>] \in ListenStates
         /\ ChannelOutput(s, ch, v).sent = << <<ch, v>> >>
         /\ ChannelOutput(s, ch, v).InputChannel = s.InputChannel
         /\ ChannelOutput(s, ch, v).OutputChannel10 = s.OutputChannel10
<1> DEFINE asked == ch = \o13 /\ Bit(v, \o200) = 1 /\ Bit(v, \o400) = 1 /\ ~CmOrLm
           counter == [n \in Counters |-> IF asked /\ \E axis \in Rhc : n = RhcCounter(axis)
                                          THEN s.LastRhc[n - \o42 + \o166] ELSE s.Counter[n]]
<1>1. counter \in [Counters -> Int]
  <2>1. \A n \in Counters : s.Counter[n] \in Int
    BY DEF ListenStates
  <2>2. \A axis \in Rhc : s.LastRhc[axis] \in Int
    BY DEF ListenStates
  <2>3. \A axis \in Rhc : RhcCounter(axis) - \o42 + \o166 = axis
    BY DEF Rhc, RhcCounter
  <2> HIDE DEF asked
  <2> QED BY <2>1, <2>2, <2>3
<1>2. s.sent = <<>>
  BY DEF ListenStates
<1>3. ChannelOutput(s, ch, v) = [s EXCEPT !.Counter = counter, !.sent = << <<ch, v>> >>]
  <2>1. Append(s.sent, <<ch, v>>) = << <<ch, v>> >>
    BY <1>2
  <2>2. ChannelOutput(s, ch, v) = [s EXCEPT !.Counter = counter, !.sent = Append(s.sent, <<ch, v>>)]
    BY DEF ChannelOutput
  <2> HIDE DEF counter
  <2> QED BY <2>1, <2>2
<1> HIDE DEF counter
<1> QED BY <1>1, <1>3 DEF ListenStates

\* t is s after the program wrote v to channel ch.
Wrote(t, s, ch, v) ==
  /\ [t EXCEPT !.sent = <<>>] \in ListenStates
  /\ t.InputChannel[\o11] = IF ch = \o11 THEN v ELSE s.InputChannel[\o11]
  /\ \A r \in 0 .. 15 : t.OutputChannel10[r] = IF ch = \o10 /\ r = v \div 2048 THEN v
                                               ELSE s.OutputChannel10[r]
  /\ ch = 7 => t.sent = <<>>
  /\ ch # 7 => \E w \in Int : t.sent = << <<ch, w>> >> /\ (ch \in {\o10, \o11} => w = v)

LEMMA CpuWriteIOState ==
  ASSUME NEW s \in ListenStates, NEW ch \in Channels, NEW v \in Word
  PROVE  Wrote(CpuWriteIO(s, ch, v), s, ch, v)
<1> DEFINE w == CASE ch = \o13 -> Merged(\o43777, v, 0)
                  [] ch = \o33 -> Relatched(s)
                  [] OTHER -> v
           a == IF ch = \o33 THEN [s EXCEPT !.InputChannel[ch] = w] ELSE WriteIO(s, ch, w)
           b == [a EXCEPT !.RestartLight = IF ch = \o11 /\ Bit(v, \o1000) = 1 THEN FALSE ELSE @]
           t == ChannelOutput(b, ch, w)
<1>1. v \in Int /\ v \div 2048 \in 0 .. 15 /\ \o11 \in Channels /\ \o10 \in Channels
  BY WordIsInt, ServerAssumption
<1>2. w \in Int /\ (ch \in {\o10, \o11} => w = v)
  <2>1. Merged(\o43777, v, 0) \in Int
    BY <1>1, MergedIsInt
  <2>2. Relatched(s) \in Int
    BY ListenSteps
  <2> QED BY <1>1, <2>1, <2>2
<1>3. CpuWriteIO(s, ch, v) = t
  BY DEF CpuWriteIO
<1> HIDE DEF w
<1> DEFINE light == IF ch \in {\o15, \o16} /\ w = \o22 THEN FALSE ELSE s.RestartLight
           dark == IF ch = \o11 /\ Bit(v, \o1000) = 1 THEN FALSE ELSE light
<1>5. light \in BOOLEAN /\ dark \in BOOLEAN
  <2>1. s.RestartLight \in BOOLEAN
    BY DEF ListenStates
  <2> QED BY <2>1
<1> DEFINE inputs == [s.InputChannel EXCEPT ![ch] = w]
           rows == [s.OutputChannel10 EXCEPT ![w \div 2048] = IF ch = \o10 THEN w ELSE @]
<1>6. /\ inputs \in [Channels -> Int] /\ rows \in [0 .. 15 -> Int]
      /\ inputs[\o11] = IF ch = \o11 THEN v ELSE s.InputChannel[\o11]
      /\ \A r \in 0 .. 15 : rows[r] = IF ch = \o10 /\ r = v \div 2048 THEN v
                                      ELSE s.OutputChannel10[r]
  <2>1. s.InputChannel \in [Channels -> Int] /\ s.OutputChannel10 \in [0 .. 15 -> Int]
    BY DEF ListenStates
  <2>2. inputs \in [Channels -> Int] /\ inputs[\o11] = IF ch = \o11 THEN v ELSE s.InputChannel[\o11]
    BY <2>1, <1>1, <1>2
  <2>3. CASE ch = \o10
    <3>1. rows = [s.OutputChannel10 EXCEPT ![v \div 2048] = v]
      BY <2>3, <1>2
    <3> HIDE DEF rows, inputs
    <3> QED BY <3>1, <2>1, <2>2, <2>3, <1>1
  <2>4. CASE ch # \o10
    <3>1. rows = s.OutputChannel10
      BY <2>1, <2>4
    <3> HIDE DEF rows, inputs
    <3> QED BY <3>1, <2>1, <2>2, <2>4
  <2> QED BY <2>3, <2>4
<1> DEFINE Shows(in, out) ==
             /\ in[\o11] = IF ch = \o11 THEN v ELSE s.InputChannel[\o11]
             /\ \A r \in 0 .. 15 : out[r] = IF ch = \o10 /\ r = v \div 2048 THEN v
                                            ELSE s.OutputChannel10[r]
<1> HIDE DEF inputs, rows
<1>7. Shows(inputs, rows)
  BY <1>6
<1> HIDE DEF Shows
<1> USE DEF inputs, rows
<1>8. b = [s EXCEPT !.InputChannel = inputs, !.OutputChannel10 = rows, !.RestartLight = dark]
  <2>1. a = [s EXCEPT !.InputChannel = inputs, !.OutputChannel10 = rows, !.RestartLight = light]
    <3>1. CASE ch = \o33
      <4>1. rows = s.OutputChannel10 /\ light = s.RestartLight
        BY <3>1 DEF ListenStates
      <4> HIDE DEF rows, light
      <4> QED BY <3>1, <4>1 DEF ListenStates
    <3>2. CASE ch # \o33
      BY <3>2 DEF WriteIO, ListenStates
    <3> QED BY <3>1, <3>2
  <2>2. a.RestartLight = light
    <3> HIDE DEF a, inputs, rows, light
    <3> QED BY <2>1 DEF ListenStates
  <2>3. b = [a EXCEPT !.RestartLight = dark]
    <3> HIDE DEF a, light
    <3> QED BY <2>2
  <2> HIDE DEF a, b, inputs, rows, light, dark
  <2> QED BY <2>1, <2>3 DEF ListenStates
<1> HIDE DEF inputs, rows, dark, b
<1>9. b \in ListenStates /\ b.InputChannel = inputs /\ b.OutputChannel10 = rows /\ b.sent = <<>>
  <2>1. inputs \in [Channels -> Int] /\ rows \in [0 .. 15 -> Int] /\ dark \in BOOLEAN
    BY <1>5, <1>6, Zenon
  <2>2. b = WithWritten(s, inputs, rows, dark)
    BY <1>8 DEF WithWritten
  <2>3. WithWritten(s, inputs, rows, dark) \in ListenStates
    BY <2>1, ListenStateWith
  <2> QED BY <1>8, <2>2, <2>3 DEF ListenStates
<1>10. ASSUME ch # 7 PROVE Wrote(t, s, ch, v)
  <2>1. /\ [t EXCEPT !.sent = <<>>] \in ListenStates /\ t.sent = << <<ch, w>> >>
        /\ t.InputChannel = inputs /\ t.OutputChannel10 = rows
    BY <1>2, <1>9, <1>10, ChannelOutputState
  <2> HIDE DEF t
  <2>2. \E x \in Int : t.sent = << <<ch, x>> >> /\ (ch \in {\o10, \o11} => x = v)
    BY <2>1, <1>2, Zenon
  <2>3. Shows(t.InputChannel, t.OutputChannel10)
    BY <2>1, <1>7
  <2> QED BY <2>1, <2>2, <2>3, <1>10, Zenon DEF Wrote, Shows
<1>11. ASSUME ch = 7 PROVE Wrote(t, s, ch, v)
  <2> DEFINE m == Merged(\o160, w, 0)
  <2>1. m \in Int
    BY <1>2, MergedIsInt
  <2>2. t = [b EXCEPT !.InputChannel[7] = m]
    BY <1>11 DEF ChannelOutput
  <2> HIDE DEF m, t
  <2>3. /\ t.sent = <<>> /\ t.OutputChannel10 = rows /\ t.InputChannel[\o11] = inputs[\o11]
    BY <2>1, <2>2, <1>1, <1>6, <1>9 DEF ListenStates
  <2>4. [t EXCEPT !.sent = <<>>] \in ListenStates
    <3> DEFINE into == [inputs EXCEPT ![7] = m]
    <3>1. into \in [Channels -> Int]
      <4>1. inputs \in [Channels -> Int]
        BY <1>6
      <4> QED BY <2>1, <4>1
    <3>2. t = [b EXCEPT !.InputChannel = into]
      BY <2>2, <1>9
    <3> HIDE DEF into
    <3> DEFINE R == [0 .. 15 -> Int]
    <3> HIDE DEF R
    <3>3. ListenStates = [ InputChannel : [Channels -> Int], OutputChannel10 : R,
                  RestartLight : BOOLEAN, AgcWarning : BOOLEAN,
                  InterruptRequests : SUBSET {Keyrupt, Uprupt},
                  LastRhc : [Rhc -> Int], Counter : [Counters -> Int],
                  pushed : {<<>>}, sent : {<<>>} ]
      BY DEF ListenStates, R
    <3> QED BY <3>1, <3>2, <3>3, <1>9
  <2>5. Shows(t.InputChannel, t.OutputChannel10)
    <3>1. Shows(t.InputChannel, rows)
      BY <2>3, <1>7 DEF Shows
    <3> QED BY <2>3, <3>1
  <2> QED BY <2>3, <2>4, <2>5, <1>11, Zenon DEF Wrote, Shows
<1> QED BY <1>3, <1>10, <1>11

\* What u is to s if the program has written w to channel ch, as far as it is
\* heard of, and what a client shows of it, if it comes through and if not.
Differs(u, s, ch, w) ==
  /\ u.InputChannel[\o11] = IF ch = \o11 THEN w ELSE s.InputChannel[\o11]
  /\ \A r \in 0 .. 15 : u.OutputChannel10[r] = IF ch = \o10 /\ r = w \div 2048 THEN w
                                               ELSE s.OutputChannel10[r]


Put(f, k, w) == [f EXCEPT ![k] = w]
WithRow(v, r, m) == [v EXCEPT !.row = r, !.missed = m]
WithChannel(v, c, m) == [v EXCEPT !.channel = c, !.missed = m]
WithMissed(v, m) == [v EXCEPT !.missed = m]

LEMMA PutType ==
  ASSUME NEW k, NEW w \in Int, NEW f \in [0 .. 15 -> Int]
  PROVE  Put(f, k, w) \in [0 .. 15 -> Int]
<1> DEFINE R == 0 .. 15
<1> HIDE DEF R
<1>1. \A g \in [R -> Int] : Put(g, k, w) \in [R -> Int]
  BY DEF Put
<1> QED BY <1>1 DEF R

LEMMA ViewType ==
  ASSUME NEW v \in ListenViews, NEW ch \in Channels, NEW w \in Int, ch = \o10 => w \div 2048 \in 0 .. 15
  PROVE  Shown(v, ch, w) \in ListenViews /\ NotShown(v, ch, w) \in ListenViews
<1> DEFINE c == Put(v.channel, ch, w)
           r == Put(v.row, w \div 2048, w)
           less == v.missed \ {Place(ch, w)}
           more == v.missed \cup {Place(ch, w)}
           C == [Channels -> Int]
           R == [0 .. 15 -> Int]
           Q == Channels \X (0 .. 15)
<1>1. v.channel \in C /\ v.row \in R /\ v.missed \in SUBSET Q
  BY DEF ListenViews
<1>2. c \in C
  BY <1>1 DEF Put
<1>3. r \in R
  <2>1. v.row \in R
    BY <1>1
  <2> QED BY <2>1, PutType
<1>4. Place(ch, w) \in Q
  BY DEF Place
<1>5. ListenViews = [channel : C, row : R, missed : SUBSET Q]
  BY DEF ListenViews
<1> HIDE DEF C, R, Q, c, r
<1>6. less \in SUBSET Q /\ more \in SUBSET Q
  BY <1>1, <1>4
<1>7. NotShown(v, ch, w) = WithMissed(v, more)
  BY DEF NotShown, WithMissed
<1>8. Shown(v, ch, w) = IF ch = \o10 THEN WithRow(v, r, less) ELSE WithChannel(v, c, less)
  <2> HIDE DEF less
  <2>1. Shown(v, ch, w) = IF ch = \o10 THEN [v EXCEPT !.row[w \div 2048] = w, !.missed = less]
                          ELSE [v EXCEPT !.channel[ch] = w, !.missed = less]
    BY <1>5 DEF Shown, less
  <2> QED BY <2>1 DEF WithRow, WithChannel, Put, c, r
<1> DEFINE M == SUBSET Q
<1>9. ListenViews = [channel : C, row : R, missed : M] /\ less \in M /\ more \in M
  BY <1>5, <1>6
<1> HIDE DEF M, less, more
<1>10. WithMissed(v, more) \in ListenViews
  BY <1>9 DEF WithMissed
<1>11. \A x \in ListenViews : [x EXCEPT !.missed = less] \in ListenViews
  BY <1>9
<1>12. WithRow(v, r, less) \in ListenViews
  <2> DEFINE x == [v EXCEPT !.row = r]
  <2>1. v \in [channel : C, row : R, missed : M]
    BY <1>9
  <2>2. x \in ListenViews
    BY <2>1, <1>3, <1>9
  <2>3. WithRow(v, r, less) = [x EXCEPT !.missed = less]
    BY <2>1 DEF WithRow
  <2> HIDE DEF x
  <2> QED BY <2>2, <2>3, <1>11
<1>13. WithChannel(v, c, less) \in ListenViews
  <2> DEFINE x == [v EXCEPT !.channel = c]
  <2>1. v \in [channel : C, row : R, missed : M]
    BY <1>9
  <2>2. x \in ListenViews
    BY <2>1, <1>2, <1>9
  <2>3. WithChannel(v, c, less) = [x EXCEPT !.missed = less]
    BY <2>1 DEF WithChannel
  <2> HIDE DEF x
  <2> QED BY <2>2, <2>3, <1>11
<1> QED BY <1>7, <1>8, <1>10, <1>12, <1>13

LEMMA Told ==
  ASSUME NEW v \in ListenViews, NEW s, NEW u, NEW ch \in Channels, NEW w \in Int,
         ch = \o10 => w \div 2048 \in 0 .. 15, Differs(u, s, ch, w), Agrees(v, s)
  PROVE  Agrees(Shown(v, ch, w), u) /\ Agrees(NotShown(v, ch, w), u)
<1>1. /\ v.channel \in [Channels -> Int] /\ v.row \in [0 .. 15 -> Int]
      /\ \o11 \in Channels /\ \o10 \in Channels
  BY ServerAssumption DEF ListenViews
<1> DEFINE a == Shown(v, ch, w)
           b == NotShown(v, ch, w)
<1>2. /\ b.channel = v.channel /\ b.row = v.row /\ b.missed = v.missed \cup {Place(ch, w)}
  BY DEF NotShown, ListenViews
<1>3. /\ a.channel = IF ch = \o10 THEN v.channel ELSE [v.channel EXCEPT ![ch] = w]
      /\ a.row = IF ch = \o10 THEN [v.row EXCEPT ![w \div 2048] = w] ELSE v.row
      /\ a.missed = v.missed \ {Place(ch, w)}
  BY DEF Shown, ListenViews
<1>4. Place(ch, w) = IF ch = \o10 THEN <<ch, w \div 2048>> ELSE <<ch, 0>>
  BY DEF Place
<1> HIDE DEF a, b
<1>5. Agrees(b, u)
  BY <1>2, <1>4 DEF Agrees, Differs
<1>6. Agrees(a, u)
  BY <1>1, <1>3, <1>4 DEF Agrees, Differs
<1> QED BY <1>5, <1>6 DEF a, b

\* A broadcast, or a step of the machine with none.
LEMMA HearBecomes ==
  ASSUME HearInv, listens, NEW t, NEW u \in ListenStates, u = [t EXCEPT !.sent = <<>>],
         NEW ch \in Channels, NEW w \in Int, ch = \o10 => w \div 2048 \in 0 .. 15,
         \/ t.sent = <<>> /\ Same(u, State)
         \/ t.sent = << <<ch, w>> >> /\ Differs(u, State, ch, w),
         Becomes(t, Clients), UNCHANGED <<sends, listens>>, ServerType
  PROVE  HearInv'
<1>1. /\ NobodySends /\ State \in ListenStates /\ view \in [Ports -> ListenViews]
      /\ \A i \in Ports : Hears(i) => Agrees(view[i], State)
      /\ \A i \in Ports : inbox[i] = <<>> /\ Clients[i].Packet = <<>>
  BY DEF HearInv, NobodySends
<1>2. State' = u /\ sends' = Listening /\ listens'
  BY <1>1 DEF Becomes, NobodySends
<1>3. CASE t.sent = <<>>
  <2>1. Clients' = Clients /\ inbox' = inbox /\ peer' = peer /\ view' = view
    BY <1>3 DEF Becomes
  <2>2. Same(u, State)
    BY <1>3
  <2>3. \A v : Agrees(v, State) => Agrees(v, u)
    BY <2>2 DEF Same, Agrees
  <2>4. \A i \in Ports : Hears(i)' => Agrees(view[i], u)
    BY <2>1, <2>3, <1>1 DEF Hears, IsConnected
  <2>5. NobodySends'
    BY <1>1, <1>2, <2>1 DEF NobodySends
  <2> QED BY <1>1, <1>2, <2>1, <2>4, <2>5 DEF HearInv
<1>4. CASE t.sent # <<>>
  <2>1. t.sent[1][1] = ch /\ t.sent[1][2] = w /\ Differs(u, State, ch, w)
    BY <1>4
  <2> DEFINE set == {i \in Ports : IsConnected(i)}
             gone == {i \in set : peer[i] = "reset"}
  <2>2. SendTo(set, Clients, ch, w)
    <3>1. SendTo(set, Clients, t.sent[1][1], t.sent[1][2])
      BY <1>4 DEF Becomes
    <3> HIDE DEF set
    <3> QED BY <2>1, <3>1
  <2>3. PICK slow \in SUBSET {i \in set : peer[i] = "open"},
             resets \in SUBSET {i \in set : peer[i] = "closed"} :
          /\ Clients' = [i \in Ports |-> IF i \in gone THEN Removed(Clients[i]) ELSE Clients[i]]
          /\ peer' = [i \in Ports |-> CASE i \in gone -> "none"
                                        [] i \in resets -> "reset"
                                        [] OTHER -> peer[i]]
          /\ view' = [i \in Ports |-> IF i \notin set \/ peer[i] # "open" THEN view[i]
                                      ELSE IF i \in slow THEN NotShown(view[i], ch, w)
                                      ELSE Shown(view[i], ch, w)]
          /\ inbox' = [i \in Ports |-> IF i \in gone THEN <<>> ELSE inbox[i]]
    BY <2>2, Zenon DEF SendTo
  <2>4. \A i \in Ports : /\ Removed(Clients[i]).Packet = <<>>
                         /\ ~Removed(Clients[i]).Socket
    BY <1>1 DEF Removed, ServerType, ClientRecords
  <2>5. \A i \in Ports : view[i] \in ListenViews /\ Shown(view[i], ch, w) \in ListenViews
                         /\ NotShown(view[i], ch, w) \in ListenViews
    BY <1>1, ViewType
  <2> HIDE DEF gone
  <2>6. NobodySends'
    BY <1>1, <1>2, <2>3, <2>4 DEF NobodySends
  <2>7. view' \in [Ports -> ListenViews]
    BY <2>3, <2>5
  <2>8. ASSUME NEW i \in Ports, Hears(i)' PROVE Agrees(view'[i], u)
    <3>1. i \notin gone /\ peer'[i] = "open"
      BY <2>8, <2>3, <2>4 DEF Hears, IsConnected
    <3>2. Hears(i)
      BY <2>8, <2>3, <3>1 DEF Hears, IsConnected
    <3>3. i \in set /\ peer[i] = "open"
      BY <3>2 DEF Hears
    <3> HIDE DEF set
    <3>4. view'[i] = Shown(view[i], ch, w) \/ view'[i] = NotShown(view[i], ch, w)
      BY <2>3, <3>3
    <3>5. Agrees(view[i], State)
      BY <1>1, <3>2
    <3>6. Agrees(Shown(view[i], ch, w), u) /\ Agrees(NotShown(view[i], ch, w), u)
      BY <2>1, <2>5, <3>5, Told
    <3> QED BY <3>4, <3>6
  <2> QED BY <1>2, <2>6, <2>7, <2>8 DEF HearInv
<1> QED BY <1>3, <1>4
LEMMA HearInit == MCInit => HearInv
<1> SUFFICES ASSUME MCInit, listens PROVE HearInv
  BY DEF HearInv
<1>1. sends = Listening
  BY DEF MCInit, SendingInit, ListeningInit
<1>2. NobodySends
  BY <1>1 DEF MCInit, Init, NoClient, NobodySends
<1>3. State \in ListenStates
  <2> DEFINE in == [ch \in Channels |-> CASE ch = \o30 -> \o37777
                                          [] ch \in {\o31, \o32, \o33} -> \o77777
                                          [] OTHER -> 0]
             rows == [row \in 0 .. 15 |-> 0]
             rhc == [axis \in Rhc |-> 0]
             counters == [n \in Counters |-> 0]
             R == [0 .. 15 -> Int]
  <2>1. in \in [Channels -> Int]
    OBVIOUS
  <2>2. rows \in R /\ rhc \in [Rhc -> Int] /\ counters \in [Counters -> Int]
    OBVIOUS
  <2>3. State = [ InputChannel |-> in, OutputChannel10 |-> rows, RestartLight |-> TRUE,
                  AgcWarning |-> FALSE, InterruptRequests |-> {}, LastRhc |-> rhc, Counter |-> counters,
                  pushed |-> <<>>, sent |-> <<>> ]
    BY DEF MCInit, Init, StartState
  <2>4. ListenStates = [ InputChannel : [Channels -> Int], OutputChannel10 : R,
                  RestartLight : BOOLEAN, AgcWarning : BOOLEAN,
                  InterruptRequests : SUBSET {Keyrupt, Uprupt},
                  LastRhc : [Rhc -> Int], Counter : [Counters -> Int],
                  pushed : {<<>>}, sent : {<<>>} ]
    BY DEF ListenStates
  <2> HIDE DEF in, rows, rhc, counters, R
  <2> QED BY <2>1, <2>2, <2>3, <2>4
<1>4. BlankView \in ListenViews
  BY DEF BlankView, ListenViews
<1>5. \A i \in Ports : ~Hears(i)
  BY DEF MCInit, Init, NoClient, Hears, IsConnected
<1>6. view \in [Ports -> ListenViews]
  BY <1>4 DEF MCInit, Init
<1> QED BY <1>2, <1>3, <1>5, <1>6 DEF HearInv

\* A newcomer is sent what there is.
LEMMA Greeted ==
  ASSUME State \in ListenStates
  PROVE  /\ UpdateAgcPeripheralConnect(BlankView) \in ListenViews
         /\ Agrees(UpdateAgcPeripheralConnect(BlankView), State)
<1> DEFINE channel == [ch \in Channels |-> IF ch >= \o11 THEN State.InputChannel[ch] ELSE 0]
           R == [0 .. 15 -> Int]
           M == SUBSET (Channels \X (0 .. 15))
<1>1. UpdateAgcPeripheralConnect(BlankView)
        = [channel |-> channel, row |-> State.OutputChannel10, missed |-> {}]
  <2>1. BlankView = [channel |-> BlankView.channel, row |-> BlankView.row, missed |-> {}]
        /\ BlankView.channel = [ch \in Channels |-> 0]
    BY DEF BlankView
  <2>2. channel = [ch \in Channels |-> IF ch >= \o11 THEN State.InputChannel[ch]
                                      ELSE BlankView.channel[ch]]
    BY <2>1
  <2>3. UpdateAgcPeripheralConnect(BlankView)
          = [BlankView EXCEPT !.channel = channel, !.row = State.OutputChannel10]
    BY <2>2 DEF UpdateAgcPeripheralConnect
  <2> HIDE DEF channel
  <2> QED BY <2>3 DEF BlankView
<1>2. channel \in [Channels -> Int] /\ channel[\o11] = State.InputChannel[\o11]
  BY ServerAssumption DEF ListenStates
<1>3. State.OutputChannel10 \in R /\ {} \in M
  BY DEF ListenStates
<1>4. ListenViews = [channel : [Channels -> Int], row : R, missed : M]
  BY DEF ListenViews
<1> HIDE DEF channel
<1>5. Agrees(UpdateAgcPeripheralConnect(BlankView), State)
  BY <1>1, <1>2 DEF Agrees
<1> HIDE DEF R, M
<1> QED BY <1>1, <1>2, <1>3, <1>4, <1>5

LEMMA HearRoutine ==
  ASSUME HearInv, listens, ChannelRoutine, UNCHANGED <<sends, listens>>, ServerType
  PROVE  HearInv'
<1>1. /\ NobodySends /\ State \in ListenStates /\ view \in [Ports -> ListenViews]
      /\ \A i \in Ports : Hears(i) => Agrees(view[i], State)
      /\ \A i \in Ports : inbox[i] = <<>> /\ Clients[i].Packet = <<>>
  BY DEF HearInv, NobodySends
<1>2. State' = State /\ sends' = Listening /\ listens'
  BY <1>1 DEF ChannelRoutine, NobodySends
<1>3. CASE ChannelRoutineCount # 0
  <2>1. Clients' = Clients /\ inbox' = inbox /\ peer' = peer /\ view' = view
    BY <1>3 DEF ChannelRoutine, worldVars
  <2> QED BY <1>1, <1>2, <2>1 DEF HearInv, NobodySends, Hears, IsConnected
<1>4. CASE ChannelRoutineCount = 0
  <2> DEFINE clients == [i \in Ports |-> IF i \in Accepted THEN Welcomed(i) ELSE Clients[i]]
             gone == {i \in Ports : Probes /\ peer[i] = "reset"}
             greeted == UpdateAgcPeripheralConnect(BlankView)
  <2>1. PICK resets \in SUBSET {i \in Ports : Probes /\ peer[i] = "closed"} :
          peer' = [i \in Ports |-> CASE i \in Accepted -> "open"
                                     [] i \in gone -> "none"
                                     [] i \in resets -> "reset"
                                     [] OTHER -> peer[i]]
    BY <1>4, Zenon DEF ChannelRoutine
  <2>2. /\ Clients' = [i \in Ports |-> IF i \in gone THEN Removed(clients[i]) ELSE clients[i]]
        /\ inbox' = [i \in Ports |-> IF i \in gone \cup Accepted THEN <<>> ELSE inbox[i]]
        /\ view' = [i \in Ports |-> IF i \in Accepted THEN greeted ELSE view[i]]
    BY <1>4 DEF ChannelRoutine
  <2>3. \A i \in Ports : clients[i] \in ClientRecords /\ clients[i].Packet = <<>>
    BY <1>1, NewClientType DEF Welcomed, NewClient, ServerType
  <2>4. \A i \in Ports : i \notin Accepted => clients[i] = Clients[i]
    OBVIOUS
  <2>5. greeted \in ListenViews /\ Agrees(greeted, State)
    BY <1>1, Greeted
  <2> HIDE DEF clients, gone, greeted
  <2>6. \A i \in Ports : Removed(clients[i]).Packet = <<>> /\ ~Removed(clients[i]).Socket
    BY <2>3 DEF Removed, ClientRecords
  <2>7. NobodySends'
    BY <1>1, <1>2, <2>2, <2>3, <2>6 DEF NobodySends
  <2>8. view' \in [Ports -> ListenViews]
    BY <1>1, <2>2, <2>5
  <2>9. ASSUME NEW i \in Ports, Hears(i)' PROVE Agrees(view'[i], State)
    <3>1. CASE i \in Accepted
      BY <3>1, <2>2, <2>5
    <3>2. CASE i \notin Accepted
      <4>1. i \notin gone /\ peer'[i] = "open" /\ Clients'[i].Socket
        BY <2>2, <2>6, <2>9 DEF Hears, IsConnected
      <4>2. Clients[i].Socket /\ peer[i] = "open"
        BY <4>1, <3>2, <2>1, <2>2, <2>4
      <4>3. Agrees(view[i], State)
        BY <4>2, <1>1 DEF Hears, IsConnected
      <4> QED BY <4>3, <3>2, <2>2
    <3> QED BY <3>1, <3>2
  <2> QED BY <1>1, <1>2, <2>7, <2>8, <2>9 DEF HearInv
<1> QED BY <1>3, <1>4

LEMMA HearProgram ==
  ASSUME HearInv, listens, UpdateDSKY \/ Program(Outputs), UNCHANGED <<sends, listens>>, ServerType
  PROVE  HearInv'
<1>1. State \in ListenStates /\ State.sent = <<>> /\ \o163 \in Channels /\ 0 \in Int
  <2>1. State \in ListenStates
    BY DEF HearInv
  <2>2. State.sent = <<>>
    BY <2>1 DEF ListenStates
  <2>3. \o163 \in Channels
    BY ServerAssumption
  <2> QED BY <2>1, <2>2, <2>3
<1>2. ASSUME NEW t, Unheard(t, State), Becomes(t, Clients)
      PROVE  HearInv'
  <2>1. t = [t EXCEPT !.sent = <<>>] /\ t.sent = <<>>
    BY <1>2 DEF Unheard, ListenStates
  <2> QED BY <1>1, <1>2, <2>1, HearBecomes DEF Unheard
<1>3. Unheard(WarningShown(State), State)
  BY <1>1, ListenSteps
<1>4. ASSUME NEW s, Unheard(s, State),
             NEW lamps \in Lamps, Becomes(ChannelOutput(s, \o163, lamps), Clients)
      PROVE  HearInv'
  <2> DEFINE t == ChannelOutput(s, \o163, lamps)
             u == [t EXCEPT !.sent = <<>>]
  <2>1. lamps \in Int /\ \o163 # 7 /\ \o163 # \o10 /\ \o163 # \o11
    BY WordIsInt, ServerAssumption
  <2>2. /\ u \in ListenStates /\ t.sent = << <<\o163, lamps>> >>
        /\ t.InputChannel = s.InputChannel /\ t.OutputChannel10 = s.OutputChannel10
    BY <1>1, <1>4, <2>1, ChannelOutputState DEF Unheard
  <2>3. Becomes(t, Clients)
    BY <1>4
  <2>4. u.InputChannel = t.InputChannel /\ u.OutputChannel10 = t.OutputChannel10
    BY <2>2 DEF ListenStates
  <2> HIDE DEF t
  <2>5. Differs(u, State, \o163, lamps)
    <3> HIDE DEF u
    <3> QED BY <1>4, <2>1, <2>2, <2>4 DEF Differs, Unheard, Same
  <2> QED BY <1>1, <2>1, <2>2, <2>3, <2>5, HearBecomes
<1>5. ASSUME NEW s, Unheard(s, State),
             NEW o \in Outputs, Becomes(CpuWriteIO(s, o[1], o[2]), Clients)
      PROVE  HearInv'
  <2> DEFINE t == CpuWriteIO(s, o[1], o[2])
             u == [t EXCEPT !.sent = <<>>]
  <2>1. o[1] \in Channels /\ o[2] \in Word
    BY ServerAssumption
  <2>2. Wrote(t, s, o[1], o[2])
    BY <1>5, <2>1, CpuWriteIOState DEF Unheard
  <2>3. Becomes(t, Clients)
    BY <1>5
  <2> HIDE DEF t
  <2>4. u \in ListenStates
    BY <2>2 DEF Wrote
  <2>5. u.InputChannel = t.InputChannel /\ u.OutputChannel10 = t.OutputChannel10
    BY <2>4 DEF ListenStates
  <2>6. o[2] \in Int /\ o[2] \div 2048 \in 0 .. 15
    BY <2>1, WordIsInt
  <2>7. CASE o[1] = 7
    <3>1. t.sent = <<>>
      BY <2>2, <2>7 DEF Wrote
    <3>2. Same(u, State)
      <4> HIDE DEF u
      <4> QED BY <1>5, <2>2, <2>5, <2>7 DEF Wrote, Same, Unheard
    <3> QED BY <2>1, <2>3, <2>4, <2>6, <3>1, <3>2, HearBecomes
  <2>8. CASE o[1] # 7
    <3>1. PICK w \in Int : t.sent = << <<o[1], w>> >> /\ (o[1] \in {\o10, \o11} => w = o[2])
      BY <2>2, <2>8 DEF Wrote
    <3>2. o[1] = \o10 => w \div 2048 \in 0 .. 15
      BY <2>6, <3>1
    <3>3. Differs(u, State, o[1], w)
      <4> DEFINE ch == o[1]
                 v == o[2]
      <4>1. /\ t.InputChannel[\o11] = IF ch = \o11 THEN v ELSE State.InputChannel[\o11]
            /\ \A r \in 0 .. 15 :
                 t.OutputChannel10[r] = IF ch = \o10 /\ r = v \div 2048 THEN v
                                        ELSE State.OutputChannel10[r]
        BY <1>5, <2>2 DEF Wrote, Same, Unheard
      <4>2. ch \in {\o10, \o11} => w = v
        BY <3>1
      <4> HIDE DEF u, ch, v
      <4>3. u.InputChannel[\o11] = IF ch = \o11 THEN w ELSE State.InputChannel[\o11]
        BY <4>1, <4>2, <2>5
      <4>4. \A r \in 0 .. 15 : u.OutputChannel10[r] = IF ch = \o10 /\ r = w \div 2048 THEN w
                                                      ELSE State.OutputChannel10[r]
        BY <4>1, <4>2, <2>5
      <4> QED BY <4>3, <4>4 DEF Differs, ch
    <3> QED BY <2>1, <2>3, <2>4, <3>1, <3>2, <3>3, HearBecomes
  <2> QED BY <2>7, <2>8
<1>6. ASSUME NEW on \in BOOLEAN
      PROVE  Unheard(Scaled(on), State)
  BY <1>1, ListenSteps DEF Scaled
<1>7. CASE UpdateDSKY
  <2>1. PICK lamps \in Lamps :
           Becomes(IF lamps = DskyChannel163 THEN WarningShown(State)
                   ELSE ChannelOutput(WarningShown(State), \o163, lamps), Clients)
    BY <1>7 DEF UpdateDSKY
  <2>2. CASE lamps = DskyChannel163
    BY <1>2, <1>3, <2>1, <2>2
  <2>3. CASE lamps # DskyChannel163
    BY <1>3, <1>4, <2>1, <2>3
  <2> QED BY <2>2, <2>3
<1>8. CASE Program(Outputs)
  <2>1. PICK on \in BOOLEAN :
           \/ Becomes(Scaled(on), Clients)
           \/ \E o \in Outputs : Becomes(CpuWriteIO(Scaled(on), o[1], o[2]), Clients)
           \/ \E r \in State.InterruptRequests :
                 Becomes([Scaled(on) EXCEPT !.InterruptRequests = @ \ {r}], Clients)
           \/ \E standby \in BOOLEAN : Becomes(Restarted(Scaled(on), standby), Clients)
    BY <1>8 DEF Program, IsWarning
  <2> DEFINE s == Scaled(on)
  <2>2. Unheard(s, State)
    BY <1>6
  <2> HIDE DEF s
  <2>3. ASSUME NEW t, Unheard(t, s), Becomes(t, Clients)
        PROVE  HearInv'
    <3>1. Unheard(t, State)
      BY <2>2, <2>3 DEF Unheard, Same
    <3> QED BY <1>2, <2>3, <3>1
  <2>4. CASE Becomes(s, Clients)
    BY <1>2, <2>2, <2>4
  <2>5. ASSUME NEW o \in Outputs, Becomes(CpuWriteIO(s, o[1], o[2]), Clients)
        PROVE  HearInv'
    BY <1>5, <2>2, <2>5
  <2>6. ASSUME NEW r, Becomes([s EXCEPT !.InterruptRequests = @ \ {r}], Clients)
        PROVE  HearInv'
    <3>1. Unheard([s EXCEPT !.InterruptRequests = @ \ {r}], s)
      BY <2>2, ListenSteps DEF Unheard
    <3> QED BY <2>3, <2>6, <3>1
  <2>7. ASSUME NEW standby \in BOOLEAN, Becomes(Restarted(s, standby), Clients)
        PROVE  HearInv'
    <3>1. Unheard(Restarted(s, standby), s)
      BY <2>2, ListenSteps DEF Unheard
    <3> QED BY <2>3, <2>7, <3>1
  <2> QED BY <2>1, <2>4, <2>5, <2>6, <2>7 DEF s
<1> QED BY <1>7, <1>8

LEMMA HearInvStep == HearInv /\ ListenInv /\ [MCNext]_mcVars => HearInv'
<1> SUFFICES ASSUME HearInv, ListenInv, [MCNext]_mcVars, listens' PROVE HearInv'
  BY DEF HearInv
<1>1. sends' = sends /\ listens' = listens
  <2>1. CASE Engine
    BY <2>1 DEF Engine, Observe, storyVars
  <2>2. ASSUME NEW i \in Ports, Connects(i) \/ Bytes(i) \/ Leaves(i)
        PROVE  sends' = sends /\ listens' = listens
    BY <2>2 DEF Connects, Bytes, Leaves, storyVars
  <2>3. CASE UNCHANGED mcVars
    BY <2>3 DEF mcVars, storyVars
  <2> QED BY <2>1, <2>2, <2>3 DEF MCNext
<1>2. listens /\ ServerType /\ StoryType /\ polled \in Ports
  BY <1>1 DEF ListenInv, ServerType
<1>3. /\ NobodySends /\ State \in ListenStates /\ view \in [Ports -> ListenViews]
      /\ \A i \in Ports : Hears(i) => Agrees(view[i], State)
      /\ \A i \in Ports : inbox[i] = <<>> /\ Clients[i].Packet = <<>>
  BY <1>2 DEF HearInv, NobodySends
<1>4. ASSUME UNCHANGED <<Clients, State, peer, inbox, view>> PROVE HearInv'
  BY <1>1, <1>2, <1>4 DEF HearInv, NobodySends, Hears, IsConnected
<1>5. CASE Engine
  <2>1. CASE ChannelRoutine
    BY <2>1, <1>1, <1>2, HearRoutine
  <2>2. CASE UpdateDSKY \/ Program(IF listens THEN Outputs ELSE {})
    BY <2>2, <1>1, <1>2, HearProgram
  <2>3. CASE PassOver
    BY <2>3, <1>4 DEF PassOver, worldVars
  <2>4. ~ReceiveByte
    BY <1>2, <1>3 DEF ReceiveByte
  <2>5. ~HasPacket
    <3>1. Len(Clients[polled].Packet) = 0
      BY <1>2, <1>3
    <3> QED BY <3>1 DEF HasPacket
  <2> QED BY <1>5, <2>1, <2>2, <2>3, <2>4, <2>5 DEF Engine, ReceiveMask, ReceiveCount, ReceiveValue
<1>6. ASSUME NEW i \in Ports, Connects(i) PROVE HearInv'
  BY <1>6, <1>4 DEF Connects, Knock, engineVars
<1>7. ASSUME NEW i \in Ports PROVE ~Bytes(i)
  <2> SUFFICES ASSUME Bytes(i) PROVE FALSE
    OBVIOUS
  <2>1. peer[i] = "open" /\ connection[i] \in Nat /\ connection[i] >= 1 /\ arrived[i] \in Nat
        /\ connection[i] <= Len(sends[i + 1]) /\ i + 1 \in 1 .. MAX_CLIENTS
    BY <1>2, PortsAre DEF Bytes, StoryType
  <2>2. sends[i + 1] = [n \in 1 .. Visits[i + 1] |-> <<>>] /\ Visits[i + 1] \in Nat
    BY <1>3, <2>1, StoryAssumption DEF NobodySends, Listening
  <2>3. Len(sends[i + 1]) = Visits[i + 1]
    BY <2>2
  <2>4. Script(i) = <<>>
    BY <2>1, <2>2, <2>3 DEF Script
  <2>5. arrived[i] + 1 .. Len(Script(i)) = {}
    BY <2>1, <2>4
  <2> QED BY <2>5 DEF Bytes
<1>8. ASSUME NEW i \in Ports, Leaves(i) PROVE HearInv'
  <2>1. peer' = [peer EXCEPT ![i] = "closed"] /\ UNCHANGED <<Clients, State, inbox, view>>
    BY <1>8 DEF Leaves, HangUp, engineVars
  <2>2. \A j \in Ports : Hears(j)' => Hears(j)
    BY <2>1, <1>2 DEF Hears, IsConnected, ServerType
  <2> QED BY <1>1, <1>3, <2>1, <2>2 DEF HearInv, NobodySends
<1>9. CASE UNCHANGED mcVars
  BY <1>9, <1>4 DEF mcVars, serverVars, engineVars, worldVars
<1> QED BY <1>5, <1>6, <1>7, <1>8, <1>9 DEF MCNext

\* A client, whenever it connected and whoever comes and goes, shows of every row
\* of the relays and of the lamps of channel 11 what the program last wrote there,
\* unless the send of that very value would have blocked (ChannelOutput,
\* UpdateAgcPeripheralConnect), for every program and any number of ports.
THEOREM ListenersAgree == MCSpec => []ViewsAgree
<1>1. HearInv => ViewsAgree
  BY DEF HearInv, Agrees, ViewsAgree
<1> QED BY <1>1, HearInit, HearInvStep, AlwaysListened, PTL DEF MCSpec

-----------------------------------------------------------------------------
(* Bits of the channels.                                                   *)

ChosenBit(m, new, old, u) == IF Bit(m, u) = 1 THEN Bit(new, u) ELSE Bit(old, u)

LEMMA ChosenBitRange ==
  ASSUME NEW m \in Int, NEW new \in Int, NEW old \in Int
  PROVE  \A u \in Weights : ChosenBit(m, new, old, u) \in {0, 1}
<1> TAKE u \in Weights
<1>1. \A w \in Int : (w \div u) % 2 \in {0, 1}
  <2>1. \A d \in Int : d % 2 \in {0, 1}
    OBVIOUS
  <2>2. \A w \in Int : w \div u \in Int
    BY WeightsAre
  <2> QED BY <2>1, <2>2
<1> QED BY <1>1 DEF ChosenBit, Bit

LEMMA MergedIsSum ==
  ASSUME NEW m \in Int, NEW new \in Int, NEW old \in Int
  PROVE  LET c == [u \in Weights |-> ChosenBit(m, new, old, u)]
         IN  Merged(m, new, old) = Sum10(c) + 1024 * Sum5(c)
<1> DEFINE c == [u \in Weights |-> ChosenBit(m, new, old, u)]
<1>1. \A u \in Weights : c[u] \in Int /\ Chosen(m, new, old, u) = c[u] * u
  BY ChosenBitRange DEF ChosenBit, Chosen
<1> HIDE DEF c
<1>2. \A u \in {1, 8, 64, 512, 4096} : ChosenDigit(m, new, old, u) = Digit(c, u)
  <2> TAKE u \in {1, 8, 64, 512, 4096}
  <2>1. u \in Weights /\ 2 * u \in Weights /\ 4 * u \in Weights
    BY DEF Weights
  <2> QED BY <1>1, <2>1 DEF ChosenDigit, Digit
<1>3. Merged(m, new, old) = Digit(c, 1) + Digit(c, 8) + Digit(c, 64) + Digit(c, 512)
                              + Digit(c, 4096)
  BY <1>2 DEF Merged
<1>4. Merged(m, new, old) = Sum10(c) + 1024 * Sum5(c)
  BY <1>1, <1>3, SumOfDigits
<1> QED BY <1>4 DEF c

\* The bits of what is merged are the bits chosen.
LEMMA MergedBits ==
  ASSUME NEW m \in Int, NEW new \in Int, NEW old \in Int
  PROVE  \A u \in Weights : Bit(Merged(m, new, old), u) = ChosenBit(m, new, old, u)
<1> DEFINE c == [u \in Weights |-> ChosenBit(m, new, old, u)]
<1>1. \A u \in Weights : c[u] \in {0, 1} /\ c[u] = ChosenBit(m, new, old, u)
  BY ChosenBitRange
<1>2. Merged(m, new, old) = Sum10(c) + 1024 * Sum5(c)
  BY MergedIsSum
<1> HIDE DEF c
<1>3. \A u \in Weights : ((Sum10(c) + 1024 * Sum5(c)) \div u) % 2 = c[u]
  BY <1>1, BitOfSum
<1> QED BY <1>1, <1>2, <1>3 DEF Bit

\* Numbers merged of the same bits are the same.
LEMMA SameChoice ==
  ASSUME NEW m \in Int, NEW a \in Int, NEW b \in Int, NEW c \in Int, NEW d \in Int,
         \A u \in Weights : ChosenBit(m, a, b, u) = ChosenBit(m, c, d, u)
  PROVE  Merged(m, a, b) = Merged(m, c, d)
<1> DEFINE e == [u \in Weights |-> ChosenBit(m, a, b, u)]
           f == [u \in Weights |-> ChosenBit(m, c, d, u)]
<1>1. e = f
  OBVIOUS
<1>2. Merged(m, a, b) = Sum10(e) + 1024 * Sum5(e)
  BY MergedIsSum
<1>3. Merged(m, c, d) = Sum10(f) + 1024 * Sum5(f)
  BY MergedIsSum
<1> HIDE DEF e, f
<1> QED BY <1>1, <1>2, <1>3

\* Under its mask a client finds what it wrote.
LEMMA OwnBits ==
  ASSUME NEW m \in Int, NEW new \in Int, NEW old \in Int
  PROVE  Merged(m, Merged(m, new, old), 0) = Merged(m, new, 0)
<1>1. Merged(m, new, old) \in Int /\ 0 \in Int
  BY MergedIsInt
<1>2. \A u \in Weights : ChosenBit(m, Merged(m, new, old), 0, u) = ChosenBit(m, new, 0, u)
  BY MergedBits DEF ChosenBit
<1> QED BY <1>1, <1>2, SameChoice

\* Under a mask that shares no bit with it a client finds what there was.
LEMMA OthersBits ==
  ASSUME NEW m \in Int, NEW n \in Int, NEW new \in Int, NEW old \in Int,
         Merged(n, m, 0) = 0
  PROVE  Merged(n, Merged(m, new, old), 0) = Merged(n, old, 0)
<1>1. Merged(m, new, old) \in Int /\ 0 \in Int
  BY MergedIsInt
<1>2. \A u \in Weights : Bit(0, u) = 0
  <2> TAKE u \in Weights
  <2>1. 0 \div u = 0
    BY WeightsAre
  <2> QED BY <2>1 DEF Bit
<1>3. \A u \in Weights : Bit(n, u) = 1 => Bit(m, u) = 0
  <2>1. \A u \in Weights : Bit(Merged(n, m, 0), u) = ChosenBit(n, m, 0, u)
    BY <1>1, MergedBits
  <2> QED BY <1>2, <2>1 DEF ChosenBit
<1>4. \A u \in Weights : Bit(Merged(m, new, old), u) = ChosenBit(m, new, old, u)
  BY MergedBits
<1>5. \A u \in Weights : ChosenBit(n, Merged(m, new, old), 0, u) = ChosenBit(n, old, 0, u)
  BY <1>3, <1>4 DEF ChosenBit
<1> QED BY <1>1, <1>5, SameChoice

-----------------------------------------------------------------------------
(* What a client has said so far.                                          *)

\* The packets p are the first of q.
Begins(p, q) == Len(p) <= Len(q) /\ \A k \in 1 .. Len(p) : q[k] = p[k]

LEMMA BeginsType ==
  \A p \in Seq(Seq(Byte)) : Len(p) \in Nat /\ Begins(p, p)
<1> DEFINE B == Seq(Byte)
<1>1. ASSUME NEW p \in Seq(B) PROVE Len(p) \in Nat /\ Begins(p, p)
  <2> HIDE DEF B
  <2> QED BY DEF Begins
<1> QED BY <1>1

LEMMA BeginsAppend ==
  ASSUME NEW p \in Seq(Seq(Byte)), NEW q \in Seq(Seq(Byte)), NEW c \in Seq(Byte), Begins(p, q)
  PROVE  Begins(p, Append(q, c))
<1> DEFINE B == Seq(Byte)
<1>1. p \in Seq(B) /\ q \in Seq(B) /\ c \in B
  OBVIOUS
<1> HIDE DEF B
<1> QED BY <1>1 DEF Begins

\* The packets in the first bytes are the first packets.
LEMMA PacketsInBegins ==
  ASSUME NEW x \in Seq(Byte), NEW y \in Seq(Byte)
  PROVE  Begins(PacketsIn(x), PacketsIn(x \o y))
<1> DEFINE first(n) == SubSeq(y, 1, n)
           Bad == {n \in 0 .. Len(y) : ~Begins(PacketsIn(x), PacketsIn(x \o first(n)))}
<1>1. \A n \in 0 .. Len(y) : first(n) \in Seq(Byte)
  OBVIOUS
<1>2. \A n \in 1 .. Len(y) : x \o first(n) = Append(x \o first(n - 1), y[n])
  <2> TAKE n \in 1 .. Len(y)
  <2>1. first(n) = Append(first(n - 1), y[n])
    OBVIOUS
  <2>2. n - 1 \in 0 .. Len(y) /\ y[n] \in Byte
    OBVIOUS
  <2>3. first(n - 1) \in Seq(Byte)
    BY <2>2, <1>1
  <2> HIDE DEF first
  <2>4. \A f \in Seq(Byte), c \in Byte : Append(x \o f, c) = x \o Append(f, c)
    <3>1. AppendsToTheLast(Byte)
      BY AppendConcat, Zenon
    <3> QED BY <3>1, Zenon DEF AppendsToTheLast
  <2> QED BY <2>1, <2>2, <2>3, <2>4
<1>3. first(0) = <<>> /\ x \o <<>> = x /\ first(Len(y)) = y
  OBVIOUS
<1> HIDE DEF first
<1>4. Bad = {}
  <2> SUFFICES ASSUME Bad # {} PROVE FALSE
    OBVIOUS
  <2>1. Bad \in SUBSET Nat
    OBVIOUS
  <2>2. PICK n \in Bad : \A k \in Bad : n <= k
    BY <2>1, LeastNat
  <2>3. n # 0
    <3>1. Begins(PacketsIn(x), PacketsIn(x))
      BY PacketsInType, BeginsType
    <3>2. Begins(PacketsIn(x), PacketsIn(x \o first(0)))
      BY <1>3, <3>1
    <3> QED BY <2>2, <3>2
  <2>4. n \in 1 .. Len(y) /\ n - 1 \in 0 .. Len(y) /\ n - 1 \notin Bad
    BY <2>2, <2>3
  <2>5. Begins(PacketsIn(x), PacketsIn(x \o first(n - 1)))
    BY <2>4
  <2> DEFINE b == x \o first(n - 1)
  <2>6. b \in Seq(Byte) /\ y[n] \in Byte /\ x \o first(n) = Append(b, y[n])
    <3>1. first(n - 1) \in Seq(Byte)
      BY <1>1, <2>4
    <3>2. x \o first(n) = Append(b, y[n])
      BY <1>2, <2>4, Zenon
    <3>3. y[n] \in Byte
      BY <2>4
    <3> QED BY <3>1, <3>2, <3>3
  <2> HIDE DEF b
  <2>7. PacketsIn(x) \in Seq(Seq(Byte)) /\ PacketsIn(b) \in Seq(Seq(Byte))
    BY <2>6, PacketsInType
  <2>8. Append(b, y[n]) \in Seq(Byte)
    BY <2>6
  <2>9. Found(Append(b, y[n]), Len(b) + 1) => Quad(Append(b, y[n]), Len(b) + 1) \in Seq(Byte)
    BY <2>6, <2>8 DEF Found, Quad
  <2>10. Begins(PacketsIn(x), PacketsIn(b))
    BY <2>5 DEF b
  <2>11. Begins(PacketsIn(x), PacketsIn(Append(b, y[n])))
    BY <2>6, <2>7, <2>9, <2>10, PacketsInAppend, BeginsAppend
  <2>12. Begins(PacketsIn(x), PacketsIn(x \o first(n)))
    BY <2>6, <2>11
  <2> QED BY <2>2, <2>12
<1>5. Len(y) \in 0 .. Len(y)
  OBVIOUS
<1> QED BY <1>3, <1>4, <1>5

\* What a packet is to channel 40.
IsMask(p) == ParseIoPacket(p).Channel = \o40 /\ ParseIoPacket(p).uBit
IsValue(p) == ParseIoPacket(p).Channel = \o40 /\ ~ParseIoPacket(p).uBit

LEMMA SayingIs ==
  \A packets : /\ Masks(packets) = {k \in 1 .. Len(packets) : IsMask(packets[k])}
               /\ Values(packets) = {k \in 1 .. Len(packets) : IsValue(packets[k])}
BY Zenon DEF Masks, Values, Of40, IsMask, IsValue

LEMMA MaxOfSaying ==
  ASSUME NEW n \in Nat, NEW S \in SUBSET (1 .. n), S # {}
  PROVE  Max(S) \in S /\ \A k \in S : k <= Max(S)
<1> DEFINE T == {n - k : k \in S}
<1>1. T \in SUBSET Nat /\ T # {}
  <2>1. \A k \in S : n - k \in Nat
    OBVIOUS
  <2> QED BY <2>1
<1>2. PICK t \in T : \A u \in T : t <= u
  BY <1>1, LeastNat
<1>3. PICK m \in S : t = n - m
  BY <1>2
<1>4. \A k \in S : k <= m
  <2> TAKE k \in S
  <2>1. n - k \in T
    OBVIOUS
  <2>2. t <= n - k
    BY <1>2, <2>1
  <2>3. k \in 1 .. n /\ m \in 1 .. n
    BY <1>3, Zenon
  <2> HIDE DEF T
  <2> QED BY <1>3, <2>2, <2>3
<1>5. \E x \in S : \A y \in S : x >= y
  <2>1. \A y \in S : m >= y
    <3>1. \A y \in S : y \in Int /\ m \in Int
      OBVIOUS
    <3> QED BY <1>4, <3>1
  <2> QED BY <2>1
<1>6. Max(S) \in S /\ \A y \in S : Max(S) >= y
  BY <1>5, Zenon DEF Max
<1> QED BY <1>6

LEMMA MaskIs ==
  \A packets : /\ Masks(packets) = {} => MaskOf(packets) = \o77777
               /\ Masks(packets) # {} => MaskOf(packets) = Latest(packets, Masks(packets))
BY DEF MaskOf

\* While a client has more to say, it keeps to the mask it has given.
LEMMA MaskOfBegins ==
  ASSUME NEW h \in Seq(Seq(Byte)), NEW q \in Seq(Seq(Byte)), Begins(h, q), Settled(q),
         Values(h) # {}
  PROVE  MaskOf(h) = MaskOf(q) /\ Values(q) # {} /\ \A k \in Masks(h) : k < Len(h)
<1>1. /\ Len(h) \in Nat /\ Len(q) \in Nat /\ Len(h) <= Len(q)
      /\ \A k \in 1 .. Len(h) : q[k] = h[k]
  BY BeginsType DEF Begins
<1>2. /\ Masks(h) = {k \in 1 .. Len(h) : IsMask(h[k])}
      /\ Values(h) = {k \in 1 .. Len(h) : IsValue(h[k])}
      /\ Masks(q) = {k \in 1 .. Len(q) : IsMask(q[k])}
      /\ Values(q) = {k \in 1 .. Len(q) : IsValue(q[k])}
  BY SayingIs
<1>3. PICK v \in 1 .. Len(h) : v \in Values(h) /\ v \in Values(q)
  <2>1. PICK v \in 1 .. Len(h) : IsValue(h[v])
    BY <1>2
  <2>2. v \in 1 .. Len(q) /\ IsValue(q[v])
    BY <1>1, <2>1
  <2> QED BY <2>1, <2>2, <1>2
<1>4. \A k \in Masks(q) : k < v
  BY <1>3 DEF Settled
<1>5. Masks(q) = Masks(h)
  <2>1. ASSUME NEW k \in Masks(q) PROVE k \in Masks(h)
    <3>1. k \in 1 .. Len(h) /\ IsMask(q[k])
      BY <1>1, <1>2, <1>4
    <3> QED BY <3>1, <1>1, <1>2
  <2>2. ASSUME NEW k \in Masks(h) PROVE k \in Masks(q)
    <3>1. k \in 1 .. Len(h) /\ IsMask(h[k])
      BY <1>2, Zenon
    <3>2. q[k] = h[k] /\ k \in 1 .. Len(q)
      BY <3>1, <1>1
    <3> QED BY <3>1, <3>2, <1>2
  <2> QED BY <2>1, <2>2
<1>6. \A k \in Masks(h) : k < Len(h)
  BY <1>1, <1>2, <1>4, <1>5
<1>7. MaskOf(h) = MaskOf(q)
  <2>1. CASE Masks(h) = {}
    BY <1>5, <2>1, MaskIs
  <2>2. CASE Masks(h) # {}
    <3>1. Max(Masks(h)) \in 1 .. Len(h)
      <4>1. Masks(h) \in SUBSET (1 .. Len(h))
        BY <1>2
      <4> QED BY <4>1, <1>1, <2>2, MaxOfSaying
    <3>2. Latest(h, Masks(h)) = Latest(q, Masks(h))
      BY <3>1, <1>1 DEF Latest
    <3> QED BY <3>2, <1>5, <2>2, MaskIs
  <2> QED BY <2>1, <2>2
<1> QED BY <1>3, <1>6, <1>7

\* The sets of places of one packet more, whatever is said of the packets.
LEMMA LatestAppend ==
  ASSUME NEW h \in Seq(Seq(Byte)), NEW p \in Seq(Byte)
  PROVE  LET all == Append(h, p)
         IN  /\ IsMask(p) => /\ Len(h) + 1 \in Masks(all)
                             /\ Latest(all, Masks(all)) = ParseIoPacket(p).Value
             /\ ~IsMask(p) => /\ Masks(all) = Masks(h)
                              /\ Masks(h) # {} => Latest(all, Masks(h)) = Latest(h, Masks(h))
             /\ IsValue(p) => /\ Values(all) # {}
                              /\ Latest(all, Values(all)) = ParseIoPacket(p).Value
             /\ ~IsValue(p) => /\ Values(all) = Values(h)
                               /\ Values(h) # {} => Latest(all, Values(h)) = Latest(h, Values(h))
<1> DEFINE all == Append(h, p)
           n == Len(h)
<1>1. /\ n \in Nat /\ Len(all) = n + 1 /\ all[n + 1] = p /\ \A k \in 1 .. n : all[k] = h[k]
  <2> DEFINE B == Seq(Byte)
  <2>1. h \in Seq(B) /\ p \in B
    OBVIOUS
  <2> HIDE DEF B
  <2> QED BY <2>1
<1> HIDE DEF all, n
<1>2. /\ Masks(all) = {k \in 1 .. n + 1 : IsMask(all[k])}
      /\ Values(all) = {k \in 1 .. n + 1 : IsValue(all[k])}
      /\ Masks(h) = {k \in 1 .. n : IsMask(h[k])}
      /\ Values(h) = {k \in 1 .. n : IsValue(h[k])}
  BY <1>1, SayingIs DEF n
<1>3. ASSUME NEW S \in SUBSET (1 .. n + 1), n + 1 \in S
      PROVE  Latest(all, S) = ParseIoPacket(p).Value
  <2>1. n + 1 \in Nat
    BY <1>1
  <2>2. Max(S) \in S /\ n + 1 <= Max(S)
    BY <1>3, <2>1, MaxOfSaying
  <2>3. Max(S) \in 1 .. n + 1
    BY <2>2
  <2>4. \A k \in 1 .. n + 1 : n + 1 <= k => k = n + 1
    BY <1>1
  <2>5. Max(S) = n + 1
    BY <2>2, <2>3, <2>4
  <2> QED BY <1>1, <2>5 DEF Latest
<1>4. ASSUME NEW S \in SUBSET (1 .. n), S # {}
      PROVE  Latest(all, S) = Latest(h, S)
  <2>1. Max(S) \in 1 .. n
    BY <1>1, <1>4, MaxOfSaying
  <2> QED BY <2>1, <1>1 DEF Latest
<1>5. n + 1 \in 1 .. n + 1 /\ \A k \in 1 .. n : k \in 1 .. n + 1 /\ k # n + 1
  BY <1>1
<1>6. \A k \in 1 .. n + 1 : k \in 1 .. n \/ k = n + 1
  BY <1>1
<1>7. /\ IsMask(p) => n + 1 \in Masks(all)
      /\ ~IsMask(p) => Masks(all) = Masks(h)
  BY <1>1, <1>2, <1>5, <1>6
<1>8. /\ IsValue(p) => n + 1 \in Values(all)
      /\ ~IsValue(p) => Values(all) = Values(h)
  BY <1>1, <1>2, <1>5, <1>6
<1>9. /\ Masks(all) \in SUBSET (1 .. n + 1) /\ Values(all) \in SUBSET (1 .. n + 1)
      /\ Masks(h) \in SUBSET (1 .. n) /\ Values(h) \in SUBSET (1 .. n)
  BY <1>2
<1>10. /\ IsMask(p) => n + 1 \in Masks(all) /\ Latest(all, Masks(all)) = ParseIoPacket(p).Value
       /\ ~IsMask(p) => /\ Masks(all) = Masks(h)
                        /\ Masks(h) # {} => Latest(all, Masks(h)) = Latest(h, Masks(h))
  BY <1>3, <1>4, <1>7, <1>9
<1>11. /\ IsValue(p) => Values(all) # {} /\ Latest(all, Values(all)) = ParseIoPacket(p).Value
       /\ ~IsValue(p) => /\ Values(all) = Values(h)
                         /\ Values(h) # {} => Latest(all, Values(h)) = Latest(h, Values(h))
  BY <1>3, <1>4, <1>8, <1>9
<1> QED BY <1>10, <1>11 DEF all, n

LEMMA MaskOfAppend ==
  ASSUME NEW h \in Seq(Seq(Byte)), NEW p \in Seq(Byte)
  PROVE  MaskOf(Append(h, p)) = IF IsMask(p) THEN ParseIoPacket(p).Value ELSE MaskOf(h)
<1> DEFINE all == Append(h, p)
<1>1. /\ IsMask(p) => /\ Len(h) + 1 \in Masks(all)
                      /\ Latest(all, Masks(all)) = ParseIoPacket(p).Value
      /\ ~IsMask(p) => /\ Masks(all) = Masks(h)
                       /\ Masks(h) # {} => Latest(all, Masks(h)) = Latest(h, Masks(h))
  BY LatestAppend
<1> HIDE DEF all
<1>2. CASE IsMask(p)
  <2>1. Masks(all) # {} /\ Latest(all, Masks(all)) = ParseIoPacket(p).Value
    BY <1>1, <1>2
  <2> QED BY <1>2, <2>1, MaskIs DEF all
<1>3. CASE ~IsMask(p)
  BY <1>1, <1>3, MaskIs DEF all
<1> QED BY <1>2, <1>3

-----------------------------------------------------------------------------
(* Each client's own bits of channel 40.                                   *)

\* The invariant.  While somebody may send: what has come of a connection are
\* the first bytes of one that the client has in store, of the present one as
\* long as it is open; the engine keeps the mask that the client gave; and the
\* bits are as the theorem says.
Coming(i, n, m) ==
  /\ received[i] \o inbox[i] = SubSeq(sends[i + 1][n], 1, m)
  /\ peer[i] = "open" => n = connection[i] /\ m = arrived[i]
Follows ==
  \A i \in Ports :
    /\ knocks[i] => arrived[i] = 0 /\ peer[i] # "open"
    /\ IsConnected(i) => \E n \in 1 .. Len(sends[i + 1]) :
                           \E m \in 0 .. Len(sends[i + 1][n]) : Coming(i, n, m)
MasksAreGiven ==
  \A i \in Ports : IsConnected(i) => Clients[i].ChannelMasks[\o40] = MaskOf(handed[i])
HasCell(s) == "InputChannel" \in DOMAIN s /\ \o40 \in DOMAIN s.InputChannel
Cell(s) == s.InputChannel[\o40]
Keeps(h, w) == Values(h) # {} => Merged(MaskOf(h), w, 0) = Merged(MaskOf(h), LastValue(h), 0)
OwnersKeep == \A i \in Ports : IsConnected(i) => Keeps(handed[i], Cell(State))
Tells == \E story \in Stories : sends = story.sends
FullIsPolled ==
  \A i \in Ports : Len(Clients[i].Packet) = 4 => IsConnected(i) /\ engine = "poll" /\ polled = i
CellIsNumber == HasCell(State) /\ Cell(State) \in Int
Owned == Tells /\ Follows /\ MasksAreGiven /\ CellIsNumber /\ OwnersKeep
OwnInv == IF listens THEN \A i \in Ports : handed[i] = <<>> ELSE Owned

\* What the engine does to the cell of channel 40.
LEMMA WriteCell ==
  ASSUME NEW s, HasCell(s), NEW ch, NEW v
  PROVE  /\ HasCell(WriteIO(s, ch, v))
         /\ Cell(WriteIO(s, ch, v)) = IF ch = \o40 THEN v ELSE Cell(s)
<1> DEFINE into == [s.InputChannel EXCEPT ![ch] = IF ch = \o33 THEN Merged(\o1777, v, @) ELSE v]
           rows == [s.OutputChannel10 EXCEPT ![v \div 2048] = IF ch = \o10 THEN v ELSE @]
           light == IF ch \in {\o15, \o16} /\ v = \o22 THEN FALSE ELSE s.RestartLight
<1>1. \o40 \in DOMAIN into /\ into[\o40] = IF ch = \o40 THEN v ELSE s.InputChannel[\o40]
  <2> DEFINE old == s.InputChannel
             new == IF ch = \o33 THEN Merged(\o1777, v, old[ch]) ELSE v
  <2>1. into = [old EXCEPT ![ch] = new]
    BY Zenon
  <2>2. ch = \o40 => new = v
    OBVIOUS
  <2> HIDE DEF new, into
  <2> QED BY <2>1, <2>2 DEF HasCell
<1> DEFINE t == [s EXCEPT !.InputChannel = into, !.OutputChannel10 = rows, !.RestartLight = light]
<1>2. WriteIO(s, ch, v) = t
  BY DEF WriteIO
<1>3. HasCell(t) /\ Cell(t) = into[\o40]
  <2> HIDE DEF into, rows, light
  <2> QED BY <1>1 DEF HasCell, Cell
<1> HIDE DEF t, into
<1> QED BY <1>1, <1>2, <1>3 DEF Cell

LEMMA RestartCell ==
  ASSUME NEW s, HasCell(s)
  PROVE  /\ \A on : LET t == [s EXCEPT !.AgcWarning = on] IN HasCell(t) /\ Cell(t) = Cell(s)
         /\ HasCell(WarningShown(s)) /\ Cell(WarningShown(s)) = Cell(s)
         /\ \A standby : /\ HasCell(Restarted(s, standby))
                         /\ Cell(Restarted(s, standby)) = Cell(s)
<1>1. \A on : LET t == [s EXCEPT !.AgcWarning = on] IN HasCell(t) /\ Cell(t) = Cell(s)
  BY DEF HasCell, Cell
<1>2. HasCell(WarningShown(s)) /\ Cell(WarningShown(s)) = Cell(s)
  BY DEF HasCell, Cell, WarningShown
<1>3. ASSUME NEW standby
      PROVE  HasCell(Restarted(s, standby)) /\ Cell(Restarted(s, standby)) = Cell(s)
  BY DEF HasCell, Cell, Restarted
<1> QED BY <1>1, <1>2, <1>3

LEMMA OutputCell ==
  ASSUME NEW s, HasCell(s), NEW ch, NEW v
  PROVE  HasCell(ChannelOutput(s, ch, v)) /\ Cell(ChannelOutput(s, ch, v)) = Cell(s)
<1>1. CASE ch = 7
  <2> DEFINE m == Merged(\o160, v, 0)
             t == [s EXCEPT !.InputChannel[7] = m]
  <2>1. ChannelOutput(s, ch, v) = t
    BY <1>1 DEF ChannelOutput
  <2> HIDE DEF m
  <2>2. HasCell(t) /\ Cell(t) = Cell(s)
    BY DEF HasCell, Cell
  <2> QED BY <2>1, <2>2
<1>2. CASE ch # 7
  <2> DEFINE asked == ch = \o13 /\ Bit(v, \o200) = 1 /\ Bit(v, \o400) = 1 /\ ~CmOrLm
             counter == [n \in Counters |-> IF asked /\ \E axis \in Rhc : n = RhcCounter(axis)
                                            THEN s.LastRhc[n - \o42 + \o166] ELSE s.Counter[n]]
             said == Append(s.sent, <<ch, v>>)
             t == [s EXCEPT !.Counter = counter, !.sent = said]
  <2>1. ChannelOutput(s, ch, v) = t
    BY <1>2 DEF ChannelOutput
  <2> HIDE DEF counter, said
  <2>2. HasCell(t) /\ Cell(t) = Cell(s)
    BY DEF HasCell, Cell
  <2> QED BY <2>1, <2>2
<1> QED BY <1>1, <1>2

LEMMA ValueCell ==
  ASSUME NEW s, HasCell(s), NEW mask, NEW ch, NEW v
  PROVE  /\ HasCell(ChannelWrite(s, mask, ch, v))
         /\ Cell(ChannelWrite(s, mask, ch, v)) = IF ch = \o40 THEN Merged(mask, v, Cell(s)) ELSE Cell(s)
<1> DEFINE w == Merged(mask, v, s.InputChannel[ch])
           t == WriteIO(s, ch, w)
<1>1. HasCell(t) /\ Cell(t) = IF ch = \o40 THEN w ELSE Cell(s)
  BY WriteCell
<1>2. ch = \o40 => w = Merged(mask, v, Cell(s))
  BY DEF Cell
<1> HIDE DEF w, t
<1> DEFINE a == [t EXCEPT !.InterruptRequests = @ \cup {Keyrupt}]
           b == [t EXCEPT !.Counter[INLINK] = w, !.InterruptRequests = @ \cup {Uprupt}]
           c == [t EXCEPT !.LastRhc[ch] = w]
<1>3. HasCell(a) /\ Cell(a) = Cell(t)
  BY <1>1 DEF HasCell, Cell
<1>4. HasCell(b) /\ Cell(b) = Cell(t)
  BY <1>1 DEF HasCell, Cell
<1>5. HasCell(c) /\ Cell(c) = Cell(t)
  BY <1>1 DEF HasCell, Cell
<1>6. HasCell(ChannelOutput(c, ch, w)) /\ Cell(ChannelOutput(c, ch, w)) = Cell(c)
  BY <1>5, OutputCell
<1>7. ChannelWrite(s, mask, ch, v) \in {a, b, ChannelOutput(c, ch, w), t}
  BY DEF ChannelWrite, t, w
<1> HIDE DEF a, b, c
<1>8. HasCell(ChannelWrite(s, mask, ch, v)) /\ Cell(ChannelWrite(s, mask, ch, v)) = Cell(t)
  BY <1>1, <1>3, <1>4, <1>5, <1>6, <1>7
<1> QED BY <1>1, <1>2, <1>8

LEMMA CountCell ==
  ASSUME NEW s, HasCell(s), NEW n, NEW type
  PROVE  /\ HasCell(UnprogrammedIncrement(s, n, type))
         /\ Cell(UnprogrammedIncrement(s, n, type)) = Cell(s)
<1> DEFINE Counted(x) == [s EXCEPT !.Counter[n] = x]
           pushed == [s EXCEPT !.pushed = Append(@, <<n, type>>)]
           k == s.Counter[n]
           out == ChannelOutput(s, 128 + n, DincOutput(k))
           dinc == [out EXCEPT !.Counter[n] = CounterDINC(@)]
<1>1. \A x : HasCell(Counted(x)) /\ Cell(Counted(x)) = Cell(s)
  BY DEF HasCell, Cell
<1>2. HasCell(pushed) /\ Cell(pushed) = Cell(s)
  BY DEF HasCell, Cell
<1>3. HasCell(out) /\ Cell(out) = Cell(s)
  BY OutputCell
<1>4. HasCell(dinc) /\ Cell(dinc) = Cell(s)
  <2> HIDE DEF out
  <2> QED BY <1>3 DEF HasCell, Cell
<1>5. UnprogrammedIncrement(s, n, type) \in
        {pushed, dinc, s, Counted(CounterPINC(k)), Counted(CounterPCDU(k)), Counted(CounterMINC(k)),
         Counted(CounterMCDU(k)), Counted(CounterSHINC(k)), Counted(CounterSHANC(k))}
  BY DEF UnprogrammedIncrement
<1> HIDE DEF Counted, pushed, dinc
<1> QED BY <1>1, <1>2, <1>4, <1>5

\* A broadcast changes nothing of the machine but what it had to send.
LEMMA BecomesCell ==
  ASSUME NEW s, HasCell(s), NEW clients, Becomes(s, clients)
  PROVE  HasCell(State') /\ Cell(State') = Cell(s)
BY DEF Becomes, HasCell, Cell

-----------------------------------------------------------------------------
(* A whole packet is the next to be handled.                               *)

LEMMA FullInit == MCInit => FullIsPolled
<1> SUFFICES ASSUME MCInit PROVE FullIsPolled
  OBVIOUS
<1>1. \A i \in Ports : Len(Clients[i].Packet) # 4
  <2>1. \A i \in Ports : Clients[i].Packet = <<>>
    BY DEF MCInit, Init, NoClient
  <2>2. Len(<<>>) # 4
    OBVIOUS
  <2> QED BY <2>1, <2>2, Zenon
<1> QED BY <1>1, Zenon DEF FullIsPolled

\* A broadcast keeps the bytes of a packet, also of a client that it removes.
LEMMA BecomesPackets ==
  ASSUME NEW s, NEW clients \in [Ports -> ClientRecords], Becomes(s, clients)
  PROVE  \A i \in Ports : Clients'[i].Packet = clients[i].Packet
<1>1. CASE s.sent = <<>>
  BY <1>1 DEF Becomes
<1>2. CASE s.sent # <<>>
  <2>1. PICK gone : Clients' = [i \in Ports |-> IF i \in gone THEN Removed(clients[i]) ELSE clients[i]]
    BY <1>2 DEF Becomes, SendTo
  <2>2. \A i \in Ports : Removed(clients[i]).Packet = clients[i].Packet
    BY DEF Removed, ClientRecords
  <2> QED BY <2>1, <2>2
<1> QED BY <1>1, <1>2

LEMMA FullStep == FullIsPolled /\ ListenInv /\ [MCNext]_mcVars => FullIsPolled'
<1> SUFFICES ASSUME FullIsPolled, ListenInv, [MCNext]_mcVars PROVE FullIsPolled'
  OBVIOUS
<1>1. ServerType /\ Clients \in [Ports -> ClientRecords] /\ polled \in Ports
  BY DEF ListenInv, ServerType
<1>2. ASSUME \A i \in Ports : Len(Clients'[i].Packet) # 4 PROVE FullIsPolled'
  BY <1>2 DEF FullIsPolled
<1>3. CASE ChannelRoutine
  <2>1. \A i \in Ports : Len(Clients[i].Packet) # 4
    BY <1>3 DEF ChannelRoutine, FullIsPolled
  <2>2. CASE ChannelRoutineCount # 0
    BY <1>2, <1>3, <2>1, <2>2 DEF ChannelRoutine
  <2>3. CASE ChannelRoutineCount = 0
    <3> DEFINE clients == [i \in Ports |-> IF i \in Accepted THEN Welcomed(i) ELSE Clients[i]]
    <3>1. PICK gone : Clients' = [i \in Ports |-> IF i \in gone THEN Removed(clients[i]) ELSE clients[i]]
      BY <1>3, <2>3 DEF ChannelRoutine
    <3>2. \A i \in Ports : clients[i] \in ClientRecords /\ Len(clients[i].Packet) # 4
      <4>1. NewClient \in ClientRecords /\ Len(NewClient.Packet) # 4
        BY NewClientType DEF NewClient
      <4> QED BY <4>1, <2>1, <1>1 DEF Welcomed
    <3> HIDE DEF clients
    <3>3. \A i \in Ports : Removed(clients[i]).Packet = clients[i].Packet
      BY <3>2 DEF Removed, ClientRecords
    <3>4. \A i \in Ports : Len(Clients'[i].Packet) # 4
      BY <3>1, <3>2, <3>3
    <3> QED BY <3>4, <1>2
  <2> QED BY <2>2, <2>3
<1>4. CASE UpdateDSKY \/ \E outputs : Program(outputs)
  <2>1. \A i \in Ports : Len(Clients[i].Packet) # 4
    BY <1>4 DEF UpdateDSKY, Program, FullIsPolled
  <2>2. \E s : Becomes(s, Clients)
    BY <1>4 DEF UpdateDSKY, Program
  <2>3. \A i \in Ports : Clients'[i].Packet = Clients[i].Packet
    BY <2>2, <1>1, BecomesPackets
  <2> QED BY <2>1, <2>3, <1>2
<1>5. CASE PassOver
  <2>1. \A i \in Ports : Len(Clients[i].Packet) # 4
    BY <1>1, <1>5 DEF PassOver, FullIsPolled
  <2> QED BY <2>1, <1>2, <1>5 DEF PassOver
<1>6. CASE ReceiveByte
  <2>1. /\ Clients' = [Clients EXCEPT ![polled].Packet = After(@, Head(inbox[polled]))]
        /\ engine = "poll" /\ engine' = engine /\ polled' = polled /\ IsConnected(polled)
    BY <1>6 DEF ReceiveByte, InPoll
  <2>2. \A i \in Ports : i # polled => Clients'[i] = Clients[i]
    BY <2>1, <1>1
  <2>3. Clients'[polled].Socket
    <3>1. Clients[polled] \in ClientRecords
      BY <1>1
    <3> DEFINE packet == After(Clients[polled].Packet, Head(inbox[polled]))
    <3>2. Clients'[polled] = [Clients[polled] EXCEPT !.Packet = packet]
      BY <2>1, <1>1
    <3> HIDE DEF packet
    <3> QED BY <2>1, <3>1, <3>2 DEF IsConnected, ClientRecords
  <2> QED BY <2>1, <2>2, <2>3 DEF FullIsPolled, IsConnected
<1>7. CASE ReceiveMask \/ ReceiveCount \/ ReceiveValue
  <2>1. \A i \in Ports : i # polled => Len(Clients[i].Packet) # 4
    BY DEF FullIsPolled
  <2>2. /\ Emptied(polled) \in [Ports -> ClientRecords]
        /\ \A i \in Ports : Len(Emptied(polled)[i].Packet) # 4
    BY <1>1, <2>1, EmptiedType
  <2>3. CASE ReceiveMask
    <3>1. /\ Clients' = [Emptied(polled) EXCEPT ![polled].ChannelMasks[Parsed.Channel] = Parsed.Value]
          /\ Emptied(polled)[polled] \in ClientRecords
      BY <2>2, <2>3, <1>1 DEF ReceiveMask
    <3>2. \A i \in Ports : Clients'[i].Packet = Emptied(polled)[i].Packet
      BY <3>1, <2>2 DEF ClientRecords
    <3> QED BY <3>2, <2>2, <1>2
  <2>4. CASE ReceiveCount \/ ReceiveValue
    <3>1. \E s : Becomes(s, Emptied(polled))
      BY <2>4 DEF ReceiveCount, ReceiveValue
    <3>2. \A i \in Ports : Clients'[i].Packet = Emptied(polled)[i].Packet
      BY <3>1, <2>2, BecomesPackets
    <3> QED BY <3>2, <2>2, <1>2
  <2> QED BY <1>7, <2>3, <2>4
<1>8. ASSUME UNCHANGED <<Clients, engine, polled>> PROVE FullIsPolled'
  BY <1>8 DEF FullIsPolled, IsConnected
<1>9. CASE Engine
  <2> QED BY <1>9, <1>3, <1>4, <1>5, <1>6, <1>7 DEF Engine
<1>10. ASSUME NEW i \in Ports, Connects(i) \/ Bytes(i) \/ Leaves(i) PROVE FullIsPolled'
  BY <1>8, <1>10 DEF Connects, Bytes, Leaves, Knock, Arrive, HangUp, engineVars
<1>11. CASE UNCHANGED mcVars
  BY <1>8, <1>11 DEF mcVars, serverVars, engineVars
<1> QED BY <1>9, <1>10, <1>11 DEF MCNext

-----------------------------------------------------------------------------
(* What a client has in store, and whose bits are whose.                   *)

\* The packets h are the first of one of the connections of client i.
InStore(h, i) ==
  \E n \in 1 .. Len(sends[i + 1]) : Begins(h, PacketsIn(sends[i + 1][n]))

LEMMA EntryIn ==
  ASSUME NEW ss \in Seq(Seq(Byte)), NEW k \in 1 .. Len(ss)
  PROVE  ss[k] \in Seq(Byte)
<1> DEFINE B == Seq(Byte)
<1>1. ss \in Seq(B)
  OBVIOUS
<1> HIDE DEF B
<1>2. ss[k] \in B
  BY <1>1
<1> QED BY <1>2 DEF B

LEMMA BeginsLess ==
  ASSUME NEW h \in Seq(Seq(Byte)), NEW p \in Seq(Byte), NEW q, Begins(Append(h, p), q)
  PROVE  Begins(h, q)
<1> DEFINE B == Seq(Byte)
<1>1. h \in Seq(B) /\ p \in B
  OBVIOUS
<1> HIDE DEF B
<1>2. /\ Len(h) \in Nat /\ Len(Append(h, p)) = Len(h) + 1
      /\ \A k \in 1 .. Len(h) : Append(h, p)[k] = h[k] /\ k \in 1 .. Len(h) + 1
  BY <1>1
<1>3. \A k \in 1 .. Len(h) : q[k] = h[k]
  BY <1>2 DEF Begins
<1>4. Len(h) + 1 <= Len(q)
  BY <1>2 DEF Begins
<1> QED BY <1>2, <1>3, <1>4 DEF Begins

\* What has been handled, and a packet that is whole, were in store.
LEMMA Foreseen ==
  ASSUME ListenInv, Follows, NEW i \in Ports, IsConnected(i)
  PROVE  /\ InStore(handed[i], i)
         /\ Len(Clients[i].Packet) = 4 => InStore(Append(handed[i], Clients[i].Packet), i)
<1> DEFINE x == received[i]
           p == Clients[i].Packet
           h == handed[i]
<1>1. /\ x \in Seq(Byte) /\ inbox[i] \in Seq(Byte) /\ p \in Seq(Byte) /\ h \in Seq(Seq(Byte))
      /\ sends[i + 1] \in Seq(Seq(Byte)) /\ Handled(x, p, h)
  BY PortsAre DEF ListenInv, StoryType, ServerType, EachIsListened, Listened, ClientRecords
<1>2. PICK n \in 1 .. Len(sends[i + 1]) : \E m \in 0 .. Len(sends[i + 1][n]) :
             x \o inbox[i] = SubSeq(sends[i + 1][n], 1, m)
  BY DEF Follows, Coming
<1> DEFINE s == sends[i + 1][n]
<1>3. s \in Seq(Byte)
  BY <1>1, EntryIn
<1>4. PICK m \in 0 .. Len(s) : x \o inbox[i] = SubSeq(s, 1, m)
  BY <1>2
<1> HIDE DEF s
<1> DEFINE rest == SubSeq(s, m + 1, Len(s))
           y == inbox[i] \o rest
<1>5. rest \in Seq(Byte) /\ y \in Seq(Byte) /\ s = x \o y
  <2>1. rest \in Seq(Byte) /\ SubSeq(s, 1, m) \in Seq(Byte)
    BY <1>3, <1>4
  <2>2. s = SubSeq(s, 1, m) \o rest
    <3> DEFINE B == Byte
    <3>1. s \in Seq(B)
      BY <1>3
    <3> HIDE DEF B
    <3>2. m \in 0 .. Len(s)
      BY <1>4
    <3>3. /\ 1 \in 1 .. Len(s) + 1 /\ m \in 1 - 1 .. Len(s)
          /\ Len(s) \in m .. Len(s)
      BY <3>1, <3>2
    <3>4. SubSeq(s, 1, m) \o rest = SubSeq(s, 1, Len(s))
      BY <3>1, <3>3, ConcatAdjacentSubSeq
    <3>5. SubSeq(s, 1, Len(s)) = s
      BY <3>1, SubSeqFull
    <3> QED BY <3>4, <3>5
  <2> HIDE DEF rest
  <2>3. Threefold(x, inbox[i], rest)
    BY <2>1, <1>1, ConcatThree
  <2>4. inbox[i] \o rest \in Seq(Byte)
    <3> DEFINE B == Byte
    <3>1. inbox[i] \in Seq(B) /\ rest \in Seq(B)
      BY <2>1, <1>1
    <3> HIDE DEF B
    <3>2. inbox[i] \o rest \in Seq(B)
      BY <3>1
    <3> QED BY <3>2 DEF B
  <2>5. s = x \o y
    BY <2>2, <2>3, <1>4, Zenon DEF Threefold
  <2> QED BY <2>1, <2>4, <2>5
<1> HIDE DEF y
<1>6. Begins(PacketsIn(x), PacketsIn(s))
  BY <1>1, <1>5, PacketsInBegins
<1>7. CASE Len(p) = 4
  <2>1. PacketsIn(x) = Append(h, p)
    BY <1>1, <1>7 DEF Handled
  <2> HIDE DEF p, h, x
  <2>2. Begins(h, PacketsIn(s)) /\ Begins(Append(h, p), PacketsIn(s))
    BY <1>1, <1>6, <2>1, BeginsLess
  <2> USE DEF s
  <2>3. InStore(h, i) /\ InStore(Append(h, p), i)
    BY <2>2, Zenon DEF InStore
  <2> QED BY <2>3 DEF h, p
<1>8. CASE Len(p) # 4
  <2>1. Begins(h, PacketsIn(s))
    BY <1>1, <1>6, <1>8 DEF Handled
  <2> QED BY <2>1, <1>8, Zenon DEF InStore, s
<1> QED BY <1>7, <1>8

\* The packets that are in store keep to the clients' agreement.
LEMMA StoreIsSettled ==
  ASSUME Tells, NEW i \in Ports, NEW h \in Seq(Seq(Byte)), InStore(h, i), Values(h) # {}
  PROVE  \A k \in Masks(h) : k < Len(h)
<1>1. PICK story \in Stories : sends = story.sends
  BY DEF Tells
<1>2. PICK n \in 1 .. Len(sends[i + 1]) : Begins(h, PacketsIn(sends[i + 1][n]))
  BY DEF InStore
<1>3. i + 1 \in 1 .. MAX_CLIENTS
  BY PortsAre
<1>4. Settled(PacketsIn(sends[i + 1][n]))
  BY <1>1, <1>2, <1>3, OwnershipAssumption
<1>5. PacketsIn(sends[i + 1][n]) \in Seq(Seq(Byte))
  <2>1. sends[i + 1] \in Seq(Seq(Byte))
    BY <1>1, <1>3, StoryAssumption
  <2>2. sends[i + 1][n] \in Seq(Byte)
    BY <1>2, <2>1, EntryIn
  <2> QED BY <2>2, PacketsInType
<1> QED BY <1>2, <1>4, <1>5, MaskOfBegins

LEMMA StoresAreApart ==
  ASSUME Tells, NEW i \in Ports, NEW j \in Ports, i # j,
         NEW g \in Seq(Seq(Byte)), InStore(g, i), Values(g) # {},
         NEW h \in Seq(Seq(Byte)), InStore(h, j), Values(h) # {}
  PROVE  Merged(MaskOf(g), MaskOf(h), 0) = 0
<1>1. PICK story \in Stories : sends = story.sends
  BY DEF Tells
<1>2. PICK n \in 1 .. Len(sends[i + 1]) : Begins(g, PacketsIn(sends[i + 1][n]))
  BY DEF InStore
<1>3. PICK m \in 1 .. Len(sends[j + 1]) : Begins(h, PacketsIn(sends[j + 1][m]))
  BY DEF InStore
<1> DEFINE a == PacketsIn(sends[i + 1][n])
           b == PacketsIn(sends[j + 1][m])
<1>4. i + 1 \in 1 .. MAX_CLIENTS /\ j + 1 \in (1 .. MAX_CLIENTS) \ {i + 1}
  BY PortsAre DEF Ports
<1>5. a \in Seq(Seq(Byte)) /\ b \in Seq(Seq(Byte))
  <2>1. sends[i + 1] \in Seq(Seq(Byte)) /\ sends[j + 1] \in Seq(Seq(Byte))
    BY <1>1, <1>4, StoryAssumption
  <2>2. sends[i + 1][n] \in Seq(Byte) /\ sends[j + 1][m] \in Seq(Byte)
    BY <1>2, <1>3, <2>1, EntryIn
  <2> QED BY <2>2, PacketsInType
<1>6. Settled(a)
  BY <1>1, <1>2, <1>4, OwnershipAssumption
<1>7. Settled(b)
  BY <1>1, <1>3, <1>4, OwnershipAssumption
<1>8. Apart(a, b)
  BY <1>1, <1>2, <1>3, <1>4, OwnershipAssumption
<1> HIDE DEF a, b
<1>9. MaskOf(g) = MaskOf(a) /\ Values(a) # {} /\ MaskOf(h) = MaskOf(b) /\ Values(b) # {}
  BY <1>2, <1>3, <1>5, <1>6, <1>7, MaskOfBegins DEF a, b
<1> QED BY <1>8, <1>9 DEF Apart

-----------------------------------------------------------------------------
(* The steps while somebody may send.                                      *)

\* A step in which nothing comes and nobody opens or closes.
LEMMA FollowsKept ==
  ASSUME Follows, UNCHANGED <<sends, connection, arrived>>,
         \A i \in Ports : /\ knocks'[i] => knocks[i]
                          /\ peer'[i] = "open" => peer[i] = "open"
                          /\ IsConnected(i)' =>
                               /\ IsConnected(i)
                               /\ received'[i] \o inbox'[i] = received[i] \o inbox[i]
  PROVE  Follows'
<1> SUFFICES ASSUME NEW i \in Ports
             PROVE  /\ knocks'[i] => arrived'[i] = 0 /\ peer'[i] # "open"
                    /\ IsConnected(i)' => \E n \in 1 .. Len(sends'[i + 1]) :
                         \E m \in 0 .. Len(sends'[i + 1][n]) : Coming(i, n, m)'
  BY DEF Follows
<1>1. knocks'[i] => arrived'[i] = 0 /\ peer'[i] # "open"
  BY DEF Follows
<1>2. ASSUME IsConnected(i)'
      PROVE  \E n \in 1 .. Len(sends'[i + 1]) :
                \E m \in 0 .. Len(sends'[i + 1][n]) : Coming(i, n, m)'
  <2>1. PICK n \in 1 .. Len(sends[i + 1]) : \E m \in 0 .. Len(sends[i + 1][n]) : Coming(i, n, m)
    BY <1>2 DEF Follows
  <2>2. PICK m \in 0 .. Len(sends[i + 1][n]) : Coming(i, n, m)
    BY <2>1
  <2>3. Coming(i, n, m)'
    BY <1>2, <2>2 DEF Coming
  <2> QED BY <2>1, <2>2, <2>3
<1> QED BY <1>1, <1>2

\* The client writes no packet, and the engine nothing to channel 40.
LEMMA OwnedSteady ==
  ASSUME Owned, UNCHANGED <<sends, connection, arrived>>,
         HasCell(State'), Cell(State') = Cell(State),
         \A i \in Ports : /\ knocks'[i] => knocks[i]
                          /\ peer'[i] = "open" => peer[i] = "open"
                          /\ IsConnected(i)' =>
                               /\ IsConnected(i)
                               /\ received'[i] \o inbox'[i] = received[i] \o inbox[i]
                               /\ Clients'[i].ChannelMasks[\o40] = Clients[i].ChannelMasks[\o40]
                               /\ handed'[i] = handed[i]
  PROVE  Owned'
<1>1. Tells /\ Follows /\ MasksAreGiven /\ CellIsNumber /\ OwnersKeep
  BY DEF Owned
<1>2. Follows'
  BY <1>1, FollowsKept
<1>3. Tells' /\ CellIsNumber'
  BY <1>1 DEF Tells, CellIsNumber, HasCell, Cell
<1>4. MasksAreGiven'
  <2> SUFFICES ASSUME NEW i \in Ports, IsConnected(i)'
               PROVE  Clients'[i].ChannelMasks[\o40] = MaskOf(handed'[i])
    BY DEF MasksAreGiven
  <2>1. Clients[i].ChannelMasks[\o40] = MaskOf(handed[i])
    BY <1>1 DEF MasksAreGiven
  <2> QED BY <2>1
<1>5. OwnersKeep'
  <2> SUFFICES ASSUME NEW i \in Ports, IsConnected(i)'
               PROVE  Keeps(handed'[i], Cell(State'))
    BY DEF OwnersKeep, Cell
  <2>1. Keeps(handed[i], Cell(State))
    BY <1>1 DEF OwnersKeep
  <2> QED BY <2>1
<1> QED BY <1>2, <1>3, <1>4, <1>5 DEF Owned

\* What the engine sends of its own accord.
LEMMA OwnedBroadcast ==
  ASSUME Owned, ServerType, NEW s, HasCell(s), Cell(s) = Cell(State), Becomes(s, Clients),
         UNCHANGED <<sends, connection, arrived, received, handed>>
  PROVE  Owned'
<1>1. Clients \in [Ports -> ClientRecords]
  BY DEF ServerType
<1>2. /\ knocks' = knocks
      /\ \A i \in Ports : /\ peer'[i] = "open" => peer[i] = "open"
                          /\ \/ Clients'[i] = Clients[i] /\ inbox'[i] = inbox[i]
                             \/ ~Clients'[i].Socket
  BY <1>1, BecomesEffect
<1>3. HasCell(State') /\ Cell(State') = Cell(State)
  BY BecomesCell
<1> QED BY <1>2, <1>3, OwnedSteady DEF IsConnected

\* New and missing clients.
LEMMA NothingSaid ==
  /\ MaskOf(<<>>) = \o77777 /\ \A w : Keeps(<<>>, w)
<1>1. Masks(<<>>) = {} /\ Values(<<>>) = {}
  BY SayingIs
<1> QED BY <1>1, MaskIs DEF Keeps

LEMMA OwnedRoutine ==
  ASSUME Owned, ListenInv, ChannelRoutine, UNCHANGED <<sends, connection, arrived>>,
         received' = [i \in Ports |-> IF IsConnected(i) THEN received[i] ELSE <<>>],
         handed' = [i \in Ports |-> IF IsConnected(i) THEN handed[i] ELSE <<>>]
  PROVE  Owned'
<1>1. /\ Tells /\ Follows /\ MasksAreGiven /\ CellIsNumber /\ OwnersKeep
      /\ State' = State /\ StoryType /\ ServerType
  BY DEF Owned, ListenInv, ChannelRoutine
<1>2. \A i \in Ports : IsConnected(i) => received'[i] = received[i] /\ handed'[i] = handed[i]
  OBVIOUS
<1>3. \A i \in Ports : ~IsConnected(i) => received'[i] = <<>> /\ handed'[i] = <<>>
  OBVIOUS
<1>4. CASE ChannelRoutineCount # 0
  <2>1. Clients' = Clients /\ inbox' = inbox /\ knocks' = knocks /\ peer' = peer
    BY <1>4 DEF ChannelRoutine, worldVars
  <2>2. HasCell(State') /\ Cell(State') = Cell(State)
    BY <1>1 DEF CellIsNumber
  <2> QED BY <1>2, <2>1, <2>2, OwnedSteady DEF IsConnected
<1>5. CASE ChannelRoutineCount = 0
  <2> DEFINE clients == [i \in Ports |-> IF i \in Accepted THEN Welcomed(i) ELSE Clients[i]]
             gone == {i \in Ports : Probes /\ peer[i] = "reset"}
  <2>1. PICK resets :
          /\ peer' = [i \in Ports |-> CASE i \in Accepted -> "open"
                                        [] i \in gone -> "none"
                                        [] i \in resets -> "reset"
                                        [] OTHER -> peer[i]]
          /\ Clients' = [i \in Ports |-> IF i \in gone THEN Removed(clients[i]) ELSE clients[i]]
          /\ knocks' = [i \in Ports |-> knocks[i] /\ i \notin Accepted]
          /\ inbox' = [i \in Ports |-> IF i \in gone \cup Accepted THEN <<>> ELSE inbox[i]]
    BY <1>5 DEF ChannelRoutine
  <2>2. \A i \in Ports : i \in Accepted => clients[i] = NewClient /\ ~IsConnected(i) /\ knocks[i]
    BY DEF Accepted, Welcomed
  <2>3. \A i \in Ports : i \notin Accepted => clients[i] = Clients[i]
    OBVIOUS
  <2>4. \A i \in Ports : ~Removed(clients[i]).Socket
    <3>1. \A i \in Ports : clients[i] \in ClientRecords
      BY <1>1, NewClientType DEF Welcomed, ServerType
    <3> HIDE DEF clients
    <3> QED BY <3>1 DEF Removed, ClientRecords
  <2> HIDE DEF clients, gone
  <2>5. ASSUME NEW i \in Ports, i \notin Accepted
        PROVE  /\ peer'[i] = "open" => peer[i] = "open"
               /\ IsConnected(i)' => /\ IsConnected(i) /\ Clients'[i] = Clients[i]
                                     /\ inbox'[i] = inbox[i] /\ received'[i] = received[i]
                                     /\ handed'[i] = handed[i]
    BY <2>1, <2>3, <2>4, <2>5, <1>2 DEF IsConnected
  <2>6. ASSUME NEW i \in Ports, i \in Accepted, IsConnected(i)'
        PROVE  /\ knocks[i] /\ ~knocks'[i] /\ Clients'[i] = NewClient
               /\ inbox'[i] = <<>> /\ received'[i] = <<>> /\ handed'[i] = <<>>
    BY <2>1, <2>2, <2>4, <2>6, <1>3 DEF IsConnected
  <2>7. MasksAreGiven'
    <3> SUFFICES ASSUME NEW i \in Ports, IsConnected(i)'
                 PROVE  Clients'[i].ChannelMasks[\o40] = MaskOf(handed'[i])
      BY DEF MasksAreGiven
    <3>1. CASE i \in Accepted
      <4>1. NewClient.ChannelMasks[\o40] = \o77777
        BY OwnershipAssumption DEF NewClient
      <4> QED BY <4>1, <3>1, <2>6, NothingSaid
    <3>2. CASE i \notin Accepted
      BY <3>2, <2>5, <1>1 DEF MasksAreGiven
    <3> QED BY <3>1, <3>2
  <2>8. OwnersKeep'
    <3> SUFFICES ASSUME NEW i \in Ports, IsConnected(i)'
                 PROVE  Keeps(handed'[i], Cell(State))
      BY <1>1 DEF OwnersKeep, Cell
    <3>1. CASE i \in Accepted
      BY <3>1, <2>6, NothingSaid
    <3>2. CASE i \notin Accepted
      BY <3>2, <2>5, <1>1 DEF OwnersKeep
    <3> QED BY <3>1, <3>2
  <2>9. Follows'
    <3> SUFFICES ASSUME NEW i \in Ports
                 PROVE  /\ knocks'[i] => arrived'[i] = 0 /\ peer'[i] # "open"
                        /\ IsConnected(i)' => \E n \in 1 .. Len(sends'[i + 1]) :
                             \E m \in 0 .. Len(sends'[i + 1][n]) : Coming(i, n, m)'
      BY DEF Follows
    <3>1. knocks'[i] => arrived'[i] = 0 /\ peer'[i] # "open"
      <4>1. knocks'[i] => knocks[i] /\ i \notin Accepted
        BY <2>1
      <4> QED BY <4>1, <2>5, <1>1 DEF Follows
    <3>2. ASSUME IsConnected(i)', i \notin Accepted
          PROVE  \E n \in 1 .. Len(sends'[i + 1]) :
                   \E m \in 0 .. Len(sends'[i + 1][n]) : Coming(i, n, m)'
      <4>1. PICK n \in 1 .. Len(sends[i + 1]) : \E m \in 0 .. Len(sends[i + 1][n]) : Coming(i, n, m)
        BY <3>2, <2>5, <1>1 DEF Follows
      <4>2. PICK m \in 0 .. Len(sends[i + 1][n]) : Coming(i, n, m)
        BY <4>1
      <4>3. Coming(i, n, m)'
        BY <3>2, <2>5, <4>2 DEF Coming
      <4> QED BY <4>1, <4>2, <4>3
    <3>3. ASSUME IsConnected(i)', i \in Accepted
          PROVE  \E n \in 1 .. Len(sends'[i + 1]) :
                   \E m \in 0 .. Len(sends'[i + 1][n]) : Coming(i, n, m)'
      <4>1. knocks[i] /\ arrived[i] = 0 /\ connection[i] \in 1 .. Len(sends[i + 1])
        <5>1. knocks[i] /\ arrived[i] = 0
          BY <3>3, <2>6, <1>1 DEF Follows
        <5>2. connection[i] \in Nat /\ connection[i] >= 1 /\ connection[i] <= Len(sends[i + 1])
              /\ Len(sends[i + 1]) \in Nat
          BY <5>1, <1>1, PortsAre DEF StoryType
        <5> QED BY <5>1, <5>2
      <4>2. Len(sends[i + 1][connection[i]]) \in Nat
        <5>1. sends[i + 1] \in Seq(Seq(Byte))
          BY <1>1, PortsAre DEF StoryType
        <5>2. sends[i + 1][connection[i]] \in Seq(Byte)
          BY <4>1, <5>1, EntryIn
        <5> QED BY <5>2
      <4>3. 0 \in 0 .. Len(sends[i + 1][connection[i]])
        BY <4>2
      <4>4. <<>> \o <<>> = SubSeq(sends[i + 1][connection[i]], 1, 0)
        OBVIOUS
      <4>5. Coming(i, connection[i], 0)'
        BY <3>3, <2>6, <4>1, <4>4 DEF Coming
      <4> QED BY <4>1, <4>3, <4>5
    <3> QED BY <3>1, <3>2, <3>3
  <2>10. Tells' /\ CellIsNumber'
    BY <1>1 DEF Tells, CellIsNumber, HasCell, Cell
  <2> QED BY <2>7, <2>8, <2>9, <2>10 DEF Owned
<1> QED BY <1>4, <1>5

\* A byte is received, or none.
LEMMA OwnedReceive ==
  ASSUME Owned, ServerType, PassOver \/ ReceiveByte, Observe(polled), handed' = handed
  PROVE  Owned'
<1>1. /\ polled \in Ports /\ Clients \in [Ports -> ClientRecords] /\ inbox \in [Ports -> Seq(Byte)]
      /\ received \in [Ports -> Seq(Byte)]
      /\ UNCHANGED <<State, knocks, peer, sends, connection, arrived>>
  BY DEF ServerType, PassOver, ReceiveByte, Observe, worldVars, storyVars
<1>2. HasCell(State') /\ Cell(State') = Cell(State)
  BY <1>1 DEF Owned, CellIsNumber
<1>3. CASE PassOver
  <2>1. Clients' = Clients /\ inbox' = inbox
    BY <1>3 DEF PassOver, worldVars
  <2>2. \A i \in Ports : received'[i] = received[i]
    BY <1>1, <2>1, ObserveNothing
  <2> QED BY <1>1, <1>2, <2>1, <2>2, OwnedSteady DEF IsConnected
<1>4. CASE ReceiveByte
  <2> DEFINE c == Head(inbox[polled])
             packet == After(Clients[polled].Packet, c)
             record == [Clients[polled] EXCEPT !.Packet = packet]
  <2>1. /\ inbox[polled] \in Seq(Byte) /\ inbox[polled] # <<>> /\ IsConnected(polled)
        /\ Clients' = [Clients EXCEPT ![polled] = record]
        /\ inbox' = [inbox EXCEPT ![polled] = Tail(inbox[polled])]
    BY <1>1, <1>4 DEF ReceiveByte
  <2>2. record.Socket = Clients[polled].Socket /\ record.ChannelMasks = Clients[polled].ChannelMasks
    <3>1. Clients[polled] \in ClientRecords
      BY <1>1
    <3> HIDE DEF packet
    <3> QED BY <3>1 DEF ClientRecords
  <2>3. \A i \in Ports : /\ Clients'[i].Socket = Clients[i].Socket
                         /\ Clients'[i].ChannelMasks = Clients[i].ChannelMasks
    <3> HIDE DEF record
    <3> QED BY <1>1, <2>1, <2>2
  <2> DEFINE n == Len(inbox[polled]) - Len(inbox'[polled])
             new == SubSeq(inbox[polled], 1, n)
  <2>4. new \o Tail(inbox[polled]) = inbox[polled] /\ new \in Seq(Byte)
    <3> DEFINE B == Byte
               s == inbox[polled]
    <3>1. s \in Seq(B) /\ s # <<>> /\ inbox'[polled] = Tail(s)
      BY <1>1, <2>1
    <3> HIDE DEF B, s
    <3>2. Len(s) \in Nat /\ Len(s) >= 1 /\ Len(Tail(s)) = Len(s) - 1 /\ Tail(s) = SubSeq(s, 2, Len(s))
      BY <3>1, TailIsSubSeq
    <3>3. n = 1
      BY <3>1, <3>2 DEF s
    <3>4. /\ 1 \in 1 .. Len(s) + 1 /\ 1 \in 1 - 1 .. Len(s) /\ Len(s) \in 1 .. Len(s) /\ 1 + 1 = 2
      BY <3>2
    <3>5. SubSeq(s, 1, 1) \o SubSeq(s, 1 + 1, Len(s)) = SubSeq(s, 1, Len(s))
      BY <3>1, <3>4, ConcatAdjacentSubSeq
    <3>6. SubSeq(s, 1, Len(s)) = s
      BY <3>1, SubSeqFull
    <3>7. SubSeq(s, 1, 1) \o Tail(s) = s
      BY <3>2, <3>4, <3>5, <3>6
    <3>8. SubSeq(s, 1, 1) \in Seq(B)
      BY <3>1
    <3> HIDE DEF n
    <3> QED BY <3>3, <3>7, <3>8 DEF s, B
  <2>5. received' = [received EXCEPT ![polled] = received[polled] \o new]
    BY <1>1, <1>4, <2>1 DEF Observe
  <2> HIDE DEF n, new
  <2>6. ASSUME NEW i \in Ports
        PROVE  received'[i] \o inbox'[i] = received[i] \o inbox[i]
    <3>1. CASE i = polled
      <4>1. received[polled] \in Seq(Byte) /\ Tail(inbox[polled]) \in Seq(Byte)
        BY <1>1, <2>1
      <4>2. Threefold(received[polled], new, Tail(inbox[polled]))
        BY <4>1, <2>4, ConcatThree
      <4>3. received'[i] = received[polled] \o new /\ inbox'[i] = Tail(inbox[polled])
        BY <3>1, <1>1, <2>1, <2>5
      <4> QED BY <3>1, <4>2, <4>3, <2>4, Zenon DEF Threefold
    <3>2. CASE i # polled
      <4>1. received'[i] = received[i] /\ inbox'[i] = inbox[i]
        BY <3>2, <1>1, <2>1, <2>5
      <4> QED BY <4>1
    <3> QED BY <3>1, <3>2
  <2> QED BY <1>1, <1>2, <2>3, <2>6, OwnedSteady DEF IsConnected
<1> QED BY <1>3, <1>4

\* The clients.
LEMMA OwnedConnects ==
  ASSUME Owned, ListenInv, ~listens, NEW i \in Ports, Connects(i)
  PROVE  Owned'
<1>1. /\ Tells /\ Follows /\ MasksAreGiven /\ CellIsNumber /\ OwnersKeep
      /\ StoryType /\ ServerType /\ peer[i] # "open"
      /\ knocks' = [knocks EXCEPT ![i] = TRUE]
      /\ connection' = [connection EXCEPT ![i] = @ + 1] /\ arrived' = [arrived EXCEPT ![i] = 0]
      /\ UNCHANGED <<sends, received, handed, Clients, peer, inbox, State>>
  BY DEF Owned, ListenInv, Connects, Knock, storyVars, engineVars
<1>2. Tells' /\ MasksAreGiven' /\ CellIsNumber' /\ OwnersKeep'
  BY <1>1 DEF Tells, MasksAreGiven, CellIsNumber, OwnersKeep, HasCell, Cell, IsConnected
<1>3. Follows'
  <2> SUFFICES ASSUME NEW j \in Ports
               PROVE  /\ knocks'[j] => arrived'[j] = 0 /\ peer'[j] # "open"
                      /\ IsConnected(j)' => \E n \in 1 .. Len(sends'[j + 1]) :
                           \E m \in 0 .. Len(sends'[j + 1][n]) : Coming(j, n, m)'
    BY DEF Follows
  <2>1. knocks'[j] => arrived'[j] = 0 /\ peer'[j] # "open"
    <3>1. CASE j = i
      BY <3>1, <1>1 DEF StoryType
    <3>2. CASE j # i
      BY <3>2, <1>1 DEF StoryType, ServerType, Follows
    <3> QED BY <3>1, <3>2
  <2>2. ASSUME IsConnected(j)'
        PROVE  \E n \in 1 .. Len(sends'[j + 1]) :
                 \E m \in 0 .. Len(sends'[j + 1][n]) : Coming(j, n, m)'
    <3>1. PICK n \in 1 .. Len(sends[j + 1]) : \E m \in 0 .. Len(sends[j + 1][n]) : Coming(j, n, m)
      BY <2>2, <1>1 DEF Follows, IsConnected
    <3>2. PICK m \in 0 .. Len(sends[j + 1][n]) : Coming(j, n, m)
      BY <3>1
    <3>3. Coming(j, n, m)'
      BY <3>2, <1>1 DEF Coming, StoryType
    <3> QED BY <1>1, <3>1, <3>2, <3>3
  <2> QED BY <2>1, <2>2
<1> QED BY <1>2, <1>3 DEF Owned

LEMMA OwnedBytes ==
  ASSUME Owned, ListenInv, NEW i \in Ports, Bytes(i)
  PROVE  Owned'
<1>1. /\ Tells /\ Follows /\ MasksAreGiven /\ CellIsNumber /\ OwnersKeep
      /\ StoryType /\ ServerType /\ peer[i] = "open"
      /\ UNCHANGED <<sends, connection, received, handed, Clients, peer, knocks, State>>
  BY DEF Owned, ListenInv, Bytes, Arrive, storyVars, engineVars
<1>2. Tells' /\ MasksAreGiven' /\ CellIsNumber' /\ OwnersKeep'
  BY <1>1 DEF Tells, MasksAreGiven, CellIsNumber, OwnersKeep, HasCell, Cell, IsConnected
<1>3. PICK k \in arrived[i] + 1 .. Len(Script(i)) :
        /\ inbox' = [inbox EXCEPT ![i] = inbox[i] \o SubSeq(Script(i), arrived[i] + 1, k)]
        /\ arrived' = [arrived EXCEPT ![i] = k]
  BY DEF Bytes, Arrive
<1>4. ~knocks[i]
  BY <1>1 DEF Follows
<1>5. Follows'
  <2> SUFFICES ASSUME NEW j \in Ports
               PROVE  /\ knocks'[j] => arrived'[j] = 0 /\ peer'[j] # "open"
                      /\ IsConnected(j)' => \E n \in 1 .. Len(sends'[j + 1]) :
                           \E m \in 0 .. Len(sends'[j + 1][n]) : Coming(j, n, m)'
    BY DEF Follows
  <2>1. knocks'[j] => arrived'[j] = 0 /\ peer'[j] # "open"
    BY <1>1, <1>3, <1>4 DEF StoryType, Follows
  <2>2. ASSUME IsConnected(j)'
        PROVE  \E n \in 1 .. Len(sends'[j + 1]) :
                 \E m \in 0 .. Len(sends'[j + 1][n]) : Coming(j, n, m)'
    <3>1. PICK n \in 1 .. Len(sends[j + 1]) : \E m \in 0 .. Len(sends[j + 1][n]) : Coming(j, n, m)
      BY <2>2, <1>1 DEF Follows, IsConnected
    <3>2. PICK m \in 0 .. Len(sends[j + 1][n]) : Coming(j, n, m)
      BY <3>1
    <3>3. CASE j # i
      <4>1. Coming(j, n, m)'
        BY <3>2, <3>3, <1>1, <1>3 DEF Coming, StoryType, ServerType
      <4> QED BY <1>1, <3>1, <3>2, <4>1
    <3>4. CASE j = i
      <4> DEFINE s == sends[i + 1][n]
                 B == Byte
      <4>1. n = connection[i] /\ m = arrived[i] /\ received[i] \o inbox[i] = SubSeq(s, 1, m)
        BY <3>2, <3>4, <1>1 DEF Coming
      <4>2. s \in Seq(B) /\ received[i] \in Seq(B) /\ inbox[i] \in Seq(B) /\ s = Script(i)
        <5>1. sends[i + 1] \in Seq(Seq(Byte))
          BY <1>1, PortsAre DEF StoryType
        <5>2. s \in Seq(Byte)
          BY <3>1, <3>4, <5>1, EntryIn
        <5> QED BY <5>2, <4>1, <1>1 DEF Script, ServerType
      <4>3. m \in 0 .. Len(s) /\ k \in m + 1 .. Len(s)
        BY <3>2, <3>4, <4>1, <4>2, <1>3
      <4> HIDE DEF s, B
      <4> DEFINE new == SubSeq(s, m + 1, k)
      <4>4. new \in Seq(B) /\ SubSeq(s, 1, m) \o new = SubSeq(s, 1, k) /\ k \in 0 .. Len(s)
        <5>1. /\ 1 \in 1 .. Len(s) + 1 /\ m \in 1 - 1 .. Len(s) /\ k \in m .. Len(s) /\ k \in 0 .. Len(s)
          BY <4>2, <4>3
        <5>2. SubSeq(s, 1, m) \o new = SubSeq(s, 1, k)
          BY <4>2, <5>1, ConcatAdjacentSubSeq
        <5>3. new \in Seq(B)
          BY <4>2, <5>1
        <5> QED BY <5>1, <5>2, <5>3
      <4>5. inbox'[i] = inbox[i] \o new /\ arrived'[i] = k
        BY <1>1, <1>3, <4>1, <4>2 DEF StoryType, ServerType
      <4> HIDE DEF new
      <4>6. Threefold(received[i], inbox[i], new)
        BY <4>2, <4>4, ConcatThree
      <4>7. received[i] \o inbox'[i] = SubSeq(s, 1, k)
        BY <4>1, <4>4, <4>5, <4>6, Zenon DEF Threefold
      <4>8. Coming(i, n, k)'
        BY <4>1, <4>5, <4>7, <1>1 DEF Coming, s
      <4> QED BY <3>1, <3>4, <4>4, <4>8, <1>1 DEF s
    <3> QED BY <3>3, <3>4
  <2> QED BY <2>1, <2>2
<1> QED BY <1>2, <1>5 DEF Owned

LEMMA OwnedLeaves ==
  ASSUME Owned, ServerType, NEW i \in Ports, Leaves(i)
  PROVE  Owned'
<1>1. /\ peer' = [peer EXCEPT ![i] = "closed"]
      /\ UNCHANGED <<sends, connection, arrived, received, handed, Clients, knocks, inbox, State>>
  BY DEF Leaves, HangUp, storyVars, engineVars
<1>2. \A j \in Ports : peer'[j] = "open" => peer[j] = "open"
  BY <1>1 DEF ServerType
<1>3. HasCell(State') /\ Cell(State') = Cell(State)
  BY <1>1 DEF Owned, CellIsNumber
<1> QED BY <1>1, <1>2, <1>3, OwnedSteady DEF IsConnected

\* A packet that is handled: what the client itself finds, and what another does.
LEMMA OwnKept ==
  ASSUME Tells, NEW i \in Ports, NEW h \in Seq(Seq(Byte)), NEW p \in Seq(Byte), NEW old \in Int,
         Len(p) = 4, InStore(Append(h, p), i), Keeps(h, old), MaskOf(h) \in Int
  PROVE  Keeps(Append(h, p), IF IsValue(p) THEN Merged(MaskOf(h), ParseIoPacket(p).Value, old) ELSE old)
<1> DEFINE all == Append(h, p)
           v == ParseIoPacket(p).Value
<1>1. all \in Seq(Seq(Byte))
  OBVIOUS
<1>2. MaskOf(all) = IF IsMask(p) THEN v ELSE MaskOf(h)
  BY MaskOfAppend
<1>3. /\ IsMask(p) => Len(h) + 1 \in Masks(all)
      /\ IsValue(p) => Values(all) # {} /\ Latest(all, Values(all)) = v
      /\ ~IsValue(p) => /\ Values(all) = Values(h)
                        /\ Values(h) # {} => Latest(all, Values(h)) = Latest(h, Values(h))
  BY LatestAppend
<1>4. Len(all) = Len(h) + 1 /\ Len(h) \in Nat
  <2> DEFINE B == Seq(Byte)
  <2>1. h \in Seq(B) /\ p \in B
    OBVIOUS
  <2> HIDE DEF B
  <2> QED BY <2>1
<1>5. InStore(all, i)
  OBVIOUS
<1> HIDE DEF all
<1>6. CASE IsMask(p)
  <2>1. ASSUME Values(all) # {} PROVE FALSE
    <3>1. \A k \in Masks(all) : k < Len(all)
      BY <1>1, <1>5, <2>1, StoreIsSettled
    <3>2. Len(all) \in Masks(all) /\ Len(all) \in Nat
      BY <1>3, <1>4, <1>6
    <3>3. Len(all) < Len(all)
      BY <3>1, <3>2
    <3> QED BY <3>2, <3>3
  <2>2. \A w : Keeps(all, w)
    BY <2>1 DEF Keeps
  <2> QED BY <2>2 DEF all
<1>7. CASE IsValue(p)
  <2>1. ~IsMask(p)
    BY <1>7 DEF IsMask, IsValue
  <2>2. MaskOf(all) = MaskOf(h) /\ LastValue(all) = v
    BY <1>2, <1>3, <1>7, <2>1 DEF LastValue
  <2>3. v \in Int
    BY ParsedValue, WordIsInt
  <2> HIDE DEF v
  <2>4. Merged(MaskOf(h), Merged(MaskOf(h), v, old), 0) = Merged(MaskOf(h), v, 0)
    BY <2>3, OwnBits
  <2>5. Keeps(all, Merged(MaskOf(h), v, old))
    BY <2>2, <2>4, Zenon DEF Keeps
  <2> QED BY <1>7, <2>5 DEF all, v
<1>8. CASE ~IsMask(p) /\ ~IsValue(p)
  <2>1. MaskOf(all) = MaskOf(h) /\ Values(all) = Values(h)
        /\ (Values(h) # {} => LastValue(all) = LastValue(h))
    BY <1>2, <1>3, <1>8 DEF LastValue
  <2>2. Keeps(all, old)
    BY <2>1, Zenon DEF Keeps
  <2> QED BY <1>8, <2>2 DEF all
<1> QED BY <1>6, <1>7, <1>8

LEMMA OthersKept ==
  ASSUME Tells, NEW i \in Ports, NEW j \in Ports, i # j, NEW old \in Int,
         NEW h \in Seq(Seq(Byte)), NEW p \in Seq(Byte), Len(p) = 4, InStore(Append(h, p), i),
         NEW g \in Seq(Seq(Byte)), InStore(g, j), Keeps(g, old),
         MaskOf(h) \in Int, MaskOf(g) \in Int
  PROVE  Keeps(g, IF IsValue(p) THEN Merged(MaskOf(h), ParseIoPacket(p).Value, old) ELSE old)
<1>1. CASE IsValue(p) /\ Values(g) # {}
  <2> DEFINE all == Append(h, p)
             v == ParseIoPacket(p).Value
             m == MaskOf(h)
             n == MaskOf(g)
  <2>1. v \in Int /\ m \in Int /\ n \in Int
    BY ParsedValue, WordIsInt
  <2>2. ~IsMask(p)
    BY <1>1 DEF IsMask, IsValue
  <2>3. all \in Seq(Seq(Byte)) /\ InStore(all, i) /\ Values(all) # {} /\ MaskOf(all) = m
    BY <1>1, <2>2, MaskOfAppend, LatestAppend
  <2> HIDE DEF all
  <2>4. Merged(n, m, 0) = 0
    BY <1>1, <2>3, StoresAreApart
  <2> HIDE DEF v, m, n
  <2>5. Merged(n, Merged(m, v, old), 0) = Merged(n, old, 0)
    BY <2>1, <2>4, OthersBits
  <2>6. Keeps(g, Merged(m, v, old))
    BY <2>5, Zenon DEF Keeps, n
  <2> QED BY <1>1, <2>6 DEF m, v
<1>2. CASE Values(g) = {}
  BY <1>2 DEF Keeps
<1>3. CASE ~IsValue(p)
  BY <1>3
<1> QED BY <1>1, <1>2, <1>3

LEMMA OwnedHandled ==
  ASSUME Owned, ListenInv, FullIsPolled, Observe(polled), Len(Clients[polled].Packet) = 4,
         handed' = [handed EXCEPT ![polled] = Append(@, Clients[polled].Packet)],
         NEW clients,
         clients[polled].ChannelMasks[\o40] = MaskOf(Append(handed[polled], Clients[polled].Packet)),
         \A j \in Ports \ {polled} : clients[j] = Clients[j],
         inbox' \in [Ports -> Seq(Byte)], knocks' = knocks,
         \A j \in Ports : /\ peer'[j] = "open" => peer[j] = "open"
                          /\ \/ Clients'[j] = clients[j] /\ inbox'[j] = inbox[j]
                             \/ ~Clients'[j].Socket,
         HasCell(State'),
         Cell(State') = IF IsValue(Clients[polled].Packet)
                        THEN Merged(MaskOf(handed[polled]), ParseIoPacket(Clients[polled].Packet).Value,
                                    Cell(State))
                        ELSE Cell(State)
  PROVE  Owned'
<1> DEFINE i == polled
           p == Clients[i].Packet
           h == handed[i]
           all == Append(h, p)
           w == Cell(State')
<1>1. /\ Tells /\ Follows /\ MasksAreGiven /\ CellIsNumber /\ OwnersKeep
      /\ StoryType /\ ServerType /\ i \in Ports /\ IsConnected(i)
  BY DEF Owned, ListenInv, ServerType, FullIsPolled
<1>2. /\ handed \in [Ports -> Seq(Seq(Byte))] /\ h \in Seq(Seq(Byte)) /\ p \in Seq(Byte)
      /\ Clients \in [Ports -> ClientRecords] /\ handed' = [handed EXCEPT ![i] = all]
  BY <1>1 DEF ServerType, ClientRecords
<1>3. /\ \A j \in Ports : inbox'[j] = inbox[j] => received'[j] = received[j]
      /\ UNCHANGED <<sends, connection, arrived>>
  BY <1>1, ObserveNothing
<1>4. \A j \in Ports : IsConnected(j) => MaskOf(handed[j]) \in Int
  <2> TAKE j \in Ports
  <2>1. Clients[j].ChannelMasks[\o40] \in Word
    BY <1>2, OwnershipAssumption DEF ClientRecords
  <2> QED BY <2>1, <1>1, WordIsInt DEF MasksAreGiven
<1>5. w = IF IsValue(p) THEN Merged(MaskOf(h), ParseIoPacket(p).Value, Cell(State)) ELSE Cell(State)
  OBVIOUS
<1>6. w \in Int
  <2>1. ParseIoPacket(p).Value \in Int
    BY <1>2, ParsedValue, WordIsInt
  <2>2. Cell(State) \in Int /\ MaskOf(h) \in Int
    BY <1>1, <1>4 DEF CellIsNumber
  <2>3. Merged(MaskOf(h), ParseIoPacket(p).Value, Cell(State)) \in Int
    BY <2>1, <2>2, MergedIsInt
  <2> HIDE DEF w, p, h
  <2> QED BY <1>5, <2>2, <2>3
<1>7. InStore(all, i)
  BY <1>1, Foreseen
<1>8. \A j \in Ports : IsConnected(j) => InStore(handed[j], j) /\ Keeps(handed[j], Cell(State))
  BY <1>1, Foreseen DEF OwnersKeep
<1>9. Keeps(all, w)
  <2>1. Keeps(h, Cell(State)) /\ MaskOf(h) \in Int /\ Cell(State) \in Int
    BY <1>1, <1>4, <1>8 DEF CellIsNumber
  <2> HIDE DEF w
  <2> QED BY <1>1, <1>2, <1>5, <1>7, <2>1, OwnKept
<1>10. ASSUME NEW j \in Ports, j # i, IsConnected(j) PROVE Keeps(handed[j], w)
  <2>1. /\ Keeps(handed[j], Cell(State)) /\ InStore(handed[j], j) /\ handed[j] \in Seq(Seq(Byte))
        /\ MaskOf(handed[j]) \in Int /\ MaskOf(h) \in Int /\ Cell(State) \in Int
    BY <1>1, <1>2, <1>4, <1>8, <1>10 DEF CellIsNumber
  <2> HIDE DEF w
  <2> QED BY <1>1, <1>2, <1>5, <1>7, <1>10, <2>1, OthersKept
<1> HIDE DEF w, all
<1>11. ASSUME NEW j \in Ports, IsConnected(j)'
       PROVE  /\ IsConnected(j) /\ Clients'[j] = clients[j] /\ inbox'[j] = inbox[j]
              /\ received'[j] = received[j]
  <2>1. Clients'[j] = clients[j] /\ inbox'[j] = inbox[j]
    BY <1>11 DEF IsConnected
  <2>2. IsConnected(j)
    <3>1. CASE j = i
      BY <3>1, <1>1
    <3>2. CASE j # i
      BY <3>2, <2>1, <1>11 DEF IsConnected
    <3> QED BY <3>1, <3>2
  <2> QED BY <2>1, <2>2, <1>3
<1>12. Follows'
  BY <1>1, <1>3, <1>11, FollowsKept
<1>13. MasksAreGiven'
  <2> SUFFICES ASSUME NEW j \in Ports, IsConnected(j)'
               PROVE  Clients'[j].ChannelMasks[\o40] = MaskOf(handed'[j])
    BY DEF MasksAreGiven
  <2>1. Clients'[j] = clients[j] /\ IsConnected(j)
    BY <1>11
  <2>2. CASE j = i
    <3>1. handed'[j] = all
      BY <2>2, <1>2
    <3> QED BY <2>1, <2>2, <3>1 DEF all
  <2>3. CASE j # i
    <3>1. handed'[j] = handed[j]
      BY <2>3, <1>2
    <3> QED BY <2>1, <2>3, <3>1, <1>1 DEF MasksAreGiven
  <2> QED BY <2>2, <2>3
<1>14. OwnersKeep'
  <2> SUFFICES ASSUME NEW j \in Ports, IsConnected(j)'
               PROVE  Keeps(handed'[j], w)
    BY DEF OwnersKeep, Cell, w
  <2>1. CASE j = i
    <3>1. handed'[j] = all
      BY <2>1, <1>2
    <3> QED BY <3>1, <1>9
  <2>2. CASE j # i
    <3>1. handed'[j] = handed[j]
      BY <2>2, <1>2
    <3> QED BY <2>2, <3>1, <1>10, <1>11
  <2> QED BY <2>1, <2>2
<1>15. Tells' /\ CellIsNumber'
  <2>1. Cell(State)' = w /\ HasCell(State)'
    BY DEF Cell, HasCell, w
  <2> QED BY <2>1, <1>1, <1>3, <1>6 DEF Tells, CellIsNumber
<1> QED BY <1>12, <1>13, <1>14, <1>15 DEF Owned

LEMMA EmptiedMasks ==
  ASSUME ServerType
  PROVE  Emptied(polled)[polled].ChannelMasks = Clients[polled].ChannelMasks
<1>1. Clients[polled] \in ClientRecords /\ DOMAIN Clients = Ports /\ polled \in Ports
  BY DEF ServerType
<1>2. Emptied(polled)[polled] = [Clients[polled] EXCEPT !.Packet = <<>>]
  BY <1>1 DEF Emptied
<1> QED BY <1>1, <1>2 DEF ClientRecords

LEMMA OwnedMask ==
  ASSUME Owned, ListenInv, FullIsPolled, ReceiveMask, Observe(polled),
         handed' = [handed EXCEPT ![polled] = Append(@, Clients[polled].Packet)]
  PROVE  Owned'
<1> DEFINE p == Clients[polled].Packet
           ch == ParseIoPacket(p).Channel
           v == ParseIoPacket(p).Value
           before == Emptied(polled)[polled]
           masks == [before.ChannelMasks EXCEPT ![ch] = v]
           record == [before EXCEPT !.ChannelMasks = masks]
<1>1. /\ ServerType /\ polled \in Ports /\ Len(p) = 4 /\ ParseIoPacket(p).uBit /\ IsConnected(polled)
      /\ UNCHANGED <<inbox, knocks, peer, State>> /\ p \in Seq(Byte)
      /\ handed[polled] \in Seq(Seq(Byte)) /\ inbox \in [Ports -> Seq(Byte)]
      /\ MasksAreGiven /\ CellIsNumber
  BY DEF ListenInv, ServerType, ClientRecords, ReceiveMask, HasPacket, InPoll, worldVars, Parsed,
         FullIsPolled, Owned
<1>2. /\ Emptied(polled) \in [Ports -> ClientRecords] /\ before \in ClientRecords
      /\ \A j \in Ports \ {polled} : Emptied(polled)[j] = Clients[j]
      /\ before.ChannelMasks = Clients[polled].ChannelMasks
  BY <1>1, EmptiedType, EmptiedMasks
<1>3. Clients' = [Emptied(polled) EXCEPT ![polled] = record]
  BY <1>1 DEF ReceiveMask, Parsed
<1>4. record.ChannelMasks = masks
  <2> HIDE DEF before, masks
  <2> QED BY <1>2 DEF ClientRecords
<1>5. ~IsValue(p) /\ (IsMask(p) <=> ch = \o40)
  BY <1>1 DEF IsValue, IsMask
<1>6. masks[\o40] = MaskOf(Append(handed[polled], p))
  <2>1. MaskOf(Append(handed[polled], p)) = IF IsMask(p) THEN v ELSE MaskOf(handed[polled])
    BY <1>1, MaskOfAppend
  <2>2. before.ChannelMasks[\o40] = MaskOf(handed[polled])
    BY <1>1, <1>2 DEF MasksAreGiven
  <2>3. before.ChannelMasks \in [Channels -> Word] /\ \o40 \in Channels
    BY <1>2, OwnershipAssumption DEF ClientRecords
  <2> HIDE DEF before, p, ch, v
  <2>4. masks[\o40] = IF ch = \o40 THEN v ELSE before.ChannelMasks[\o40]
    BY <2>3
  <2> HIDE DEF masks
  <2> QED BY <2>1, <2>2, <2>4, <1>5
<1> HIDE DEF record, masks
<1>7. Clients'[polled].ChannelMasks[\o40] = MaskOf(Append(handed[polled], p))
      /\ \A j \in Ports \ {polled} : Clients'[j] = Clients[j]
  BY <1>1, <1>2, <1>3, <1>4, <1>6
<1>8. HasCell(State') /\ Cell(State') = Cell(State)
  BY <1>1 DEF CellIsNumber
<1>9. PICK clients : clients = Clients'
  OBVIOUS
<1> QED BY <1>1, <1>5, <1>7, <1>8, <1>9, OwnedHandled

LEMMA OwnedOther ==
  ASSUME Owned, ListenInv, FullIsPolled, ReceiveCount \/ ReceiveValue, Observe(polled),
         handed' = [handed EXCEPT ![polled] = Append(@, Clients[polled].Packet)]
  PROVE  Owned'
<1> DEFINE p == Clients[polled].Packet
           ch == ParseIoPacket(p).Channel
           v == ParseIoPacket(p).Value
           mask == Clients[polled].ChannelMasks[ch]
<1>1. /\ ServerType /\ polled \in Ports /\ Len(p) = 4 /\ ~ParseIoPacket(p).uBit /\ IsConnected(polled)
      /\ p \in Seq(Byte) /\ handed[polled] \in Seq(Seq(Byte))
      /\ MasksAreGiven /\ CellIsNumber /\ HasCell(State)
  BY DEF ListenInv, ServerType, ClientRecords, ReceiveCount, ReceiveValue, HasPacket, Parsed,
         FullIsPolled, Owned, CellIsNumber
<1>2. /\ Emptied(polled) \in [Ports -> ClientRecords]
      /\ \A j \in Ports \ {polled} : Emptied(polled)[j] = Clients[j]
      /\ Emptied(polled)[polled].ChannelMasks = Clients[polled].ChannelMasks
  BY <1>1, EmptiedType, EmptiedMasks
<1>3. ~IsMask(p) /\ (IsValue(p) <=> ch = \o40)
  BY <1>1 DEF IsValue, IsMask
<1>4. Clients[polled].ChannelMasks[\o40] = MaskOf(handed[polled])
  BY <1>1 DEF MasksAreGiven
<1>5. Emptied(polled)[polled].ChannelMasks[\o40] = MaskOf(Append(handed[polled], p))
  <2>1. MaskOf(Append(handed[polled], p)) = MaskOf(handed[polled])
    BY <1>1, <1>3, MaskOfAppend
  <2> QED BY <2>1, <1>2, <1>4
<1>6. \E s : /\ Becomes(s, Emptied(polled)) /\ HasCell(s)
             /\ Cell(s) = IF IsValue(p) THEN Merged(MaskOf(handed[polled]), v, Cell(State))
                          ELSE Cell(State)
  <2>1. CASE ReceiveCount
    <3>1. /\ Becomes(UnprogrammedIncrement(State, ch % 128, v), Emptied(polled)) /\ ch >= 128
      BY <2>1 DEF ReceiveCount, Parsed
    <3>2. ~IsValue(p)
      <4>1. ~(\o40 >= 128)
        OBVIOUS
      <4> QED BY <3>1, <4>1, <1>3
    <3> QED BY <3>1, <3>2, <1>1, CountCell
  <2>2. CASE ReceiveValue
    <3>1. Becomes(ChannelWrite(State, mask, ch, v), Emptied(polled))
      BY <2>2 DEF ReceiveValue, Parsed
    <3>2. /\ HasCell(ChannelWrite(State, mask, ch, v))
          /\ Cell(ChannelWrite(State, mask, ch, v)) =
               IF ch = \o40 THEN Merged(mask, v, Cell(State)) ELSE Cell(State)
      BY <1>1, ValueCell
    <3>3. ch = \o40 => mask = MaskOf(handed[polled])
      BY <1>4
    <3> HIDE DEF mask, v, p
    <3> QED BY <3>1, <3>2, <3>3, <1>3
  <2> QED BY <2>1, <2>2
<1>7. PICK s : /\ Becomes(s, Emptied(polled)) /\ HasCell(s)
               /\ Cell(s) = IF IsValue(p) THEN Merged(MaskOf(handed[polled]), v, Cell(State))
                            ELSE Cell(State)
  BY <1>6
<1>8. HasCell(State') /\ Cell(State') = Cell(s)
  BY <1>7, BecomesCell
<1>9. /\ inbox' \in [Ports -> Seq(Byte)] /\ knocks' = knocks
      /\ \A i \in Ports : /\ peer'[i] = "open" => peer[i] = "open"
                          /\ \/ Clients'[i] = Emptied(polled)[i] /\ inbox'[i] = inbox[i]
                             \/ ~Clients'[i].Socket
  BY <1>1, <1>2, <1>7, BecomesEffect
<1>10. Cell(State') = IF IsValue(p) THEN Merged(MaskOf(handed[polled]), v, Cell(State))
                      ELSE Cell(State)
  BY <1>7, <1>8
<1>11. PICK clients : clients = Emptied(polled)
  OBVIOUS
<1> QED BY <1>1, <1>2, <1>5, <1>8, <1>9, <1>10, <1>11, OwnedHandled

LEMMA OwnedProgram ==
  ASSUME Owned, ListenInv, UpdateDSKY \/ Program({}),
         UNCHANGED <<sends, connection, arrived, received, handed>>
  PROVE  Owned'
<1>1. ServerType /\ HasCell(State)
  BY DEF ListenInv, Owned, CellIsNumber
<1> DEFINE Goal == \E s : Becomes(s, Clients) /\ HasCell(s) /\ Cell(s) = Cell(State)
<1>2. ASSUME UpdateDSKY PROVE Goal
  <2> DEFINE t == WarningShown(State)
  <2>1. HasCell(t) /\ Cell(t) = Cell(State)
    BY <1>1, RestartCell
  <2>2. PICK lamps : Becomes(IF lamps = DskyChannel163 THEN t
                             ELSE ChannelOutput(t, \o163, lamps), Clients)
    BY <1>2 DEF UpdateDSKY
  <2> HIDE DEF t
  <2>3. HasCell(ChannelOutput(t, \o163, lamps))
        /\ Cell(ChannelOutput(t, \o163, lamps)) = Cell(State)
    BY <2>1, OutputCell
  <2>4. CASE lamps = DskyChannel163
    BY <2>1, <2>2, <2>4
  <2>5. CASE lamps # DskyChannel163
    BY <2>2, <2>3, <2>5
  <2> QED BY <2>4, <2>5
<1>3. ASSUME Program({}) PROVE Goal
  <2>1. PICK on :
           \/ Becomes(Scaled(on), Clients)
           \/ \E r : Becomes([Scaled(on) EXCEPT !.InterruptRequests = @ \ {r}], Clients)
           \/ \E standby : Becomes(Restarted(Scaled(on), standby), Clients)
    BY <1>3 DEF Program
  <2> DEFINE t == Scaled(on)
  <2>2. HasCell(t) /\ Cell(t) = Cell(State)
    BY <1>1, RestartCell DEF Scaled
  <2> HIDE DEF t
  <2>3. CASE Becomes(t, Clients)
    BY <2>2, <2>3
  <2>4. ASSUME NEW r, Becomes([t EXCEPT !.InterruptRequests = @ \ {r}], Clients)
        PROVE  Goal
    <3> DEFINE s == [t EXCEPT !.InterruptRequests = @ \ {r}]
    <3>1. HasCell(s) /\ Cell(s) = Cell(t)
      BY <2>2 DEF HasCell, Cell
    <3> QED BY <2>2, <2>4, <3>1
  <2>5. ASSUME NEW standby, Becomes(Restarted(t, standby), Clients)
        PROVE  Goal
    <3>1. HasCell(Restarted(t, standby)) /\ Cell(Restarted(t, standby)) = Cell(t)
      BY <2>2, RestartCell
    <3> QED BY <2>2, <2>5, <3>1
  <2> QED BY <2>1, <2>3, <2>4, <2>5 DEF t
<1> QED BY <1>1, <1>2, <1>3, OwnedBroadcast

LEMMA OwnInit == MCInit => OwnInv
<1> SUFFICES ASSUME MCInit PROVE OwnInv
  OBVIOUS
<1>1. CASE listens
  BY <1>1 DEF OwnInv, MCInit, HistoryInit
<1>2. CASE ~listens
  <2>1. Tells
    BY <1>2 DEF MCInit, SendingInit, ListeningInit, Tells
  <2>2. \A i \in Ports : ~IsConnected(i) /\ ~knocks[i]
    BY DEF MCInit, Init, NoClient, IsConnected
  <2>3. Follows /\ MasksAreGiven /\ OwnersKeep
    BY <2>2 DEF Follows, MasksAreGiven, OwnersKeep
  <2>4. CellIsNumber
    <3> DEFINE in == [ch \in Channels |-> CASE ch = \o30 -> \o37777
                                            [] ch \in {\o31, \o32, \o33} -> \o77777
                                            [] OTHER -> 0]
    <3>1. in[\o40] \in Int /\ \o40 \in DOMAIN in
      BY OwnershipAssumption
    <3>2. HasCell(StartState) /\ Cell(StartState) = in[\o40]
      BY <3>1 DEF StartState, HasCell, Cell
    <3> HIDE DEF in
    <3> QED BY <3>1, <3>2 DEF MCInit, Init, CellIsNumber
  <2> QED BY <1>2, <2>1, <2>3, <2>4 DEF OwnInv, Owned
<1> QED BY <1>1, <1>2

LEMMA OwnInvStep ==
  OwnInv /\ FullIsPolled /\ ListenInv /\ HearInv /\ [MCNext]_mcVars => OwnInv'
<1> SUFFICES ASSUME OwnInv, FullIsPolled, ListenInv, HearInv, [MCNext]_mcVars PROVE OwnInv'
  OBVIOUS
<1>0. listens' = listens
  <2>1. CASE Engine
    BY <2>1 DEF Engine, Observe, storyVars
  <2>2. ASSUME NEW i \in Ports, Connects(i) \/ Bytes(i) \/ Leaves(i) PROVE listens' = listens
    BY <2>2 DEF Connects, Bytes, Leaves, storyVars
  <2>3. CASE UNCHANGED mcVars
    BY <2>3 DEF mcVars, storyVars
  <2> QED BY <2>1, <2>2, <2>3 DEF MCNext
<1>1. listens' = listens /\ ServerType /\ polled \in Ports
  BY <1>0 DEF ListenInv, ServerType
<1>2. CASE listens
  <2>1. ~HasPacket
    <3>1. Clients[polled].Packet = <<>>
      BY <1>1, <1>2 DEF HearInv, NobodySends
    <3>2. Len(Clients[polled].Packet) # 4
      BY <3>1
    <3> QED BY <3>2 DEF HasPacket
  <2>2. \/ handed' = handed
        \/ handed' = [i \in Ports |-> IF IsConnected(i) THEN handed[i] ELSE <<>>]
    <3>1. CASE Engine
      BY <3>1, <2>1 DEF Engine, ReceiveMask, ReceiveCount, ReceiveValue
    <3>2. ASSUME NEW i \in Ports, Connects(i) \/ Bytes(i) \/ Leaves(i) PROVE handed' = handed
      BY <3>2 DEF Connects, Bytes, Leaves
    <3>3. CASE UNCHANGED mcVars
      BY <3>3 DEF mcVars
    <3> QED BY <3>1, <3>2, <3>3 DEF MCNext
  <2> QED BY <1>1, <1>2, <2>2 DEF OwnInv
<1>3. CASE ~listens
  <2>1. Owned
    BY <1>3 DEF OwnInv
  <2>2. Owned'
    <3>1. CASE ChannelRoutine
               /\ received' = [i \in Ports |-> IF IsConnected(i) THEN received[i] ELSE <<>>]
               /\ handed' = [i \in Ports |-> IF IsConnected(i) THEN handed[i] ELSE <<>>]
               /\ UNCHANGED <<storyVars, connection, arrived>>
      BY <3>1, <2>1, OwnedRoutine DEF storyVars
    <3>2. CASE (UpdateDSKY \/ Program(IF listens THEN Outputs ELSE {}))
               /\ UNCHANGED <<storyVars, connection, arrived, received, handed>>
      BY <3>2, <2>1, <1>3, OwnedProgram DEF storyVars
    <3>3. CASE (PassOver \/ ReceiveByte) /\ Observe(polled) /\ UNCHANGED handed
      BY <3>3, <2>1, <1>1, OwnedReceive
    <3>4. CASE ReceiveMask /\ Observe(polled)
               /\ handed' = [handed EXCEPT ![polled] = Append(@, Clients[polled].Packet)]
      BY <3>4, <2>1, OwnedMask
    <3>5. CASE (ReceiveCount \/ ReceiveValue) /\ Observe(polled)
               /\ handed' = [handed EXCEPT ![polled] = Append(@, Clients[polled].Packet)]
      BY <3>5, <2>1, OwnedOther
    <3>6. ASSUME NEW i \in Ports, Connects(i) \/ Bytes(i) \/ Leaves(i) PROVE Owned'
      BY <3>6, <2>1, <1>1, <1>3, OwnedConnects, OwnedBytes, OwnedLeaves
    <3>7. CASE UNCHANGED mcVars
      <4>1. UNCHANGED <<Clients, State, knocks, peer, inbox, sends, connection, arrived, received, handed>>
        BY <3>7 DEF mcVars, serverVars, engineVars, worldVars, storyVars
      <4>2. HasCell(State') /\ Cell(State') = Cell(State)
        BY <4>1, <2>1 DEF Owned, CellIsNumber
      <4> QED BY <4>1, <4>2, <2>1, OwnedSteady DEF IsConnected
    <3> QED BY <3>1, <3>2, <3>3, <3>4, <3>5, <3>6, <3>7 DEF MCNext, Engine
  <2> QED BY <2>2, <1>1, <1>3 DEF OwnInv
<1> QED BY <1>2, <1>3

\* The bits of channel 40 under the mask that a client gave in its present
\* connection are those it last sent, whatever another client writes to the rest
\* of the channel and whoever comes and goes (the masks of ChannelInput), for any
\* number of clients that give their masks first and share no bit.
THEOREM OwnersKeepTheirBits == MCSpec => []BitsAreTheirOwners
<1>1. OwnInv => BitsAreTheirOwners
  <2> SUFFICES ASSUME OwnInv, NEW i \in Ports, IsConnected(i), Values(handed[i]) # {}
               PROVE  Merged(MaskOf(handed[i]), State.InputChannel[\o40], 0) =
                        Merged(MaskOf(handed[i]), LastValue(handed[i]), 0)
    BY DEF BitsAreTheirOwners
  <2>1. CASE listens
    <3>1. Values(<<>>) = {}
      BY SayingIs
    <3> QED BY <2>1, <3>1 DEF OwnInv
  <2>2. CASE ~listens
    BY <2>2, Zenon DEF OwnInv, Owned, OwnersKeep, Keeps, Cell
  <2> QED BY <2>1, <2>2
<1> QED BY <1>1, FullInit, FullStep, OwnInit, OwnInvStep, HearInit, HearInvStep, AlwaysListened,
           PTL DEF MCSpec
=============================================================================
