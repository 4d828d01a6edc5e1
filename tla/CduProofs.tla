----------------------------- MODULE CduProofs -----------------------------
(***************************************************************************)
(* The CDU FIFOs for any number of FIFOs and entries and for any rates:    *)
(* every entry in use holds a pulse, and every FIFO has its turn.          *)
(***************************************************************************)
EXTENDS MCCduFifo, DataLemmas, TLAPS

-----------------------------------------------------------------------------
(* The ring of entries.                                                    *)

\* No entry in use is empty: its count, taken down before it is tested for
\* zero, never becomes negative.
EntriesInUse == \A c \in Cdus : \A n \in 0 .. Size[c] - 1 : Counts[c][Slot(c, n)].left >= 1

FifoInv == TypeOK /\ EntriesInUse

LEMMA SlotsInRing ==
  ASSUME TypeOK, NEW c \in Cdus, NEW n \in 0 .. MAX_CDU_FIFO_ENTRIES - 1
  PROVE  /\ Slot(c, n) \in Slots
         /\ \A j \in 0 .. MAX_CDU_FIFO_ENTRIES - 1 : Slot(c, j) = Slot(c, n) => j = n
<1>1. Ptr[c] \in Slots
  BY DEF TypeOK
<1> QED
  BY <1>1, FifoAssumption, SMT DEF Slot, Slots

LEMMA IntervalPositive ==
  ASSUME NEW type \in IncTypes
  PROVE  Interval(type) \in Nat \ {0}
BY FifoAssumption DEF Interval

LEMMA PassedType ==
  ASSUME TypeOK, NEW c \in Cdus
  PROVE  Passed(c) \in Int
BY DEF TypeOK, Passed

\* The FIFOs other than c keep their entries.
LEMMA OthersKeep ==
  ASSUME FifoInv, NEW c \in Cdus, NEW d \in Cdus \ {c},
         Ptr'[d] = Ptr[d], Size'[d] = Size[d], Counts'[d] = Counts[d]
  PROVE  \A n \in 0 .. Size'[d] - 1 : Counts'[d][Slot(d, n)'].left >= 1
<1>1. \A n : Slot(d, n)' = Slot(d, n)
  BY DEF Slot
<1> QED
  BY <1>1 DEF FifoInv, EntriesInUse

LEMMA PushKeeps ==
  ASSUME FifoInv, NEW c \in Cdus, NEW type \in IncTypes, Push(c, type)
  PROVE  FifoInv'
<1> USE DEF FifoInv
<1>1. /\ Ptr[c] \in Slots /\ Size[c] \in 0 .. MAX_CDU_FIFO_ENTRIES
      /\ Counts[c] \in [Slots -> [type : IncTypes, left : Nat]] /\ 0 \in Slots
      /\ MAX_CDU_FIFO_ENTRIES \in Nat \ {0}
  BY FifoAssumption DEF TypeOK, Slots
<1>2. counter' \in [Cdus -> Word] /\ CduChecker' \in Cdus /\ input' \in {<<>>} \cup (Cdus \X IncTypes)
  BY DEF Push, TypeOK
<1>3. CASE Size[c] = 0
  <2> DEFINE entry == [type |-> type, left |-> 1]
  <2>1. /\ Ptr' = [Ptr EXCEPT ![c] = 0] /\ Size' = [Size EXCEPT ![c] = 1]
        /\ Counts' = [Counts EXCEPT ![c][0] = entry]
        /\ IntervalType' = [IntervalType EXCEPT ![c] = 1]
        /\ due' = [d \in Cdus |-> IF d = c THEN Interval(type) ELSE Passed(d)]
    BY <1>3 DEF Push, PushCduFifo
  <2>2. TypeOK'
    <3>1. due' \in [Cdus -> Int]
      BY <2>1, IntervalPositive, PassedType
    <3>2. entry \in [type : IncTypes, left : Nat]
      OBVIOUS
    <3> HIDE DEF entry
    <3>3. Counts' \in [Cdus -> [Slots -> [type : IncTypes, left : Nat]]]
      BY <2>1, <1>1, <3>2 DEF TypeOK
    <3>4. Ptr' \in [Cdus -> Slots] /\ Size' \in [Cdus -> 0 .. MAX_CDU_FIFO_ENTRIES]
          /\ IntervalType' \in [Cdus -> 0 .. 2]
      BY <2>1, <1>1 DEF TypeOK
    <3> QED
      BY <1>2, <3>1, <3>3, <3>4 DEF TypeOK
  <2>3. ASSUME NEW d \in Cdus, NEW n \in 0 .. Size'[d] - 1 PROVE Counts'[d][Slot(d, n)'].left >= 1
    <3>1. CASE d = c
      <4>1. Size'[c] = 1 /\ Ptr'[c] = 0 /\ Counts'[c][0] = entry
        BY <2>1, <1>1 DEF TypeOK
      <4>2. n = 0 /\ Slot(c, 0)' = 0
        BY <4>1, <2>3, <3>1, <1>1 DEF Slot
      <4> QED
        BY <4>1, <4>2, <3>1
    <3>2. CASE d # c
      <4>1. Ptr'[d] = Ptr[d] /\ Size'[d] = Size[d] /\ Counts'[d] = Counts[d]
        BY <2>1, <3>2 DEF TypeOK
      <4> QED
        BY <4>1, <3>2, <2>3, OthersKeep
    <3> QED
      BY <3>1, <3>2
  <2> QED
    BY <2>2, <2>3 DEF EntriesInUse
<1>4. CASE Size[c] # 0
  <2> DEFINE last == LastSlot(c)
             free == Slot(c, Size[c])
  <2>1. due' = [d \in Cdus |-> Passed(d)]
    BY <1>4 DEF Push, PushCduFifo
  <2>2. due' \in [Cdus -> Int]
    BY <2>1, PassedType
  <2>3. Size[c] - 1 \in 0 .. MAX_CDU_FIFO_ENTRIES - 1
    BY <1>1, <1>4
  <2>4. last \in Slots
    BY <2>3, SlotsInRing DEF LastSlot
  <2>5. CASE /\ Counts' = [Counts EXCEPT ![c][last].left = @ + 1]
             /\ UNCHANGED <<Ptr, Size, IntervalType>>
    <3> HIDE DEF last
    <3>1. Counts[c][last] \in [type : IncTypes, left : Nat]
      BY <1>1, <2>4
    <3> DEFINE entry == [Counts[c][last] EXCEPT !.left = @ + 1]
    <3>2. entry \in [type : IncTypes, left : Nat] /\ entry.left >= 1
      BY <3>1
    <3>3. Counts' = [Counts EXCEPT ![c] = [Counts[c] EXCEPT ![last] = entry]]
      BY <2>5
    <3> HIDE DEF entry
    <3>4. TypeOK'
      <4>1. Counts' \in [Cdus -> [Slots -> [type : IncTypes, left : Nat]]]
        BY <3>2, <3>3, <1>1, <2>4 DEF TypeOK
      <4> QED
        BY <4>1, <2>5, <2>2, <1>2 DEF TypeOK
    <3>5. \A d \in Cdus, s \in Slots :
            Counts'[d][s].left >= 1 \/ Counts'[d][s] = Counts[d][s]
      BY <3>2, <3>3, <1>1, <2>4 DEF TypeOK
    <3>6. ASSUME NEW d \in Cdus, NEW n \in 0 .. Size'[d] - 1 PROVE Counts'[d][Slot(d, n)'].left >= 1
      <4>1. Slot(d, n)' = Slot(d, n) /\ n \in 0 .. Size[d] - 1
        BY <2>5, <3>6 DEF Slot
      <4>2. Slot(d, n) \in Slots
        <5>1. n \in 0 .. MAX_CDU_FIFO_ENTRIES - 1
          BY <4>1, <1>1, SMTT(30) DEF TypeOK
        <5> QED
          BY <5>1, SlotsInRing
      <4> QED
        BY <4>1, <4>2, <3>5 DEF EntriesInUse
    <3> QED
      BY <3>4, <3>6 DEF EntriesInUse
  <2>6. CASE /\ ~Joins(c, type) /\ ~Full(c, type)
             /\ Size' = [Size EXCEPT ![c] = @ + 1]
             /\ Counts' = [Counts EXCEPT ![c][free] = [type |-> type, left |-> 1]]
             /\ UNCHANGED <<Ptr, IntervalType>>
    <3> DEFINE entry == [type |-> type, left |-> 1]
    <3>1. Size[c] < MAX_CDU_FIFO_ENTRIES /\ Size[c] \in 0 .. MAX_CDU_FIFO_ENTRIES - 1
      BY <2>6, <1>1 DEF Full
    <3>2. free \in Slots
      BY <3>1, SlotsInRing
    <3>3. entry \in [type : IncTypes, left : Nat] /\ entry.left >= 1
      OBVIOUS
    <3>4. Counts' = [Counts EXCEPT ![c] = [Counts[c] EXCEPT ![free] = entry]]
      BY <2>6
    <3>5. Size'[c] = Size[c] + 1
      BY <2>6 DEF TypeOK
    <3> HIDE DEF entry
    <3>6. TypeOK'
      <4>1. Counts' \in [Cdus -> [Slots -> [type : IncTypes, left : Nat]]]
        BY <3>2, <3>3, <3>4, <1>1 DEF TypeOK
      <4>2. Size' \in [Cdus -> 0 .. MAX_CDU_FIFO_ENTRIES]
        BY <2>6, <3>1, <1>1 DEF TypeOK
      <4> QED
        BY <4>1, <4>2, <2>6, <2>2, <1>2 DEF TypeOK
    <3>7. ASSUME NEW d \in Cdus, NEW n \in 0 .. Size'[d] - 1 PROVE Counts'[d][Slot(d, n)'].left >= 1
      <4>1. CASE d = c
        <5>1. Slot(c, n)' = Slot(c, n) /\ n \in 0 .. Size[c]
          BY <2>6, <3>5, <3>7, <4>1, <1>1 DEF Slot
        <5>2. Counts'[c][free] = entry
          BY <3>4, <3>2, <1>1 DEF TypeOK
        <5>3. CASE n = Size[c]
          BY <5>1, <5>2, <5>3, <3>3, <4>1
        <5>4. CASE n \in 0 .. Size[c] - 1
          <6>1. Slot(c, n) # free /\ Slot(c, n) \in Slots
            <7>1. n \in 0 .. MAX_CDU_FIFO_ENTRIES - 1 /\ n # Size[c]
              BY <5>4, <1>1
            <7> QED
              BY <7>1, <3>1, SlotsInRing
          <6>2. Counts'[c][Slot(c, n)] = Counts[c][Slot(c, n)]
            BY <6>1, <3>4, <1>1 DEF TypeOK
          <6> QED
            BY <5>1, <5>4, <6>2, <4>1 DEF EntriesInUse
        <5> QED
          BY <5>1, <5>3, <5>4, <1>1
      <4>2. CASE d # c
        <5>1. Ptr'[d] = Ptr[d] /\ Size'[d] = Size[d] /\ Counts'[d] = Counts[d]
          BY <2>6, <3>4, <4>2 DEF TypeOK
        <5> QED
          BY <5>1, <4>2, <3>7, OthersKeep
      <4> QED
        BY <4>1, <4>2
    <3> QED
      BY <3>6, <3>7 DEF EntriesInUse
  <2>7. CASE UNCHANGED fifoVars
    <3>1. TypeOK'
      BY <2>7, <2>2, <1>2 DEF TypeOK, fifoVars
    <3>2. \A d, n : Slot(d, n)' = Slot(d, n)
      BY <2>7 DEF Slot, fifoVars
    <3> QED
      BY <3>1, <3>2, <2>7 DEF EntriesInUse, fifoVars
  <2> QED
    BY <1>4, <2>5, <2>6, <2>7 DEF Push, PushCduFifo
<1> QED
  BY <1>3, <1>4

LEMMA CountsAreWords ==
  ASSUME NEW w \in Word
  PROVE  CounterPCDU(w) \in Word /\ CounterMCDU(w) \in Word
BY HALFAssumption DEF CounterPCDU, CounterMCDU, AGC_M0, Word

\* The FIFO looked at next is the one after this.
LEMMA NextChecker ==
  ASSUME TypeOK
  PROVE  (CduChecker + 1) % NUM_CDU_FIFOS
           = IF CduChecker = NUM_CDU_FIFOS - 1 THEN 0 ELSE CduChecker + 1
<1>1. CduChecker \in 0 .. NUM_CDU_FIFOS - 1 /\ NUM_CDU_FIFOS \in Nat \ {0}
  BY FifoAssumption DEF TypeOK, Cdus
<1> DEFINE N == NUM_CDU_FIFOS
<1>2. CASE CduChecker = N - 1
  <2>1. CduChecker + 1 = N * 1 + 0 /\ 0 \in 0 .. N - 1
    BY <1>1, <1>2
  <2>2. (N * 1 + 0) % N = 0
    BY <1>1, <2>1, ModUnique
  <2> QED
    BY <2>1, <2>2, <1>2
<1>3. CASE CduChecker # N - 1
  <2>1. CduChecker + 1 = N * 0 + (CduChecker + 1) /\ CduChecker + 1 \in 0 .. N - 1
    BY <1>1, <1>3
  <2>2. (N * 0 + (CduChecker + 1)) % N = CduChecker + 1
    BY <1>1, <2>1, ModUnique
  <2> QED
    BY <2>1, <2>2, <1>3
<1> QED
  BY <1>2, <1>3

LEMMA ServiceKeeps ==
  ASSUME FifoInv, ServiceCduFifo
  PROVE  FifoInv'
<1> USE DEF FifoInv
<1> DEFINE c == CduChecker
           N == MAX_CDU_FIFO_ENTRIES
<1>1. /\ c \in Cdus /\ Ptr[c] \in Slots /\ Size[c] \in 0 .. N
      /\ Counts[c] \in [Slots -> [type : IncTypes, left : Nat]]
      /\ N \in Nat \ {0} /\ IntervalType[c] \in 0 .. 2
  BY FifoAssumption DEF TypeOK
<1>2. CduChecker' \in Cdus
  BY NextChecker, <1>1, FifoAssumption DEF ServiceCduFifo, Cdus
<1>3. input' = <<>>
  BY DEF ServiceCduFifo
<1>4. CASE ~Ready(c)
  <2>1. UNCHANGED <<fifoVars, counter>> /\ due' = [d \in Cdus |-> Passed(d)]
    BY <1>4 DEF ServiceCduFifo
  <2>2. TypeOK'
    BY <2>1, <1>2, <1>3, PassedType DEF TypeOK, fifoVars
  <2>3. \A d, n : Slot(d, n)' = Slot(d, n)
    BY <2>1 DEF Slot, fifoVars
  <2> QED
    BY <2>1, <2>2, <2>3 DEF EntriesInUse, fifoVars
<1>5. CASE Ready(c)
  <2>1. Size[c] \in 1 .. N
    BY <1>1, <1>5 DEF Ready
  <2>2. /\ Slot(c, 0) = Ptr[c] /\ Counts[c][Ptr[c]].left >= 1
        /\ Counts[c][Ptr[c]] \in [type : IncTypes, left : Nat]
    <3>1. Slot(c, 0) = Ptr[c] /\ 0 \in 0 .. Size[c] - 1
      BY <1>1, <2>1 DEF Slot, Slots
    <3> QED
      BY <1>1, <3>1 DEF EntriesInUse
  <2>3. /\ counter' = [counter EXCEPT ![c] =
             IF Current(c).type.down THEN CounterMCDU(@) ELSE CounterPCDU(@)]
        /\ IntervalType' = [IntervalType EXCEPT ![c] = (@ + 1) % 3]
        /\ due' = [d \in Cdus |-> IF d # c THEN Passed(d)
                                  ELSE IF Size'[c] = 0 THEN 0 ELSE NextDue(c)]
    BY <1>5 DEF ServiceCduFifo
  <2>4. counter' \in [Cdus -> Word]
    BY <1>1, <2>3, CountsAreWords DEF TypeOK
  <2>5. IntervalType' \in [Cdus -> 0 .. 2]
    <3>1. (IntervalType[c] + 1) % 3 \in 0 .. 2
      BY <1>1
    <3> QED
      BY <1>1, <2>3, <3>1 DEF TypeOK
  <2>6. due' \in [Cdus -> Int]
    <3>1. Passed(c) \in Int /\ Interval(Current(c).type) \in Nat
      BY <1>1, <2>2, PassedType, IntervalPositive DEF Current
    <3>2. NextDue(c) \in Int
      BY <3>1 DEF NextDue
    <3> QED
      BY <2>3, <3>2, PassedType
  <2>7. CASE Exhausted(c)
    <3>1. /\ Size' = [Size EXCEPT ![c] = @ - 1] /\ Ptr' = [Ptr EXCEPT ![c] = Slot(c, 1)]
          /\ Counts' = Counts
      BY <1>5, <2>7 DEF ServiceCduFifo
    <3>2. Slot(c, 1) = (IF Ptr[c] + 1 >= N THEN Ptr[c] + 1 - N ELSE Ptr[c] + 1) /\ Slot(c, 1) \in Slots
      BY <1>1 DEF Slot, Slots
    <3>3. TypeOK'
      <4>1. Size' \in [Cdus -> 0 .. N] /\ Ptr' \in [Cdus -> Slots]
        BY <3>1, <3>2, <2>1, <1>1 DEF TypeOK
      <4> QED
        BY <4>1, <3>1, <2>4, <2>5, <2>6, <1>2, <1>3 DEF TypeOK
    <3>4. ASSUME NEW d \in Cdus, NEW n \in 0 .. Size'[d] - 1 PROVE Counts'[d][Slot(d, n)'].left >= 1
      <4>1. CASE d = c
        <5>1. Size'[c] = Size[c] - 1 /\ Ptr'[c] = Slot(c, 1)
          BY <3>1, <1>1 DEF TypeOK
        <5>2. n \in Nat /\ n + 1 \in 0 .. Size[c] - 1
          BY <5>1, <4>1, <3>4, <2>1
        <5>3. Slot(d, n)' = Slot(c, n + 1)
          <6>1. Slot(d, n)' = IF Ptr'[d] + n >= N THEN Ptr'[d] + n - N ELSE Ptr'[d] + n
            BY DEF Slot
          <6>2. Slot(c, n + 1) = IF Ptr[c] + (n + 1) >= N THEN Ptr[c] + (n + 1) - N
                                 ELSE Ptr[c] + (n + 1)
            BY DEF Slot
          <6>3. Ptr[c] \in 0 .. N - 1 /\ n + 1 <= N - 1
            BY <5>2, <2>1, <1>1 DEF Slots
          <6> QED
            BY <6>1, <6>2, <6>3, <5>1, <5>2, <4>1, <3>2, <1>1
        <5>4. Counts[c][Slot(c, n + 1)].left >= 1
          BY <5>2, <1>1 DEF EntriesInUse
        <5> QED
          BY <5>3, <5>4, <4>1, <3>1
      <4>2. CASE d # c
        <5>1. Ptr'[d] = Ptr[d] /\ Size'[d] = Size[d] /\ Counts'[d] = Counts[d]
          BY <3>1, <4>2 DEF TypeOK
        <5> QED
          BY <5>1, <4>2, <3>4, <1>1, OthersKeep
      <4> QED
        BY <4>1, <4>2
    <3> QED
      BY <3>3, <3>4 DEF EntriesInUse
  <2>8. CASE ~Exhausted(c)
    <3> DEFINE entry == [Counts[c][Ptr[c]] EXCEPT !.left = CountAfter(c)]
    <3>1. /\ Counts' = [Counts EXCEPT ![c] = [Counts[c] EXCEPT ![Ptr[c]] = entry]]
          /\ Size' = Size /\ Ptr' = Ptr
      BY <1>5, <2>8 DEF ServiceCduFifo
    <3>2. entry \in [type : IncTypes, left : Nat] /\ entry.left >= 1
      BY <2>2, <2>8 DEF Exhausted, CountAfter, Current
    <3> HIDE DEF entry
    <3>3. TypeOK'
      <4>1. Counts' \in [Cdus -> [Slots -> [type : IncTypes, left : Nat]]]
        BY <3>1, <3>2, <1>1 DEF TypeOK
      <4> QED
        BY <4>1, <3>1, <2>4, <2>5, <2>6, <1>2, <1>3 DEF TypeOK
    <3>4. \A d \in Cdus, s \in Slots : Counts'[d][s].left >= 1 \/ Counts'[d][s] = Counts[d][s]
      BY <3>1, <3>2, <1>1 DEF TypeOK
    <3>5. ASSUME NEW d \in Cdus, NEW n \in 0 .. Size'[d] - 1 PROVE Counts'[d][Slot(d, n)'].left >= 1
      <4>1. Slot(d, n)' = Slot(d, n) /\ n \in 0 .. Size[d] - 1
        BY <3>1, <3>5 DEF Slot
      <4>2. n \in 0 .. N - 1
        BY <4>1, <1>1 DEF TypeOK
      <4>3. Slot(d, n) \in Slots
        BY <4>2, SlotsInRing
      <4> QED
        BY <4>1, <4>3, <3>4 DEF EntriesInUse
    <3> QED
      BY <3>3, <3>5 DEF EntriesInUse
  <2> QED
    BY <2>7, <2>8
<1> QED
  BY <1>4, <1>5

LEMMA StolenKeeps ==
  ASSUME FifoInv, Stolen \/ UNCHANGED vars
  PROVE  FifoInv'
<1> USE DEF FifoInv
<1>1. UNCHANGED <<fifoVars, counter, CduChecker>>
  BY DEF Stolen, vars
<1>2. TypeOK'
  BY <1>1, PassedType DEF Stolen, vars, TypeOK, fifoVars
<1>3. \A d, n : Slot(d, n)' = Slot(d, n)
  BY <1>1 DEF Slot, fifoVars
<1> QED
  BY <1>1, <1>2, <1>3 DEF EntriesInUse, fifoVars

LEMMA FifoInit == Init => FifoInv
<1>1. Init => TypeOK
  BY FifoAssumption, HALFAssumption
     DEF Init, TypeOK, Cdus, Slots, NoType, IncTypes, Word, AGC_P0
<1>2. Init => EntriesInUse
  BY DEF Init, EntriesInUse
<1> QED
  BY <1>1, <1>2 DEF FifoInv

LEMMA FifoStep == FifoInv /\ [Next]_vars => FifoInv'
BY PushKeeps, ServiceKeeps, StolenKeeps DEF Next

\* Indices, sizes and counts of the FIFOs stay in their ranges: no entry is
\* served that holds no pulse, and no count passes below zero.
THEOREM FifosStayInRange == Spec => []TypeOK
<1> QED
  BY FifoInit, FifoStep, PTL DEF Spec, FifoInv

-----------------------------------------------------------------------------
(* Every FIFO has its turn.                                                *)

\* How many FIFOs are looked at before c is, when k is the next.
Before(k, c) == IF c >= k THEN c - k ELSE c + NUM_CDU_FIFOS - k

\* A FIFO that waits is not later than the other work and the FIFOs that were
\* looked at since have made it.
Punctual == \A c \in Cdus : Size[c] > 0 => due[c] + NUM_CDU_FIFOS - Before(CduChecker, c) > -MaxLate

LEMMA BeforeRange ==
  ASSUME NEW k \in Cdus, NEW c \in Cdus
  PROVE  Before(k, c) \in 0 .. NUM_CDU_FIFOS - 1
BY FifoAssumption, SMT DEF Cdus, Before

\* Other work is only done while no FIFO is late.
LEMMA OtherWorkPunctual ==
  ASSUME FifoInv, OtherWork
  PROVE  Punctual'
<1>1. TypeOK
  BY DEF FifoInv
<1>2. TypeOK' /\ CduChecker' \in Cdus
  <2>1. FifoInv'
    BY PushKeeps, StolenKeeps, SupplyAssumption DEF OtherWork
  <2> QED
    BY <2>1 DEF FifoInv, TypeOK
<1>3. ASSUME NEW c \in Cdus, Size'[c] > 0 PROVE due'[c] >= -MaxLate
  <2>1. due[c] > -MaxLate /\ due[c] \in Int /\ MaxLate \in Nat
    BY <1>1, SupplyAssumption DEF OtherWork, TypeOK
  <2>2. CASE Stolen
    <3>1. Size'[c] = Size[c] /\ due'[c] = Passed(c)
      BY <2>2 DEF Stolen, fifoVars
    <3> QED
      BY <3>1, <2>1, <1>3 DEF Passed
  <2>3. ASSUME NEW d \in Cdus, NEW type \in Types, Push(d, type) PROVE due'[c] >= -MaxLate
    <3>1. type \in IncTypes /\ Interval(type) \in Nat \ {0}
      BY SupplyAssumption, IntervalPositive
    <3>2. due'[c] = Interval(type) \/ due'[c] = Passed(c)
      BY <2>3 DEF Push, PushCduFifo
    <3> QED
      BY <3>1, <3>2, <2>1 DEF Passed
  <2> QED
    BY <2>2, <2>3 DEF OtherWork
<1>4. ASSUME NEW c \in Cdus, Size'[c] > 0
      PROVE  due'[c] + NUM_CDU_FIFOS - Before(CduChecker', c) > -MaxLate
  <2>1. Before(CduChecker', c) \in 0 .. NUM_CDU_FIFOS - 1
    BY <1>2, BeforeRange
  <2>2. due'[c] \in Int /\ MaxLate \in Nat /\ NUM_CDU_FIFOS \in Nat
    BY <1>2, SupplyAssumption, FifoAssumption DEF TypeOK
  <2> QED
    BY <1>3, <1>4, <2>1, <2>2
<1> QED
  BY <1>4 DEF Punctual

\* A turn brings every FIFO nearer, and an update puts the next one further
\* away than a turn lasts.
LEMMA ServicePunctual ==
  ASSUME FifoInv, Punctual, ServiceCduFifo
  PROVE  Punctual'
<1> DEFINE k == CduChecker
           N == NUM_CDU_FIFOS
<1>1. TypeOK /\ TypeOK'
  BY ServiceKeeps DEF FifoInv
<1>2. N \in Nat \ {0} /\ MaxLate \in Nat /\ k \in 0 .. N - 1 /\ CduChecker' \in 0 .. N - 1
  BY <1>1, FifoAssumption, SupplyAssumption DEF TypeOK, Cdus
<1>3. CduChecker' = IF k = N - 1 THEN 0 ELSE k + 1
  BY <1>1, NextChecker DEF ServiceCduFifo
<1>4. ASSUME NEW c \in Cdus, Size'[c] > 0
      PROVE  due'[c] + N - Before(CduChecker', c) > -MaxLate
  <2>1. c \in 0 .. N - 1 /\ due[c] \in Int /\ due'[c] \in Int /\ Size[c] \in Nat
    <3>1. c \in 0 .. N - 1
      BY DEF Cdus
    <3>2. due[c] \in Int /\ due'[c] \in Int
      BY <1>1 DEF TypeOK
    <3>3. Size[c] \in Nat
      BY <1>1, FifoAssumption DEF TypeOK
    <3> QED
      BY <3>1, <3>2, <3>3
  <2>2. CASE c # k
    <3>1. Size'[c] = Size[c] /\ due'[c] = Passed(c)
      BY <2>2, <1>1, ZenonT(60) DEF ServiceCduFifo, TypeOK, fifoVars
    <3>2. due'[c] = due[c] - 1 /\ due[c] + N - Before(CduChecker, c) > -MaxLate
      BY <3>1, <1>4 DEF Passed, Punctual
    <3>3. Before(CduChecker', c) = Before(CduChecker, c) - 1 /\ Before(CduChecker, c) \in Int
      BY <2>1, <2>2, <1>2, <1>3 DEF Before
    <3> QED
      BY <3>2, <3>3, <2>1, <1>2
  <2>3. CASE c = k
    <3>1. Before(CduChecker, c) = 0 /\ Before(CduChecker', c) = N - 1
      BY <2>1, <2>3, <1>2, <1>3 DEF Before
    <3>2. CASE Ready(c)
      <4>1. Size[c] > 0 /\ due[c] + N > -MaxLate
        BY <3>1, <3>2, <2>1, <1>2 DEF Ready, Punctual
      <4>2. due'[c] = NextDue(c) /\ Passed(c) = due[c] - 1
        BY <3>2, <2>3, <1>4, <4>1 DEF ServiceCduFifo, Passed
      <4>3. Interval(Current(c).type) > N /\ Interval(Current(c).type) \in Nat
        BY SupplyAssumption, FifoAssumption DEF Interval
      <4>4. due'[c] >= due[c] + N
        BY <4>2, <4>3, <2>1, <1>2 DEF NextDue
      <4> QED
        BY <4>1, <4>4, <3>1, <2>1, <1>2
    <3>3. CASE ~Ready(c)
      <4>1. Size'[c] = Size[c] /\ due'[c] = Passed(c)
        BY <3>3, <2>3, <1>1 DEF ServiceCduFifo, fifoVars
      <4>2. Passed(c) \in Int /\ Passed(c) > 0
        BY <4>1, <3>3, <1>4, <1>1, PassedType DEF Ready
      <4> QED
        BY <4>1, <4>2, <3>1, <1>2
    <3> QED
      BY <3>2, <3>3
  <2> QED
    BY <2>2, <2>3
<1> QED
  BY <1>4 DEF Punctual

\* However many FIFOs there are and however often other work holds the engine,
\* no update is later than that work and one turn of the FIFOs.
THEOREM EveryFifoHasItsTurn == MSpec => []UpdatesInTurn
<1>1. MInit => FifoInv /\ Punctual
  BY FifoInit DEF MInit, Init, Punctual
<1>2. FifoInv /\ Punctual /\ [MNext]_mvars => FifoInv' /\ Punctual'
  <2> SUFFICES ASSUME FifoInv, Punctual, [MNext]_mvars PROVE FifoInv' /\ Punctual'
    OBVIOUS
  <2>1. CASE UNCHANGED mvars
    <3>1. UNCHANGED vars
      BY <2>1 DEF mvars
    <3>2. Punctual'
      BY <3>1 DEF vars, fifoVars, Punctual, Before
    <3> QED
      BY <3>1, <3>2, StolenKeeps
  <2>2. CASE OtherWork
    <3>1. FifoInv'
      BY <2>2, PushKeeps, StolenKeeps, SupplyAssumption DEF OtherWork
    <3> QED
      BY <3>1, <2>2, OtherWorkPunctual
  <2>3. CASE Serve
    BY <2>3, ServiceKeeps, ServicePunctual DEF Serve
  <2> QED
    BY <2>1, <2>2, <2>3 DEF MNext
<1>3. FifoInv /\ Punctual => UpdatesInTurn
  <2> SUFFICES ASSUME FifoInv, Punctual, NEW c \in Cdus, Size[c] > 0
               PROVE  due[c] > -(MaxLate + NUM_CDU_FIFOS)
    BY DEF UpdatesInTurn
  <2>1. TypeOK /\ Before(CduChecker, c) \in 0 .. NUM_CDU_FIFOS - 1
    BY BeforeRange DEF FifoInv, TypeOK
  <2>2. due[c] \in Int /\ MaxLate \in Nat /\ NUM_CDU_FIFOS \in Nat
    BY <2>1, FifoAssumption, SupplyAssumption DEF TypeOK
  <2> QED
    BY <2>1, <2>2 DEF Punctual
<1> QED
  BY <1>1, <1>2, <1>3, PTL DEF MSpec

-----------------------------------------------------------------------------
(* The rate.                                                               *)

\* What a FIFO has earned and the time to its next update make up a fast
\* interval at least; before an update it has earned that update.
Unhurried ==
  /\ earned \in [Cdus -> Int]
  /\ \A c \in Cdus : Size[c] > 0 => earned[c] >= 0 /\ earned[c] + due[c] >= FastInterval

\* A pulse that comes to an empty FIFO waits a whole interval, and others
\* change no time.
LEMMA OtherWorkUnhurried ==
  ASSUME FifoInv, Unhurried, OtherWork, History
  PROVE  Unhurried'
<1>1. /\ FastInterval \in Nat /\ SlowInterval \in Nat /\ SlowInterval >= FastInterval
      /\ Types \subseteq IncTypes
  BY FifoAssumption, SupplyAssumption
<1>2. counter' = counter
  BY DEF OtherWork, Stolen, Push
<1>3. earned' = [c \in Cdus |-> IF Size[c] = 0 THEN 0 ELSE earned[c] + 1]
  BY <1>1, <1>2 DEF History, Applies, Unhurried
<1>4. earned' \in [Cdus -> Int]
  BY <1>3 DEF Unhurried
<1>5. ASSUME NEW c \in Cdus, Size'[c] > 0
      PROVE  earned'[c] >= 0 /\ earned'[c] + due'[c] >= FastInterval
  <2>1. earned[c] \in Int /\ due[c] \in Int /\ Size[c] \in Nat
    BY FifoAssumption DEF Unhurried, FifoInv, TypeOK
  <2>2. CASE Size[c] > 0 /\ due'[c] = due[c] - 1
    BY <2>1, <2>2, <1>1, <1>3 DEF Unhurried
  <2>3. CASE Size[c] = 0 /\ due'[c] >= FastInterval /\ due'[c] \in Int
    BY <2>3, <1>1, <1>3
  <2>4. CASE Stolen
    <3>1. Size'[c] = Size[c] /\ due'[c] = Passed(c)
      BY <2>4 DEF Stolen, fifoVars
    <3> QED
      BY <3>1, <2>1, <2>2, <1>5 DEF Passed
  <2>5. ASSUME NEW d \in Cdus, NEW type \in IncTypes, Push(d, type)
        PROVE  (Size[c] > 0 /\ due'[c] = due[c] - 1)
               \/ (Size[c] = 0 /\ due'[c] >= FastInterval /\ due'[c] \in Int)
    <3>1. CASE Size[c] = 0
      <4>1. c = d
        <5>1. c # d => Size'[c] = Size[c]
          BY <2>5 DEF Push, PushCduFifo, fifoVars, FifoInv, TypeOK
        <5> QED
          BY <5>1, <3>1, <1>5
      <4>2. due'[c] = Interval(type)
        BY <3>1, <4>1, <2>5 DEF Push, PushCduFifo
      <4> QED
        BY <4>2, <3>1, <1>1 DEF Interval
    <3>2. CASE Size[c] # 0
      <4>1. due'[c] = Passed(c)
        BY <3>2, <2>5 DEF Push, PushCduFifo
      <4> QED
        BY <4>1, <3>2, <2>1 DEF Passed
    <3> QED
      BY <3>1, <3>2
  <2> QED
    BY <2>2, <2>3, <2>4, <2>5, <1>1 DEF OtherWork
<1> QED
  BY <1>4, <1>5 DEF Unhurried

\* An update is made when it is due, and then a fast interval was earned.
LEMMA ServiceUnhurried ==
  ASSUME FifoInv, Unhurried, ServiceCduFifo, History
  PROVE  Unhurried'
<1>1. /\ FastInterval \in Nat /\ SlowInterval \in Nat /\ SlowInterval >= FastInterval
  BY FifoAssumption, SupplyAssumption
<1>2. earned' \in [Cdus -> Int]
  BY <1>1 DEF History, Unhurried
<1>3. ASSUME NEW c \in Cdus, Size'[c] > 0
      PROVE  earned'[c] >= 0 /\ earned'[c] + due'[c] >= FastInterval
  <2>1. /\ earned[c] \in Int /\ due[c] \in Int /\ Size[c] \in Nat
        /\ earned'[c] = IF Size[c] = 0 THEN 0
                        ELSE earned[c] + 1 - (IF Applies(c) THEN FastInterval ELSE 0)
    BY FifoAssumption DEF Unhurried, FifoInv, TypeOK, History
  <2>2. CASE c = CduChecker /\ Ready(c)
    <3>1. Size[c] > 0 /\ due[c] - 1 <= 0
      BY <2>2 DEF Ready, Passed
    <3>2. due'[c] = NextDue(c)
      BY <2>2, <1>3 DEF ServiceCduFifo
    <3>3. Interval(Current(c).type) >= FastInterval /\ Interval(Current(c).type) \in Nat
      BY <1>1 DEF Interval
    <3>4. due'[c] \in Int /\ due'[c] >= due[c] - 1 + FastInterval
      BY <3>1, <3>2, <3>3, <2>1, <1>1 DEF NextDue, Passed
    <3>5. earned[c] >= 0 /\ earned[c] + due[c] >= FastInterval
      BY <3>1 DEF Unhurried
    <3> QED
      BY <3>1, <3>4, <3>5, <2>1, <1>1
  <2>3. CASE ~(c = CduChecker /\ Ready(c))
    <3>1. Size'[c] = Size[c] /\ due'[c] = Passed(c) /\ counter'[c] = counter[c]
      BY <2>3, ZenonT(60) DEF ServiceCduFifo, FifoInv, TypeOK, fifoVars
    <3>2. due'[c] = due[c] - 1 /\ ~Applies(c)
      BY <3>1, <1>3, <2>1 DEF Passed, Applies
    <3>3. earned[c] >= 0 /\ earned[c] + due[c] >= FastInterval
      BY <3>1, <1>3 DEF Unhurried
    <3> QED
      BY <3>1, <3>2, <3>3, <1>3, <2>1, <1>1
  <2> QED
    BY <2>2, <2>3
<1> QED
  BY <1>2, <1>3 DEF Unhurried

\* For any FIFOs, rates and lateness: no FIFO is ever ahead of the fast rate,
\* counted from when it was last empty.
THEOREM NeverTooFast == MSpec => []NeverAheadOfTheRate
<1>1. MInit => FifoInv /\ Unhurried
  BY FifoInit DEF MInit, Init, Unhurried
<1>2. FifoInv /\ Unhurried /\ [MNext]_mvars => FifoInv' /\ Unhurried'
  <2> SUFFICES ASSUME FifoInv, Unhurried, [MNext]_mvars PROVE FifoInv' /\ Unhurried'
    OBVIOUS
  <2>1. CASE UNCHANGED mvars
    <3>1. UNCHANGED vars /\ UNCHANGED <<Size, due, earned>>
      BY <2>1 DEF mvars, hvars, vars, fifoVars
    <3> QED
      BY <3>1, StolenKeeps DEF Unhurried
  <2>2. CASE OtherWork /\ History
    <3>1. FifoInv'
      BY <2>2, PushKeeps, StolenKeeps, SupplyAssumption DEF OtherWork
    <3> QED
      BY <3>1, <2>2, OtherWorkUnhurried
  <2>3. CASE ServiceCduFifo /\ History
    BY <2>3, ServiceKeeps, ServiceUnhurried
  <2> QED
    BY <2>1, <2>2, <2>3 DEF MNext, Serve
<1>3. Unhurried => NeverAheadOfTheRate
  BY DEF Unhurried, NeverAheadOfTheRate
<1> QED
  BY <1>1, <1>2, <1>3, PTL DEF MSpec
-----------------------------------------------------------------------------
(* The queue: an entry stands for a block of equal pulses, the entries in  *)
(* use for the pulses that wait.                                           *)

Entry == [type : IncTypes, left : Nat \ {0}]
Block(e) == [i \in 1 .. e.left |-> e.type]
Blocks(es) == [n \in 1 .. Len(es) |-> Block(es[n])]
Pulses(es) == FlattenSeq(Blocks(es))

LEMMA BlockType ==
  ASSUME NEW e \in Entry
  PROVE  /\ Block(e) \in Seq(IncTypes) /\ Len(Block(e)) = e.left /\ e.left \in Nat \ {0}
         /\ e.type \in IncTypes
         /\ \A i \in 1 .. e.left : Block(e)[i] = e.type
BY DEF Block, Entry

LEMMA BlocksType ==
  ASSUME NEW es \in Seq(Entry)
  PROVE  /\ Blocks(es) \in Seq(Seq(IncTypes)) /\ Len(Blocks(es)) = Len(es)
         /\ \A n \in 1 .. Len(es) : Blocks(es)[n] = Block(es[n])
<1>1. \A n \in 1 .. Len(es) : es[n] \in Entry
  OBVIOUS
<1>2. \A n \in 1 .. Len(es) : Block(es[n]) \in Seq(IncTypes)
  BY <1>1, BlockType
<1> QED
  BY <1>2 DEF Blocks

LEMMA PulsesType ==
  ASSUME NEW es \in Seq(Entry)
  PROVE  Pulses(es) \in Seq(IncTypes)
BY BlocksType, FlattenType DEF Pulses

LEMMA PulsesEmpty == Pulses(<<>>) = <<>>
<1>1. Blocks(<<>>) = <<>> /\ <<>> \in Seq(Seq(IncTypes))
  BY DEF Blocks
<1>2. FlattenSeq(<<>>) = <<>>
  BY DEF FlattenSeq
<1> QED
  BY <1>1, <1>2 DEF Pulses

\* An entry more at the end is a block more at the end, ...
LEMMA PulsesAppend ==
  ASSUME NEW es \in Seq(Entry), NEW e \in Entry
  PROVE  Pulses(Append(es, e)) = Pulses(es) \o Block(e)
<1>1. Block(e) \in Seq(IncTypes) /\ Blocks(es) \in Seq(Seq(IncTypes))
  BY BlockType, BlocksType
<1>2. Blocks(Append(es, e)) = Append(Blocks(es), Block(e))
  <2> DEFINE b == Blocks(Append(es, e))
             d == Append(Blocks(es), Block(e))
             k == Len(es)
  <2>1. /\ k \in Nat /\ Append(es, e) \in Seq(Entry) /\ Len(Append(es, e)) = k + 1
        /\ Append(es, e)[k + 1] = e /\ \A n \in 1 .. k : Append(es, e)[n] = es[n]
    OBVIOUS
  <2>2. b \in Seq(Seq(IncTypes)) /\ Len(b) = k + 1
        /\ \A n \in 1 .. k + 1 : b[n] = Block(Append(es, e)[n])
    BY <2>1, BlocksType
  <2>3. /\ d \in Seq(Seq(IncTypes)) /\ Len(d) = k + 1
        /\ d[k + 1] = Block(e) /\ \A n \in 1 .. k : d[n] = Blocks(es)[n]
    BY <1>1, BlocksType
  <2>4. \A n \in 1 .. k : Blocks(es)[n] = Block(es[n])
    BY BlocksType
  <2> HIDE DEF b, d, k
  <2>5. \A n \in 1 .. k + 1 : n \in 1 .. k \/ n = k + 1
    BY <2>1
  <2>6. \A n \in 1 .. k + 1 : b[n] = d[n]
    BY <2>1, <2>2, <2>3, <2>4, <2>5
  <2>7. b = d
    BY <2>2, <2>3, <2>6, SeqEqual
  <2> QED
    BY <2>7 DEF b, d
<1> QED
  BY <1>1, <1>2, FlattenAppend DEF Pulses

\* ... and one at the front a block at the front.
LEMMA PulsesFront ==
  ASSUME NEW es \in Seq(Entry), NEW e \in Entry
  PROVE  Pulses(<<e>> \o es) = Block(e) \o Pulses(es)
<1>1. Block(e) \in Seq(IncTypes) /\ Blocks(es) \in Seq(Seq(IncTypes))
  BY BlockType, BlocksType
<1>2. Blocks(<<e>> \o es) = <<Block(e)>> \o Blocks(es)
  <2> DEFINE b == Blocks(<<e>> \o es)
             d == <<Block(e)>> \o Blocks(es)
             k == Len(es)
  <2>1. /\ k \in Nat /\ <<e>> \o es \in Seq(Entry) /\ Len(<<e>> \o es) = k + 1
        /\ (<<e>> \o es)[1] = e /\ \A n \in 2 .. k + 1 : (<<e>> \o es)[n] = es[n - 1]
    OBVIOUS
  <2>2. b \in Seq(Seq(IncTypes)) /\ Len(b) = k + 1
        /\ \A n \in 1 .. k + 1 : b[n] = Block((<<e>> \o es)[n])
    BY <2>1, BlocksType
  <2>3. Len(Blocks(es)) = k
    BY BlocksType
  <2>4. /\ d \in Seq(Seq(IncTypes)) /\ Len(d) = k + 1
        /\ d[1] = Block(e) /\ \A n \in 2 .. k + 1 : d[n] = Blocks(es)[n - 1]
    BY <1>1, <2>3
  <2>5. \A n \in 1 .. k : Blocks(es)[n] = Block(es[n])
    BY BlocksType
  <2> HIDE DEF b, d, k
  <2>6. \A n \in 1 .. k + 1 : n = 1 \/ (n \in 2 .. k + 1 /\ n - 1 \in 1 .. k)
    BY <2>1
  <2>7. \A n \in 1 .. k + 1 : b[n] = d[n]
    BY <2>1, <2>2, <2>4, <2>5, <2>6
  <2>8. b = d
    BY <2>2, <2>4, <2>7, SeqEqual
  <2> QED
    BY <2>8 DEF b, d
<1> QED
  BY <1>1, <1>2, FlattenFront DEF Pulses

\* A pulse of its type makes the last entry's block one longer.
LEMMA PulsesJoin ==
  ASSUME NEW es \in Seq(Entry), NEW e \in Entry, NEW f \in Entry,
         f.type = e.type, f.left = e.left + 1
  PROVE  Pulses(Append(es, f)) = Append(Pulses(Append(es, e)), e.type)
<1>1. Block(f) = Append(Block(e), e.type)
  <2>1. /\ Block(f) \in Seq(IncTypes) /\ Len(Block(f)) = e.left + 1
        /\ \A i \in 1 .. e.left + 1 : Block(f)[i] = e.type
    BY BlockType
  <2>2. /\ Append(Block(e), e.type) \in Seq(IncTypes) /\ Len(Append(Block(e), e.type)) = e.left + 1
        /\ \A i \in 1 .. e.left + 1 : Append(Block(e), e.type)[i] = e.type
    BY BlockType
  <2> QED
    BY <2>1, <2>2, SeqEqual
<1>2. /\ Pulses(es) \in Seq(IncTypes) /\ Block(e) \in Seq(IncTypes) /\ e.type \in IncTypes
  BY PulsesType, BlockType
<1>3. \A s, t \in Seq(IncTypes), x \in IncTypes : s \o Append(t, x) = Append(s \o t, x)
  OBVIOUS
<1> QED
  <2>1. /\ Pulses(Append(es, f)) = Pulses(es) \o Block(f)
        /\ Pulses(Append(es, e)) = Pulses(es) \o Block(e)
    BY PulsesAppend
  <2> QED
    BY <1>1, <1>2, <1>3, <2>1

\* A pulse of another type is a new entry's.
LEMMA PulsesNew ==
  ASSUME NEW es \in Seq(Entry), NEW e \in Entry, e.left = 1
  PROVE  Pulses(Append(es, e)) = Append(Pulses(es), e.type)
<1>1. Block(e) = <<e.type>>
  BY BlockType DEF Block
<1>2. Pulses(es) \in Seq(IncTypes) /\ e.type \in IncTypes
  <2>1. Pulses(es) \in Seq(IncTypes)
    BY PulsesType
  <2>2. e.type \in IncTypes
    BY BlockType
  <2> QED
    BY <2>1, <2>2
<1>3. \A s \in Seq(IncTypes), x \in IncTypes : s \o <<x>> = Append(s, x)
  OBVIOUS
<1> QED
  BY <1>1, <1>2, <1>3, PulsesAppend

\* The first pulse is one of the first entry's; without it, the entry has one
\* less or is gone.
LEMMA PulsesServe ==
  ASSUME NEW es \in Seq(Entry), NEW e \in Entry
  PROVE  /\ Pulses(<<e>> \o es) # <<>> /\ Head(Pulses(<<e>> \o es)) = e.type
         /\ e.left = 1 => Tail(Pulses(<<e>> \o es)) = Pulses(es)
         /\ \A f \in Entry : f.type = e.type /\ f.left = e.left - 1
              => Tail(Pulses(<<e>> \o es)) = Pulses(<<f>> \o es)
<1> DEFINE ps == Pulses(es)
<1>1. /\ ps \in Seq(IncTypes) /\ Block(e) \in Seq(IncTypes) /\ Len(Block(e)) >= 1
      /\ Block(e)[1] = e.type
  <2>1. ps \in Seq(IncTypes)
    BY PulsesType
  <2>2. /\ Block(e) \in Seq(IncTypes) /\ Len(Block(e)) = e.left /\ e.left \in Nat \ {0}
        /\ \A i \in 1 .. e.left : Block(e)[i] = e.type
    BY BlockType
  <2>3. 1 \in 1 .. e.left /\ Len(Block(e)) >= 1
    BY <2>2
  <2> HIDE DEF ps
  <2> QED
    BY <2>1, <2>2, <2>3
<1>2. Pulses(<<e>> \o es) = Block(e) \o ps
  BY PulsesFront
<1>3. \A s, t \in Seq(IncTypes) :
        Len(s) >= 1 => s \o t # <<>> /\ Head(s \o t) = s[1] /\ Tail(s \o t) = Tail(s) \o t
  <2> SUFFICES ASSUME NEW s \in Seq(IncTypes), NEW t \in Seq(IncTypes), Len(s) >= 1
               PROVE  s \o t # <<>> /\ Head(s \o t) = s[1] /\ Tail(s \o t) = Tail(s) \o t
    OBVIOUS
  <2>1. s \o t \in Seq(IncTypes) /\ Len(s \o t) = Len(s) + Len(t)
    OBVIOUS
  <2>2. s \o t # <<>> /\ Head(s \o t) = s[1]
    BY <2>1
  <2>3. Tail(s \o t) = Tail(s) \o t
    <3>1. /\ Tail(s \o t) \in Seq(IncTypes) /\ Len(Tail(s \o t)) = Len(s) + Len(t) - 1
          /\ \A i \in 1 .. Len(s) + Len(t) - 1 : Tail(s \o t)[i] = (s \o t)[i + 1]
      BY <2>1, <2>2, HeadTailProperties
    <3>2. /\ Tail(s) \in Seq(IncTypes) /\ Len(Tail(s)) = Len(s) - 1
          /\ \A i \in 1 .. Len(s) - 1 : Tail(s)[i] = s[i + 1]
      BY HeadTailProperties
    <3>3. Tail(s) \o t \in Seq(IncTypes) /\ Len(Tail(s) \o t) = Len(s) + Len(t) - 1
      BY <3>2
    <3>4. ASSUME NEW i \in 1 .. Len(s) + Len(t) - 1 PROVE Tail(s \o t)[i] = (Tail(s) \o t)[i]
      <4>1. Tail(s \o t)[i] = (s \o t)[i + 1]
        BY <3>1
      <4>2. (s \o t)[i + 1] = IF i + 1 <= Len(s) THEN s[i + 1] ELSE t[i + 1 - Len(s)]
        OBVIOUS
      <4>3. (Tail(s) \o t)[i] = IF i <= Len(s) - 1 THEN Tail(s)[i] ELSE t[i - (Len(s) - 1)]
        BY <3>2, ConcatProperties
      <4>4. i + 1 - Len(s) = i - (Len(s) - 1) /\ (i + 1 <= Len(s) <=> i <= Len(s) - 1)
        OBVIOUS
      <4> QED
        BY <4>1, <4>2, <4>3, <4>4, <3>2
    <3> QED
      BY <3>1, <3>3, <3>4, SeqEqual
  <2> QED
    BY <2>2, <2>3
<1>4. e.left = 1 => Tail(Block(e)) \o ps = ps
  <2> SUFFICES ASSUME e.left = 1 PROVE Tail(Block(e)) \o ps = ps
    OBVIOUS
  <2>1. Tail(Block(e)) = <<>>
    BY BlockType DEF Block
  <2> QED
    BY <2>1, <1>1, ConcatEmptySeq
<1>5. ASSUME NEW f \in Entry, f.type = e.type, f.left = e.left - 1
      PROVE  Tail(Block(e)) \o ps = Pulses(<<f>> \o es)
  <2>1. Tail(Block(e)) = Block(f)
    <3>1. /\ Block(f) \in Seq(IncTypes) /\ Len(Block(f)) = e.left - 1
          /\ \A i \in 1 .. e.left - 1 : Block(f)[i] = e.type
      BY <1>5, BlockType
    <3>2. Block(e) \in Seq(IncTypes) /\ Len(Block(e)) = e.left /\ e.left \in Nat \ {0}
          /\ \A i \in 1 .. e.left : Block(e)[i] = e.type
      BY BlockType
    <3>3. /\ Tail(Block(e)) \in Seq(IncTypes) /\ Len(Tail(Block(e))) = e.left - 1
          /\ \A i \in 1 .. e.left - 1 : Tail(Block(e))[i] = e.type
      BY <3>2
    <3> QED
      BY <3>1, <3>3, SeqEqual
  <2> QED
    BY <2>1, PulsesFront
<1> HIDE DEF ps
<1>6. /\ Block(e) \o ps # <<>> /\ Head(Block(e) \o ps) = Block(e)[1]
      /\ Tail(Block(e) \o ps) = Tail(Block(e)) \o ps
  BY <1>1, <1>3
<1>7. Pulses(<<e>> \o es) # <<>> /\ Head(Pulses(<<e>> \o es)) = e.type
  BY <1>1, <1>2, <1>6, Zenon
<1>8. e.left = 1 => Tail(Pulses(<<e>> \o es)) = ps
  BY <1>2, <1>4, <1>6, Zenon
<1>9. \A f \in Entry : f.type = e.type /\ f.left = e.left - 1
        => Tail(Pulses(<<e>> \o es)) = Pulses(<<f>> \o es)
  BY <1>2, <1>5, <1>6, Zenon
<1> QED
  BY <1>7, <1>8, <1>9 DEF ps

-----------------------------------------------------------------------------
(* The runs of equal pulses are the entries.                               *)

Last1(s) == s[Len(s)]

LEMMA RunsIs ==
  \A q : Queue!Runs(q) = Cardinality({i \in 1 .. Len(q) : i = 1 \/ q[i] # q[i - 1]})
BY DEF Queue!Runs, Queue!Cardinality, Cardinality

\* A block of other pulses is a run more.
LEMMA RunMore ==
  ASSUME NEW s \in Seq(IncTypes), NEW e \in Entry, s # <<>> => Last1(s) # e.type
  PROVE  /\ Queue!Runs(s \o Block(e)) = Queue!Runs(s) + 1
         /\ s \o Block(e) # <<>> /\ Last1(s \o Block(e)) = e.type
<1> DEFINE b == Block(e)
           t == s \o Block(e)
           k == Len(s)
           Edges(q) == {i \in 1 .. Len(q) : i = 1 \/ q[i] # q[i - 1]}
<1>1. /\ b \in Seq(IncTypes) /\ Len(b) \in Nat \ {0} /\ \A i \in 1 .. Len(b) : b[i] = e.type
  BY BlockType
<1>2. /\ t \in Seq(IncTypes) /\ Len(t) = k + Len(b) /\ k \in Nat
      /\ \A i \in 1 .. k : t[i] = s[i]
      /\ \A i \in k + 1 .. k + Len(b) : t[i] = e.type
  <2> HIDE DEF b
  <2>1. t \in Seq(IncTypes) /\ Len(t) = k + Len(b) /\ k \in Nat
    BY <1>1 DEF b
  <2>2. \A i \in 1 .. k + Len(b) : t[i] = IF i <= k THEN s[i] ELSE b[i - k]
    BY <1>1, ConcatProperties DEF b
  <2>3. ASSUME NEW i \in 1 .. k PROVE t[i] = s[i]
    BY <2>1, <2>2, <1>1
  <2>4. ASSUME NEW i \in k + 1 .. k + Len(b) PROVE t[i] = e.type
    BY <2>1, <2>2, <1>1
  <2> QED
    BY <2>1, <2>3, <2>4
<1>3. k # 0 => s[k] # e.type
  BY DEF Last1
<1> HIDE DEF b, t, k
<1>4. Edges(t) = Edges(s) \cup {k + 1}
  <2>1. ASSUME NEW i \in 1 .. Len(t) PROVE i \in Edges(t) <=> i \in Edges(s) \cup {k + 1}
    <3>1. CASE i <= k
      <4>1. i \in 1 .. k /\ i # k + 1 /\ (i # 1 => i - 1 \in 1 .. k)
        BY <3>1, <1>2
      <4>2. t[i] = s[i] /\ (i # 1 => t[i - 1] = s[i - 1])
        BY <4>1, <1>2
      <4> QED
        BY <4>1, <4>2 DEF k
    <3>2. CASE i = k + 1
      <4>1. t[i] = e.type /\ (i # 1 => t[i - 1] = s[k])
        BY <3>2, <1>1, <1>2
      <4>2. i # 1 => k # 0
        BY <3>2
      <4> QED
        BY <3>2, <4>1, <4>2, <1>3
    <3>3. CASE i > k + 1
      <4>1. i \in k + 1 .. k + Len(b) /\ i - 1 \in k + 1 .. k + Len(b) /\ i # 1
        BY <3>3, <1>1, <1>2
      <4>2. t[i] = t[i - 1]
        BY <4>1, <1>2
      <4>3. i \notin 1 .. k /\ i # k + 1
        BY <3>3, <1>2
      <4> QED
        BY <4>1, <4>2, <4>3 DEF k
    <3> QED
      BY <3>1, <3>2, <3>3, <1>2
  <2>2. Edges(s) \cup {k + 1} \subseteq 1 .. Len(t)
    <3>1. Edges(s) \subseteq 1 .. k
      BY DEF k
    <3>2. 1 .. k \cup {k + 1} \subseteq 1 .. Len(t)
      BY <1>1, <1>2
    <3> QED
      BY <3>1, <3>2
  <2>3. Edges(t) \subseteq 1 .. Len(t)
    OBVIOUS
  <2> HIDE DEF Edges
  <2> QED
    BY <2>1, <2>2, <2>3
<1>5. IsFiniteSet(Edges(s)) /\ k + 1 \notin Edges(s) /\ Cardinality(Edges(s)) \in Nat
  <2>1. Edges(s) \subseteq 1 .. k
    BY DEF k
  <2>2. k + 1 \notin 1 .. k /\ IsFiniteSet(1 .. k)
    BY FS_Interval, <1>2
  <2> HIDE DEF Edges
  <2> QED
    BY <2>1, <2>2, FS_Subset, FS_CardinalityType
<1>6. Cardinality(Edges(t)) = Cardinality(Edges(s)) + 1
  <2> HIDE DEF Edges
  <2> QED
    BY <1>4, <1>5, FS_AddElement
<1>7. t # <<>> /\ t[Len(t)] = e.type
  <2>1. Len(t) \in k + 1 .. k + Len(b) /\ Len(t) # 0
    BY <1>1, <1>2
  <2> QED
    BY <2>1, <1>2
<1> QED
  BY <1>6, <1>7, RunsIs DEF Last1, t

\* Neighbours differ.
Alternating(es) == \A n \in 2 .. Len(es) : es[n].type # es[n - 1].type

LEMMA RunsAreEntries ==
  ASSUME NEW es \in Seq(Entry), Alternating(es)
  PROVE  /\ Queue!Runs(Pulses(es)) = Len(es)
         /\ es # <<>> => Pulses(es) # <<>> /\ Last1(Pulses(es)) = es[Len(es)].type
<1> DEFINE k == Len(es)
           First(n) == SubSeq(es, 1, n)
           Good(n) == /\ Queue!Runs(Pulses(First(n))) = n
                      /\ n = 0 => Pulses(First(n)) = <<>>
                      /\ n # 0 => /\ Pulses(First(n)) # <<>>
                                  /\ Last1(Pulses(First(n))) = es[n].type
           Bad == {n \in 0 .. k : ~Good(n)}
<1>1. k \in Nat /\ First(k) = es /\ First(0) = <<>>
  OBVIOUS
<1>2. ASSUME NEW n \in 1 .. k
      PROVE  /\ First(n - 1) \in Seq(Entry) /\ First(n) = Append(First(n - 1), es[n])
             /\ es[n] \in Entry
  OBVIOUS
<1>3. Good(0)
  <2>1. Queue!Runs(<<>>) = 0
    <3>1. {i \in 1 .. 0 : i = 1 \/ <<>>[i] # <<>>[i - 1]} = {}
      OBVIOUS
    <3>2. Queue!Runs(<<>>) = Cardinality({i \in 1 .. 0 : i = 1 \/ <<>>[i] # <<>>[i - 1]})
      BY RunsIs
    <3> QED
      BY <3>1, <3>2, FS_EmptySet
  <2> QED
    BY <2>1, <1>1, PulsesEmpty
<1> HIDE DEF First
<1>4. ASSUME NEW n \in 1 .. k, Good(n - 1) PROVE Good(n)
  <2> DEFINE s == Pulses(First(n - 1))
  <2>1. s \in Seq(IncTypes) /\ Pulses(First(n)) = s \o Block(es[n])
    BY <1>2, PulsesType, PulsesAppend
  <2>2. s # <<>> => Last1(s) # es[n].type
    <3> SUFFICES ASSUME s # <<>> PROVE Last1(s) # es[n].type
      OBVIOUS
    <3>1. n - 1 # 0 /\ Last1(s) = es[n - 1].type
      BY <1>4
    <3>2. n \in 2 .. k
      BY <3>1, <1>1
    <3> QED
      BY <3>1, <3>2 DEF Alternating
  <2>3. es[n] \in Entry /\ Queue!Runs(s) = n - 1
    BY <1>2, <1>4
  <2> HIDE DEF s
  <2>4. /\ Queue!Runs(s \o Block(es[n])) = (n - 1) + 1
        /\ s \o Block(es[n]) # <<>> /\ Last1(s \o Block(es[n])) = es[n].type
    BY <2>1, <2>2, <2>3, RunMore
  <2>5. (n - 1) + 1 = n /\ n # 0
    BY <1>1
  <2> QED
    BY <2>1, <2>4, <2>5
<1>5. Bad = {}
  <2> SUFFICES ASSUME Bad # {} PROVE FALSE
    OBVIOUS
  <2>1. PICK n \in Bad : \A m \in Bad : n <= m
    <3>1. Bad \in SUBSET Nat
      <4> HIDE DEF Good
      <4> QED BY <1>1
    <3> HIDE DEF Bad
    <3> QED BY <3>1, LeastNat
  <2>2. n \in 0 .. k /\ ~Good(n) /\ n # 0
    <3> HIDE DEF Good
    <3> QED BY <1>3
  <2>3. n \in 1 .. k /\ n - 1 \in 0 .. k /\ ~(n <= n - 1)
    <3> HIDE DEF Bad, Good, k
    <3> QED BY <2>2, <1>1
  <2>4. n - 1 \notin Bad
    <3> HIDE DEF Bad
    <3> QED BY <2>1, <2>3
  <2>5. Good(n - 1)
    <3> HIDE DEF Good
    <3> QED BY <2>3, <2>4
  <2> QED
    BY <2>2, <2>3, <2>5, <1>4
<1>6. Good(k)
  <2>1. k \in 0 .. k
    BY <1>1
  <2> HIDE DEF Good
  <2> QED BY <2>1, <1>5
<1>7. es # <<>> => k # 0
  OBVIOUS
<1> QED
  BY <1>1, <1>6, <1>7

-----------------------------------------------------------------------------
(* The entries in use, and what an action does to them.                    *)

InUse(c) == [n \in 1 .. Size[c] |-> Counts[c][Slot(c, n - 1)]]

LEMMA InUseType ==
  ASSUME FifoInv, NEW c \in Cdus
  PROVE  /\ InUse(c) \in Seq(Entry) /\ Len(InUse(c)) = Size[c]
         /\ Size[c] \in 0 .. MAX_CDU_FIFO_ENTRIES
         /\ \A n \in 1 .. Size[c] : InUse(c)[n] = Counts[c][Slot(c, n - 1)]
<1>1. /\ Size[c] \in 0 .. MAX_CDU_FIFO_ENTRIES /\ MAX_CDU_FIFO_ENTRIES \in Nat
      /\ Counts[c] \in [Slots -> [type : IncTypes, left : Nat]]
  BY FifoAssumption DEF FifoInv, TypeOK
<1>2. ASSUME NEW n \in 1 .. Size[c] PROVE Counts[c][Slot(c, n - 1)] \in Entry
  <2>1. n - 1 \in 0 .. MAX_CDU_FIFO_ENTRIES - 1 /\ n - 1 \in 0 .. Size[c] - 1
    BY <1>1
  <2>2. Slot(c, n - 1) \in Slots
    BY <2>1, SlotsInRing DEF FifoInv
  <2>3. Counts[c][Slot(c, n - 1)].left >= 1
    BY <2>1 DEF FifoInv, EntriesInUse
  <2>4. \A e \in [type : IncTypes, left : Nat] : e.left >= 1 => e \in Entry
    BY DEF Entry
  <2> QED
    BY <1>1, <2>2, <2>3, <2>4
<1> QED
  BY <1>1, <1>2 DEF InUse

\* The same of the next state.
InUseTyped ==
  \A c \in Cdus : FifoInv =>
    /\ InUse(c) \in Seq(Entry) /\ Len(InUse(c)) = Size[c]
    /\ \A n \in 1 .. Size[c] : InUse(c)[n] = Counts[c][Slot(c, n - 1)]

LEMMA InUseTypedNow == InUseTyped
BY InUseType DEF InUseTyped

LEMMA InUseTypedNext == InUseTyped'
BY InUseTypedNow, PTL

LEMMA InUseNext ==
  ASSUME FifoInv', NEW c \in Cdus
  PROVE  /\ InUse(c)' \in Seq(Entry) /\ Len(InUse(c)') = Size'[c]
         /\ \A n \in 1 .. Size'[c] : InUse(c)'[n] = Counts'[c][Slot(c, n - 1)']
BY InUseTypedNext DEF InUseTyped

\* What waits is what the entries in use stand for.
LEMMA PendingIsInUse ==
  ASSUME FifoInv, NEW c \in Cdus
  PROVE  Pending(c) = Pulses(InUse(c))
<1>1. \A n \in 1 .. Size[c] : InUse(c)[n] = Counts[c][Slot(c, n - 1)]
  BY InUseType
<1>2. Len(InUse(c)) = Size[c]
  BY InUseType
<1>3. Blocks(InUse(c)) = [n \in 1 .. Size[c] |-> Block(Counts[c][Slot(c, n - 1)])]
  BY <1>1, <1>2 DEF Blocks
<1> QED
  BY <1>3 DEF Pending, Pulses, Block

LEMMA InUseKept ==
  ASSUME NEW c \in Cdus, Ptr'[c] = Ptr[c], Size'[c] = Size[c], Counts'[c] = Counts[c]
  PROVE  InUse(c)' = InUse(c)
BY DEF InUse, Slot

\* A pulse for one counter leaves the FIFOs of the others as they are.
LEMMA PushElsewhere ==
  ASSUME FifoInv, NEW c \in Cdus, NEW type \in IncTypes, Push(c, type), NEW d \in Cdus \ {c}
  PROVE  Ptr'[d] = Ptr[d] /\ Size'[d] = Size[d] /\ Counts'[d] = Counts[d]
<1>1. /\ Ptr \in [Cdus -> Slots] /\ Size \in [Cdus -> 0 .. MAX_CDU_FIFO_ENTRIES]
      /\ Counts \in [Cdus -> [Slots -> [type : IncTypes, left : Nat]]] /\ d \in Cdus /\ d # c
  BY DEF FifoInv, TypeOK
<1>2. CASE Size[c] = 0
  <2>1. /\ Ptr' = [Ptr EXCEPT ![c] = 0] /\ Size' = [Size EXCEPT ![c] = 1]
        /\ Counts' = [Counts EXCEPT ![c][0] = [type |-> type, left |-> 1]]
    BY <1>2 DEF Push, PushCduFifo
  <2> QED
    BY <1>1, <2>1
<1>3. CASE Size[c] # 0
  <2>1. \/ /\ Counts' = [Counts EXCEPT ![c][LastSlot(c)].left = @ + 1]
           /\ Ptr' = Ptr /\ Size' = Size
        \/ /\ Size' = [Size EXCEPT ![c] = @ + 1] /\ Ptr' = Ptr
           /\ Counts' = [Counts EXCEPT ![c][Slot(c, Size[c])] = [type |-> type, left |-> 1]]
        \/ Ptr' = Ptr /\ Size' = Size /\ Counts' = Counts
    BY <1>3 DEF Push, PushCduFifo, fifoVars
  <2>2. CASE /\ Counts' = [Counts EXCEPT ![c][LastSlot(c)].left = @ + 1]
             /\ Ptr' = Ptr /\ Size' = Size
    BY <1>1, <2>2
  <2>3. CASE /\ Size' = [Size EXCEPT ![c] = @ + 1] /\ Ptr' = Ptr
             /\ Counts' = [Counts EXCEPT ![c][Slot(c, Size[c])] = [type |-> type, left |-> 1]]
    BY <1>1, <2>3
  <2> QED
    BY <2>1, <2>2, <2>3
<1> QED
  BY <1>2, <1>3

\* A function on 1 .. k + 1 is what it is on 1 .. k and one more.
LEMMA SplitLast ==
  ASSUME NEW S, NEW s \in Seq(S), s # <<>>
  PROVE  /\ SubSeq(s, 1, Len(s) - 1) \in Seq(S) /\ s[Len(s)] \in S
         /\ s = Append(SubSeq(s, 1, Len(s) - 1), s[Len(s)])
OBVIOUS

\* A pulse joins the last entry, or makes a new one, or is dropped because
\* the entries are used up.
LEMMA PushEffect ==
  ASSUME FifoInv, FifoInv', NEW c \in Cdus, NEW type \in IncTypes, Push(c, type)
  PROVE  /\ \A d \in Cdus \ {c} : InUse(d)' = InUse(d)
         /\ \/ \E es \in Seq(Entry), e \in Entry, f \in Entry :
                 /\ InUse(c) = Append(es, e) /\ InUse(c)' = Append(es, f)
                 /\ e.type = type /\ f.type = type /\ f.left = e.left + 1
            \/ \E e \in Entry :
                 /\ e.type = type /\ e.left = 1 /\ InUse(c)' = Append(InUse(c), e)
                 /\ InUse(c) # <<>> => InUse(c)[Len(InUse(c))].type # type
            \/ /\ InUse(c)' = InUse(c) /\ Size[c] = MAX_CDU_FIFO_ENTRIES
               /\ InUse(c)[Len(InUse(c))].type # type
<1> DEFINE N == MAX_CDU_FIFO_ENTRIES
           us == InUse(c)
           k == Size[c]
           fresh == [type |-> type, left |-> 1]
<1>1. N \in Nat \ {0} /\ 0 \in Slots
  BY FifoAssumption DEF Slots
<1>t. /\ Ptr[c] \in Slots /\ k \in 0 .. N
      /\ Counts[c] \in [Slots -> [type : IncTypes, left : Nat]]
      /\ Counts \in [Cdus -> [Slots -> [type : IncTypes, left : Nat]]]
  BY DEF FifoInv, TypeOK
<1>2. /\ us \in Seq(Entry) /\ Len(us) = k
      /\ \A n \in 1 .. k : us[n] = Counts[c][Slot(c, n - 1)]
  BY InUseType
<1>3. /\ us' \in Seq(Entry) /\ Len(us') = Size'[c]
      /\ \A n \in 1 .. Size'[c] : us'[n] = Counts'[c][Slot(c, n - 1)']
  BY InUseNext
<1>4. fresh \in Entry /\ fresh.type = type /\ fresh.left = 1
  BY DEF Entry
<1>5. \A d \in Cdus \ {c} : InUse(d)' = InUse(d)
  <2>1. ASSUME NEW d \in Cdus \ {c}
        PROVE  Ptr'[d] = Ptr[d] /\ Size'[d] = Size[d] /\ Counts'[d] = Counts[d]
    BY PushElsewhere
  <2> QED
    BY <2>1, InUseKept
<1>6. CASE k = 0
  <2>1. /\ Ptr' = [Ptr EXCEPT ![c] = 0] /\ Size' = [Size EXCEPT ![c] = 1]
        /\ Counts' = [Counts EXCEPT ![c] = [Counts[c] EXCEPT ![0] = fresh]]
    BY <1>6 DEF Push, PushCduFifo
  <2>2. Ptr'[c] = 0 /\ Size'[c] = 1 /\ Counts'[c][0] = fresh
    <3> HIDE DEF fresh
    <3> QED
      BY <2>1, <1>1, <1>t DEF FifoInv, TypeOK
  <2>3. Slot(c, 0)' = 0
    BY <2>2, <1>1 DEF Slot
  <2>4. us'[1] = fresh
    <3>1. us'[1] = Counts'[c][Slot(c, 1 - 1)']
      BY <1>3, <2>2
    <3> QED
      BY <3>1, <2>2, <2>3
  <2> HIDE DEF fresh
  <2>5. us = <<>>
    BY <1>2, <1>6
  <2>6. us' = Append(us, fresh)
    BY <1>3, <2>2, <2>4, <2>5, <1>4
  <2> QED
    BY <1>4, <1>5, <2>5, <2>6
<1>7. CASE k # 0
  <2> DEFINE last == LastSlot(c)
             front == SubSeq(us, 1, k - 1)
             e == Counts[c][last]
  <2>1. k \in 1 .. N /\ k - 1 \in 0 .. N - 1
    BY <1>1, <1>t, <1>7
  <2>2. last \in Slots /\ e = us[k] /\ last = Slot(c, k - 1)
    BY <2>1, <1>2, SlotsInRing DEF LastSlot, FifoInv
  <2>3. us # <<>> /\ front \in Seq(Entry) /\ e \in Entry /\ us = Append(front, e)
    <3>1. us # <<>>
      BY <1>2, <1>7
    <3> HIDE DEF us, e, k
    <3> QED
      BY <3>1, <1>2, <2>2, SplitLast
  <2>4. CASE /\ Joins(c, type)
             /\ Counts' = [Counts EXCEPT ![c][last].left = @ + 1]
             /\ UNCHANGED <<Ptr, Size, IntervalType>>
    <3> DEFINE f == [e EXCEPT !.left = @ + 1]
    <3>1. f \in Entry /\ f.type = e.type /\ f.left = e.left + 1 /\ e.type = type
      BY <2>3, <2>4 DEF Entry, Joins
    <3>2. Counts'[c] = [Counts[c] EXCEPT ![last] = f]
      BY <2>4, <1>t
    <3> HIDE DEF f
    <3>3. Size'[c] = k /\ \A n : Slot(c, n)' = Slot(c, n)
      BY <2>4 DEF Slot
    <3>4. us'[k] = f
      <4>1. PICK m \in 1 .. Size'[c] : m = k
        BY <1>1, <2>1, <3>3
      <4>2. us'[m] = Counts'[c][Slot(c, m - 1)'] /\ Slot(c, m - 1)' = Slot(c, m - 1)
        BY <1>3, <3>3
      <4> QED
        BY <4>1, <4>2, <3>2, <2>2, <1>t
    <3>5. ASSUME NEW n \in 1 .. k - 1 PROVE us'[n] = us[n]
      <4>1. n \in 1 .. k /\ n - 1 \in 0 .. N - 1 /\ n - 1 # k - 1
        BY <1>1, <2>1
      <4>2. Slot(c, n - 1) \in Slots /\ Slot(c, n - 1) # last
        BY <4>1, <2>1, <2>2, SlotsInRing DEF FifoInv
      <4>3. us'[n] = Counts'[c][Slot(c, n - 1)'] /\ us[n] = Counts[c][Slot(c, n - 1)]
        BY <4>1, <1>2, <1>3, <3>3
      <4> QED
        BY <4>2, <4>3, <3>2, <3>3, <1>t
    <3>6. us' = Append(front, f)
      <4> HIDE DEF us, k, e
      <4>1. /\ Append(front, f) \in Seq(Entry) /\ Len(Append(front, f)) = k
            /\ Append(front, f)[k] = f /\ \A n \in 1 .. k - 1 : Append(front, f)[n] = us[n]
        BY <1>2, <2>1, <2>3, <3>1
      <4>2. \A n \in 1 .. k : n = k \/ n \in 1 .. k - 1
        BY <2>1
      <4>3. \A n \in 1 .. k : us'[n] = Append(front, f)[n]
        BY <4>1, <4>2, <3>4, <3>5
      <4> QED
        BY <4>1, <4>3, <1>3, <3>3, SeqEqual
    <3> QED
      BY <1>5, <2>3, <3>1, <3>6
  <2>5. CASE /\ ~Joins(c, type) /\ ~Full(c, type)
             /\ Size' = [Size EXCEPT ![c] = @ + 1]
             /\ Counts' = [Counts EXCEPT ![c][Slot(c, Size[c])] = fresh]
             /\ UNCHANGED <<Ptr, IntervalType>>
    <3>1. k \in 0 .. N - 1
      BY <2>5, <1>1, <1>t DEF Full
    <3>2. Slot(c, k) \in Slots
      BY <3>1, SlotsInRing DEF FifoInv
    <3>3. Counts'[c] = [Counts[c] EXCEPT ![Slot(c, k)] = fresh]
      BY <2>5, <1>t
    <3> HIDE DEF fresh
    <3>4. Size'[c] = k + 1 /\ \A n : Slot(c, n)' = Slot(c, n)
      BY <2>5 DEF Slot, FifoInv, TypeOK
    <3>5. us'[k + 1] = fresh
      <4>1. PICK m \in Nat : m = k
        BY <3>1
      <4>2. m + 1 \in 1 .. Size'[c] /\ (m + 1) - 1 = m
        BY <4>1, <3>1, <3>4
      <4>3. us'[m + 1] = Counts'[c][Slot(c, (m + 1) - 1)']
        BY <4>2, <1>3
      <4>4. Slot(c, (m + 1) - 1)' = Slot(c, m)
        BY <4>2, <3>4
      <4>5. Counts'[c][Slot(c, k)] = fresh
        BY <3>2, <3>3, <1>t
      <4> QED
        BY <4>1, <4>3, <4>4, <4>5
    <3>6. ASSUME NEW n \in 1 .. k PROVE us'[n] = us[n]
      <4>1. n \in 1 .. k + 1 /\ n - 1 \in 0 .. N - 1 /\ n - 1 # k
        BY <1>1, <3>1
      <4>2. Slot(c, n - 1) \in Slots /\ Slot(c, n - 1) # Slot(c, k)
        BY <4>1, <3>1, SlotsInRing DEF FifoInv
      <4>3. us'[n] = Counts'[c][Slot(c, n - 1)'] /\ us[n] = Counts[c][Slot(c, n - 1)]
        BY <4>1, <1>2, <1>3, <3>4
      <4> QED
        BY <4>2, <4>3, <3>3, <3>4, <1>t
    <3>7. us' = Append(us, fresh)
      <4> HIDE DEF us, k, e
      <4>1. /\ Append(us, fresh) \in Seq(Entry) /\ Len(Append(us, fresh)) = k + 1
            /\ Append(us, fresh)[k + 1] = fresh
            /\ \A n \in 1 .. k : Append(us, fresh)[n] = us[n]
        BY <1>2, <2>1, <1>4
      <4>2. \A n \in 1 .. k + 1 : n = k + 1 \/ n \in 1 .. k
        BY <2>1
      <4>3. \A n \in 1 .. k + 1 : us'[n] = Append(us, fresh)[n]
        BY <4>1, <4>2, <3>5, <3>6
      <4> QED
        BY <4>1, <4>3, <1>3, <3>4, SeqEqual
    <3>8. us[Len(us)].type # type
      BY <2>2, <2>5, <1>2 DEF Joins
    <3> QED
      BY <1>4, <1>5, <3>7, <3>8
  <2>6. CASE Full(c, type) /\ UNCHANGED fifoVars
    <3>1. InUse(c)' = InUse(c)
      BY <2>6, InUseKept DEF fifoVars
    <3>2. k = N /\ us[Len(us)].type # type
      BY <2>2, <2>6, <1>2, <1>1, <1>t DEF Full, Joins
    <3> QED
      BY <1>5, <3>1, <3>2
  <2> QED
    BY <1>7, <2>4, <2>5, <2>6 DEF Push, PushCduFifo
<1> QED
  BY <1>6, <1>7

LEMMA SplitFirst ==
  ASSUME NEW S, NEW s \in Seq(S), s # <<>>
  PROVE  /\ Tail(s) \in Seq(S) /\ s[1] \in S /\ s = <<s[1]>> \o Tail(s)
         /\ Len(Tail(s)) = Len(s) - 1 /\ \A n \in 1 .. Len(s) - 1 : Tail(s)[n] = s[n + 1]
OBVIOUS

\* The first entry gives a pulse, and goes when that was its last.
LEMMA ServiceEffect ==
  ASSUME FifoInv, FifoInv', NEW c \in Cdus, c = CduChecker, ServiceCduFifo, Ready(c)
  PROVE  /\ \A d \in Cdus \ {c} : InUse(d)' = InUse(d)
         /\ \E es \in Seq(Entry), e \in Entry :
              /\ InUse(c) = <<e>> \o es
              /\ counter' = [counter EXCEPT ![c] =
                   IF e.type.down THEN CounterMCDU(@) ELSE CounterPCDU(@)]
              /\ \/ e.left = 1 /\ InUse(c)' = es
                 \/ \E f \in Entry : /\ f.type = e.type /\ f.left = e.left - 1
                                     /\ InUse(c)' = <<f>> \o es
<1> DEFINE N == MAX_CDU_FIFO_ENTRIES
           us == InUse(c)
           k == Size[c]
           e == us[1]
           es == Tail(us)
<1>1. N \in Nat \ {0} /\ Slots = 0 .. N - 1
  BY FifoAssumption DEF Slots
<1>t. /\ Ptr[c] \in Slots /\ k \in 0 .. N
      /\ Counts[c] \in [Slots -> [type : IncTypes, left : Nat]]
      /\ Counts \in [Cdus -> [Slots -> [type : IncTypes, left : Nat]]]
  BY DEF FifoInv, TypeOK
<1>2. /\ us \in Seq(Entry) /\ Len(us) = k
      /\ \A n \in 1 .. k : us[n] = Counts[c][Slot(c, n - 1)]
  BY InUseType
<1>3. /\ us' \in Seq(Entry) /\ Len(us') = Size'[c]
      /\ \A n \in 1 .. Size'[c] : us'[n] = Counts'[c][Slot(c, n - 1)']
  BY InUseNext
<1>4. k \in 1 .. N /\ us # <<>>
  <2>1. k > 0
    BY DEF Ready
  <2> QED
    BY <2>1, <1>1, <1>2, <1>t
<1>5. /\ es \in Seq(Entry) /\ e \in Entry /\ us = <<e>> \o es
      /\ Len(es) = k - 1 /\ \A n \in 1 .. k - 1 : es[n] = us[n + 1]
  <2> HIDE DEF us, k
  <2> QED
    BY <1>2, <1>4, SplitFirst
<1>6. e = Current(c) /\ Slot(c, 0) = Ptr[c]
  <2>1. Slot(c, 0) = Ptr[c]
    BY <1>1, <1>t DEF Slot
  <2>2. us[1] = Counts[c][Slot(c, 1 - 1)]
    BY <1>2, <1>4, <1>1
  <2> QED
    BY <2>1, <2>2 DEF Current
<1>7. counter' = [counter EXCEPT ![c] =
                    IF e.type.down THEN CounterMCDU(@) ELSE CounterPCDU(@)]
  BY <1>6 DEF ServiceCduFifo
<1>8. \A d \in Cdus \ {c} : InUse(d)' = InUse(d)
  <2>1. ASSUME NEW d \in Cdus \ {c}
        PROVE  Ptr'[d] = Ptr[d] /\ Size'[d] = Size[d] /\ Counts'[d] = Counts[d]
    <3>1. /\ Ptr \in [Cdus -> Slots] /\ Size \in [Cdus -> 0 .. N]
          /\ Counts \in [Cdus -> [Slots -> [type : IncTypes, left : Nat]]] /\ d \in Cdus /\ d # c
      BY DEF FifoInv, TypeOK
    <3>2. CASE Exhausted(c)
      <4>1. /\ Size' = [Size EXCEPT ![c] = @ - 1] /\ Ptr' = [Ptr EXCEPT ![c] = Slot(c, 1)]
            /\ Counts' = Counts
        BY <3>2 DEF ServiceCduFifo
      <4> QED
        BY <3>1, <4>1
    <3>3. CASE ~Exhausted(c)
      <4>1. /\ Counts' = [Counts EXCEPT ![c][Ptr[c]].left = CountAfter(c)]
            /\ Size' = Size /\ Ptr' = Ptr
        BY <3>3 DEF ServiceCduFifo
      <4> QED
        BY <3>1, <4>1
    <3> QED
      BY <3>2, <3>3
  <2> QED
    BY <2>1, InUseKept
<1>9. CASE Exhausted(c)
  <2>1. /\ Size' = [Size EXCEPT ![c] = @ - 1] /\ Ptr' = [Ptr EXCEPT ![c] = Slot(c, 1)]
        /\ Counts' = Counts
    BY <1>9 DEF ServiceCduFifo
  <2>2. Size'[c] = k - 1 /\ Ptr'[c] = Slot(c, 1)
    BY <2>1 DEF FifoInv, TypeOK
  <2>3. ASSUME NEW n \in 1 .. k - 1 PROVE us'[n] = es[n]
    <3>1. n \in 1 .. Size'[c] /\ n + 1 \in 1 .. k /\ n \in 0 .. N - 1 /\ n - 1 \in Nat
      BY <2>2, <1>1, <1>4
    <3>2. us'[n] = Counts'[c][Slot(c, n - 1)'] /\ es[n] = Counts[c][Slot(c, (n + 1) - 1)]
      BY <3>1, <1>2, <1>3, <1>5
    <3>3. Slot(c, n - 1)' = Slot(c, n)
      <4>1. Slot(c, 1) = IF Ptr[c] + 1 >= N THEN Ptr[c] + 1 - N ELSE Ptr[c] + 1
        BY DEF Slot
      <4>2. Slot(c, n) = IF Ptr[c] + n >= N THEN Ptr[c] + n - N ELSE Ptr[c] + n
        BY DEF Slot
      <4>3. Slot(c, n - 1)' = IF Ptr'[c] + (n - 1) >= N THEN Ptr'[c] + (n - 1) - N
                              ELSE Ptr'[c] + (n - 1)
        BY DEF Slot
      <4>4. Ptr[c] \in 0 .. N - 1
        BY <1>1, <1>t
      <4> DEFINE p == Ptr[c]
                 p1 == Ptr'[c]
      <4>5. p1 = IF p + 1 >= N THEN p + 1 - N ELSE p + 1
        BY <4>1, <2>2
      <4> HIDE DEF N, p, p1
      <4>p. p \in 0 .. N - 1 /\ N \in Nat \ {0} /\ n \in 0 .. N - 1 /\ n - 1 \in Nat
        BY <4>4, <3>1, <1>1 DEF p
      <4>6. (IF p1 + (n - 1) >= N THEN p1 + (n - 1) - N ELSE p1 + (n - 1))
              = IF p + n >= N THEN p + n - N ELSE p + n
        <5>1. CASE p + 1 >= N
          <6>1. p = N - 1 /\ p1 = 0
            BY <5>1, <4>5, <4>p
          <6> QED
            BY <6>1, <4>p
        <5>2. CASE p + 1 < N
          <6>1. p1 = p + 1
            BY <5>2, <4>5, <4>p
          <6> QED
            BY <6>1, <4>p
        <5> QED
          BY <5>1, <5>2, <4>p
      <4> QED
        BY <4>2, <4>3, <4>6 DEF N, p, p1
    <3>4. (n + 1) - 1 = n
      OBVIOUS
    <3> QED
      BY <3>2, <3>3, <3>4, <2>1
  <2>4. us' = es
    <3> HIDE DEF us, es, k
    <3> QED
      BY <2>2, <2>3, <1>3, <1>5, SeqEqual
  <2>5. e.left = 1
    BY <1>5, <1>6, <1>9 DEF Exhausted, CountAfter, Entry
  <2> QED
    BY <2>4, <2>5, <1>5, <1>7, <1>8
<1>10. CASE ~Exhausted(c)
  <2> DEFINE f == [e EXCEPT !.left = CountAfter(c)]
  <2>1. /\ Counts' = [Counts EXCEPT ![c][Ptr[c]].left = CountAfter(c)]
        /\ Size' = Size /\ Ptr' = Ptr
    BY <1>10 DEF ServiceCduFifo
  <2>2. f \in Entry /\ f.type = e.type /\ f.left = e.left - 1
    BY <1>5, <1>6, <1>10 DEF Exhausted, CountAfter, Entry
  <2>3. Counts'[c] = [Counts[c] EXCEPT ![Ptr[c]] = f]
    BY <2>1, <1>6, <1>t DEF Current
  <2> HIDE DEF f
  <2>4. Size'[c] = k /\ \A n : Slot(c, n)' = Slot(c, n)
    BY <2>1 DEF Slot
  <2>5. us'[1] = f
    <3>1. 1 \in 1 .. Size'[c] /\ 1 - 1 = 0
      BY <2>4, <1>1, <1>4
    <3>2. us'[1] = Counts'[c][Slot(c, 1 - 1)']
      BY <3>1, <1>3
    <3>3. Slot(c, 1 - 1)' = Ptr[c]
      BY <3>1, <2>4, <1>6
    <3> QED
      BY <3>2, <3>3, <2>3, <1>t
  <2>6. ASSUME NEW n \in 2 .. k PROVE us'[n] = us[n]
    <3>1. /\ n \in 1 .. k /\ n - 1 \in 0 .. N - 1 /\ n - 1 # 0
          /\ 0 \in 0 .. N - 1
      BY <1>1, <1>4
    <3>2. Slot(c, n - 1) \in Slots /\ Slot(c, n - 1) # Ptr[c]
      BY <3>1, <1>6, SlotsInRing DEF FifoInv
    <3>3. us'[n] = Counts'[c][Slot(c, n - 1)'] /\ us[n] = Counts[c][Slot(c, n - 1)]
      BY <3>1, <1>2, <1>3, <2>4
    <3> QED
      BY <3>2, <3>3, <2>3, <2>4, <1>t
  <2>7. us' = <<f>> \o es
    <3> HIDE DEF us, k, es, e
    <3>1. /\ <<f>> \o es \in Seq(Entry) /\ Len(<<f>> \o es) = k
          /\ (<<f>> \o es)[1] = f /\ \A n \in 2 .. k : (<<f>> \o es)[n] = es[n - 1]
      BY <1>1, <1>4, <1>5, <2>2
    <3>2. ASSUME NEW n \in 2 .. k PROVE es[n - 1] = us[n]
      <4>1. n - 1 \in 1 .. k - 1 /\ (n - 1) + 1 = n
        BY <1>1, <1>4
      <4> QED
        BY <4>1, <1>5
    <3>3. \A n \in 1 .. k : n = 1 \/ n \in 2 .. k
      BY <1>1, <1>4
    <3>4. \A n \in 1 .. k : us'[n] = (<<f>> \o es)[n]
      BY <3>1, <3>2, <3>3, <2>5, <2>6
    <3> QED
      BY <3>1, <3>4, <1>3, <2>4, SeqEqual
  <2> QED
    BY <2>2, <2>7, <1>5, <1>7, <1>8
<1> QED
  BY <1>9, <1>10

-----------------------------------------------------------------------------
(* The refinement.                                                         *)

\* Entries next to each other are of different types.
EntriesAlternate == \A c \in Cdus : Alternating(InUse(c))

QueueInv == FifoInv /\ EntriesAlternate

LEMMA PendingNext ==
  ASSUME FifoInv', NEW c \in Cdus
  PROVE  Pending(c)' = Pulses(InUse(c)')
<1>1. \A n \in 1 .. Size'[c] : InUse(c)'[n] = Counts'[c][Slot(c, n - 1)']
  BY InUseNext
<1>2. Len(InUse(c)') = Size'[c]
  BY InUseNext
<1>3. Blocks(InUse(c)') = [n \in 1 .. Size'[c] |-> Block(Counts'[c][Slot(c, n - 1)'])]
  BY <1>1, <1>2 DEF Blocks
<1> QED
  BY <1>3 DEF Pending, Pulses, Block

LEMMA PushAlternates ==
  ASSUME QueueInv, FifoInv', NEW c \in Cdus, NEW type \in IncTypes, Push(c, type)
  PROVE  EntriesAlternate'
<1>1. FifoInv /\ Alternating(InUse(c)) /\ InUse(c) \in Seq(Entry)
  BY InUseType DEF QueueInv, EntriesAlternate
<1>2. Alternating(InUse(c)')
  <2>1. ASSUME NEW es \in Seq(Entry), NEW e \in Entry, NEW f \in Entry,
               InUse(c) = Append(es, e), InUse(c)' = Append(es, f), f.type = e.type
        PROVE  Alternating(InUse(c)')
    <3>1. Len(Append(es, e)) = Len(es) + 1 /\ Len(Append(es, f)) = Len(es) + 1
      OBVIOUS
    <3>2. \A n \in 1 .. Len(es) + 1 : Append(es, f)[n].type = Append(es, e)[n].type
      BY <2>1
    <3>3. \A n \in 2 .. Len(es) + 1 : Append(es, e)[n].type # Append(es, e)[n - 1].type
      BY <1>1, <2>1, <3>1 DEF Alternating
    <3>4. \A n \in 2 .. Len(es) + 1 : n \in 1 .. Len(es) + 1 /\ n - 1 \in 1 .. Len(es) + 1
      OBVIOUS
    <3> QED
      BY <2>1, <3>1, <3>2, <3>3, <3>4 DEF Alternating
  <2>2. ASSUME NEW e \in Entry, InUse(c)' = Append(InUse(c), e),
               InUse(c) # <<>> => InUse(c)[Len(InUse(c))].type # e.type
        PROVE  Alternating(InUse(c)')
    <3> DEFINE us == InUse(c)
    <3>1. /\ Len(Append(us, e)) = Len(us) + 1 /\ Append(us, e)[Len(us) + 1] = e
          /\ \A n \in 1 .. Len(us) : Append(us, e)[n] = us[n]
          /\ Len(us) \in Nat /\ (us = <<>> <=> Len(us) = 0)
      BY <1>1
    <3>2. \A n \in 2 .. Len(us) : us[n].type # us[n - 1].type
      BY <1>1 DEF Alternating
    <3>3. Len(us) # 0 => us[Len(us)].type # e.type
      BY <2>2, <3>1
    <3>4. InUse(c)' = Append(us, e)
      BY <2>2
    <3> HIDE DEF us
    <3>5. ASSUME NEW n \in 2 .. Len(us) + 1
          PROVE  Append(us, e)[n].type # Append(us, e)[n - 1].type
      <4>1. CASE n = Len(us) + 1
        <5>1. n - 1 = Len(us) /\ Len(us) # 0 /\ Len(us) \in 1 .. Len(us)
          BY <3>1, <4>1
        <5> QED
          BY <5>1, <4>1, <3>1, <3>3
      <4>2. CASE n # Len(us) + 1
        <5>1. n \in 2 .. Len(us) /\ n \in 1 .. Len(us) /\ n - 1 \in 1 .. Len(us)
          BY <3>1, <4>2
        <5> QED
          BY <5>1, <3>1, <3>2
      <4> QED
        BY <4>1, <4>2
    <3> QED
      BY <3>1, <3>4, <3>5 DEF Alternating
  <2>3. \/ \E es \in Seq(Entry), e \in Entry, f \in Entry :
             /\ InUse(c) = Append(es, e) /\ InUse(c)' = Append(es, f)
             /\ e.type = type /\ f.type = type /\ f.left = e.left + 1
        \/ \E e \in Entry :
             /\ e.type = type /\ e.left = 1 /\ InUse(c)' = Append(InUse(c), e)
             /\ InUse(c) # <<>> => InUse(c)[Len(InUse(c))].type # type
        \/ InUse(c)' = InUse(c)
    BY <1>1, PushEffect
  <2>4. ASSUME InUse(c)' = InUse(c) PROVE Alternating(InUse(c)')
    BY <2>4, <1>1
  <2> QED
    BY <2>1, <2>2, <2>3, <2>4
<1>3. \A d \in Cdus \ {c} : Alternating(InUse(d)')
  <2>1. \A d \in Cdus \ {c} : InUse(d)' = InUse(d)
    BY <1>1, PushEffect
  <2> QED
    BY <2>1 DEF QueueInv, EntriesAlternate
<1> QED
  BY <1>2, <1>3 DEF EntriesAlternate, Alternating

LEMMA ServiceAlternates ==
  ASSUME QueueInv, FifoInv', NEW c \in Cdus, c = CduChecker, ServiceCduFifo, Ready(c)
  PROVE  EntriesAlternate'
<1>1. FifoInv /\ Alternating(InUse(c))
  BY DEF QueueInv, EntriesAlternate
<1>2. PICK es \in Seq(Entry), e \in Entry :
        /\ InUse(c) = <<e>> \o es
        /\ \/ InUse(c)' = es
           \/ \E f \in Entry : f.type = e.type /\ InUse(c)' = <<f>> \o es
  <2>1. PICK es \in Seq(Entry), e \in Entry :
          /\ InUse(c) = <<e>> \o es
          /\ counter' = [counter EXCEPT ![c] =
               IF e.type.down THEN CounterMCDU(@) ELSE CounterPCDU(@)]
          /\ \/ e.left = 1 /\ InUse(c)' = es
             \/ \E f \in Entry : /\ f.type = e.type /\ f.left = e.left - 1
                                 /\ InUse(c)' = <<f>> \o es
    BY <1>1, ServiceEffect
  <2> QED
    BY <2>1, Zenon
<1>3. /\ Len(<<e>> \o es) = Len(es) + 1 /\ (<<e>> \o es)[1] = e /\ Len(es) \in Nat
      /\ \A n \in 2 .. Len(es) + 1 : (<<e>> \o es)[n] = es[n - 1]
  OBVIOUS
<1>4. \A n \in 2 .. Len(es) + 1 : (<<e>> \o es)[n].type # (<<e>> \o es)[n - 1].type
  BY <1>1, <1>2, <1>3 DEF Alternating
<1>5. ASSUME InUse(c)' = es PROVE Alternating(InUse(c)')
  <2>1. ASSUME NEW n \in 2 .. Len(es) PROVE es[n].type # es[n - 1].type
    <3>1. n + 1 \in 2 .. Len(es) + 1 /\ n \in 2 .. Len(es) + 1 /\ (n + 1) - 1 = n
      BY <1>3
    <3>2. (<<e>> \o es)[n + 1] = es[n] /\ (<<e>> \o es)[n] = es[n - 1]
      BY <3>1, <1>3
    <3>3. (<<e>> \o es)[n + 1].type # (<<e>> \o es)[(n + 1) - 1].type
      BY <3>1, <1>4
    <3> QED
      BY <3>1, <3>2, <3>3
  <2>2. Alternating(es)
    BY <2>1 DEF Alternating
  <2> QED
    BY <1>5, <2>2
<1>6. ASSUME NEW f \in Entry, f.type = e.type, InUse(c)' = <<f>> \o es
      PROVE  Alternating(InUse(c)')
  <2>1. /\ Len(<<f>> \o es) = Len(es) + 1 /\ (<<f>> \o es)[1] = f
        /\ \A n \in 2 .. Len(es) + 1 : (<<f>> \o es)[n] = es[n - 1]
    OBVIOUS
  <2>2. \A n \in 1 .. Len(es) + 1 : n = 1 \/ n \in 2 .. Len(es) + 1
    BY <1>3
  <2>3. \A n \in 1 .. Len(es) + 1 : (<<f>> \o es)[n].type = (<<e>> \o es)[n].type
    BY <1>3, <1>6, <2>1, <2>2
  <2>4. \A n \in 2 .. Len(es) + 1 : n \in 1 .. Len(es) + 1 /\ n - 1 \in 1 .. Len(es) + 1
    BY <1>3
  <2> QED
    BY <1>4, <1>6, <2>1, <2>3, <2>4 DEF Alternating
<1>7. Alternating(InUse(c)')
  BY <1>2, <1>5, <1>6
<1>8. \A d \in Cdus \ {c} : Alternating(InUse(d)')
  <2>1. \A d \in Cdus \ {c} : InUse(d)' = InUse(d)
    BY <1>1, ServiceEffect
  <2> QED
    BY <2>1 DEF QueueInv, EntriesAlternate
<1> QED
  BY <1>7, <1>8 DEF EntriesAlternate, Alternating

\* A pulse that comes is queued, or dropped when there are too many runs.
LEMMA PushQueues ==
  ASSUME QueueInv, FifoInv', NEW c \in Cdus, NEW type \in IncTypes, Push(c, type)
  PROVE  Queue!Next
<1>1. FifoInv /\ Alternating(InUse(c)) /\ InUse(c) \in Seq(Entry) /\ Len(InUse(c)) = Size[c]
  BY InUseType DEF QueueInv, EntriesAlternate
<1>2. /\ input' = <<c, type>> /\ counter' = counter
  BY DEF Push
<1>3. /\ \A d \in Cdus \ {c} : Pending(d)' = Pending(d)
      /\ Pending(c) = Pulses(InUse(c)) /\ Pending(c)' = Pulses(InUse(c)')
  <2>1. \A d \in Cdus \ {c} : InUse(d)' = InUse(d)
    BY <1>1, PushEffect
  <2>2. \A d \in Cdus : Pending(d) = Pulses(InUse(d)) /\ Pending(d)' = Pulses(InUse(d)')
    BY <1>1, PendingIsInUse, PendingNext
  <2> QED
    BY <2>1, <2>2
<1>4. ASSUME Pending(c)' = Append(Pending(c), type) PROVE Queue!Arrive(c, type)
  <2>1. [d \in Cdus |-> Pending(d)]'
          = [[d \in Cdus |-> Pending(d)] EXCEPT ![c] = Append(@, type)]
    BY <1>3, <1>4
  <2> QED
    BY <1>2, <2>1 DEF Queue!Arrive
<1>5. ASSUME InUse(c)' = InUse(c), Size[c] = MAX_CDU_FIFO_ENTRIES,
             InUse(c)[Len(InUse(c))].type # type
      PROVE  Queue!Drop(c, type)
  <2>1. InUse(c) # <<>>
    BY <1>1, <1>5, FifoAssumption
  <2>2. /\ Queue!Runs(Pending(c)) = MAX_CDU_FIFO_ENTRIES
        /\ Pending(c)[Len(Pending(c))] # type
    BY <1>1, <1>3, <1>5, <2>1, RunsAreEntries DEF Last1
  <2>3. [d \in Cdus |-> Pending(d)]' = [d \in Cdus |-> Pending(d)]
    BY <1>3, <1>5
  <2> QED
    BY <1>2, <2>2, <2>3 DEF Queue!Drop
<1>6. Queue!Arrive(c, type) \/ Queue!Drop(c, type)
  <2>1. \/ \E es \in Seq(Entry), e \in Entry, f \in Entry :
             /\ InUse(c) = Append(es, e) /\ InUse(c)' = Append(es, f)
             /\ e.type = type /\ f.type = type /\ f.left = e.left + 1
        \/ \E e \in Entry :
             /\ e.type = type /\ e.left = 1 /\ InUse(c)' = Append(InUse(c), e)
             /\ InUse(c) # <<>> => InUse(c)[Len(InUse(c))].type # type
        \/ /\ InUse(c)' = InUse(c) /\ Size[c] = MAX_CDU_FIFO_ENTRIES
           /\ InUse(c)[Len(InUse(c))].type # type
    BY <1>1, PushEffect
  <2>2. ASSUME NEW es \in Seq(Entry), NEW e \in Entry, NEW f \in Entry,
               InUse(c) = Append(es, e), InUse(c)' = Append(es, f),
               e.type = type, f.type = type, f.left = e.left + 1
        PROVE  Pending(c)' = Append(Pending(c), type)
    <3>1. Pulses(Append(es, f)) = Append(Pulses(Append(es, e)), e.type)
      BY <2>2, PulsesJoin
    <3> QED
      BY <3>1, <2>2, <1>3
  <2>3. ASSUME NEW e \in Entry, e.type = type, e.left = 1, InUse(c)' = Append(InUse(c), e)
        PROVE  Pending(c)' = Append(Pending(c), type)
    <3>1. Pulses(Append(InUse(c), e)) = Append(Pulses(InUse(c)), e.type)
      BY <2>3, <1>1, PulsesNew
    <3> QED
      BY <3>1, <2>3, <1>3
  <2> QED
    BY <2>1, <2>2, <2>3, <1>4, <1>5
<1> QED
  BY <1>6 DEF Queue!Next

\* A cycle that changes no queue and no counter.
LEMMA WaitQueues ==
  ASSUME FifoInv, FifoInv', UNCHANGED fifoVars, counter' = counter,
         input' = <<>> \/ input' = input
  PROVE  [Queue!Next]_(Queue!qvars)
<1>1. \A d \in Cdus : InUse(d)' = InUse(d)
  BY InUseKept DEF fifoVars
<1>2. \A d \in Cdus : Pending(d)' = Pending(d)
  BY <1>1, PendingIsInUse, PendingNext
<1>3. [d \in Cdus |-> Pending(d)]' = [d \in Cdus |-> Pending(d)]
  BY <1>2
<1> QED
  BY <1>3 DEF Queue!Next, Queue!Wait, Queue!qvars

\* An update applies the pulse at the front.
LEMMA ServiceQueues ==
  ASSUME QueueInv, FifoInv', NEW c \in Cdus, c = CduChecker, ServiceCduFifo, Ready(c)
  PROVE  Queue!Next
<1>1. FifoInv /\ input' = <<>>
  BY DEF QueueInv, ServiceCduFifo
<1>2. PICK es \in Seq(Entry), e \in Entry :
        /\ InUse(c) = <<e>> \o es
        /\ counter' = [counter EXCEPT ![c] =
             IF e.type.down THEN CounterMCDU(@) ELSE CounterPCDU(@)]
        /\ \/ e.left = 1 /\ InUse(c)' = es
           \/ \E f \in Entry : /\ f.type = e.type /\ f.left = e.left - 1
                               /\ InUse(c)' = <<f>> \o es
  BY <1>1, ServiceEffect
<1>3. \A d \in Cdus : Pending(d) = Pulses(InUse(d)) /\ Pending(d)' = Pulses(InUse(d)')
  BY <1>1, PendingIsInUse, PendingNext
<1>4. /\ Pending(c) # <<>> /\ Head(Pending(c)) = e.type
      /\ Pending(c)' = Tail(Pending(c))
  <2>1. Pending(c) = Pulses(<<e>> \o es)
    BY <1>2, <1>3
  <2>2. ASSUME e.left = 1, InUse(c)' = es PROVE Pending(c)' = Tail(Pending(c))
    <3>1. Tail(Pulses(<<e>> \o es)) = Pulses(es)
      BY <2>2, PulsesServe
    <3> QED
      BY <2>1, <2>2, <3>1, <1>3
  <2>3. ASSUME NEW f \in Entry, f.type = e.type, f.left = e.left - 1,
               InUse(c)' = <<f>> \o es
        PROVE  Pending(c)' = Tail(Pending(c))
    <3>1. Tail(Pulses(<<e>> \o es)) = Pulses(<<f>> \o es)
      BY <2>3, PulsesServe
    <3> QED
      BY <2>1, <2>3, <3>1, <1>3
  <2>4. Pending(c) # <<>> /\ Head(Pending(c)) = e.type
    <3>1. Pulses(<<e>> \o es) # <<>> /\ Head(Pulses(<<e>> \o es)) = e.type
      BY PulsesServe
    <3> QED
      BY <2>1, <3>1, Zenon
  <2> QED
    BY <2>2, <2>3, <2>4, <1>2
<1>5. \A d \in Cdus \ {c} : Pending(d)' = Pending(d)
  <2>1. \A d \in Cdus \ {c} : InUse(d)' = InUse(d)
    BY <1>1, ServiceEffect
  <2> QED
    BY <2>1, <1>3
<1>6. [d \in Cdus |-> Pending(d)]' = [[d \in Cdus |-> Pending(d)] EXCEPT ![c] = Tail(@)]
  BY <1>4, <1>5
<1>7. Queue!CounterMCDU(counter[c]) = CounterMCDU(counter[c])
      /\ Queue!CounterPCDU(counter[c]) = CounterPCDU(counter[c])
  BY DEF Queue!CounterMCDU, CounterMCDU, Queue!CounterPCDU, CounterPCDU, Queue!AGC_M0, AGC_M0
<1>8. Queue!Apply(c)
  BY <1>1, <1>2, <1>4, <1>6, <1>7, Zenon DEF Queue!Apply
<1> QED
  BY <1>8 DEF Queue!Next

LEMMA QueueStep ==
  ASSUME QueueInv, [Next]_vars
  PROVE  QueueInv' /\ [Queue!Next]_(Queue!qvars)
<1>1. FifoInv /\ FifoInv'
  BY FifoStep DEF QueueInv
<1>2. ASSUME UNCHANGED fifoVars PROVE EntriesAlternate'
  <2>1. \A d \in Cdus : InUse(d)' = InUse(d)
    BY <1>2, InUseKept DEF fifoVars
  <2> QED
    BY <2>1 DEF QueueInv, EntriesAlternate, Alternating
<1>3. CASE Stolen \/ UNCHANGED vars
  <2>1. UNCHANGED fifoVars /\ counter' = counter /\ (input' = <<>> \/ input' = input)
    BY <1>3 DEF Stolen, vars
  <2> QED
    BY <2>1, <1>1, <1>2, WaitQueues DEF QueueInv
<1>4. ASSUME NEW c \in Cdus, NEW type \in IncTypes, Push(c, type)
      PROVE  QueueInv' /\ Queue!Next
  BY <1>1, <1>4, PushAlternates, PushQueues DEF QueueInv
<1>5. CASE ServiceCduFifo
  <2> PICK c \in Cdus : c = CduChecker
    BY <1>1 DEF FifoInv, TypeOK
  <2>1. CASE Ready(c)
    BY <2>1, <1>1, <1>5, ServiceAlternates, ServiceQueues DEF QueueInv
  <2>2. CASE ~Ready(c)
    <3>1. UNCHANGED fifoVars /\ counter' = counter /\ input' = <<>>
      BY <2>2, <1>5 DEF ServiceCduFifo
    <3> QED
      BY <3>1, <1>1, <1>2, WaitQueues DEF QueueInv
  <2> QED
    BY <2>1, <2>2
<1> QED
  BY <1>3, <1>4, <1>5 DEF Next

\* For any FIFOs and rates: the pulses go through the ring of entries as
\* through a queue, one by one and in order, and are dropped only when as many
\* runs wait as there are entries.
THEOREM PulsesAreQueued == Spec => QueueSpec
<1>1. Init => QueueInv
  <2>1. ASSUME Init PROVE EntriesAlternate
    <3>1. \A c \in Cdus : Len(InUse(c)) = 0
      BY <2>1, FifoInit, InUseType DEF Init
    <3> QED
      BY <3>1 DEF EntriesAlternate, Alternating
  <2> QED
    BY <2>1, FifoInit DEF QueueInv
<1>2. Init => Queue!Init
  <2> SUFFICES ASSUME Init PROVE Queue!Init
    OBVIOUS
  <2>1. ASSUME NEW c \in Cdus PROVE Pending(c) = <<>>
    <3>1. InUse(c) \in Seq(Entry) /\ Len(InUse(c)) = 0 /\ Pending(c) = Pulses(InUse(c))
      BY FifoInit, InUseType, PendingIsInUse DEF Init
    <3>2. InUse(c) = <<>>
      BY <3>1
    <3> QED
      BY <3>1, <3>2, PulsesEmpty
  <2>2. Queue!AGC_P0 = AGC_P0
    BY DEF Queue!AGC_P0, AGC_P0
  <2> QED
    BY <2>1, <2>2 DEF Init, Queue!Init
<1>3. QueueInv /\ [Next]_vars => QueueInv' /\ [Queue!Next]_(Queue!qvars)
  BY QueueStep
<1> QED
  BY <1>1, <1>2, <1>3, PTL DEF Spec, QueueSpec, Queue!Spec
=============================================================================
