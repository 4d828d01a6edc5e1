----------------------------- MODULE RingProofs -----------------------------
(***************************************************************************)
(* The rings of RingHost are bounded queues, for every number of slots and *)
(* whatever the host and the program write, and the account that a host    *)
(* keeps of what it wrote is true of the engine.                           *)
(***************************************************************************)
EXTENDS MCRingHost, DataLemmas, TLAPS

-----------------------------------------------------------------------------
(* One ring.                                                               *)

\* The slots that a ring uses are slots.
LEMMA SlotsOfRing ==
  ASSUME NEW r \in Rings
  PROVE  /\ Count(r) \in 0 .. RINGBUFFER_ELEMENTS - 1
         /\ \A i \in 1 .. Count(r) : SlotOf(r, i) \in Slot
BY RingAssumption, SMT DEF Rings, Slot, Count, SlotOf

\* What a ring holds is a sequence of packets.
LEMMA ContentsType ==
  ASSUME NEW r \in Rings
  PROVE  Contents(r) \in Seq(Packet) /\ Len(Contents(r)) = Count(r)
<1>1. Count(r) \in Nat
  BY SlotsOfRing, RingAssumption
<1>2. \A i \in 1 .. Count(r) : r.data[SlotOf(r, i)] \in Packet
  BY SlotsOfRing DEF Rings
<1>3. \A i \in 1 .. Count(r) : Contents(r)[i] \in Packet
  BY <1>2 DEF Contents
<1>4. Contents(r) \in [1 .. Count(r) -> Packet]
  BY <1>2 DEF Contents
<1> QED
  BY <1>1, <1>4, SeqDef, LenProperties

\* A full ring has one slot less in use than it has, and only a full one.
LEMMA FullCount ==
  ASSUME NEW r \in Rings
  PROVE  /\ IsFull(r) <=> Count(r) = RINGBUFFER_ELEMENTS - 1
         /\ IsEmpty(r) <=> Count(r) = 0
BY RingAssumption, SMT DEF Rings, Slot, Count, IsFull, IsEmpty, After

\* ringbuffer_put keeps a ring a ring.
LEMMA PutType ==
  ASSUME NEW r \in Rings, NEW p \in Packet
  PROVE  Put(r, p) \in Rings
<1>1. r.head \in Slot /\ After(r.head) \in Slot
  BY RingAssumption, SMT DEF Rings, Slot, After
<1>2. [r.data EXCEPT ![r.head] = p] \in [Slot -> Packet]
  BY <1>1 DEF Rings
<1> QED
  BY <1>1, <1>2 DEF Rings, Put

\* ringbuffer_put appends.
LEMMA PutAppends ==
  ASSUME NEW r \in Rings, NEW p \in Packet, ~IsFull(r)
  PROVE  Contents(Put(r, p)) = Append(Contents(r), p)
<1> DEFINE s == Put(r, p)
           n == Count(r)
<1>1. s \in Rings
  BY PutType
<1>2. Count(s) = n + 1 /\ n \in Nat
  BY RingAssumption, SMT DEF Rings, Slot, Count, Put, IsFull, After
<1>3. /\ s.data = [r.data EXCEPT ![r.head] = p] /\ s.tail = r.tail
      /\ r.data \in [Slot -> Packet] /\ r.head \in Slot
  BY DEF Put, Rings
<1>4. SlotOf(s, n + 1) = r.head
  BY <1>3, RingAssumption, SMT DEF Rings, Slot, Count, IsFull, After, SlotOf
<1>5. \A i \in 1 .. n : SlotOf(s, i) = SlotOf(r, i) /\ SlotOf(r, i) # r.head
  BY <1>3, RingAssumption, SMT DEF Rings, Slot, Count, IsFull, After, SlotOf
<1>6. \A i \in 1 .. n : SlotOf(r, i) \in Slot
  BY SlotsOfRing
<1>7. \A i \in 1 .. n : s.data[SlotOf(s, i)] = r.data[SlotOf(r, i)]
  BY <1>3, <1>5, <1>6
<1>8. s.data[SlotOf(s, n + 1)] = p
  BY <1>3, <1>4
<1>9. Contents(r) \in Seq(Packet) /\ Len(Contents(r)) = n
  BY ContentsType
<1>10. Contents(s) \in Seq(Packet) /\ Len(Contents(s)) = n + 1
  BY <1>1, <1>2, ContentsType
<1>11. Append(Contents(r), p) \in Seq(Packet) /\ Len(Append(Contents(r), p)) = n + 1
  BY <1>9, AppendProperties
<1>12. ASSUME NEW i \in 1 .. n + 1
       PROVE  Contents(s)[i] = Append(Contents(r), p)[i]
  <2>1. Contents(s)[i] = s.data[SlotOf(s, i)]
    BY <1>2 DEF Contents
  <2>2. CASE i = n + 1
    BY <2>1, <2>2, <1>8, <1>9, AppendProperties
  <2>3. CASE i # n + 1
    <3>1. i \in 1 .. n
      BY <2>3, <1>2
    <3>2. Contents(r)[i] = r.data[SlotOf(r, i)]
      BY <3>1 DEF Contents
    <3>3. Append(Contents(r), p)[i] = Contents(r)[i]
      BY <3>1, <1>9, AppendProperties
    <3> QED
      BY <2>1, <3>1, <3>2, <3>3, <1>7
  <2> QED
    BY <2>2, <2>3
<1> HIDE DEF s, n
<1> QED
  BY <1>10, <1>11, <1>12, SeqEqual DEF s

\* ringbuffer_get keeps a ring a ring.
LEMMA GotType ==
  ASSUME NEW r \in Rings
  PROVE  Got(r) \in Rings
<1>1. After(r.tail) \in Slot
  BY RingAssumption, SMT DEF Rings, Slot, After
<1> QED
  BY <1>1 DEF Rings, Got

\* ringbuffer_get takes the oldest.
LEMMA GotTakesOldest ==
  ASSUME NEW r \in Rings, ~IsEmpty(r)
  PROVE  /\ Contents(r) # <<>>
         /\ Oldest(r) = Head(Contents(r))
         /\ Contents(Got(r)) = Tail(Contents(r))
<1> DEFINE s == Got(r)
           n == Count(r)
<1>1. s \in Rings
  BY GotType
<1>2. Count(s) = n - 1 /\ n \in Nat \ {0}
  BY RingAssumption, SMT DEF Rings, Slot, Count, Got, IsEmpty, After
<1>3. s.data = r.data
  BY DEF Got
<1>4. \A i \in 1 .. n - 1 : SlotOf(s, i) = SlotOf(r, i + 1)
  BY RingAssumption, SMT DEF Rings, Slot, Count, Got, IsEmpty, After, SlotOf
<1>5. Contents(r) \in Seq(Packet) /\ Len(Contents(r)) = n
  BY ContentsType
<1>6. Contents(s) \in Seq(Packet) /\ Len(Contents(s)) = n - 1
  BY <1>1, <1>2, ContentsType
<1>7. Contents(r) # <<>>
  BY <1>2, <1>5, EmptySeq
<1>8. /\ Tail(Contents(r)) \in Seq(Packet)
      /\ Len(Tail(Contents(r))) = n - 1
      /\ \A i \in 1 .. n - 1 : Tail(Contents(r))[i] = Contents(r)[i + 1]
  BY <1>2, <1>5, <1>7, HeadTailProperties
<1>9. Oldest(r) = Head(Contents(r))
  <2>1. SlotOf(r, 1) = r.tail
    BY RingAssumption, SMT DEF Rings, Slot, SlotOf
  <2>2. Head(Contents(r)) = Contents(r)[1]
    BY <1>5, <1>7, HeadTailProperties
  <2> QED
    BY <1>2, <2>1, <2>2 DEF Oldest, Contents
<1>10. ASSUME NEW i \in 1 .. n - 1
       PROVE  Contents(s)[i] = Tail(Contents(r))[i]
  <2>1. i \in 1 .. Count(s) /\ i + 1 \in 1 .. n
    BY <1>2
  <2>2. Contents(s)[i] = r.data[SlotOf(r, i + 1)]
    BY <2>1, <1>3, <1>4 DEF Contents
  <2>3. Contents(r)[i + 1] = r.data[SlotOf(r, i + 1)]
    BY <2>1 DEF Contents
  <2> QED
    BY <2>2, <2>3, <1>8
<1> HIDE DEF s, n
<1>11. Contents(s) = Tail(Contents(r))
  BY <1>6, <1>8, <1>10, SeqEqual
<1> QED
  BY <1>7, <1>9, <1>11 DEF s

\* Setting a ring up empties it.
LEMMA EmptiedIsEmpty ==
  ASSUME NEW r \in Rings
  PROVE  Emptied(r) \in Rings /\ Contents(Emptied(r)) = <<>>
<1>1. 0 \in Slot
  BY RingAssumption, SMT DEF Slot
<1>2. Emptied(r) \in Rings
  BY <1>1 DEF Rings, Emptied
<1>3. Emptied(r).head = 0 /\ Emptied(r).tail = 0
  BY DEF Rings, Emptied
<1>4. Count(Emptied(r)) = 0
  BY <1>3 DEF Count
<1> QED
  BY <1>2, <1>4, ContentsType, EmptySeq

-----------------------------------------------------------------------------
(* Packets.                                                                *)

\* The words of the interface have 15 bits.
LEMMA HalfIs == HALF = 16384
BY IoAssumption, SMT

\* They are numbers of five octal digits.
LEMMA WordRange == \A w \in Word : w \in Int /\ 0 <= w /\ w <= 32767
<1>1. \A h \in Int : h = 16384 => 2 * h - 1 = 32767
  OBVIOUS
<1>2. HALF \in Int
  BY HalfIs
<1>3. 2 * HALF - 1 = 32767
  BY <1>1, <1>2, HalfIs, SMT
<1>4. \A h \in Int : \A w \in 0 .. h : w \in Int /\ 0 <= w /\ w <= h
  OBVIOUS
<1>5. \A w \in Word : w \in Int /\ 0 <= w /\ w <= 2 * HALF - 1
  <2>1. 2 * HALF - 1 \in Int
    BY <1>2, SMT
  <2> QED BY <2>1, <1>4, Zenon DEF Word
<1> QED BY <1>3, <1>5, SMT

\* The channels that a packet can say, m bit included.
Ports == 0 .. 511

\* A channel and a value survive their packet.
LEMMA RoundTrip ==
  ASSUME NEW channel \in Ports, NEW value \in Word
  PROVE  /\ FormIoPacket(channel, value) \in Packet
         /\ IsSignedPacket(FormIoPacket(channel, value))
         /\ ParseIoPacket(FormIoPacket(channel, value)).Channel = channel % 256
         /\ ParseIoPacket(FormIoPacket(channel, value)).Value = value
         /\ ParseIoPacket(FormIoPacket(channel, value)).uBit <=> channel >= 256
<1>1. PICK p \in 0 .. 63, q \in 0 .. 7 : channel = 8 * p + q
  <2>1. channel \in 0 .. 511
    BY DEF Ports
  <2>2. channel \div 8 \in 0 .. 63 /\ channel % 8 \in 0 .. 7
        /\ channel = 8 * (channel \div 8) + (channel % 8)
    BY <2>1, SMTT(30)
  <2> QED
    BY <2>2
<1>2. PICK h \in 0 .. 511, l \in 0 .. 63 : value = 64 * h + l
  <2>1. value \in Int /\ 0 <= value /\ value <= 32767
    BY WordRange
  <2>2. value \div 64 \in 0 .. 511 /\ value % 64 \in 0 .. 63
        /\ value = 64 * (value \div 64) + (value % 64)
    BY <2>1, SMTT(30)
  <2> QED
    BY <2>2
<1>3. PICK k \in 0 .. 7, m \in 0 .. 63 : h = 64 * k + m
  <2>1. h \div 64 \in 0 .. 7 /\ h % 64 \in 0 .. 63 /\ h = 64 * (h \div 64) + (h % 64)
    OBVIOUS
  <2> QED
    BY <2>1
<1> DEFINE b1 == channel \div 8
           b2 == 64 + ((channel % 8) * 8 + (value \div 4096))
           b3 == 128 + ((value \div 64) % 64)
           b4 == 192 + (value % 64)
<1>4. channel \div 8 = p /\ channel % 8 = q
  BY <1>1
<1>5. value \div 64 = h /\ value % 64 = l
  BY <1>2
<1>6. h % 64 = m
  BY <1>3
<1>7. value \div 4096 = k
  <2>1. value = 4096 * k + (64 * m + l) /\ 0 <= 64 * m + l /\ 64 * m + l <= 4095
    BY <1>2, <1>3
  <2> QED
    BY <2>1
<1>8. b1 = p /\ b2 = 64 + (8 * q + k) /\ b3 = 128 + m /\ b4 = 192 + l
  BY <1>4, <1>5, <1>6, <1>7
<1>9. FormIoPacket(channel, value) = <<b1, b2, b3, b4>>
  BY DEF FormIoPacket
<1> HIDE DEF b1, b2, b3, b4
<1>10. <<b1, b2, b3, b4>> \in Packet
  <2>1. b1 \in 0 .. 255 /\ b2 \in 0 .. 255 /\ b3 \in 0 .. 255 /\ b4 \in 0 .. 255
    BY <1>8
  <2> QED
    BY <2>1 DEF Packet, Byte
<1>11. IsSignedPacket(<<b1, b2, b3, b4>>)
  <2>1. b1 \div 64 = 0 /\ b3 \div 64 = 2 /\ b4 \div 64 = 3
    BY <1>8
  <2>2. b2 \div 64 = 1
    <3>1. 8 * q + k \in 0 .. 63
      OBVIOUS
    <3> QED
      BY <1>8, <3>1
  <2> QED
    BY <2>1, <2>2 DEF IsSignedPacket, Signature
<1>12. (b1 % 32) * 8 + ((b2 \div 8) % 8) = channel % 256
  <2>1. b2 \div 8 = 8 + q
    BY <1>8
  <2>2. (8 + q) % 8 = q
    OBVIOUS
  <2>3. PICK u \in 0 .. 1, v \in 0 .. 31 : p = 32 * u + v
    <3>1. p \div 32 \in 0 .. 1 /\ p % 32 \in 0 .. 31 /\ p = 32 * (p \div 32) + (p % 32)
      OBVIOUS
    <3> QED
      BY <3>1
  <2>4. b1 % 32 = v
    BY <1>8, <2>3
  <2>5. channel = 256 * u + (8 * v + q) /\ 8 * v + q \in 0 .. 255
    BY <1>1, <2>3
  <2>6. channel % 256 = 8 * v + q
    BY <2>5
  <2> QED
    BY <2>1, <2>2, <2>4, <2>6
<1>13. (b2 % 8) * 4096 + ((b3 % 64) * 64 + (b4 % 64)) = value
  <2>1. b2 % 8 = k
    <3>1. b2 = 8 * (8 + q) + k
      BY <1>8
    <3> QED
      BY <3>1
  <2>2. b3 % 64 = m /\ b4 % 64 = l
    BY <1>8
  <2> QED
    BY <2>1, <2>2, <1>2, <1>3
<1>14. ((b1 \div 32) % 2 = 1) = (channel >= 256)
  <2>1. b1 \div 32 = IF p >= 32 THEN 1 ELSE 0
    BY <1>8
  <2>2. channel >= 256 <=> p >= 32
    BY <1>1
  <2>3. 1 % 2 = 1 /\ 0 % 2 = 0
    OBVIOUS
  <2> QED
    BY <2>1, <2>2, <2>3
<1>15. ParseIoPacket(<<b1, b2, b3, b4>>) =
         [Channel |-> channel % 256, Value |-> value, uBit |-> channel >= 256]
  BY <1>12, <1>13, <1>14 DEF ParseIoPacket
<1> DEFINE parsed == ParseIoPacket(<<b1, b2, b3, b4>>)
<1>16. parsed.Channel = channel % 256 /\ parsed.Value = value
  BY <1>15
<1>17. parsed.uBit <=> channel >= 256
  <2>1. parsed.uBit <=> (b1 \div 32) % 2 = 1
    BY Zenon DEF ParseIoPacket
  <2> QED
    BY <2>1, <1>14, Zenon
<1> HIDE DEF parsed
<1> QED
  BY <1>9, <1>10, <1>11, <1>16, <1>17, ZenonT(60) DEF parsed

\* A bit is 0 or 1.
LEMMA BitRange ==
  ASSUME NEW w \in Int, NEW weight \in Nat \ {0}
  PROVE  Bit(w, weight) \in 0 .. 1
<1>2. w \div weight \in Int
  BY SMT
<1>3. \A x \in Int : x % 2 \in 0 .. 1
  BY SMT
<1> QED
  BY <1>2, <1>3 DEF Bit

\* An octal digit is at most 7.
LEMMA DigitRange ==
  ASSUME NEW m \in Int, NEW new \in Int, NEW old \in Int, NEW weight \in Nat \ {0}
  PROVE  ChosenDigit(m, new, old, weight) \in 0 .. 7 * weight
<1>1. ASSUME NEW u \in Nat \ {0}
      PROVE  Chosen(m, new, old, u) \in 0 .. u
  <2>2. Bit(new, u) * u \in 0 .. u /\ Bit(old, u) * u \in 0 .. u
    <3>1. Bit(new, u) \in {0, 1} /\ Bit(old, u) \in {0, 1}
      BY BitRange
    <3> QED
      BY <3>1, SMT
  <2> QED
    BY <2>2 DEF Chosen
<1>2. /\ Chosen(m, new, old, weight) \in 0 .. weight
      /\ Chosen(m, new, old, 2 * weight) \in 0 .. 2 * weight
      /\ Chosen(m, new, old, 4 * weight) \in 0 .. 4 * weight
  BY <1>1
<1> QED
  BY <1>2 DEF ChosenDigit


\* A word is a number below twice HALF.
LEMMA IntegersBelow == \A n \in Int : 0 <= n /\ n < 2 * HALF => n \in Word
<1> SUFFICES ASSUME NEW n \in Int, 0 <= n, n < 2 * HALF PROVE n \in 0 .. 2 * HALF - 1
  BY DEF Word
<1>1. 2 * HALF \in Int
  BY HalfIs
<1> QED BY <1>1

\* DINC reports one of three codes.
LEMMA DincReports == \A w : DincOutput(w) \in Word
<1>1. \o15 \in Word /\ \o16 \in Word /\ \o17 \in Word
  <2>1. \o15 \in 0 .. 2 * HALF - 1 /\ \o16 \in 0 .. 2 * HALF - 1 /\ \o17 \in 0 .. 2 * HALF - 1
    BY HalfIs
  <2> QED BY <2>1 DEF Word
<1>2. \A w : DincOutput(w) \in {\o15, \o16, \o17}
  BY DEF DincOutput
<1> QED BY <1>1, <1>2

\* Merging words gives a word.
LEMMA MergedType ==
  ASSUME NEW m \in Int, NEW new \in Int, NEW old \in Int
  PROVE  Merged(m, new, old) \in Word
<1>1. PICK u1 \in Nat \ {0} : u1 = 1
  BY SMT
<1>2. PICK u2 \in Nat \ {0} : u2 = \o10
  BY SMT
<1>3. PICK u3 \in Nat \ {0} : u3 = \o100
  BY SMT
<1>4. PICK u4 \in Nat \ {0} : u4 = \o1000
  BY SMT
<1>5. PICK u5 \in Nat \ {0} : u5 = \o10000
  BY SMT
<1>6. \A u \in {u1, u2, u3, u4, u5} : ChosenDigit(m, new, old, u) \in 0 .. 7 * u
  BY DigitRange
<1>7. Merged(m, new, old) =
        ChosenDigit(m, new, old, u1) + ChosenDigit(m, new, old, u2)
          + ChosenDigit(m, new, old, u3) + ChosenDigit(m, new, old, u4)
          + ChosenDigit(m, new, old, u5)
  BY <1>1, <1>2, <1>3, <1>4, <1>5, SMTT(30) DEF Merged
<1>8. \A a \in 0 .. 7 * u1, b \in 0 .. 7 * u2, c \in 0 .. 7 * u3,
       d \in 0 .. 7 * u4, e \in 0 .. 7 * u5 : a + b + c + d + e \in Word
  <2>1. TAKE a \in 0 .. 7 * u1, b \in 0 .. 7 * u2, c \in 0 .. 7 * u3,
             d \in 0 .. 7 * u4, e \in 0 .. 7 * u5
  <2>2. a \in Int /\ 0 <= a /\ a <= 7
    BY <1>1, SMTT(30)
  <2>3. b \in Int /\ 0 <= b /\ b <= 56
    BY <1>2, SMTT(30)
  <2>4. c \in Int /\ 0 <= c /\ c <= 448
    BY <1>3, SMTT(30)
  <2>5. d \in Int /\ 0 <= d /\ d <= 3584
    BY <1>4, SMTT(30)
  <2>6. e \in Int /\ 0 <= e /\ e <= 28672
    BY <1>5, SMTT(30)
  <2>7. a + b + c + d + e \in Int /\ 0 <= a + b + c + d + e
    BY <2>2, <2>3, <2>4, <2>5, <2>6, SMTT(30)
  <2>8. a + b + c + d + e < 2 * HALF
    BY <2>2, <2>3, <2>4, <2>5, <2>6, HalfIs, SMTT(30)
  <2> QED
    BY <2>7, <2>8, IntegersBelow, ZenonT(30)
<1> QED
  BY <1>6, <1>7, <1>8, Zenon

LEMMA WordsAreInts == \A w \in Word : w \in Int
BY WordRange


\* The masks that the code itself uses.
LEMMA OwnMasks ==
  ASSUME NEW m \in {\o160, \o1777, \o43777}, NEW new \in Word, NEW old \in Word \cup {0}
  PROVE  Merged(m, new, old) \in Word
<1>1. m \in Int
  BY SMT
<1>2. new \in Int /\ old \in Int
  BY WordsAreInts
<1> QED
  BY <1>1, <1>2, MergedType

-----------------------------------------------------------------------------
(* The state that packets change.                                          *)

\* What an operation leaves: at most one output to send.
Small(s) == s \in States /\ (s.sent = <<>> \/ \E e \in (0 .. 255) \X Word : s.sent = <<e>>)
Quiet(s) == s \in States /\ s.sent = <<>>

LEMMA WriteIOQuiet ==
  ASSUME NEW s, Quiet(s), NEW ch \in Channels, NEW v \in Word
  PROVE  Quiet(WriteIO(s, ch, v))
<1>1. s.InputChannel \in [Channels -> Word] /\ s.OutputChannel10 \in [0 .. 15 -> Word]
  BY DEF Quiet, States
<1>2. Merged(\o1777, v, s.InputChannel[ch]) \in Word
  BY <1>1, OwnMasks
<1> DEFINE t == WriteIO(s, ch, v)
           channels == [s.InputChannel EXCEPT
                          ![ch] = IF ch = \o33 THEN Merged(\o1777, v, @) ELSE v]
           rows == [s.OutputChannel10 EXCEPT ![v \div 2048] = IF ch = \o10 THEN v ELSE @]
           light == IF ch \in {\o15, \o16} /\ v = \o22 THEN FALSE ELSE s.RestartLight
<1>3. t = [s EXCEPT !.InputChannel = channels, !.OutputChannel10 = rows,
                    !.RestartLight = light]
  BY DEF WriteIO
<1>4. channels \in [Channels -> Word]
  BY <1>1, <1>2
<1>5. rows \in [0 .. 15 -> Word]
  <2>1. \A row \in 0 .. 15 : (IF ch = \o10 THEN v ELSE s.OutputChannel10[row]) \in Word
    BY <1>1
  <2>2. PICK row \in 0 .. 15 : row = v \div 2048
    <3>1. v \in Int /\ 0 <= v /\ v <= 32767
      BY WordRange
    <3>2. v \div 2048 \in 0 .. 15
      BY <3>1, SMTT(30)
    <3> QED
      BY <3>2
  <2>3. [s.OutputChannel10 EXCEPT ![row] = IF ch = \o10 THEN v ELSE @] \in [0 .. 15 -> Word]
    BY <1>1, <2>1
  <2> QED
    BY <2>2, <2>3
<1>6. light \in BOOLEAN
  <2>1. s.RestartLight \in BOOLEAN
    BY DEF Quiet, States
  <2> QED
    BY <2>1, Zenon
<1> HIDE DEF t, channels, rows, light
<1>7. t \in States
  BY <1>3, <1>4, <1>5, <1>6, ZenonT(60) DEF Quiet, States
<1>8. t.sent = s.sent
  BY <1>3 DEF Quiet, States
<1> QED
  BY <1>7, <1>8 DEF Quiet, t

LEMMA ChannelOutputSmall ==
  ASSUME NEW s, Quiet(s), NEW ch \in 0 .. 255, NEW v \in Word
  PROVE  Small(ChannelOutput(s, ch, v))
<1>1. s \in States /\ s.InputChannel \in [Channels -> Word] /\ s.Counter \in [Counters -> Word]
      /\ s.LastRhc \in [Rhc -> Word] /\ s.sent = <<>>
  BY DEF Quiet, States
<1>2. CASE ch = 7
  <2>1. Merged(\o160, v, 0) \in Word
    BY OwnMasks
  <2> QED
    BY <1>1, <1>2, <2>1, ZenonT(60) DEF Small, States, ChannelOutput
<1>3. CASE ch # 7
  <2> DEFINE asked == ch = \o13 /\ Bit(v, \o200) = 1 /\ Bit(v, \o400) = 1 /\ ~CmOrLm
             counter == [n \in Counters |->
                           IF asked /\ \E axis \in Rhc : n = RhcCounter(axis)
                           THEN s.LastRhc[n - \o42 + \o166] ELSE s.Counter[n]]
             t == [s EXCEPT !.Counter = counter, !.sent = Append(@, <<ch, v>>)]
  <2>1. ChannelOutput(s, ch, v) = t
    BY <1>3 DEF ChannelOutput
  <2>2. \A n \in Counters : (\E axis \in Rhc : n = RhcCounter(axis))
          => n - \o42 + \o166 \in Rhc
    BY DEF Rhc, RhcCounter
  <2>3. counter \in [Counters -> Word]
    BY <1>1, <2>2
  <2>4. t.sent = << <<ch, v>> >>
    BY <1>1 DEF States
  <2>5. << <<ch, v>> >> \in Seq((0 .. 255) \X Word)
    OBVIOUS
  <2> HIDE DEF counter, asked
  <2>6. t \in States
    BY <1>1, <2>3, <2>4, <2>5, ZenonT(60) DEF States
  <2> QED
    BY <2>1, <2>4, <2>6 DEF Small
<1> QED
  BY <1>2, <1>3

\* A bit set or cleared leaves a word.
LEMMA BitCleared ==
  ASSUME NEW w \in Nat, NEW u \in Nat \ {0}
  PROVE  WithoutBit(w, u) \in 0 .. w
<1> DEFINE b == Bit(w, u)
           q == w \div u
<1>1. b \in {0, 1}
  BY BitRange
<1>2. b = q % 2
  BY DEF Bit
<1>3. q \in Int /\ w = u * q + (w % u) /\ w % u \in 0 .. u - 1
  BY DivMod
<1> HIDE DEF q
<1>4. WithoutBit(w, u) = w - b * u
  BY DEF WithoutBit
<1> HIDE DEF b
<1>5. CASE b = 0
  BY <1>4, <1>5
<1>6. CASE b = 1
  <2>1. q # 0
    BY <1>2, <1>6
  <2>2. q >= 1
    <3>1. ASSUME q <= -1 PROVE FALSE
      <4>1. u * q <= -u
        BY <1>3, <3>1
      <4> QED
        BY <4>1, <1>3
    <3> QED
      BY <1>3, <2>1, <3>1
  <2>3. u * q >= u
    BY <1>3, <2>2
  <2>4. w >= u
    BY <1>3, <2>3
  <2> QED
    BY <1>4, <1>6, <2>4
<1> QED
  BY <1>1, <1>5, <1>6

LEMMA WordsOfBits ==
  ASSUME NEW w \in Word
  PROVE  /\ WithoutBit(w, WARNING) \in Word
         /\ WithBit(w, UPLINK_TOO_FAST) \in Word
         /\ \o76000 + (w % \o2000) \in Word
<1>1. w \in Int /\ 0 <= w /\ w <= 32767
  BY WordRange
<1>2. WithoutBit(w, WARNING) \in Word
  <2>1. PICK u \in Nat \ {0} : u = WARNING
    BY DEF WARNING
  <2>2. WithoutBit(w, u) \in 0 .. w
    BY <1>1, BitCleared
  <2>3. 0 <= WithoutBit(w, u) /\ WithoutBit(w, u) <= 32767 /\ WithoutBit(w, u) \in Int
    BY <1>1, <2>2
  <2>4. WithoutBit(w, u) < 2 * HALF
    BY <2>3, HalfIs
  <2> QED
    BY <2>1, <2>3, <2>4, IntegersBelow
<1>3. PICK k \in Nat \ {0} : k = 1024
  BY SMT
<1>4. /\ w \div k \in Int /\ w = k * (w \div k) + (w % k) /\ w % k \in 0 .. k - 1
      /\ Bit(w, k) \in {0, 1} /\ Bit(w, k) = (w \div k) % 2
  BY <1>1, DivMod, BitRange DEF Bit
<1>5. WithBit(w, UPLINK_TOO_FAST) \in Word
  <2> DEFINE q == w \div k
             r == w % k
             b == Bit(w, k)
  <2>1. WithBit(w, UPLINK_TOO_FAST) = w + (1 - b) * k
    BY <1>3 DEF WithBit, UPLINK_TOO_FAST
  <2>2. q \in Int /\ w = 1024 * q + r /\ r \in 0 .. 1023 /\ b \in {0, 1} /\ b = q % 2
    BY <1>3, <1>4
  <2> HIDE DEF q, r, b
  <2>3. r \in Int /\ 0 <= r /\ r <= 1023
    BY <2>2
  <2>4. q <= 31
    BY <1>1, <2>2, <2>3, SMTT(30)
  <2>5. CASE b = 0
    <3>1. q # 31
      BY <2>2, <2>5, SMTT(30)
    <3>2. q <= 30
      BY <2>2, <2>4, <3>1, SMTT(30)
    <3>3. w + 1024 \in Int /\ 0 <= w + 1024 /\ w + 1024 <= 32767
      BY <1>1, <2>2, <2>3, <3>2, SMTT(30)
    <3>4. w + 1024 < 2 * HALF
      BY <3>3, HalfIs
    <3>5. WithBit(w, UPLINK_TOO_FAST) = w + 1024
      BY <2>1, <2>5, <1>3
    <3> QED
      BY <3>3, <3>4, <3>5, IntegersBelow
  <2>6. CASE b = 1
    BY <1>1, <1>3, <2>1, <2>6
  <2> QED
    BY <2>2, <2>5, <2>6
<1>6. \o76000 + (w % \o2000) \in Word
  <2> DEFINE r == w % 1024
  <2>1. r \in Int /\ 0 <= r /\ r <= 1023
    <3>1. 1024 \in Nat \ {0}
      OBVIOUS
    <3>2. r \in 0 .. 1024 - 1
      BY <1>1, <3>1, DivMod
    <3> HIDE DEF r
    <3> QED
      BY <3>2
  <2>2. \o76000 + (w % \o2000) = 31744 + r
    OBVIOUS
  <2> HIDE DEF r
  <2>3. 31744 + r \in Int /\ 0 <= 31744 + r /\ 31744 + r <= 32767
    BY <2>1
  <2>4. 31744 + r < 2 * HALF
    BY <2>3, HalfIs
  <2> QED
    BY <2>2, <2>3, <2>4, IntegersBelow
<1> QED
  BY <1>2, <1>5, <1>6

LEMMA RelatchedWord ==
  ASSUME NEW s, Quiet(s)
  PROVE  /\ s.InputChannel[\o33] \in Word
         /\ Relatched(s) \in Word
<1>1. s.InputChannel[\o33] \in Word
  BY IoAssumption DEF Quiet, States
<1> DEFINE all == \o76000 + (s.InputChannel[\o33] % \o2000)
<1>2. all \in Word
  BY <1>1, WordsOfBits
<1> HIDE DEF all
<1>3. WithoutBit(all, WARNING) \in Word
  BY <1>2, WordsOfBits
<1> QED
  BY <1>1, <1>2, <1>3 DEF Relatched, all

\* What the program and a restart do to the state before it is sent.
LEMMA QuietSteps ==
  ASSUME NEW s, Quiet(s)
  PROVE  /\ \A on \in BOOLEAN : Quiet([s EXCEPT !.AgcWarning = on])
         /\ \A r : Quiet([s EXCEPT !.InterruptRequests = @ \ {r}])
         /\ \A ch \in Channels, w \in Word : Quiet([s EXCEPT !.InputChannel[ch] = w])
         /\ \A standby \in BOOLEAN : Quiet(Restarted(s, standby))
         /\ Quiet(WarningShown(s))
<1>1. ASSUME NEW on \in BOOLEAN PROVE Quiet([s EXCEPT !.AgcWarning = on])
  <2> DEFINE t == [s EXCEPT !.AgcWarning = on]
  <2>1. t \in States
    BY ZenonT(60) DEF Quiet, States
  <2>2. t.sent = <<>>
    BY DEF Quiet, States
  <2> QED BY <2>1, <2>2 DEF Quiet
<1>2. \A r : Quiet([s EXCEPT !.InterruptRequests = @ \ {r}])
  BY ZenonT(60) DEF Quiet, States
<1>3. ASSUME NEW ch \in Channels, NEW w \in Word PROVE Quiet([s EXCEPT !.InputChannel[ch] = w])
  BY ZenonT(60) DEF Quiet, States
<1>4. s.InputChannel[\o33] \in Word /\ s.RestartLight \in BOOLEAN /\ \o33 \in Channels
  BY IoAssumption DEF Quiet, States
<1>5. ASSUME NEW standby \in BOOLEAN PROVE Quiet(Restarted(s, standby))
  <2> DEFINE w == WithBit(s.InputChannel[\o33], UPLINK_TOO_FAST)
             light == s.RestartLight \/ ~standby
             t == [s EXCEPT !.InputChannel[\o33] = w]
  <2>1. w \in Word
    BY <1>4, WordsOfBits
  <2>2. light \in BOOLEAN
    OBVIOUS
  <2> HIDE DEF w, light
  <2>3. Quiet(t)
    BY <1>3, <1>4, <2>1
  <2>4. Restarted(s, standby) = [t EXCEPT !.InterruptRequests = {}, !.RestartLight = light]
    BY ZenonT(60) DEF Restarted, Quiet, States, w, light
  <2> HIDE DEF t
  <2> QED
    BY <2>2, <2>3, <2>4, ZenonT(60) DEF Quiet, States
<1>6. Quiet(WarningShown(s))
  <2>1. WithoutBit(s.InputChannel[\o33], WARNING) \in Word
    BY <1>4, WordsOfBits
  <2> QED
    BY <1>3, <1>4, <2>1 DEF WarningShown
<1> QED
  BY <1>1, <1>2, <1>3, <1>5, <1>6

LEMMA CpuWriteSmall ==
  ASSUME NEW s, Quiet(s), NEW ch \in Channels, NEW v \in Word
  PROVE  Small(CpuWriteIO(s, ch, v))
<1> DEFINE w == CASE ch = \o13 -> Merged(\o43777, v, 0)
                  [] ch = \o33 -> Relatched(s)
                  [] OTHER -> v
           t == IF ch = \o33 THEN [s EXCEPT !.InputChannel[ch] = w] ELSE WriteIO(s, ch, w)
           u == [t EXCEPT !.RestartLight = IF ch = \o11 /\ Bit(v, \o1000) = 1
                                           THEN FALSE ELSE @]
<1>1. w \in Word
  <2>1. Merged(\o43777, v, 0) \in Word
    BY OwnMasks
  <2>2. Relatched(s) \in Word
    BY RelatchedWord
  <2> QED
    BY <2>1, <2>2
<1>2. Quiet(t)
  <2> HIDE DEF w
  <2>1. Quiet([s EXCEPT !.InputChannel[ch] = w])
    BY <1>1, QuietSteps
  <2>2. Quiet(WriteIO(s, ch, w))
    BY <1>1, WriteIOQuiet
  <2> QED
    BY <2>1, <2>2
<1> HIDE DEF t
<1>3. Quiet(u)
  <2> DEFINE light == IF ch = \o11 /\ Bit(v, \o1000) = 1 THEN FALSE ELSE t.RestartLight
  <2>1. light \in BOOLEAN
    <3>1. t.RestartLight \in BOOLEAN
      BY <1>2 DEF Quiet, States
    <3> QED
      BY <3>1, Zenon
  <2>2. u = [t EXCEPT !.RestartLight = light]
    OBVIOUS
  <2> HIDE DEF light, u
  <2> QED
    BY <1>2, <2>1, <2>2, ZenonT(60) DEF Quiet, States
<1>4. ch \in 0 .. 255
  BY IoAssumption
<1> HIDE DEF w, u
<1>5. Small(ChannelOutput(u, ch, w))
  BY <1>1, <1>3, <1>4, ChannelOutputSmall
<1> QED
  BY <1>5 DEF CpuWriteIO, u, t, w

LEMMA ChannelWriteSmall ==
  ASSUME NEW s, Quiet(s), NEW m \in Word, NEW ch \in Channels, NEW value \in Word
  PROVE  Small(ChannelWrite(s, m, ch, value))
<1> DEFINE v == Merged(m, value, s.InputChannel[ch])
           t == WriteIO(s, ch, v)
<1>1. v \in Word
  <2>1. s.InputChannel[ch] \in Word
    BY DEF Quiet, States
  <2> QED
    BY <2>1, MergedType, WordsAreInts
<1> HIDE DEF v
<1>2. Quiet(t)
  BY <1>1, WriteIOQuiet
<1> HIDE DEF t
<1>3. Small([t EXCEPT !.InterruptRequests = @ \cup {Keyrupt}])
  BY <1>2, ZenonT(60) DEF Quiet, Small, States
<1>4. Small([t EXCEPT !.Counter[INLINK] = v, !.InterruptRequests = @ \cup {Uprupt}])
  BY <1>1, <1>2, ZenonT(60) DEF Quiet, Small, States
<1>5. ASSUME ch \in Rhc PROVE Small(ChannelOutput([t EXCEPT !.LastRhc[ch] = v], ch, v))
  <2>1. Quiet([t EXCEPT !.LastRhc[ch] = v])
    BY <1>1, <1>2, ZenonT(60) DEF Quiet, States
  <2>2. ch \in 0 .. 255
    BY IoAssumption
  <2> QED
    BY <1>1, <2>1, <2>2, ChannelOutputSmall
<1>6. Small(t)
  BY <1>2 DEF Quiet, Small
<1>7. ChannelWrite(s, m, ch, value) =
        CASE ch = \o15 -> [t EXCEPT !.InterruptRequests = @ \cup {Keyrupt}]
          [] ch = \o173 -> [t EXCEPT !.Counter[INLINK] = v, !.InterruptRequests = @ \cup {Uprupt}]
          [] ch \in Rhc -> ChannelOutput([t EXCEPT !.LastRhc[ch] = v], ch, v)
          [] OTHER -> t
  BY DEF ChannelWrite, t, v
<1> QED
  BY <1>3, <1>4, <1>5, <1>6, <1>7 DEF Rhc

\* A counter stays a word.
LEMMA CounterType ==
  ASSUME NEW w \in Word
  PROVE  /\ CounterPINC(w) \in Word /\ CounterMINC(w) \in Word
         /\ CounterPCDU(w) \in Word /\ CounterMCDU(w) \in Word
         /\ CounterDINC(w) \in Word
         /\ CounterSHINC(w) \in Word /\ CounterSHANC(w) \in Word
<1>3. w \in Int /\ 0 <= w /\ w <= 32767
  BY WordRange
<1>1. /\ CounterPINC(w) \in Word /\ CounterMINC(w) \in Word
      /\ CounterPCDU(w) \in Word /\ CounterMCDU(w) \in Word
  <2>1. CounterPINC(w) \in Int /\ 0 <= CounterPINC(w) /\ CounterPINC(w) < 2 * HALF
    BY <1>3, HalfIs DEF CounterPINC, AGC_P0, AGC_P1, AGC_M0
  <2>2. CounterMINC(w) \in Int /\ 0 <= CounterMINC(w) /\ CounterMINC(w) < 2 * HALF
    BY <1>3, HalfIs DEF CounterMINC, AGC_P0, AGC_M0, AGC_M1
  <2>3. CounterPCDU(w) \in Int /\ 0 <= CounterPCDU(w) /\ CounterPCDU(w) < 2 * HALF
    BY <1>3, HalfIs DEF CounterPCDU, AGC_M0
  <2>4. CounterMCDU(w) \in Int /\ 0 <= CounterMCDU(w) /\ CounterMCDU(w) < 2 * HALF
    BY <1>3, HalfIs DEF CounterMCDU, AGC_M0
  <2> QED
    BY <2>1, <2>2, <2>3, <2>4, IntegersBelow
<1>2. \A x \in Int : x % HALF \in Word /\ x % (2 * HALF) \in Word
  <2> TAKE x \in Int
  <2>1. HALF \in Nat \ {0} /\ 2 * HALF \in Nat \ {0}
    BY HalfIs
  <2>2. /\ x % HALF \in Int /\ 0 <= x % HALF /\ x % HALF < HALF
        /\ x % (2 * HALF) \in Int /\ 0 <= x % (2 * HALF) /\ x % (2 * HALF) < 2 * HALF
    BY <2>1, DivMod
  <2> QED
    BY <2>1, <2>2, IntegersBelow
<1>4. CounterSHINC(w) \in Word /\ CounterSHANC(w) \in Word
  BY <1>2, <1>3 DEF CounterSHINC, CounterSHANC
<1>5. CounterDINC(w) \in Word
  <2>1. /\ AddSP16(SignExtend(w), SignExtend(AGC_P1)) \in Int
        /\ AddSP16(SignExtend(w), SignExtend(AGC_M1)) \in Int
    BY <1>3, HalfIs, SMT DEF AddSP16, SignExtend, IsNegative, AGC_P1, AGC_M1
  <2> QED
    BY <2>1, <1>2 DEF CounterDINC
<1> QED
  BY <1>1, <1>4, <1>5

\* A count sends at most the output of a drive.
LEMMA UnprogrammedIncrementSmall ==
  ASSUME NEW s, Quiet(s), NEW n \in Counters, NEW type \in Word
  PROVE  Small(UnprogrammedIncrement(s, n, type))
<1>1. /\ s \in States /\ s.sent = <<>> /\ s.Counter[n] \in Word
      /\ s.pushed \in Seq(Cdus \X {1, 3, \o21, \o23})
  BY DEF Quiet, States
<1>2. ASSUME NEW w \in Word PROVE Small([s EXCEPT !.Counter[n] = w])
  BY <1>1, ZenonT(60) DEF Small, States
<1>3. ASSUME n \in Cdus, NEW code \in {1, 3, \o21, \o23}
      PROVE  Small([s EXCEPT !.pushed = Append(@, <<n, code>>)])
  <2>1. Append(s.pushed, <<n, code>>) \in Seq(Cdus \X {1, 3, \o21, \o23})
    BY <1>1, <1>3
  <2> QED
    BY <1>1, <2>1, ZenonT(60) DEF Small, States
<1>4. ASSUME NEW w \in Word
      PROVE  Small([ChannelOutput(s, 128 + n, DincOutput(s.Counter[n]))
                      EXCEPT !.Counter[n] = w])
  <2>1. 128 + n \in 0 .. 255
    BY IoAssumption
  <2>2. DincOutput(s.Counter[n]) \in Word
    BY DincReports
  <2>3. Small(ChannelOutput(s, 128 + n, DincOutput(s.Counter[n])))
    BY <2>1, <2>2, ChannelOutputSmall
  <2> DEFINE t == ChannelOutput(s, 128 + n, DincOutput(s.Counter[n]))
             u == [t EXCEPT !.Counter[n] = w]
  <2>4. t \in States /\ (t.sent = <<>> \/ \E e \in (0 .. 255) \X Word : t.sent = <<e>>)
    BY <2>3 DEF Small
  <2> HIDE DEF t
  <2>5. u \in States /\ u.sent = t.sent
    BY <2>4, ZenonT(60) DEF States
  <2> QED
    BY <2>4, <2>5 DEF Small, t
<1>5. Small(s)
  BY <1>1 DEF Small
<1> DEFINE c == s.Counter[n]
<1>6. /\ Small([s EXCEPT !.Counter[n] = CounterPINC(@)])
      /\ Small([s EXCEPT !.Counter[n] = CounterPCDU(@)])
      /\ Small([s EXCEPT !.Counter[n] = CounterMINC(@)])
      /\ Small([s EXCEPT !.Counter[n] = CounterMCDU(@)])
      /\ Small([s EXCEPT !.Counter[n] = CounterSHINC(@)])
      /\ Small([s EXCEPT !.Counter[n] = CounterSHANC(@)])
      /\ Small([ChannelOutput(s, 128 + n, DincOutput(s.Counter[n]))
                  EXCEPT !.Counter[n] = CounterDINC(@)])
  <2>1. 128 + n \in 0 .. 255
    BY IoAssumption
  <2>2. DincOutput(s.Counter[n]) \in Word
    BY DincReports
  <2>3. Small(ChannelOutput(s, 128 + n, DincOutput(s.Counter[n])))
    BY <2>1, <2>2, ChannelOutputSmall
  <2>4. ChannelOutput(s, 128 + n, DincOutput(s.Counter[n])).Counter[n] \in Word
    BY <2>3 DEF Small, States
  <2> QED
    BY <1>1, <1>2, <1>4, <2>4, CounterType
<1>7. CASE type = 0
  BY <1>6, <1>7 DEF UnprogrammedIncrement
<1>8. CASE type \in {1, \o21}
  BY <1>3, <1>6, <1>8 DEF UnprogrammedIncrement
<1>9. CASE type \in {3, \o23}
  BY <1>3, <1>6, <1>9 DEF UnprogrammedIncrement
<1>10. CASE type \in {2, 4, 5, 6}
  BY <1>6, <1>10 DEF UnprogrammedIncrement
<1>11. CASE type \notin {0, 1, 2, 3, 4, 5, 6, \o21, \o23}
  BY <1>5, <1>11 DEF UnprogrammedIncrement
<1> QED
  BY <1>7, <1>8, <1>9, <1>10, <1>11

-----------------------------------------------------------------------------
(* Operations on the rings are operations of queues.                       *)

\* A packet says the channel or the counter it was written for.
LEMMA PacketMeaning ==
  ASSUME NEW ch \in Ports, NEW v \in Word,
         IF ch \in 128 .. 255 THEN ch % 128 \in Counters ELSE ch % 256 \in Channels,
         NEW p, p = FormIoPacket(ch, v)
  PROVE  /\ p \in Packet
         /\ ParseIoPacket(p).Value \in Word /\ ParseIoPacket(p).Channel \in Int
         /\ ~ParseIoPacket(p).uBit =>
              IF ParseIoPacket(p).Channel >= 128
              THEN ParseIoPacket(p).Channel % 128 \in Counters
              ELSE ParseIoPacket(p).Channel \in Channels
<1>1. /\ p \in Packet
      /\ ParseIoPacket(p).Value = v
      /\ ParseIoPacket(p).Channel = ch % 256
      /\ ParseIoPacket(p).uBit <=> ch >= 256
  BY RoundTrip, ZenonT(60)
<1>2. ch \in 0 .. 511
  BY DEF Ports
<1>3. ch < 256 => ch % 256 = ch
  BY <1>2, SMT
<1>4. CASE ch >= 256
  BY <1>1, <1>2, <1>4
<1>5. CASE ch < 256
  BY <1>1, <1>2, <1>3, <1>5
<1> QED
  BY <1>2, <1>4, <1>5

\* The packets of the host say channels and counters that there are.
LEMMA InPacketsMeaning ==
  ASSUME NEW p \in InPackets
  PROVE  /\ p \in Packet
         /\ ParseIoPacket(p).Value \in Word /\ ParseIoPacket(p).Channel \in Int
         /\ ~ParseIoPacket(p).uBit =>
              IF ParseIoPacket(p).Channel >= 128
              THEN ParseIoPacket(p).Channel % 128 \in Counters
              ELSE ParseIoPacket(p).Channel \in Channels
<1>1. PICK w \in Writes : p = FormIoPacket(w[1], w[2])
  BY DEF InPackets
<1>2. w[1] \in Ports /\ w[2] \in Word
  BY WritesAssumption DEF Ports
<1>3. IF w[1] \in 128 .. 255 THEN w[1] % 128 \in Counters ELSE w[1] % 256 \in Channels
  BY WritesAssumption
<1> QED
  BY <1>1, <1>2, <1>3, PacketMeaning, Zenon

LEMMA PutInStep ==
  ASSUME ringbuffer_in \in Rings, NEW p \in Packet, PutIn(p)
  PROVE  /\ ringbuffer_in' \in Rings
         /\ InQueue!Next
         /\ Contents(ringbuffer_in') \in {Contents(ringbuffer_in), Append(Contents(ringbuffer_in), p)}
<1>1. ringbuffer_in' = Put(ringbuffer_in, p)
      /\ inAnswer' = <<"put", p, ~IsFull(ringbuffer_in)>>
  BY DEF PutIn
<1>2. ringbuffer_in' \in Rings
  BY <1>1, PutType
<1>3. Len(Contents(ringbuffer_in)) = Count(ringbuffer_in)
      /\ Count(ringbuffer_in) \in 0 .. RINGBUFFER_ELEMENTS - 1
      /\ (IsFull(ringbuffer_in) <=> Count(ringbuffer_in) = RINGBUFFER_ELEMENTS - 1)
  BY ContentsType, SlotsOfRing, FullCount
<1>4. CASE IsFull(ringbuffer_in)
  <2>1. ringbuffer_in' = ringbuffer_in
    BY <1>1, <1>4 DEF Put
  <2>2. inAnswer' = <<"put", p, FALSE>>
    BY <1>1, <1>4, Zenon
  <2>3. inAnswer' \in {"put"} \X Packet \X {FALSE}
    <3>1. <<"put", p, FALSE>> \in {"put"} \X Packet \X {FALSE}
      OBVIOUS
    <3> QED
      BY <2>2, <3>1, Zenon
  <2>4. Len(Contents(ringbuffer_in)) = RINGBUFFER_ELEMENTS - 1
    BY <1>3, <1>4
  <2>5. InQueue!Refuse
    BY <2>1, <2>3, <2>4, Zenon DEF InQueue!Refuse
  <2> QED
    BY <1>2, <2>1, <2>5 DEF InQueue!Next
<1>5. CASE ~IsFull(ringbuffer_in)
  <2>1. Contents(ringbuffer_in') = Append(Contents(ringbuffer_in), p)
    BY <1>1, <1>5, PutAppends
  <2>2. inAnswer' = <<"put", p, TRUE>>
    BY <1>1, <1>5, Zenon
  <2>3. Len(Contents(ringbuffer_in)) < RINGBUFFER_ELEMENTS - 1
    BY <1>3, <1>5, RingAssumption
  <2>4. inAnswer' \in {"put"} \X Packet \X {TRUE}
    <3>1. <<"put", p, TRUE>> \in {"put"} \X Packet \X {TRUE}
      OBVIOUS
    <3> QED
      BY <2>2, <3>1, Zenon
  <2>5. inAnswer'[2] = p
    BY <2>2
  <2>6. InQueue!Accept
    BY <2>1, <2>3, <2>4, <2>5, Zenon DEF InQueue!Accept
  <2> QED
    BY <1>2, <2>1, <2>6 DEF InQueue!Next
<1> QED
  BY <1>4, <1>5

LEMMA GetInStep ==
  ASSUME ringbuffer_in \in Rings, GetIn
  PROVE  /\ ringbuffer_in' \in Rings
         /\ InQueue!Next
         /\ IsEmpty(ringbuffer_in) => Contents(ringbuffer_in') = Contents(ringbuffer_in)
         /\ ~IsEmpty(ringbuffer_in) =>
              /\ Contents(ringbuffer_in) # <<>>
              /\ Oldest(ringbuffer_in) = Head(Contents(ringbuffer_in))
              /\ Contents(ringbuffer_in') = Tail(Contents(ringbuffer_in))
<1>1. ringbuffer_in' \in Rings
  BY GotType DEF GetIn
<1>2. CASE IsEmpty(ringbuffer_in)
  <2>1. Contents(ringbuffer_in) = <<>>
    BY <1>2, FullCount, ContentsType, EmptySeq
  <2>2. ringbuffer_in' = ringbuffer_in /\ inAnswer' = <<"nothing">>
    BY <1>2 DEF GetIn, Got
  <2>3. InQueue!TakeNothing
    BY <2>1, <2>2 DEF InQueue!TakeNothing
  <2> QED
    BY <1>1, <1>2, <2>2, <2>3 DEF InQueue!Next
<1>3. CASE ~IsEmpty(ringbuffer_in)
  <2>1. ringbuffer_in' = Got(ringbuffer_in)
        /\ inAnswer' = <<"get", Oldest(ringbuffer_in), TRUE>>
    BY <1>3 DEF GetIn
  <2>2. /\ Contents(ringbuffer_in) # <<>>
        /\ Oldest(ringbuffer_in) = Head(Contents(ringbuffer_in))
        /\ Contents(ringbuffer_in') = Tail(Contents(ringbuffer_in))
    BY <1>3, <2>1, GotTakesOldest
  <2>3. InQueue!Take
    BY <2>1, <2>2 DEF InQueue!Take
  <2> QED
    BY <1>1, <1>3, <2>2, <2>3 DEF InQueue!Next
<1> QED
  BY <1>2, <1>3

LEMMA PutOutStep ==
  ASSUME ringbuffer_out \in Rings, NEW p \in Packet,
         ringbuffer_out' = Put(ringbuffer_out, p),
         outAnswer' = <<"put", p, ~IsFull(ringbuffer_out)>>
  PROVE  /\ ringbuffer_out' \in Rings
         /\ OutQueue!Next
<1>1. ringbuffer_out' = Put(ringbuffer_out, p)
      /\ outAnswer' = <<"put", p, ~IsFull(ringbuffer_out)>>
  OBVIOUS
<1>2. ringbuffer_out' \in Rings
  BY <1>1, PutType
<1>3. Len(Contents(ringbuffer_out)) = Count(ringbuffer_out)
      /\ Count(ringbuffer_out) \in 0 .. RINGBUFFER_ELEMENTS - 1
      /\ (IsFull(ringbuffer_out) <=> Count(ringbuffer_out) = RINGBUFFER_ELEMENTS - 1)
  BY ContentsType, SlotsOfRing, FullCount
<1>4. CASE IsFull(ringbuffer_out)
  <2>1. ringbuffer_out' = ringbuffer_out
    BY <1>1, <1>4 DEF Put
  <2>2. outAnswer' = <<"put", p, FALSE>>
    BY <1>1, <1>4, Zenon
  <2>3. outAnswer' \in {"put"} \X Packet \X {FALSE}
    <3>1. <<"put", p, FALSE>> \in {"put"} \X Packet \X {FALSE}
      OBVIOUS
    <3> QED
      BY <2>2, <3>1, Zenon
  <2>4. Len(Contents(ringbuffer_out)) = RINGBUFFER_ELEMENTS - 1
    BY <1>3, <1>4
  <2>5. OutQueue!Refuse
    BY <2>1, <2>3, <2>4, Zenon DEF OutQueue!Refuse
  <2> QED
    BY <1>2, <2>1, <2>5 DEF OutQueue!Next
<1>5. CASE ~IsFull(ringbuffer_out)
  <2>1. Contents(ringbuffer_out') = Append(Contents(ringbuffer_out), p)
    BY <1>1, <1>5, PutAppends
  <2>2. outAnswer' = <<"put", p, TRUE>>
    BY <1>1, <1>5, Zenon
  <2>3. Len(Contents(ringbuffer_out)) < RINGBUFFER_ELEMENTS - 1
    BY <1>3, <1>5, RingAssumption
  <2>4. outAnswer' \in {"put"} \X Packet \X {TRUE}
    <3>1. <<"put", p, TRUE>> \in {"put"} \X Packet \X {TRUE}
      OBVIOUS
    <3> QED
      BY <2>2, <3>1, Zenon
  <2>5. outAnswer'[2] = p
    BY <2>2
  <2>6. OutQueue!Accept
    BY <2>1, <2>3, <2>4, <2>5, Zenon DEF OutQueue!Accept
  <2> QED
    BY <1>2, <2>1, <2>6 DEF OutQueue!Next
<1> QED
  BY <1>4, <1>5

LEMMA GetOutStep ==
  ASSUME ringbuffer_out \in Rings, GetOut
  PROVE  /\ ringbuffer_out' \in Rings
         /\ OutQueue!Next
         /\ IsEmpty(ringbuffer_out) => Contents(ringbuffer_out') = Contents(ringbuffer_out)
         /\ ~IsEmpty(ringbuffer_out) =>
              /\ Contents(ringbuffer_out) # <<>>
              /\ Oldest(ringbuffer_out) = Head(Contents(ringbuffer_out))
              /\ Contents(ringbuffer_out') = Tail(Contents(ringbuffer_out))
<1>1. ringbuffer_out' \in Rings
  BY GotType DEF GetOut
<1>2. CASE IsEmpty(ringbuffer_out)
  <2>1. Contents(ringbuffer_out) = <<>>
    BY <1>2, FullCount, ContentsType, EmptySeq
  <2>2. ringbuffer_out' = ringbuffer_out /\ outAnswer' = <<"nothing">>
    BY <1>2 DEF GetOut, Got
  <2>3. OutQueue!TakeNothing
    BY <2>1, <2>2 DEF OutQueue!TakeNothing
  <2> QED
    BY <1>1, <1>2, <2>2, <2>3 DEF OutQueue!Next
<1>3. CASE ~IsEmpty(ringbuffer_out)
  <2>1. ringbuffer_out' = Got(ringbuffer_out)
        /\ outAnswer' = <<"get", Oldest(ringbuffer_out), TRUE>>
    BY <1>3 DEF GetOut
  <2>2. /\ Contents(ringbuffer_out) # <<>>
        /\ Oldest(ringbuffer_out) = Head(Contents(ringbuffer_out))
        /\ Contents(ringbuffer_out') = Tail(Contents(ringbuffer_out))
    BY <1>3, <2>1, GotTakesOldest
  <2>3. OutQueue!Take
    BY <2>1, <2>2 DEF OutQueue!Take
  <2> QED
    BY <1>1, <1>3, <2>2, <2>3 DEF OutQueue!Next
<1> QED
  BY <1>2, <1>3

-----------------------------------------------------------------------------
(* The invariant: between the host's calls and the steps of the engine     *)
(* nothing is left to send, and only the host's packets wait in its ring.  *)

RingInv ==
  /\ RTypeOK
  /\ State.sent = <<>>
  /\ Contents(ringbuffer_in) \in Seq(InPackets)

\* What a step does to each ring and to the engine's state.
InSteps == /\ ringbuffer_in' \in Rings
           /\ Contents(ringbuffer_in') \in Seq(InPackets)
           /\ InQueue!Next
OutSteps == ringbuffer_out' \in Rings /\ OutQueue!Next
StateSteps == State' \in States /\ State'.sent = <<>>

LEMMA PutInInv ==
  ASSUME RingInv, NEW w \in Writes, PutIn(FormIoPacket(w[1], w[2]))
  PROVE  InSteps
<1>1. FormIoPacket(w[1], w[2]) \in InPackets
  BY DEF InPackets
<1>2. FormIoPacket(w[1], w[2]) \in Packet
  BY <1>1, InPacketsMeaning
<1>3. ringbuffer_in \in Rings /\ Contents(ringbuffer_in) \in Seq(InPackets)
  BY DEF RingInv, RTypeOK
<1>4. /\ ringbuffer_in' \in Rings
      /\ InQueue!Next
      /\ Contents(ringbuffer_in') \in
           {Contents(ringbuffer_in), Append(Contents(ringbuffer_in), FormIoPacket(w[1], w[2]))}
  BY <1>2, <1>3, PutInStep
<1>5. Append(Contents(ringbuffer_in), FormIoPacket(w[1], w[2])) \in Seq(InPackets)
  BY <1>1, <1>3, AppendProperties
<1> QED
  BY <1>3, <1>4, <1>5 DEF InSteps

LEMMA GetInInv ==
  ASSUME RingInv, GetIn
  PROVE  InSteps /\ (~IsEmpty(ringbuffer_in) => Oldest(ringbuffer_in) \in InPackets)
<1>1. ringbuffer_in \in Rings /\ Contents(ringbuffer_in) \in Seq(InPackets)
  BY DEF RingInv, RTypeOK
<1>2. /\ ringbuffer_in' \in Rings
      /\ InQueue!Next
      /\ IsEmpty(ringbuffer_in) => Contents(ringbuffer_in') = Contents(ringbuffer_in)
      /\ ~IsEmpty(ringbuffer_in) =>
           /\ Contents(ringbuffer_in) # <<>>
           /\ Oldest(ringbuffer_in) = Head(Contents(ringbuffer_in))
           /\ Contents(ringbuffer_in') = Tail(Contents(ringbuffer_in))
  BY <1>1, GetInStep
<1>3. Contents(ringbuffer_in) # <<>> => /\ Head(Contents(ringbuffer_in)) \in InPackets
                                        /\ Tail(Contents(ringbuffer_in)) \in Seq(InPackets)
  BY <1>1, HeadTailProperties
<1> QED
  BY <1>1, <1>2, <1>3 DEF InSteps

LEMMA RestInInv ==
  ASSUME RingInv, RestIn
  PROVE  InSteps
<1>1. InQueue!Rest
  BY DEF RestIn, InQueue!Rest
<1> QED
  BY <1>1 DEF InSteps, InQueue!Next, RestIn, RingInv, RTypeOK

LEMMA RestOutInv ==
  ASSUME RingInv, RestOut
  PROVE  OutSteps
<1>1. OutQueue!Rest
  BY DEF RestOut, OutQueue!Rest
<1> QED
  BY <1>1 DEF OutSteps, OutQueue!Next, RestOut, RingInv, RTypeOK

LEMMA BecomesInv ==
  ASSUME RingInv, NEW s, Small(s), Becomes(s)
  PROVE  OutSteps /\ StateSteps
<1>1. s \in States /\ (s.sent = <<>> \/ \E e \in (0 .. 255) \X Word : s.sent = <<e>>)
  BY DEF Small
<1>2. State' = [s EXCEPT !.sent = <<>>]
  BY DEF Becomes
<1>3. StateSteps
  <2>1. <<>> \in Seq((0 .. 255) \X Word)
    BY EmptySeq
  <2> QED
    BY <1>1, <1>2, <2>1, ZenonT(60) DEF StateSteps, States
<1>4. CASE s.sent = <<>>
  <2>1. RestOut
    BY <1>4 DEF Becomes
  <2> QED
    BY <1>3, <2>1, RestOutInv
<1>5. CASE s.sent # <<>>
  <2>1. PICK e \in (0 .. 255) \X Word : s.sent = <<e>>
    BY <1>1, <1>5
  <2>2. e[1] \in Ports /\ e[2] \in Word
    BY <2>1 DEF Ports
  <2> DEFINE packet == FormIoPacket(e[1], e[2])
  <2>3. packet \in Packet
    BY <2>2, RoundTrip, Zenon
  <2>4. s.sent[1] = e
    BY <2>1
  <2>5. /\ ringbuffer_out' = Put(ringbuffer_out, packet)
        /\ outAnswer' = <<"put", packet, ~IsFull(ringbuffer_out)>>
    BY <1>5, <2>4 DEF Becomes
  <2> HIDE DEF packet
  <2>6. ringbuffer_out \in Rings
    BY DEF RingInv, RTypeOK
  <2> QED
    BY <1>3, <2>3, <2>5, <2>6, PutOutStep DEF OutSteps
<1> QED
  BY <1>4, <1>5

LEMMA StartStateType == StartState \in States /\ StartState.sent = <<>>
<1>1. 0 \in Word /\ \o37777 \in Word /\ \o77777 \in Word
  BY HalfIs, SMT DEF Word
<1>2. /\ <<>> \in Seq(Cdus \X {1, 3, \o21, \o23})
      /\ <<>> \in Seq((0 .. 255) \X Word)
  BY EmptySeq
<1> QED
  BY <1>1, <1>2 DEF StartState, States

\* The channels that a restart writes, and what it writes there.
LEMMA RestartWrites ==
  /\ Len(RestartChannels) = 9
  /\ \A k \in 0 .. 8 : RestartChannels[k + 1] \in ClearedChannels
  /\ ClearedChannels \subseteq Channels /\ \o77 \in Channels /\ \o77 \in 0 .. 255
  /\ 0 \in Word
<1>1. Len(RestartChannels) = 9
  BY DEF RestartChannels
<1>2. \A k \in 0 .. 8 : k + 1 \in 1 .. 9
  BY SMT
<1>3. 0 \in Word
  BY HalfIs, SMT DEF Word
<1>4. \o77 \in 0 .. 255
  BY SMT
<1> QED
  BY <1>1, <1>2, <1>3, <1>4, WritesAssumption DEF ClearedChannels

\* What a restart leaves in channel 77.
Alarmed(s, alarm) == Merged(alarm, alarm, s.InputChannel[\o77])

LEMMA AlarmedQuiet ==
  ASSUME NEW s, Quiet(s), NEW alarm \in Alarms
  PROVE  /\ Alarmed(s, alarm) \in Word
         /\ Quiet([s EXCEPT !.InputChannel[\o77] = Alarmed(s, alarm)])
<1> \o77 \in Channels
  BY WritesAssumption
<1>1. s.InputChannel[\o77] \in Int /\ alarm \in Int
  <2>1. s.InputChannel[\o77] \in Word
    BY DEF Quiet, States
  <2>2. alarm \in Word
    BY WritesAssumption
  <2> QED BY <2>1, <2>2, WordsAreInts
<1>2. Alarmed(s, alarm) \in Word
  BY <1>1, MergedType DEF Alarmed
<1> QED
  BY <1>1, <1>2, QuietSteps

LEMMA ProgramSmall ==
  ASSUME RingInv
  PROVE  /\ Quiet(State) /\ Small(State)
         /\ Quiet(WarningShown(State)) /\ Small(WarningShown(State))
         /\ \A v \in Word : Small(ChannelOutput(WarningShown(State), \o163, v))
         /\ \A on \in BOOLEAN :
              /\ Quiet(Scaled(on)) /\ Small(Scaled(on))
              /\ \A o \in Outputs : Small(CpuWriteIO(Scaled(on), o[1], o[2]))
              /\ \A r : Small([Scaled(on) EXCEPT !.InterruptRequests = @ \ {r}])
              /\ \A standby \in BOOLEAN : Small(Restarted(Scaled(on), standby))
         /\ \A k \in 0 .. 8 : Small(CpuWriteIO(State, RestartChannels[k + 1], 0))
         /\ \A alarm \in Alarms :
              Small(ChannelOutput([State EXCEPT !.InputChannel[\o77] = Alarmed(State, alarm)],
                                  \o77, Alarmed(State, alarm)))
<1>1. Quiet(State)
  BY DEF RingInv, RTypeOK, Quiet
<1>2. \A o \in Outputs : o[1] \in Channels /\ o[2] \in Word
  BY WritesAssumption
<1>3. \A s : Quiet(s) => Small(s)
  BY DEF Quiet, Small
<1>4. Quiet(WarningShown(State))
  BY <1>1, QuietSteps
<1>5. \o163 \in 0 .. 255
  BY SMT
<1>6. \A v \in Word : Small(ChannelOutput(WarningShown(State), \o163, v))
  BY <1>4, <1>5, ChannelOutputSmall
<1>7. ASSUME NEW on \in BOOLEAN
      PROVE  /\ Quiet(Scaled(on))
             /\ \A o \in Outputs : Small(CpuWriteIO(Scaled(on), o[1], o[2]))
             /\ \A r : Small([Scaled(on) EXCEPT !.InterruptRequests = @ \ {r}])
             /\ \A standby \in BOOLEAN : Small(Restarted(Scaled(on), standby))
  <2>1. Quiet(Scaled(on))
    BY <1>1, QuietSteps DEF Scaled
  <2>2. \A o \in Outputs : Small(CpuWriteIO(Scaled(on), o[1], o[2]))
    BY <1>2, <2>1, CpuWriteSmall
  <2>3. \A r : Small([Scaled(on) EXCEPT !.InterruptRequests = @ \ {r}])
    BY <1>3, <2>1, QuietSteps
  <2>4. \A standby \in BOOLEAN : Small(Restarted(Scaled(on), standby))
    BY <1>3, <2>1, QuietSteps
  <2> QED
    BY <2>1, <2>2, <2>3, <2>4
<1>8. \A k \in 0 .. 8 : Small(CpuWriteIO(State, RestartChannels[k + 1], 0))
  BY <1>1, RestartWrites, CpuWriteSmall
<1>9. \A alarm \in Alarms :
         Small(ChannelOutput([State EXCEPT !.InputChannel[\o77] = Alarmed(State, alarm)],
                             \o77, Alarmed(State, alarm)))
  BY <1>1, AlarmedQuiet, RestartWrites, ChannelOutputSmall
<1> QED
  BY <1>1, <1>3, <1>4, <1>6, <1>7, <1>8, <1>9

LEMMA MasksKept ==
  ASSUME RingInv, UNCHANGED ChannelMasks
  PROVE  ChannelMasks' \in [Channels -> Word]
BY DEF RingInv, RTypeOK

\* A step of the host or of the engine keeps the invariant, and is a step of
\* each queue.
LEMMA RingNext ==
  ASSUME RingInv, Next
  PROVE  RingInv' /\ InQueue!Next /\ OutQueue!Next
<1> DEFINE Rest == /\ ChannelIsSetUp' \in BOOLEAN
                   /\ ChannelMasks' \in [Channels -> Word]
                   /\ engine' \in {"host", "lamps", "input", "program", "restart"}
                   /\ cleared' \in 0 .. 9
<1>1. /\ ChannelIsSetUp \in BOOLEAN
      /\ ChannelMasks \in [Channels -> Word]
      /\ State \in States /\ State.sent = <<>>
      /\ engine \in {"host", "lamps", "input", "program", "restart"}
      /\ cleared \in 0 .. 9
      /\ ringbuffer_in \in Rings /\ ringbuffer_out \in Rings
  BY RestartWrites DEF RingInv, RTypeOK
<1>2. ASSUME NEW w \in Writes, packet_write(w[1], w[2])
      PROVE  InSteps /\ OutSteps /\ StateSteps /\ Rest
  BY <1>1, <1>2, PutInInv, RestOutInv DEF packet_write, StateSteps
<1>3. ASSUME packet_read
      PROVE  InSteps /\ OutSteps /\ StateSteps /\ Rest
  <2>1. OutSteps
    BY <1>1, <1>3, GetOutStep DEF packet_read, OutSteps
  <2> QED
    BY <1>1, <1>3, <2>1, RestInInv DEF packet_read, StateSteps
<1>4. ASSUME EngineCall
      PROVE  InSteps /\ OutSteps /\ StateSteps /\ Rest
  <2>1. CASE SetsUp
    <3>1. /\ ringbuffer_in' \in Rings /\ Contents(ringbuffer_in') = <<>>
          /\ ringbuffer_out' \in Rings /\ Contents(ringbuffer_out') = <<>>
      BY <1>1, <1>4, <2>1, EmptiedIsEmpty DEF EngineCall
    <3>2. InQueue!Clear /\ OutQueue!Clear
      BY <1>4, <2>1, <3>1 DEF EngineCall, InQueue!Clear, OutQueue!Clear
    <3>3. Contents(ringbuffer_in') \in Seq(InPackets)
      BY <3>1, EmptySeq
    <3>4. \o77777 \in Word
      BY HalfIs, SMT DEF Word
    <3>5. Rest
      BY <1>1, <1>4, <2>1, <3>4 DEF EngineCall
    <3> QED
      BY <1>1, <1>4, <3>1, <3>2, <3>3, <3>5
         DEF EngineCall, InSteps, OutSteps, StateSteps, InQueue!Next, OutQueue!Next
  <2>2. CASE ~SetsUp
    BY <1>1, <1>4, <2>2, RestInInv, RestOutInv DEF EngineCall, StateSteps
  <2> QED
    BY <2>1, <2>2
<1>5. ASSUME UpdateDSKY
      PROVE  InSteps /\ OutSteps /\ StateSteps /\ Rest
  <2>1. PICK s : Small(s) /\ Becomes(s)
    <3>1. \A lamps \in Lamps : Small(ChannelOutput(WarningShown(State), \o163, lamps))
      BY ProgramSmall, WritesAssumption
    <3>2. CASE Becomes(WarningShown(State))
      BY <3>2, ProgramSmall
    <3>3. ASSUME NEW lamps \in Lamps,
                 Becomes(ChannelOutput(WarningShown(State), \o163, lamps))
          PROVE  \E s : Small(s) /\ Becomes(s)
      BY <3>1, <3>3
    <3> QED
      BY <1>5, <3>2, <3>3 DEF UpdateDSKY
  <2>2. OutSteps /\ StateSteps
    BY <2>1, BecomesInv
  <2> QED
    BY <1>1, <1>5, <2>2, RestInInv DEF UpdateDSKY
<1>6. ASSUME InputEnds
      PROVE  InSteps /\ OutSteps /\ StateSteps /\ Rest
  BY <1>1, <1>6, GetInInv, RestOutInv DEF InputEnds, StateSteps
<1>7. ASSUME InputMask
      PROVE  InSteps /\ OutSteps /\ StateSteps /\ Rest
  <2>1. InSteps /\ Oldest(ringbuffer_in) \in InPackets
    BY <1>7, GetInInv DEF InputMask
  <2>2. ParseIoPacket(Oldest(ringbuffer_in)).Value \in Word
    BY <2>1, InPacketsMeaning
  <2>3. ChannelMasks' \in [Channels -> Word]
    BY <1>1, <1>7, <2>2 DEF InputMask
  <2> QED
    BY <1>1, <1>7, <2>1, <2>3, RestOutInv DEF InputMask, StateSteps
<1>8. ASSUME InputCount
      PROVE  InSteps /\ OutSteps /\ StateSteps /\ Rest
  <2> DEFINE packet == ParseIoPacket(Oldest(ringbuffer_in))
             s == UnprogrammedIncrement(State, packet.Channel % 128, packet.Value)
  <2>1. InSteps /\ Oldest(ringbuffer_in) \in InPackets
    BY <1>8, GetInInv DEF InputCount
  <2>2. packet.Value \in Word /\ packet.Channel % 128 \in Counters
    BY <1>8, <2>1, InPacketsMeaning DEF InputCount
  <2> HIDE DEF packet
  <2>3. Small(s)
    BY <2>2, ProgramSmall, UnprogrammedIncrementSmall
  <2>4. Becomes(s)
    BY <1>8 DEF InputCount, packet
  <2> HIDE DEF s
  <2>5. OutSteps /\ StateSteps
    BY <2>3, <2>4, BecomesInv
  <2> QED
    BY <1>1, <1>8, <2>1, <2>5 DEF InputCount
<1>9. ASSUME InputValue
      PROVE  InSteps /\ OutSteps /\ StateSteps /\ Rest
  <2> DEFINE packet == ParseIoPacket(Oldest(ringbuffer_in))
             s == ChannelWrite(State, ChannelMasks[packet.Channel],
                               packet.Channel, packet.Value)
  <2>1. InSteps /\ Oldest(ringbuffer_in) \in InPackets
    BY <1>9, GetInInv DEF InputValue
  <2>2. packet.Value \in Word /\ packet.Channel \in Channels
    BY <1>9, <2>1, InPacketsMeaning DEF InputValue
  <2> HIDE DEF packet
  <2>3. ChannelMasks[packet.Channel] \in Word
    BY <1>1, <2>2
  <2>4. Small(s)
    BY <2>2, <2>3, ProgramSmall, ChannelWriteSmall
  <2>5. Becomes(s)
    BY <1>9 DEF InputValue, packet
  <2> HIDE DEF s
  <2>6. OutSteps /\ StateSteps
    BY <2>4, <2>5, BecomesInv
  <2> QED
    BY <1>1, <1>9, <2>1, <2>6 DEF InputValue
<1>10. ASSUME Program
       PROVE  InSteps /\ OutSteps /\ StateSteps /\ Rest
  <2>1. PICK s : Small(s) /\ Becomes(s)
    BY <1>10, ProgramSmall DEF Program
  <2>2. OutSteps /\ StateSteps
    BY <2>1, BecomesInv
  <2> QED
    BY <1>1, <1>10, <2>2, RestInInv DEF Program
<1>11. ASSUME cpu_reset
       PROVE  InSteps /\ OutSteps /\ StateSteps /\ Rest
  <2>1. State' \in States /\ State'.sent = <<>>
    <3>1. State.LastRhc \in [Rhc -> Word]
      BY <1>1 DEF States
    <3>2. StartState \in States /\ StartState.sent = <<>>
      BY StartStateType
    <3> QED
      BY <1>11, <3>1, <3>2, ZenonT(60) DEF cpu_reset, States
  <2> QED
    BY <1>1, <1>11, <2>1, RestInInv, RestOutInv DEF cpu_reset, StateSteps
<1>12. ASSUME RestartBegins
       PROVE  InSteps /\ OutSteps /\ StateSteps /\ Rest
  <2>1. PICK s : Small(s) /\ Becomes(s)
    BY <1>12, ProgramSmall DEF RestartBegins
  <2>2. OutSteps /\ StateSteps
    BY <2>1, BecomesInv
  <2> QED
    BY <1>1, <1>12, <2>2, RestInInv DEF RestartBegins
<1>13. ASSUME RestartClears
       PROVE  InSteps /\ OutSteps /\ StateSteps /\ Rest
  <2>1. cleared \in 0 .. 8 /\ cleared + 1 \in 0 .. 9
    BY <1>1, <1>13, RestartWrites DEF RestartClears
  <2>2. OutSteps /\ StateSteps
    BY <1>13, <2>1, ProgramSmall, BecomesInv DEF RestartClears
  <2> QED
    BY <1>1, <1>13, <2>1, <2>2, RestInInv DEF RestartClears
<1>14. ASSUME RestartEnds
       PROVE  InSteps /\ OutSteps /\ StateSteps /\ Rest
  <2>1. PICK s : Small(s) /\ Becomes(s)
    BY <1>14, ProgramSmall DEF RestartEnds, Alarmed
  <2>2. OutSteps /\ StateSteps
    BY <2>1, BecomesInv
  <2> QED
    BY <1>1, <1>14, <2>2, RestInInv DEF RestartEnds
<1>15. InSteps /\ OutSteps /\ StateSteps /\ Rest
  BY <1>2, <1>3, <1>4, <1>5, <1>6, <1>7, <1>8, <1>9, <1>10, <1>11, <1>12, <1>13, <1>14
     DEF Next, cpu_step, ChannelInput, Restart
<1> QED
  BY <1>15, RestartWrites DEF InSteps, OutSteps, StateSteps, RingInv, RTypeOK

LEMMA RingInit ==
  ASSUME Init
  PROVE  RingInv /\ InQueue!Init /\ OutQueue!Init
<1>1. NoPacket \in Packet
  BY SMT DEF NoPacket, Packet, Byte
<1>2. 0 \in Slot
  BY RingAssumption, SMT DEF Slot
<1>3. StartRing \in Rings /\ IsEmpty(StartRing)
  BY <1>1, <1>2 DEF StartRing, Rings, IsEmpty
<1>4. Contents(StartRing) = <<>>
  BY <1>3, FullCount, ContentsType, EmptySeq
<1>5. 0 \in Word
  BY HalfIs, SMT DEF Word
<1>6. StartState \in States
  BY StartStateType
<1>7. StartState.sent = <<>>
  BY StartStateType
<1>8. <<>> \in Seq(InPackets)
  BY EmptySeq
<1>9. 0 \in 0 .. Len(RestartChannels)
  BY RestartWrites
<1> QED
  BY <1>3, <1>4, <1>5, <1>6, <1>7, <1>8, <1>9
     DEF Init, RingInv, RTypeOK, InQueue!Init, OutQueue!Init

-----------------------------------------------------------------------------
\* Everything has its type at every step, so every packet the engine sends can
\* be formed and every packet it takes names a channel or a counter.
THEOREM RingTypes == Spec => []RTypeOK
<1>1. Init => RingInv
  BY RingInit
<1>2. RingInv /\ [Next]_hostVars => RingInv'
  <2>1. ASSUME RingInv, UNCHANGED hostVars PROVE RingInv'
    BY <2>1 DEF RingInv, RTypeOK, hostVars, ringVars
  <2> QED
    BY <2>1, RingNext
<1>3. RingInv => RTypeOK
  BY DEF RingInv
<1> QED
  BY <1>1, <1>2, <1>3, PTL DEF Spec

\* Both rings are bounded queues whatever their size and whatever is in the
\* packets: in order, nothing lost, nothing twice, what does not fit is refused.
THEOREM RingsImplementQueues == Spec => RingsAreQueues
<1>1. Init => RingInv /\ InQueue!Init /\ OutQueue!Init
  BY RingInit
<1>2. RingInv /\ [Next]_hostVars =>
        RingInv' /\ [InQueue!Next]_(InQueue!bqVars) /\ [OutQueue!Next]_(OutQueue!bqVars)
  <2>1. ASSUME RingInv, UNCHANGED hostVars
        PROVE  RingInv' /\ UNCHANGED InQueue!bqVars /\ UNCHANGED OutQueue!bqVars
    BY <2>1 DEF RingInv, RTypeOK, hostVars, ringVars, InQueue!bqVars, OutQueue!bqVars
  <2> QED
    BY <2>1, RingNext
<1> QED
  BY <1>1, <1>2, PTL
  DEF Spec, RingsAreQueues, InputsAreQueued, OutputsAreQueued, InQueue!Spec, OutQueue!Spec

-----------------------------------------------------------------------------
(* Bits.                                                                   *)

\* A bit does not depend on what is above it.
LEMMA BitOfRest ==
  ASSUME NEW u \in Nat \ {0}, NEW k \in Int, NEW t \in Int
  PROVE  Bit(k * (2 * u) + t, u) = Bit(t, u)
<1> DEFINE d == t \div u
           r == t % u
<1>1. t = u * d + r /\ r \in 0 .. u - 1 /\ d \in Int
  BY DivMod
<1> HIDE DEF d, r
<1>2. k * (2 * u) + t = u * (2 * k + d) + r /\ 2 * k + d \in Int
  BY <1>1
<1>3. (u * (2 * k + d) + r) \div u = 2 * k + d /\ (u * d + r) \div u = d
  BY <1>1, <1>2, DivModUnique
<1>4. (2 * k + d) % 2 = d % 2
  <2>1. 2 \in Nat \ {0}
    OBVIOUS
  <2>2. d = 2 * (d \div 2) + (d % 2) /\ d % 2 \in 0 .. 2 - 1 /\ d \div 2 \in Int
    BY <1>1, <2>1, DivMod
  <2> DEFINE e == d \div 2
             f == d % 2
  <2> HIDE DEF e, f
  <2>3. d = 2 * e + f /\ f \in 0 .. 2 - 1 /\ e \in Int
    BY <2>2 DEF e, f
  <2>4. 2 * k + d = 2 * (k + e) + f /\ k + e \in Int
    BY <2>3, <1>1
  <2>5. (2 * (k + e) + f) % 2 = f
    BY <2>1, <2>3, <2>4, ModUnique
  <2> QED BY <2>4, <2>5 DEF f
<1>5. Bit(k * (2 * u) + t, u) = ((k * (2 * u) + t) \div u) % 2 /\ Bit(t, u) = (t \div u) % 2
  BY DEF Bit
<1> QED BY <1>1, <1>2, <1>3, <1>4, <1>5

\* What is merged bit by bit.
ChosenBit(m, new, old, u) == IF Bit(m, u) = 1 THEN Bit(new, u) ELSE Bit(old, u)

LEMMA ChosenBitRange ==
  ASSUME NEW m \in Int, NEW new \in Int, NEW old \in Int
  PROVE  \A u \in Weights : ChosenBit(m, new, old, u) \in {0, 1}
<1> TAKE u \in Weights
<1>1. Bit(new, u) \in 0 .. 1 /\ Bit(old, u) \in 0 .. 1
  BY WeightsAre, BitRange
<1> QED BY <1>1 DEF ChosenBit

LEMMA MergedIsSum ==
  ASSUME NEW m \in Int, NEW new \in Int, NEW old \in Int
  PROVE  LET c == [u \in Weights |-> ChosenBit(m, new, old, u)]
         IN  Merged(m, new, old) = Sum10(c) + 1024 * Sum5(c)
<1> DEFINE c == [u \in Weights |-> ChosenBit(m, new, old, u)]
<1>1. \A u \in Weights : c[u] \in Int /\ Chosen(m, new, old, u) = c[u] * u
  BY ChosenBitRange DEF ChosenBit, Chosen
<1> HIDE DEF c
<1>2. \A u \in {1, 8, 64, 512, 4096} : ChosenDigit(m, new, old, u) = Digit(c, u)
  <2> TAKE u \in {1, 8, 64, 512, 4096}
  <2>1. u \in Weights /\ 2 * u \in Weights /\ 4 * u \in Weights
    BY DEF Weights
  <2> QED BY <1>1, <2>1 DEF ChosenDigit, Digit
<1>3. Merged(m, new, old) = Digit(c, 1) + Digit(c, 8) + Digit(c, 64) + Digit(c, 512)
                              + Digit(c, 4096)
  BY <1>2 DEF Merged
<1>4. Merged(m, new, old) = Sum10(c) + 1024 * Sum5(c)
  BY <1>1, <1>3, SumOfDigits
<1> QED BY <1>4 DEF c

\* What a number is, bit by bit.
LEMMA Halved ==
  ASSUME NEW u \in Nat \ {0}, NEW a \in Int
  PROVE  a \div u = 2 * (a \div (2 * u)) + Bit(a, u) /\ a \div (2 * u) \in Int /\ Bit(a, u) \in {0, 1}
<1> DEFINE d == a \div u
           r == a % u
           h == d \div 2
           b == d % 2
<1>1. a = u * d + r /\ r \in 0 .. u - 1 /\ d \in Int
  BY DivMod
<1>2. d = 2 * h + b /\ b \in 0 .. 2 - 1 /\ h \in Int
  <2>1. 2 \in Nat \ {0}
    OBVIOUS
  <2> HIDE DEF d
  <2> QED BY <1>1, <2>1, DivMod
<1>3. b = Bit(a, u)
  BY DEF Bit
<1> HIDE DEF d, r, h, b
<1>4. a = (2 * u) * h + (u * b + r) /\ u * b + r \in 0 .. (2 * u) - 1 /\ 2 * u \in Nat \ {0}
  <2>1. b = 0 \/ b = 1
    BY <1>2
  <2>2. CASE b = 0
    BY <1>1, <1>2, <2>2
  <2>3. CASE b = 1
    BY <1>1, <1>2, <2>3
  <2> QED BY <2>1, <2>2, <2>3
<1>5. a \div (2 * u) = h
  <2> DEFINE w == 2 * u
             e == u * b + r
  <2>1. w \in Nat \ {0} /\ e \in 0 .. w - 1 /\ a = w * h + e
    BY <1>4
  <2> HIDE DEF w, e
  <2>2. (w * h + e) \div w = h
    BY <2>1, <1>2, DivModUnique
  <2> QED BY <2>1, <2>2 DEF w
<1>6. b \in {0, 1}
  BY <1>2
<1> QED BY <1>2, <1>3, <1>5, <1>6 DEF d

LEMMA LowBits ==
  ASSUME NEW a \in Int
  PROVE  LET c == [u \in Weights |-> Bit(a, u)] IN a % 1024 = Sum10(c)
<1> DEFINE c == [u \in Weights |-> Bit(a, u)]
           q(u) == a \div u
<1>1. \A u \in Weights : q(u) = 2 * q(2 * u) + c[u] /\ q(2 * u) \in Int /\ c[u] \in {0, 1}
  BY WeightsAre, Halved
<1>2. q(1) = a
  <2>1. 1 \in Nat \ {0} /\ 0 \in 0 .. 1 - 1 /\ a = 1 * a + 0
    OBVIOUS
  <2>2. (1 * a + 0) \div 1 = a
    BY <2>1, DivModUnique
  <2> QED BY <2>1, <2>2
<1> HIDE DEF c, q
<1>3. /\ q(1) = 2 * q(2 * 1) + c[1] /\ q(2) = 2 * q(2 * 2) + c[2] /\ q(4) = 2 * q(2 * 4) + c[4]
      /\ q(8) = 2 * q(2 * 8) + c[8] /\ q(16) = 2 * q(2 * 16) + c[16]
      /\ q(32) = 2 * q(2 * 32) + c[32] /\ q(64) = 2 * q(2 * 64) + c[64]
      /\ q(128) = 2 * q(2 * 128) + c[128] /\ q(256) = 2 * q(2 * 256) + c[256]
      /\ q(512) = 2 * q(2 * 512) + c[512]
  BY <1>1 DEF Weights
<1>4. /\ 2 * 1 = 2 /\ 2 * 2 = 4 /\ 2 * 4 = 8 /\ 2 * 8 = 16 /\ 2 * 16 = 32 /\ 2 * 32 = 64
      /\ 2 * 64 = 128 /\ 2 * 128 = 256 /\ 2 * 256 = 512 /\ 2 * 512 = 1024
  OBVIOUS
<1>5. /\ a = 2 * q(2) + c[1] /\ q(2) = 2 * q(4) + c[2] /\ q(4) = 2 * q(8) + c[4]
      /\ q(8) = 2 * q(16) + c[8] /\ q(16) = 2 * q(32) + c[16] /\ q(32) = 2 * q(64) + c[32]
      /\ q(64) = 2 * q(128) + c[64] /\ q(128) = 2 * q(256) + c[128]
      /\ q(256) = 2 * q(512) + c[256] /\ q(512) = 2 * q(1024) + c[512]
  BY <1>2, <1>3, <1>4
<1>6. /\ q(2 * 1) \in Int /\ q(2 * 2) \in Int /\ q(2 * 4) \in Int /\ q(2 * 8) \in Int
      /\ q(2 * 16) \in Int /\ q(2 * 32) \in Int /\ q(2 * 64) \in Int /\ q(2 * 128) \in Int
      /\ q(2 * 256) \in Int /\ q(2 * 512) \in Int
  BY <1>1 DEF Weights
<1>7. /\ q(2) \in Int /\ q(4) \in Int /\ q(8) \in Int /\ q(16) \in Int /\ q(32) \in Int
      /\ q(64) \in Int /\ q(128) \in Int /\ q(256) \in Int /\ q(512) \in Int /\ q(1024) \in Int
  BY <1>4, <1>6
<1>8. /\ c[1] \in Int /\ c[2] \in Int /\ c[4] \in Int /\ c[8] \in Int /\ c[16] \in Int
      /\ c[32] \in Int /\ c[64] \in Int /\ c[128] \in Int /\ c[256] \in Int /\ c[512] \in Int
  BY <1>1 DEF Weights
<1>9. a = Sum10(c) + 1024 * q(1024)
  <2> DEFINE d1 == c[1] + 2 * c[2] + 4 * c[4]
             d2 == c[8] + 2 * c[16] + 4 * c[32]
             d3 == c[64] + 2 * c[128] + 4 * c[256]
  <2>1. d1 \in Int /\ d2 \in Int /\ d3 \in Int
    BY <1>8
  <2>2. a = d1 + 8 * q(8) /\ q(8) = d2 + 8 * q(64)
    BY <1>5, <1>7, <1>8
  <2>3. q(64) = d3 + 8 * q(512) /\ q(512) = c[512] + 2 * q(1024)
    BY <1>5, <1>7, <1>8
  <2>4. Sum10(c) = d1 + 8 * d2 + 64 * d3 + 512 * c[512]
    BY <1>8 DEF Sum10
  <2> HIDE DEF d1, d2, d3
  <2> QED BY <1>7, <1>8, <2>1, <2>2, <2>3, <2>4
<1>10. Sum10(c) \in Int /\ 0 <= Sum10(c) /\ Sum10(c) < 1024
  BY <1>1, SumRange
<1>11. a % 1024 = Sum10(c)
  <2> DEFINE e == Sum10(c)
             k == q(1024)
  <2>1. 1024 \in Nat \ {0} /\ e \in 0 .. 1024 - 1 /\ k \in Int /\ a = 1024 * k + e
    BY <1>7, <1>9, <1>10
  <2> HIDE DEF e, k
  <2>2. (1024 * k + e) % 1024 = e
    BY <2>1, ModUnique
  <2> QED BY <2>1, <2>2 DEF e
<1> QED BY <1>11 DEF c

\* The low bits of what is merged.
LEMMA LowOfMerged ==
  ASSUME NEW m \in Int, NEW new \in Int, NEW old \in Int
  PROVE  LET c == [u \in Weights |-> ChosenBit(m, new, old, u)]
         IN  Merged(m, new, old) % 1024 = Sum10(c)
<1> DEFINE c == [u \in Weights |-> ChosenBit(m, new, old, u)]
           e == Sum10(c)
           k == Sum5(c)
<1>1. \A u \in Weights : c[u] \in {0, 1}
  BY ChosenBitRange
<1>2. Merged(m, new, old) = e + 1024 * k
  BY MergedIsSum
<1> HIDE DEF c
<1>3. e \in Int /\ 0 <= e /\ e < 1024 /\ k \in Int
  BY <1>1, SumRange
<1> HIDE DEF e, k
<1>4. 1024 \in Nat \ {0} /\ e \in 0 .. 1024 - 1 /\ e + 1024 * k = 1024 * k + e
  BY <1>3
<1>5. (1024 * k + e) % 1024 = e
  BY <1>3, <1>4, ModUnique
<1> QED BY <1>2, <1>4, <1>5 DEF e, c

\* The weights below the computer's own bits of channel 33, and those bits'.
Low == {1, 2, 4, 8, 16, 32, 64, 128, 256, 512}
High == {1024, 2048, 4096, 8192, 16384}

\* A sum of low bits depends on them alone.
LEMMA SameLowBits ==
  ASSUME NEW c, NEW d, \A u \in Low : c[u] = d[u]
  PROVE  Sum10(c) = Sum10(d)
<1>1. /\ c[1] = d[1] /\ c[2] = d[2] /\ c[4] = d[4] /\ c[8] = d[8] /\ c[16] = d[16]
      /\ c[32] = d[32] /\ c[64] = d[64] /\ c[128] = d[128] /\ c[256] = d[256]
      /\ c[512] = d[512]
  BY DEF Low
<1> QED BY <1>1, SMT DEF Sum10

\* The mask of channel 33 chooses the bits below the computer's.
LEMMA BitsOf1777 ==
  /\ \A u \in Low : Bit(1023, u) = 1
  /\ \A u \in High : Bit(1023, u) = 0
<1>1. /\ Bit(1023, 1) = 1 /\ Bit(1023, 2) = 1 /\ Bit(1023, 4) = 1 /\ Bit(1023, 8) = 1
      /\ Bit(1023, 16) = 1 /\ Bit(1023, 32) = 1 /\ Bit(1023, 64) = 1
      /\ Bit(1023, 128) = 1 /\ Bit(1023, 256) = 1 /\ Bit(1023, 512) = 1
  BY DEF Bit
<1>2. /\ Bit(1023, 1024) = 0 /\ Bit(1023, 2048) = 0 /\ Bit(1023, 4096) = 0
      /\ Bit(1023, 8192) = 0 /\ Bit(1023, 16384) = 0
  BY DEF Bit
<1> QED BY <1>1, <1>2 DEF Low, High

\* x is t but for the bits above the low ones.
LowBitsAre(x, t) == \E k \in Int : x = 1024 * k + t

\* A low bit of a number does not depend on what is added above.
LEMMA LowBitOf ==
  ASSUME NEW x \in Int, NEW t \in Int, LowBitsAre(x, t)
  PROVE  \A u \in Low : Bit(x, u) = Bit(t, u)
<1> SUFFICES ASSUME NEW u \in Low
             PROVE  Bit(x, u) = Bit(t, u)
  OBVIOUS
<1> PICK k \in Int : x = 1024 * k + t
  BY DEF LowBitsAre
<1>1. u \in Nat \ {0}
  BY DEF Low
<1>2. PICK j \in Int : j * (2 * u) = 1024
  <2>1. /\ 512 \div 1 = 512 /\ 512 \div 2 = 256 /\ 512 \div 4 = 128 /\ 512 \div 8 = 64
        /\ 512 \div 16 = 32 /\ 512 \div 32 = 16 /\ 512 \div 64 = 8 /\ 512 \div 128 = 4
        /\ 512 \div 256 = 2 /\ 512 \div 512 = 1
    OBVIOUS
  <2>2. 512 \div u \in Int /\ (512 \div u) * (2 * u) = 1024
    BY <2>1 DEF Low
  <2> QED BY <2>2
<1>3. (k * j) * (2 * u) = 1024 * k /\ k * j \in Int
  BY <1>1, <1>2
<1> DEFINE e == k * j
<1> HIDE DEF e
<1>4. e \in Int /\ e * (2 * u) = 1024 * k
  BY <1>3 DEF e
<1>5. Bit(e * (2 * u) + t, u) = Bit(t, u)
  BY <1>1, <1>4, BitOfRest
<1> QED BY <1>4, <1>5

\* A bit, from what is above it and what is below.
LEMMA BitBetween ==
  ASSUME NEW x \in Int, NEW u \in Nat \ {0}, NEW lo \in Int, NEW hi \in Int, NEW b \in {0, 1},
         0 <= lo, lo < u, x = (2 * hi + b) * u + lo
  PROVE  Bit(x, u) = b
<1> DEFINE q == 2 * hi + b
<1>1. q \in Int /\ x = u * q + lo /\ lo \in 0 .. u - 1
  OBVIOUS
<1>2. q % 2 = b
  <2>1. 2 \in Nat \ {0} /\ b \in 0 .. 2 - 1
    OBVIOUS
  <2> QED BY <2>1, ModUnique
<1> HIDE DEF q
<1>3. (u * q + lo) \div u = q
  BY <1>1, DivModUnique
<1> QED BY <1>1, <1>2, <1>3 DEF Bit

\* The computer's bits of channel 33: all but that of the warning, or all.
Latches == {23552, 31744}
Upper(x) == << Bit(x, 1024), Bit(x, 2048), Bit(x, 4096), Bit(x, 8192), Bit(x, 16384) >>

LEMMA LatchedBits ==
  ASSUME NEW t \in Int, 0 <= t, t < 1024
  PROVE  Upper(31744 + t) = << 1, 1, 1, 1, 1 >> /\ Upper(23552 + t) = << 1, 1, 1, 0, 1 >>
<1> PICK x \in Int : x = 31744 + t
  OBVIOUS
<1> PICK y \in Int : y = 23552 + t
  OBVIOUS
<1>1. Bit(x, 1024) = 1
  <2> PICK r \in Int : r = t
    OBVIOUS
  <2>1. /\ 1024 \in Nat \ {0} /\ 15 \in Int /\ 1 \in {0, 1}
        /\ 0 <= r /\ r < 1024 /\ x = (2 * 15 + 1) * 1024 + r
    OBVIOUS
  <2> QED BY <2>1, BitBetween
<1>2. Bit(y, 1024) = 1
  <2> PICK r \in Int : r = t
    OBVIOUS
  <2>1. /\ 1024 \in Nat \ {0} /\ 11 \in Int /\ 1 \in {0, 1}
        /\ 0 <= r /\ r < 1024 /\ y = (2 * 11 + 1) * 1024 + r
    OBVIOUS
  <2> QED BY <2>1, BitBetween
<1>3. Bit(x, 2048) = 1
  <2> PICK r \in Int : r = 1024 + t
    OBVIOUS
  <2>1. /\ 2048 \in Nat \ {0} /\ 7 \in Int /\ 1 \in {0, 1}
        /\ 0 <= r /\ r < 2048 /\ x = (2 * 7 + 1) * 2048 + r
    OBVIOUS
  <2> QED BY <2>1, BitBetween
<1>4. Bit(y, 2048) = 1
  <2> PICK r \in Int : r = 1024 + t
    OBVIOUS
  <2>1. /\ 2048 \in Nat \ {0} /\ 5 \in Int /\ 1 \in {0, 1}
        /\ 0 <= r /\ r < 2048 /\ y = (2 * 5 + 1) * 2048 + r
    OBVIOUS
  <2> QED BY <2>1, BitBetween
<1>5. Bit(x, 4096) = 1
  <2> PICK r \in Int : r = 3072 + t
    OBVIOUS
  <2>1. /\ 4096 \in Nat \ {0} /\ 3 \in Int /\ 1 \in {0, 1}
        /\ 0 <= r /\ r < 4096 /\ x = (2 * 3 + 1) * 4096 + r
    OBVIOUS
  <2> QED BY <2>1, BitBetween
<1>6. Bit(y, 4096) = 1
  <2> PICK r \in Int : r = 3072 + t
    OBVIOUS
  <2>1. /\ 4096 \in Nat \ {0} /\ 2 \in Int /\ 1 \in {0, 1}
        /\ 0 <= r /\ r < 4096 /\ y = (2 * 2 + 1) * 4096 + r
    OBVIOUS
  <2> QED BY <2>1, BitBetween
<1>7. Bit(x, 8192) = 1
  <2> PICK r \in Int : r = 7168 + t
    OBVIOUS
  <2>1. /\ 8192 \in Nat \ {0} /\ 1 \in Int /\ 1 \in {0, 1}
        /\ 0 <= r /\ r < 8192 /\ x = (2 * 1 + 1) * 8192 + r
    OBVIOUS
  <2> QED BY <2>1, BitBetween
<1>8. Bit(y, 8192) = 0
  <2> PICK r \in Int : r = 7168 + t
    OBVIOUS
  <2>1. /\ 8192 \in Nat \ {0} /\ 1 \in Int /\ 0 \in {0, 1}
        /\ 0 <= r /\ r < 8192 /\ y = (2 * 1 + 0) * 8192 + r
    OBVIOUS
  <2> QED BY <2>1, BitBetween
<1>9. Bit(x, 16384) = 1
  <2> PICK r \in Int : r = 15360 + t
    OBVIOUS
  <2>1. /\ 16384 \in Nat \ {0} /\ 0 \in Int /\ 1 \in {0, 1}
        /\ 0 <= r /\ r < 16384 /\ x = (2 * 0 + 1) * 16384 + r
    OBVIOUS
  <2> QED BY <2>1, BitBetween
<1>10. Bit(y, 16384) = 1
  <2> PICK r \in Int : r = 7168 + t
    OBVIOUS
  <2>1. /\ 16384 \in Nat \ {0} /\ 0 \in Int /\ 1 \in {0, 1}
        /\ 0 <= r /\ r < 16384 /\ y = (2 * 0 + 1) * 16384 + r
    OBVIOUS
  <2> QED BY <2>1, BitBetween
<1>11. Upper(x) = << 1, 1, 1, 1, 1 >>
  BY <1>1, <1>3, <1>5, <1>7, <1>9 DEF Upper
<1>12. Upper(y) = << 1, 1, 1, 0, 1 >>
  BY <1>2, <1>4, <1>6, <1>8, <1>10 DEF Upper
<1> QED BY <1>11, <1>12

\* What the engine makes of the computer's bits: a warning takes one away, the
\* program's write sets the others again, and the uplink's is set already.
LEMMA LatchChanges ==
  ASSUME NEW h \in Latches, NEW t \in Int, 0 <= t, t < 1024
  PROVE  /\ WithoutBit(h + t, WARNING) = 23552 + t
         /\ WithBit(h + t, UPLINK_TOO_FAST) = h + t
         /\ \o76000 + ((h + t) % \o2000) = 31744 + t
<1> PICK x \in Int : x = h + t
  BY DEF Latches
<1>1. /\ Bit(x, 1024) = 1
      /\ h = 23552 => Bit(x, 8192) = 0
      /\ h = 31744 => Bit(x, 8192) = 1
  BY LatchedBits DEF Upper, Latches
<1>2. x % 1024 = t
  <2> PICK k \in Int : h = 1024 * k
    <3>1. 23552 = 1024 * 23 /\ 31744 = 1024 * 31
      OBVIOUS
    <3> QED BY <3>1 DEF Latches
  <2>1. 1024 \in Nat \ {0} /\ t \in 0 .. 1024 - 1 /\ x = 1024 * k + t
    OBVIOUS
  <2>2. (1024 * k + t) % 1024 = t
    BY <2>1, ModUnique
  <2> QED BY <2>1, <2>2
<1>3. WithoutBit(x, WARNING) = 23552 + t
  <2>1. WithoutBit(x, WARNING) = x - Bit(x, 8192) * 8192
    BY DEF WithoutBit, WARNING
  <2> QED BY <2>1, <1>1 DEF Latches
<1>4. WithBit(x, UPLINK_TOO_FAST) = x
  <2>1. WithBit(x, UPLINK_TOO_FAST) = x + (1 - Bit(x, 1024)) * 1024
    BY DEF WithBit, UPLINK_TOO_FAST
  <2> QED BY <2>1, <1>1
<1>5. \o76000 + (x % \o2000) = 31744 + t
  BY <1>2
<1> QED BY <1>3, <1>4, <1>5

\* Channel 33 holds what the host would have there, under its own masks, in its
\* low bits, and keeps the computer's.
LEMMA ChannelOf33 ==
  ASSUME NEW m \in Int, NEW new \in Int, NEW s \in Int, NEW v \in Int, NEW h \in Latches,
         s = h + (v % \o2000)
  PROVE  Merged(\o1777, Merged(m, new, s), s) = h + (Merged(m, new, v) % \o2000)
<1> DEFINE a == Merged(m, new, s)
           c == [u \in Weights |-> ChosenBit(1023, a, s, u)]
           cs == [u \in Weights |-> ChosenBit(m, new, s, u)]
           cv == [u \in Weights |-> ChosenBit(m, new, v, u)]
           ca == [u \in Weights |-> Bit(a, u)]
           t == v % 1024
           k == v \div 1024
<1>1. a \in Int
  BY MergedType, WordsAreInts
<1>2. v = 1024 * k + t /\ k \in Int /\ t \in Int /\ 0 <= t /\ t < 1024
  <2>1. 1024 \in Nat \ {0}
    OBVIOUS
  <2> QED BY <2>1, DivMod
<1>3. s = h + t
  OBVIOUS
<1>4. a % 1024 = Sum10(cs) /\ Merged(m, new, v) % 1024 = Sum10(cv)
  BY LowOfMerged
<1>5. a % 1024 = Sum10(ca)
  BY <1>1, LowBits
<1>6. Merged(1023, a, s) = Sum10(c) + 1024 * Sum5(c)
  BY <1>1, MergedIsSum
<1>7. Low \subseteq Weights /\ High \subseteq Weights
  BY DEF Low, High, Weights
<1>8. \A u \in Low : c[u] = ca[u]
  BY <1>7, BitsOf1777 DEF ChosenBit
<1>9. \A u \in High : c[u] = Bit(s, u)
  <2>1. \A u \in High : Bit(1023, u) = 0
    BY BitsOf1777
  <2>2. 0 # 1
    OBVIOUS
  <2> QED BY <1>7, <2>1, <2>2 DEF ChosenBit
<1>10. /\ c[1024] = 1 /\ c[2048] = 1 /\ c[4096] = 1 /\ c[16384] = 1
       /\ h = 23552 => c[8192] = 0
       /\ h = 31744 => c[8192] = 1
  <2>1. << c[1024], c[2048], c[4096], c[8192], c[16384] >> = Upper(s)
    BY <1>9 DEF High, Upper
  <2>2. /\ h = 23552 => Upper(s) = << 1, 1, 1, 0, 1 >>
        /\ h = 31744 => Upper(s) = << 1, 1, 1, 1, 1 >>
    BY <1>2, <1>3, LatchedBits
  <2> HIDE DEF c
  <2>3. h = 23552 \/ h = 31744
    BY DEF Latches
  <2> QED BY <2>1, <2>2, <2>3
<1> HIDE DEF t, k
<1>11. \A u \in Low : Bit(s, u) = Bit(v, u)
  <2>1. LowBitsAre(v, t)
    BY <1>2 DEF LowBitsAre
  <2>2. LowBitsAre(s, t)
    <3> PICK j \in Int : h = 1024 * j
      <4>1. 23552 = 1024 * 23 /\ 31744 = 1024 * 31
        OBVIOUS
      <4> QED BY <4>1 DEF Latches
    <3>1. s = 1024 * j + t
      BY <1>2, <1>3
    <3> QED BY <1>2, <3>1 DEF LowBitsAre
  <2> QED BY <1>2, <2>1, <2>2, LowBitOf
<1>12. \A u \in Low : cs[u] = cv[u]
  BY <1>7, <1>11 DEF ChosenBit
<1> HIDE DEF c, cs, cv, ca, a
<1>13. Sum10(c) = Sum10(ca) /\ Sum10(cs) = Sum10(cv)
  BY <1>8, <1>12, SameLowBits
<1>14. 1024 * Sum5(c) = h
  <2>1. CASE h = 23552
    BY <1>10, <2>1 DEF Sum5
  <2>2. CASE h = 31744
    BY <1>10, <2>2 DEF Sum5
  <2> QED BY <2>1, <2>2 DEF Latches
<1>15. Merged(1023, a, s) = (Merged(m, new, v) % 1024) + h
  BY <1>4, <1>5, <1>6, <1>13, <1>14
<1>16. Merged(m, new, v) % 1024 \in Int
  <2>1. Merged(m, new, v) \in Word
    BY MergedType
  <2> QED BY <2>1, WordsAreInts
<1>17. h \in Int
  BY DEF Latches
<1> QED BY <1>15, <1>16, <1>17 DEF a

-----------------------------------------------------------------------------
(* What an operation does to the inputs and to the counter that the host   *)
(* keeps an account of.                                                    *)

\* The word of a counter that was counted to n from zero, of either sign.
Holds(w, n) == IF n = 0 THEN IsZero(w) ELSE w = IF n > 0 THEN n ELSE AGC_M0 + n

\* PINC, MINC and DINC count, short of the ends of the range.
LEMMA CounterCounts ==
  ASSUME NEW w \in Word, NEW n \in Int, -HALF < n, n < HALF, Holds(w, n)
  PROVE  /\ n + 1 < HALF => Holds(CounterPINC(w), n + 1)
         /\ -HALF < n - 1 => Holds(CounterMINC(w), n - 1)
         /\ Holds(CounterDINC(w), IF n > 0 THEN n - 1 ELSE IF n < 0 THEN n + 1 ELSE 0)
<1>1. w \in Int /\ 0 <= w /\ w <= 32767
  BY WordRange
<1>2. n + 1 < HALF => Holds(CounterPINC(w), n + 1)
  BY <1>1, HalfIs DEF Holds, CounterPINC, IsZero, AGC_P0, AGC_M0, AGC_P1
<1>3. -HALF < n - 1 => Holds(CounterMINC(w), n - 1)
  BY <1>1, HalfIs DEF Holds, CounterMINC, IsZero, AGC_P0, AGC_M0, AGC_M1
<1>4. CASE n = 0
  BY <1>2, <1>3, <1>4 DEF Holds, CounterDINC
<1>5. CASE n > 0
  <2>1. w = n /\ n >= 1 /\ n <= 16383
    BY <1>5, HalfIs DEF Holds
  <2>2. AddSP16(SignExtend(w), SignExtend(AGC_M1)) = IF w >= 2 THEN w - 1 ELSE w + 65534
    BY <2>1, HalfIs DEF AddSP16, SignExtend, IsNegative, AGC_M1
  <2>3. w >= 2 => (w - 1) % 32768 = w - 1
    BY <2>1
  <2>4. w < 2 => w = 1 /\ (w + 65534) % 32768 = 32767
    BY <2>1
  <2>5. CounterDINC(w) = AddSP16(SignExtend(w), SignExtend(AGC_M1)) % 32768
    BY <2>1, HalfIs DEF CounterDINC, IsZero, IsNegative, AGC_P0, AGC_M0
  <2> QED BY <1>2, <1>3, <1>5, <2>1, <2>2, <2>3, <2>4, <2>5, HalfIs DEF Holds, IsZero, AGC_P0, AGC_M0
<1>6. CASE n < 0
  <2>1. w = 32767 + n /\ n <= -1 /\ n >= -16383
    BY <1>6, HalfIs DEF Holds, AGC_M0
  <2>2. AddSP16(SignExtend(w), SignExtend(AGC_P1)) = w + 32769
    BY <2>1, HalfIs DEF AddSP16, SignExtend, IsNegative, AGC_P1
  <2>3. (w + 32769) % 32768 = w + 1
    BY <2>1
  <2>4. CounterDINC(w) = AddSP16(SignExtend(w), SignExtend(AGC_P1)) % 32768
    BY <2>1, HalfIs DEF CounterDINC, IsZero, IsNegative, AGC_P0, AGC_M0
  <2> QED BY <1>2, <1>3, <1>6, <2>1, <2>2, <2>3, <2>4, HalfIs DEF Holds, IsZero, AGC_P0, AGC_M0
<1> QED BY <1>2, <1>3, <1>4, <1>5, <1>6

\* What WriteIO makes of the word that channel c has.
Latched(ch, v, c, w) == IF c # ch THEN w ELSE IF ch = \o33 THEN Merged(\o1777, v, w) ELSE v

LEMMA WriteIOInputs ==
  ASSUME NEW s, Quiet(s), NEW ch \in Channels, NEW v \in Word
  PROVE  /\ \A c \in Channels :
              WriteIO(s, ch, v).InputChannel[c] = Latched(ch, v, c, s.InputChannel[c])
         /\ WriteIO(s, ch, v).Counter = s.Counter
<1>1. s \in States /\ s.InputChannel \in [Channels -> Word]
  BY DEF Quiet, States
<1>2. /\ WriteIO(s, ch, v).InputChannel =
           [s.InputChannel EXCEPT ![ch] = IF ch = \o33 THEN Merged(\o1777, v, @) ELSE v]
      /\ WriteIO(s, ch, v).Counter = s.Counter
  BY <1>1 DEF WriteIO, States
<1> QED BY <1>1, <1>2 DEF Latched

\* An output changes no input but channel 7, and no counter but the hand
\* controller's.
SameBut(t, s, ch) == /\ \A c \in Channels : c # ch => t.InputChannel[c] = s.InputChannel[c]
                     /\ t.Counter[\o37] = s.Counter[\o37]
SameInputs(t, s) == /\ \A c \in Channels : t.InputChannel[c] = s.InputChannel[c]
                    /\ t.Counter[\o37] = s.Counter[\o37]

LEMMA ChannelOutputInputs ==
  ASSUME NEW s, Quiet(s), NEW ch \in 0 .. 255, NEW v \in Word
  PROVE  /\ SameBut(ChannelOutput(s, ch, v), s, ch)
         /\ ch # 7 => SameInputs(ChannelOutput(s, ch, v), s)
<1>1. s \in States /\ s.InputChannel \in [Channels -> Word] /\ s.Counter \in [Counters -> Word]
  BY DEF Quiet, States
<1>2. \o37 \in Counters /\ ~ \E axis \in Rhc : \o37 = RhcCounter(axis)
  BY HostAssumption DEF Rhc, RhcCounter
<1>3. CASE ch = 7
  <2>1. ChannelOutput(s, ch, v).InputChannel = [s.InputChannel EXCEPT ![7] = Merged(\o160, v, 0)]
        /\ ChannelOutput(s, ch, v).Counter = s.Counter
    BY <1>1, <1>3 DEF ChannelOutput, States
  <2> QED BY <1>1, <1>3, <2>1 DEF SameBut
<1>4. CASE ch # 7
  <2> DEFINE asked == ch = \o13 /\ Bit(v, \o200) = 1 /\ Bit(v, \o400) = 1 /\ ~CmOrLm
             counter == [n \in Counters |->
                           IF asked /\ \E axis \in Rhc : n = RhcCounter(axis)
                           THEN s.LastRhc[n - \o42 + \o166] ELSE s.Counter[n]]
             t == [s EXCEPT !.Counter = counter, !.sent = Append(@, <<ch, v>>)]
  <2>1. ChannelOutput(s, ch, v) = t
    BY <1>4 DEF ChannelOutput
  <2>2. counter[\o37] = s.Counter[\o37]
    BY <1>2
  <2> HIDE DEF counter
  <2>3. t.InputChannel = s.InputChannel /\ t.Counter = counter
    BY <1>1 DEF States
  <2> QED BY <2>1, <2>2, <2>3 DEF SameBut, SameInputs
<1> QED BY <1>3, <1>4

\* It leaves the warning, and is sent unless it is to channel 7.
LEMMA ChannelOutputSends ==
  ASSUME NEW s, Quiet(s), NEW ch \in 0 .. 255, NEW v \in Word
  PROVE  /\ ChannelOutput(s, ch, v).AgcWarning = s.AgcWarning
         /\ ch = 7 => ChannelOutput(s, ch, v).sent = <<>>
         /\ ch # 7 => ChannelOutput(s, ch, v).sent = << <<ch, v>> >>
<1>1. s \in States /\ s.sent = <<>>
  BY DEF Quiet
<1>2. CASE ch = 7
  BY <1>1, <1>2 DEF ChannelOutput, States
<1>3. CASE ch # 7
  <2> DEFINE asked == ch = \o13 /\ Bit(v, \o200) = 1 /\ Bit(v, \o400) = 1 /\ ~CmOrLm
             counter == [n \in Counters |->
                           IF asked /\ \E axis \in Rhc : n = RhcCounter(axis)
                           THEN s.LastRhc[n - \o42 + \o166] ELSE s.Counter[n]]
             t == [s EXCEPT !.Counter = counter, !.sent = Append(@, <<ch, v>>)]
  <2>1. ChannelOutput(s, ch, v) = t
    BY <1>3 DEF ChannelOutput
  <2> HIDE DEF counter
  <2>2. t.AgcWarning = s.AgcWarning /\ t.sent = << <<ch, v>> >>
    BY <1>1 DEF States
  <2> QED BY <1>3, <2>1, <2>2
<1> QED BY <1>2, <1>3

\* Records with the fields of the machine, each of any set.
Fields(A, B, C, D, E, F, G, H) ==
  [ InputChannel : A, OutputChannel10 : B, RestartLight : C, AgcWarning : C,
    InterruptRequests : D, LastRhc : E, Counter : F, pushed : G, sent : H ]

\* A new light or a new reading of a hand controller changes no other field.
LEMMA QuietLight ==
  ASSUME NEW t, Quiet(t), NEW light \in BOOLEAN
  PROVE  /\ Quiet([t EXCEPT !.RestartLight = light])
         /\ [t EXCEPT !.RestartLight = light].InputChannel = t.InputChannel
         /\ [t EXCEPT !.RestartLight = light].Counter = t.Counter
         /\ [t EXCEPT !.RestartLight = light].AgcWarning = t.AgcWarning
<1> DEFINE A == [Channels -> Word]
           B == [0 .. 15 -> Word]
           D == SUBSET {Keyrupt, Uprupt}
           E == [Rhc -> Word]
           F == [Counters -> Word]
           G == Seq(Cdus \X {1, 3, \o21, \o23})
           H == Seq((0 .. 255) \X Word)
<1>1. States = Fields(A, B, BOOLEAN, D, E, F, G, H)
  BY Zenon DEF States, Fields
<1> HIDE DEF A, B, D, E, F, G, H
<1>2. t \in Fields(A, B, BOOLEAN, D, E, F, G, H) /\ t.sent = <<>>
  BY <1>1 DEF Quiet
<1>3. /\ [t EXCEPT !.RestartLight = light] \in Fields(A, B, BOOLEAN, D, E, F, G, H)
      /\ [t EXCEPT !.RestartLight = light].InputChannel = t.InputChannel
      /\ [t EXCEPT !.RestartLight = light].Counter = t.Counter
      /\ [t EXCEPT !.RestartLight = light].AgcWarning = t.AgcWarning
      /\ [t EXCEPT !.RestartLight = light].sent = t.sent
  BY <1>2 DEF Fields
<1> QED BY <1>1, <1>2, <1>3, Zenon DEF Quiet

LEMMA QuietRhc ==
  ASSUME NEW t, Quiet(t), NEW ch \in Rhc, NEW v \in Word
  PROVE  /\ Quiet([t EXCEPT !.LastRhc[ch] = v])
         /\ [t EXCEPT !.LastRhc[ch] = v].InputChannel = t.InputChannel
         /\ [t EXCEPT !.LastRhc[ch] = v].Counter = t.Counter
<1>1. t \in States /\ t.sent = <<>> /\ t.LastRhc \in [Rhc -> Word]
  BY DEF Quiet, States
<1>2. [t.LastRhc EXCEPT ![ch] = v] \in [Rhc -> Word]
  BY <1>1
<1> DEFINE f == [t.LastRhc EXCEPT ![ch] = v]
           A == [Channels -> Word]
           B == [0 .. 15 -> Word]
           D == SUBSET {Keyrupt, Uprupt}
           E == [Rhc -> Word]
           F == [Counters -> Word]
           G == Seq(Cdus \X {1, 3, \o21, \o23})
           H == Seq((0 .. 255) \X Word)
<1>3. [t EXCEPT !.LastRhc[ch] = v] = [t EXCEPT !.LastRhc = f]
  BY <1>1 DEF States
<1>4. f \in E
  BY <1>2
<1>5. States = Fields(A, B, BOOLEAN, D, E, F, G, H)
  BY Zenon DEF States, Fields
<1> HIDE DEF f, A, B, D, E, F, G, H
<1>6. t \in Fields(A, B, BOOLEAN, D, E, F, G, H)
  BY <1>1, <1>5
<1>7. /\ [t EXCEPT !.LastRhc = f] \in Fields(A, B, BOOLEAN, D, E, F, G, H)
      /\ [t EXCEPT !.LastRhc = f].InputChannel = t.InputChannel
      /\ [t EXCEPT !.LastRhc = f].Counter = t.Counter
      /\ [t EXCEPT !.LastRhc = f].sent = t.sent
  BY <1>4, <1>6 DEF Fields
<1> QED BY <1>1, <1>3, <1>5, <1>7, Zenon DEF Quiet

\* What a write to channel 33 makes of s.
Relatches(t, s) == /\ t.InputChannel[\o33] = Relatched(s)
                   /\ t.AgcWarning = s.AgcWarning
                   /\ t.sent = << <<\o33, Relatched(s)>> >>
\* Nothing is sent, or something on channel ch.
SendsOn(t, ch) == t.sent = <<>> \/ \E w \in Word : t.sent = << <<ch, w>> >>

\* The program's output changes no input but its own channel.
LEMMA CpuWriteInputs ==
  ASSUME NEW s, Quiet(s), NEW ch \in Channels, NEW v \in Word
  PROVE  /\ \A c \in Channels : c # ch =>
              CpuWriteIO(s, ch, v).InputChannel[c] = s.InputChannel[c]
         /\ CpuWriteIO(s, ch, v).Counter[\o37] = s.Counter[\o37]
         /\ ch = \o33 => Relatches(CpuWriteIO(s, ch, v), s)
         /\ SendsOn(CpuWriteIO(s, ch, v), ch)
<1> DEFINE w == CASE ch = \o13 -> Merged(\o43777, v, 0)
                  [] ch = \o33 -> Relatched(s)
                  [] OTHER -> v
           t == IF ch = \o33 THEN [s EXCEPT !.InputChannel[ch] = w] ELSE WriteIO(s, ch, w)
           light == IF ch = \o11 /\ Bit(v, \o1000) = 1 THEN FALSE ELSE t.RestartLight
           u == [t EXCEPT !.RestartLight = light]
<1>1. w \in Word
  <2>1. Merged(\o43777, v, 0) \in Word
    BY OwnMasks
  <2>2. Relatched(s) \in Word
    BY RelatchedWord
  <2> QED BY <2>1, <2>2
<1>2. CpuWriteIO(s, ch, v) = ChannelOutput(u, ch, w)
  BY DEF CpuWriteIO
<1>10. ch = \o33 => w = Relatched(s)
  OBVIOUS
<1> HIDE DEF w
<1>11. s \in States /\ s.InputChannel \in [Channels -> Word]
  BY DEF Quiet, States
<1>3. Quiet(t)
  BY <1>1, QuietSteps, WriteIOQuiet
<1>4. \A c \in Channels : c # ch => t.InputChannel[c] = s.InputChannel[c]
  <2>1. CASE ch = \o33
    <3>1. t.InputChannel = [s.InputChannel EXCEPT ![ch] = w]
      BY <1>11, <2>1 DEF States
    <3> QED BY <1>11, <3>1
  <2>2. CASE ch # \o33
    BY <1>1, <2>2, WriteIOInputs DEF Latched
  <2> QED BY <2>1, <2>2
<1>5. t.Counter = s.Counter
  <2>1. CASE ch = \o33
    BY <1>11, <2>1 DEF States
  <2>2. CASE ch # \o33
    BY <1>1, <2>2, WriteIOInputs
  <2> QED BY <2>1, <2>2
<1>12. ch = \o33 => t.InputChannel[\o33] = w /\ t.AgcWarning = s.AgcWarning
  BY <1>11 DEF States
<1> HIDE DEF t
<1>6. light \in BOOLEAN
  <2>1. t.RestartLight \in BOOLEAN
    BY <1>3 DEF Quiet, States
  <2> QED BY <2>1, Zenon
<1> HIDE DEF light
<1>7. Quiet(u) /\ u.InputChannel = t.InputChannel /\ u.Counter = t.Counter
  BY <1>3, <1>6, QuietLight, Zenon
<1>13. u.AgcWarning = t.AgcWarning
  BY <1>3, <1>6, QuietLight, Zenon
<1>8. ch \in 0 .. 255
  BY IoAssumption
<1> HIDE DEF u
<1>9. SameBut(ChannelOutput(u, ch, w), u, ch)
  BY <1>1, <1>7, <1>8, ChannelOutputInputs, Zenon
<1> DEFINE x == ChannelOutput(u, ch, w)
<1>14. x.AgcWarning = u.AgcWarning /\ (ch = 7 => x.sent = <<>>) /\ (ch # 7 => x.sent = << <<ch, w>> >>)
  BY <1>1, <1>7, <1>8, ChannelOutputSends
<1>15. ch = \o33 => SameInputs(x, u)
  <2>1. ch = \o33 => ch # 7
    OBVIOUS
  <2> QED BY <1>1, <1>7, <1>8, <2>1, ChannelOutputInputs, Zenon
<1> HIDE DEF x
<1>16. ch = \o33 => Relatches(x, s)
  BY <1>7, <1>10, <1>12, <1>13, <1>14, <1>15 DEF Relatches, SameInputs
<1>17. SendsOn(x, ch)
  BY <1>1, <1>14 DEF SendsOn
<1>18. SameBut(x, u, ch)
  BY <1>9 DEF x
<1>19. CpuWriteIO(s, ch, v) = x
  BY <1>2 DEF x
<1> QED BY <1>4, <1>5, <1>7, <1>16, <1>17, <1>18, <1>19 DEF SameBut

\* A value for a channel changes that channel and not the counter.
LEMMA ChannelWriteInputs ==
  ASSUME NEW s, Quiet(s), NEW m \in Word, NEW ch \in Channels, NEW value \in Word
  PROVE  /\ \A c \in Channels :
              ChannelWrite(s, m, ch, value).InputChannel[c] =
                Latched(ch, Merged(m, value, s.InputChannel[ch]), c, s.InputChannel[c])
         /\ ChannelWrite(s, m, ch, value).Counter[\o37] = s.Counter[\o37]
<1> DEFINE v == Merged(m, value, s.InputChannel[ch])
           t == WriteIO(s, ch, v)
<1>1. v \in Word
  <2>1. s.InputChannel[ch] \in Word
    BY DEF Quiet, States
  <2> QED
    BY <2>1, MergedType, WordsAreInts
<1>2. ChannelWrite(s, m, ch, value) =
        CASE ch = \o15 -> [t EXCEPT !.InterruptRequests = @ \cup {Keyrupt}]
          [] ch = \o173 -> [t EXCEPT !.Counter[INLINK] = v, !.InterruptRequests = @ \cup {Uprupt}]
          [] ch \in Rhc -> ChannelOutput([t EXCEPT !.LastRhc[ch] = v], ch, v)
          [] OTHER -> t
  BY DEF ChannelWrite
<1> HIDE DEF v
<1>3. Quiet(t)
  BY <1>1, WriteIOQuiet
<1>4. \A c \in Channels : t.InputChannel[c] = Latched(ch, v, c, s.InputChannel[c])
  BY <1>1, WriteIOInputs
<1>5. t.Counter = s.Counter
  BY <1>1, WriteIOInputs
<1> HIDE DEF t
<1>6. t \in States /\ t.Counter \in [Counters -> Word] /\ INLINK # \o37
  BY <1>3 DEF Quiet, States, INLINK
<1> DEFINE Same(x) == x.InputChannel = t.InputChannel /\ x.Counter[\o37] = t.Counter[\o37]
<1>7. Same(t) /\ Same([t EXCEPT !.InterruptRequests = @ \cup {Keyrupt}])
  BY <1>6 DEF States
<1>8. Same([t EXCEPT !.Counter[INLINK] = v, !.InterruptRequests = @ \cup {Uprupt}])
  BY <1>6 DEF States
<1>9. ASSUME ch \in Rhc
      PROVE  LET x == ChannelOutput([t EXCEPT !.LastRhc[ch] = v], ch, v)
             IN  /\ \A c \in Channels : x.InputChannel[c] = t.InputChannel[c]
                 /\ x.Counter[\o37] = t.Counter[\o37]
  <2> DEFINE u == [t EXCEPT !.LastRhc[ch] = v]
  <2>1. Quiet(u) /\ u.InputChannel = t.InputChannel /\ u.Counter = t.Counter
    BY <1>1, <1>3, <1>9, QuietRhc, Zenon
  <2>2. ch \in 0 .. 255 /\ ch # 7
    BY <1>9, IoAssumption DEF Rhc
  <2> HIDE DEF u
  <2>3. SameInputs(ChannelOutput(u, ch, v), u)
    BY <1>1, <2>1, <2>2, ChannelOutputInputs, Zenon
  <2> QED BY <2>1, <2>3 DEF u, SameInputs
<1>10. /\ \A c \in Channels : ChannelWrite(s, m, ch, value).InputChannel[c] = t.InputChannel[c]
       /\ ChannelWrite(s, m, ch, value).Counter[\o37] = t.Counter[\o37]
  BY <1>2, <1>7, <1>8, <1>9 DEF Rhc
<1> QED BY <1>4, <1>5, <1>10 DEF v

\* PINC, MINC or DINC of the counter leaves the inputs alone.
LEMMA IncrementInputs ==
  ASSUME NEW s, Quiet(s), NEW type \in {0, 2, 4}
  PROVE  LET t == UnprogrammedIncrement(s, \o37, type)
         IN  /\ \A c \in Channels : t.InputChannel[c] = s.InputChannel[c]
             /\ type = 0 => t.Counter[\o37] = CounterPINC(s.Counter[\o37])
             /\ type = 2 => t.Counter[\o37] = CounterMINC(s.Counter[\o37])
             /\ type = 4 => t.Counter[\o37] = CounterDINC(s.Counter[\o37])
<1>1. s \in States /\ s.Counter \in [Counters -> Word] /\ \o37 \in Counters
  BY HostAssumption DEF Quiet, States
<1>2. CASE type = 0
  <2> DEFINE u == [s EXCEPT !.Counter[\o37] = CounterPINC(@)]
  <2>1. UnprogrammedIncrement(s, \o37, type) = u
    BY <1>2 DEF UnprogrammedIncrement
  <2>2. u.InputChannel = s.InputChannel /\ u.Counter[\o37] = CounterPINC(s.Counter[\o37])
    BY <1>1 DEF States
  <2> HIDE DEF u
  <2> QED BY <1>2, <2>1, <2>2
<1>3. CASE type = 2
  <2> DEFINE u == [s EXCEPT !.Counter[\o37] = CounterMINC(@)]
  <2>1. UnprogrammedIncrement(s, \o37, type) = u
    BY <1>3 DEF UnprogrammedIncrement
  <2>2. u.InputChannel = s.InputChannel /\ u.Counter[\o37] = CounterMINC(s.Counter[\o37])
    BY <1>1 DEF States
  <2> HIDE DEF u
  <2> QED BY <1>3, <2>1, <2>2
<1>4. CASE type = 4
  <2> DEFINE x == ChannelOutput(s, 128 + \o37, DincOutput(s.Counter[\o37]))
             u == [x EXCEPT !.Counter[\o37] = CounterDINC(@)]
  <2>1. UnprogrammedIncrement(s, \o37, type) = u
    BY <1>4 DEF UnprogrammedIncrement
  <2>2. 128 + \o37 \in 0 .. 255 /\ 128 + \o37 # 7
    OBVIOUS
  <2>3. DincOutput(s.Counter[\o37]) \in Word
    BY DincReports
  <2>4. Small(x)
    BY <2>2, <2>3, ChannelOutputSmall
  <2>5. /\ \A c \in Channels : x.InputChannel[c] = s.InputChannel[c]
        /\ x.Counter[\o37] = s.Counter[\o37]
    <3>1. SameInputs(x, s)
      BY <2>2, <2>3, ChannelOutputInputs, Zenon
    <3> QED BY <3>1 DEF SameInputs
  <2> HIDE DEF x
  <2>6. x \in States /\ x.Counter \in [Counters -> Word]
    BY <2>4 DEF Small, States
  <2>7. u.InputChannel = x.InputChannel /\ u.Counter[\o37] = CounterDINC(x.Counter[\o37])
    BY <1>1, <2>6 DEF States
  <2> HIDE DEF u
  <2> QED BY <1>4, <2>1, <2>5, <2>7
<1> QED BY <1>2, <1>3, <1>4

-----------------------------------------------------------------------------
(* The host's account.  What the engine holds and what the host has in its *)
(* account differ by the packets in the ring: telling them, one after the  *)
(* other, to an account that is true of the engine leads to the host's.    *)

Accounts == [mask : [Channels -> Word], view : [Channels -> Word], counts : -Budget .. Budget]
Now == [mask |-> mask, view |-> view, counts |-> counts]

WithMask(f, ch, v) == [f EXCEPT ![ch] = v]
WithValue(f, m, ch, v) == [f EXCEPT ![ch] = Merged(m, v, @)]
CountedOn(n, type) == IF type = 0 THEN n + 1
                      ELSE IF type = 2 THEN n - 1
                      ELSE IF n > 0 THEN n - 1 ELSE IF n < 0 THEN n + 1 ELSE 0

\* The account after packet p.
Told(a, p) ==
  LET q == ParseIoPacket(p)
  IN  [ mask |-> IF q.uBit THEN WithMask(a.mask, q.Channel, q.Value) ELSE a.mask,
        view |-> IF ~q.uBit /\ q.Channel < 128
                 THEN WithValue(a.view, a.mask[q.Channel], q.Channel, q.Value) ELSE a.view,
        counts |-> IF ~q.uBit /\ q.Channel >= 128 THEN CountedOn(a.counts, q.Value)
                   ELSE a.counts ]

\* Telling the packets of c to a, one after the other, leads to b.
Trace(tr, a, c, b) == /\ tr[0] = a /\ tr[Len(c)] = b
                      /\ \A k \in 1 .. Len(c) : tr[k] = Told(tr[k - 1], c[k])
Leads(a, c, b) == \E tr \in [0 .. Len(c) -> Accounts] : Trace(tr, a, c, b)

LEMMA LeadsNowhere ==
  ASSUME NEW a \in Accounts, NEW b \in Accounts
  PROVE  Leads(a, <<>>, b) <=> a = b
<1>1. Len(<<>>) = 0
  BY EmptySeq
<1>2. ASSUME a = b PROVE Leads(a, <<>>, b)
  <2> DEFINE tr == [k \in 0 .. 0 |-> a]
  <2>1. tr \in [0 .. Len(<<>>) -> Accounts] /\ tr[0] = a
    BY <1>1
  <2> HIDE DEF tr
  <2> QED BY <1>1, <1>2, <2>1 DEF Leads, Trace
<1> QED BY <1>1, <1>2 DEF Leads, Trace

LEMMA LeadsAppend ==
  ASSUME NEW c \in Seq(Packet), NEW p \in Packet, NEW a \in Accounts, NEW b \in Accounts,
         Leads(a, c, b), Told(b, p) \in Accounts
  PROVE  Leads(a, Append(c, p), Told(b, p))
<1>1. PICK tr \in [0 .. Len(c) -> Accounts] : Trace(tr, a, c, b)
  BY DEF Leads
<1> DEFINE n == Len(c)
           d == Append(c, p)
           tn == [k \in 0 .. n + 1 |-> IF k = n + 1 THEN Told(b, p) ELSE tr[k]]
<1>2. n \in Nat /\ Len(d) = n + 1 /\ d[n + 1] = p /\ \A k \in 1 .. n : d[k] = c[k]
  BY AppendProperties, LenProperties
<1>3. tr[0] = a /\ tr[n] = b /\ \A k \in 1 .. n : tr[k] = Told(tr[k - 1], c[k])
  BY <1>1 DEF Trace
<1>4. tr \in [0 .. n -> Accounts]
  OBVIOUS
<1> HIDE DEF n, d
<1>5. tn \in [0 .. n + 1 -> Accounts]
  <2>1. \A k \in 0 .. n + 1 : k # n + 1 => k \in 0 .. n
    BY <1>2
  <2> QED BY <2>1, <1>4
<1>6. tn[0] = a /\ tn[n + 1] = Told(b, p) /\ \A k \in 0 .. n : tn[k] = tr[k]
  BY <1>2, <1>3
<1> HIDE DEF tn
<1>7. ASSUME NEW k \in 1 .. n + 1 PROVE tn[k] = Told(tn[k - 1], d[k])
  <2>1. CASE k = n + 1
    <3>1. k - 1 = n /\ n \in 0 .. n
      BY <1>2, <2>1
    <3> QED BY <1>2, <1>3, <1>6, <2>1, <3>1
  <2>2. CASE k # n + 1
    <3>1. k \in 1 .. n /\ k \in 0 .. n /\ k - 1 \in 0 .. n
      BY <1>2, <2>2
    <3> QED BY <1>2, <1>3, <1>6, <3>1
  <2> QED BY <2>1, <2>2
<1>8. tn \in [0 .. Len(d) -> Accounts] /\ Trace(tn, a, d, Told(b, p))
  BY <1>2, <1>5, <1>6, <1>7 DEF Trace
<1> QED BY <1>8 DEF Leads, d

LEMMA LeadsTail ==
  ASSUME NEW c \in Seq(Packet), c # <<>>, NEW a \in Accounts, NEW b \in Accounts, Leads(a, c, b)
  PROVE  /\ Told(a, Head(c)) \in Accounts
         /\ Leads(Told(a, Head(c)), Tail(c), b)
<1>1. PICK tr \in [0 .. Len(c) -> Accounts] : Trace(tr, a, c, b)
  BY DEF Leads
<1> DEFINE n == Len(c)
           d == Tail(c)
           e == Told(a, Head(c))
           tn == [k \in 0 .. n - 1 |-> tr[k + 1]]
<1>2. n \in Nat \ {0} /\ Len(d) = n - 1 /\ Head(c) = c[1] /\ \A k \in 1 .. n - 1 : d[k] = c[k + 1]
  BY HeadTailProperties, LenProperties, EmptySeq
<1>3. tr[0] = a /\ tr[n] = b /\ \A k \in 1 .. n : tr[k] = Told(tr[k - 1], c[k])
  BY <1>1 DEF Trace
<1>4. tr \in [0 .. n -> Accounts]
  OBVIOUS
<1> HIDE DEF n, d
<1>5. tn \in [0 .. n - 1 -> Accounts]
  <2>1. \A k \in 0 .. n - 1 : k + 1 \in 0 .. n
    BY <1>2
  <2> QED BY <2>1, <1>4
<1>6. tr[1] = e /\ tr[1] \in Accounts
  <2>1. 1 \in 1 .. n /\ 1 - 1 = 0 /\ 1 \in 0 .. n
    BY <1>2
  <2> QED BY <1>2, <1>3, <1>4, <2>1
<1>7. \A k \in 0 .. n - 1 : tn[k] = tr[k + 1]
  OBVIOUS
<1> HIDE DEF tn, e
<1>8. tn[0] = e /\ tn[n - 1] = b
  <2>1. 0 \in 0 .. n - 1 /\ n - 1 \in 0 .. n - 1 /\ 0 + 1 = 1 /\ (n - 1) + 1 = n
    BY <1>2
  <2> QED BY <1>3, <1>6, <1>7, <2>1
<1>9. ASSUME NEW k \in 1 .. n - 1 PROVE tn[k] = Told(tn[k - 1], d[k])
  <2>1. /\ k \in 0 .. n - 1 /\ k - 1 \in 0 .. n - 1 /\ k + 1 \in 1 .. n
        /\ (k - 1) + 1 = k /\ (k + 1) - 1 = k
    BY <1>2
  <2>2. tn[k] = tr[k + 1] /\ tn[k - 1] = tr[k]
    BY <1>7, <2>1
  <2>3. tr[k + 1] = Told(tr[k], c[k + 1])
    BY <1>3, <2>1
  <2> QED BY <1>2, <2>2, <2>3
<1>10. tn \in [0 .. Len(d) -> Accounts] /\ Trace(tn, e, d, b)
  BY <1>2, <1>5, <1>8, <1>9 DEF Trace
<1>11. Leads(e, d, b)
  BY <1>10 DEF Leads
<1> QED BY <1>6, <1>11 DEF d, e

\* What a packet of the host says, by what it was written for.
LEMMA WriteMeaning ==
  ASSUME NEW w \in Writes, NEW p, p = FormIoPacket(w[1], w[2])
  PROVE  LET q == ParseIoPacket(p)
         IN  /\ p \in Packet /\ q.Value = w[2] /\ w[2] \in Word /\ w[1] \in 0 .. 511
             /\ w[1] >= 256 => q.uBit /\ q.Channel = w[1] - 256 /\ q.Channel \in Channels
             /\ w[1] < 256 => ~q.uBit /\ q.Channel = w[1]
             /\ w[1] < 128 => q.Channel \in Channels
             /\ 128 <= w[1] /\ w[1] < 256 => w[1] = \o237 /\ w[2] \in {0, 2, 4}
<1> DEFINE q == ParseIoPacket(p)
<1>1. w[1] \in Ports /\ w[2] \in Word
  BY WritesAssumption DEF Ports
<1>2. p \in Packet /\ q.Value = w[2] /\ q.Channel = w[1] % 256 /\ (q.uBit <=> w[1] >= 256)
  BY <1>1, RoundTrip, ZenonT(60)
<1> HIDE DEF q
<1>3. w[1] \in Int /\ 0 <= w[1] /\ w[1] < 512
  BY <1>1 DEF Ports
<1>4. w[1] >= 256 => w[1] % 256 = w[1] - 256
  BY <1>3
<1>5. w[1] < 256 => w[1] % 256 = w[1]
  BY <1>3
<1>6. w[1] < 128 \/ w[1] >= 256 => w[1] % 256 \in Channels
  <2>1. IF w[1] \in 128 .. 255 THEN w[1] % 128 \in Counters ELSE w[1] % 256 \in Channels
    BY WritesAssumption
  <2> QED BY <1>3, <2>1
<1>7. 128 <= w[1] /\ w[1] < 256 => w[1] = \o237 /\ w[2] \in {0, 2, 4}
  BY <1>3, HostAssumption DEF IsCount
<1>8. /\ w[1] >= 256 => q.uBit /\ q.Channel = w[1] - 256 /\ q.Channel \in Channels
      /\ w[1] < 256 => ~q.uBit /\ q.Channel = w[1]
      /\ w[1] < 128 => q.Channel \in Channels
  BY <1>2, <1>3, <1>4, <1>5, <1>6
<1> QED BY <1>1, <1>2, <1>3, <1>7, <1>8 DEF q

\* The channels that the host gives values for, and channel 33.
Trusted == {w[1] : w \in {w \in Writes : IsValue(w[1])}} \cup {\o33}

\* What a channel holds when the host's account of it is v, and what the
\* computer has of channel 33 is h.
Shown(ch, v, h) == IF ch = \o33 THEN h + (v % \o2000) ELSE v
Latch == IF warned THEN 23552 ELSE 31744

\* The account is true of an engine with these inputs, counters and masks.
TrueOf(a, s, h, up, masks) ==
  /\ up => a.mask = masks
  /\ \A ch \in Trusted : s.InputChannel[ch] = Shown(ch, a.view[ch], h)
  /\ Holds(s.Counter[\o37], a.counts)

Behind(a, s, h, up, masks, ring, b) ==
  TrueOf(a, s, h, up, masks) /\ Leads(a, Contents(ring), b)

AllBits == [ch \in Channels |-> \o77777]

HostInv ==
  /\ RingInv
  /\ uses \in Families
  /\ mask \in [Channels -> Word] /\ view \in [Channels -> Word]
  /\ counts \in Int /\ writes \in 0 .. Budget /\ -writes <= counts /\ counts <= writes
  /\ ~ChannelIsSetUp => /\ Contents(ringbuffer_in) = <<>>
                        /\ mask = AllBits
  /\ \E a \in Accounts :
        Behind(a, State, Latch, ChannelIsSetUp, ChannelMasks, ringbuffer_in, Now)

LEMMA TrustedChannels == Trusted \subseteq Channels
<1>1. ASSUME NEW w \in Writes, IsValue(w[1]) PROVE w[1] \in Channels
  <2>1. w[1] < 128 /\ w[1] \in 0 .. 511
    BY <1>1, WritesAssumption DEF IsValue
  <2> QED BY <2>1, WriteMeaning
<1> QED BY <1>1, IoAssumption DEF Trusted

LEMMA CountRange ==
  ASSUME NEW n \in Int, NEW k \in 0 .. Budget, -k <= n, n <= k
  PROVE  n \in -Budget .. Budget
<1>1. Budget \in Nat
  BY HostAssumption
<1> QED BY <1>1

LEMMA NowIsAccount ==
  ASSUME mask \in [Channels -> Word], view \in [Channels -> Word], counts \in Int,
         writes \in 0 .. Budget, -writes <= counts, counts <= writes
  PROVE  Now \in Accounts
<1>1. counts \in -Budget .. Budget
  BY CountRange
<1> QED BY <1>1 DEF Now, Accounts

LEMMA LatchIs ==
  /\ Latch \in Latches
  /\ warned => Latch = 23552
  /\ ~warned => Latch = 31744
BY DEF Latch, Latches

LEMMA LatchKept == UNCHANGED warned => Latch' = Latch
BY DEF Latch

\* Becoming s, but for what is sent.
LEMMA BecomesState ==
  ASSUME NEW s, s \in States, Becomes(s)
  PROVE  State'.InputChannel = s.InputChannel /\ State'.Counter = s.Counter
<1>1. State' = [s EXCEPT !.sent = <<>>]
  BY DEF Becomes
<1> QED BY <1>1 DEF States

\* A mask that the engine takes is the mask of the account.
LEMMA MaskTold ==
  ASSUME NEW p \in InPackets, ParseIoPacket(p).uBit, NEW a \in Accounts, NEW s, NEW masks,
         NEW h, TrueOf(a, s, h, TRUE, masks)
  PROVE  TrueOf(Told(a, p), s, h, TRUE,
                WithMask(masks, ParseIoPacket(p).Channel, ParseIoPacket(p).Value))
BY DEF Told, TrueOf

\* A value is merged as it is in the account.
LEMMA ValueTold ==
  ASSUME NEW p \in InPackets, ~ParseIoPacket(p).uBit, ParseIoPacket(p).Channel < 128,
         NEW a \in Accounts, NEW s, Quiet(s), NEW masks \in [Channels -> Word],
         NEW h \in Latches, TrueOf(a, s, h, TRUE, masks)
  PROVE  TrueOf(Told(a, p),
                ChannelWrite(s, masks[ParseIoPacket(p).Channel],
                             ParseIoPacket(p).Channel, ParseIoPacket(p).Value), h, TRUE, masks)
<1> DEFINE ch == ParseIoPacket(p).Channel
           v == ParseIoPacket(p).Value
           t == ChannelWrite(s, masks[ch], ch, v)
           b == Told(a, p)
<1>1. PICK w \in Writes : p = FormIoPacket(w[1], w[2])
  BY DEF InPackets
<1>2. ch \in Channels /\ v \in Word
  <2>1. w[1] < 128
    BY <1>1, WriteMeaning
  <2> QED BY <1>1, <2>1, WriteMeaning
<1>3. ch \in Trusted
  <2>1. w[1] < 128 /\ ch = w[1]
    BY <1>1, WriteMeaning
  <2> QED BY <2>1 DEF Trusted, IsValue
<1>4. b.mask = a.mask /\ b.view = WithValue(a.view, a.mask[ch], ch, v) /\ b.counts = a.counts
  <2>1. ~(ch >= 128)
    <3>1. Channels \subseteq 0 .. 127
      BY IoAssumption
    <3>2. \A c \in 0 .. 127 : ~(c >= 128)
      OBVIOUS
    <3> QED BY <1>2, <3>1, <3>2, Zenon
  <2> QED BY <2>1, ZenonT(60) DEF Told
<1>5. a.mask = masks
  BY DEF TrueOf
<1> HIDE DEF ch, v, t, b
<1>6. masks[ch] \in Int /\ v \in Int
  BY <1>2, WordsAreInts
<1>7. /\ \A c \in Channels : t.InputChannel[c] =
           Latched(ch, Merged(masks[ch], v, s.InputChannel[ch]), c, s.InputChannel[c])
      /\ t.Counter[\o37] = s.Counter[\o37]
  <2>1. masks[ch] \in Word
    BY <1>2
  <2> QED BY <1>2, <2>1, ChannelWriteInputs DEF t
<1>8. a.view \in [Channels -> Word] /\ s.InputChannel \in [Channels -> Word]
  BY DEF Accounts, Quiet, States
<1>9. \A c \in Channels : b.view[c] = IF c = ch THEN Merged(masks[ch], v, a.view[ch]) ELSE a.view[c]
  BY <1>2, <1>4, <1>5, <1>8 DEF WithValue
<1>10. \A c \in Trusted : s.InputChannel[c] = Shown(c, a.view[c], h)
  BY DEF TrueOf
<1>11. ASSUME NEW c \in Trusted
       PROVE  t.InputChannel[c] = Shown(c, b.view[c], h)
  <2>1. c \in Channels
    BY TrustedChannels
  <2>2. CASE c # ch
    BY <1>7, <1>9, <1>10, <2>1, <2>2 DEF Latched
  <2>3. CASE c = ch /\ c # \o33
    BY <1>3, <1>7, <1>9, <1>10, <2>1, <2>3 DEF Latched, Shown
  <2>4. CASE c = ch /\ c = \o33
    <3> DEFINE x == s.InputChannel[c]
               y == a.view[c]
               m == masks[ch]
    <3>1. x \in Int /\ y \in Int /\ m \in Int /\ v \in Int
      BY <1>6, <1>8, <2>1, WordsAreInts
    <3>2. x = h + (y % \o2000)
      BY <1>10, <2>4 DEF Shown
    <3>3. t.InputChannel[c] = Merged(\o1777, Merged(m, v, x), x)
      BY <1>7, <2>1, <2>4 DEF Latched
    <3>4. b.view[c] = Merged(m, v, y)
      BY <1>9, <2>1, <2>4
    <3> HIDE DEF x, y, m
    <3>5. Merged(\o1777, Merged(m, v, x), x) = h + (Merged(m, v, y) % \o2000)
      BY <3>1, <3>2, ChannelOf33
    <3> QED BY <2>4, <3>3, <3>4, <3>5 DEF Shown
  <2> QED BY <2>2, <2>3, <2>4
<1>12. TrueOf(b, t, h, TRUE, masks)
  BY <1>4, <1>5, <1>7, <1>11 DEF TrueOf
<1> QED BY <1>12 DEF b, t, ch, v

\* A count is made as it is in the account.
LEMMA CountTold ==
  ASSUME NEW p \in InPackets, ~ParseIoPacket(p).uBit, ParseIoPacket(p).Channel >= 128,
         NEW a \in Accounts, Told(a, p) \in Accounts, NEW s, Quiet(s), NEW masks,
         NEW h, TrueOf(a, s, h, TRUE, masks)
  PROVE  TrueOf(Told(a, p),
                UnprogrammedIncrement(s, ParseIoPacket(p).Channel % 128, ParseIoPacket(p).Value),
                h, TRUE, masks)
<1> DEFINE ch == ParseIoPacket(p).Channel
           v == ParseIoPacket(p).Value
           t == UnprogrammedIncrement(s, \o37, v)
           b == Told(a, p)
<1>1. PICK w \in Writes : p = FormIoPacket(w[1], w[2])
  BY DEF InPackets
<1>2. ch = \o237 /\ v \in {0, 2, 4}
  <2>1. 128 <= w[1] /\ w[1] < 256
    BY <1>1, WriteMeaning
  <2> QED BY <1>1, <2>1, WriteMeaning
<1>3. ch % 128 = \o37
  BY <1>2
<1>4. b.mask = a.mask /\ b.view = a.view /\ b.counts = CountedOn(a.counts, v)
  <2>1. ~(ch < 128)
    BY <1>2
  <2> QED BY <2>1, ZenonT(60) DEF Told
<1> HIDE DEF ch, v, t, b
<1>5. /\ \A c \in Channels : t.InputChannel[c] = s.InputChannel[c]
      /\ v = 0 => t.Counter[\o37] = CounterPINC(s.Counter[\o37])
      /\ v = 2 => t.Counter[\o37] = CounterMINC(s.Counter[\o37])
      /\ v = 4 => t.Counter[\o37] = CounterDINC(s.Counter[\o37])
  BY <1>2, IncrementInputs DEF t
<1>6. /\ a.counts \in Int /\ -HALF < a.counts /\ a.counts < HALF
      /\ b.counts \in Int /\ -HALF < b.counts /\ b.counts < HALF
  BY HostAssumption, HalfIs DEF Accounts, b
<1>7. s.Counter[\o37] \in Word
  BY HostAssumption DEF Quiet, States
<1>8. Holds(s.Counter[\o37], a.counts)
  BY DEF TrueOf
<1>9. Holds(t.Counter[\o37], b.counts)
  <2> DEFINE x == s.Counter[\o37]
             n == a.counts
  <2>1. /\ n + 1 < HALF => Holds(CounterPINC(x), n + 1)
        /\ -HALF < n - 1 => Holds(CounterMINC(x), n - 1)
        /\ Holds(CounterDINC(x), IF n > 0 THEN n - 1 ELSE IF n < 0 THEN n + 1 ELSE 0)
    BY <1>6, <1>7, <1>8, CounterCounts
  <2> HIDE DEF x, n
  <2>2. CASE v = 0
    BY <1>4, <1>5, <1>6, <2>1, <2>2 DEF CountedOn, n, x
  <2>3. CASE v = 2
    BY <1>4, <1>5, <1>6, <2>1, <2>3 DEF CountedOn, n, x
  <2>4. CASE v = 4
    BY <1>4, <1>5, <1>6, <2>1, <2>4 DEF CountedOn, n, x
  <2> QED BY <1>2, <2>2, <2>3, <2>4
<1>10. \A c \in Trusted : t.InputChannel[c] = s.InputChannel[c]
  BY <1>5, TrustedChannels
<1>11. TrueOf(b, t, h, TRUE, masks)
  BY <1>4, <1>9, <1>10 DEF TrueOf
<1> QED BY <1>3, <1>11 DEF b, t, ch, v

\* What the host keeps of a packet that was taken is what telling it makes.
LEMMA AccountTold ==
  ASSUME HostInv, NEW w \in Writes, Account(w[1], w[2]), writes < Budget,
         NEW p, p = FormIoPacket(w[1], w[2])
  PROVE  /\ Now' = Told(Now, p)
         /\ mask' \in [Channels -> Word] /\ view' \in [Channels -> Word]
         /\ counts' \in Int /\ writes' \in 0 .. Budget
         /\ -writes' <= counts' /\ counts' <= writes'
<1> DEFINE q == ParseIoPacket(p)
           ch == w[1]
           v == w[2]
<1>1. /\ mask \in [Channels -> Word] /\ view \in [Channels -> Word]
      /\ counts \in Int /\ writes \in 0 .. Budget /\ -writes <= counts /\ counts <= writes
  BY DEF HostInv
<1>2. /\ q.Value = v /\ v \in Word /\ ch \in 0 .. 511
      /\ ch >= 256 => q.uBit /\ q.Channel = ch - 256 /\ q.Channel \in Channels
      /\ ch < 256 => ~q.uBit /\ q.Channel = ch
      /\ ch < 128 => q.Channel \in Channels
      /\ 128 <= ch /\ ch < 256 => ch = \o237 /\ v \in {0, 2, 4}
  BY WriteMeaning
<1>3. /\ mask' = IF ch >= 256 THEN WithMask(mask, ch - 256, v) ELSE mask
      /\ view' = IF ch < 128 THEN WithValue(view, mask[ch], ch, v) ELSE view
      /\ counts' = IF ~IsCount(ch) THEN counts ELSE Counted(v)
      /\ writes' = writes + 1
  BY Zenon DEF Account, WithMask, WithValue, IsValue
<1>4. Told(Now, p) =
        [ mask |-> IF q.uBit THEN WithMask(mask, q.Channel, q.Value) ELSE mask,
          view |-> IF ~q.uBit /\ q.Channel < 128
                   THEN WithValue(view, mask[q.Channel], q.Channel, q.Value) ELSE view,
          counts |-> IF ~q.uBit /\ q.Channel >= 128 THEN CountedOn(counts, q.Value)
                     ELSE counts ]
  BY DEF Told, Now
<1>5. Now' = [mask |-> mask', view |-> view', counts |-> counts']
  BY DEF Now
<1>6. writes' \in 0 .. Budget
  BY <1>1, <1>3, HostAssumption
<1> HIDE DEF q, ch, v
<1>7. CASE ch >= 256
  <2>1. ~(ch < 128) /\ ~IsCount(ch) /\ ~(q.Channel >= 128)
    BY <1>2, <1>7, IoAssumption DEF IsCount
  <2>2. mask' = WithMask(mask, q.Channel, v) /\ view' = view /\ counts' = counts
    BY <1>2, <1>3, <1>7, <2>1
  <2>3. Now' = Told(Now, p)
    BY <1>2, <1>4, <1>5, <1>7, <2>2, Zenon
  <2>4. mask' \in [Channels -> Word]
    BY <1>1, <1>2, <1>7, <2>2 DEF WithMask
  <2> QED BY <1>1, <1>3, <1>6, <2>2, <2>3, <2>4
<1>8. CASE ch < 128
  <2>1. ch < 256 /\ ~(ch >= 256) /\ ~IsCount(ch) /\ ~(ch >= 128)
    BY <1>2, <1>8 DEF IsCount
  <2>2. mask' = mask /\ view' = WithValue(view, mask[ch], ch, v) /\ counts' = counts
    BY <1>3, <1>8, <2>1
  <2>3. Now' = Told(Now, p)
    <3>1. ~q.uBit /\ q.Channel = ch /\ q.Value = v
      BY <1>2, <2>1
    <3> QED BY <1>4, <1>5, <1>8, <2>1, <2>2, <3>1, Zenon
  <2>4. view' \in [Channels -> Word]
    <3>1. ch \in Channels /\ v \in Int
      BY <1>2, <1>8, <2>1, WordsAreInts
    <3>2. mask[ch] \in Int /\ view[ch] \in Int
      BY <1>1, <3>1, WordsAreInts
    <3>3. Merged(mask[ch], v, view[ch]) \in Word
      BY <3>1, <3>2, MergedType
    <3> QED BY <1>1, <2>2, <3>3 DEF WithValue
  <2> QED BY <1>1, <1>3, <1>6, <2>2, <2>3, <2>4
<1>9. CASE 128 <= ch /\ ch < 256
  <2>1. ~(ch < 128) /\ ~(ch >= 256) /\ IsCount(ch) /\ ch >= 128 /\ ch < 256
    BY <1>2, <1>9 DEF IsCount
  <2>2. mask' = mask /\ view' = view /\ counts' = CountedOn(counts, v)
    <3>1. Counted(v) = CountedOn(counts, v)
      BY <1>2, <1>9 DEF Counted, CountedOn
    <3> QED BY <1>3, <2>1, <3>1
  <2>3. Now' = Told(Now, p)
    <3>1. ~q.uBit /\ q.Channel = ch /\ q.Value = v
      BY <1>2, <2>1
    <3> QED BY <1>4, <1>5, <2>1, <2>2, <3>1, Zenon
  <2>4. counts' \in Int /\ -writes' <= counts' /\ counts' <= writes'
    BY <1>1, <1>3, <2>2 DEF CountedOn
  <2> QED BY <1>1, <1>6, <2>2, <2>3, <2>4
<1> QED BY <1>2, <1>7, <1>8, <1>9

\* A packet that the host puts into the ring is told to its account.
LEMMA HostWritesStep ==
  ASSUME HostInv, HostWrites, RingInv'
  PROVE  HostInv'
<1>1. PICK w \in uses : /\ packet_write(w[1], w[2])
                        /\ IF inAnswer'[3] THEN Account(w[1], w[2]) ELSE Refused
  BY DEF HostWrites
<1>2. w \in Writes
  BY HostAssumption DEF HostInv
<1>3. PICK a \in Accounts : Behind(a, State, Latch, ChannelIsSetUp, ChannelMasks, ringbuffer_in, Now)
  BY DEF HostInv
<1> DEFINE p == FormIoPacket(w[1], w[2])
<1>4. /\ ringbuffer_in' = Put(ringbuffer_in, p)
      /\ inAnswer' = <<"put", p, ~IsFull(ringbuffer_in)>>
      /\ UNCHANGED <<ChannelIsSetUp, ChannelMasks, State, uses, Latch>>
  BY <1>1, LatchKept DEF packet_write, PutIn, HostWrites
<1>5. ChannelIsSetUp /\ writes < Budget /\ uses \in Families
  BY DEF HostWrites, HostInv
<1>6. ringbuffer_in \in Rings /\ p \in Packet /\ Contents(ringbuffer_in) \in Seq(Packet)
  BY <1>2, WriteMeaning, ContentsType DEF HostInv, RingInv, RTypeOK
<1>7. Now \in Accounts
  BY NowIsAccount DEF HostInv
<1> HIDE DEF p
<1>8. inAnswer'[3] = ~IsFull(ringbuffer_in)
  BY <1>4, Zenon
<1>9. CASE IsFull(ringbuffer_in)
  <2>1. Refused
    BY <1>1, <1>8, <1>9, Zenon
  <2>2. ringbuffer_in' = ringbuffer_in
    BY <1>4, <1>9 DEF Put
  <2>3. Now' = Now
    BY <2>1, Zenon DEF Refused, Now
  <2>4. Behind(a, State, Latch, ChannelIsSetUp, ChannelMasks, ringbuffer_in, Now)'
    BY <1>3, <1>4, <2>2, <2>3 DEF Behind
  <2>5. ChannelIsSetUp' /\ uses' \in Families
    BY <1>4, <1>5
  <2>6. UNCHANGED <<mask, view, counts, writes>>
    BY <2>1 DEF Refused
  <2>7. /\ mask' \in [Channels -> Word] /\ view' \in [Channels -> Word]
        /\ counts' \in Int /\ writes' \in 0 .. Budget
        /\ -writes' <= counts' /\ counts' <= writes'
    BY <2>6 DEF HostInv
  <2> QED BY <2>4, <2>5, <2>7, Zenon DEF HostInv
<1>10. CASE ~IsFull(ringbuffer_in)
  <2>1. Account(w[1], w[2])
    BY <1>1, <1>8, <1>10, Zenon
  <2>2. Contents(ringbuffer_in') = Append(Contents(ringbuffer_in), p)
    BY <1>4, <1>6, <1>10, PutAppends
  <2>3. /\ Now' = Told(Now, p)
        /\ mask' \in [Channels -> Word] /\ view' \in [Channels -> Word]
        /\ counts' \in Int /\ writes' \in 0 .. Budget
        /\ -writes' <= counts' /\ counts' <= writes'
    BY <1>2, <1>5, <2>1, AccountTold DEF p
  <2>4. Told(Now, p) \in Accounts
    <3>1. counts' \in -Budget .. Budget
      BY <2>3, CountRange
    <3>2. Now' \in Accounts
      BY <2>3, <3>1 DEF Now, Accounts
    <3> QED BY <2>3, <3>2
  <2>5. Leads(a, Contents(ringbuffer_in'), Now')
    BY <1>3, <1>6, <1>7, <2>2, <2>3, <2>4, LeadsAppend DEF Behind
  <2>6. Behind(a, State, Latch, ChannelIsSetUp, ChannelMasks, ringbuffer_in, Now)'
    BY <1>3, <1>4, <2>5 DEF Behind
  <2>7. ChannelIsSetUp' /\ uses' \in Families
    BY <1>4, <1>5
  <2> QED BY <2>3, <2>6, <2>7, Zenon DEF HostInv
<1> QED BY <1>9, <1>10

\* A step that leaves the account and the ring is safe when the account stays
\* true of the engine.
LEMMA BehindStays ==
  ASSUME HostInv, RingInv', UNCHANGED <<uses, mask, view, counts, writes>>,
         ChannelIsSetUp' = ChannelIsSetUp,
         Contents(ringbuffer_in') = Contents(ringbuffer_in),
         \A a \in Accounts : TrueOf(a, State, Latch, ChannelIsSetUp, ChannelMasks) =>
                             TrueOf(a, State', Latch', ChannelIsSetUp, ChannelMasks')
  PROVE  HostInv'
<1>1. PICK a \in Accounts : Behind(a, State, Latch, ChannelIsSetUp, ChannelMasks, ringbuffer_in, Now)
  BY DEF HostInv
<1>2. Now' = Now
  BY Zenon DEF Now
<1>3. Behind(a, State, Latch, ChannelIsSetUp, ChannelMasks, ringbuffer_in, Now)'
  BY <1>1, <1>2 DEF Behind
<1>4. uses' \in Families /\ (~ChannelIsSetUp' => Contents(ringbuffer_in') = <<>> /\ mask' = AllBits)
  BY Zenon DEF HostInv
<1>5. /\ mask' \in [Channels -> Word] /\ view' \in [Channels -> Word]
      /\ counts' \in Int /\ writes' \in 0 .. Budget
      /\ -writes' <= counts' /\ counts' <= writes'
  BY DEF HostInv
<1> QED BY <1>3, <1>4, <1>5, Zenon DEF HostInv

\* A packet that the engine takes from the ring is told to the account that is
\* true of it.
LEMMA BehindTakes ==
  ASSUME HostInv, RingInv', UNCHANGED <<uses, mask, view, counts, writes, ChannelIsSetUp>>,
         ~IsEmpty(ringbuffer_in), GetIn,
         Latch' = Latch,
         \A a \in Accounts :
           ChannelIsSetUp /\ Told(a, Oldest(ringbuffer_in)) \in Accounts
             /\ TrueOf(a, State, Latch, TRUE, ChannelMasks) =>
                  TrueOf(Told(a, Oldest(ringbuffer_in)), State', Latch', TRUE, ChannelMasks')
  PROVE  HostInv'
<1>1. PICK a \in Accounts : Behind(a, State, Latch, ChannelIsSetUp, ChannelMasks, ringbuffer_in, Now)
  BY DEF HostInv
<1> DEFINE p == Oldest(ringbuffer_in)
           c == Contents(ringbuffer_in)
           b == Told(a, p)
<1>2. ringbuffer_in \in Rings /\ ringbuffer_in' = Got(ringbuffer_in)
  BY DEF HostInv, RingInv, RTypeOK, GetIn
<1>3. c \in Seq(Packet) /\ c # <<>> /\ p = Head(c) /\ Contents(ringbuffer_in') = Tail(c)
  BY <1>2, ContentsType, GotTakesOldest
<1>4. Now \in Accounts /\ Now' = Now
  <2>1. Now \in Accounts
    BY NowIsAccount DEF HostInv
  <2>2. Now' = Now
    BY Zenon DEF Now
  <2> QED BY <2>1, <2>2
<1>5. ChannelIsSetUp /\ ChannelIsSetUp \in BOOLEAN
  BY <1>3 DEF HostInv, RingInv, RTypeOK
<1>6. b \in Accounts /\ Leads(b, Contents(ringbuffer_in'), Now)
  BY <1>1, <1>3, <1>4, LeadsTail DEF Behind
<1>7. TrueOf(a, State, Latch, TRUE, ChannelMasks)
  BY <1>1, <1>5 DEF Behind, TrueOf
<1>8. TrueOf(b, State', Latch', TRUE, ChannelMasks')
  BY <1>5, <1>6, <1>7
<1> HIDE DEF b
<1>9. PICK e \in Accounts : e = b
  BY <1>6
<1>10. Behind(e, State, Latch, ChannelIsSetUp, ChannelMasks, ringbuffer_in, Now)'
  <2>1. TrueOf(e, State', Latch', ChannelIsSetUp', ChannelMasks')
    BY <1>5, <1>8, <1>9 DEF TrueOf
  <2> QED BY <1>4, <1>6, <1>9, <2>1 DEF Behind
<1>11. uses' \in Families /\ ChannelIsSetUp'
  BY <1>5, Zenon DEF HostInv
<1>12. /\ mask' \in [Channels -> Word] /\ view' \in [Channels -> Word]
       /\ counts' \in Int /\ writes' \in 0 .. Budget
       /\ -writes' <= counts' /\ counts' <= writes'
  BY DEF HostInv
<1> QED BY <1>10, <1>11, <1>12, Zenon DEF HostInv

\* Channel 33 goes from x to y while the computer's part of it goes from h to g.
Carries(x, h, y, g) == \A v \in Int : x = h + (v % \o2000) => y = g + (v % \o2000)

LEMMA Carried ==
  ASSUME NEW x, NEW h \in Latches
  PROVE  /\ Carries(x, h, x, h)
         /\ Carries(x, h, WithoutBit(x, WARNING), 23552)
         /\ Carries(x, h, WithBit(x, UPLINK_TOO_FAST), h)
         /\ Carries(x, h, \o76000 + (x % \o2000), 31744)
         /\ Carries(x, h, WithoutBit(\o76000 + (x % \o2000), WARNING), 23552)
<1>1. ASSUME NEW v \in Int, x = h + (v % \o2000)
      PROVE  /\ WithoutBit(x, WARNING) = 23552 + (v % \o2000)
             /\ WithBit(x, UPLINK_TOO_FAST) = x
             /\ \o76000 + (x % \o2000) = 31744 + (v % \o2000)
             /\ WithoutBit(\o76000 + (x % \o2000), WARNING) = 23552 + (v % \o2000)
  <2> PICK t \in Int : t = v % \o2000 /\ 0 <= t /\ t < 1024
    OBVIOUS
  <2>1. /\ WithoutBit(x, WARNING) = 23552 + t
        /\ WithBit(x, UPLINK_TOO_FAST) = x
        /\ \o76000 + (x % \o2000) = 31744 + t
    BY <1>1, LatchChanges
  <2>2. 31744 \in Latches
    BY DEF Latches
  <2>3. WithoutBit(31744 + t, WARNING) = 23552 + t
    BY <2>2, LatchChanges
  <2> QED BY <2>1, <2>3
<1>2. Carries(x, h, x, h)
  BY DEF Carries
<1>3. Carries(x, h, WithoutBit(x, WARNING), 23552)
  BY <1>1 DEF Carries
<1>4. Carries(x, h, WithBit(x, UPLINK_TOO_FAST), h)
  BY <1>1 DEF Carries
<1>5. Carries(x, h, \o76000 + (x % \o2000), 31744)
  BY <1>1 DEF Carries
<1>6. Carries(x, h, WithoutBit(\o76000 + (x % \o2000), WARNING), 23552)
  BY <1>1 DEF Carries
<1> QED BY <1>2, <1>3, <1>4, <1>5, <1>6

\* What the operations of the engine leave of what the account speaks of.
LEMMA EngineKeeps ==
  ASSUME HostInv, NEW s, s \in States, Becomes(s), UNCHANGED ChannelMasks,
         \A c \in Trusted : c # \o33 => s.InputChannel[c] = State.InputChannel[c],
         Carries(State.InputChannel[\o33], Latch, s.InputChannel[\o33], Latch'),
         s.Counter[\o37] = State.Counter[\o37]
  PROVE  \A a \in Accounts : TrueOf(a, State, Latch, ChannelIsSetUp, ChannelMasks) =>
                             TrueOf(a, State', Latch', ChannelIsSetUp, ChannelMasks')
<1>1. State'.InputChannel = s.InputChannel /\ State'.Counter = s.Counter
  BY BecomesState
<1> SUFFICES ASSUME NEW a \in Accounts,
                    TrueOf(a, State, Latch, ChannelIsSetUp, ChannelMasks)
             PROVE  TrueOf(a, State', Latch', ChannelIsSetUp, ChannelMasks')
  OBVIOUS
<1>2. s.InputChannel[\o33] = Latch' + (a.view[\o33] % \o2000)
  <2>1. State.InputChannel[\o33] = Latch + (a.view[\o33] % \o2000)
    BY DEF TrueOf, Shown, Trusted
  <2>2. a.view[\o33] \in Int
    BY IoAssumption, WordsAreInts DEF Accounts
  <2> QED BY <2>1, <2>2 DEF Carries
<1>3. ASSUME NEW c \in Trusted
      PROVE  s.InputChannel[c] = Shown(c, a.view[c], Latch')
  <2>1. CASE c = \o33
    BY <1>2, <2>1 DEF Shown
  <2>2. CASE c # \o33
    BY <2>2 DEF TrueOf, Shown
  <2> QED BY <2>1, <2>2
<1>4. Holds(s.Counter[\o37], a.counts)
  BY DEF TrueOf
<1>5. ChannelIsSetUp => a.mask = ChannelMasks'
  BY DEF TrueOf
<1> QED BY <1>1, <1>3, <1>4, <1>5 DEF TrueOf

\* Setting the interface up finds the masks that the host has in its account.
LEMMA EngineCallStep ==
  ASSUME HostInv, RingInv', EngineCall, UNCHANGED <<uses, mask, view, counts, writes>>,
         Latch' = Latch
  PROVE  HostInv'
<1>1. UNCHANGED <<uses, mask, view, counts, writes, State, Latch>>
  BY DEF EngineCall
<1>2. CASE ChannelIsSetUp
  <2>1. UNCHANGED <<ringbuffer_in, ChannelIsSetUp, ChannelMasks>>
    BY <1>2 DEF EngineCall, SetsUp, RestIn
  <2>2. \A a \in Accounts : TrueOf(a, State, Latch, ChannelIsSetUp, ChannelMasks) =>
                            TrueOf(a, State', Latch', ChannelIsSetUp, ChannelMasks')
    BY <1>1, <2>1
  <2> QED BY <1>1, <2>1, <2>2, BehindStays
<1>3. CASE ~ChannelIsSetUp
  <2>1. /\ ringbuffer_in' = Emptied(ringbuffer_in) /\ ChannelMasks' = AllBits
        /\ ChannelIsSetUp'
    BY <1>3 DEF EngineCall, SetsUp, AllBits
  <2>2. Contents(ringbuffer_in) = <<>> /\ mask = AllBits
    BY <1>3, Zenon DEF HostInv
  <2>3. Contents(ringbuffer_in') = <<>>
    BY <2>1, EmptiedIsEmpty DEF HostInv, RingInv, RTypeOK
  <2>4. Now \in Accounts /\ Now' = Now
    <3>1. Now \in Accounts
      BY NowIsAccount DEF HostInv
    <3>2. Now' = Now
      BY <1>1, Zenon DEF Now
    <3> QED BY <3>1, <3>2
  <2>5. PICK a \in Accounts : Behind(a, State, Latch, ChannelIsSetUp, ChannelMasks, ringbuffer_in, Now)
    BY DEF HostInv
  <2>6. a = Now
    BY <2>2, <2>4, <2>5, LeadsNowhere DEF Behind
  <2>7. TrueOf(Now, State', Latch', TRUE, ChannelMasks')
    <3>1. TrueOf(Now, State, Latch, ChannelIsSetUp, ChannelMasks)
      BY <2>5, <2>6 DEF Behind
    <3>2. Now.mask = ChannelMasks'
      BY <2>1, <2>2 DEF Now
    <3> QED BY <1>1, <3>1, <3>2 DEF TrueOf
  <2>8. Behind(Now, State, Latch, ChannelIsSetUp, ChannelMasks, ringbuffer_in, Now)'
    <3>1. Leads(Now, <<>>, Now)
      BY <2>4, LeadsNowhere
    <3>2. TrueOf(Now', State', Latch', ChannelIsSetUp', ChannelMasks')
      BY <2>1, <2>4, <2>7 DEF TrueOf
    <3> QED BY <2>3, <2>4, <3>1, <3>2 DEF Behind
  <2>9. /\ uses' \in Families
        /\ mask' \in [Channels -> Word] /\ view' \in [Channels -> Word]
        /\ counts' \in Int /\ writes' \in 0 .. Budget
        /\ -writes' <= counts' /\ counts' <= writes'
    BY <1>1 DEF HostInv
  <2> QED BY <2>1, <2>4, <2>8, <2>9, Zenon DEF HostInv
<1> QED BY <1>2, <1>3

\* What becomes of the warning that was shown.
LEMMA WarnedSteps ==
  ASSUME EngineRuns
  PROVE  /\ engine = "lamps" => (warned' <=> warned \/ State.AgcWarning)
         /\ engine = "program" /\ Sends /\ Sent.Channel = \o33 => (warned' <=> State'.AgcWarning)
         /\ engine # "lamps" /\ ~(engine = "program" /\ Sends /\ Sent.Channel = \o33) =>
              UNCHANGED warned
<1>1. "lamps" # "program"
  OBVIOUS
<1> DEFINE To33 == Sends /\ Sent.Channel = \o33
<1>2. warned' = CASE engine = "lamps" -> warned \/ State.AgcWarning
                  [] engine = "program" /\ To33 -> State'.AgcWarning
                  [] OTHER -> warned
  BY DEF EngineRuns
<1> HIDE DEF To33
<1>3. CASE engine = "lamps"
  BY <1>1, <1>2, <1>3
<1>4. CASE engine = "program" /\ To33
  BY <1>1, <1>2, <1>4 DEF To33
<1>5. CASE engine # "lamps" /\ ~(engine = "program" /\ To33)
  BY <1>2, <1>5 DEF To33
<1> QED BY <1>3, <1>4, <1>5 DEF To33

\* What is sent when the engine becomes s.
LEMMA BecomesSends ==
  ASSUME NEW s, Becomes(s), NEW ch \in 0 .. 255
  PROVE  /\ s.sent = <<>> => ~Sends
         /\ \A v \in Word : s.sent = << <<ch, v>> >> => Sends /\ Sent.Channel = ch
<1>1. ASSUME s.sent = <<>> PROVE ~Sends
  BY <1>1 DEF Becomes, RestOut, Sends
<1>2. ASSUME NEW v \in Word, s.sent = << <<ch, v>> >> PROVE Sends /\ Sent.Channel = ch
  <2>1. ch \in Ports /\ ch % 256 = ch
    BY DEF Ports
  <2> DEFINE p == FormIoPacket(ch, v)
  <2>2. ParseIoPacket(p).Channel = ch
    BY <2>1, RoundTrip
  <2>3. s.sent # <<>> /\ s.sent[1][1] = ch /\ s.sent[1][2] = v
    BY <1>2
  <2>4. outAnswer' = <<"put", p, ~IsFull(ringbuffer_out)>>
    BY <2>3, Zenon DEF Becomes
  <2> HIDE DEF p
  <2>5. outAnswer' # <<>> /\ outAnswer'[1] = "put" /\ outAnswer'[2] = p
    BY <2>4
  <2> QED BY <2>2, <2>5 DEF Sends, Sent
<1> QED BY <1>1, <1>2

\* An output of the engine leaves the account true.
Keeps(s) ==
  /\ s \in States /\ Becomes(s)
  /\ \A c \in Trusted : c # \o33 => s.InputChannel[c] = State.InputChannel[c]
  /\ Carries(State.InputChannel[\o33], Latch, s.InputChannel[\o33], Latch')
  /\ s.Counter[\o37] = State.Counter[\o37]

\* It does when it is not to channel 33 and to no channel of the account.
LEMMA KeepsWhenSame ==
  ASSUME NEW s, s \in States, Becomes(s), Latch' = Latch,
         \A c \in Trusted : s.InputChannel[c] = State.InputChannel[c],
         s.Counter[\o37] = State.Counter[\o37]
  PROVE  Keeps(s)
<1>1. s.InputChannel[\o33] = State.InputChannel[\o33]
  BY DEF Trusted
<1>2. Carries(State.InputChannel[\o33], Latch, State.InputChannel[\o33], Latch)
  BY LatchIs, Carried
<1> QED BY <1>1, <1>2 DEF Keeps

\* The lamps show a warning in channel 33.
LEMMA LampsKeep ==
  ASSUME HostInv, EngineRuns, UpdateDSKY
  PROVE  \E s : Keeps(s)
<1>1. Quiet(State) /\ State \in States /\ Quiet(WarningShown(State))
  BY ProgramSmall DEF HostInv, RingInv, RTypeOK
<1>2. engine = "lamps"
  BY DEF UpdateDSKY
<1> DEFINE t == WarningShown(State)
<1>3. /\ \A c \in Channels : c # \o33 => t.InputChannel[c] = State.InputChannel[c]
      /\ t.Counter = State.Counter
      /\ t.InputChannel[\o33] = IF State.AgcWarning
                                THEN WithoutBit(State.InputChannel[\o33], WARNING)
                                ELSE State.InputChannel[\o33]
  BY <1>1, IoAssumption DEF WarningShown, States
<1>4. Carries(State.InputChannel[\o33], Latch, t.InputChannel[\o33], Latch')
  <2>1. CASE State.AgcWarning
    <3>1. warned'
      BY <1>2, <2>1, WarnedSteps
    <3>2. Latch' = 23552
      BY <3>1 DEF Latch
    <3> HIDE DEF t
    <3> QED BY <1>3, <2>1, <3>2, LatchIs, Carried
  <2>2. CASE ~State.AgcWarning
    <3>1. warned' <=> warned
      BY <1>2, <2>2, WarnedSteps
    <3>2. Latch' = Latch
      BY <3>1 DEF Latch
    <3> HIDE DEF t
    <3> QED BY <1>3, <2>2, <3>2, LatchIs, Carried
  <2> QED BY <2>1, <2>2
<1>5. Quiet(t)
  BY <1>1
<1> HIDE DEF t
<1>6. ASSUME NEW v \in Word, Becomes(ChannelOutput(t, \o163, v))
      PROVE  Keeps(ChannelOutput(t, \o163, v))
  <2>1. \o163 \in 0 .. 255 /\ \o163 # 7
    OBVIOUS
  <2>2. Small(ChannelOutput(t, \o163, v))
    BY <1>5, <2>1, ChannelOutputSmall
  <2>3. SameInputs(ChannelOutput(t, \o163, v), t)
    BY <1>5, <2>1, ChannelOutputInputs, Zenon
  <2> PICK x : x = ChannelOutput(t, \o163, v)
    OBVIOUS
  <2>4. x \in States /\ Becomes(x)
    BY <1>6, <2>2 DEF Small
  <2>5. /\ \A c \in Channels : x.InputChannel[c] = t.InputChannel[c]
        /\ x.Counter[\o37] = t.Counter[\o37]
    BY <2>3 DEF SameInputs
  <2>6. x.InputChannel[\o33] = t.InputChannel[\o33]
    BY <2>5, IoAssumption
  <2>7. Keeps(x)
    BY <1>3, <1>4, <2>4, <2>5, <2>6, TrustedChannels DEF Keeps
  <2> QED BY <2>7
<1>7. ASSUME Becomes(t) PROVE Keeps(t)
  BY <1>3, <1>4, <1>5, <1>7, TrustedChannels DEF Keeps, Quiet
<1>8. Lamps \subseteq Word
  BY WritesAssumption
<1>9. Becomes(t) \/ \E lamps \in Lamps : Becomes(ChannelOutput(t, \o163, lamps))
  BY DEF UpdateDSKY, t
<1> QED BY <1>6, <1>7, <1>8, <1>9

\* What the program writes is to no channel of the account, but that it may
\* set the computer's bits of channel 33.
LEMMA WriteKeeps ==
  ASSUME HostInv, EngineRuns, engine = "program", NEW on \in BOOLEAN, NEW o \in Outputs,
         Becomes(CpuWriteIO(Scaled(on), o[1], o[2]))
  PROVE  Keeps(CpuWriteIO(Scaled(on), o[1], o[2]))
<1> DEFINE s == Scaled(on)
           x == CpuWriteIO(s, o[1], o[2])
<1>1. Quiet(s)
  BY ProgramSmall DEF HostInv
<1>2. s.InputChannel = State.InputChannel /\ s.Counter = State.Counter /\ s.AgcWarning = on
  BY DEF Scaled, HostInv, RingInv, RTypeOK, States
<1>3. o[1] \in Channels /\ o[2] \in Word /\ o[1] \in 0 .. 255
  <2>1. o[1] \in Channels /\ o[2] \in Word
    BY WritesAssumption
  <2>2. \A c \in Channels : c \in 0 .. 255
    BY IoAssumption
  <2> QED BY <2>1, <2>2
<1>4. \A c \in Trusted : c = o[1] => c = \o33
  BY HostAssumption DEF Trusted
<1>5. x \in States /\ Becomes(x)
  <2>1. RingInv
    BY DEF HostInv
  <2>2. Small(CpuWriteIO(Scaled(on), o[1], o[2]))
    BY <2>1, ProgramSmall
  <2> QED BY <2>2 DEF Small
<1> HIDE DEF s
<1>6. /\ \A c \in Channels : c # o[1] => x.InputChannel[c] = s.InputChannel[c]
      /\ x.Counter[\o37] = s.Counter[\o37]
      /\ o[1] = \o33 => Relatches(x, s)
      /\ SendsOn(x, o[1])
  BY <1>1, <1>3, CpuWriteInputs
<1> HIDE DEF x
<1>7. \A c \in Trusted : c # \o33 => x.InputChannel[c] = State.InputChannel[c]
  BY <1>2, <1>4, <1>6, TrustedChannels
<1>8. CASE o[1] # \o33
  <2>1. ~(Sends /\ Sent.Channel = \o33)
    <3>1. CASE x.sent = <<>>
      BY <1>3, <1>5, <3>1, BecomesSends
    <3>2. ASSUME NEW w \in Word, x.sent = << <<o[1], w>> >>
          PROVE  Sent.Channel # \o33
      <4>1. PICK ch \in 0 .. 255 : ch = o[1]
        BY <1>3
      <4>2. x.sent = << <<ch, w>> >>
        BY <3>2, <4>1
      <4>3. Sent.Channel = ch
        BY <1>5, <4>2, BecomesSends
      <4> QED BY <1>8, <4>1, <4>3
    <3> QED BY <1>6, <3>1, <3>2 DEF SendsOn
  <2>2. Latch' = Latch
    BY <2>1, WarnedSteps, LatchKept
  <2>3. \A c \in Trusted : x.InputChannel[c] = State.InputChannel[c]
    BY <1>2, <1>4, <1>6, <1>8, TrustedChannels
  <2>4. Keeps(x)
    BY <1>2, <1>5, <1>6, <2>2, <2>3, KeepsWhenSame
  <2> QED BY <2>4 DEF x, s
<1>9. CASE o[1] = \o33
  <2>1. /\ x.InputChannel[\o33] = Relatched(s) /\ x.AgcWarning = on
        /\ x.sent = << <<\o33, Relatched(s)>> >>
    BY <1>2, <1>6, <1>9 DEF Relatches
  <2>2. Relatched(s) \in Word /\ \o33 \in 0 .. 255
    BY <1>1, <1>3, <1>9, RelatchedWord
  <2>3. Sends /\ Sent.Channel = \o33
    BY <1>5, <2>1, <2>2, BecomesSends
  <2>4. State'.AgcWarning = x.AgcWarning
    BY <1>5 DEF Becomes, States
  <2>5. warned' <=> on
    BY <2>1, <2>3, <2>4, WarnedSteps
  <2> DEFINE c33 == State.InputChannel[\o33]
             all == \o76000 + (c33 % \o2000)
  <2>6. Relatched(s) = IF on THEN WithoutBit(all, WARNING) ELSE all
    BY <1>2 DEF Relatched
  <2>7. Carries(c33, Latch, all, 31744) /\ Carries(c33, Latch, WithoutBit(all, WARNING), 23552)
    BY LatchIs, Carried
  <2> HIDE DEF all
  <2>8. Carries(c33, Latch, x.InputChannel[\o33], Latch')
    <3>1. CASE on
      <4>1. Latch' = 23552
        BY <2>5, <3>1 DEF Latch
      <4> QED BY <2>1, <2>6, <2>7, <3>1, <4>1
    <3>2. CASE ~on
      <4>1. Latch' = 31744
        BY <2>5, <3>2 DEF Latch
      <4> QED BY <2>1, <2>6, <2>7, <3>2, <4>1
    <3> QED BY <3>1, <3>2
  <2>9. Keeps(x)
    BY <1>2, <1>5, <1>6, <1>7, <2>8 DEF Keeps
  <2> QED BY <2>9 DEF x, s
<1> QED BY <1>8, <1>9

\* An interrupt is served, or nothing of this happens.
LEMMA ProgramKeeps ==
  ASSUME HostInv, EngineRuns, Program
  PROVE  \E s : Keeps(s)
<1>1. engine = "program" /\ \o33 \in 0 .. 255
  BY DEF Program
<1>2. PICK on \in BOOLEAN :
         \/ Becomes(Scaled(on))
         \/ \E o \in Outputs : Becomes(CpuWriteIO(Scaled(on), o[1], o[2]))
         \/ \E r \in State.InterruptRequests :
               Becomes([Scaled(on) EXCEPT !.InterruptRequests = @ \ {r}])
  BY DEF Program
<1>3. ASSUME NEW s, Small(s), s.sent = <<>>, Becomes(s),
             s.InputChannel = State.InputChannel, s.Counter = State.Counter
      PROVE  Keeps(s)
  <2>1. ~Sends
    BY <1>1, <1>3, BecomesSends
  <2>2. Latch' = Latch
    BY <1>1, <2>1, WarnedSteps, LatchKept
  <2> QED BY <1>3, <2>2, KeepsWhenSame DEF Small
<1>4. Quiet(Scaled(on)) /\ Small(Scaled(on))
  BY ProgramSmall DEF HostInv
<1>5. /\ Scaled(on).InputChannel = State.InputChannel
      /\ Scaled(on).Counter = State.Counter
  BY DEF Scaled, HostInv, RingInv, RTypeOK, States
<1>6. CASE Becomes(Scaled(on))
  BY <1>3, <1>4, <1>5, <1>6 DEF Quiet
<1>7. ASSUME NEW o \in Outputs, Becomes(CpuWriteIO(Scaled(on), o[1], o[2]))
      PROVE  \E s : Keeps(s)
  BY <1>1, <1>7, WriteKeeps
<1>8. ASSUME NEW r, Becomes([Scaled(on) EXCEPT !.InterruptRequests = @ \ {r}])
      PROVE  \E s : Keeps(s)
  <2> DEFINE s == [Scaled(on) EXCEPT !.InterruptRequests = @ \ {r}]
  <2>1. Small(s)
    BY ProgramSmall DEF HostInv
  <2>2. /\ s.InputChannel = State.InputChannel /\ s.Counter = State.Counter
        /\ s.sent = <<>>
    BY <1>4, <1>5 DEF Quiet, States
  <2>3. Becomes(s)
    BY <1>8
  <2> HIDE DEF s
  <2> QED BY <1>3, <2>1, <2>2, <2>3
<1> QED BY <1>2, <1>6, <1>7, <1>8

\* A restart leaves the inputs of the account, and the latch.
LEMMA RestartKeeps ==
  ASSUME HostInv, EngineRuns, Restart
  PROVE  \E s : Keeps(s)
<1>1. Quiet(State) /\ State \in States /\ State.InputChannel \in [Channels -> Word]
  BY ProgramSmall DEF HostInv, RingInv, RTypeOK, States
<1>2. \A c \in Trusted : c \notin ClearedChannels \cup {\o77}
  <2>1. \A k \in 1 .. 9 : RestartChannels[k] # \o33
    BY DEF RestartChannels
  <2>2. \o33 \notin ClearedChannels \cup {\o77}
    BY <2>1, RestartWrites DEF ClearedChannels
  <2> QED BY <2>2, HostAssumption DEF Trusted
<1>3. CASE RestartBegins
  <2>1. PICK on \in BOOLEAN, standby \in BOOLEAN : Becomes(Restarted(Scaled(on), standby))
    BY <1>3 DEF RestartBegins
  <2> DEFINE s == Scaled(on)
             x == Restarted(s, standby)
  <2>2. s.InputChannel = State.InputChannel /\ s.Counter = State.Counter /\ Quiet(s)
    BY ProgramSmall DEF Scaled, HostInv, RingInv, RTypeOK, States
  <2>3. x \in States
    <3>1. Small(Restarted(Scaled(on), standby))
      BY ProgramSmall DEF HostInv
    <3> QED BY <3>1 DEF Small
  <2> HIDE DEF s
  <2>4. /\ \A c \in Channels : c # \o33 => x.InputChannel[c] = s.InputChannel[c]
        /\ x.InputChannel[\o33] = WithBit(s.InputChannel[\o33], UPLINK_TOO_FAST)
        /\ x.Counter = s.Counter /\ x.sent = <<>>
    <3>1. \o33 \in DOMAIN s.InputChannel /\ DOMAIN s.InputChannel = Channels /\ s.sent = <<>>
      BY <2>2, IoAssumption DEF Quiet, States
    <3> HIDE DEF x
    <3>2. x.InputChannel = [s.InputChannel EXCEPT ![\o33] = WithBit(@, UPLINK_TOO_FAST)]
      BY <2>2 DEF x, Restarted, Quiet, States
    <3>3. x.Counter = s.Counter /\ x.sent = s.sent
      BY <2>2 DEF x, Restarted, Quiet, States
    <3> QED BY <3>1, <3>2, <3>3
  <2>5. Becomes(x)
    BY <2>1 DEF s
  <2> HIDE DEF x
  <2>6. engine = "program" /\ ~Sends
    BY <1>3, <2>4, <2>5, BecomesSends DEF RestartBegins
  <2>7. Latch' = Latch
    BY <2>6, WarnedSteps, LatchKept
  <2>8. Carries(State.InputChannel[\o33], Latch, x.InputChannel[\o33], Latch')
    BY <2>2, <2>4, <2>7, LatchIs, Carried
  <2> QED BY <2>2, <2>3, <2>4, <2>5, <2>8, TrustedChannels DEF Keeps
<1>4. ASSUME engine = "restart" PROVE Latch' = Latch
  BY <1>4, WarnedSteps, LatchKept
<1>5. CASE RestartClears
  <2> DEFINE ch == RestartChannels[cleared + 1]
             x == CpuWriteIO(State, ch, 0)
  <2>1. cleared \in 0 .. 8 /\ engine = "restart" /\ Becomes(x)
    BY <1>5, RestartWrites DEF RestartClears, HostInv, RingInv, RTypeOK
  <2>2. ch \in ClearedChannels /\ ch \in Channels /\ 0 \in Word
    BY <2>1, RestartWrites
  <2>3. x \in States
    <3>1. Small(CpuWriteIO(State, RestartChannels[cleared + 1], 0))
      BY <2>1, ProgramSmall DEF HostInv
    <3> QED BY <3>1 DEF Small
  <2> HIDE DEF ch
  <2>4. /\ \A c \in Channels : c # ch => x.InputChannel[c] = State.InputChannel[c]
        /\ x.Counter[\o37] = State.Counter[\o37]
    BY <1>1, <2>2, CpuWriteInputs
  <2> HIDE DEF x
  <2>5. \A c \in Trusted : x.InputChannel[c] = State.InputChannel[c]
    BY <1>2, <2>2, <2>4, TrustedChannels
  <2> QED BY <1>4, <2>1, <2>3, <2>4, <2>5, KeepsWhenSame
<1>6. CASE RestartEnds
  <2>1. engine = "restart"
    BY <1>6 DEF RestartEnds
  <2>2. PICK alarm \in Alarms :
          Becomes(ChannelOutput([State EXCEPT !.InputChannel[\o77] = Alarmed(State, alarm)],
                                \o77, Alarmed(State, alarm)))
    BY <1>6 DEF RestartEnds, Alarmed
  <2> DEFINE w == Alarmed(State, alarm)
             s == [State EXCEPT !.InputChannel[\o77] = w]
             x == ChannelOutput(s, \o77, w)
  <2>3. x \in States
    <3>1. Small(ChannelOutput([State EXCEPT !.InputChannel[\o77] = Alarmed(State, alarm)],
                              \o77, Alarmed(State, alarm)))
      BY ProgramSmall DEF HostInv
    <3> QED BY <3>1 DEF Small
  <2>4. Quiet(s) /\ w \in Word
    BY <1>1, AlarmedQuiet
  <2> HIDE DEF w
  <2>5. /\ \A c \in Channels : c # \o77 => s.InputChannel[c] = State.InputChannel[c]
        /\ s.Counter = State.Counter
    BY <1>1 DEF States
  <2> HIDE DEF s
  <2>6. \o77 \in 0 .. 255 /\ \o77 # 7
    OBVIOUS
  <2>7. SameInputs(x, s)
    BY <2>4, <2>6, ChannelOutputInputs, Zenon
  <2>8. Becomes(x)
    BY <2>2 DEF s, w
  <2> HIDE DEF x
  <2>9. \A c \in Trusted : x.InputChannel[c] = State.InputChannel[c]
    BY <1>2, <2>5, <2>7, TrustedChannels DEF SameInputs
  <2>10. x.Counter[\o37] = State.Counter[\o37]
    BY <2>5, <2>7 DEF SameInputs
  <2> QED BY <1>4, <2>1, <2>3, <2>8, <2>9, <2>10, KeepsWhenSame
<1> QED BY <1>3, <1>5, <1>6 DEF Restart

\* The engine's outputs leave what the account speaks of.
LEMMA EngineWritesStep ==
  ASSUME HostInv, RingInv', EngineRuns, UpdateDSKY \/ Program \/ Restart
  PROVE  HostInv'
<1>1. UNCHANGED <<uses, mask, view, counts, writes>>
  BY DEF EngineRuns
<1>2. UNCHANGED <<ringbuffer_in, ChannelIsSetUp, ChannelMasks>>
  BY DEF UpdateDSKY, Program, Restart, RestartBegins, RestartClears, RestartEnds, RestIn
<1>3. PICK s : Keeps(s)
  BY LampsKeep, ProgramKeeps, RestartKeeps
<1>4. \A a \in Accounts : TrueOf(a, State, Latch, ChannelIsSetUp, ChannelMasks) =>
                          TrueOf(a, State', Latch', ChannelIsSetUp, ChannelMasks')
  BY <1>2, <1>3, EngineKeeps DEF Keeps
<1> QED BY <1>1, <1>2, <1>4, BehindStays

\* The loop of ChannelInput tells the packet that it takes.
LEMMA InputStep ==
  ASSUME HostInv, RingInv', ChannelInput, UNCHANGED <<uses, mask, view, counts, writes>>,
         Latch' = Latch
  PROVE  HostInv'
<1>1. /\ Quiet(State) /\ State \in States /\ ChannelMasks \in [Channels -> Word]
      /\ Latch \in Latches
  BY LatchIs DEF HostInv, RingInv, RTypeOK, Quiet
<1>2. CASE InputEnds
  <2>1. /\ UNCHANGED <<ChannelIsSetUp, ChannelMasks, State>>
        /\ ringbuffer_in' = ringbuffer_in
    BY <1>2 DEF InputEnds, GetIn, Got
  <2>2. \A a \in Accounts : TrueOf(a, State, Latch, ChannelIsSetUp, ChannelMasks) =>
                            TrueOf(a, State', Latch', ChannelIsSetUp, ChannelMasks')
    BY <2>1
  <2> QED BY <2>1, <2>2, BehindStays
<1> DEFINE p == Oldest(ringbuffer_in)
           q == ParseIoPacket(p)
<1>3. ASSUME GetIn, ~IsEmpty(ringbuffer_in) PROVE p \in InPackets
  BY <1>3, GetInInv DEF HostInv
<1>4. CASE InputMask
  <2>1. /\ ~IsEmpty(ringbuffer_in) /\ GetIn /\ q.uBit
        /\ ChannelMasks' = WithMask(ChannelMasks, q.Channel, q.Value)
        /\ UNCHANGED <<ChannelIsSetUp, State>>
    BY <1>4, Zenon DEF InputMask, WithMask
  <2>2. p \in InPackets
    BY <1>3, <2>1
  <2> HIDE DEF p
  <2>3. \A a \in Accounts : TrueOf(a, State, Latch, TRUE, ChannelMasks) =>
          TrueOf(Told(a, p), State', Latch', TRUE, ChannelMasks')
    BY <2>1, <2>2, MaskTold
  <2> QED BY <2>1, <2>3, BehindTakes DEF p
<1>5. CASE InputValue
  <2> DEFINE s == ChannelWrite(State, ChannelMasks[q.Channel], q.Channel, q.Value)
  <2>1. /\ ~IsEmpty(ringbuffer_in) /\ GetIn /\ ~q.uBit /\ q.Channel < 128
        /\ Becomes(s)
        /\ UNCHANGED <<ChannelIsSetUp, ChannelMasks>>
    BY <1>5, Zenon DEF InputValue
  <2>2. p \in InPackets
    BY <1>3, <2>1
  <2> HIDE DEF p
  <2>3. s \in States
    <3>1. q.Channel \in Channels /\ q.Value \in Word
      <4>1. ~(q.Channel >= 128)
        BY <2>1, <2>2, InPacketsMeaning
      <4> QED BY <2>1, <2>2, <4>1, InPacketsMeaning, Zenon
    <3> HIDE DEF q
    <3>2. ChannelMasks[q.Channel] \in Word
      BY <1>1, <3>1
    <3> QED BY <1>1, <3>1, <3>2, ChannelWriteSmall DEF Small
  <2>4. \A a \in Accounts : TrueOf(a, State, Latch, TRUE, ChannelMasks) =>
          TrueOf(Told(a, p), s, Latch, TRUE, ChannelMasks)
    BY <1>1, <2>1, <2>2, ValueTold, ZenonT(60)
  <2> HIDE DEF s
  <2>5. State'.InputChannel = s.InputChannel /\ State'.Counter = s.Counter
    BY <2>1, <2>3, BecomesState
  <2>6. \A a \in Accounts : TrueOf(a, State, Latch, TRUE, ChannelMasks) =>
          TrueOf(Told(a, p), State', Latch', TRUE, ChannelMasks')
    BY <2>1, <2>4, <2>5 DEF TrueOf
  <2> QED BY <2>1, <2>6, BehindTakes DEF p
<1>6. CASE InputCount
  <2> DEFINE s == UnprogrammedIncrement(State, q.Channel % 128, q.Value)
  <2>1. /\ ~IsEmpty(ringbuffer_in) /\ GetIn /\ ~q.uBit /\ q.Channel >= 128
        /\ Becomes(s)
        /\ UNCHANGED <<ChannelIsSetUp, ChannelMasks>>
    BY <1>6, Zenon DEF InputCount
  <2>2. p \in InPackets
    BY <1>3, <2>1
  <2> HIDE DEF p
  <2>3. s \in States
    <3>1. q.Channel % 128 \in Counters /\ q.Value \in Word
      BY <2>1, <2>2, InPacketsMeaning, Zenon
    <3> HIDE DEF q
    <3> QED BY <1>1, <3>1, UnprogrammedIncrementSmall DEF Small
  <2>4. \A a \in Accounts : Told(a, p) \in Accounts /\ TrueOf(a, State, Latch, TRUE, ChannelMasks) =>
          TrueOf(Told(a, p), s, Latch, TRUE, ChannelMasks)
    BY <1>1, <2>1, <2>2, CountTold, ZenonT(60)
  <2> HIDE DEF s
  <2>5. State'.InputChannel = s.InputChannel /\ State'.Counter = s.Counter
    BY <2>1, <2>3, BecomesState
  <2>6. \A a \in Accounts : Told(a, p) \in Accounts /\ TrueOf(a, State, Latch, TRUE, ChannelMasks) =>
          TrueOf(Told(a, p), State', Latch', TRUE, ChannelMasks')
    BY <2>1, <2>4, <2>5 DEF TrueOf
  <2> QED BY <2>1, <2>6, BehindTakes DEF p
<1> QED BY <1>2, <1>4, <1>5, <1>6 DEF ChannelInput

\* An empty ring leaves nothing untold.
LEMMA NothingUntold ==
  ASSUME HostInv, IsEmpty(ringbuffer_in)
  PROVE  /\ Contents(ringbuffer_in) = <<>>
         /\ TrueOf(Now, State, Latch, ChannelIsSetUp, ChannelMasks)
<1>1. Contents(ringbuffer_in) = <<>>
  BY FullCount, ContentsType, EmptySeq DEF HostInv, RingInv, RTypeOK
<1>2. PICK a \in Accounts : Behind(a, State, Latch, ChannelIsSetUp, ChannelMasks, ringbuffer_in, Now)
  BY DEF HostInv
<1>3. Now \in Accounts
  BY NowIsAccount DEF HostInv
<1>4. a = Now
  BY <1>1, <1>2, <1>3, LeadsNowhere DEF Behind
<1> QED BY <1>1, <1>2, <1>4 DEF Behind

\* A fresh machine holds what a fresh account says.
LEMMA FreshIsTrue ==
  ASSUME NEW a, NEW s, NEW up, NEW masks, up => a.mask = masks,
         a.view = StartState.InputChannel, a.counts = 0,
         s.InputChannel = StartState.InputChannel, s.Counter = StartState.Counter
  PROVE  TrueOf(a, s, 31744, up, masks)
<1>1. \A ch \in Channels :
         StartState.InputChannel[ch] = Shown(ch, StartState.InputChannel[ch], 31744)
  <2>1. ASSUME NEW ch \in Channels, ch = \o33
        PROVE  StartState.InputChannel[ch] = Shown(ch, StartState.InputChannel[ch], 31744)
    <3>1. StartState.InputChannel[ch] = \o77777
      BY <2>1 DEF StartState
    <3>2. \o77777 = 31744 + (\o77777 % \o2000)
      OBVIOUS
    <3> QED BY <2>1, <3>1, <3>2 DEF Shown
  <2> QED BY <2>1 DEF Shown
<1>2. StartState.Counter[\o37] = 0
  BY HostAssumption DEF StartState
<1>3. Holds(0, 0)
  BY DEF Holds, IsZero, AGC_P0
<1> QED BY <1>1, <1>2, <1>3, TrustedChannels DEF TrueOf

LEMMA HostResetsStep ==
  ASSUME HostInv, RingInv', HostResets
  PROVE  HostInv'
<1>1. /\ view' = StartState.InputChannel /\ counts' = 0
      /\ UNCHANGED <<uses, mask, writes, ringbuffer_in, ChannelIsSetUp, ChannelMasks>>
      /\ IsEmpty(ringbuffer_in) /\ ~warned'
  BY DEF HostResets, cpu_reset, RestIn
<1>11. Latch' = 31744
  BY <1>1 DEF Latch
<1>2. State'.InputChannel = StartState.InputChannel /\ State'.Counter = StartState.Counter
  BY StartStateType DEF HostResets, cpu_reset, States
<1>3. Contents(ringbuffer_in) = <<>> /\ TrueOf(Now, State, Latch, ChannelIsSetUp, ChannelMasks)
  BY <1>1, NothingUntold
<1>4. /\ mask' \in [Channels -> Word] /\ view' \in [Channels -> Word]
      /\ counts' \in Int /\ writes' \in 0 .. Budget
      /\ -writes' <= counts' /\ counts' <= writes'
  <2>1. view' \in [Channels -> Word]
    BY <1>1, StartStateType DEF States
  <2>2. writes \in 0 .. Budget /\ mask \in [Channels -> Word]
    BY DEF HostInv
  <2>3. writes' \in 0 .. Budget /\ counts' \in Int /\ -writes' <= counts' /\ counts' <= writes'
    BY <1>1, <2>2
  <2> QED BY <1>1, <2>1, <2>2, <2>3
<1>5. Now' = [mask |-> mask', view |-> view', counts |-> counts']
  BY DEF Now
<1>6. TrueOf(Now', State', Latch', ChannelIsSetUp', ChannelMasks')
  <2>1. Now'.view = StartState.InputChannel /\ Now'.counts = 0 /\ Now'.mask = mask
    BY <1>1, <1>5
  <2>2. ChannelIsSetUp' => Now'.mask = ChannelMasks'
    BY <1>1, <1>3, <2>1 DEF TrueOf, Now
  <2>3. TrueOf(Now', State', 31744, ChannelIsSetUp', ChannelMasks')
    BY <1>2, <2>1, <2>2, FreshIsTrue
  <2> QED BY <1>11, <2>3
<1>7. Now' \in Accounts
  <2>1. counts' \in -Budget .. Budget
    BY <1>4, CountRange
  <2> QED BY <1>4, <1>5, <2>1 DEF Accounts
<1>8. Leads(Now', Contents(ringbuffer_in'), Now')
  BY <1>1, <1>3, <1>7, LeadsNowhere
<1>9. Behind(Now, State, Latch, ChannelIsSetUp, ChannelMasks, ringbuffer_in, Now)'
  BY <1>6, <1>8 DEF Behind
<1>10. uses' \in Families /\ (~ChannelIsSetUp' => Contents(ringbuffer_in') = <<>> /\ mask' = AllBits)
  BY <1>1, <1>3, Zenon DEF HostInv
<1> QED BY <1>4, <1>7, <1>9, <1>10, Zenon DEF HostInv

LEMMA HostInit ==
  ASSUME MCInit
  PROVE  HostInv
<1>1. RingInv
  BY RingInit DEF MCInit
<1>2. /\ ringbuffer_in = StartRing /\ ChannelIsSetUp = FALSE /\ State = StartState
      /\ uses \in Families /\ mask = AllBits /\ view = StartState.InputChannel
      /\ counts = 0 /\ writes = 0 /\ ~warned
  BY DEF MCInit, Init, AllBits
<1>3. Contents(ringbuffer_in) = <<>>
  <2>1. IsEmpty(ringbuffer_in)
    BY <1>2 DEF IsEmpty, StartRing
  <2> QED BY <1>1, <2>1, FullCount, ContentsType, EmptySeq DEF RingInv, RTypeOK
<1>4. /\ mask \in [Channels -> Word] /\ view \in [Channels -> Word]
      /\ counts \in Int /\ writes \in 0 .. Budget /\ -writes <= counts /\ counts <= writes
  <2>1. \o77777 \in Word
    BY HalfIs, SMT DEF Word
  <2>2. StartState.InputChannel \in [Channels -> Word]
    BY StartStateType DEF States
  <2> QED BY <1>2, <2>1, <2>2, HostAssumption DEF AllBits
<1>5. Now \in Accounts
  BY <1>4, NowIsAccount
<1>6. TrueOf(Now, State, Latch, ChannelIsSetUp, ChannelMasks)
  <2>1. Now.view = StartState.InputChannel /\ Now.counts = 0
    BY <1>2 DEF Now
  <2>2. TrueOf(Now, State, 31744, ChannelIsSetUp, ChannelMasks)
    BY <1>2, <2>1, FreshIsTrue
  <2> QED BY <1>2, <2>2, LatchIs
<1>7. Leads(Now, Contents(ringbuffer_in), Now)
  BY <1>3, <1>5, LeadsNowhere
<1>8. Behind(Now, State, Latch, ChannelIsSetUp, ChannelMasks, ringbuffer_in, Now)
  BY <1>6, <1>7 DEF Behind
<1> QED BY <1>1, <1>2, <1>3, <1>4, <1>5, <1>8, Zenon DEF HostInv

\* The steps of the host and of the engine are those of RingHost.
LEMMA HostNext ==
  ASSUME HostInv, MCNext
  PROVE  Next
<1>1. uses \subseteq Writes
  BY HostAssumption DEF HostInv
<1> QED BY <1>1 DEF MCNext, HostWrites, HostReads, HostResets, EngineRuns, Next

LEMMA HostStep ==
  ASSUME HostInv, MCNext
  PROVE  HostInv'
<1>1. RingInv'
  BY HostNext, RingNext DEF HostInv
<1>2. CASE HostWrites
  BY <1>1, <1>2, HostWritesStep
<1>3. CASE HostReads
  <2>1. /\ UNCHANGED <<uses, mask, view, counts, writes>>
        /\ UNCHANGED <<ringbuffer_in, ChannelIsSetUp, ChannelMasks, State, Latch>>
    BY <1>3, LatchKept DEF HostReads, accountVars, packet_read, RestIn
  <2>2. \A a \in Accounts : TrueOf(a, State, Latch, ChannelIsSetUp, ChannelMasks) =>
                            TrueOf(a, State', Latch', ChannelIsSetUp, ChannelMasks')
    BY <2>1
  <2> QED BY <1>1, <2>1, <2>2, BehindStays
<1>4. CASE HostResets
  BY <1>1, <1>4, HostResetsStep
<1>5. CASE EngineRuns
  <2>1. UNCHANGED <<uses, mask, view, counts, writes>> /\ cpu_step
    BY <1>5 DEF EngineRuns
  <2>2. CASE EngineCall \/ ChannelInput
    <3>1. engine \notin {"lamps", "program"}
      BY <2>2 DEF EngineCall, ChannelInput, InputEnds, InputMask, InputCount, InputValue
    <3>2. Latch' = Latch
      BY <1>5, <3>1, WarnedSteps, LatchKept
    <3> QED BY <1>1, <2>1, <2>2, <3>2, EngineCallStep, InputStep
  <2>3. CASE UpdateDSKY \/ Program \/ Restart
    BY <1>1, <1>5, <2>3, EngineWritesStep
  <2> QED BY <2>1, <2>2, <2>3 DEF cpu_step
<1> QED BY <1>2, <1>3, <1>4, <1>5 DEF MCNext

\* The host's own account is true of the engine whenever the ring is empty.
THEOREM HostsAccountIsTrue == MCSpec => []HostsAccountHolds
<1>1. MCInit => HostInv
  BY HostInit
<1>2. HostInv /\ [MCNext]_mcVars => HostInv'
  <2>1. ASSUME HostInv, UNCHANGED mcVars PROVE HostInv'
    <3>1. /\ UNCHANGED hostVars
          /\ UNCHANGED <<uses, mask, view, counts, writes>>
      BY <2>1 DEF mcVars, accountVars
    <3>2. UNCHANGED <<ringbuffer_in, ChannelIsSetUp, ChannelMasks, State, Latch>>
      BY <2>1, <3>1, LatchKept DEF hostVars, ringVars, mcVars, accountVars
    <3>3. RingInv'
      BY <2>1, <3>1 DEF HostInv, RingInv, RTypeOK, hostVars, ringVars
    <3> QED BY <2>1, <3>1, <3>2, <3>3, BehindStays
  <2> QED BY <2>1, HostStep
<1>3. HostInv => HostsAccountHolds
  <2> SUFFICES ASSUME HostInv, ChannelIsSetUp, IsEmpty(ringbuffer_in)
               PROVE  HostsAccountHolds
    BY DEF HostsAccountHolds
  <2>1. TrueOf(Now, State, Latch, ChannelIsSetUp, ChannelMasks)
    BY NothingUntold
  <2>2. /\ \A ch \in Trusted : State.InputChannel[ch] = Shown(ch, view[ch], Latch)
        /\ Holds(State.Counter[\o37], counts)
    BY <2>1 DEF TrueOf, Now
  <2>3. State.InputChannel[\o33] = (IF warned THEN \o56000 ELSE \o76000)
                                     + (view[\o33] % \o2000)
    BY <2>2 DEF Trusted, Shown, Latch
  <2>4. \A ch \in Trusted \ {\o33} : State.InputChannel[ch] = view[ch]
    BY <2>2 DEF Shown
  <2>5. \A ch \in {w[1] : w \in {w \in Writes : IsValue(w[1])}} \ {\o33} :
           State.InputChannel[ch] = view[ch]
    BY <2>4 DEF Trusted
  <2> QED BY <2>2, <2>3, <2>5 DEF HostsAccountHolds, Holds
<1> QED BY <1>1, <1>2, <1>3, PTL DEF MCSpec
=============================================================================
