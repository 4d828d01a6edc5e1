------------------------------ MODULE CduFifo ------------------------------
(***************************************************************************)
(* The FIFOs that pace the PCDU and MCDU pulses of the CDU counters        *)
(* (PushCduFifo and ServiceCduFifo in src/yaAGC/agc_engine.c).             *)
(*                                                                         *)
(* Every action is one machine cycle.  The code keeps the cycle number of  *)
(* the next update, NextUpdate; here due is how far away that is, so it    *)
(* falls by one every cycle and is negative when the update is late.  An   *)
(* empty FIFO's NextUpdate is never read: its due is kept at 0.            *)
(***************************************************************************)
EXTENDS AgcWord, FiniteSets, SequencesExt

CONSTANTS
  NUM_CDU_FIFOS,            \* 3 in the code
  MAX_CDU_FIFO_ENTRIES,     \* 128 in the code
  SlowInterval,             \* cycles between slow pulses (213 in the code)
  FastInterval              \* and fast ones (13)

ASSUME FifoAssumption ==
  /\ NUM_CDU_FIFOS \in Nat \ {0}
  /\ MAX_CDU_FIFO_ENTRIES \in Nat \ {0}
  /\ SlowInterval \in Nat \ {0} /\ FastInterval \in Nat \ {0}

Cdus == 0 .. NUM_CDU_FIFOS - 1
Slots == 0 .. MAX_CDU_FIFO_ENTRIES - 1

\* The upper bits of an entry: the increment type's direction and rate.
IncTypes == [down : BOOLEAN, fast : BOOLEAN]
NoType == [down |-> FALSE, fast |-> FALSE]

VARIABLES
  Ptr,            \* Ptr[c]: the entry being worked on
  Size,           \* Size[c]: the entries in use
  Counts,         \* Counts[c][slot]: the entry's type, and its pulses left
  IntervalType,   \* IntervalType[c]: 0, 1, 2, 0, 1, 2, ...
  due,            \* due[c]: the cycles until the next update may come
  counter,        \* counter[c]: the counter's cell
  CduChecker,     \* the FIFO to be looked at next
  input           \* the pulse that this cycle has brought, if it has

fifoVars == <<Ptr, Size, Counts, IntervalType>>
vars == <<fifoVars, due, counter, CduChecker, input>>

TypeOK ==
  /\ Ptr \in [Cdus -> Slots]
  /\ Size \in [Cdus -> 0 .. MAX_CDU_FIFO_ENTRIES]
  /\ Counts \in [Cdus -> [Slots -> [type : IncTypes, left : Nat]]]
  /\ IntervalType \in [Cdus -> 0 .. 2]
  /\ due \in [Cdus -> Int]
  /\ counter \in [Cdus -> Word]
  /\ CduChecker \in Cdus
  /\ input \in {<<>>} \cup (Cdus \X IncTypes)

Init == /\ Ptr = [c \in Cdus |-> 0]
        /\ Size = [c \in Cdus |-> 0]
        /\ Counts = [c \in Cdus |-> [s \in Slots |-> [type |-> NoType, left |-> 0]]]
        /\ IntervalType = [c \in Cdus |-> 0]
        /\ due = [c \in Cdus |-> 0]
        /\ counter = [c \in Cdus |-> AGC_P0]
        /\ CduChecker = 0
        /\ input = <<>>

-----------------------------------------------------------------------------
\* The slot n places after the entry being worked on.
Slot(c, n) == IF Ptr[c] + n >= MAX_CDU_FIFO_ENTRIES
              THEN Ptr[c] + n - MAX_CDU_FIFO_ENTRIES ELSE Ptr[c] + n
LastSlot(c) == Slot(c, Size[c] - 1)
Current(c) == Counts[c][Ptr[c]]

Interval(type) == IF type.fast THEN FastInterval ELSE SlowInterval

\* A cycle passes for every FIFO that is waiting.
Passed(c) == IF Size[c] = 0 THEN 0 ELSE due[c] - 1

\* Slip: pulses are joined with the last entry though only their rate agrees.
JoinsByRate(c, type) == Counts[c][LastSlot(c)].type.fast = type.fast
Joins(c, type) == Counts[c][LastSlot(c)].type = type

\* Slip: one entry too many.
FullLate(c, type) == ~Joins(c, type) /\ Size[c] > MAX_CDU_FIFO_ENTRIES
Full(c, type) == ~Joins(c, type) /\ Size[c] >= MAX_CDU_FIFO_ENTRIES

PushCduFifo(c, type) ==
  IF Size[c] = 0
  THEN /\ Ptr' = [Ptr EXCEPT ![c] = 0]
       /\ Size' = [Size EXCEPT ![c] = 1]
       /\ Counts' = [Counts EXCEPT ![c][0] = [type |-> type, left |-> 1]]
       /\ IntervalType' = [IntervalType EXCEPT ![c] = 1]
       /\ due' = [d \in Cdus |-> IF d = c THEN Interval(type) ELSE Passed(d)]
  ELSE /\ due' = [d \in Cdus |-> Passed(d)]
       /\ \/ /\ Joins(c, type)
             /\ Counts' = [Counts EXCEPT ![c][LastSlot(c)].left = @ + 1]
             /\ UNCHANGED <<Ptr, Size, IntervalType>>
          \/ /\ ~Joins(c, type) /\ ~Full(c, type)
             /\ Size' = [Size EXCEPT ![c] = @ + 1]
             /\ Counts' = [Counts EXCEPT ![c][Slot(c, Size[c])] =
                             [type |-> type, left |-> 1]]
             /\ UNCHANGED <<Ptr, IntervalType>>
          \/ /\ Full(c, type)
             /\ UNCHANGED fifoVars

\* A cycle in which ChannelInput brings a pulse: the call ends with that.
Push(c, type) == /\ PushCduFifo(c, type)
                 /\ input' = <<c, type>>
                 /\ UNCHANGED <<counter, CduChecker>>

\* Another cycle that does not get as far as the FIFOs: an input count for
\* something else, an owed cycle, or one of a long instruction.
Stolen == /\ due' = [c \in Cdus |-> Passed(c)]
          /\ input' = <<>>
          /\ UNCHANGED <<fifoVars, counter, CduChecker>>

\* Slip: an update that is late is never made.
ReadyOnTime(c) == Size[c] > 0 /\ Passed(c) = 0
Ready(c) == Size[c] > 0 /\ Passed(c) <= 0

\* Slip: every third interval is a cycle shorter.
ShortThird(c) == Passed(c) + Interval(Current(c).type)
                 - (IF IntervalType[c] = 2 THEN 1 ELSE 0)
\* The next update comes an interval after this one was due; every third
\* interval is a cycle longer.
NextDue(c) == Passed(c) + Interval(Current(c).type)
              + (IF IntervalType[c] = 2 THEN 1 ELSE 0)

\* The pulses the entry has left after this one.
CountAfter(c) == Current(c).left - 1
Exhausted(c) == CountAfter(c) = 0

\* One FIFO is looked at: its next pulse is applied if its time has come.
ServiceCduFifo ==
  LET c == CduChecker
  IN  /\ CduChecker' = (c + 1) % NUM_CDU_FIFOS
      /\ input' = <<>>
      /\ IF Ready(c)
         THEN /\ counter' = [counter EXCEPT ![c] =
                   IF Current(c).type.down THEN CounterMCDU(@) ELSE CounterPCDU(@)]
              /\ IF Exhausted(c)
                 THEN /\ Size' = [Size EXCEPT ![c] = @ - 1]
                      /\ Ptr' = [Ptr EXCEPT ![c] = Slot(c, 1)]
                      /\ UNCHANGED Counts
                 ELSE /\ Counts' = [Counts EXCEPT ![c][Ptr[c]].left = CountAfter(c)]
                      /\ UNCHANGED <<Size, Ptr>>
              /\ IntervalType' = [IntervalType EXCEPT ![c] = (@ + 1) % 3]
              /\ due' = [d \in Cdus |-> IF d # c THEN Passed(d)
                                        ELSE IF Size'[c] = 0 THEN 0 ELSE NextDue(c)]
         ELSE /\ due' = [d \in Cdus |-> Passed(d)]
              /\ UNCHANGED <<fifoVars, counter>>

Next == \/ \E c \in Cdus, type \in IncTypes : Push(c, type)
        \/ Stolen
        \/ ServiceCduFifo

Spec == Init /\ [][Next]_vars

-----------------------------------------------------------------------------
\* The pulses that wait, in order.
Pending(c) == FlattenSeq([n \in 1 .. Size[c] |->
                [i \in 1 .. Counts[c][Slot(c, n - 1)].left
                   |-> Counts[c][Slot(c, n - 1)].type]])

Queue == INSTANCE PulseQueue WITH
  queue <- [c \in Cdus |-> Pending(c)], MostRuns <- MAX_CDU_FIFO_ENTRIES

\* No accepted pulse is lost, repeated, turned round or overtaken on its way
\* through the ring of entries, and none is dropped while there is room.
QueueSpec == Queue!Spec
=============================================================================
