----------------------------- MODULE PacketRing -----------------------------
(***************************************************************************)
(* The ring buffer of src/yaAGC/ringbuffer.c: slots and two indices.  The  *)
(* code counts bytes, RINGBUFFER_ELEMENT_SIZE of them to an element; here  *)
(* an index counts elements.                                               *)
(***************************************************************************)
EXTENDS IoPacket, Sequences

CONSTANT RINGBUFFER_ELEMENTS     \* the slots; a power of two in the code

ASSUME RingAssumption == RINGBUFFER_ELEMENTS \in Nat \ {0}

Slot == 0 .. RINGBUFFER_ELEMENTS - 1
Rings == [data : [Slot -> Packet], tail : Slot, head : Slot]

\* The memory of a ring, and of the part of it that holds nothing yet.
NoPacket == <<0, 0, 0, 0>>
StartRing == [data |-> [i \in Slot |-> NoPacket], tail |-> 0, head |-> 0]

\* Slip: the indices run on past the last slot.
AfterUnmasked(i) == i + 1
After(i) == IF i + 1 = RINGBUFFER_ELEMENTS THEN 0 ELSE i + 1

\* What a ring holds, the oldest first.
Count(ring) == IF ring.head >= ring.tail THEN ring.head - ring.tail
               ELSE (ring.head - ring.tail) + RINGBUFFER_ELEMENTS
SlotOf(ring, i) == IF ring.tail + (i - 1) < RINGBUFFER_ELEMENTS THEN ring.tail + (i - 1)
                   ELSE (ring.tail + (i - 1)) - RINGBUFFER_ELEMENTS
Contents(ring) == [i \in 1 .. Count(ring) |-> ring.data[SlotOf(ring, i)]]

Emptied(ring) == [ring EXCEPT !.tail = 0, !.head = 0]

\* Slip: the ring is full only when every slot is used.
NeverFull(ring) == FALSE
IsFull(ring) == After(ring.head) = ring.tail
IsEmpty(ring) == ring.tail = ring.head

\* The ring after ringbuffer_put, which does nothing when it is full.
Put(ring, packet) ==
  IF IsFull(ring) THEN ring
  ELSE [ring EXCEPT !.data[ring.head] = packet, !.head = After(ring.head)]

Oldest(ring) == ring.data[ring.tail]

\* The ring after ringbuffer_get, which does nothing when it is empty.
Got(ring) == IF IsEmpty(ring) THEN ring ELSE [ring EXCEPT !.tail = After(ring.tail)]
=============================================================================
