----------------------------- MODULE PulseQueue -----------------------------
(***************************************************************************)
(* What the CDU counters promise the IMU: the pulses that are accepted are *)
(* applied to the counter one by one, each in its own direction and in the *)
(* order of arrival; a pulse is dropped only when too many changes of      *)
(* direction or rate are already waiting.  CduFifo implements this.        *)
(***************************************************************************)
EXTENDS AgcWord, Sequences, FiniteSets

CONSTANTS
  Cdus,        \* the counters
  IncTypes,    \* the types of pulse
  MostRuns     \* the runs of equal pulses that a queue has room for

VARIABLES
  queue,     \* queue[c]: the pulses of counter c that wait
  counter,   \* counter[c]: the counter's cell
  input      \* the pulse that has just come, if one has

qvars == <<queue, counter, input>>

Init == /\ queue = [c \in Cdus |-> <<>>]
        /\ counter = [c \in Cdus |-> AGC_P0]
        /\ input = <<>>

\* The runs of equal pulses in a queue.
Runs(q) == Cardinality({ i \in 1 .. Len(q) : i = 1 \/ q[i] # q[i - 1] })

Arrive(c, type) == /\ queue' = [queue EXCEPT ![c] = Append(@, type)]
                   /\ input' = <<c, type>>
                   /\ UNCHANGED counter

Drop(c, type) == /\ Runs(queue[c]) = MostRuns
                 /\ queue[c][Len(queue[c])] # type
                 /\ input' = <<c, type>>
                 /\ UNCHANGED <<queue, counter>>

Apply(c) == /\ queue[c] # <<>>
            /\ input' = <<>>
            /\ queue' = [queue EXCEPT ![c] = Tail(@)]
            /\ counter' = [counter EXCEPT ![c] =
                 IF Head(queue[c]).down THEN CounterMCDU(@) ELSE CounterPCDU(@)]

Wait == input' = <<>> /\ UNCHANGED <<queue, counter>>

Next == \/ Wait
        \/ \E c \in Cdus : \/ Apply(c)
                           \/ \E type \in IncTypes : Arrive(c, type) \/ Drop(c, type)

Spec == Init /\ [][Next]_qvars
=============================================================================
