----------------------------- MODULE ChannelIO -----------------------------
(***************************************************************************)
(* The engine's side of the peripherals' interface: what a packet does to  *)
(* the input channels, the counters and the interrupt requests, and what   *)
(* an output does on its way out (src/yaAGC/agc_engine.c, and the parts of *)
(* SocketAPI.c and ringbuffer_api.c that are the same in both).            *)
(*                                                                         *)
(* State stands for the code's State, reduced to what packets reach.       *)
(* Channels 1 and 2, which are L and Q, are single cells here as they are  *)
(* to the readers and writers of channels; sent holds what the operation   *)
(* broadcasts, for the interface to send.                                  *)
(***************************************************************************)
EXTENDS AgcWord, IoPacket, Sequences

CONSTANTS Channels,    \* the channels and fictitious channels in use
          Counters,    \* the counters in use, those that packets are stored in included
          Cdus,        \* the counters with a FIFO
          CmOrLm       \* TRUE in a command module

Rhc == {\o166, \o167, \o170}   \* pitch, yaw and roll of the hand controller
RhcCounter(axis) == axis - \o166 + \o42
INLINK == \o45
Keyrupt == 5
Uprupt == 7

ASSUME IoAssumption ==
  /\ HALF = \o40000
  /\ Channels \subseteq 0 .. 127 /\ \o33 \in Channels
  /\ Counters \subseteq 1 .. 127 /\ Cdus \subseteq Counters
  /\ {RhcCounter(axis) : axis \in Rhc} \cup {INLINK} \subseteq Counters
  /\ CmOrLm \in BOOLEAN

States == [ InputChannel : [Channels -> Word],
            OutputChannel10 : [0 .. 15 -> Word],
            RestartLight : BOOLEAN,
            AgcWarning : BOOLEAN,     \* WarningFilter is over its threshold
            InterruptRequests : SUBSET {Keyrupt, Uprupt},
            LastRhc : [Rhc -> Word],
            Counter : [Counters -> Word],
            pushed : Seq(Cdus \X {1, 3, \o21, \o23}),
            sent : Seq((0 .. 255) \X Word) ]

\* At the first cycle, which lights the RESTART light.
StartState == [ InputChannel |-> [ch \in Channels |->
                                   CASE ch = \o30 -> \o37777
                                     [] ch \in {\o31, \o32, \o33} -> \o77777
                                     [] OTHER -> 0],
                OutputChannel10 |-> [row \in 0 .. 15 |-> 0],
                RestartLight |-> TRUE,
                AgcWarning |-> FALSE,
                InterruptRequests |-> {},
                LastRhc |-> [axis \in Rhc |-> 0],
                Counter |-> [n \in Counters |-> 0],
                pushed |-> <<>>,
                sent |-> <<>> ]

-----------------------------------------------------------------------------
(* Masks.                                                                  *)

\* The bit of a weight that is a power of two.
Bit(w, weight) == (w \div weight) % 2

Chosen(mask, new, old, weight) ==
  (IF Bit(mask, weight) = 1 THEN Bit(new, weight) ELSE Bit(old, weight)) * weight
ChosenDigit(mask, new, old, weight) ==
  Chosen(mask, new, old, weight) + Chosen(mask, new, old, 2 * weight)
    + Chosen(mask, new, old, 4 * weight)

\* Slip: the bits that the mask does not name are cleared.
MergedWithZero(mask, new, old) ==
  ChosenDigit(mask, new, 0, 1) + ChosenDigit(mask, new, 0, \o10)
    + ChosenDigit(mask, new, 0, \o100) + ChosenDigit(mask, new, 0, \o1000)
    + ChosenDigit(mask, new, 0, \o10000)

\* The bits of new that the mask names and the others of old, by octal digits.
Merged(mask, new, old) ==
  ChosenDigit(mask, new, old, 1) + ChosenDigit(mask, new, old, \o10)
    + ChosenDigit(mask, new, old, \o100) + ChosenDigit(mask, new, old, \o1000)
    + ChosenDigit(mask, new, old, \o10000)

\* A word with one bit set, or cleared.
WithBit(w, weight) == w + (1 - Bit(w, weight)) * weight
WithoutBit(w, weight) == w - Bit(w, weight) * weight

-----------------------------------------------------------------------------
(* Channels.                                                               *)

DSKY_AGC_WARN == 1     \* of channel 163
WARNING == \o20000     \* of channel 33, where 0 is the warning
UPLINK_TOO_FAST == \o2000

\* Channel 10 is latched by rows; RSET puts the RESTART light out; bits 11-15
\* of channel 33 belong to the computer.
WriteIO(State, ch, v) ==
  [State EXCEPT !.InputChannel[ch] = IF ch = \o33 THEN Merged(\o1777, v, @) ELSE v,
                !.OutputChannel10[v \div 2048] = IF ch = \o10 THEN v ELSE @,
                !.RestartLight = IF ch \in {\o15, \o16} /\ v = \o22 THEN FALSE ELSE @]

\* Channel 7 is the computer's own; channel 13 may ask for the hand controller.
ChannelOutput(State, ch, v) ==
  IF ch = 7 THEN [State EXCEPT !.InputChannel[7] = Merged(\o160, v, 0)]
  ELSE LET asked == ch = \o13 /\ Bit(v, \o200) = 1 /\ Bit(v, \o400) = 1 /\ ~CmOrLm
       IN  [State EXCEPT !.Counter = [n \in Counters |->
                           IF asked /\ \E axis \in Rhc : n = RhcCounter(axis)
                           THEN State.LastRhc[n - \o42 + \o166] ELSE @[n]],
                         !.sent = Append(@, <<ch, v>>)]

\* Channel 33 when the program writes to it, whatever it writes: the computer's
\* bits are set, but not that of a warning that is still on.
Relatched(State) ==
  LET all == \o76000 + (State.InputChannel[\o33] % \o2000)
  IN  IF State.AgcWarning THEN WithoutBit(all, WARNING) ELSE all

\* What the program writes to channel ch.  What it leaves of channel 77, the
\* HANDRUPT traps and the downlink count are AgcScaler's.
CpuWriteIO(State, ch, v) ==
  LET w == CASE ch = \o13 -> Merged(\o43777, v, 0)
             [] ch = \o33 -> Relatched(State)
             [] OTHER -> v
      s == IF ch = \o33 THEN [State EXCEPT !.InputChannel[ch] = w]
                        ELSE WriteIO(State, ch, w)
  IN  ChannelOutput([s EXCEPT !.RestartLight = IF ch = \o11 /\ Bit(v, \o1000) = 1
                                               THEN FALSE ELSE @], ch, w)

\* UpdateDSKY shows a warning in channel 33 as well as with a lamp.
WarningShown(State) ==
  IF State.AgcWarning THEN [State EXCEPT !.InputChannel[\o33] = WithoutBit(@, WARNING)]
  ELSE State
IsWarning(lamps) == Bit(lamps, DSKY_AGC_WARN) = 1

\* What a restart does beside writing to channels.
Restarted(State, standby) ==
  [State EXCEPT !.InterruptRequests = {},
                !.RestartLight = @ \/ ~standby,
                !.InputChannel[\o33] = WithBit(@, UPLINK_TOO_FAST)]

-----------------------------------------------------------------------------
(* Packets.                                                                *)

DincOutput(w) == IF DincReportsZero(w) THEN \o17 ELSE IF IsNegative(w) THEN \o16 ELSE \o15

UnprogrammedIncrement(State, n, type) ==
  CASE type = 0 -> [State EXCEPT !.Counter[n] = CounterPINC(@)]
    [] type \in {1, 3, \o21, \o23} /\ n \in Cdus ->
         [State EXCEPT !.pushed = Append(@, <<n, type>>)]
    [] type \in {1, \o21} /\ n \notin Cdus -> [State EXCEPT !.Counter[n] = CounterPCDU(@)]
    [] type = 2 -> [State EXCEPT !.Counter[n] = CounterMINC(@)]
    [] type \in {3, \o23} /\ n \notin Cdus -> [State EXCEPT !.Counter[n] = CounterMCDU(@)]
    [] type = 4 ->
         [ChannelOutput(State, 128 + n, DincOutput(State.Counter[n]))
            EXCEPT !.Counter[n] = CounterDINC(@)]
    [] type = 5 -> [State EXCEPT !.Counter[n] = CounterSHINC(@)]
    [] type = 6 -> [State EXCEPT !.Counter[n] = CounterSHANC(@)]
    [] OTHER -> State

\* Slip: a key does not ask for its interrupt.
KeyWithoutRequest(State, mask, ch, value) ==
  LET v == Merged(mask, value, State.InputChannel[ch]) IN WriteIO(State, ch, v)

\* A value for an input channel, of which only the bits of the mask count.
ChannelWrite(State, mask, ch, value) ==
  LET v == Merged(mask, value, State.InputChannel[ch])
      s == WriteIO(State, ch, v)
  IN  CASE ch = \o15 -> [s EXCEPT !.InterruptRequests = @ \cup {Keyrupt}]
        [] ch = \o173 -> [s EXCEPT !.Counter[INLINK] = v, !.InterruptRequests = @ \cup {Uprupt}]
        [] ch \in Rhc -> ChannelOutput([s EXCEPT !.LastRhc[ch] = v], ch, v)
        [] OTHER -> s
=============================================================================
