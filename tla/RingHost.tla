------------------------------ MODULE RingHost ------------------------------
(***************************************************************************)
(* The engine inside a host that calls it and talks to it through two      *)
(* rings of packets (src/yaAGC/wasm.c, src/yaAGC/ringbuffer_api.c).  All   *)
(* of it is one thread: the host's calls find the engine between two       *)
(* calls of agc_engine(), and each round of the loop of ChannelInput() is  *)
(* a step.                                                                 *)
(***************************************************************************)
EXTENDS ChannelIO, PacketRing

CONSTANTS Writes,      \* what the host writes: <<channel, data>>
          Outputs,     \* what the program writes: <<channel, value>>
          Lamps,       \* the states of the lamps
          Alarms       \* the bits of channel 77 that an alarm sets

\* The channels that a restart clears, in its order.
RestartChannels == <<5, 6, \o10, \o11, \o12, \o13, \o14, \o34, \o35>>
ClearedChannels == {RestartChannels[k] : k \in 1 .. Len(RestartChannels)}

ASSUME WritesAssumption ==
  /\ Writes \subseteq (0 .. 511) \X Word /\ Outputs \subseteq Channels \X Word
  /\ Lamps \subseteq Word /\ Alarms \subseteq Word
  /\ ClearedChannels \cup {\o77} \subseteq Channels
  /\ \A w \in Writes : IF w[1] \in 128 .. 255 THEN w[1] % 128 \in Counters
                       ELSE w[1] % 256 \in Channels

\* The packets that the host may put into its ring.
InPackets == {FormIoPacket(w[1], w[2]) : w \in Writes}

VARIABLES
  ringbuffer_in, ringbuffer_out,
  inAnswer, outAnswer,     \* what the last operation on each ring returned
  ChannelIsSetUp, ChannelMasks,
  State,
  engine,                  \* where the engine is in a call, "host" outside
  cleared                  \* how many channels the restart has cleared

ringVars == <<ringbuffer_in, ringbuffer_out, inAnswer, outAnswer>>
hostVars == <<ringVars, ChannelIsSetUp, ChannelMasks, State, engine,
              cleared>>

RTypeOK ==
  /\ ringbuffer_in \in Rings /\ ringbuffer_out \in Rings
  /\ ChannelIsSetUp \in BOOLEAN
  /\ ChannelMasks \in [Channels -> Word]
  /\ State \in States
  /\ engine \in {"host", "lamps", "input", "program", "restart"}
  /\ cleared \in 0 .. Len(RestartChannels)

Init ==
  /\ ringbuffer_in = StartRing /\ ringbuffer_out = StartRing
  /\ inAnswer = <<>> /\ outAnswer = <<>>
  /\ ChannelIsSetUp = FALSE
  /\ ChannelMasks = [ch \in Channels |-> 0]
  /\ State = StartState
  /\ engine = "host"
  /\ cleared = 0

-----------------------------------------------------------------------------
(* Operations on a ring, with their answers.                               *)

PutIn(packet) == /\ ringbuffer_in' = Put(ringbuffer_in, packet)
                 /\ inAnswer' = <<"put", packet, ~IsFull(ringbuffer_in)>>

GetIn == /\ ringbuffer_in' = Got(ringbuffer_in)
         /\ inAnswer' = IF IsEmpty(ringbuffer_in) THEN <<"nothing">>
                        ELSE <<"get", Oldest(ringbuffer_in), TRUE>>

GetOut == /\ ringbuffer_out' = Got(ringbuffer_out)
          /\ outAnswer' = IF IsEmpty(ringbuffer_out) THEN <<"nothing">>
                          ELSE <<"get", Oldest(ringbuffer_out), TRUE>>

RestIn == inAnswer' = <<>> /\ UNCHANGED ringbuffer_in
RestOut == outAnswer' = <<>> /\ UNCHANGED ringbuffer_out

\* The new state is s, what it has to send goes into the output ring.
Becomes(s) ==
  /\ State' = [s EXCEPT !.sent = <<>>]
  /\ IF s.sent = <<>> THEN RestOut
     ELSE LET packet == FormIoPacket(s.sent[1][1], s.sent[1][2])
          IN  /\ ringbuffer_out' = Put(ringbuffer_out, packet)
              /\ outAnswer' = <<"put", packet, ~IsFull(ringbuffer_out)>>

-----------------------------------------------------------------------------
(* The host.                                                               *)

packet_write(channel, data) ==
  /\ engine = "host"
  /\ PutIn(FormIoPacket(channel, data))
  /\ RestOut
  /\ UNCHANGED <<ChannelIsSetUp, ChannelMasks, State, engine, cleared>>

packet_read ==
  /\ engine = "host"
  /\ GetOut /\ RestIn
  /\ UNCHANGED <<ChannelIsSetUp, ChannelMasks, State, engine, cleared>>

\* The machine starts afresh; the rings, the masks and where the hand
\* controller stands are not the machine's.
cpu_reset ==
  /\ engine = "host"
  /\ State' = [StartState EXCEPT !.LastRhc = State.LastRhc]
  /\ RestIn /\ RestOut
  /\ UNCHANGED <<ChannelIsSetUp, ChannelMasks, engine, cleared>>

\* Slip: the rings are set up at every call.
ResetsRings == TRUE
SetsUp == ~ChannelIsSetUp

\* agc_engine is called; the first call of its interface sets the rings up.
EngineCall ==
  /\ engine = "host"
  /\ IF SetsUp
     THEN /\ ChannelIsSetUp' = TRUE
          /\ ringbuffer_in' = Emptied(ringbuffer_in)
          /\ ringbuffer_out' = Emptied(ringbuffer_out)
          /\ inAnswer' = <<"clear">> /\ outAnswer' = <<"clear">>
          /\ ChannelMasks' = [ch \in Channels |-> \o77777]
     ELSE RestIn /\ RestOut /\ UNCHANGED <<ChannelIsSetUp, ChannelMasks>>
  /\ engine' = "lamps"
  /\ UNCHANGED <<State, cleared>>

-----------------------------------------------------------------------------
(* The engine.                                                             *)

\* UpdateDSKY shows a warning, and may have a new value of channel 163.
UpdateDSKY ==
  /\ engine = "lamps" /\ engine' = "input"
  /\ \/ Becomes(WarningShown(State))
     \/ \E lamps \in {l \in Lamps : IsWarning(l) = State.AgcWarning} :
           Becomes(ChannelOutput(WarningShown(State), \o163, lamps))
  /\ RestIn
  /\ UNCHANGED <<ChannelIsSetUp, ChannelMasks, cleared>>

\* The loop of ChannelInput ends with the ring.
InputEnds ==
  /\ engine = "input" /\ IsEmpty(ringbuffer_in)
  /\ engine' = "program"
  /\ GetIn /\ RestOut
  /\ UNCHANGED <<ChannelIsSetUp, ChannelMasks, State, cleared>>

\* A mask, which is for the packets that follow.
InputMask ==
  /\ engine = "input" /\ ~IsEmpty(ringbuffer_in)
  /\ LET packet == ParseIoPacket(Oldest(ringbuffer_in))
     IN  /\ packet.uBit
         /\ ChannelMasks' = [ChannelMasks EXCEPT ![packet.Channel] = packet.Value]
  /\ GetIn /\ RestOut
  /\ UNCHANGED <<ChannelIsSetUp, State, engine, cleared>>

\* A count is the whole call.
InputCount ==
  /\ engine = "input" /\ ~IsEmpty(ringbuffer_in)
  /\ LET packet == ParseIoPacket(Oldest(ringbuffer_in))
     IN  /\ ~packet.uBit /\ packet.Channel >= 128
         /\ Becomes(UnprogrammedIncrement(State, packet.Channel % 128, packet.Value))
  /\ engine' = "host"
  /\ GetIn
  /\ UNCHANGED <<ChannelIsSetUp, ChannelMasks, cleared>>

InputValue ==
  /\ engine = "input" /\ ~IsEmpty(ringbuffer_in)
  /\ LET packet == ParseIoPacket(Oldest(ringbuffer_in))
     IN  /\ ~packet.uBit /\ packet.Channel < 128
         /\ Becomes(ChannelWrite(State, ChannelMasks[packet.Channel],
                                 packet.Channel, packet.Value))
  /\ GetIn
  /\ UNCHANGED <<ChannelIsSetUp, ChannelMasks, engine, cleared>>

\* The scaler may move the filter of the warning over its threshold or back.
Scaled(on) == [State EXCEPT !.AgcWarning = on]

\* The rest of the call without an alarm: nothing of this, or an output, or
\* the interrupt.
Program ==
  /\ engine = "program" /\ engine' = "host"
  /\ \E on \in BOOLEAN :
       \/ Becomes(Scaled(on))
       \/ \E o \in Outputs : Becomes(CpuWriteIO(Scaled(on), o[1], o[2]))
       \/ \E r \in State.InterruptRequests :
             Becomes([Scaled(on) EXCEPT !.InterruptRequests = @ \ {r}])
  /\ RestIn
  /\ UNCHANGED <<ChannelIsSetUp, ChannelMasks, cleared>>

\* With an alarm: GOJAM, which is the end of the call.
RestartBegins ==
  /\ engine = "program" /\ engine' = "restart"
  /\ \E on, standby \in BOOLEAN : Becomes(Restarted(Scaled(on), standby))
  /\ RestIn
  /\ UNCHANGED <<ChannelIsSetUp, ChannelMasks, cleared>>

RestartClears ==
  /\ engine = "restart" /\ cleared < Len(RestartChannels)
  /\ Becomes(CpuWriteIO(State, RestartChannels[cleared + 1], 0))
  /\ cleared' = cleared + 1
  /\ RestIn
  /\ UNCHANGED <<ChannelIsSetUp, ChannelMasks, engine>>

\* The alarm is added to those in channel 77, which is sent.
RestartEnds ==
  /\ engine = "restart" /\ cleared = Len(RestartChannels)
  /\ \E alarm \in Alarms :
       LET alarms == Merged(alarm, alarm, State.InputChannel[\o77])
       IN  Becomes(ChannelOutput([State EXCEPT !.InputChannel[\o77] = alarms], \o77, alarms))
  /\ engine' = "host" /\ cleared' = 0
  /\ RestIn
  /\ UNCHANGED <<ChannelIsSetUp, ChannelMasks>>

ChannelInput == InputEnds \/ InputMask \/ InputCount \/ InputValue
Restart == RestartBegins \/ RestartClears \/ RestartEnds
cpu_step == EngineCall \/ UpdateDSKY \/ ChannelInput \/ Program \/ Restart

Next == \/ \E w \in Writes : packet_write(w[1], w[2])
        \/ packet_read
        \/ cpu_reset
        \/ cpu_step

Spec == Init /\ [][Next]_hostVars

-----------------------------------------------------------------------------
(* The rings are queues.                                                   *)

InQueue == INSTANCE BoundedQueue WITH
             Elements <- Packet, Capacity <- RINGBUFFER_ELEMENTS - 1,
             items <- Contents(ringbuffer_in), answer <- inAnswer
OutQueue == INSTANCE BoundedQueue WITH
              Elements <- Packet, Capacity <- RINGBUFFER_ELEMENTS - 1,
              items <- Contents(ringbuffer_out), answer <- outAnswer

\* Each ring is a queue of one element less than it has slots: no packet
\* overtakes another, none is lost or doubled, and one that does not fit is
\* refused, which packet_write reports and the engine does not look at.
InputsAreQueued == InQueue!Spec
OutputsAreQueued == OutQueue!Spec
RingsAreQueues == InputsAreQueued /\ OutputsAreQueued
=============================================================================
