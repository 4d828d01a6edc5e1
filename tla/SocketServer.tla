---------------------------- MODULE SocketServer ----------------------------
(***************************************************************************)
(* The engine as a server of sockets (src/yaAGC/SocketAPI.c): a port for   *)
(* each client, polled by the engine between its instructions, with what   *)
(* TCP may do to the bytes: they arrive late and in pieces, a send that    *)
(* would block is dropped, a peer that has gone is noticed only by a send  *)
(* that fails.                                                             *)
(*                                                                         *)
(* A call of agc_engine is "routine" (new and missing clients), "lamps",   *)
(* "poll" (a step for each byte and each packet) and "program".  The       *)
(* clients are other processes: they act between any two steps.            *)
(***************************************************************************)
EXTENDS ChannelIO, SequencesExt

CONSTANTS MAX_CLIENTS,            \* the ports
          SocketInterlaceReload,  \* calls without a poll between two with one
          RoutinePeriod,          \* calls from one ChannelRoutine to the next
          TimeoutPeriod,          \* of which every so many look for the missing
          Outputs,                \* what the program writes: <<channel, value>>
          Lamps                   \* the states of the lamps

ASSUME ServerAssumption ==
  /\ MAX_CLIENTS \in Nat \ {0} /\ SocketInterlaceReload \in Nat
  /\ RoutinePeriod \in Nat \ {0} /\ TimeoutPeriod \in Nat \ {0}
  /\ Outputs \subseteq Channels \X Word
  /\ 0 \in Lamps /\ Lamps \subseteq Word /\ {\o10, \o11, \o163} \subseteq Channels

Ports == 0 .. MAX_CLIENTS - 1

VARIABLES
  Clients,               \* what the engine keeps of each client
  SocketInterlace, ChannelRoutineCount, TimeoutCount,
  State, DskyChannel163, \* the machine, and the lamps of its DSKYs
  engine, polled,        \* where the engine is in a call; the next client to poll
  knocks,                \* a client waits to be accepted
  peer,                  \* the other end of the connection
  inbox,                 \* the bytes that have arrived and are not received
  view                   \* what the client will show when it has read everything

engineVars == <<Clients, SocketInterlace, ChannelRoutineCount, TimeoutCount,
                State, DskyChannel163, engine, polled>>
worldVars == <<knocks, peer, inbox, view>>
serverVars == <<engineVars, worldVars>>

\* Packet holds the bytes of a packet that have come so far.
ClientRecords == [Socket : BOOLEAN, Packet : Seq(Byte),
                  ChannelMasks : [Channels -> Word]]
NoClient == [Socket |-> FALSE, Packet |-> <<>>, ChannelMasks |-> [ch \in Channels |-> 0]]
\* All that is left of one that was removed is reset for the next.
Removed(client) == [client EXCEPT !.Socket = FALSE]
NewClient == [Socket |-> TRUE, Packet |-> <<>>, ChannelMasks |-> [ch \in Channels |-> \o77777]]

\* A client shows 0 until it hears otherwise; channel 10 sets one row.  missed
\* are the channels and rows of which it has not got the last packet.
Views == [channel : [Channels -> Word], row : [0 .. 15 -> Word],
          missed : SUBSET (Channels \X (0 .. 15))]
BlankView == [channel |-> [ch \in Channels |-> 0], row |-> [r \in 0 .. 15 |-> 0],
              missed |-> {}]
Place(ch, value) == <<ch, IF ch = \o10 THEN value \div 2048 ELSE 0>>
Shown(v, ch, value) ==
  IF ch \notin Channels THEN v
  ELSE IF ch = \o10
       THEN [v EXCEPT !.row[value \div 2048] = value, !.missed = @ \ {Place(ch, value)}]
       ELSE [v EXCEPT !.channel[ch] = value, !.missed = @ \ {Place(ch, value)}]
NotShown(v, ch, value) ==
  IF ch \in Channels THEN [v EXCEPT !.missed = @ \cup {Place(ch, value)}] ELSE v

Init ==
  /\ Clients = [i \in Ports |-> NoClient]
  /\ SocketInterlace = 0 /\ ChannelRoutineCount = 0 /\ TimeoutCount = 0
  /\ State = StartState /\ DskyChannel163 = 0
  /\ engine = "routine" /\ polled = 0
  /\ knocks = [i \in Ports |-> FALSE]
  /\ peer = [i \in Ports |-> "none"]
  /\ inbox = [i \in Ports |-> <<>>]
  /\ view = [i \in Ports |-> BlankView]

-----------------------------------------------------------------------------
(* Sending.                                                                *)

IsConnected(i) == Clients[i].Socket

\* A packet is sent to the clients of some set: to an open one it gets through
\* unless the client is slow and it would block; a closed one answers with a
\* reset, sooner or later; and the next send to it fails and removes it.
SendTo(set, clients, ch, value) ==
  \E slow \in SUBSET {i \in set : peer[i] = "open"},
     resets \in SUBSET {i \in set : peer[i] = "closed"} :
    LET gone == {i \in set : peer[i] = "reset"}
    IN  /\ Clients' = [i \in Ports |-> IF i \in gone THEN Removed(clients[i]) ELSE clients[i]]
        /\ peer' = [i \in Ports |-> CASE i \in gone -> "none"
                                      [] i \in resets -> "reset"
                                      [] OTHER -> peer[i]]
        /\ view' = [i \in Ports |-> IF i \notin set \/ peer[i] # "open" THEN view[i]
                                    ELSE IF i \in slow THEN NotShown(view[i], ch, value)
                                    ELSE Shown(view[i], ch, value)]
        /\ inbox' = [i \in Ports |-> IF i \in gone THEN <<>> ELSE inbox[i]]

\* The engine's state becomes s, and what it has to send is broadcast.  clients
\* are the records but for what the sends do to them.
Becomes(s, clients) ==
  /\ State' = [s EXCEPT !.sent = <<>>]
  /\ IF s.sent = <<>> THEN Clients' = clients /\ UNCHANGED <<peer, view, inbox>>
     ELSE SendTo({i \in Ports : IsConnected(i)}, clients, s.sent[1][1], s.sent[1][2])
  /\ UNCHANGED knocks

-----------------------------------------------------------------------------
(* ChannelRoutine.                                                         *)

Accepted == {i \in Ports : ~IsConnected(i) /\ knocks[i]}

\* Slip: of channel 10 the last row is sent.
LastRowOnly(v) ==
  [v EXCEPT !.channel = [ch \in Channels |-> IF ch >= \o11 THEN State.InputChannel[ch] ELSE @[ch]],
            !.row[State.InputChannel[\o10] \div 2048] = State.InputChannel[\o10]]

\* A newcomer is sent the relays and the channels from 11 on that are not 0.
UpdateAgcPeripheralConnect(v) ==
  [v EXCEPT !.channel = [ch \in Channels |-> IF ch >= \o11 THEN State.InputChannel[ch] ELSE @[ch]],
            !.row = State.OutputChannel10]

\* Slips: a new client inherits the buffer, or the masks, of the one before.
NewClientKeepsPacket(i) == [NewClient EXCEPT !.Packet = Clients[i].Packet]
NewClientKeepsMasks(i) ==
  [NewClient EXCEPT !.ChannelMasks = [ch \in Channels |->
     IF Clients[i].ChannelMasks[ch] = 0 THEN @[ch] ELSE Clients[i].ChannelMasks[ch]]]
Welcomed(i) == NewClient

\* Slip: the count never gets there.
ProbesLate == TimeoutCount = TimeoutPeriod
Probes == TimeoutCount + 1 = TimeoutPeriod

\* The signature of the packet to look for missing clients is nobody's, and so
\* it changes no view.
ChannelRoutine ==
  /\ engine = "routine" /\ engine' = "lamps"
  /\ ChannelRoutineCount' = (ChannelRoutineCount + 1) % RoutinePeriod
  /\ IF ChannelRoutineCount # 0
     THEN UNCHANGED <<TimeoutCount, Clients, worldVars>>
     ELSE LET clients == [i \in Ports |-> IF i \in Accepted THEN Welcomed(i) ELSE Clients[i]]
              gone == {i \in Ports : Probes /\ peer[i] = "reset"}
          IN  /\ TimeoutCount' = (TimeoutCount + 1) % TimeoutPeriod
              /\ \E resets \in SUBSET {i \in Ports : Probes /\ peer[i] = "closed"} :
                   peer' = [i \in Ports |-> CASE i \in Accepted -> "open"
                                              [] i \in gone -> "none"
                                              [] i \in resets -> "reset"
                                              [] OTHER -> peer[i]]
              /\ Clients' = [i \in Ports |-> IF i \in gone THEN Removed(clients[i]) ELSE clients[i]]
              /\ knocks' = [i \in Ports |-> knocks[i] /\ i \notin Accepted]
              /\ inbox' = [i \in Ports |-> IF i \in gone \cup Accepted THEN <<>> ELSE inbox[i]]
              /\ view' = [i \in Ports |-> IF i \in Accepted
                                          THEN UpdateAgcPeripheralConnect(BlankView)
                                          ELSE view[i]]
  /\ UNCHANGED <<SocketInterlace, State, DskyChannel163, polled>>

-----------------------------------------------------------------------------
(* ChannelInput.                                                           *)

\* UpdateDSKY shows a warning and sends the lamps if they have changed; then
\* the engine polls its clients, or not yet.
UpdateDSKY ==
  /\ engine = "lamps"
  /\ \E lamps \in {l \in Lamps : IsWarning(l) = State.AgcWarning} :
       /\ DskyChannel163' = lamps
       /\ LET s == WarningShown(State)
          IN  Becomes(IF lamps = DskyChannel163 THEN s ELSE ChannelOutput(s, \o163, lamps),
                      Clients)
  /\ engine' = IF SocketInterlace > 0 THEN "program" ELSE "poll"
  /\ SocketInterlace' = IF SocketInterlace > 0 THEN SocketInterlace - 1 ELSE SocketInterlaceReload
  /\ polled' = 0
  /\ UNCHANGED <<ChannelRoutineCount, TimeoutCount>>

\* Slip: a byte that is out of place is dropped, whatever it is.
DropsFirst(packet, c) ==
  IF Len(packet) = 4 THEN packet
  ELSE IF Signature(c) = Len(packet) THEN Append(packet, c) ELSE <<>>

\* A byte out of place costs the packet; the first byte of one begins it.
After(packet, c) ==
  IF Len(packet) = 4 THEN packet
  ELSE IF Signature(c) = Len(packet) THEN Append(packet, c)
  ELSE IF Signature(c) = 0 THEN <<c>> ELSE <<>>

Emptied(i) == [Clients EXCEPT ![i].Packet = <<>>]

\* The loop goes on with the next client, or ends.
EndsEarly == /\ polled' = (polled + 1) % MAX_CLIENTS
             /\ engine' = IF polled + 2 >= MAX_CLIENTS THEN "program" ELSE "poll"
Onwards == /\ polled' = (polled + 1) % MAX_CLIENTS
           /\ engine' = IF polled + 1 = MAX_CLIENTS THEN "program" ELSE "poll"

InPoll == /\ engine = "poll"
          /\ UNCHANGED <<SocketInterlace, ChannelRoutineCount, TimeoutCount, DskyChannel163>>
HasPacket == InPoll /\ Len(Clients[polled].Packet) = 4
Parsed == ParseIoPacket(Clients[polled].Packet)

\* There is no client, or nothing more of it to receive.
PassOver ==
  /\ InPoll /\ Onwards
  /\ ~IsConnected(polled) \/ (Len(Clients[polled].Packet) < 4 /\ inbox[polled] = <<>>)
  /\ UNCHANGED <<Clients, State, worldVars>>

ReceiveByte ==
  /\ InPoll /\ IsConnected(polled) /\ Len(Clients[polled].Packet) < 4
  /\ inbox[polled] # <<>>
  /\ Clients' = [Clients EXCEPT ![polled].Packet = After(@, Head(inbox[polled]))]
  /\ inbox' = [inbox EXCEPT ![polled] = Tail(@)]
  /\ UNCHANGED <<engine, polled, State, knocks, peer, view>>

ReceiveMask ==
  /\ HasPacket /\ Onwards /\ Parsed.uBit
  /\ Clients' = [Emptied(polled) EXCEPT ![polled].ChannelMasks[Parsed.Channel] = Parsed.Value]
  /\ UNCHANGED <<State, worldVars>>

\* A count is the whole call.
ReceiveCount ==
  /\ HasPacket /\ ~Parsed.uBit /\ Parsed.Channel >= 128
  /\ Becomes(UnprogrammedIncrement(State, Parsed.Channel % 128, Parsed.Value),
             Emptied(polled))
  /\ engine' = "routine" /\ polled' = 0

ReceiveValue ==
  /\ HasPacket /\ Onwards /\ ~Parsed.uBit /\ Parsed.Channel < 128
  /\ Becomes(ChannelWrite(State, Clients[polled].ChannelMasks[Parsed.Channel],
                          Parsed.Channel, Parsed.Value),
             Emptied(polled))

-----------------------------------------------------------------------------
(* The program, and the clients.                                           *)

\* The scaler may move the filter of the warning over its threshold or back, if
\* there are lamps for it.
Scaled(on) == [State EXCEPT !.AgcWarning = on]

\* A step of the rest of a call: its end, an output, the interrupt, or what a
\* restart does beside its writes to channels, which are outputs among others.
Program(outputs) ==
  /\ engine = "program" /\ engine' \in {"program", "routine"}
  /\ \E on \in {IsWarning(lamps) : lamps \in Lamps} :
       \/ engine' = "routine" /\ Becomes(Scaled(on), Clients)
       \/ \E o \in outputs : Becomes(CpuWriteIO(Scaled(on), o[1], o[2]), Clients)
       \/ \E r \in State.InterruptRequests :
             Becomes([Scaled(on) EXCEPT !.InterruptRequests = @ \ {r}], Clients)
       \/ \E standby \in BOOLEAN : Becomes(Restarted(Scaled(on), standby), Clients)
  /\ UNCHANGED <<SocketInterlace, ChannelRoutineCount, TimeoutCount, DskyChannel163, polled>>

\* A client connects to a port, bytes of it arrive, it closes the connection.
Knock(i) ==
  /\ ~knocks[i]
  /\ knocks' = [knocks EXCEPT ![i] = TRUE]
  /\ UNCHANGED <<engineVars, peer, inbox, view>>
Arrive(i, bytes) ==
  /\ peer[i] = "open"
  /\ inbox' = [inbox EXCEPT ![i] = @ \o bytes]
  /\ UNCHANGED <<engineVars, knocks, peer, view>>
HangUp(i) ==
  /\ peer[i] = "open"
  /\ peer' = [peer EXCEPT ![i] = "closed"]
  /\ UNCHANGED <<engineVars, knocks, inbox, view>>

ChannelInput == \/ PassOver \/ ReceiveByte
                \/ ReceiveMask \/ ReceiveCount \/ ReceiveValue
agc_engine == ChannelRoutine \/ UpdateDSKY \/ ChannelInput \/ Program(Outputs)

=============================================================================
