------------------------------ MODULE MCSockets -----------------------------
(***************************************************************************)
(* SocketServer with clients that send bytes, in pieces, with one byte     *)
(* lost or strewn in, over two connections, two clients at once; and with  *)
(* a client that comes and goes and listens while the program writes.      *)
(***************************************************************************)
EXTENDS SocketServer

CONSTANTS
  Stories,     \* what the clients send, and what the first meant by it
  Visits       \* how often each connects when they only listen

\* One byte of a sequence is lost, or one comes in.
Without(s) == {RemoveAt(s, k) : k \in 1 .. Len(s)}
With(s, strays) == {InsertAt(s, k, c) : k \in 1 .. Len(s) + 1, c \in strays}
Joined(packets) == FlattenSeq(packets)
AtMostOneFault(s, strays) == {s} \cup Without(s) \cup With(s, strays)

\* Of each client, the bytes of each of its connections; what the first meant,
\* if that is said, are packets in which at most one byte went wrong.
ASSUME StoryAssumption ==
  /\ Visits \in [1 .. MAX_CLIENTS -> Nat]
  /\ \A story \in Stories :
       /\ story.sends \in [1 .. MAX_CLIENTS -> Seq(Seq(Byte))]
       /\ story.meant # <<>> =>
            /\ story.meant \in Seq(Packet)
            /\ \A k \in 1 .. Len(story.meant) : IsSignedPacket(story.meant[k])
            /\ story.sends[1] # <<>>
            /\ story.sends[1][1] \in AtMostOneFault(Joined(story.meant), Byte)

VARIABLES
  sends,       \* what each client sends over each of its connections
  meant,       \* the packets the first meant by that, if it matters
  listens,     \* nobody sends anything, and the program writes
  connection,  \* which of its connections a client is in
  arrived,     \* how many bytes of it have arrived
  received,    \* the bytes of it that the engine has received
  handed       \* the packets of it that the engine has handled

storyVars == <<sends, meant, listens>>
mcVars == <<serverVars, storyVars, connection, arrived, received, handed>>

Observe(i) ==
  /\ received' = [received EXCEPT ![i] =
                    @ \o SubSeq(inbox[i], 1, Len(inbox[i]) - Len(inbox'[i]))]
  /\ UNCHANGED <<storyVars, connection, arrived>>

Engine ==
  \/ /\ ChannelRoutine
     /\ received' = [i \in Ports |-> IF IsConnected(i) THEN received[i] ELSE <<>>]
     /\ handed' = [i \in Ports |-> IF IsConnected(i) THEN handed[i] ELSE <<>>]
     /\ UNCHANGED <<storyVars, connection, arrived>>
  \/ /\ UpdateDSKY \/ Program(IF listens THEN Outputs ELSE {})
     /\ UNCHANGED <<storyVars, connection, arrived, received, handed>>
  \/ /\ PassOver \/ ReceiveByte
     /\ Observe(polled) /\ UNCHANGED handed
  \/ /\ ReceiveMask \/ ReceiveCount \/ ReceiveValue
     /\ Observe(polled)
     /\ handed' = [handed EXCEPT ![polled] = Append(@, Clients[polled].Packet)]

Script(i) == sends[i + 1][connection[i]]

\* The next connection, of a client that has none or has closed the last one;
\* a listener may be waiting for it before.
Connects(i) ==
  /\ connection[i] < Len(sends[i + 1]) /\ (listens \/ peer[i] # "open")
  /\ Knock(i)
  /\ connection' = [connection EXCEPT ![i] = @ + 1]
  /\ arrived' = [arrived EXCEPT ![i] = 0]
  /\ UNCHANGED <<storyVars, received, handed>>

Bytes(i) ==
  /\ peer[i] = "open"
  /\ \E n \in arrived[i] + 1 .. Len(Script(i)) :
       /\ Arrive(i, SubSeq(Script(i), arrived[i] + 1, n))
       /\ arrived' = [arrived EXCEPT ![i] = n]
  /\ UNCHANGED <<storyVars, connection, received, handed>>

\* A client that will come back closes when it has sent everything; a listener
\* closes when it likes.
Leaves(i) ==
  /\ peer[i] = "open"
  /\ listens \/ (connection[i] < Len(sends[i + 1]) /\ arrived[i] = Len(Script(i)))
  /\ HangUp(i)
  /\ UNCHANGED <<storyVars, connection, arrived, received, handed>>

\* A listener connects and sends nothing.
Listening == [i \in 1 .. MAX_CLIENTS |-> [n \in 1 .. Visits[i] |-> <<>>]]

SendingInit == \E story \in Stories : /\ sends = story.sends /\ meant = story.meant
                                      /\ listens = FALSE
ListeningInit == sends = Listening /\ listens = TRUE /\ meant = <<>>
HistoryInit ==
  /\ connection = [i \in Ports |-> 0] /\ arrived = [i \in Ports |-> 0]
  /\ received = [i \in Ports |-> <<>>] /\ handed = [i \in Ports |-> <<>>]
MCInit == Init /\ (SendingInit \/ ListeningInit) /\ HistoryInit
ListenersOnly == Init /\ ListeningInit /\ HistoryInit

MCNext == Engine \/ \E i \in Ports : Connects(i) \/ Bytes(i) \/ Leaves(i)

\* The engine is called for ever, and a call comes to an end; TCP answers a send
\* to a peer that has gone, and in the end it does so.
CallGoesOn == Engine /\ (engine = "program" => engine' = "routine")
Answers(i) == peer[i] = "closed" /\ Engine /\ peer'[i] = "reset"
Fairness == WF_mcVars(CallGoesOn) /\ \A i \in Ports : SF_mcVars(Answers(i))
MCSpec == MCInit /\ [][MCNext]_mcVars /\ Fairness
ListeningSpec == ListenersOnly /\ [][MCNext]_mcVars

\* What the two clients of the runs send.  The first may lose its connection in
\* the middle of a packet and go on with the rest in the next.
P(ch, value) == FormIoPacket(ch, value)
CountUp == P(\o237, 0)
TwoPackets == <<P(\o40, 5), CountUp>>
Shared(mask, value) == Joined(<<P(256 + \o40, mask), P(\o40, value)>>)
Sending(s) == [sends |-> s, meant |-> <<>>]
TwoClients ==
  { [sends |-> << <<s>>, <<>> >>, meant |-> TwoPackets] :
      s \in AtMostOneFault(Joined(TwoPackets), {\o4, \o101, \o201, \o301}) }
  \cup
  { Sending(<< <<Shared(3, 1) \o SubSeq(P(\o40, 2), 1, 2),
                 SubSeq(P(\o40, 2), 3, 4) \o P(\o40, \o77775)>>, << CountUp >> >>),
    Sending(<< <<Shared(3, 2)>>, <<Shared(\o14, \o77777)>> >>),
    Sending(<< << Joined(<<CountUp, CountUp>>) >>, << P(\o15, \o21) >> >>) }
OneComesTwice == <<2, 0>>

UsedChannels == {\o10, \o11, \o15, \o33, \o40, \o47, \o163}
UsedCounters == {\o37, \o42, \o43, \o44, \o45}
Relays == { <<\o10, \o4005>>, <<\o10, \o10006>>, <<\o10, 0>>, <<\o11, 2>>, <<\o11, 0>> }

-----------------------------------------------------------------------------
(* What clients send.                                                      *)

\* The packets in a stream of bytes: the runs of four in their order.
Found(bytes, n) == n >= 4 /\ IsSignedPacket(SubSeq(bytes, n - 3, n))
PacketsIn(bytes) ==
  LET among[n \in 0 .. Len(bytes)] ==
        IF n = 0 THEN <<>>
        ELSE IF Found(bytes, n) THEN Append(among[n - 1], SubSeq(bytes, n - 3, n))
        ELSE among[n - 1]
  IN  among[Len(bytes)]

\* What has been handled is what there is in the bytes of this connection,
\* in order and each once, however the bytes arrived and whatever was lost
\* among them or was left of the client before.
PacketsAreWhole ==
  \A i \in Ports : IsConnected(i) /\ Len(Clients[i].Packet) < 4
    => handed[i] = PacketsIn(received[i])

\* A byte that is lost or strewn in costs at most the packet it hits, and
\* makes at most one that was not meant.
OneFewer(s) == {s} \cup {RemoveAt(s, k) : k \in 1 .. Len(s)}
HeardOut == /\ IsConnected(0) /\ connection[0] = 1 /\ received[0] = Script(0)
            /\ Len(Clients[0].Packet) < 4
OneByteOnePacket ==
  meant # <<>> /\ HeardOut => OneFewer(handed[0]) \cap OneFewer(meant) # {}

\* The bits of channel 40 under the mask that a client gave in its present
\* connection are those it last sent, whatever the other client does to the
\* rest of the channel.
Of40(packets) == {k \in 1 .. Len(packets) : ParseIoPacket(packets[k]).Channel = \o40}
Masks(packets) == {k \in Of40(packets) : ParseIoPacket(packets[k]).uBit}
Values(packets) == Of40(packets) \ Masks(packets)
Latest(packets, S) == ParseIoPacket(packets[Max(S)]).Value
MaskOf(packets) == IF Masks(packets) = {} THEN \o77777 ELSE Latest(packets, Masks(packets))
LastValue(packets) == Latest(packets, Values(packets))
BitsAreTheirOwners ==
  \A i \in Ports : IsConnected(i) /\ Values(handed[i]) # {} =>
    Merged(MaskOf(handed[i]), State.InputChannel[\o40], 0) =
      Merged(MaskOf(handed[i]), LastValue(handed[i]), 0)

\* Each client gives its mask for channel 40 before it writes there, and no bit
\* of the channel is under the masks of two of them.
Settled(packets) == \A j \in Masks(packets), k \in Values(packets) : j < k
Apart(p, q) ==
  Values(p) # {} /\ Values(q) # {} => Merged(MaskOf(p), MaskOf(q), 0) = 0
ASSUME OwnershipAssumption ==
  /\ \o40 \in Channels
  /\ \A story \in Stories, i \in 1 .. MAX_CLIENTS : \A n \in 1 .. Len(story.sends[i]) :
       LET own == PacketsIn(story.sends[i][n])
       IN  /\ Settled(own)
           /\ \A j \in (1 .. MAX_CLIENTS) \ {i} : \A m \in 1 .. Len(story.sends[j]) :
                Apart(own, PacketsIn(story.sends[j][m]))

\* What has arrived is received in the end, though the counts of the client
\* before this one end one poll after another, as long as they come to an end:
\* a client whose counts never do is the only one heard.
EveryoneIsHeard == inbox[1] # <<>> ~> inbox[1] = <<>>

-----------------------------------------------------------------------------
(* What clients hear.                                                      *)

Hears(i) == IsConnected(i) /\ peer[i] = "open"

\* A client, whenever it connected, shows of every row of the relays, which are
\* channel 10, and of channel 11 what the program last wrote there, unless the
\* send of that very value would have blocked.
ViewsAgree ==
  \A i \in Ports : Hears(i) /\ listens =>
    /\ <<\o11, 0>> \in view[i].missed \/ view[i].channel[\o11] = State.InputChannel[\o11]
    /\ \A r \in 0 .. 15 :
         <<\o10, r>> \in view[i].missed \/ view[i].row[r] = State.OutputChannel10[r]

\* A newcomer is brought up to date at once: it shows the lamps as they are.
NewcomerIsUpToDate ==
  \A i \in Ports : Hears(i) =>
    <<\o163, 0>> \in view[i].missed \/ view[i].channel[\o163] = DskyChannel163

\* A client that knocks where nobody is connected any more is let in: the one
\* before, though it has vanished and the program never sends anything, is
\* noticed and its port is freed.
NewcomersGetIn == knocks[0] /\ peer[0] # "open" ~> ~knocks[0]
=============================================================================
