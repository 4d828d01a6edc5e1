----------------------------- MODULE MCRingHost -----------------------------
(***************************************************************************)
(* RingHost with a host that writes a bounded number of packets and keeps  *)
(* its own account of what the engine should hold.                         *)
(***************************************************************************)
EXTENDS RingHost

CONSTANTS
  Families,       \* the sets of packets of which a behaviour uses one
  Budget,         \* the packets that the host writes
  Chatter         \* the packets that the lamps and the program send, and restarts

IsValue(ch) == ch < 128
IsCount(ch) == ch \in 128 .. 255

\* The host keeps an account of one counter, which PINC, MINC and DINC do not
\* take past its ends, and of channels that the program and a restart do not
\* write but for the computer's part of channel 33.
ASSUME HostAssumption ==
  /\ Budget \in Nat /\ Budget < HALF
  /\ \A family \in Families : family \subseteq Writes
  /\ \o37 \in Counters
  /\ \A w \in Writes : IsCount(w[1]) => w[1] = \o237 /\ w[2] \in {0, 2, 4}
  /\ \A w \in Writes : IsValue(w[1]) =>
       /\ w[1] \notin ClearedChannels \cup {7, \o77}
       /\ \A o \in Outputs : w[1] = o[1] => w[1] = \o33

VARIABLES
  uses,           \* the packets of this behaviour
  mask, view,     \* the masks and inputs that the host has written
  counts,         \* the count of its counters
  writes,         \* how many packets were accepted
  owed,           \* the program has not seen the last key
  warned,         \* a warning has been shown since channel 33 was reset
  sends,          \* how many packets the engine sent, a restart's as one
  wasReset        \* the host has reset the machine

accountVars == <<uses, mask, view, counts, writes, owed, warned, sends, wasReset>>
mcVars == <<hostVars, accountVars>>

\* PINC, MINC and DINC, which counts towards zero.
Counted(type) == CASE type = 0 -> counts + 1
                   [] type = 2 -> counts - 1
                   [] type = 4 -> IF counts > 0 THEN counts - 1
                                  ELSE IF counts < 0 THEN counts + 1 ELSE 0

Account(ch, v) ==
  /\ mask' = IF ch >= 256 THEN [mask EXCEPT ![ch - 256] = v] ELSE mask
  /\ view' = IF IsValue(ch) THEN [view EXCEPT ![ch] = Merged(mask[ch], v, @)] ELSE view
  /\ counts' = IF ~IsCount(ch) THEN counts ELSE Counted(v)
  /\ owed' = (owed \/ ch = \o15)
  /\ writes' = writes + 1

Refused == UNCHANGED <<mask, view, counts, owed, writes>>

HostWrites ==
  /\ writes < Budget
  /\ ChannelIsSetUp
  /\ \E w \in uses : /\ packet_write(w[1], w[2])
                       /\ IF inAnswer'[3] THEN Account(w[1], w[2]) ELSE Refused
  /\ UNCHANGED <<uses, warned, sends, wasReset>>

\* The host may reset the machine once, half-way, when it has taken all packets.
\* What the host wrote to it is gone, its masks are not.
HostResets ==
  /\ ~wasReset /\ writes = Budget \div 2 /\ IsEmpty(ringbuffer_in)
  /\ cpu_reset
  /\ view' = StartState.InputChannel
  /\ counts' = 0 /\ owed' = FALSE /\ warned' = FALSE
  /\ wasReset' = TRUE
  /\ UNCHANGED <<uses, mask, writes, sends>>

HostReads == packet_read /\ UNCHANGED accountVars

\* The packet that the engine sends in this step, if it does.
Sends == outAnswer' # <<>> /\ outAnswer'[1] = "put"
Sent == ParseIoPacket(outAnswer'[2])

\* The program sees a key when it serves its interrupt; a restart drops the
\* interrupt instead.
Interrupted == Keyrupt \in State.InterruptRequests \ State'.InterruptRequests
Sees == engine' = "host" /\ State.InputChannel[\o15] = view[\o15]
Drops == engine' = "restart"

\* Bounds: the lamps and the program send few packets, there are few restarts,
\* and the warning comes on where the host uses channel 33.
Bounded == /\ engine \in {"lamps", "program"} /\ sends' > sends => sends' <= Chatter
           /\ State'.AgcWarning => \E w \in uses : w[1] = \o33

EngineRuns ==
  /\ cpu_step
  /\ owed' = (owed /\ ~(Interrupted /\ (Sees \/ Drops)))
  /\ warned' = CASE engine = "lamps" -> warned \/ State.AgcWarning
                 [] engine = "program" /\ Sends /\ Sent.Channel = \o33 -> State'.AgcWarning
                 [] OTHER -> warned
  /\ sends' = IF engine # "restart" /\ (Sends \/ engine' = "restart") THEN sends + 1 ELSE sends
  /\ Bounded
  /\ UNCHANGED <<uses, mask, view, counts, writes, wasReset>>

MCInit ==
  /\ Init
  /\ uses \in Families
  /\ mask = [ch \in Channels |-> \o77777]
  /\ view = StartState.InputChannel
  /\ counts = 0 /\ writes = 0 /\ owed = FALSE /\ warned = FALSE
  /\ sends = 0 /\ wasReset = FALSE
MCNext == HostWrites \/ HostReads \/ HostResets \/ EngineRuns
MCSpec == MCInit /\ [][MCNext]_mcVars

\* The host calls cpu_step for ever, and the program, however often it is
\* restarted, serves its interrupt among the other things it does.
Serves == /\ engine = "program" /\ State.InterruptRequests # {}
          /\ EngineRuns
          /\ engine' = "host" /\ State'.InterruptRequests # State.InterruptRequests
MCFairSpec == MCSpec /\ WF_mcVars(EngineRuns) /\ SF_mcVars(Serves)

\* What the host of the run writes: keys beside counts; a discrete under a mask;
\* an uplink word, and a channel that is partly the computer's; the hand
\* controller with counts in two directions.
Key1 == <<\o15, \o21>>
Rset == <<\o15, \o22>>
CountUp == <<\o237, 0>>
HostPackets ==
  { {Key1, Rset, CountUp},
    {Key1, <<\o440, 2>>, <<\o40, 3>>},
    {<<\o173, 1>>, <<\o33, \o77777>>},
    {<<\o166, 5>>, <<\o237, 2>>, <<\o237, 4>>} }
Inputs == UNION HostPackets

\* What the program writes meanwhile, and the lamps: RESTART and AGC WARNING.
Displays == { <<\o13, \o4600>>, <<\o33, 0>> }
LitLamps == {\o200, \o201}
NightWatchman == {\o20}

UsedChannels == {5, 6, 7, \o10, \o11, \o12, \o13, \o14, \o15, \o33, \o34, \o35,
                 \o40, \o77, \o166, \o173}
UsedCounters == {\o37, \o42, \o43, \o44, \o45}

-----------------------------------------------------------------------------
\* The host's own account is true of the engine as soon as the ring is empty:
\* whatever calls the packets were spread over, each value was merged under
\* the mask that preceded it, and each count was made, once.  Of channel 33 the
\* host has the low bits; the others are the computer's, which keeps that of a
\* warning until the program writes there with the warning off.
HostsAccountHolds ==
  engine = "host" /\ ChannelIsSetUp /\ IsEmpty(ringbuffer_in) =>
    /\ \A ch \in {w[1] : w \in {w \in Writes : IsValue(w[1])}} \ {\o33} :
         State.InputChannel[ch] = view[ch]
    /\ State.InputChannel[\o33] = (IF warned THEN \o56000 ELSE \o76000)
                                    + (view[\o33] % \o2000)
    /\ IF counts = 0 THEN IsZero(State.Counter[\o37])
       ELSE State.Counter[\o37] = IF counts > 0 THEN counts ELSE AGC_M0 + counts

\* The program sees the last key in the end, however many keys came at once
\* and whatever keys were overwritten before it served the interrupt, unless
\* the machine is restarted or reset between the key and the interrupt.
LastKeyIsSeen == owed ~> ~owed
=============================================================================
