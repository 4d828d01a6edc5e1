# A verification of the Virtual AGC engine

This directory holds TLA+ models of `yaAGC`, the simulator of the Apollo
Guidance Computer in this repository, the TLC configurations that check them on
small instances, and TLAPS proofs of their main invariants for every value of
their constants.

The repository is large, and most of it is not one program: flight software of
the AGC, AGS, LVDC and the Shuttle, assemblers and compilers, DSKY and telemetry
front ends, a launcher. The program the others are built around is the AGC
engine, `src/yaAGC/agc_engine.c`. It is a cycle-level simulator of a machine
whose correctness is a matter of interleavings: a clock divider that drives six
alarms and six timers, a program that has to feed the alarms in time, ten
interrupts, input counts that steal cycles, a button that must be held, and a
restart that may come at any moment. Around it is an interface of 4-byte packets,
over sockets or through ring buffers, with clients that come, go, stall and send
half a packet. These two are what is modelled here, with the arithmetic of the
instructions as a third part.

## The system

`agc_engine()` is called once per machine cycle (11.7 µs). One call does, in
this order, and returns at the first thing that uses the cycle up:

1. polls the sockets (`ChannelInput`), which may store input channels, request
   interrupts or count a counter; a count is the whole cycle;
2. requests DOWNRUPT when its time has come;
3. looks at PRO (channel 32);
4. pays back an owed cycle (`ExtraDelay`), or one of a long instruction
   (`PendFlag`, `PendDelay`);
5. looks at one of the three CDU FIFOs; an applied pulse is the whole cycle;
6. every 80/3 cycles runs a pass of the scaler: alarms, standby, warning filter,
   timers, HANDRUPT traps, radar gate, and the restart (GOJAM) they may cause;
   counts owe cycles, and a call that owes any ends here;
7. in standby, returns; sends the pulses of the gyro, IMU and optics drives;
8. vectors to a requested interrupt, if it may;
9. fetches, indexes, decodes and executes one instruction, feeding the alarms
   that watch the program.

| component | state | operations | what is hard |
|---|---|---|---|
| words and counter cells | 15-bit words, 16-bit registers | add, extend, correct, count up, down, towards zero | two zeros, overflow, the end of the range |
| scaler, alarms, standby, timers, restart | `SCALER1`, TIME1-6, the watchdog flags, `Standby`, `Sby*`, `ParityFail`, warning filter, traps, radar gate, downlink pair, channels 13 and 77 | a pass of the scaler; every instruction that feeds a watchdog or writes one of the channels; keys and inputs | flags set at one phase of the divider and judged at another, with standby, restarts and the program between |
| sequencing and interrupts | Z, `IndexValue`, `ExtraCode`, `SubstituteInstruction`, ZRUPT, BRUPT, `InIsr`, `AllowInterrupt`, requests, `PendFlag`, `PendDelay`, `ExtraDelay` | fetch, execute, RESUME, interrupt, EDRUPT, restart, owed cycles | an interrupt between INDEX or EXTEND and what it applies to; a long instruction is decoded twice |
| CDU FIFOs | ring of (type, count) entries per counter, time of the next update | push a pulse, apply a pulse | joining runs, a ring that wraps and fills, late service |
| torquing drives | saved counts in static variables, the time of the next burst | gyro, coarse align, optics bursts | a new command while an old one is being sent |
| packets, rings, sockets | ring slots and indices, clients with partial packets and channel masks, input channels, counters, requests | write, read, reset; accept, poll byte by byte, mask, count, merge, broadcast, look for the missing | partial and lost bytes, dropped sends, dead peers, a client that starves another, a full ring |
| arithmetic, banks, editing | 16-bit A, L, Q, Z, EB, FB, BB, erasable memory | every data and arithmetic instruction | double precision with mixed signs, two zeros, division done in two ways, three registers that name the same banks |
| start and core dump | the whole machine | start, dump, resume | fields that the dump does not hold |
| simulator loop, debugger, command line | options, real time | call the engine, print | only pacing and user interface |

The engine never runs on two threads. What interleaves with it is the outside:
other processes at the ends of its sockets, or, in a browser, a host that calls
`cpu_step`, `packet_write` and `packet_read` in any order. Both reach the engine
only through `ChannelInput` at the start of a call and `ChannelOutput` in the
middle, so a packet is always handled between two instructions; but a poll may end
between two packets, a mask is separate from the value it belongs to, and a
connection may be lost between any two bytes.

`PROJECT.json` lists all components, the ones outside yaAGC too, with a status,
and every hazard at its line.

## Modules

| module | models | correspondence |
|---|---|---|
| `AgcWord` | the word and counter helpers | one operator per C helper; the width is the constant `HALF` (040000 in the code), masks become arithmetic |
| `AgcScaler` | step 6, and what steps 3, 4, 8 and 9 and the outside do to its state | `Tick` is one pass of the scaler loop, the restart included; `Delay` a cycle owed; `Idle` a call that only looks at PRO; the program's actions are the last cycle of an instruction, the world's are inputs |
| `MCWatchdog` | AgcScaler and how long one watchdog has not been fed | history variables |
| `AgcStandby` | AgcScaler and how long PRO has been seen held | history variables; fairness |
| `AgcTimers` | AgcScaler and what the clock, TIME6 and the radar gate should have counted | history variables |
| `AgcCode` | a memory image and the classes of its words | constants, with the assumptions of the proofs |
| `AgcProgram` | abstract: what a program may count on | one action per thing that can happen to a program |
| `AgcCycle` | steps 4, 8 and 9 | one action per way a call can end; implements AgcProgram |
| `MCCycle` | a small program and two interrupts | constants for TLC; how long the waiting instruction has taken |
| `PulseQueue` | abstract: a queue of pulses per CDU | arrive, drop, apply |
| `CduFifo` | step 5, `PushCduFifo`, `ServiceCduFifo` | every action is a cycle: one with a pulse, one used otherwise, one that looks at a FIFO; implements PulseQueue |
| `MCCduFifo` | CduFifo with bounds | budget of pulses, bound on lateness; what the rate has earned |
| `TorqueDrives` | the drives of step 7 | `Drives` is that part of a call, `Elapse` a call that returns before it; the program and the turning optics load counters and bits |
| `MCTorque` | a program of a few steps | time since a burst that left pulses waiting |
| `AgcArithmetic` | overflow, comparison, double precision, both divisions | one operator per C helper, over integers of any width |
| `AgcInstructions` | the operand side of step 9: the big switch for the 21 data and arithmetic instructions, and what the end of every instruction does | one action per instruction (`OneWord`, `TwoWords`) |
| `MCInstructions` | programs of one or two instructions from every content | constants for TLC |
| `IoPacket` | forming and parsing packets | one operator per C function |
| `ChannelIO` | step 1 and the outputs of step 9: what a packet or an output does to channels, counters and requests | functions from state to state, used by both interfaces |
| `BoundedQueue` | abstract: a queue that refuses only when full and says so | accept, refuse, take, find nothing |
| `PacketRing` | `ringbuffer.c` | slots and two masked indices |
| `RingHost` | the engine in a host: `wasm.c`, `ringbuffer_api.c` | an action per call of the host, and per step of a call of the engine; implements two BoundedQueues |
| `MCRingHost` | RingHost with a host that keeps its own account | `Families`, the sets of packets of which a behaviour uses one; budgets; history of what was written |
| `SocketServer` | the engine as a server: `SocketAPI.c`, the TCP it relies on | "routine", "lamps", "poll" (a step per byte and per packet), "program"; clients act between any two steps |
| `MCSockets` | SocketServer with clients that send, lose bytes, listen | `Stories`, what the clients may send; `Visits`, how often a listener comes; what was received and handled |
| `DataLemmas` | quotients and remainders, least numbers, sequences of sequences, bits | lemmas |
| `AgcScalerProofs`, `AgcCycleProofs`, `CduProofs`, `TorqueProofs`, `RingProofs`, `SocketProofs`, `AgcInstructionProofs` | | theorems |

**AgcScaler.** The code tests `SCALER1` with masks; a mask that selects low bits
is a period here, and "these bits are exactly so" a phase of it. The periods are
constants whose assumptions say only that each divides the next. A tick computes
everything from the old state in the order of the code: the standby decision
comes first and decides what "running" means for the rest of the pass, the new
alarms decide the restart, and the restart wins over what the pass requested or
armed. The program is any sequence of instructions, three kinds of which differ
in what they feed (`"tc"`: TC and TCF, `"transient"`: those that disturb the TC
trap as a TC does, `"other"`). The constant `Ops` names the operations a run
uses, and `StaysWithin` keeps a behaviour to one of several small sets of them;
the specification itself, the one the theorems are about, has all of them.
`ResumeCoreDump` and `StartFromErasable` are the two ways of starting from a core
dump, which may have been written between any two calls of the engine; what no
dump holds begins anew.

**AgcCycle.** What an instruction does to its operands is left out. Its class
decides where it may go next, how many cycles it takes and what it does to the
sequencing. Any call may owe up to `MaxOwed` cycles to counts, restart, or find
a new request; calls that change nothing here (an input count, standby) are
stuttering steps. `AgcProgram` sees ZRUPT and BRUPT in an interrupt and Z and the
indexed word outside one, and never learns of interrupts. All its fields
are in a core dump: a resumed machine has one more request, for DOWNRUPT, which
`Request` allows at every call.

**CduFifo.** The code keeps the cycle of the next update; the model keeps how
far away it is (`due`), negative when it is late, so that no counter grows. The
abstract queue is the concatenation of the entries in the order of the ring.
`input`, the pulse a cycle has brought, is the same variable in both, so that the
abstract queue cannot drop or accept another pulse than the one that came.

**TorqueDrives.** The code keeps the cycle of the last IMU burst; the model keeps
how long ago that is (`lag`), which the code sets anew while nothing is saved.
`saved` has the three static counts, sign and all. The histories say what was put
into each counter and what was sent; for the gyros by selection.

**AgcInstructions.** A register of 16 bits is a number below `4 * HALF`, a word one
below `2 * HALF`; a word stands for the integer `Value(w)`, and a 16-bit register
with overflow for the integer beyond. Addresses are the eight registers, the words
of `Memory` that a run uses, and those words seen through the window on the bank
that EB names. `rupts` has the timers whose interrupt the program has asked for, by
counting one of them past its end. DV is there twice, as the code has it: the division of integers and
`SimulateDV`, the hardware's shifts and subtractions. The definitions were compared
with the compiled `agc_engine()`, one instruction at a time, on 12 400 random
instructions and contents of full width, and agree on every register and word.

**ChannelIO.** Channel 33 has two owners: packets write its low ten bits, the
computer its high five. The bit of a warning is cleared by `UpdateDSKY` in every call
in which the warning filter is over its threshold (`AgcWarning`), and stays so until
the program writes to the channel with the warning off (`Relatched`). Which value the
filter has is AgcScaler's; here it is over the threshold or not.

**RingHost.** All is one thread. A call of `cpu_step` is broken where the host
cannot see it but the model must: the set-up on the first call, the lamps, each
packet that `ChannelInput` takes, and the rest of the call. That is `Program`, in which
the warning may come or go and the program writes an output or serves an interrupt, or
a restart: it begins by dropping every request for an interrupt (`RestartBegins`),
clears nine channels, each with an output to the ring (`RestartClears`), and ends with
channel 77 (`RestartEnds`), and the call with it. The masks of the channels belong to
the ring, not to the machine, and a reset keeps them.

Left out is what the rest of a call may do besides: more outputs than one in a call
without a restart (an output of an instruction after those of the drives); the output
of channel 013 when TIME6 has counted down, and of channel 0163 when standby begins or
ends, in the call of a restart; and that a restart may be inhibited (`InhibitAlarms`,
which the browser's build never sets).

**SocketServer.** `Clients` has what the code keeps of a client: whether it has a
socket, the bytes of the packet begun, and its masks. TCP is in the world's part:
`inbox` is what has arrived, `peer` the other end, which may close and then answers
a send with a reset; the send after that fails and removes the client. A send to
an open client gets through or would block and is dropped, all four bytes of it: that
a full buffer takes a part of a packet is not modelled. `view` is what a client
will show when it has read all that was sent to it, and `missed` the channels
whose last packet it did not get. A step of `Program` is one thing of those that the
rest of a call may do, a restart among them; the channels that it clears are outputs
like others, and clients may come, go or stall between them.

## Runs

| run | module | question | what happens in it |
|---|---|---|---|
| `watchdogs` | MCWatchdog | does each watchdog bite only a program that did not feed it for its window, and every one that does not feed it for longer? | 5 watchdogs, each with interrupts or with standby between |
| `standby` | AgcStandby | what gets the machine in and out of standby; is the restart's state held; is a held PRO obeyed in both directions? | PRO moves at any moment |
| `timers` | AgcTimers | is the clock the number of counts, is the radar gate consumed, does TIME6 count, are latches kept and requests served, through alarms, restarts, standby and core dumps? | seven sets of operations |
| `cycle` | MCCycle | are interrupts invisible, does every instruction take its time, is the most urgent interrupt served? | 29 words of code, two interrupts |
| `cdu_fifo` | MCCduFifo | is the ring a queue, within its rate, and never starved? | 2 FIFOs, 2 entries each, 4 pulses of 4 types |
| `torque` | MCTorque | is every pulse sent once, in its direction, to the drive it was ordered from, and does none wait for ever? | gyros, two IMU axes, or an IMU axis with the optics; 5 steps of the program |
| `instructions` | MCInstructions | are sums, double sums, products and quotients those of the integers, and timers carried into and their interrupts asked for; do the two divisions agree; do EB, FB and BB name the same banks? | every instruction from every content of the words it works on |
| `ring_host` | MCRingHost | are the rings bounded queues, does the engine hold what the host meant it to hold, is the last key seen? | four families of packets, a reset half-way, a restart at any moment, a warning that comes and goes |
| `sockets` | MCSockets | are packets whole, does one fault cost one packet, are masks each client's own, is what arrived received, is a newcomer let in, does a client show what was written to channels 10 and 11? | two ports; any one byte lost or strewn in; connections lost in a packet; a listener that comes back |
| `optics_orders`, `dv_minus_zero`, `newcomer` | MCTorque, MCInstructions, MCSockets | where the code does not do what a comment says | see below |

**Bounds.** The scaler's periods are scaled down together: `TcPeriod` 8 for 32,
`RuptPeriod` 32 for 512, `NightPeriod` 64 for 4096, `WarnPeriod` 4 for 8. What
matters is which phases of the periods coincide, come before one another or
between two others, and that is kept: the timers' phases (1/4 and 1/2 and 0 of
the TC period, two ticks before its end for the radar), the rupt lock's end on a
TC phase before its next beginning, the night's two ends on rupt phases. Eight
is the least TC period in which all phases differ. `ScalerModulus` is one night,
so that the divider wraps in every run. Words have 2 or 4 values where only
carries matter (`HALF` 1 or 2): both zeros, both ends of the range and, for TIME2
and TIME1 together, the carry. `RadarGates` is 2 for 9, which still separates
begin, middle and end. `timers` takes one of seven sets of operations at a time,
because most pairs of operations touch no common state; a core dump may be
resumed, or a machine be started on its memory, at every step of two of them.

In `cycle` the code has 29 words, all the classes of instructions, and places
INDEX before a plain, a long and an extended instruction, EXTEND before INDEX,
an overflow that closes the interrupt window, a critical section and EDRUPT next
to one another; two interrupts are enough for one to be pending while the other
is served. `MaxOwed` is 2, so that delays add up.

In `cdu_fifo` rings of two entries wrap, fill and drain with four pulses;
`Budget` bounds the pulses, `MaxLate` the cycles by which other work may delay an
update. Intervals of 5 and 3 keep the order slow > fast > number of FIFOs of the
code (213, 13, 3).

In `torque` a word has the values of `HALF` 4, which is orders of 3 and -2
pulses for bursts of at most one (IMU) or two (gyro): each order takes several
bursts. `Uses` keeps the drives that a behaviour moves to pairs that interact:
the gyros share nothing with the others. `Budget` bounds the steps of the program
and `MaxLag` how long pulses wait with the drives off; after five steps an order
has been replaced, switched off, switched on and replaced again.

In `instructions` `HALF` is 8, so that words hold -7 to 7 with two zeros and 16-bit
registers have 32 values. TLC tries every value of A, L and the words an instruction
works on: every carry, overflow, sign and zero there is. What more width would add
is more of the same carries; for sums and products the theorems below have no
bound. Programs are one instruction long where the question is arithmetic and two
where the first has to leave something unusual behind (an overflowed Q, a bank
register with bits it does not have, an editing register).

In `ring_host` the rings have three slots, which is a capacity of two: the host's
four packets fill, refuse, drain and wrap, and the ten packets of a restart do so with
the other ring. The lamps and the program send one packet or the machine is restarted
once (`Chatter`), enough to meet the host's reads and its keys at every moment. Each
behaviour uses one family of packets, those that can touch the same cells; the warning
comes and goes without bound in the family that uses channel 33, and is off in the
others, of which it touches nothing.

In `sockets` there are two ports. Two packets are eight bytes; each byte may be
missing and bytes of each signature may be inserted at each place, and the bytes
arrive in every possible division. `RoutinePeriod` and `TimeoutPeriod` are 2,
`SocketInterlaceReload` is 1: calls with and without a routine, a poll and a search
for the missing all occur, in every combination that the counts allow. In the
behaviours in which the program writes, nobody sends, and the listener connects
twice, slow at any send it likes, gone at any moment.

`watchdogs` has a VIEW: two states that differ only in the latches of channel 77
and in the warning filter are one state to TLC. No property of the run reads them,
and no other variable depends on them; `timers`, which has a property of the
latches, keeps them.

**Fairness.** `agc_engine` is called for ever (by the simulator, which keeps up
with real time, or by the host). `standby` assumes weak fairness of `Delay`: owed
cycles are paid by the next calls; and strong fairness of `Tick`: a call between
two delays reaches the scaler, and after 80/3 cycles a pass is due whatever the
program does. It assumes nothing of the program or of the keys. `cycle` assumes
weak fairness of the delays and strong fairness of the four actions with an
instruction: at most eight cycles of every 26 are owed to the scaler's counts, so
that instructions, which are possible again and again, are executed. `torque`
assumes weak fairness of `Drives`: standby clears channel 14, and outside it
instructions are executed, and every call that executes one passes the drives.
`ring_host` assumes weak fairness of the engine's steps, and for the program strong
fairness of serving the interrupt: keystrokes are served by a program that now and
then allows interrupts. It does not assume that the machine is not restarted: a
restart between a key and its interrupt drops the request, the program does not see
the key, and `LastKeyIsSeen` excepts it, as it does a reset by the host. `sockets`
assumes weak fairness of the engine's steps that bring a call to its end, which every
call comes to, and strong fairness of `Answers`: the TCP stack of a peer that has gone
answers sends, if they go on, with a reset in the end. It assumes nothing of the
clients.
Nothing here assumes that interrupts end or that programs
leave critical sections: the program's code says so.

Deadlock is checked in `cycle` and `cdu_fifo`. The other runs say CHECK_DEADLOCK
FALSE because a bound of the run stops them: `StaysWithin` in the runs of
AgcScaler, `MaxLag` in `torque`, the end of the program in `instructions`, the
budgets in `ring_host`, scripts that have been sent in `sockets`. The engine itself
always has a tick, a delay, an instruction or a poll.

## Proofs

| theorem | statement | of |
|---|---|---|
| `TypesAndRadar` | `Spec => [](TypeOK /\ RadarGateBounded)` | AgcScaler |
| `NightWatchmanLatched` | `Spec => []TrippedIsLatched` | AgcScaler |
| `StandbyKeepsRestart` | `Spec => []StandbyHoldsRestartState` | AgcScaler |
| `NoRequestIsLost` | `Spec => RequestsServedOrReset` | AgcScaler |
| `ClockIsExact`, `Time6IsExact`, `TimerTypes` | `TSpec => []MissionClock`, `[]Time6CountsDown`, `[]TTypeOK` | AgcTimers |
| `OnePressOneSwitch`, `ShortPressIsIgnored` | `SSpec => ExitNeedsRelease`, `EntryNeedsHold` | AgcStandby |
| `AlarmsAreNotEarly`, `AlarmsAreNotMissed` | `MCSpec => []AlarmsAreEarned`, `[]WatchdogsBite` | MCWatchdog |
| `CycleTypes`, `ReturnAlwaysKept` | `Spec => [](TypeOK /\ ReturnIsKept)` | AgcCycle |
| `InterruptsAreInvisible` | `Spec => ProgramSpec`: AgcCycle implements AgcProgram | AgcCycle |
| `EveryInstructionInItsTime` | `MSpec => InstructionsTakeTheirTime` | MCCycle |
| `FifosStayInRange` | `Spec => []TypeOK` | CduFifo |
| `EveryFifoHasItsTurn`, `NeverTooFast` | `MSpec => []UpdatesInTurn`, `[]NeverAheadOfTheRate` | MCCduFifo |
| `PulsesAreQueued` | `Spec => QueueSpec`: CduFifo implements PulseQueue | CduFifo |
| `TorqueTypes`, `PulsesAreKept`, `GyroPulsesAreKept` | `Spec => [](TypeOK /\ DrivesKeepCount /\ GyrosKeepCount)` | TorqueDrives |
| `WordsKeepTypes` | `Spec => []TypeOK` | AgcInstructions |
| `BanksStayTogether` | `Spec => []BanksAgree` | AgcInstructions |
| `SumsOfIntegers`, `ProductsOfIntegers`, `QuotientsOfIntegers` | `Spec => SumsAreExact`, `ProductsAreExact`, `DivisionsAgree` | AgcInstructions |
| `RingTypes` | `Spec => []RTypeOK` | RingHost |
| `RingsImplementQueues` | `Spec => RingsAreQueues`: RingHost implements two BoundedQueues | RingHost |
| `HostsAccountIsTrue` | `MCSpec => []HostsAccountHolds` | MCRingHost |
| `HandedIsWhole`, `OneByteCostsOne` | `MCSpec => []PacketsAreWhole`, `[]OneByteOnePacket` | MCSockets |
| `OwnersKeepTheirBits`, `ListenersAgree` | `MCSpec => []BitsAreTheirOwners`, `[]ViewsAgree` | MCSockets |

They hold for every word length, every choice of the periods that satisfies
`PeriodAssumption`, the real ones included, every memory image, any number of
interrupts and of owed cycles, any FIFOs and rates, rings of any size and any
packets, any number of clients and of connections and whatever bytes are sent over
them. (The masks of packets are octal digits of full words, so `IoAssumption`
fixes the width for RingHost and SocketServer: `HALF` is 040000 there.) TLC
evaluates the assumptions on the constants of every run. Those that say more than
types and orders are these:

- `DisciplineAssumption` (AgcCode): see AgcCycle below.
- `SupplyAssumption` (MCCduFifo): the slow interval is no shorter than the fast one,
  and the fast one longer than a round of the FIFOs, as 213, 13 and 3 are.
- `HostAssumption` (MCRingHost): the host counts one counter, fewer times than would
  take it past an end, and writes no channel that the program or a restart writes,
  except 33, of which each has its own bits. An account kept from outside can be true
  of nothing else.
- `StoryAssumption` (MCSockets): what the first client meant, where a story says so,
  are packets with their signatures, and one byte at most went wrong among them.
- `OwnershipAssumption` (MCSockets): over each connection the mask for channel 40
  comes before the values, and no bit is under the masks of two clients. This is
  the use of masks that `SocketAPI.c:234-237` allows for; a client that gives no
  mask owns every bit, and the others then write other channels. While clients send,
  the program of MCSockets writes nothing: an output to channel 40 is nobody's bit.

*AgcScaler.* `RadarGateBounded` is inductive together with the types. That the
counter never passes a full cycle needs its second part, that a full counter is
met only before the phase that consumes it, and this needs the third, that
standby, during which that phase consumes nothing, never begins with a full
counter: standby begins at the end of half a night, which is a TC phase past the
consuming one. The arithmetic of phases is in lemmas about `%` (a multiple of a
multiple is a multiple; the next phase of a nonzero phase), proved once.
The types say that `ExtraDelay` stays below 8: the field in the code has three
bits, and the sum of one pass is at most 6 because the timers count at different
phases. `TrippedIsLatched` follows from the circuit's two phases.
`StandbyHoldsRestartState` is inductive: nothing that would leave the state of
the restart is possible in standby, except requests from outside.
`RequestsServedOrReset` needs only that a tick adds requests or restarts.

*The histories.* Each property about the past has an invariant that says what the
fields of the machine remember of it. For the clock it is `ClockDigits`: TIME1 and
TIME2 are digits, never minus zero, so that the carry is the only way from one to
the other. For PRO it is `Released` (standby with `SbyStillPressed` clear has seen
PRO released) and `HeldSince` (the press counted by the circuit began no later than
the phase says). For the watchdogs it is `WatchdogIsHealthy`: for every phase of
the divider, how long the watchdog has not been fed at most if its flag says that it
was fed (`Due`), and at least if it says that it was not (`Earned`); the Night
Watchman, which is judged at two phases, has its own pair. That no alarm is early
and none missed are the two ends of the same invariant.

*AgcCycle.* The proofs assume `CodeAssumption`, the types of the constants, and
`DisciplineAssumption`, the discipline of the AGC's programs: only the code of
interrupts executes RESUME, it uses no EDRUPT, and neither kind of code runs into
the other. Without it the claim is false: EDRUPT in an interrupt overwrites ZRUPT
and BRUPT. `ReturnIsKept` is the inductive invariant: in an interrupt ZRUPT - 1
is an address of the program and BRUPT is the word there as some index of the
program made it; the word that RESUME restored waits only outside interrupts.
Each action either maps to a step of AgcProgram (Execute outside interrupts,
EDRUPT, restart) or changes none of its variables: entering an interrupt replaces
Z and the indexed word by ZRUPT - 1 and BRUPT, which are equal to them.
For the time of an instruction, `TimeInv` says that what has been spent on the
instruction that waits and what `PendDelay` still holds are its cycles. It needs
that the instruction is the same at its second decoding, and so that nothing which
comes between changes the indexed word or the extracode: owed cycles do not, a
restart clears `PendFlag`, and interrupts are kept out by it.

*CduFifo.* The types alone are not inductive: an entry whose count is zero would be
counted below it. `FifoInv` adds `EntriesInUse`, that every entry in use holds a
pulse; that two places of the ring are different slots is the lemma `SlotsInRing`.
`UpdatesInTurn` follows from the round: the checker passes every FIFO within a
round, and what is late waits for the rest of it. `NeverAheadOfTheRate` has
`Unhurried`: what a FIFO has earned and the time to its next update make up a fast
interval at least, so that making up for a late update spends only what was earned.
For the refinement, `EntriesAlternate` says that neighbouring entries are of
different types: without it a full ring could hold fewer runs than slots, and a
dropped pulse would be one for which the abstract queue has room. Pushing appends one pulse to the flattening of the
entries (`PulsesAppend` and its neighbours), whether it makes an entry or joins one,
and is refused when the abstract queue has as many runs as the ring has slots;
applying takes the first. `FlattenIs` in DataLemmas gives the community module's
recursive `FlattenSeq` its equations, from the existence of the function it chooses.

*TorqueDrives.* The two accounts are inductive together with the types: a burst
moves pulses from what waits to what is sent (`BurstIsTakenOff`), taking a count
moves them from the counter to what waits, and a new gyro count is taken only
after the old one has been sent whole, so that what waits always belongs to the
gyro selected when it was taken. The proof leaves the number of drives, the
intervals and the burst sizes open, and makes no assumption on the program.

*AgcInstructions.* The types are proved for all 21 instructions: `Typed` is what
holds of the machine in the middle of one, kept by every step an instruction is made
of, and `FinishTyped` what the end of the instruction makes of it. Three of
the operators are recursive functions: `And`, the steps of the hardware's division
and `Weight`, the weights of their digits.
That a set of numbers has a least member (`LeastNat`) is proved from the
well-foundedness of finite sets, and with it that these functions are what their
equations say and stay in their range, by the least argument for which they would
not. `BanksMakeAgree` proves that the copying of EB, FB and BB at the end leaves
them in agreement whichever of them changed, if they agreed before. Sums are proved
through `Value`: what AddSP16 does to words, overflow correction and carry to the
integers (`SumAdds`, `CarryIsOverflow`), then per instruction, DAS last. Products go
through the double word of one sign bit and back (`DoubleWords`, `IntegerToWords`).
Quotients are proved of the digits in base `HALF` of the dividend's magnitude
(`HighDigit`, `LowDigit`). `Divided` is the invariant of the hardware's steps: after
some of them, the quotient and remainder so far and the digits that have not come in
make up the dividend, with the digits' weights `Weight` doubling from step to step;
the remainder may equal the divisor only if every digit of the quotient is 1, which is
what becomes of a quotient that is just too large. So the steps are a long division
(`StepsDivide`, `HardwareDivides`). On the other side, `CodeDividend` shows that the
cases of SpToDecent, borrowing included, give the double word of those digits in each
sign, except for the -0 of `dv_minus_zero`, and `CodeDivides` that each of the code's
divisions (of zero, by an equal magnitude, as C divides) leaves the same signed quotient
and remainder; elsewhere it calls the hardware's division itself.

*RingHost.* `RingInv` says that the indices of both rings are in range and that what
lies between them are packets. Putting appends to the contents and getting takes the
oldest, for every position of the indices (the two cases of wrapping), so each step
of host or engine is a step of both queues or leaves them alone. That packets survive
forming and parsing (`RoundTrip`) is arithmetic on digits of 8 and 64. The types need that every
handler of a packet leaves at most one output, which is in the ring before the next
packet is taken. `HostInv`, for the host's account, is about what is still in the
ring: there is an account that is true of the engine now, and the packets in the ring
lead from it, one by one, to the account that the host keeps. A write of the host
makes the way longer at its end, a packet taken by the engine shorter at its
beginning. What merging under a mask does to a channel is the same on both sides; for
channel 33, whose upper five bits the computer keeps, the lemmas on bits say that
merging and keeping are done in either order. Of those five bits the invariant says
that they are one of two values (`Latch`), all set or all but the warning's, and
`Carries` that a step of the engine takes the one that the history `warned` names to
the next: a warning shown, a write of the program with the warning on or off, a
restart, a packet. The rest of the invariant every such step leaves alone
(`Keeps`, `LampsKeep`, `ProgramKeeps`, `RestartKeeps`). That the counter is short of
its ends follows from the budget, and with it that one-complement counting is counting.

*SocketServer.* `ListenInv` says of every connection how the bytes received, the
bytes kept and the packets handled belong together (`Listened`): what is kept are the
last bytes, with the signatures that a packet begins with; no other last bytes have
them; and what was handled are the packets of what came before. Each way in which the
byte loop goes on, begins anew or shifts is one lemma (a byte more, a packet less).
`PacketsAreWhole` is then what it says of a client with no full packet. For one wrong
byte, `PacketsIn` is computed for whole packets, for whole packets with bytes before
or after them, and for a packet with one byte taken out or put in: the signatures
cannot match at any offset but the right one except in the packet that was hit.
`HearInv` is what listening needs: nobody sends, so that nothing but the program
writes the channels, and every client who hears agrees with the machine on channels 10
and 11 but for what it missed; an output tells all, the update of a newcomer tells the
newcomer all.
`OwnInv` follows the bytes from the scripts: what has come over a connection is the
beginning of one of its client's scripts, so that the packets handled are the first of
that script's packets (`HandedIsWhole`) and the assumption on the scripts is about
them; the engine's mask is the last that was handled; a full packet belongs to the
client being polled and is the next thing to be handled. A value of the client's own
sets its bits (`OwnBits`), one of another leaves them (`OthersBits`), which is
arithmetic on the fifteen digits of three words.

## Only model-checked

- Liveness, which the prover has no rules for: `HeldProIsObeyed`,
  `SecondPressWakes`, `UrgentIsServed`, `OrdersAreSent`, `LastKeyIsSeen`,
  `EveryoneIsHeard`, `NewcomersGetIn`.

Every other property of the runs that pass, each safety invariant, action property
and refinement, is stated by a theorem.

## Where code and comments disagree

Three runs show a disagreement as a counterexample:

- **Optics orders are not sent** (`optics_orders`). The change list names OPTXCMD
  and OPTYCMD; the drive takes OPTX and OPTY, the counters of where the optics
  stand. It sends them back as an order and clears them; the order stays.
- **A newcomer does not see the lamps** (`newcomer`). "update the client with all
  current output-port values": the lamps of the DSKY go out on channel 0163, which
  is in no table that the update reads, so that a client that connects shows the
  lamps of before until one of them changes.
- **DV takes -0 for a negative word** (`dv_minus_zero`). The conversion to a double
  integer compares the 16 bits of L with the -0 of 15 bits. Over a positive A it
  borrows from A: 1,-0 divided by 2 is -0. "making sure all of the signs are okay
  when one or more words are zero" is the comment there.

Others were met while reading and are described here only:

- The note of 01/29/24 has RADARUPT come "once a full radar cycle has had time to
  complete". The gate counter is cleared only at the end of a cycle: neither
  switching the activity bit off nor a restart clears it, and the end does not ask
  whether the bit is still on. After an abandoned cycle the next is shorter.
- "Clear channels 34 and 35, and don't let doing so generate a downrupt": the two
  writes are counted like the program's, and with one word already counted they
  leave one counted behind, so that the next lone word generates a DOWNRUPT.
- "The IMU CDU drive emits bursts every 600 ms": when the drive bits are cleared
  with pulses waiting and set again later, the bursts missed are made up one per
  call, on consecutive cycles.
- Standby does not hold the channels in reset. The note of 09/27/17 speaks of an
  ever-present GOJAM; the code restarts once, and a keystroke in standby leaves a
  request pending.
- No cycle is added after BZF and BZMF when they do not branch. The comment says
  one is, but neither `ExtraDelay` nor the timing tables hold it.
- The comment on the CDU FIFOs speaks of a fixed rate. An update that is late
  is followed by the next after less than an interval, since the next is due an
  interval after the last was due. What holds is `NeverAheadOfTheRate`: counted
  from when the FIFO was last empty, the rate is never exceeded.
- A core dump is to let the simulation resume "at exactly this point"
  (`agc_help.c:397-401`). It does not hold standby, the HANDRUPT traps, the flags of
  the watchdogs, the radar gate, the warning filter, the parity failure and the
  RESTART light; and a resumed machine always has a request for DOWNRUPT. Its cycle
  counter is read as 32 bits while the time of the next DOWNRUPT is read as 64, so
  that after 2^32 cycles the request is far away.
- `wasm.c:131-138` sets the rings up on the first call of the channel routine, and
  empties what was accepted before.
- The ring buffer holds "up to RINGBUFFER_ELEMENTS": one less, since full and empty
  must differ. `packet_read` returns the port shifted by 16 where its
  comment has it in bits 15 to 21.
- "At most one channel of input is handled per call" (`SocketAPI.c:150`): it is one
  packet per client, or a count, which ends the poll. A client that sends counts
  without end is the only one heard: `EveryoneIsHeard` holds because the packets of the
  clients of the model come to an end.
- A key or an uplink word overwrites the one before if its interrupt has not been
  served. `LastKeyIsSeen` is about the last one only.
- A snapshot for a newcomer begins at channel 010: what was last written to channels
  5 and 6 is not in it either.
- The division of C and the hardware's may differ in the sign of a zero quotient.

## Not modelled

Of the engine: fixed memory with its banks, the superbank and parity; the
instructions on channels as far as A is concerned (ChannelIO has what they do to
channels); SCALER2, which only counts on; the second fetch of a long instruction
finding another word than the first, which would need the counters of one module in
the memory of another. In AgcScaler the number of cycles between two ticks is left
open, which only adds behaviours. To AgcCycle a core dump is a request for DOWNRUPT.
Reading a rope and the text of a dump are file input and output.

Left out for good: the debugger, the command line, the downlink decoder and the
front ends (text and windows), the assemblers and compilers (sequential
translators), the other computers (separate programs), the flight software (the
engine's input), vendored libraries. Hazards that no property covers are listed
with the reason in `PROJECT.json`.
