# FakerTSN in TLA+

FakerTSN emulates a time-sensitive network: every switch, host and controller is
one process that forwards Ethernet frames between raw sockets, schedules them with
an enhanced gate control list (IEEE 802.1Qbv with a flow and a phase per entry)
and eliminates replicated frames (in the manner of IEEE 802.1CB). The program is
`src/tsn_app/src`; paths below are relative to it. This directory holds
specifications of its core, the TLC configurations that check them, and proofs
that TLAPS checks.

## 1. The system

### How a process runs

One thread runs the reactor loop (`networking/Reactor.cc`): `epoll_wait`, then one
handler at a time, level triggered. On top of it runs the handler of SIGRTMAX,
`onAlarm` (`timer/PQTimer.cc`), which calls the ticker whose address the expired
POSIX timer carries. Signal handlers do not nest (SIGRTMAX is masked while
`onAlarm` runs), but they preempt the loop between any two instructions. There are
no locks. So the grain of every model here is the same: **a ticker is one atomic
action; a reactor handler is cut wherever it reads or writes something a ticker
changes.**

### Components

| Component | State it keeps | Operations | Correct when |
|---|---|---|---|
| Inner buffer, queue context, transmission selection (`core/queue`) | per priority: a deque of frames, used and residual bytes | enqueue, drop, dequeue, getBy, removeBy; selection from the highest queue down | bytes are accounted, frames keep their order, each frame has one fate, a pass overlooks nothing |
| Gates and enhanced gate control list (`core/queue`) | open/closed per queue, current and next cursor | updateGates (in a ticker), isEarly/isLate by cursor | gates and cursor belong together; every entry is held for the interval of its successor (`GateControlTicker.cc:56`), and lateness does not add up |
| Send handler, EPOLLOUT interest (`networking`) | the interest set of the outbound socket | output, encode, sendto, disable interest | what can be sent is sent; no frame waits without a wake-up |
| Recovery function (`core/port/BaseRecoveryFunction`) | flow -> ordered intervals of sequence numbers | handle, checkRepetitive | no frame passes twice; what is eliminated without a copy having passed has a known reason |
| Timer and tickers (`timer`, `StartTicker`, `StopTicker`, `MonitorTicker`, `GateControlTicker`, `FlowTicker`) | a heap of tickers, armed POSIX timers | addTicker, start, onAlarm | every ticker is run once and not after its deletion; chains neither break nor fork |
| Time arithmetic (`timer/ITimer.h`) | none | conversion, differences with borrow | the nanoseconds of every time given to the kernel are in range |
| Flow application (`node/FlowApp`) | current flow, frames due, last frame size, numbers | setTimer, output, input, FlowTicker | numbers have no gaps, bursts have about the size of their flow and end |
| Forwarding (`core/forward`) | unicast and multicast tables | forward: look up, copy, input, arm | every table port gets exactly one copy |
| Receive handler, codec (`networking`) | none | decode, hand to forward or input | decoding inverts encoding as far as the fields are wide enough |
| Ports and port states (`core/port`) | sockets, handlers, a state nobody reads | createSocket, registerEventHandler, setState | what a failed port lacks is met before a run, or is not needed in it |
| Controller, command handlers (`node/TSNContorller`, `networking/CommandEventHandler`, `ControlEventHandler`) | one pending command per controller port | input, output, run/stop | the newest command reaches all nodes, in order and once; none is forgotten; the loop never turns without an effect; a run ends in time |
| Context, nodes, configurator, statistics, configuration, logging, reflection | process-wide singletons | built once at start | - |

Interaction along the data path: epoll -> RecvTSNFrameEventHandler ->
ForwardFunction::forward -> for every outbound port DataPort::input -> recovery
function -> queue -> (EPOLLOUT enabled) -> SendTSNFrameEventHandler ->
TransmissionSelection -> gate -> selection algorithm -> inner buffer -> sendto.
Along the control path: a run command reaches ControlEventHandler, which adds a
start and a stop ticker to the timer and calls start(); the start ticker calls
setTimer on every port; gate and flow tickers re-register themselves.

### What is hard

* **Preemption of a handler by a ticker**: the gate tested before the scan, the
  cursor read twice per frame, EPOLLOUT disabled after the last gate test, the
  frame count decremented with a load and a store, start() run by the loop and by
  the handler over the same heap.
* **Order and loss in the network**: copies of a frame come over paths of
  different delay, some are lost; numbers are uint16 and wrap.
* **Lifetime**: tickers are known by address to the heap, the kernel and start();
  onAlarm deletes them.
* **Limits**: queue capacity in unsigned counters, POSIX timers, intervals near
  zero, a flow id of type long in a tag of one byte.
* **Time**: every ticker expires late; what it makes up for is measured with a
  clock that may be set.
* **Commands and partial failure**: a command replaces one not yet sent; a port
  that could not be built is only logged; a node that cannot parse a command ends.

PROJECT.json lists the hazards one by one, each at its line, with the properties
that would catch it, or the reason why none does yet.

## 2. Modules

| Module | Models | State <-> code |
|---|---|---|
| `FrameChannel` | abstract: what an egress port promises, one lossy FIFO per priority | - |
| `EgressPort` | queues, gates, list, selection, send handler, EPOLLOUT interest of one switch port | `buffer`, `residual`, `used` = InnerBuffer; `gateOpen` = TransmissionGate; `currentCursor`, `nextCursor` = EnhancedGateControlList; `armed` = interest set; `pc`, `queue`, `cursor`, `inHand` = the stack of handle_event |
| `EgressSlots` | EgressPort with the timing assumption and fairness | `work` counts loop steps per slot |
| `SequenceRecovery` | abstract: elimination as a set of numbers | - |
| `FrameRecorder` | the operators of BaseRecoveryFunction::checkRepetitive on one flow's list | a list = the vector of entries in m_flowSeqMap |
| `RecoveryFunction` | BaseRecoveryFunction with a talker that may restart and its paths, on FrameRecorder | `recorder` = m_flowSeqMap; `counter` = Flow::seq; `inTransit` = the network |
| `RelayNetwork` | receive handler, ForwardFunction, both tables and the recovery function of every port, in a network | `profile`, `multicast` = what the tables hold and which is searched; `link` = queues and wire of a port; `recorder` = m_flowSeqMap of each port; `recvbuf` = the receive buffer's place on the stack |
| `PQTimer` | the heap, POSIX timers, onAlarm, start() in the loop and in the handler | `object` = the C++ heap; `heap` = m_tickers; `pending`, `created` = kernel timers; `pc`, `ticker` = the stack of start() |
| `TimeArithmetic` | the operators of ITimer.h | a record of seconds and nanoseconds = TimePoint, TimeInterval |
| `TickerDrift` | a chain of gate, flow or monitor tickers in time, on TimeArithmetic | `expire`, `launch` = Ticker; `next` = m_nextCursor or flowIndex; `time`, `step` = the time that passes, and how far the clock is ahead of it |
| `FlowApp` | FlowApp, FlowTicker and the send handler of a host | `flowIndex`, `iframeCount`, `lastFrameSize`, `seq` as in the class; `flow`, `frameSize`, `loaded` = the stack of output()/input() |
| `FrameCodec` | encoding and decoding of VLAN tag, redundancy tag and length | a field on the wire = a pair of bytes |
| `TalkerPath` | FlowApp, FrameCodec and FrameRecorder composed: a talker, a switch and a listener | `recorder` = m_flowSeqMap of the port of the switch; `profile` = the flows of the talker; `stuck` = the queues of the switch |
| `PortLifecycle` | PortManager and CreationPortState with every failure of createSocket | `ports`, `console` = what the port objects hold; `proc` = the process |
| `ControlPlane` | the configurator's loop, console and controller ports, the nodes' consoles, start and stop tickers, on PortLifecycle | `batch` = the events of epoll_wait; `armed` = interest sets; `command` = TSNController::m_command; `buffered` = the buffer of std::cin; `waiting` = start tickers |
| `MC...` | instances for TLC | - |
| `ListLemmas` | lemmas on sequences (append, remove, insert) and on the lists of intervals of FrameRecorder | - |
| `X_proofs` | theorems about module X | - |

In each module an action is named after the function or the branch it stands for.
Operators called "Mutant of ..." describe plausible mistakes; the specifications
do not use them.

Configuration: the shipped one. `enhancedGCL=ture` in the ini files parses as true
(`utils/config/ConfigSetting.h:154-158`), so frames carry flow, phase and number,
and elimination is on. `enabledTSN` is `yes`. EgressPort and the modules on FlowApp
see one `run` command; PQTimer and ControlPlane see several.

### EgressPort

The send handler is cut at: the gate test, the match of the scanned frame, isEarly,
dequeue, sendto, and the disabling of EPOLLOUT. `Tick` may come between any two.
The buffers are touched by the loop only, and the loop runs a handler to its end,
so arrivals come only when `pc` is idle. `Arm` is a step of its own because
forward enables EPOLLOUT after input has returned. The selection algorithm is
chosen at the start and never changes. A frame has a history number `id`; `wire`,
`late`, `lost` and `arrivals` are history variables, `calm` remembers whether a
ticker has run since the current selection pass began.

Every frame has the same size: the receive handler passes ETH_DATA_LEN for all.

### RecoveryFunction

`WalksOn`, `Stop`, `Repetitive` and `Recorded` (in FrameRecorder) are checkRepetitive: where the walk
over the intervals stops, what it answers there, and what it leaves behind. A frame
is known by its place in `sent`, which holds the untruncated counter each frame
was numbered from; `Wire` truncates it. So the properties speak of frames and not
only of their numbers, and a frame may carry the number of another one: after the
counter wraps, or after `Restart`, where the talker's process begins again with 1
(`FlowApp.cc:212`) and the ports still hold the numbers of its earlier life.

### RelayNetwork

One handler is one step: a handler of a process runs to its end before the next,
and what it leaves on different links is taken by different processes at different
times, so nobody sees it half done. No ticker touches the state of this module.
`link` joins a port's queues and its wire into one FIFO that may lose any frame;
EgressPort, checked against FrameChannel, is why that is sound for one flow, which
has one priority.

What the code leaves open is chosen by the model. The multicast test compares one
byte behind `s_multicastPrefix`, a constant of the process: it is chosen at the
start, and decides between the group table and the individual one, which is
searched with the *source* address. The key of that search has two bytes that are
never written, so any search may miss (`NoRoute`). The result of `recv` is logged
and not tested; a failed call leaves the buffer as it was, whose stack bytes may be
the frame handled last (`RecvFails`). The random discard is reseeded with
`time(0)` for each frame, so discards of copies within a second go together:
`Discard` is free to fall on any copies. A copy that is discarded, misses its route
or is lost on the way counts as a fault, and `MaxFaults` bounds those; failures of
recv are not bounded. A port records the number when
its recovery function lets the frame pass, before the queue may drop it.

History: `delivered` and `repeated` (what the hosts were given), `unseen` (what a
port eliminated although no copy had passed it), `faults`, `recvFailed`.

### PQTimer

Addresses are reused, as malloc does; the heap hands out the lowest address first,
because the priority queue compares pointers (`PQTimer.h:21-25`). `ahead` says
whether the command left time for start() to finish before a timer expires. A step
of start() is a call on the queue or on a timer. `push` and `pop` of
std::priority_queue are many reads and writes of one vector, and between the calls
that belong together (size and top, pop and isPeriodic) the loop holds what a
handler may delete: `Torn` is a handler inside any of these, which is undefined
behaviour and is not followed further. If
the limit on timers is met, the program exits with failure (`PQTimer.cc:126`); a
pop of an empty heap and a call of a deleted ticker are undefined behaviour as
well. Each ends a behaviour in status "undefined".

### TimeArithmetic and TickerDrift

Both differences borrow a second when the nanoseconds do not suffice. The
conversion of an interval divides by the units of a second as the code does.
`Refused` and `Zero` are what timer_settime makes of an interval: with nanoseconds
out of range or a negative time it fails and the program exits, and a time of zero
disarms the timer.

An expiry is one action with two spans in it: `delay`, what passes from the arming
of a timer to the reading of the clock in the ticker beyond the interval asked
for, and `work`, from there to the reading of the clock in setTimer of the
successor. The timers are relative, so they follow the time that passes, while
`launch` and the deviation are readings of a clock that `SetClock` moves in either
direction, between two expiries. What the three kinds of ticker do differently is
in `Following` and `Interval2`: a gate ticker takes the entry after the one it
applied, a flow ticker its own, the monitor does not compensate.

### FlowApp, FrameCodec and TalkerPath

`iframeCount -= 1` and `+= 1` are a load and a store. A received frame also
increments that count, as input() does. The choice of a frame's size reads the count
and then the last size, each a step of its own. A burst is counted in a ticker and built
frame by frame in the loop, which a ticker may interrupt at each step to announce
the next flow.

FrameCodec has the widths of the fields: code point and phase one byte in the
body, the flow id a long in the profile and a byte in the tag, the number modulo
2^16, and the cut of a frame beyond ETH_FRAME_LEN. The drop bit is never set by the
program (it is whatever the stack holds), and so is chosen anew at each sending.

TalkerPath keeps FlowApp's grain for the talker. All that follows the send handler
is one step with it (`Convey`): the path keeps order and loses nothing, and no
later state of the talker can change what becomes of a frame. The switch knows a
flow by the byte of the tag in its recovery function, and by the number of the
profile in its gate control list; a frame whose byte no entry names stays in its
queue for ever (`stuck`).

### PortLifecycle and ControlPlane

`doAction` catches a failed createSocket, sets the state Down and goes on, so the
state of a port says nothing and is not modelled; what a port *has* is. An
`unbound` data port of a switch has sockets but neither queues nor a list. Its
outbound socket is registered for EPOLLOUT all the same, and before the console is,
so the first round of the reactor calls `output()` on a missing queue context and
the process dies before it can hear a command (`FirstRound`). A `blank`
port has no interface and ends the process while it is built. A console without a
socket is refused by epoll, which is logged, and hears nothing. A switch that is up
therefore has all its ports whole, and the start ticker finds what it sets; a host
needs none of what an unbound port lacks.

Two loops meet in ControlPlane. The configurator's is cut at every handler: `Wait`
takes a batch from epoll, and the handlers run in any order over it, whatever has
become of the interest sets meanwhile. `GetLine` is getline on std::cin, which
reads a line from a terminal and all there is from a pipe, so that lines may lie in
a buffer of which epoll knows nothing. The nodes' side is one action per handler or
ticker. A run command with a delay that is no number ends the configurator, one with
a run time that is none ends every node that hears it: std::stoi throws in both.
All clocks of ControlPlane agree, and a ticker that is due runs before the next
second; how tickers drift is the subject of TickerDrift.

## 3. Runs

| Run | Expected | Shows | Bounds |
|---|---|---|---|
| `egress` | pass | TypeOK, Accounting, ScanInBounds, Conservation, PassIsComplete, PassEnds, OnlyScheduledAgeOut; EgressPort implements FrameChannel | both algorithms, 2 queues, 3 entries, 5 streams, room for 2 frames per queue, 3 frames; 587 000 states |
| `egress_slots` | pass | ScheduledFrameLeaves | the same port, 2 frames, SlotWork = 10; 81 000 states |
| `lost_wakeup` | violation | NothingToBeSent | as egress, ErrorTolerance |
| `wrong_frame` | violation | TakesMatchedFrame | as egress, ErrorTolerance |
| `recovery` | pass | TypeOK, Canonical, RecordsWhatPassed, PassesOnce, EliminationExplained; implements SequenceRecovery | 1 flow, 2 paths, 7 numbers, 8 frames, 1 restart; 1 142 000 states |
| `recovery_reorder` | violation | EliminatesOnlyRepetitive | 3 frames, no wrap |
| `relay` | pass | TypeOK, GoodPathDelivers, DeliveredOnce, EachCopyIsNew, SinglePathEliminatesNothing, TrafficDies | the diamond of simulation_1 and a ring, 1 flow, 3 frames, 1 fault; 95 000 states |
| `timer_chains` | pass | TypeOK, TickersArmed, OneChainEach | 1 port and the monitor, 2 commands, 10 timers, 8 addresses; 4 840 000 states |
| `timer_prompt` | violation | CallsLiveTicker | 1 port |
| `gate_drift` | pass | TypeOK, OnlyWorkAccumulates, BreaksOnlyWhenLate | 3 lists, 2 flows, the monitor; 4 ns to a second, delays to 3 ns, work to 1 ns, the clock set once by -3 or +2, 5 expiries; 892 000 states |
| `flow_bursts` | pass | PathTypeOK, TagsArrive, ReachesUnlessFolded, BurstWithinOneFrame, NumberedInOrder, CountBounded, ComesToRest | 2 flows (size 40 and 30, Mtu 20, payload 18), 3 profiles, 3 tickers, 1 received frame; 67 000 states |
| `control_plane` | pass | TypeOK, ObeysInOrder, NewestReachesAll, EndsAtFirstStop, EachTurnCounts, EveryCommandTried | a switch and a host, 5 kinds of line, 2 lines, 2 seconds, 1 port fault, 1 lost command; 1 829 000 states |

Why the bounds are enough. *egress*: the streams include one that the list serves
on a closed queue and one it does not serve at all; three entries are the least at
which a frame can be early, matched and late; two frames fill a queue and the third
overflows it; three frames are the least at which a match stands behind an early
frame and before a late one. Tickers are not bounded: all state they change is
finite. *recovery*: eight frames over seven numbers wrap once; seven numbers leave
room for three intervals that do not meet, which is the least at which the walk
goes past one, stops at a second and merges with a third. *relay*: in the diamond a
flow is replicated at s2 and meets itself at the port of s3; in the ring s3 and s4
also send to each other. Three frames are the least at which a later copy fills the
gap between two recorded numbers; one fault is what replication over two disjoint
paths is meant to survive. A restart after any frame gives two frames of one number
without the wrap. *timer_chains*: two
commands give two chains for the port and two for the monitor, which share the heap,
and the second command is received while the chains of the first preempt start();
ten timers are enough for both start tickers and further rounds of the chains, and
also reach the limit, which ends a behaviour.
*gate_drift*: the lengths lie below, at and above a second, so every subtraction
borrows in some state; three nanoseconds of delay, alone or with the clock's
setting, are less than, equal to and more than an interval, which are the three
ways a chain goes on or breaks; five expiries come round every list.
*flow_bursts*: three tickers pass the end of the list of two flows
and preempt the building of a frame at every step; one received frame is enough to
lose an update; one flow's size is a multiple of the payload and one's is not; the
profiles are one that fits the tags, one with two flows that are equal in them and
one that no entry serves. The bytes of the tags are not made smaller: they are
checked with the widths they have. *control_plane*: two lines are the least that
overwrite each other, also between the sending to one node and to the other; the
second run starts in the second in which the first ends, and one of them comes
after its own stop; one fault makes each kind of port fail, and a node may still be starting when the
command comes.

Deadlock is checked in the runs on EgressPort. The others end: a bounded number of frames, commands,
tickers or seconds is used up, or the stop ticker has ended the process.

### Fairness and time

`ScheduledFrameLeaves` needs three things. The loop runs while epoll reports
an event (level-triggered; weak fairness of the loop). The kernel fires armed
timers and a run command was given (weak fairness of Start and Tick). And a slot
is long against the loop: between two ticks the loop takes at least `SlotWork`
steps, unless it has nothing to do. Without the last, tickers faster than a
selection pass can starve any frame. `SlotWork` = 10 is what a pass over two
queued frames takes at most; with 8 the property fails, with 10 it holds (and with
three frames it holds for 13). The shipped profiles have slots of one and two
seconds, in which the loop takes thousands of steps. Tick may still fall between any
two steps, so lost wake-ups do happen in this run: they delay a frame to a later
slot and do not hold it for ever. Arrivals owe no fairness.

`TrafficDies` assumes weak fairness of Receive for each port: epoll reports a
readable socket until it is read, and no handler waits. Losses and failures of recv
are never owed.

`ComesToRest` assumes weak fairness of the send loop only; tickers and received
frames are finite there.

`EveryCommandTried` assumes weak fairness of the configurator's loop: epoll is level
triggered, so a line that waits or an armed port is reported until it is served,
and a batch is worked through to its end. Nothing is owed by the network, the nodes
or the clock. It is claimed for a terminal only: from a pipe std::cin takes all
lines at once, and those after the first wait in its buffer until standard input is
ready again, and the model has such states. It says of a command that it was given
to sendto, or that a newer one took its place at that port: an overwritten command
is never sent. A delay that is no number ends the configurator and is excepted.

### How far a chain drifts

What the property says of the code: a change of gates comes when the previous one
was due, plus the interval that follows, plus the time a signal handler needed between its two
readings of the clock. Lateness of the kernel and settings of the clock are made
up for in the next interval and never add up; the work of the handlers does: a
drift of the length of that work per change, which no compensation of the
code takes back. The interval is the one the code uses, that of the entry after the
one applied; whether an entry should be held for its own is not judged here.

### Findings

Four statements of the repository are refuted, each with a trace of the model:

1. `lost_wakeup`: a gate ticker between the last gate test and
   `updateHandle(handle, 0)` (`SendTSNFrameEventHandler.cc:29`) has its wake-up
   overwritten. The port rests with an eligible frame in an open queue.
2. `wrong_frame`: a match at a cursor above zero dequeues the head
   (`ErrorToleranceTransmissionSelectionAlgorithm.cc:37`). This is also why the
   port keeps arrival order (`ImplementsChannel`): with the index the comment
   announces it would be no FIFO.
3. `recovery_reorder`: a number below the first interval counts as repetitive
   (`BaseRecoveryFunction.cc:75-76`), so a frame that is overtaken and whose other
   copy is lost never passes. `EliminationExplained` states what does hold.
4. `timer_prompt`: start() arms a ticker before it removes it
   (`PQTimer.cc:198-201`). When the start time has come already, as after
   `run 0 60` at the controller, the same ticker is armed twice and deleted once.
Two known limits are not statements of the repository and have no run of their own.
POSIX timers are created per ticker and never deleted (`PQTimer.cc:123`): with the
kernel's limit on them every run ends, after that many tickers; timer_chains
reaches it. And the last frame of a burst is empty exactly when the size is a
multiple of the payload (`FlowApp.cc:247-250`): `BurstWithinOneFrame` bounds what
this costs.

## 4. Proofs

TLAPS proves the following for every value of the constants, from the named
assumptions of the modules alone. Each theorem is of the form `Spec => []Property`,
unless it says otherwise.

`EgressPort_proofs` (every list, stream set, capacity, frame size, 1 to 8 queues):

* `TypeCorrect` and `ScanStaysInBounds`: TypeOK and ScanInBounds, proved together
  (`TypesInBounds`). Neither is inductive by itself: RemoveLate keeps `buffer` a
  sequence of frames only if the cursor is in it, and that the frame judged is still
  there needs the type of `buffer`.
* `AccountingCorrect`: Accounting, inductive relative to TypeCorrect;
  each of enqueue, dequeue and removeBy changes the length by one and the counters
  by the size of a frame (`OneMore` is the arithmetic).
* `PassComplete`: PassIsComplete says nothing of the
  queue under the scan, so it is strengthened to `PassInv`: in a pass no ticker
  disturbed, no frame before the cursor matches the current entry, the frame being
  judged does not, and EPOLLOUT stays enabled until Disable. `PrefixStep` keeps
  the prefix, also when a late frame is removed from under the cursor;
  `LeftQueueExhausted` turns a full prefix into an exhausted queue.
* `OnlyScheduledLate`: OnlyScheduledAgeOut.
* `FramesAreConserved`: Conservation, inductive relative to the types. It is stated
  without counting: the numbers of all frames, wherever they are, are 1 to
  `arrivals`, the places are disjoint, and no sequence holds a frame twice.
* `PassComesToEnd`: PassEnds, an action property. What is left of a pass is a pair
  of natural numbers, the queues to try and the frames to scan, which each step of the
  handler makes smaller in lexicographic order and no ticker changes. This is why
  `handle_event` always returns, for every number and length of queues and without
  a word about the speed of tickers.
* `PortImplementsChannel`: the refinement `ImplementsChannel`. A step of the port is a step of
  the FIFO of one code point, or a stutter. The invariant `Sorted` says that a frame
  is queued under its own code point; without it a dequeue might take from the
  wrong FIFO.

`RecoveryFunction_proofs`, with `ListLemmas` (every set of flows and paths,
size of the number space, number of frames and of restarts): RecoveryTypeCorrect,
ListsStayCanonical, ListRecordsWhatPassed, NoFramePassesTwice,
EveryEliminationExplained and the refinement `ListImplementsSet`. The lemmas speak of
one list: on a list in order the walk stops at the one place where the number
belongs (`StopSeparates`), it calls repetitive what is in an interval or below the
first (`RepetitiveByNumbers`), and what it leaves is in order and holds one number
more (`RecordedExact`, by the four cases of growing up, growing down, merging and
inserting). `RecoveryInv` joins these: every list is in order, holds exactly the
numbers that passed, no number passed twice, and each elimination is explained. No
part of it can do without the others: the walk is right on lists in order
only, and PassesOnce follows from what the list holds.

`TickerDrift_proofs` (every list, unit, delay and setting of the
clock): DriftTypeCorrect, LatenessIsMadeUp and ChainsBreakOnlyWhenLate. The lemmas
make records of seconds and nanoseconds into numbers (`MinusExact`, `ReadingExact`,
`IntervalExact`). `DriftInv` says what an armed ticker knows: its launch is a
reading of the clock, and its interval is what is left of the length that follows
after the lateness of its predecessor was taken off.

`TalkerPath_proofs` (every number of flows, all sizes, any profile):
`DecodeInvertsEncode` states what is left of a body after encoding and decoding, for
every body and drop bit; TagsAlwaysArrive, CountStaysBounded,
NumbersHaveNoGap, BurstsCarryTheirSize, EveryFrameAccounted and PathTypeCorrect. `BurstInv` follows the bytes of an
undisturbed burst through every step of the send handler: what it has carried, plus
what the frames still due will carry, is the size rounded to whole frames
(`WholeBurst` is the arithmetic). `ReachInv`, behind EveryFrameAccounted, says what the list of the port knows of
a flow: its entries are in order, and each number in it is that of a frame that was
sent with that byte, and 1 is among them once there is any, since talkers begin
with 1. So a frame that is taken for a copy has met another one, or has
the number 0 (`HeardOnce`, `SendReach`); the lemmas of `ListLemmas` carry it from
one frame to the next.

`ControlPlane_proofs` (every set of nodes and switches, number of ports, lines,
faults, losses and seconds): ControlTypeCorrect, NewestIsSent,
ObeyedInOrder, EndsInTime and TurnsComeToEnd. `NewestInv`: a controller port holds the newest
command, and if it is not armed it has tried it. `OrderInv`: what a node received, what is on the way to it and
what its controller port may still send are in strictly increasing order, and a
port that is in the batch is armed, which is why a stale EPOLLOUT cannot send a command twice. The same fact is behind
TurnsComeToEnd (EachTurnCounts, an action property): every event the loop serves takes
a line or clears a port that was armed, so lines, armed ports and an empty batch, in
that order, are a measure each turn makes smaller. It is the safety half of the
claim that the configurator comes to rest.

`RelayNetwork_proofs` (every network, with or without rings, every table, any number
of flows, frames and faults): TypeCorrect, GoodPath, ListenerOnce, CopiesEnterOnce and
UnseenBehindMeetings. They rest on `Net`: every list is in order and holds numbers
that were sent (`Passed`), what is on a link or in a receive buffer entered that link
before (`Entered`), and what hosts were given came over theirs. Each theorem adds
what it is about:

* `GoodPath`: `Accounted`, every number that entered a port whose copy was not lost
  is on its link still, or every port behind it has passed it, begun later, or handed it
  to its host. At rest the first is excluded, and what was passed along good ports
  contains everything `Reached` from the source (`ReachedLeast`).
* `ListenerOnce`: no link holds two copies of a frame, and what a host was given has
  entered its link and left it. A copy enters a link only with a number the port did not
  know, so it cannot come again. A host with two links, which have lists of their own, is
  excepted by the property.
* `CopiesEnterOnce`: EachCopyIsNew, an action property: each copy put on a link adds
  a number to the finite set that entered it, and none is ever forgotten. This is the
  safety half of TrafficDies, for every topology.
* `UnseenBehindMeetings`: at a port that is not `Behind` a meeting, numbers arrive in
  ascending order (`InTurn`), also when a failed recv repeats the last.

`PQTimer_proofs` (any number of ports, addresses, commands and timers, whatever cells
the allocator hands out): TypeCorrect, ChainsKeepTheirNumber and TickersStayArmed,
which has three lemmas, one for each part of TickersArmed: EveryTickerArmed, ArmedOnce
and AheadIsDefined. `TimerInv` has three parts besides the types. `Counts`
relates the living tickers of each kind to the commands and the start tickers run. `Kept`: a ticker that
lives is armed or waits in the heap or in the loop's hand. `AtFront` and `Exact` say
what the loop knows inside start(): the ticker it arms is the top of the heap unless
the handler has drained it, and if no timer may expire there, who waits is alive and
not armed yet. Preempted or not, the chains keep their number, because a ticker that
was armed twice has one cell, and its second call finds either nothing there, which
is undefined and ends the behaviour, or the ticker that moved in. The constants need
finitely many addresses, at least one, and finitely many ports.

Only model-checked: liveness under fairness, which is out of the prover's reach:
ScheduledFrameLeaves, TrafficDies, ComesToRest, EveryCommandTried. Every
invariant, action property and refinement that a passing run checks is proved.

## 5. Not modelled

Most lines of the repository are vendored headers and libraries (GoogleTest,
RapidJSON, TinyXML-2); the program itself is the small part under
`src/tsn_app/src`, and of that the models take the code with state and control.

* The plain gate control list and the 802.1Q queue (basic mode): every shipped profile selects the
  enhanced ones, and `GateControlList::getNextItem` returns null
  (`GateControlList.cc:91`), so the ticker of a plain list could not run twice.
* The fifo console and StdinEventHandler, which no shipped configuration uses.
* Loading of routes, schedules and flows from XML, configuration, reflection,
  logging, statistics, the link-layer sockets themselves: input, output and
  counters that nothing in the data path reads. The trie of the statistics is
  written by the loop and by tickers; the race is listed as a hazard.
* Code without callers: TimePoint - TimeInterval, converIntegerToTimePoint,
  removeItem, updateItem, removePeer and updatePeer of the tables,
  dequeue(index) of the buffer, setters of ports. The carry of TimePoint +
  TimeInterval is never taken, because the nanoseconds of one side are zero at
  every call.
* The sort of the flows (`FlowApp.cc:37`), whose comparator is no strict weak order: what
  std::sort does with equal flows is undefined. The models take the flows as sorted.
* A listener without flows that receives a frame: output() indexes an empty vector
  (`FlowApp.cc:187`). FlowApp assumes one flow at least.
* End of file on standard input; a clock that is set during the work of a signal
  handler; clocks of several nodes that differ.
* What a second run command does to the gates: ControlPlane shows when a node gets it
  and how the node ends, PQTimer that every port then has two chains. The two chains
  of a port share its cursor, which moves at twice the pace of the list; EgressPort, in
  which a tick may come at any time, holds for that too, TickerDrift follows one chain.
* The internals of malloc and of streams, which the signal handler also enters, are
  outside the source.
* `arpsniffer`, `minitcpip` and unused headers (separate tools).

## 6. What is left

In this order:

1. Composition: the links of RelayNetwork as instances of FrameChannel, and its
   talkers as FlowApp; a proof that RelayNetwork allows what such a link does.
2. The safety half of ComesToRest as an action property, as EachCopyIsNew is of
   TrafficDies and EachTurnCounts of the configurator's rest.
3. What a network of ports promises a listener as an abstract specification, which
   RelayNetwork implements.
