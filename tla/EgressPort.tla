----------------------------- MODULE EgressPort -----------------------------
(***************************************************************************)
(* The egress side of one data port of a switch: the per-priority inner    *)
(* buffers, the transmission gates driven by the enhanced gate control     *)
(* list, the selection of the next frame and the EPOLLOUT interest of the  *)
(* outbound socket.                                                        *)
(*                                                                         *)
(* The process has one thread.  The reactor loop runs one event handler at *)
(* a time, but the gate ticker runs in the SIGRTMAX handler, on top of     *)
(* whatever the loop is doing.  Tick is therefore one atomic action, while *)
(* SendTSNFrameEventHandler::handle_event is cut at every read or write of *)
(* state that Tick changes: the gate, the current item, the current index  *)
(* and the EPOLLOUT interest.  The buffers are touched by the loop only.   *)
(*                                                                         *)
(* The configuration is the shipped one: enhancedGCL and enabledTSN are    *)
(* set, and a run command is given once.                                   *)
(***************************************************************************)
EXTENDS Integers, Sequences, SequencesExt

CONSTANTS
    NumQueues,      \* switch.queue.number: one queue per priority code point
    Length,         \* number of entries of the gate control list
    Gcl,            \* index -> the (flow, phase) an entry serves and the gates it opens
    Streams,        \* the (flow, phase, pcp) triples that frames may carry
    Algorithms,     \* what switch.queue.transmissionSelectionAlgorithm may name
    Capacity,       \* switch.queue.capacity, in bytes
    FrameBytes,     \* bytes of every frame: RecvTSNFrameEventHandler always sets ETH_DATA_LEN
    MaxArrivals     \* bound: frames received in a behaviour

Queues == 0 .. NumQueues - 1
Entries == 0 .. Length - 1
Item == [flow : Nat, phase : Nat, gates : SUBSET Queues]
Stream == [flow : Nat, phase : Nat, pcp : Queues]
Frame == [id : Nat, flow : Nat, phase : Nat, pcp : Queues]

ASSUME EgressAssumption ==
    /\ NumQueues \in 1 .. 8
    /\ Length \in Nat \ {0}
    /\ Gcl \in [Entries -> Item]
    /\ Streams \subseteq Stream
    /\ Algorithms \subseteq {"ErrorTolerance", "PriorityStrict"}
    /\ Capacity \in Nat
    /\ FrameBytes \in Nat \ {0}
    /\ MaxArrivals \in Nat

NoFrame == [id |-> 0, flow |-> 0, phase |-> 0, pcp |-> 0]

VARIABLES
    algorithm,      \* the selection algorithm the queues were constructed with
    buffer,         \* InnerBuffer::m_buffer of every queue
    residual,       \* InnerBuffer::m_residualCapacity
    used,           \* InnerBuffer::m_usedCapacity
    gateOpen,       \* TransmissionGate::m_isOpen
    currentCursor,  \* EnhancedGateControlList::m_currentCursor
    nextCursor,     \* EnhancedGateControlList::m_nextCursor
    running,        \* the start ticker has fired: gate tickers recur
    armed,          \* EPOLLOUT is in the outbound socket's interest set
    pc,             \* where the reactor loop is in the handlers of this port
    queue,          \* the queue TransmissionSelection::dequeue is trying
    cursor,         \* the scan position of ErrorTolerance...::dequeue
    inHand,         \* the dequeued frame that handle_event is encoding
    arrivals,       \* history: number of frames received so far
    wire,           \* history: frames passed to sendto with success
    late,           \* history: frames removed as late
    lost,           \* history: frames eliminated, dropped at a full queue or failed by sendto
    calm            \* history: no Tick since the last selection pass began

buffers == <<buffer, residual, used>>
schedule == <<gateOpen, currentCursor, nextCursor, running>>
locals == <<pc, queue, cursor, inHand>>
history == <<arrivals, wire, late, lost>>
vars == <<algorithm, buffers, schedule, armed, locals, history, calm>>

-----------------------------------------------------------------------------
\* Operators

\* TransmissionGate states after EnhancedGateControlList::updateGates applied entry k.
GatesOf(k) == [q \in Queues |-> q \in Gcl[k].gates]

\* The test "is match?" of ErrorTolerance...::dequeue against entry k.
Matches(f, k) == f.flow = Gcl[k].flow /\ f.phase = Gcl[k].phase

\* Mutant of IsEarly: early when an entry from the current one on serves the frame.
IsEarlyByFuture(f) == \E k \in Entries : k >= currentCursor /\ Matches(f, k)

\* ErrorTolerance...::isEarly: no entry before the current one serves the frame.
IsEarly(f) == \A k \in Entries : k < currentCursor => ~Matches(f, k)

\* The frame InnerBuffer::getBy(cursor) returns.
Scanned == buffer[queue][cursor + 1]

\* A frame the selection algorithm would pass to the gate now.
Eligible(f) == algorithm = "PriorityStrict" \/ Matches(f, currentCursor)

\* Room for one more frame in the inner buffer of queue q.
Fits(q) == FrameBytes <= residual[q]

\* Accounting of InnerBuffer when a frame leaves queue q.
Release(q) ==
    /\ residual' = [residual EXCEPT ![q] = @ + FrameBytes]
    /\ used' = [used EXCEPT ![q] = @ - FrameBytes]

-----------------------------------------------------------------------------
\* The port after createSocket (which runs the first updateGates) and
\* registerEventHandler (which registers the outbound socket for EPOLLOUT).
Init ==
    /\ algorithm \in Algorithms
    /\ buffer = [q \in Queues |-> <<>>]
    /\ residual = [q \in Queues |-> Capacity]
    /\ used = [q \in Queues |-> 0]
    /\ gateOpen = GatesOf(0)
    /\ currentCursor = 0
    /\ nextCursor = 1 % Length
    /\ running = FALSE
    /\ armed = TRUE
    /\ pc = "idle"
    /\ queue = 0
    /\ cursor = 0
    /\ inHand = NoFrame
    /\ arrivals = 0
    /\ wire = <<>>
    /\ late = {}
    /\ lost = {}
    /\ calm = TRUE

(***************************************************************************)
(* Arrivals: ForwardFunction::forward hands a copy of a frame to the port. *)
(***************************************************************************)

NewFrame(s) ==
    [id |-> arrivals + 1, flow |-> s.flow, phase |-> s.phase, pcp |-> s.pcp]

\* DataPort::input keeps the frame: InnerBuffer::enqueue accepts it.
Accept(s) ==
    /\ pc = "idle" /\ arrivals < MaxArrivals /\ Fits(s.pcp)
    /\ buffer' = [buffer EXCEPT ![s.pcp] = Append(@, NewFrame(s))]
    /\ residual' = [residual EXCEPT ![s.pcp] = @ - FrameBytes]
    /\ used' = [used EXCEPT ![s.pcp] = @ + FrameBytes]
    /\ arrivals' = arrivals + 1
    /\ pc' = "arm"
    /\ UNCHANGED <<algorithm, schedule, armed, queue, cursor, inHand, wire, late, lost, calm>>

\* InnerBuffer::enqueue drops the frame: it does not fit.
Overflow(s) ==
    /\ pc = "idle" /\ arrivals < MaxArrivals /\ ~Fits(s.pcp)
    /\ lost' = lost \cup {NewFrame(s)}
    /\ arrivals' = arrivals + 1
    /\ pc' = "arm"
    /\ UNCHANGED <<algorithm, buffers, schedule, armed, queue, cursor, inHand, wire, late, calm>>

\* The recovery function of the port eliminates the copy before enqueue.
Eliminate(s) ==
    /\ pc = "idle" /\ arrivals < MaxArrivals
    /\ lost' = lost \cup {NewFrame(s)}
    /\ arrivals' = arrivals + 1
    /\ pc' = "arm"
    /\ UNCHANGED <<algorithm, buffers, schedule, armed, queue, cursor, inHand, wire, late, calm>>

\* forward enables EPOLLOUT, whatever became of the copy.
Arm ==
    /\ pc = "arm"
    /\ armed' = TRUE
    /\ pc' = "idle"
    /\ UNCHANGED <<algorithm, buffers, schedule, queue, cursor, inHand, history, calm>>

(***************************************************************************)
(* SendTSNFrameEventHandler::handle_event.                                 *)
(***************************************************************************)

\* epoll reports the socket writable: TransmissionSelection starts at the last queue.
Serve ==
    /\ pc = "idle" /\ armed
    /\ pc' = "gate"
    /\ queue' = NumQueues - 1
    /\ calm' = TRUE
    /\ UNCHANGED <<algorithm, buffers, schedule, armed, cursor, inHand, history>>

\* Mutant of NextQueue: the loop ends before queue 0.
NextQueueAboveZero ==
    IF queue <= 1
    THEN pc' = "disable" /\ UNCHANGED queue
    ELSE pc' = "gate" /\ queue' = queue - 1

\* The queue gave no frame: try the next lower one, or give up after queue 0.
NextQueue ==
    IF queue = 0
    THEN pc' = "disable" /\ UNCHANGED queue
    ELSE pc' = "gate" /\ queue' = queue - 1

\* TransmissionGate::dequeue finds the gate closed.
GateClosed ==
    /\ pc = "gate" /\ ~gateOpen[queue]
    /\ NextQueue
    /\ UNCHANGED <<algorithm, buffers, schedule, armed, cursor, inHand, history, calm>>

\* TransmissionGate::dequeue finds the gate open and calls the algorithm.
GateOpen ==
    /\ pc = "gate" /\ gateOpen[queue]
    /\ pc' = IF algorithm = "PriorityStrict" THEN "head" ELSE "scan"
    /\ cursor' = 0
    /\ UNCHANGED <<algorithm, buffers, schedule, armed, queue, inHand, history, calm>>

\* The scan read past the end of the buffer (or the strict queue is empty).
EndOfQueue ==
    /\ \/ pc = "scan" /\ cursor >= Len(buffer[queue])
       \/ pc = "head" /\ buffer[queue] = <<>>
    /\ NextQueue
    /\ UNCHANGED <<algorithm, buffers, schedule, armed, cursor, inHand, history, calm>>

\* The scanned frame matches the current item.
Match ==
    /\ pc = "scan" /\ cursor < Len(buffer[queue])
    /\ Matches(Scanned, currentCursor)
    /\ pc' = "head"
    /\ UNCHANGED <<algorithm, buffers, schedule, armed, queue, cursor, inHand, history, calm>>

\* It does not match: isEarly decides next.
NoMatch ==
    /\ pc = "scan" /\ cursor < Len(buffer[queue])
    /\ ~Matches(Scanned, currentCursor)
    /\ pc' = "judge"
    /\ UNCHANGED <<algorithm, buffers, schedule, armed, queue, cursor, inHand, history, calm>>

\* Mutant of SkipEarly: the index is not incremented.
SkipEarlyInPlace ==
    /\ pc = "judge" /\ IsEarly(Scanned)
    /\ pc' = "scan"
    /\ UNCHANGED <<algorithm, buffers, schedule, armed, queue, cursor, inHand, history, calm>>

\* An early frame is kept and the scan moves on.
SkipEarly ==
    /\ pc = "judge" /\ IsEarly(Scanned)
    /\ cursor' = cursor + 1
    /\ pc' = "scan"
    /\ UNCHANGED <<algorithm, buffers, schedule, armed, queue, inHand, history, calm>>

\* Mutant of RemoveLate: removeBy leaves the byte counters alone.
RemoveLateUncounted ==
    /\ pc = "judge" /\ ~IsEarly(Scanned)
    /\ late' = late \cup {Scanned}
    /\ buffer' = [buffer EXCEPT ![queue] = RemoveAt(@, cursor + 1)]
    /\ pc' = "scan"
    /\ UNCHANGED <<algorithm, residual, used, schedule, armed, queue, cursor, inHand,
                   arrivals, wire, lost, calm>>

\* Mutant of RemoveLate: the end of the buffer is not tested again.
RemoveLateAndGoOn ==
    /\ pc = "judge" /\ ~IsEarly(Scanned)
    /\ late' = late \cup {Scanned}
    /\ buffer' = [buffer EXCEPT ![queue] = RemoveAt(@, cursor + 1)]
    /\ Release(queue)
    /\ UNCHANGED <<algorithm, pc, schedule, armed, queue, cursor, inHand,
                   arrivals, wire, lost, calm>>

\* A late frame is removed by InnerBuffer::removeBy(cursor).
RemoveLate ==
    /\ pc = "judge" /\ ~IsEarly(Scanned)
    /\ late' = late \cup {Scanned}
    /\ buffer' = [buffer EXCEPT ![queue] = RemoveAt(@, cursor + 1)]
    /\ Release(queue)
    /\ pc' = "scan"
    /\ UNCHANGED <<algorithm, schedule, armed, queue, cursor, inHand, arrivals, wire, lost, calm>>

\* Mutant of TakeHead: the frame stays in the buffer.
TakeHeadByCopy ==
    /\ pc = "head" /\ buffer[queue] # <<>>
    /\ inHand' = Head(buffer[queue])
    /\ pc' = "send"
    /\ UNCHANGED <<algorithm, buffers, schedule, armed, queue, cursor, history, calm>>

\* Mutant of TakeHead: the newest frame is taken.
TakeNewest ==
    /\ pc = "head" /\ buffer[queue] # <<>>
    /\ inHand' = Last(buffer[queue])
    /\ buffer' = [buffer EXCEPT ![queue] = Front(@)]
    /\ Release(queue)
    /\ pc' = "send"
    /\ UNCHANGED <<algorithm, schedule, armed, queue, cursor, history, calm>>

\* InnerBuffer::dequeue() takes the head, also after a match further back.
TakeHead ==
    /\ pc = "head" /\ buffer[queue] # <<>>
    /\ inHand' = Head(buffer[queue])
    /\ buffer' = [buffer EXCEPT ![queue] = Tail(@)]
    /\ Release(queue)
    /\ pc' = "send"
    /\ UNCHANGED <<algorithm, schedule, armed, queue, cursor, history, calm>>

\* sendto succeeds; the frame body is deleted.
Transmit ==
    /\ pc = "send"
    /\ wire' = Append(wire, inHand)
    /\ inHand' = NoFrame
    /\ pc' = "idle"
    /\ UNCHANGED <<algorithm, buffers, schedule, armed, queue, cursor, arrivals, late, lost, calm>>

\* sendto fails; the frame body is deleted all the same.
SendError ==
    /\ pc = "send"
    /\ lost' = lost \cup {inHand}
    /\ inHand' = NoFrame
    /\ pc' = "idle"
    /\ UNCHANGED <<algorithm, buffers, schedule, armed, queue, cursor, arrivals, wire, late, calm>>

\* No queue gave a frame: handle_event clears the interest set.
Disable ==
    /\ pc = "disable"
    /\ armed' = FALSE
    /\ pc' = "idle"
    /\ UNCHANGED <<algorithm, buffers, schedule, queue, cursor, inHand, history, calm>>

(***************************************************************************)
(* The SIGRTMAX handler.                                                   *)
(***************************************************************************)

\* StartTicker: registers the first gate ticker and enables EPOLLOUT.
Start ==
    /\ ~running
    /\ running' = TRUE
    /\ armed' = TRUE
    /\ UNCHANGED <<algorithm, buffers, gateOpen, currentCursor, nextCursor, locals, history, calm>>

\* Mutant of UpdateGates: the next cursor does not wrap.
UpdateGatesUnwrapped ==
    /\ gateOpen' = GatesOf(nextCursor)
    /\ currentCursor' = nextCursor
    /\ nextCursor' = nextCursor + 1

\* EnhancedGateControlList::updateGates.
UpdateGates ==
    /\ gateOpen' = GatesOf(nextCursor)
    /\ currentCursor' = nextCursor
    /\ nextCursor' = (nextCursor + 1) % Length

\* Mutant of Tick: EPOLLOUT is not enabled again.
TickSilent ==
    /\ running
    /\ UpdateGates
    /\ calm' = FALSE
    /\ UNCHANGED <<algorithm, buffers, running, armed, locals, history>>

\* GateControlTicker: move to the next entry, re-register, enable EPOLLOUT.
Tick ==
    /\ running
    /\ UpdateGates
    /\ armed' = TRUE
    /\ calm' = FALSE
    /\ UNCHANGED <<algorithm, buffers, running, locals, history>>

-----------------------------------------------------------------------------
Arrive == \E s \in Streams : Accept(s) \/ Overflow(s) \/ Eliminate(s)

\* The steps of handle_event once it has been called.
HandlerStep ==
    \/ GateClosed \/ GateOpen \/ EndOfQueue
    \/ Match \/ NoMatch \/ SkipEarly \/ RemoveLate
    \/ TakeHead \/ Transmit \/ SendError \/ Disable

Next == Arrive \/ Arm \/ Serve \/ HandlerStep \/ Start \/ Tick

Spec == Init /\ [][Next]_vars

-----------------------------------------------------------------------------
\* Properties

\* Every variable has its type; the handler's locals make sense where they are used.
TypeOK ==
    /\ algorithm \in Algorithms
    /\ buffer \in [Queues -> Seq(Frame)]
    /\ residual \in [Queues -> Int] /\ used \in [Queues -> Int]
    /\ gateOpen \in [Queues -> BOOLEAN]
    /\ currentCursor \in Entries /\ nextCursor \in Entries
    /\ running \in BOOLEAN /\ armed \in BOOLEAN /\ calm \in BOOLEAN
    /\ pc \in {"idle", "arm", "gate", "scan", "judge", "head", "send", "disable"}
    /\ queue \in Queues /\ cursor \in Nat
    /\ inHand \in Frame
    /\ arrivals \in Nat
    /\ wire \in Seq(Frame) /\ late \subseteq Frame /\ lost \subseteq Frame

\* InnerBuffer's two byte counters always describe its content: the uint32
\* counters never wrap and a queue never holds more bytes than its capacity,
\* whichever of enqueue, dequeue and removeBy changed it.
Accounting ==
    \A q \in Queues :
        /\ used[q] = FrameBytes * Len(buffer[q])
        /\ residual[q] = Capacity - used[q]
        /\ residual[q] >= 0

\* The scan never points outside the buffer when the frame under the cursor is
\* used: judge and a match at cursor rely on a frame read before a preemption.
ScanInBounds ==
    /\ pc = "judge" => cursor < Len(buffer[queue])
    /\ pc = "head" /\ algorithm = "ErrorTolerance" => buffer[queue] # <<>>

InFlight == IF pc = "send" THEN {inHand} ELSE {}
Queued(q) == ToSet(buffer[q])
Left == InFlight \cup ToSet(wire) \cup late \cup lost
Fates == Left \cup UNION {Queued(q) : q \in Queues}

\* Every frame the port was given has exactly one fate, unaltered: it is queued once,
\* in the hands of the send handler, transmitted once, removed as late, or lost.  No
\* frame body is deleted twice, sent twice or leaked.
Conservation ==
    /\ {f.id : f \in Fates} = 1 .. arrivals
    /\ \A f, g \in Fates : f.id = g.id => f = g
    /\ IsInjective(wire) /\ \A q \in Queues : IsInjective(buffer[q])
    /\ \A p, q \in Queues : p # q => Queued(p) \cap Queued(q) = {}
    /\ \A q \in Queues : Queued(q) \cap Left = {}
    /\ InFlight \cap (ToSet(wire) \cup late \cup lost) = {}
    /\ ToSet(wire) \cap (late \cup lost) = {} /\ late \cap lost = {}

\* The queues a running selection pass has already passed over.
Passed(q) == \/ pc \in {"gate", "scan", "judge", "head"} /\ q > queue
             \/ pc = "disable"
             \/ pc = "idle" /\ ~armed

\* A selection pass that no gate ticker preempted overlooks nothing: a queue it
\* passed over has a closed gate or no eligible frame.  So a frame is taken only
\* when no higher queue could send, and EPOLLOUT is disabled only when nothing can.
PassIsComplete ==
    calm => \A q \in Queues : Passed(q) =>
        ~gateOpen[q] \/ \A f \in Queued(q) : ~Eligible(f)

\* What handle_event has still to do: queues to try, and then frames to scan in the
\* present one.
Ahead == Len(buffer[queue]) - cursor
ToGo ==
    CASE pc = "gate" -> <<queue + 2, 2 * Len(buffer[queue]) + 3>>
      [] pc = "scan" -> <<queue + 2, 2 * Ahead + 2>>
      [] pc = "judge" -> <<queue + 2, 2 * Ahead + 1>>
      [] pc = "head" -> <<queue + 2, 1>>
      [] pc \in {"send", "disable"} -> <<1, 0>>
      [] OTHER -> <<0, 0>>

Less(a, b) == a[1] < b[1] \/ (a[1] = b[1] /\ a[2] < b[2])

\* The scan loop has no bound of its own: it ends because each round skips a frame or
\* removes one.  Every step of handle_event comes nearer to its return, however often
\* tickers change in between what is early, late and open, so no speed of the tickers
\* and no length of the queues keeps the reactor loop from its other handlers.
PassEnds ==
    [][pc \notin {"idle", "arm"} /\ ~UNCHANGED <<buffers, locals>> =>
          ToGo' \in Nat \X Nat /\ Less(ToGo', ToGo)]_vars

\* Only frames of the schedule age out: a frame of a (flow, phase) that no entry
\* serves is never removed as late, however the cursor moves during the scan.
OnlyScheduledAgeOut == \A f \in late : \E k \in Entries : Matches(f, k)

\* What the port promises: one lossy FIFO per priority.  A frame in the hands of
\* the send handler is still at the head of its channel.
channel == [q \in Queues |->
    IF pc = "send" /\ inHand.pcp = q THEN <<inHand>> \o buffer[q] ELSE buffer[q]]
Channel == INSTANCE FrameChannel
    WITH channel <- channel, delivered <- wire, offered <- arrivals

\* The port implements that channel: per priority, frames leave in the order in
\* which they arrived, at most once each, whatever was removed from the middle.
ImplementsChannel == Channel!Spec

-----------------------------------------------------------------------------
\* Statements of the repository that the code does not keep

\* "Nothing to be sent" (SendTSNFrameEventHandler.cc:30): when the port rests
\* with EPOLLOUT disabled, no open queue holds an eligible frame.
NothingToBeSent ==
    pc = "idle" /\ ~armed =>
        \A q \in Queues : gateOpen[q] => \A f \in Queued(q) : ~Eligible(f)

\* "match frame" (ErrorTolerance...cc:35), NoFIFOAlgorithm with an index
\* (Queue.plantuml:79): the frame that leaves after a match is the one matched.
TakesMatchedFrame ==
    pc = "head" /\ algorithm = "ErrorTolerance" => Head(buffer[queue]) = Scanned
=============================================================================
