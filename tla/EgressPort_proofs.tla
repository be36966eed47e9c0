-------------------------- MODULE EgressPort_proofs --------------------------
(***************************************************************************)
(* Theorems about EgressPort for every gate control list, every number of  *)
(* queues, every capacity and every stream set.                            *)
(***************************************************************************)
EXTENDS EgressPort, ListLemmas

USE EgressAssumption

-----------------------------------------------------------------------------
\* Type correctness

LEMMA QueueTypes ==
    /\ Queues \subseteq Nat /\ 0 \in Queues /\ NumQueues - 1 \in Queues
    /\ \A q \in Queues : q # 0 => q - 1 \in Queues
BY DEF Queues

LEMMA CursorTypes ==
    /\ 0 \in Entries
    /\ \A k \in Entries : k \in Nat /\ (k + 1) % Length \in Entries
    /\ 1 % Length \in Entries
BY DEF Entries

\* A received frame is a frame of one of the queues.
LEMMA NewFrameType ==
    ASSUME TypeOK, NEW s \in Streams
    PROVE  NewFrame(s) \in Frame /\ s.pcp \in Queues
BY DEF TypeOK, NewFrame, Frame, Stream

\* The initial state is well typed.
LEMMA TypeInit == Init => TypeOK
<1> SUFFICES ASSUME Init PROVE TypeOK
  OBVIOUS
<1>1. GatesOf(0) \in [Queues -> BOOLEAN]
  BY DEF GatesOf
<1>2. NoFrame \in Frame
  BY QueueTypes DEF NoFrame, Frame
<1>3. /\ algorithm \in Algorithms
      /\ buffer \in [Queues -> Seq(Frame)]
      /\ residual \in [Queues -> Int] /\ used \in [Queues -> Int]
  BY EmptySeq DEF Init
<1>4. /\ gateOpen \in [Queues -> BOOLEAN]
      /\ currentCursor \in Entries /\ nextCursor \in Entries
      /\ running \in BOOLEAN /\ armed \in BOOLEAN /\ calm \in BOOLEAN
  BY <1>1, CursorTypes DEF Init
<1>5. /\ pc \in {"idle", "arm", "gate", "scan", "judge", "head", "send", "disable"}
      /\ queue \in Queues /\ cursor \in Nat /\ inHand \in Frame
      /\ arrivals \in Nat
      /\ wire \in Seq(Frame) /\ late \subseteq Frame /\ lost \subseteq Frame
  BY <1>2, QueueTypes, EmptySeq DEF Init
<1>6. QED
  BY <1>3, <1>4, <1>5 DEF TypeOK

\* One step keeps the types, provided the scan is inside the buffer.
LEMMA TypeStep == TypeOK /\ ScanInBounds /\ [Next]_vars => TypeOK'
<1> SUFFICES ASSUME TypeOK, ScanInBounds, [Next]_vars PROVE TypeOK'
  OBVIOUS
<1> USE DEF TypeOK, buffers, schedule, locals, history
<1>1. ASSUME NEW s \in Streams, Accept(s) PROVE TypeOK'
  <2>1. Append(buffer[s.pcp], NewFrame(s)) \in Seq(Frame)
    BY NewFrameType, AppendProperties
  <2>2. QED
    BY <1>1, <2>1, NewFrameType DEF Accept
<1>2. ASSUME NEW s \in Streams, Overflow(s) \/ Eliminate(s) PROVE TypeOK'
  BY <1>2, NewFrameType DEF Overflow, Eliminate
<1>3. CASE Arm \/ Serve \/ Disable
  BY <1>3, QueueTypes DEF Arm, Serve, Disable
<1>4. CASE GateClosed \/ GateOpen \/ EndOfQueue
  BY <1>4, QueueTypes DEF GateClosed, GateOpen, EndOfQueue, NextQueue
<1>5. CASE Match \/ NoMatch \/ SkipEarly
  BY <1>5 DEF Match, NoMatch, SkipEarly
<1>6. CASE RemoveLate
  <2>1. cursor + 1 \in 1 .. Len(buffer[queue])
    BY <1>6, LenProperties DEF RemoveLate, ScanInBounds
  <2>2. Scanned \in Frame
    BY <2>1, ElementOfSeq DEF Scanned
  <2>3. RemoveAt(buffer[queue], cursor + 1) \in Seq(Frame)
    BY <2>1, RemoveAtProperties
  <2>4. QED
    BY <1>6, <2>2, <2>3 DEF RemoveLate, Release
<1>7. CASE TakeHead
  <2>1. Head(buffer[queue]) \in Frame /\ Tail(buffer[queue]) \in Seq(Frame)
    BY <1>7, HeadTailProperties DEF TakeHead
  <2>2. QED
    BY <1>7, <2>1 DEF TakeHead, Release
<1>8. CASE Transmit \/ SendError
  <2>1. NoFrame \in Frame
    BY QueueTypes DEF NoFrame, Frame
  <2>2. Append(wire, inHand) \in Seq(Frame)
    BY AppendProperties
  <2>3. QED
    BY <1>8, <2>1, <2>2 DEF Transmit, SendError
<1>9. CASE Start
  BY <1>9 DEF Start
<1>10. CASE Tick
  <2>1. GatesOf(nextCursor) \in [Queues -> BOOLEAN]
    BY DEF GatesOf
  <2>2. QED
    BY <1>10, <2>1, CursorTypes DEF Tick, UpdateGates
<1>11. CASE UNCHANGED vars
  BY <1>11 DEF vars
<1>12. QED
  BY <1>1, <1>2, <1>3, <1>4, <1>5, <1>6, <1>7, <1>8, <1>9, <1>10, <1>11
     DEF Next, Arrive, HandlerStep

\* The handler uses a frame it read before only while that frame is in place.
LEMMA ScanStep == TypeOK /\ ScanInBounds /\ [Next]_vars => ScanInBounds'
<1> SUFFICES ASSUME TypeOK, ScanInBounds, [Next]_vars PROVE ScanInBounds'
  OBVIOUS
<1> USE DEF ScanInBounds, buffers, schedule, locals, history
<1>1. CASE Arrive
  BY <1>1 DEF Arrive, Accept, Overflow, Eliminate
<1>2. CASE Arm \/ Serve \/ Disable
  BY <1>2 DEF Arm, Serve, Disable
<1>3. CASE GateClosed \/ GateOpen \/ EndOfQueue
  BY <1>3 DEF GateClosed, GateOpen, EndOfQueue, NextQueue
<1>4. CASE Match \/ NoMatch \/ SkipEarly
  <2>1. Len(buffer[queue]) \in Nat /\ (buffer[queue] = <<>> => Len(buffer[queue]) = 0)
    BY LenProperties, EmptySeq DEF TypeOK
  <2>2. QED
    BY <1>4, <2>1 DEF Match, NoMatch, SkipEarly, TypeOK
<1>5. CASE RemoveLate \/ TakeHead \/ Transmit \/ SendError
  BY <1>5 DEF RemoveLate, TakeHead, Transmit, SendError
<1>6. CASE Start \/ Tick
  BY <1>6 DEF Start, Tick
<1>7. CASE UNCHANGED vars
  BY <1>7 DEF vars
<1>8. QED
  BY <1>1, <1>2, <1>3, <1>4, <1>5, <1>6, <1>7 DEF Next, HandlerStep

\* The two are kept together: the types rest on the bounds of the scan.
LEMMA TypesInBounds == Spec => [](TypeOK /\ ScanInBounds)
<1>1. Init => TypeOK /\ ScanInBounds
  BY TypeInit DEF Init, ScanInBounds
<1>2. TypeOK /\ ScanInBounds /\ [Next]_vars => (TypeOK /\ ScanInBounds)'
  BY TypeStep, ScanStep
<1>3. QED
  BY <1>1, <1>2, PTL DEF Spec

\* TypeOK: every variable keeps its type; what is taken from a buffer is a frame.
THEOREM TypeCorrect == Spec => []TypeOK
BY TypesInBounds, PTL

\* ScanInBounds: the frame under the cursor that the send handler is judging, or has
\* matched, is still in the buffer: nothing that preempts the handler takes it away.
THEOREM ScanStaysInBounds == Spec => []ScanInBounds
BY TypesInBounds, PTL

-----------------------------------------------------------------------------
\* Byte accounting of the inner buffers

LEMMA OneMore == \A b, n \in Nat : b * (n + 1) = b * n + b /\ b * n \in Nat
OBVIOUS

\* One more or one fewer frame keeps the counters in step with the content.
LEMMA AccountingStep ==
    TypeOK /\ ScanInBounds /\ Accounting /\ [Next]_vars => Accounting'
<1> SUFFICES ASSUME TypeOK, ScanInBounds, Accounting, [Next]_vars PROVE Accounting'
  OBVIOUS
<1> USE DEF Accounting, buffers, schedule, locals, history
<1>0. \A q \in Queues : Len(buffer[q]) \in Nat
  BY LenProperties DEF TypeOK
<1>1. ASSUME NEW s \in Streams, Accept(s) PROVE Accounting'
  <2>1. Len(Append(buffer[s.pcp], NewFrame(s))) = Len(buffer[s.pcp]) + 1
    BY NewFrameType, AppendProperties DEF TypeOK
  <2>2. FrameBytes * (Len(buffer[s.pcp]) + 1) = FrameBytes * Len(buffer[s.pcp]) + FrameBytes
    BY <1>0, NewFrameType, OneMore
  <2>3. /\ Len(buffer'[s.pcp]) = Len(buffer[s.pcp]) + 1
        /\ used'[s.pcp] = used[s.pcp] + FrameBytes
        /\ residual'[s.pcp] = residual[s.pcp] - FrameBytes
        /\ residual[s.pcp] >= FrameBytes
    BY <1>1, <2>1, NewFrameType DEF Accept, TypeOK, Fits
  <2>4. \A q \in Queues \ {s.pcp} :
           buffer'[q] = buffer[q] /\ used'[q] = used[q] /\ residual'[q] = residual[q]
    <3>1. DOMAIN buffer = Queues /\ DOMAIN used = Queues /\ DOMAIN residual = Queues
      BY DEF TypeOK
    <3> HIDE DEF Accounting
    <3>2. QED
      BY <1>1, <3>1 DEF Accept
  <2>5. /\ used'[s.pcp] = FrameBytes * Len(buffer'[s.pcp])
        /\ residual'[s.pcp] = Capacity - used'[s.pcp]
        /\ residual'[s.pcp] >= 0
    <3>1. used[s.pcp] \in Int /\ residual[s.pcp] \in Int
      BY NewFrameType DEF TypeOK
    <3>2. used[s.pcp] = FrameBytes * Len(buffer[s.pcp]) /\ residual[s.pcp] = Capacity - used[s.pcp]
      BY NewFrameType
    <3>3. used'[s.pcp] = FrameBytes * Len(buffer'[s.pcp])
      BY <2>2, <2>3, <3>2
    <3> HIDE DEF Accounting
    <3>4. QED
      BY <2>3, <3>1, <3>2, <3>3
  <2>6. QED
    BY <2>4, <2>5
<1>2. ASSUME NEW i \in 1 .. Len(buffer[queue]),
             Len(buffer'[queue]) = Len(buffer[queue]) - 1,
             \A q \in Queues \ {queue} : buffer'[q] = buffer[q],
             Release(queue)
      PROVE  Accounting'
  <2> DEFINE n == Len(buffer[queue]) - 1
  <2>1. n \in Nat /\ queue \in Queues
    BY <1>0 DEF TypeOK
  <2>2. /\ FrameBytes * Len(buffer[queue]) = FrameBytes * n + FrameBytes
        /\ FrameBytes * n \in Nat
    BY <1>0, <2>1, OneMore
  <2>3. /\ used'[queue] = FrameBytes * n
        /\ residual'[queue] = Capacity - FrameBytes * n
        /\ residual'[queue] = residual[queue] + FrameBytes
    BY <1>2, <2>1, <2>2 DEF Release, TypeOK
  <2>4. \A q \in Queues \ {queue} : used'[q] = used[q] /\ residual'[q] = residual[q]
    BY <1>2 DEF Release, TypeOK
  <2>5. residual'[queue] >= 0
    BY <2>1, <2>3 DEF TypeOK
  <2>6. /\ used'[queue] = FrameBytes * Len(buffer'[queue])
        /\ residual'[queue] = Capacity - used'[queue]
    BY <1>2, <2>3
  <2>7. QED
    BY <1>2, <2>4, <2>5, <2>6
<1>3. CASE RemoveLate
  <2>1. cursor + 1 \in 1 .. Len(buffer[queue]) /\ queue \in Queues
    BY <1>0, <1>3 DEF RemoveLate, ScanInBounds, TypeOK
  <2>2. Len(buffer'[queue]) = Len(buffer[queue]) - 1
    BY <1>3, <2>1, RemoveAtProperties DEF RemoveLate, TypeOK
  <2>3. QED
    BY <1>2, <1>3, <2>1, <2>2 DEF RemoveLate, TypeOK
<1>4. CASE TakeHead
  <2>1. Len(buffer'[queue]) = Len(buffer[queue]) - 1
    BY <1>4, HeadTailProperties DEF TakeHead, TypeOK
  <2>2. 1 \in 1 .. Len(buffer[queue])
    BY <1>0, <1>4, EmptySeq DEF TakeHead, TypeOK
  <2>3. QED
    BY <1>2, <1>4, <2>1, <2>2 DEF TakeHead, TypeOK
<1>5. CASE UNCHANGED buffers
  BY <1>5
<1>6. QED
  BY <1>1, <1>3, <1>4, <1>5
     DEF Next, Arrive, HandlerStep, Overflow, Eliminate, Arm, Serve, GateClosed, GateOpen,
         EndOfQueue, Match, NoMatch, SkipEarly, Transmit, SendError, Disable, Start, Tick, vars

\* The byte counters of every inner buffer describe its content and never leave
\* the range of uint32: no sequence of enqueue, dequeue and removeBy wraps them.
THEOREM AccountingCorrect == Spec => []Accounting
<1>1. Init => Accounting
  BY DEF Init, Accounting
<1>2. TypeOK /\ ScanInBounds /\ Accounting /\ [Next]_vars => Accounting'
  BY AccountingStep
<1>3. QED
  BY <1>1, <1>2, TypesInBounds, PTL DEF Spec

-----------------------------------------------------------------------------
\* A selection pass overlooks nothing

\* What a pass has established so far about the queue it is scanning, and that
\* EPOLLOUT stays enabled while a pass is under way.
PassPrefix ==
    /\ pc \in {"scan", "judge"} => algorithm = "ErrorTolerance"
    /\ pc \notin {"idle", "arm"} => armed
    /\ calm /\ pc \in {"scan", "judge"} =>
          \A i \in DOMAIN buffer[queue] :
              i <= cursor => ~Matches(buffer[queue][i], currentCursor)
    /\ calm /\ pc = "judge" => ~Matches(Scanned, currentCursor)

\* Nothing in queue q can be sent now.
Exhausted(q) == ~gateOpen[q] \/ \A f \in Queued(q) : ~Eligible(f)

\* The inductive invariant: the queues passed over are exhausted, and so far as
\* the scan has come, is the queue under the scan.
PassInv == PassPrefix /\ PassIsComplete

\* The prefix grows with the scan and survives the removal of late frames.
LEMMA PrefixStep ==
    TypeOK /\ ScanInBounds /\ PassPrefix /\ [Next]_vars => PassPrefix'
<1> SUFFICES ASSUME TypeOK, ScanInBounds, PassPrefix, [Next]_vars PROVE PassPrefix'
  OBVIOUS
<1> USE DEF PassPrefix, buffers, schedule, locals, history
<1>0. /\ Len(buffer[queue]) \in Nat /\ DOMAIN buffer[queue] = 1 .. Len(buffer[queue])
      /\ queue \in Queues /\ cursor \in Nat
  BY LenProperties DEF TypeOK
<1>1. CASE Arrive
  BY <1>1 DEF Arrive, Accept, Overflow, Eliminate
<1>2. CASE Arm \/ Serve \/ Disable
  BY <1>2 DEF Arm, Serve, Disable
<1>3. CASE GateClosed \/ EndOfQueue
  BY <1>3 DEF GateClosed, EndOfQueue, NextQueue
<1>4. CASE GateOpen
  <2>1. algorithm \in {"ErrorTolerance", "PriorityStrict"}
    BY EgressAssumption DEF TypeOK
  <2>2. QED
    BY <1>0, <1>4, <2>1 DEF GateOpen
<1>5. CASE Match \/ NoMatch
  BY <1>5 DEF Match, NoMatch, Scanned
<1>6. CASE SkipEarly
  <2>1. \A i \in DOMAIN buffer[queue] : i <= cursor + 1 => i <= cursor \/ i = cursor + 1
    BY <1>0
  <2>2. QED
    BY <1>6, <2>1 DEF SkipEarly, Scanned
<1>7. CASE RemoveLate
  <2>1. cursor + 1 \in 1 .. Len(buffer[queue])
    BY <1>0, <1>7 DEF RemoveLate, ScanInBounds
  <2>2. /\ buffer'[queue] = RemoveAt(buffer[queue], cursor + 1)
        /\ queue' = queue /\ cursor' = cursor /\ currentCursor' = currentCursor
        /\ pc = "judge" /\ pc' = "scan" /\ calm' = calm /\ armed' = armed
        /\ algorithm' = algorithm
    BY <1>0, <1>7 DEF RemoveLate, TypeOK
  <2>3. /\ DOMAIN buffer'[queue] = 1 .. Len(buffer[queue]) - 1
        /\ \A i \in DOMAIN buffer'[queue] : i <= cursor =>
              i \in DOMAIN buffer[queue] /\ buffer'[queue][i] = buffer[queue][i]
    <3> DEFINE b == buffer[queue]
               i == cursor + 1
    <3>1. b \in Seq(Frame) /\ i \in 1 .. Len(b) /\ buffer'[queue] = RemoveAt(b, i)
      BY <1>0, <2>1, <2>2 DEF TypeOK
    <3> HIDE DEF b, i
    <3>2. /\ RemoveAt(b, i) \in Seq(Frame)
          /\ Len(RemoveAt(b, i)) = Len(b) - 1
          /\ \A j \in 1 .. Len(b) - 1 :
                RemoveAt(b, i)[j] = IF j < i THEN b[j] ELSE b[j + 1]
      BY <3>1, RemoveAtProperties
    <3>3. DOMAIN buffer'[queue] = 1 .. Len(b) - 1
      BY <3>1, <3>2, LenProperties
    <3>4. \A j \in 1 .. Len(b) - 1 : j < i => buffer'[queue][j] = b[j]
      BY <3>1, <3>2
    <3>5. QED
      BY <1>0, <3>3, <3>4 DEF b, i
  <2>4. QED
    BY <2>2, <2>3 DEF Matches
<1>8. CASE TakeHead \/ Transmit \/ SendError
  BY <1>8 DEF TakeHead, Transmit, SendError
<1>9. CASE Start \/ Tick
  BY <1>9 DEF Start, Tick, Scanned
<1>10. CASE UNCHANGED vars
  BY <1>10 DEF vars, Scanned
<1>11. QED
  BY <1>1, <1>2, <1>3, <1>4, <1>5, <1>6, <1>7, <1>8, <1>9, <1>10 DEF Next, HandlerStep

\* When the handler leaves a queue without a frame, the queue is exhausted.
LEMMA LeftQueueExhausted ==
    ASSUME TypeOK, PassPrefix, calm, GateClosed \/ EndOfQueue
    PROVE  Exhausted(queue)
<1>1. CASE GateClosed
  BY <1>1 DEF GateClosed, Exhausted
<1>2. CASE pc = "scan" /\ cursor >= Len(buffer[queue])
  <2>1. \A i \in DOMAIN buffer[queue] : i <= cursor
    BY <1>2, LenProperties DEF TypeOK
  <2>2. algorithm = "ErrorTolerance" /\ \A f \in Queued(queue) : ~Matches(f, currentCursor)
    BY <1>2, <2>1 DEF PassPrefix, Queued, ToSet
  <2>3. QED
    BY <2>2 DEF Exhausted, Eligible
<1>3. CASE buffer[queue] = <<>>
  BY <1>3 DEF Exhausted, Queued, ToSet
<1>4. QED
  BY <1>1, <1>2, <1>3 DEF EndOfQueue

\* One step keeps the queues passed over exhausted.
LEMMA PassStep ==
    TypeOK /\ PassPrefix /\ PassIsComplete /\ [Next]_vars => PassIsComplete'
<1> SUFFICES ASSUME TypeOK, PassPrefix, PassIsComplete, [Next]_vars, calm',
                    NEW q \in Queues, Passed(q)'
             PROVE  Exhausted(q)'
  BY DEF PassIsComplete, Exhausted
<1> USE DEF buffers, schedule, locals, history
<1>0. calm /\ Passed(q) => Exhausted(q)
  BY DEF PassIsComplete, Exhausted
<1>1. CASE Arrive \/ Arm \/ Serve \/ TakeHead \/ Transmit \/ SendError
  <2>1. CASE Arrive \/ TakeHead
    BY <2>1 DEF Arrive, Accept, Overflow, Eliminate, TakeHead, Passed
  <2>2. CASE Arm
    BY <2>2 DEF Arm, Passed
  <2>3. CASE Serve
    BY <2>3 DEF Serve, Passed, Queues
  <2>4. CASE Transmit \/ SendError
    <3>1. armed /\ armed' = armed /\ pc' = "idle"
      BY <2>4 DEF Transmit, SendError, PassPrefix
    <3>2. QED
      BY <3>1 DEF Passed
  <2>5. QED
    BY <1>1, <2>1, <2>2, <2>3, <2>4
<1>2. CASE GateClosed \/ EndOfQueue
  <2>1. /\ UNCHANGED <<algorithm, buffer, gateOpen, currentCursor, calm>>
        /\ pc \in {"gate", "scan", "judge", "head"}
        /\ NextQueue
    BY <1>2 DEF GateClosed, EndOfQueue
  <2>2. q = queue \/ Passed(q)
    BY <2>1 DEF NextQueue, Passed, TypeOK, Queues
  <2>3. Exhausted(q)
    BY <1>0, <1>2, <2>1, <2>2, LeftQueueExhausted
  <2>4. QED
    BY <2>1, <2>3 DEF Exhausted, Queued, Eligible, Matches
<1>3. CASE GateOpen \/ Match \/ NoMatch \/ SkipEarly \/ Disable
  <2>1. UNCHANGED <<algorithm, buffer, gateOpen, currentCursor, calm>> /\ Passed(q)
    BY <1>3 DEF GateOpen, Match, NoMatch, SkipEarly, Disable, Passed
  <2>2. QED
    BY <1>0, <2>1 DEF Exhausted, Queued, Eligible, Matches
<1>4. CASE RemoveLate
  <2>1. /\ UNCHANGED <<algorithm, gateOpen, currentCursor, calm>>
        /\ Passed(q) /\ q # queue
        /\ buffer'[q] = buffer[q]
    <3>1. /\ UNCHANGED <<algorithm, gateOpen, currentCursor, calm>>
          /\ pc = "judge" /\ pc' = "scan" /\ queue' = queue
          /\ buffer' = [buffer EXCEPT ![queue] = RemoveAt(@, cursor + 1)]
      BY <1>4 DEF RemoveLate
    <3>2. q > queue /\ q # queue
      BY <3>1 DEF Passed, TypeOK, Queues
    <3>3. QED
      BY <3>1, <3>2 DEF Passed, TypeOK
  <2>2. QED
    BY <1>0, <2>1 DEF Exhausted, Queued, Eligible, Matches
<1>5. CASE Start \/ UNCHANGED vars
  <2>1. UNCHANGED <<algorithm, buffer, gateOpen, currentCursor, calm>> /\ Passed(q)
    <3>1. UNCHANGED <<algorithm, buffer, gateOpen, currentCursor, calm, pc, queue>>
      BY <1>5 DEF Start, vars
    <3>2. (armed' = TRUE \/ armed' = armed) /\ armed \in BOOLEAN
      BY <1>5 DEF Start, vars, TypeOK
    <3>3. ~armed' => ~armed
      BY <3>2
    <3>4. QED
      BY <3>1, <3>3 DEF Passed
  <2>2. QED
    BY <1>0, <2>1 DEF Exhausted, Queued, Eligible, Matches
<1>6. CASE Tick
  BY <1>6 DEF Tick
<1>7. QED
  BY <1>1, <1>2, <1>3, <1>4, <1>5, <1>6 DEF Next, HandlerStep

\* A selection pass that no gate ticker preempted overlooks nothing, under both
\* algorithms: higher queues had nothing eligible when a frame is taken, and no
\* open queue has anything eligible when EPOLLOUT is disabled.
THEOREM PassComplete == Spec => []PassIsComplete
<1>1. Init => PassInv
  BY DEF Init, PassInv, PassPrefix, PassIsComplete, Passed
<1>2. TypeOK /\ ScanInBounds /\ PassInv /\ [Next]_vars => PassInv'
  BY PrefixStep, PassStep DEF PassInv
<1>3. PassInv => PassIsComplete
  BY DEF PassInv
<1>4. QED
  BY <1>1, <1>2, <1>3, TypesInBounds, PTL DEF Spec

-----------------------------------------------------------------------------
\* What ages out

\* Only a frame that an entry before the current one serves is late, whatever ticker
\* moved the cursor between the scan and isEarly; so frames of no entry stay.
THEOREM OnlyScheduledLate == Spec => []OnlyScheduledAgeOut
<1> USE DEF OnlyScheduledAgeOut, Matches, buffers, schedule, locals, history
<1>1. Init => OnlyScheduledAgeOut
  BY DEF Init
<1>2. OnlyScheduledAgeOut /\ [Next]_vars => OnlyScheduledAgeOut'
  <2> SUFFICES ASSUME OnlyScheduledAgeOut, [Next]_vars PROVE OnlyScheduledAgeOut'
    OBVIOUS
  <2>1. CASE RemoveLate
    BY <2>1 DEF RemoveLate, IsEarly
  <2>2. CASE late' = late
    BY <2>2
  <2>3. QED
    BY <2>1, <2>2
       DEF Next, Arrive, HandlerStep, Accept, Overflow, Eliminate, Arm, Serve, GateClosed,
           GateOpen, EndOfQueue, Match, NoMatch, SkipEarly, TakeHead, Transmit, SendError,
           Disable, Start, Tick, vars
<1>3. QED
  BY <1>1, <1>2, PTL DEF Spec

-----------------------------------------------------------------------------
\* Every frame has one fate

\* Where the frames are, after a step that moves none of them.
LEMMA NothingMoves ==
    ASSUME Conservation, UNCHANGED <<buffer, wire, late, lost, arrivals>>, InFlight' = InFlight
    PROVE  Conservation'
<1>1. \A q : Queued(q)' = Queued(q)
  BY DEF Queued
<1>2. Left' = Left /\ Fates' = Fates
  BY <1>1 DEF Left, Fates
<1>3. QED
  BY <1>1, <1>2 DEF Conservation

\* A received frame has a number that no frame had before.
LEMMA ArrivalConserves ==
    ASSUME TypeOK, Conservation, NEW s \in Streams, Accept(s) \/ Overflow(s) \/ Eliminate(s)
    PROVE  Conservation'
<1> DEFINE f == NewFrame(s)
           p == s.pcp
<1>1. f \in Frame /\ p \in Queues /\ f.id = arrivals + 1 /\ arrivals \in Nat
  BY NewFrameType DEF TypeOK, NewFrame
<1> HIDE DEF f, p
<1>2. f \notin Fates /\ \A g \in Fates : g.id # f.id
  BY <1>1 DEF Conservation
<1>3. /\ arrivals' = arrivals + 1 /\ wire' = wire /\ late' = late
      /\ InFlight = {} /\ InFlight' = {}
  BY DEF Accept, Overflow, Eliminate, InFlight
<1>4. /\ \A q \in Queues : IsInjective(buffer'[q])
      /\ \/ /\ \A q \in Queues : Queued(q)' = IF q = p THEN Queued(q) \cup {f} ELSE Queued(q)
            /\ lost' = lost
         \/ /\ \A q \in Queues : Queued(q)' = Queued(q)
            /\ lost' = lost \cup {f}
  <2>1. CASE Accept(s)
    <3>1. /\ buffer' = [buffer EXCEPT ![p] = Append(buffer[p], f)] /\ lost' = lost
          /\ buffer \in [Queues -> Seq(Frame)]
      BY <2>1 DEF Accept, TypeOK, p, f
    <3>2. f \notin Queued(p) /\ IsInjective(buffer[p])
      BY <1>1, <1>2 DEF Fates, Conservation
    <3>3. /\ ToSet(Append(buffer[p], f)) = Queued(p) \cup {f}
          /\ IsInjective(Append(buffer[p], f))
      BY <1>1, <3>1, <3>2, AppendElements DEF Queued
    <3>4. \A q \in Queues : buffer'[q] = IF q = p THEN Append(buffer[p], f) ELSE buffer[q]
      BY <3>1
    <3>5. QED
      BY <3>1, <3>3, <3>4 DEF Queued, Conservation
  <2>2. CASE Overflow(s) \/ Eliminate(s)
    <3>1. buffer' = buffer /\ lost' = lost \cup {f}
      BY <2>2 DEF Overflow, Eliminate, buffers, f
    <3>2. QED
      BY <3>1 DEF Queued, Conservation
  <2>3. QED
    BY <2>1, <2>2
<1>5. Fates' = Fates \cup {f}
  BY <1>1, <1>3, <1>4 DEF Fates, Left
<1>6. {g.id : g \in Fates'} = 1 .. arrivals'
  <2>1. {g.id : g \in Fates'} = {g.id : g \in Fates} \cup {f.id}
    BY <1>5
  <2>2. QED
    BY <1>1, <1>3, <2>1 DEF Conservation
<1>7. \A g, h \in Fates' : g.id = h.id => g = h
  BY <1>2, <1>5 DEF Conservation
<1>8. IsInjective(wire')
  BY <1>3 DEF Conservation
<1>9. f \notin Left /\ \A q \in Queues : f \notin Queued(q)
  BY <1>2 DEF Fates
<1>10. /\ \A q, r \in Queues : q # r => Queued(q)' \cap Queued(r)' = {}
       /\ \A q \in Queues : Queued(q)' \cap Left' = {}
       /\ InFlight' \cap (ToSet(wire') \cup late' \cup lost') = {}
       /\ ToSet(wire') \cap (late' \cup lost') = {} /\ late' \cap lost' = {}
  <2>1. /\ \A q, r \in Queues : q # r => Queued(q) \cap Queued(r) = {}
        /\ \A q \in Queues : Queued(q) \cap Left = {}
        /\ ToSet(wire) \cap (late \cup lost) = {} /\ late \cap lost = {}
    BY DEF Conservation
  <2>2. CASE /\ \A q \in Queues : Queued(q)' = IF q = p THEN Queued(q) \cup {f} ELSE Queued(q)
             /\ lost' = lost
    <3>1. Left' = Left
      BY <1>3, <2>2 DEF Left
    <3>2. QED
      BY <1>3, <1>9, <2>1, <2>2, <3>1
  <2>3. CASE /\ \A q \in Queues : Queued(q)' = Queued(q)
             /\ lost' = lost \cup {f}
    <3>1. Left' = Left \cup {f} /\ f \notin ToSet(wire) /\ f \notin late
      BY <1>3, <1>9, <2>3 DEF Left
    <3>2. QED
      BY <1>3, <1>9, <2>1, <2>3, <3>1
  <2>4. QED
    BY <1>4, <2>2, <2>3
<1>11. QED
  BY <1>4, <1>6, <1>7, <1>8, <1>10 DEF Conservation

\* A frame e that leaves the queue under the scan goes to one other place.
LEMMA LeavingConserves ==
    ASSUME TypeOK, Conservation, NEW e, NEW rest \in Seq(Frame),
           Thinned(rest, buffer[queue], e), buffer' = [buffer EXCEPT ![queue] = rest],
           UNCHANGED <<wire, lost, arrivals>>, InFlight = {},
           \/ InFlight' = {e} /\ late' = late
           \/ InFlight' = {} /\ late' = late \cup {e}
    PROVE  Conservation'
<1>1. buffer \in [Queues -> Seq(Frame)] /\ queue \in Queues
  BY DEF TypeOK
<1>2. \A q \in Queues : buffer'[q] = IF q = queue THEN rest ELSE buffer[q]
  BY <1>1
<1>3. /\ e \in Queued(queue) /\ e \notin ToSet(rest) /\ IsInjective(rest)
      /\ ToSet(rest) = Queued(queue) \ {e}
  BY <1>1 DEF Thinned, Conservation, Queued
<1>4. \A q \in Queues : Queued(q)' = IF q = queue THEN Queued(q) \ {e} ELSE Queued(q)
  <2>1. \A q \in Queues : Queued(q)' = IF q = queue THEN ToSet(rest) ELSE Queued(q)
    BY <1>2 DEF Queued
  <2>2. QED
    BY <1>3, <2>1
<1>5. Left' = Left \cup {e}
  BY DEF Left
<1>6. Fates' = Fates
  <2>1. {e} \cup UNION {Queued(q)' : q \in Queues} = UNION {Queued(q) : q \in Queues}
    <3>1. ASSUME NEW g \in UNION {Queued(q) : q \in Queues}, g # e
          PROVE  g \in UNION {Queued(q)' : q \in Queues}
      BY <1>4, <3>1
    <3>2. ASSUME NEW g \in UNION {Queued(q)' : q \in Queues}
          PROVE  g \in UNION {Queued(q) : q \in Queues}
      BY <1>4, <3>2
    <3>3. e \in UNION {Queued(q) : q \in Queues}
      BY <1>1, <1>3
    <3>4. QED
      BY <3>1, <3>2, <3>3
  <2>2. QED
    BY <1>5, <2>1 DEF Fates
<1>7. \A q \in Queues : IsInjective(buffer'[q])
  BY <1>2, <1>3 DEF Conservation
<1>8. /\ \A q, r \in Queues : q # r => Queued(q)' \cap Queued(r)' = {}
      /\ \A q \in Queues : Queued(q)' \cap Left' = {}
  <2>1. /\ \A q, r \in Queues : q # r => Queued(q) \cap Queued(r) = {}
        /\ \A q \in Queues : Queued(q) \cap Left = {}
    BY DEF Conservation
  <2>2. \A q \in Queues : e \notin Queued(q)' /\ Queued(q)' \subseteq Queued(q)
    BY <1>1, <1>3, <1>4, <2>1
  <2>3. QED
    BY <1>5, <2>1, <2>2
<1>9. /\ InFlight' \cap (ToSet(wire') \cup late' \cup lost') = {}
      /\ ToSet(wire') \cap (late' \cup lost') = {} /\ late' \cap lost' = {}
  <2>1. e \notin Left
    BY <1>1, <1>3 DEF Conservation
  <2>2. QED
    BY <2>1 DEF Left, Conservation
<1>10. QED
  BY <1>6, <1>7, <1>8, <1>9 DEF Conservation

\* sendto gives the frame in hand to the wire or loses it.
LEMMA SendConserves ==
    ASSUME TypeOK, Conservation, Transmit \/ SendError
    PROVE  Conservation'
<1>1. /\ wire \in Seq(Frame) /\ inHand \in Frame
      /\ InFlight = {inHand} /\ InFlight' = {}
      /\ UNCHANGED <<buffer, late, arrivals>>
  BY DEF TypeOK, Transmit, SendError, InFlight, buffers
<1>2. inHand \notin ToSet(wire) /\ inHand \notin late /\ inHand \notin lost /\ IsInjective(wire)
  BY <1>1 DEF Conservation
<1>3. /\ IsInjective(wire')
      /\ \/ ToSet(wire') = ToSet(wire) \cup {inHand} /\ lost' = lost
         \/ wire' = wire /\ lost' = lost \cup {inHand}
  BY <1>1, <1>2, AppendElements DEF Transmit, SendError
<1>4. \A q : Queued(q)' = Queued(q)
  BY <1>1 DEF Queued
<1>5. Left' = Left
  BY <1>1, <1>3 DEF Left
<1>6. Fates' = Fates
  BY <1>4, <1>5 DEF Fates
<1>7. /\ InFlight' \cap (ToSet(wire') \cup late' \cup lost') = {}
      /\ ToSet(wire') \cap (late' \cup lost') = {} /\ late' \cap lost' = {}
  BY <1>1, <1>2, <1>3 DEF Conservation
<1>8. QED
  BY <1>1, <1>3, <1>4, <1>5, <1>6, <1>7 DEF Conservation

LEMMA ConservationStep ==
    ASSUME TypeOK, ScanInBounds, Conservation, [Next]_vars
    PROVE  Conservation'
<1> USE DEF buffers, schedule, locals, history
<1>0. buffer \in [Queues -> Seq(Frame)] /\ queue \in Queues
  BY DEF TypeOK
<1>1. CASE Arrive
  BY <1>1, ArrivalConserves DEF Arrive
<1>2. CASE RemoveLate
  <2>1. cursor + 1 \in DOMAIN buffer[queue]
    BY <1>0, <1>2, LenProperties DEF RemoveLate, ScanInBounds, TypeOK
  <2>2. /\ RemoveAt(buffer[queue], cursor + 1) \in Seq(Frame)
        /\ Thinned(RemoveAt(buffer[queue], cursor + 1), buffer[queue], Scanned)
    BY <1>0, <2>1, RemoveAtThins DEF Scanned
  <2>3. /\ buffer' = [buffer EXCEPT ![queue] = RemoveAt(buffer[queue], cursor + 1)]
        /\ UNCHANGED <<wire, lost, arrivals>> /\ late' = late \cup {Scanned}
        /\ InFlight = {} /\ InFlight' = {}
    BY <1>2 DEF RemoveLate, InFlight
  <2> DEFINE e == Scanned
             rest == RemoveAt(buffer[queue], cursor + 1)
  <2> HIDE DEF e, rest
  <2>4. /\ rest \in Seq(Frame) /\ Thinned(rest, buffer[queue], e)
        /\ buffer' = [buffer EXCEPT ![queue] = rest] /\ late' = late \cup {e}
    BY <2>2, <2>3 DEF e, rest
  <2>5. QED
    BY <2>3, <2>4, LeavingConserves
<1>3. CASE TakeHead
  <2>1. /\ Tail(buffer[queue]) \in Seq(Frame)
        /\ Thinned(Tail(buffer[queue]), buffer[queue], Head(buffer[queue]))
    BY <1>0, <1>3, TailThins DEF TakeHead
  <2>2. /\ buffer' = [buffer EXCEPT ![queue] = Tail(buffer[queue])]
        /\ UNCHANGED <<wire, lost, arrivals, late>>
        /\ InFlight = {} /\ InFlight' = {Head(buffer[queue])}
    BY <1>3 DEF TakeHead, InFlight
  <2> DEFINE e == Head(buffer[queue])
             rest == Tail(buffer[queue])
  <2> HIDE DEF e, rest
  <2>4. /\ rest \in Seq(Frame) /\ Thinned(rest, buffer[queue], e)
        /\ buffer' = [buffer EXCEPT ![queue] = rest] /\ InFlight' = {e}
    BY <2>1, <2>2 DEF e, rest
  <2>5. QED
    BY <2>2, <2>4, LeavingConserves
<1>4. CASE Transmit \/ SendError
  BY <1>4, SendConserves
<1>5. CASE Arm \/ Serve \/ GateClosed \/ GateOpen \/ EndOfQueue \/ Match \/ NoMatch \/ SkipEarly
           \/ Disable \/ Start \/ Tick \/ UNCHANGED vars
  <2>1. UNCHANGED <<buffer, wire, late, lost, arrivals, inHand>>
    BY <1>5 DEF Arm, Serve, GateClosed, GateOpen, EndOfQueue, Match, NoMatch, SkipEarly,
                Disable, Start, Tick, vars
  <2>2. (pc = "send") <=> (pc' = "send")
    BY <1>5 DEF Arm, Serve, GateClosed, GateOpen, EndOfQueue, NextQueue, Match, NoMatch,
                SkipEarly, Disable, Start, Tick, vars
  <2>3. InFlight' = InFlight
    BY <2>1, <2>2 DEF InFlight
  <2>4. QED
    BY <2>1, <2>3, NothingMoves
<1>6. QED
  BY <1>1, <1>2, <1>3, <1>4, <1>5 DEF Next, HandlerStep

\* Conservation: whatever the algorithms remove, wherever a ticker preempts them and
\* whether sendto fails or not, every frame the port was given is in exactly one place.
THEOREM FramesAreConserved == Spec => []Conservation
<1>1. Init => Conservation
  <2> SUFFICES ASSUME Init PROVE Conservation
    OBVIOUS
  <2>1. InFlight = {} /\ ToSet(wire) = {} /\ late = {} /\ lost = {} /\ \A q \in Queues : Queued(q) = {}
    BY DEF Init, InFlight, Queued, ToSet
  <2>2. Fates = {} /\ arrivals = 0
    BY <2>1 DEF Fates, Left, Init
  <2>3. IsInjective(wire) /\ \A q \in Queues : IsInjective(buffer[q])
    BY DEF Init, IsInjective
  <2>4. QED
    BY <2>1, <2>2, <2>3 DEF Conservation
<1>2. QED
  BY <1>1, TypesInBounds, ConservationStep, PTL DEF Spec

-----------------------------------------------------------------------------
\* The refinement

\* What the refinement needs: a frame is queued under its own code point.
Sorted == \A q \in Queues : \A i \in DOMAIN buffer[q] : buffer[q][i].pcp = q

\* A frame in the hands of the handler goes back to the head of its queue.
LEMMA PushHead ==
    ASSUME NEW S, NEW b \in Seq(S), NEW e \in S
    PROVE  /\ <<e>> \o b # <<>> /\ Head(<<e>> \o b) = e /\ Tail(<<e>> \o b) = b
           /\ 1 \in DOMAIN (<<e>> \o b) /\ RemoveAt(<<e>> \o b, 1) = b
<1> DEFINE c == <<e>> \o b
<1>1. /\ c \in Seq(S) /\ Len(c) = Len(b) + 1 /\ Len(b) \in Nat
      /\ \A i \in 1 .. Len(b) + 1 : c[i] = IF i = 1 THEN e ELSE b[i - 1]
  BY ConcatProperties, LenProperties
<1> HIDE DEF c
<1>2. c # <<>> /\ 1 \in 1 .. Len(c) /\ DOMAIN c = 1 .. Len(c)
  BY <1>1, LenProperties, EmptySeq
<1>3. Head(c) = e
  BY <1>1, <1>2
<1>4. Tail(c) = b
  <2>1. /\ Tail(c) \in Seq(S) /\ Len(Tail(c)) = Len(c) - 1
        /\ \A i \in 1 .. Len(Tail(c)) : Tail(c)[i] = c[i + 1]
    BY <1>1, <1>2, HeadTailProperties
  <2>2. Len(Tail(c)) = Len(b) /\ \A i \in 1 .. Len(b) : Tail(c)[i] = b[i]
    BY <1>1, <2>1
  <2>3. QED
    BY <2>1, <2>2, SeqEqual
<1>5. RemoveAt(c, 1) = b
  <2>1. /\ RemoveAt(c, 1) \in Seq(S) /\ Len(RemoveAt(c, 1)) = Len(c) - 1
        /\ \A i \in 1 .. Len(c) - 1 : RemoveAt(c, 1)[i] = IF i < 1 THEN c[i] ELSE c[i + 1]
    BY <1>1, <1>2, RemoveAtProperties
  <2>2. Len(RemoveAt(c, 1)) = Len(b) /\ \A i \in 1 .. Len(b) : RemoveAt(c, 1)[i] = b[i]
    BY <1>1, <2>1
  <2>3. QED
    BY <2>1, <2>2, SeqEqual
<1>6. QED
  BY <1>2, <1>3, <1>4, <1>5 DEF c

\* RemoveAt is the same operator on both sides.
LEMMA SameRemoveAt == \A s, i : Channel!RemoveAt(s, i) = RemoveAt(s, i)
BY DEF RemoveAt, Channel!RemoveAt

LEMMA PopHead ==
    ASSUME NEW S, NEW b \in Seq(S), b # <<>>
    PROVE  /\ <<Head(b)>> \o Tail(b) = b
           /\ Head(b) = b[1] /\ 1 \in DOMAIN b
           /\ \A i \in DOMAIN Tail(b) : i + 1 \in DOMAIN b /\ Tail(b)[i] = b[i + 1]
<1> DEFINE h == Head(b)
           t == Tail(b)
<1>1. /\ h \in S /\ t \in Seq(S) /\ Len(t) = Len(b) - 1 /\ h = b[1]
      /\ \A i \in 1 .. Len(t) : t[i] = b[i + 1]
  BY HeadTailProperties
<1>2. /\ Len(b) \in Nat \ {0} /\ DOMAIN b = 1 .. Len(b) /\ DOMAIN t = 1 .. Len(t)
  BY <1>1, LenProperties, EmptySeq
<1> HIDE DEF h, t
<1>3. /\ <<h>> \o t \in Seq(S) /\ Len(<<h>> \o t) = Len(b)
      /\ \A i \in 1 .. Len(b) : (<<h>> \o t)[i] = IF i = 1 THEN h ELSE t[i - 1]
  <2>1. <<h>> \in Seq(S) /\ Len(<<h>>) = 1 /\ <<h>>[1] = h
    BY <1>1
  <2>2. /\ <<h>> \o t \in Seq(S) /\ Len(<<h>> \o t) = 1 + Len(t)
        /\ \A i \in 1 .. 1 + Len(t) : (<<h>> \o t)[i] = IF i <= 1 THEN <<h>>[i] ELSE t[i - 1]
    BY <1>1, <2>1, ConcatProperties
  <2>3. QED
    BY <1>1, <1>2, <2>1, <2>2
<1>4. \A i \in 1 .. Len(b) : (<<h>> \o t)[i] = b[i]
  BY <1>1, <1>2, <1>3
<1>5. <<h>> \o t = b
  BY <1>3, <1>4, SeqEqual
<1>6. QED
  BY <1>1, <1>2, <1>5 DEF h, t

LEMMA SortedStep == TypeOK /\ ScanInBounds /\ Sorted /\ [Next]_vars => Sorted'
<1> SUFFICES ASSUME TypeOK, ScanInBounds, Sorted, [Next]_vars PROVE Sorted'
  OBVIOUS
<1> USE DEF buffers, schedule, locals, history
<1>0. buffer \in [Queues -> Seq(Frame)] /\ queue \in Queues
  BY DEF TypeOK
<1>1. ASSUME NEW p \in Queues, NEW b \in Seq(Frame),
             buffer' = [buffer EXCEPT ![p] = b], \A i \in DOMAIN b : b[i].pcp = p
      PROVE  Sorted'
  BY <1>0, <1>1 DEF Sorted
<1>2. ASSUME NEW s \in Streams, Accept(s) PROVE Sorted'
  <2> DEFINE p == s.pcp
             f == NewFrame(s)
             b == buffer[p]
             c == Append(b, f)
  <2>1. p \in Queues /\ f \in Frame /\ f.pcp = p
    BY NewFrameType DEF NewFrame
  <2>2. b \in Seq(Frame) /\ buffer' = [buffer EXCEPT ![p] = c]
    BY <1>0, <1>2, <2>1 DEF Accept
  <2>3. \A i \in DOMAIN b : b[i].pcp = p
    BY <2>1 DEF Sorted
  <2> HIDE DEF p, f, b
  <2>4. /\ c \in Seq(Frame) /\ DOMAIN c = 1 .. Len(b) + 1 /\ DOMAIN b = 1 .. Len(b)
        /\ Len(b) \in Nat
        /\ c[Len(b) + 1] = f /\ \A i \in 1 .. Len(b) : c[i] = b[i]
    BY <2>1, <2>2, AppendProperties, LenProperties
  <2> HIDE DEF c
  <2>5. \A i \in DOMAIN c : i \in DOMAIN b \/ i = Len(b) + 1
    BY <2>4
  <2>6. \A i \in DOMAIN c : c[i].pcp = p
    BY <2>1, <2>3, <2>4, <2>5
  <2>7. QED
    BY <1>1, <2>1, <2>2, <2>4, <2>6
<1>3. CASE RemoveLate
  <2> DEFINE b == buffer[queue]
             i == cursor + 1
             c == RemoveAt(b, i)
  <2>1. b \in Seq(Frame) /\ i \in 1 .. Len(b) /\ buffer' = [buffer EXCEPT ![queue] = c]
    BY <1>0, <1>3, LenProperties DEF RemoveLate, ScanInBounds, TypeOK
  <2>2. \A j \in DOMAIN b : b[j].pcp = queue
    BY <1>0 DEF Sorted
  <2> HIDE DEF b, i
  <2>3. /\ c \in Seq(Frame) /\ DOMAIN c = 1 .. Len(b) - 1 /\ DOMAIN b = 1 .. Len(b)
        /\ Len(b) \in Nat
        /\ \A j \in 1 .. Len(b) - 1 : c[j] = b[j] \/ c[j] = b[j + 1]
    BY <2>1, RemoveAtProperties, LenProperties
  <2> HIDE DEF c
  <2>4. \A j \in 1 .. Len(b) - 1 : j \in 1 .. Len(b) /\ j + 1 \in 1 .. Len(b)
    BY <2>3
  <2>5. \A j \in DOMAIN c : c[j].pcp = queue
    BY <2>2, <2>3, <2>4
  <2>6. QED
    BY <1>0, <1>1, <2>1, <2>3, <2>5
<1>4. CASE TakeHead
  <2> DEFINE b == buffer[queue]
             c == Tail(b)
  <2>1. b \in Seq(Frame) /\ b # <<>> /\ buffer' = [buffer EXCEPT ![queue] = c]
    BY <1>0, <1>4 DEF TakeHead
  <2>2. \A j \in DOMAIN b : b[j].pcp = queue
    BY <1>0 DEF Sorted
  <2> HIDE DEF b
  <2>3. c \in Seq(Frame) /\ \A j \in DOMAIN c : j + 1 \in DOMAIN b /\ c[j] = b[j + 1]
    BY <2>1, PopHead, HeadTailProperties
  <2> HIDE DEF c
  <2>4. \A j \in DOMAIN c : c[j].pcp = queue
    BY <2>2, <2>3
  <2>5. QED
    BY <1>0, <1>1, <2>1, <2>3, <2>4
<1>5. CASE buffer' = buffer
  BY <1>5 DEF Sorted
<1>6. QED
  BY <1>2, <1>3, <1>4, <1>5
     DEF Next, Arrive, HandlerStep, Overflow, Eliminate, Arm, Serve, GateClosed, GateOpen,
         EndOfQueue, Match, NoMatch, SkipEarly, Transmit, SendError, Disable, Start, Tick, vars

\* A frame that is taken out is still at the head of its channel.
LEMMA TakeHeadStutters ==
    ASSUME TypeOK, Sorted, TakeHead
    PROVE  UNCHANGED <<channel, wire, arrivals>>
<1> DEFINE b == buffer[queue]
           t == Tail(b)
           h == Head(b)
<1>1. /\ buffer \in [Queues -> Seq(Frame)] /\ queue \in Queues
      /\ b \in Seq(Frame) /\ b # <<>>
  BY DEF TypeOK, TakeHead
<1>2. /\ pc = "head" /\ pc' = "send" /\ inHand' = h /\ wire' = wire /\ arrivals' = arrivals
      /\ buffer' = [buffer EXCEPT ![queue] = t]
  BY DEF TakeHead, history
<1>3. <<h>> \o t = b /\ h.pcp = queue
  <2>1. <<h>> \o t = b /\ h = b[1] /\ 1 \in DOMAIN b
    BY <1>1, PopHead
  <2>2. QED
    BY <1>1, <2>1 DEF Sorted
<1> HIDE DEF h, t
<1>4. channel = [q \in Queues |-> buffer[q]]
  BY <1>2 DEF channel
<1>5. channel' = [q \in Queues |-> IF h.pcp = q THEN <<h>> \o buffer'[q] ELSE buffer'[q]]
  BY <1>2 DEF channel
<1>6. \A q \in Queues : (IF h.pcp = q THEN <<h>> \o buffer'[q] ELSE buffer'[q]) = buffer[q]
  BY <1>1, <1>2, <1>3
<1>7. channel' = channel
  BY <1>4, <1>5, <1>6
<1>8. QED
  BY <1>2, <1>7

\* The handler gives the frame away: it is delivered, or discarded when sendto fails.
LEMMA SendRefines ==
    ASSUME TypeOK, Transmit \/ SendError
    PROVE  \E q \in Queues : Channel!Deliver(q) \/ Channel!Discard(q)
<1> DEFINE f == inHand
           p == inHand.pcp
           b == buffer[p]
           c == <<f>> \o b
<1>1. /\ p \in Queues /\ f \in Frame /\ b \in Seq(Frame) /\ buffer' = buffer
      /\ pc = "send" /\ pc' = "idle" /\ arrivals' = arrivals
  BY DEF TypeOK, Frame, Transmit, SendError, buffers
<1>2. /\ c # <<>> /\ Head(c) = f /\ Tail(c) = b /\ 1 \in DOMAIN c /\ RemoveAt(c, 1) = b
  BY <1>1, PushHead
<1>3. channel = [q \in Queues |-> IF p = q THEN <<f>> \o buffer[q] ELSE buffer[q]]
  BY <1>1 DEF channel
<1>4. channel[p] = c
  BY <1>1, <1>3
<1>5. channel' = [q \in Queues |-> buffer[q]]
  BY <1>1 DEF channel
<1> HIDE DEF f, p, b, c
<1>6. channel' = [channel EXCEPT ![p] = b]
  <2>1. [channel EXCEPT ![p] = b] = [q \in Queues |-> IF q = p THEN b ELSE buffer[q]]
    BY <1>1, <1>3
  <2>2. QED
    BY <1>1, <1>5, <2>1 DEF b
<1>7. CASE Transmit
  <2>1. wire' = Append(wire, Head(channel[p]))
    BY <1>2, <1>4, <1>7 DEF Transmit, f
  <2>2. Channel!Deliver(p)
    BY <1>1, <1>2, <1>4, <1>6, <2>1 DEF Channel!Deliver
  <2>3. QED
    BY <1>1, <2>2
<1>8. CASE SendError
  <2>1. wire' = wire
    BY <1>8 DEF SendError
  <2>2. Channel!Discard(p)
    BY <1>1, <1>2, <1>4, <1>6, <2>1, SameRemoveAt DEF Channel!Discard
  <2>3. QED
    BY <1>1, <2>2
<1>9. QED
  BY <1>7, <1>8

LEMMA StepRefines ==
    TypeOK /\ ScanInBounds /\ Sorted /\ [Next]_vars => [Channel!Next]_(<<channel, wire, arrivals>>)
<1> SUFFICES ASSUME TypeOK, ScanInBounds, Sorted, [Next]_vars
             PROVE  Channel!Next \/ UNCHANGED <<channel, wire, arrivals>>
  OBVIOUS
<1> USE DEF buffers, schedule, locals, history
<1>0. buffer \in [Queues -> Seq(Frame)] /\ queue \in Queues
  BY DEF TypeOK
<1>1. ASSUME NEW s \in Streams, Accept(s) PROVE Channel!Next
  <2>1. channel = buffer /\ channel' = buffer'
    <3>1. pc # "send" /\ pc' # "send" /\ buffer' \in [Queues -> Seq(Frame)]
      BY <1>1, TypeStep DEF Accept, Next, Arrive, TypeOK
    <3>2. QED
      BY <1>0, <3>1 DEF channel
  <2>2. NewFrame(s) = Channel!Stamp(s)
    BY DEF NewFrame, Channel!Stamp
  <2>3. Channel!Enqueue(s)
    BY <1>1, <2>1, <2>2 DEF Accept, Channel!Enqueue
  <2>4. QED
    BY <2>3 DEF Channel!Next
<1>2. ASSUME NEW s \in Streams, Overflow(s) \/ Eliminate(s) PROVE Channel!Next
  <2>1. pc # "send" /\ pc' # "send" /\ buffer' = buffer /\ wire' = wire /\ arrivals' = arrivals + 1
    BY <1>2 DEF Overflow, Eliminate
  <2>2. channel' = channel
    BY <2>1 DEF channel
  <2>3. Channel!Refuse
    BY <2>1, <2>2 DEF Channel!Refuse
  <2>4. QED
    BY <2>3 DEF Channel!Next
<1>3. CASE RemoveLate
  <2>1. /\ cursor + 1 \in DOMAIN buffer[queue]
        /\ buffer' = [buffer EXCEPT ![queue] = RemoveAt(@, cursor + 1)]
        /\ wire' = wire /\ arrivals' = arrivals /\ pc = "judge" /\ pc' = "scan"
    BY <1>0, <1>3, LenProperties DEF RemoveLate, ScanInBounds, TypeOK
  <2>2. buffer' \in [Queues -> Seq(Frame)]
    BY TypeStep DEF TypeOK
  <2>3. channel = buffer /\ channel' = buffer'
    BY <1>0, <2>1, <2>2 DEF channel
  <2>4. Channel!Discard(queue)
    BY <2>1, <2>3, SameRemoveAt DEF Channel!Discard
  <2>5. QED
    BY <1>0, <2>4 DEF Channel!Next
<1>4. CASE TakeHead
  BY <1>4, TakeHeadStutters
<1>5. CASE Transmit \/ SendError
  BY <1>5, SendRefines DEF Channel!Next
<1>6. ASSUME UNCHANGED <<buffer, wire, arrivals, inHand>>, (pc = "send") <=> (pc' = "send")
      PROVE  UNCHANGED <<channel, wire, arrivals>>
  BY <1>6 DEF channel
<1>7. CASE Arm \/ Serve \/ GateClosed \/ GateOpen \/ EndOfQueue \/ Match \/ NoMatch \/ SkipEarly
           \/ Disable \/ Start \/ Tick \/ UNCHANGED vars
  <2>1. UNCHANGED <<buffer, wire, arrivals, inHand>>
    BY <1>7 DEF Arm, Serve, GateClosed, GateOpen, EndOfQueue, Match, NoMatch, SkipEarly,
                Disable, Start, Tick, vars
  <2>2. (pc = "send") <=> (pc' = "send")
    BY <1>7 DEF Arm, Serve, GateClosed, GateOpen, EndOfQueue, NextQueue, Match, NoMatch,
                SkipEarly, Disable, Start, Tick, vars
  <2>3. QED
    BY <1>6, <2>1, <2>2
<1>8. QED
  BY <1>1, <1>2, <1>3, <1>4, <1>5, <1>7 DEF Next, Arrive, HandlerStep

\* Whatever the selection algorithm removes from the middle of a buffer, and wherever
\* a ticker preempts it, the port is one lossy FIFO per priority: frames leave in the
\* order of their arrival, and each at most once.
THEOREM PortImplementsChannel == Spec => ImplementsChannel
<1>1. Init => Channel!Init
  BY DEF Init, Channel!Init, channel
<1>2. Init => Sorted
  BY DEF Init, Sorted
<1>3. QED
  BY <1>1, <1>2, TypesInBounds, SortedStep, StepRefines, PTL
     DEF Spec, ImplementsChannel, Channel!Spec, Channel!vars

-----------------------------------------------------------------------------
\* A selection pass ends

Nearer ==
    pc \notin {"idle", "arm"} /\ ~UNCHANGED <<buffers, locals>> =>
        ToGo' \in Nat \X Nat /\ Less(ToGo', ToGo)

\* The next queue is nearer to the return, wherever the scan of this one stood.
LEMMA NextQueueNearer ==
    ASSUME TypeOK, pc \in {"gate", "scan", "head"}, NextQueue, UNCHANGED buffers
    PROVE  Nearer
<1>1. queue \in 0 .. NumQueues - 1 /\ NumQueues \in Nat
  BY EgressAssumption DEF TypeOK, Queues
<1>2. ToGo[1] = queue + 2
  BY DEF ToGo
<1>3. CASE queue = 0
  <2>1. ToGo' = <<1, 0>>
    BY <1>3 DEF NextQueue, ToGo
  <2>2. QED
    BY <1>2, <1>3, <2>1 DEF Nearer, Less
<1>4. CASE queue # 0
  <2>1. pc' = "gate" /\ queue' = queue - 1 /\ queue - 1 \in Queues /\ buffer' = buffer
    BY <1>1, <1>4 DEF NextQueue, Queues, buffers
  <2>2. Len(buffer[queue - 1]) \in Nat
    BY <2>1, LenProperties DEF TypeOK
  <2>3. ToGo' = <<queue + 1, 2 * Len(buffer[queue - 1]) + 3>>
    BY <1>1, <2>1 DEF ToGo
  <2>4. QED
    BY <1>1, <1>2, <2>2, <2>3 DEF Nearer, Less
<1>5. QED
  BY <1>3, <1>4

LEMMA NearerStep == ASSUME TypeOK, ScanInBounds, Next PROVE Nearer
<1>1. /\ queue \in 0 .. NumQueues - 1 /\ NumQueues \in Nat /\ queue \in Queues
      /\ cursor \in Nat /\ Len(buffer[queue]) \in Nat
      /\ buffer \in [Queues -> Seq(Frame)] /\ buffer[queue] \in Seq(Frame)
  BY EgressAssumption, LenProperties DEF TypeOK, Queues
<1>2. CASE Arrive \/ Arm \/ Serve
  BY <1>2 DEF Arrive, Accept, Overflow, Eliminate, Arm, Serve, Nearer
<1>3. CASE GateClosed
  BY <1>3, NextQueueNearer DEF GateClosed, buffers
<1>4. CASE GateOpen
  <2>1. /\ pc = "gate" /\ pc' \in {"head", "scan"} /\ cursor' = 0
        /\ queue' = queue /\ buffer' = buffer
    BY <1>4 DEF GateOpen, buffers
  <2>2. /\ ToGo = <<queue + 2, 2 * Len(buffer[queue]) + 3>>
        /\ \/ ToGo' = <<queue + 2, 1>>
           \/ ToGo' = <<queue + 2, 2 * (Len(buffer[queue]) - 0) + 2>>
    BY <2>1 DEF ToGo, Ahead
  <2>3. QED
    BY <1>1, <2>2 DEF Nearer, Less
<1>5. CASE EndOfQueue
  BY <1>5, NextQueueNearer DEF EndOfQueue, buffers
<1>6. CASE Match \/ NoMatch
  <2>1. /\ pc = "scan" /\ cursor < Len(buffer[queue]) /\ pc' \in {"head", "judge"}
        /\ UNCHANGED <<queue, cursor, buffer>>
    BY <1>6 DEF Match, NoMatch, buffers
  <2>2. /\ ToGo = <<queue + 2, 2 * Ahead + 2>> /\ Ahead \in Nat /\ Ahead > 0
        /\ ToGo' = <<queue + 2, 1>> \/ ToGo' = <<queue + 2, 2 * Ahead + 1>>
    BY <1>1, <2>1 DEF ToGo, Ahead
  <2>3. QED
    BY <1>1, <2>2 DEF Nearer, Less
<1>7. CASE SkipEarly \/ RemoveLate
  <2>1. /\ pc = "judge" /\ pc' = "scan" /\ queue' = queue /\ cursor < Len(buffer[queue])
        /\ \/ cursor' = cursor + 1 /\ buffer' = buffer
           \/ /\ cursor' = cursor
              /\ buffer' = [buffer EXCEPT ![queue] = RemoveAt(@, cursor + 1)]
    BY <1>7 DEF SkipEarly, RemoveLate, buffers, ScanInBounds
  <2>2. Ahead \in Nat /\ Ahead > 0 /\ Ahead' = Ahead - 1
    <3>1. CASE cursor' = cursor + 1 /\ buffer' = buffer
      BY <1>1, <2>1, <3>1 DEF Ahead
    <3>2. CASE cursor' = cursor /\ buffer' = [buffer EXCEPT ![queue] = RemoveAt(@, cursor + 1)]
      <4>1. cursor + 1 \in 1 .. Len(buffer[queue])
        BY <1>1, <2>1
      <4>2. Len(RemoveAt(buffer[queue], cursor + 1)) = Len(buffer[queue]) - 1
        BY <1>1, <4>1, RemoveAtProperties
      <4>3. Len(buffer'[queue]) = Len(buffer[queue]) - 1
        BY <1>1, <3>2, <4>2
      <4>4. QED
        BY <1>1, <2>1, <3>2, <4>3 DEF Ahead
    <3>3. QED
      BY <2>1, <3>1, <3>2
  <2>3. ToGo = <<queue + 2, 2 * Ahead + 1>> /\ ToGo' = <<queue + 2, 2 * Ahead' + 2>>
    BY <2>1 DEF ToGo
  <2>4. QED
    BY <1>1, <2>2, <2>3 DEF Nearer, Less
<1>8. CASE TakeHead
  <2>1. ToGo[1] = queue + 2 /\ ToGo' = <<1, 0>>
    BY <1>8 DEF TakeHead, ToGo
  <2>2. QED
    BY <1>1, <2>1 DEF Nearer, Less
<1>9. CASE Transmit \/ SendError \/ Disable
  <2>1. ToGo = <<1, 0>> /\ ToGo' = <<0, 0>>
    BY <1>9 DEF Transmit, SendError, Disable, ToGo
  <2>2. QED
    BY <2>1 DEF Nearer, Less
<1>10. CASE Start \/ Tick
  BY <1>10 DEF Start, Tick, Nearer
<1>11. QED
  BY <1>2, <1>3, <1>4, <1>5, <1>6, <1>7, <1>8, <1>9, <1>10 DEF Next, HandlerStep

\* PassEnds: whatever tickers do between the steps of handle_event, every step of its own
\* brings it nearer to its return, for any number of queues and any length of them.
THEOREM PassComesToEnd == Spec => PassEnds
<1>1. TypeOK /\ ScanInBounds /\ [Next]_vars => [Nearer]_vars
  BY NearerStep
<1>2. PassEnds <=> [][Nearer]_vars
  BY PTL DEF PassEnds, Nearer
<1>3. QED
  BY <1>1, <1>2, TypesInBounds, PTL DEF Spec
=============================================================================
