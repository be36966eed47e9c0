------------------------------ MODULE FlowApp ------------------------------
(***************************************************************************)
(* FlowApp: the port of an end device.  A chain of flow tickers announces  *)
(* bursts; the send handler of the reactor loop builds the frames one by   *)
(* one until the burst's frame count is used up.                           *)
(*                                                                         *)
(* flowIndex, iframeCount and lastFrameSize are plain members written by   *)
(* the ticker in the signal handler and by the loop.  The loop is cut at   *)
(* every access to them; "iframeCount -= 1" and "iframeCount += 1" are a   *)
(* load and a store between which a ticker may run.                        *)
(***************************************************************************)
EXTENDS Integers, Sequences, FiniteSets, SequencesExt

CONSTANTS
    FlowNum,        \* FlowApp::flowNum
    Size,           \* flow index -> Flow::size, in bytes
    Mtu,            \* ETH_DATA_LEN
    MaxTicks,       \* bound: flow tickers that expire
    MaxReceived     \* bound: frames the port receives

Indices == 0 .. FlowNum - 1

ASSUME FlowAssumption ==
    /\ FlowNum \in Nat \ {0}
    /\ Size \in [Indices -> Nat \ {0}]
    /\ Mtu \in Nat \ {0}
    /\ MaxTicks \in Nat /\ MaxReceived \in Nat

VARIABLES
    flowIndex,      \* FlowApp::flowIndex
    iframeCount,    \* FlowApp::iframeCount
    lastFrameSize,  \* FlowApp::lastFrameSize
    seq,            \* flow index -> Flow::seq
    running,        \* setTimer has been called by the start ticker
    armed,          \* EPOLLOUT is in the outbound socket's interest set
    pc,             \* where the loop is in output() or input()
    flow,           \* the flow output() looked up
    frameSize,      \* the frame size output() chose
    loaded,         \* the value "iframeCount -= 1" or "+= 1" has loaded
    ticks,          \* bound: tickers expired
    received,       \* bound: frames received
    frames          \* history: the frames built

shared == <<flowIndex, iframeCount, lastFrameSize>>
locals == <<flow, frameSize, loaded>>
bounds == <<ticks, received>>
vars == <<shared, seq, running, armed, pc, locals, bounds, frames>>

-----------------------------------------------------------------------------
\* The frames registerFlowToTimer counts for a flow.
Frames(i) == Size[i] \div Mtu + (IF Size[i] % Mtu # 0 THEN 1 ELSE 0)

\* Mutant of Register: the frames are counted on top of what is left.
RegisterOnTop(i) ==
    /\ lastFrameSize' = IF Size[i] % Mtu # 0 THEN Mtu ELSE 0
    /\ iframeCount' = iframeCount + Frames(i)

\* registerFlowToTimer: the burst of flow i.
Register(i) ==
    /\ lastFrameSize' = IF Size[i] % Mtu # 0 THEN Mtu ELSE 0
    /\ iframeCount' = Frames(i)

Init ==
    /\ flowIndex = 0
    /\ iframeCount = 0
    /\ lastFrameSize = Mtu
    /\ seq = [i \in Indices |-> 0]
    /\ running = FALSE
    /\ armed = TRUE
    /\ pc = "idle"
    /\ flow = 0 /\ frameSize = 0 /\ loaded = 0
    /\ ticks = 0 /\ received = 0
    /\ frames = <<>>

(***************************************************************************)
(* The signal handler.                                                     *)
(***************************************************************************)

\* StartTicker: setTimer registers the current flow; EPOLLOUT is enabled.
Start ==
    /\ ~running
    /\ Register(flowIndex)
    /\ running' = TRUE
    /\ armed' = TRUE
    /\ UNCHANGED <<flowIndex, seq, pc, locals, bounds, frames>>

\* Mutant of Tick: the index does not wrap.
TickUnwrapped ==
    /\ running /\ ticks < MaxTicks
    /\ Register(flowIndex)
    /\ flowIndex' = flowIndex + 1
    /\ armed' = TRUE
    /\ ticks' = ticks + 1
    /\ UNCHANGED <<seq, running, pc, locals, received, frames>>

\* FlowTicker: registers the current flow, then moves to the next.
Tick ==
    /\ running /\ ticks < MaxTicks
    /\ Register(flowIndex)
    /\ flowIndex' = (flowIndex + 1) % FlowNum
    /\ armed' = TRUE
    /\ ticks' = ticks + 1
    /\ UNCHANGED <<seq, running, pc, locals, received, frames>>

(***************************************************************************)
(* The reactor loop: SendTSNFrameEventHandler::handle_event and output().  *)
(***************************************************************************)

\* epoll reports the socket writable; output() finds no frame left.
NothingLeft ==
    /\ pc = "idle" /\ armed /\ iframeCount = 0
    /\ pc' = "disable"
    /\ UNCHANGED <<shared, seq, running, armed, locals, bounds, frames>>

\* epoll reports the socket writable; output() goes on to build a frame.
Output ==
    /\ pc = "idle" /\ armed /\ iframeCount # 0
    /\ pc' = "flow"
    /\ UNCHANGED <<shared, seq, running, armed, locals, bounds, frames>>

\* flows[flowIndex].
LookUp ==
    /\ pc = "flow"
    /\ flow' = flowIndex
    /\ pc' = "size"
    /\ UNCHANGED <<shared, seq, running, armed, frameSize, loaded, bounds, frames>>

\* Mutant of ChooseSize: every frame gets the last frame size.
ChooseLastSize ==
    /\ pc = "size"
    /\ frameSize' = Mtu
    /\ pc' = "last"
    /\ UNCHANGED <<shared, seq, running, armed, flow, loaded, bounds, frames>>

\* A whole frame, unless it is the last of the burst.
ChooseSize ==
    /\ pc = "size"
    /\ frameSize' = Mtu
    /\ pc' = IF iframeCount = 1 THEN "last" ELSE "build"
    /\ UNCHANGED <<shared, seq, running, armed, flow, loaded, bounds, frames>>

\* The last frame gets the last frame size, by now perhaps that of another burst.
ChooseLast ==
    /\ pc = "last"
    /\ frameSize' = lastFrameSize
    /\ pc' = "build"
    /\ UNCHANGED <<shared, seq, running, armed, flow, loaded, bounds, frames>>

\* Mutant of Build: the number is taken from the current flow.
BuildFromCurrent ==
    /\ pc = "build"
    /\ seq' = [seq EXCEPT ![flowIndex] = @ + 1]
    /\ frames' = Append(frames, [flow |-> flow, seq |-> seq[flow] + 1, bytes |-> frameSize])
    /\ pc' = "load"
    /\ UNCHANGED <<shared, running, armed, locals, bounds>>

\* The frame is numbered and filled in.
Build ==
    /\ pc = "build"
    /\ seq' = [seq EXCEPT ![flow] = @ + 1]
    /\ frames' = Append(frames, [flow |-> flow, seq |-> seq[flow] + 1, bytes |-> frameSize])
    /\ pc' = "load"
    /\ UNCHANGED <<shared, running, armed, locals, bounds>>

\* iframeCount -= 1: the load.
Load ==
    /\ pc = "load"
    /\ loaded' = iframeCount
    /\ pc' = "store"
    /\ UNCHANGED <<shared, seq, running, armed, flow, frameSize, bounds, frames>>

\* iframeCount -= 1: the store; handle_event then sends and deletes the frame.
Store ==
    /\ pc = "store"
    /\ iframeCount' = loaded - 1
    /\ pc' = "idle"
    /\ UNCHANGED <<flowIndex, lastFrameSize, seq, running, armed, locals, bounds, frames>>

\* Mutant of Disable: the interest set is left as it is.
DisableForgotten ==
    /\ pc = "disable"
    /\ pc' = "idle"
    /\ UNCHANGED <<shared, seq, running, armed, locals, bounds, frames>>

\* handle_event clears the interest set after a null frame.
Disable ==
    /\ pc = "disable"
    /\ armed' = FALSE
    /\ pc' = "idle"
    /\ UNCHANGED <<shared, seq, running, locals, bounds, frames>>

\* input() for a received frame: iframeCount += 1, the load.
Input ==
    /\ pc = "idle" /\ received < MaxReceived
    /\ received' = received + 1
    /\ loaded' = iframeCount
    /\ pc' = "count"
    /\ UNCHANGED <<shared, seq, running, armed, flow, frameSize, ticks, frames>>

\* iframeCount += 1: the store.
Count ==
    /\ pc = "count"
    /\ iframeCount' = loaded + 1
    /\ pc' = "idle"
    /\ UNCHANGED <<flowIndex, lastFrameSize, seq, running, armed, locals, bounds, frames>>

-----------------------------------------------------------------------------
SendLoop ==
    \/ NothingLeft \/ Output \/ LookUp \/ ChooseSize \/ ChooseLast \/ Build
    \/ Load \/ Store \/ Disable \/ Count

Next == Start \/ Tick \/ SendLoop \/ Input

Spec == Init /\ [][Next]_vars

-----------------------------------------------------------------------------
\* Properties

TypeOK ==
    /\ flowIndex \in Indices /\ flow \in Indices
    /\ iframeCount \in Nat /\ loaded \in Nat
    /\ lastFrameSize \in {0, Mtu} /\ frameSize \in {0, Mtu}
    /\ seq \in [Indices -> Nat]
    /\ running \in BOOLEAN /\ armed \in BOOLEAN
    /\ pc \in {"idle", "flow", "size", "last", "build", "load", "store", "count", "disable"}
    /\ ticks \in 0 .. MaxTicks /\ received \in 0 .. MaxReceived
    /\ frames \in Seq([flow : Indices, seq : Nat, bytes : {0, Mtu}])

\* The frames of a flow are numbered 1, 2, 3, ... without gap or repetition,
\* although a ticker may change the current flow while a frame is being built:
\* the receivers' recovery functions rest on these numbers.
NumberedInOrder ==
    \A n \in DOMAIN frames :
        LET earlier == {m \in 1 .. n - 1 : frames[m].flow = frames[n].flow}
        IN  /\ frames[n].seq >= 1
            /\ \A m \in earlier : frames[m].seq < frames[n].seq
            /\ frames[n].seq > 1 => \E m \in earlier : frames[m].seq = frames[n].seq - 1

\* However the tickers and the loop overwrite each other's counts, a new burst
\* replaces the old one: no more frames are ever due than one burst has and frames
\* were received, and a count of zero is never passed.
CountBounded ==
    /\ \E i \in Indices : iframeCount <= Frames(i) + received
    /\ pc = "store" => loaded >= 1

\* When no more tickers expire, the port comes to rest: bursts end, and the count
\* never skips the zero that output() tests for.
ComesToRest == <>[](pc = "idle" /\ ~armed)
=============================================================================
