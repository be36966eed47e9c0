---------------------------- MODULE FrameChannel ----------------------------
(***************************************************************************)
(* What the egress side of a port promises its clients: one lossy FIFO per *)
(* priority.  Frames are offered in some order; each is refused or queued; *)
(* a queued frame may be discarded from any place; the head of any queue   *)
(* may be delivered.  Nothing is delivered twice, invented or overtaken    *)
(* within its priority.                                                    *)
(***************************************************************************)
EXTENDS Integers, Sequences, SequencesExt

CONSTANTS
    Queues,     \* the priorities
    Streams     \* the (flow, phase, pcp) triples that frames may carry

VARIABLES
    channel,    \* the queued frames of every priority, in order of arrival
    delivered,  \* the frames delivered so far
    offered     \* the number of frames offered so far

vars == <<channel, delivered, offered>>

Init ==
    /\ channel = [q \in Queues |-> <<>>]
    /\ delivered = <<>>
    /\ offered = 0

Stamp(s) == [id |-> offered + 1, flow |-> s.flow, phase |-> s.phase, pcp |-> s.pcp]

\* A frame is offered and queued.
Enqueue(s) ==
    /\ channel' = [channel EXCEPT ![s.pcp] = Append(@, Stamp(s))]
    /\ offered' = offered + 1
    /\ UNCHANGED delivered

\* A frame is offered and refused.
Refuse ==
    /\ offered' = offered + 1
    /\ UNCHANGED <<channel, delivered>>

\* A queued frame is lost.
Discard(q) ==
    /\ \E i \in DOMAIN channel[q] :
          channel' = [channel EXCEPT ![q] = RemoveAt(@, i)]
    /\ UNCHANGED <<delivered, offered>>

\* The oldest frame of a priority is delivered.
Deliver(q) ==
    /\ channel[q] # <<>>
    /\ delivered' = Append(delivered, Head(channel[q]))
    /\ channel' = [channel EXCEPT ![q] = Tail(@)]
    /\ UNCHANGED offered

Next ==
    \/ \E s \in Streams : Enqueue(s)
    \/ Refuse
    \/ \E q \in Queues : Discard(q) \/ Deliver(q)

Spec == Init /\ [][Next]_vars
=============================================================================
