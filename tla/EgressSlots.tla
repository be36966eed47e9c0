---------------------------- MODULE EgressSlots ----------------------------
(***************************************************************************)
(* EgressPort with the one timing assumption its schedule rests on: a slot *)
(* of the gate control list is long against the reactor loop (the shipped  *)
(* profiles use slots of one second).  Between two ticks the loop takes at *)
(* least SlotWork steps of this port's handlers, unless it has nothing to  *)
(* do.  A tick may still preempt the handlers between any two steps.       *)
(***************************************************************************)
EXTENDS EgressPort

CONSTANT SlotWork   \* steps the loop is sure to take in a slot

ASSUME SlotAssumption == SlotWork \in Nat

VARIABLE work       \* steps taken since the last tick, up to SlotWork

slotVars == <<vars, work>>

SlotInit == Init /\ work = 0

\* The reactor loop serves this port.
LoopStep == Arm \/ Serve \/ HandlerStep

Quiet == pc = "idle" /\ ~armed

SlotLoop == LoopStep /\ work' = IF work < SlotWork THEN work + 1 ELSE work
SlotArrive == Arrive /\ UNCHANGED work
SlotStart == Start /\ UNCHANGED work
SlotTick == (work >= SlotWork \/ Quiet) /\ Tick /\ work' = 0

SlotNext == SlotLoop \/ SlotArrive \/ SlotStart \/ SlotTick

(***************************************************************************)
(* Fairness: the loop is never stopped while epoll reports an event (level *)
(* triggered), the kernel fires armed timers, and a run command was given. *)
(* Arrivals owe nothing.                                                   *)
(***************************************************************************)
SlotSpec ==
    /\ SlotInit /\ [][SlotNext]_slotVars
    /\ WF_slotVars(SlotLoop) /\ WF_slotVars(SlotStart) /\ WF_slotVars(SlotTick)

-----------------------------------------------------------------------------
\* Some entry both serves the frame and opens its queue.
Schedulable(f) == \E k \in Entries : Matches(f, k) /\ f.pcp \in Gcl[k].gates

Holds(i) == \E q \in Queues : \E f \in Queued(q) : f.id = i /\ Schedulable(f)

\* A frame that the schedule provides for does not stay in its queue for ever:
\* in some slot it is sent, or it is recognised as late.  Lost wake-ups and
\* frames that nothing removes may delay it but cannot hold it.
ScheduledFrameLeaves == \A i \in 1 .. MaxArrivals : Holds(i) ~> ~Holds(i)
=============================================================================
