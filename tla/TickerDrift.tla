---------------------------- MODULE TickerDrift ----------------------------
(***************************************************************************)
(* A chain of tickers in time.  A gate, flow or monitor ticker expires     *)
(* late by what the kernel and the signal handler need, measures by how    *)
(* much, and arms its successor with an interval that makes up for it.     *)
(*                                                                         *)
(* "time" is the time that passes; the clock the program reads, and may    *)
(* find set forward or back, is "step" ahead of it.  Timers are relative:  *)
(* they expire by the time that passes.  What happens inside an expiry is  *)
(* two spans: "delay", from the arming of the timer to the reading of the  *)
(* clock beyond the interval, and "work", from that reading to the next    *)
(* reading of the clock in setTimer.                                       *)
(***************************************************************************)
EXTENDS TimeArithmetic, Sequences

CONSTANTS
    Chains,         \* the chains to choose from: kind, and lengths in units
    UnitsPerSec,    \* the unit of the profile: units in a second
    FirstTime,      \* when the start ticker reads the clock
    MaxDelay,       \* bound: the longest delay
    MaxWork,        \* bound: the longest work
    Steps,          \* how far the clock may be set, at once
    MaxSteps,       \* bound: how often it is set
    MaxChanges      \* bound: tickers that expire

Kinds == {"gate", "flow", "monitor"}

ASSUME DriftAssumption ==
    /\ Chains \subseteq [kind : Kinds, lengths : Seq(Nat \ {0})]
    /\ \A c \in Chains : c.lengths # <<>>
    /\ UnitsPerSec \in Nat \ {0} /\ NsPerSec % UnitsPerSec = 0
    /\ FirstTime \in Nat /\ MaxDelay \in Nat /\ MaxWork \in Nat
    /\ Steps \subseteq Int /\ MaxSteps \in Nat /\ MaxChanges \in Nat

VARIABLES
    chain,      \* the list of a port, the flows of an end device, or the monitor
    next,       \* m_nextCursor, or flowIndex
    expire,     \* Ticker::expire of the armed ticker
    launch,     \* Ticker::launchTime of the armed ticker
    status,     \* armed, disarmed (interval zero) or refused (the program exits)
    time,       \* the time that passed when the ticker was armed
    step,       \* how far the clock is ahead of that
    steps,      \* bound: how often the clock was set
    stepped,    \* history: by how much, since the ticker was armed
    changes     \* history: the expiries, with entry, clock, lateness and work

vars == <<chain, next, expire, launch, status, time, step, steps, stepped, changes>>

-----------------------------------------------------------------------------
Count == Len(chain.lengths)

\* The interval of entry i, counted from 0, as loadScheduleXML converts it.
Length(i) == IntervalOf(chain.lengths[i + 1], UnitsPerSec)

\* What a timer armed with interval t is then.
Armed(t) == IF Refused(t) THEN "refused" ELSE IF Zero(t) THEN "disarmed" ELSE "armed"

\* StartTicker: setTimer of the port.  createSocket has applied entry 0 of a list,
\* so its first ticker is to apply entry 1; flows begin with flow 0.
Init ==
    /\ chain \in Chains
    /\ next = IF chain.kind = "gate" THEN 1 % Count ELSE 0
    /\ expire = Length(next)
    /\ launch = Reading(FirstTime)
    /\ status = Armed(expire)
    /\ time = FirstTime
    /\ step = 0 /\ steps = 0 /\ stepped = 0
    /\ changes = <<>>

\* The clock is set while a timer is armed; the handler's own work is too short for it.
SetClock(by) ==
    /\ steps < MaxSteps /\ Len(changes) < MaxChanges
    /\ time + step + by >= 0
    /\ step' = step + by
    /\ stepped' = stepped + by
    /\ steps' = steps + 1
    /\ UNCHANGED <<chain, next, expire, launch, status, time, changes>>

\* Mutant of Following: the ticker keeps the interval of the entry it applied.
FollowingOwn == next

\* The entry whose interval the successor gets: updateGates has moved the cursor
\* on, FlowTicker moves the index afterwards.
Following == IF chain.kind = "gate" THEN (next + 1) % Count ELSE next

\* Mutant of Interval2: the deviation is taken from the ideal interval of the entry.
Interval2FromEntry(now) ==
    IF chain.kind = "monitor" THEN expire
    ELSE Minus(Length(Following), Minus(Minus(now, launch), Length(next)))

\* The interval of the successor: deviation = (now - launch) - expire, taken from
\* the interval that follows.  The monitor keeps its interval.
Interval2(now) ==
    IF chain.kind = "monitor" THEN expire
    ELSE Minus(Length(Following), Minus(Minus(now, launch), expire))

\* A ticker expires: it applies its entry and arms its successor.
Expire(delay, work) ==
    /\ status = "armed" /\ Len(changes) < MaxChanges
    /\ LET readAt == time + Value(expire) + delay
           now == Reading(readAt + step)
           interval2 == Interval2(now)
       IN  /\ expire' = interval2
           /\ status' = Armed(interval2)
           /\ launch' = Reading(readAt + work + step)
           /\ time' = readAt + work
           /\ changes' = Append(changes,
                 [entry |-> next, at |-> Value(now), late |-> delay + stepped, work |-> work])
    /\ next' = (next + 1) % Count
    /\ stepped' = 0
    /\ UNCHANGED <<chain, step, steps>>

Next ==
    \/ \E by \in Steps : SetClock(by)
    \/ \E delay \in 0 .. MaxDelay, work \in 0 .. MaxWork : Expire(delay, work)

Spec == Init /\ [][Next]_vars

-----------------------------------------------------------------------------
\* Properties

\* Every time the tickers compute and the clock returns is one the kernel accepts
\* as far as its nanoseconds go: the borrow of the two minus operators is right.
TypeOK ==
    /\ chain \in Chains
    /\ next \in 0 .. Count - 1
    /\ expire \in Normalised /\ launch \in Normalised
    /\ status \in {"armed", "disarmed", "refused"}
    /\ time \in Nat /\ step \in Int /\ stepped \in Int
    /\ steps \in 0 .. MaxSteps
    /\ changes \in Seq([entry : 0 .. Count - 1, at : Nat, late : Int, work : Nat])

\* The clock reading at which change i was meant to come.
Meant(i) == changes[i].at - changes[i].late

\* A gate entry is in force for the interval of its successor, a flow is followed
\* after its own period, and to that only the work of the signal handler adds:
\* neither a late expiry nor a clock that was set shifts the changes that follow.
OnlyWorkAccumulates ==
    chain.kind # "monitor" =>
        \A i \in 1 .. Len(changes) - 1 :
            Meant(i + 1) = Meant(i) + changes[i].work
                + Value(Length(IF chain.kind = "gate" THEN changes[i + 1].entry
                                                      ELSE changes[i].entry))

\* A chain breaks only at a ticker that was late by the whole interval that was to
\* follow: exactly that disarms its successor, more makes the program exit.  As
\* long as delays and settings of the clock are shorter than every interval, no
\* chain breaks; the chain of the monitor never does.
BreaksOnlyWhenLate ==
    status # "armed" =>
        /\ chain.kind # "monitor" /\ changes # <<>>
        /\ LET last == changes[Len(changes)]
               length == Value(Length(IF chain.kind = "gate" THEN next ELSE last.entry))
           IN  /\ status = "disarmed" => last.late = length
               /\ status = "refused" => last.late > length
=============================================================================
