--------------------------- MODULE TimeArithmetic ---------------------------
(***************************************************************************)
(* timer/ITimer.h: points in time and intervals as seconds and             *)
(* nanoseconds, and what the tickers compute with them.                    *)
(***************************************************************************)
EXTENDS Integers

CONSTANT NsPerSec   \* nanoseconds in a second: 10^9

ASSUME NsPerSecAssumption == NsPerSec \in Nat \ {0}

\* TimePoint and TimeInterval.
TimeRecord == [sec : Int, nsec : Int]

\* The ones the kernel accepts as the nanoseconds of a timer.
Normalised == [sec : Int, nsec : 0 .. NsPerSec - 1]

\* What a record stands for, in nanoseconds.
Value(t) == t.sec * NsPerSec + t.nsec

\* clock_gettime: the record of a reading of n nanoseconds.
Reading(n) == [sec |-> n \div NsPerSec, nsec |-> n % NsPerSec]

\* converIntegerToTimeInterval, for a unit of which a second has perSec.
IntervalOf(n, perSec) ==
    [sec |-> n \div perSec, nsec |-> (n % perSec) * (NsPerSec \div perSec)]

\* Mutant of Minus: no borrow.
MinusPlain(a, b) == [sec |-> a.sec - b.sec, nsec |-> a.nsec - b.nsec]

\* TimeInterval - TimeInterval and TimePoint - TimePoint, which are the same.
Minus(a, b) ==
    IF a.nsec >= b.nsec
    THEN [sec |-> a.sec - b.sec, nsec |-> a.nsec - b.nsec]
    ELSE [sec |-> a.sec - b.sec - 1, nsec |-> NsPerSec + (a.nsec - b.nsec)]

\* timer_settime: a time of zero disarms the timer, one before it is refused.
Zero(t) == t.sec = 0 /\ t.nsec = 0
Refused(t) == t.sec < 0 \/ t.nsec \notin 0 .. NsPerSec - 1
=============================================================================
