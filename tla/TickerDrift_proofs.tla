------------------------- MODULE TickerDrift_proofs -------------------------
(***************************************************************************)
(* For every chain of tickers, every unit that divides a second, every     *)
(* delay and work, and every setting of the clock: the times stay within   *)
(* what the kernel accepts, only the handler's own work adds up, and a     *)
(* chain breaks only at a ticker late by a whole interval.                 *)
(***************************************************************************)
EXTENDS TickerDrift, SequenceTheorems, TLAPS

-----------------------------------------------------------------------------
\* What the operators of TimeArithmetic compute: the borrow and the conversions
\* neither lose nor gain time and leave the nanoseconds in their range.

\* Division with remainder.
LEMMA DivisionLaw ==
    ASSUME NEW n \in Int, NEW d \in Nat \ {0}
    PROVE  /\ n \div d \in Int
           /\ n % d \in 0 .. d - 1
           /\ n = d * (n \div d) + (n % d)
  BY SMT

\* A product distributes over a difference.
LEMMA DistributesOverMinus ==
    ASSUME NEW x \in Int, NEW y \in Int, NEW d \in Int
    PROVE  (x - y) * d = x * d - y * d
  BY SMT

\* The minus operators of ITimer.h: the nanoseconds of the difference are in range
\* and the difference is exact, whether or not there is a borrow.
LEMMA MinusExact ==
    ASSUME NEW a \in Normalised, NEW b \in Normalised
    PROVE  /\ Minus(a, b) \in Normalised
           /\ Value(Minus(a, b)) = Value(a) - Value(b)
  <1>1. CASE a.nsec >= b.nsec
    <2>1. (a.sec - b.sec) * NsPerSec = a.sec * NsPerSec - b.sec * NsPerSec
      BY DistributesOverMinus, NsPerSecAssumption DEF Normalised
    <2>2. QED
      BY <1>1, <2>1, NsPerSecAssumption DEF Minus, Value, Normalised
  <1>2. CASE a.nsec < b.nsec
    <2>1. (a.sec - b.sec - 1) * NsPerSec = a.sec * NsPerSec - b.sec * NsPerSec - NsPerSec
      BY SMT, NsPerSecAssumption DEF Normalised
    <2>2. QED
      BY <1>2, <2>1, NsPerSecAssumption DEF Minus, Value, Normalised
  <1>3. QED
    BY <1>1, <1>2, NsPerSecAssumption DEF Normalised

\* A reading of the clock, as a record, stands for what was read.
LEMMA ReadingExact ==
    ASSUME NEW n \in Int
    PROVE  Reading(n) \in Normalised /\ Value(Reading(n)) = n
  <1>1. /\ n \div NsPerSec \in Int
        /\ n % NsPerSec \in 0 .. NsPerSec - 1
        /\ n = NsPerSec * (n \div NsPerSec) + (n % NsPerSec)
    BY DivisionLaw, NsPerSecAssumption
  <1>2. QED
    BY <1>1, NsPerSecAssumption DEF Reading, Value, Normalised

\* converIntegerToTimeInterval is exact for units that divide a second.
LEMMA IntervalExact ==
    ASSUME NEW n \in Int, NEW perSec \in Nat \ {0}, NsPerSec % perSec = 0
    PROVE  /\ IntervalOf(n, perSec) \in Normalised
           /\ NsPerSec \div perSec \in Nat \ {0}
           /\ Value(IntervalOf(n, perSec)) = n * (NsPerSec \div perSec)
  <1> DEFINE q == NsPerSec \div perSec
             whole == n \div perSec
             rest == n % perSec
  <1>1. q \in Int /\ NsPerSec = perSec * q
    BY DivisionLaw, NsPerSecAssumption
  <1>2. whole \in Int /\ rest \in 0 .. perSec - 1 /\ n = perSec * whole + rest
    BY DivisionLaw
  <1> HIDE DEF q, whole, rest
  <1>3. q \in Nat \ {0}
    BY <1>1, NsPerSecAssumption
  <1>4. rest * q \in 0 .. NsPerSec - 1
    <2>1. rest * q >= 0
      BY <1>2, <1>3
    <2>2. rest * q <= (perSec - 1) * q
      BY <1>2, <1>3
    <2>3. (perSec - 1) * q = NsPerSec - q
      BY <1>1, <1>3
    <2>4. QED
      BY <2>1, <2>2, <2>3, <1>2, <1>3, NsPerSecAssumption
  <1>5. whole * NsPerSec + rest * q = n * q
    BY <1>1, <1>2, <1>3
  <1>6. QED
    BY <1>2, <1>3, <1>4, <1>5 DEF IntervalOf, Value, Normalised, q, whole, rest

-----------------------------------------------------------------------------
\* What an armed ticker knows

Last == changes[Len(changes)]

\* The entry whose interval the armed ticker was given.
Given == IF chain.kind = "gate" THEN next ELSE Last.entry

\* The launch time is the clock's when the ticker was armed.
LaunchIsClock == Value(launch) = time + step - stepped

\* An armed successor makes up for the lateness of the ticker before it, and is
\* launched when the work of that one is done.
MakesUp ==
    changes # <<>> /\ chain.kind # "monitor" =>
        /\ Value(launch) = Last.at + Last.work
        /\ Value(expire) = Value(Length(Given)) - Last.late

\* The first ticker of a chain, and every one of the monitor's, has time left.
TimeLeft == changes = <<>> \/ chain.kind = "monitor" => Value(expire) > 0

\* What the timer makes of the interval.
StatusFits == status = Armed(expire)

\* The clock is never set to before the epoch.
ClockReads == time + step >= 0

DriftInv ==
    /\ TypeOK /\ LaunchIsClock /\ ClockReads
    /\ MakesUp /\ TimeLeft /\ StatusFits
    /\ OnlyWorkAccumulates

-----------------------------------------------------------------------------
\* The list of a chain, and the interval of each of its entries.
LEMMA LengthPositive ==
    ASSUME chain \in Chains, NEW i \in 0 .. Count - 1
    PROVE  /\ Count \in Nat \ {0}
           /\ Length(i) \in Normalised
           /\ Value(Length(i)) \in Nat \ {0}
  <1>1. chain.lengths \in Seq(Nat \ {0}) /\ Len(chain.lengths) \in Nat
    BY DriftAssumption
  <1>2. Count \in Nat \ {0}
    BY <1>1, DriftAssumption DEF Count
  <1>3. chain.lengths[i + 1] \in Nat \ {0}
    BY <1>1, <1>2 DEF Count
  <1>4. /\ Length(i) \in Normalised
        /\ NsPerSec \div UnitsPerSec \in Nat \ {0}
        /\ Value(Length(i)) = chain.lengths[i + 1] * (NsPerSec \div UnitsPerSec)
    <2>1. UnitsPerSec \in Nat \ {0} /\ NsPerSec % UnitsPerSec = 0
      BY DriftAssumption
    <2>2. chain.lengths[i + 1] \in Int
      BY <1>3
    <2>3. QED
      BY <2>1, <2>2, IntervalExact DEF Length
  <1>5. ASSUME NEW a \in Nat \ {0}, NEW b \in Nat \ {0}
        PROVE  a * b \in Nat \ {0}
    BY <1>5
  <1>6. QED
    BY <1>2, <1>3, <1>4, <1>5

\* A number modulo the length of the list is an entry of it.
LEMMA CursorInList ==
    ASSUME chain \in Chains, NEW n \in Nat
    PROVE  Count \in Nat \ {0} /\ n % Count \in 0 .. Count - 1
  <1>1. Count \in Nat \ {0}
    BY DriftAssumption DEF Count
  <1>2. QED
    BY <1>1, DivisionLaw

\* Armed, disarmed and refused by the number of nanoseconds.
LEMMA ArmedByValue ==
    ASSUME NEW t \in Normalised
    PROVE  /\ Armed(t) = "armed" <=> Value(t) > 0
           /\ Armed(t) = "disarmed" <=> Value(t) = 0
           /\ Armed(t) = "refused" <=> Value(t) < 0
  <1>1. CASE t.sec < 0
    <2>1. t.sec * NsPerSec <= -NsPerSec
      <3>1. t.sec + 1 <= 0 /\ t.sec \in Int
        BY <1>1 DEF Normalised
      <3>2. (t.sec + 1) * NsPerSec <= 0
        BY <3>1, NsPerSecAssumption
      <3>3. QED
        BY <3>1, <3>2, NsPerSecAssumption
    <2>2. Value(t) < 0
      BY <2>1, NsPerSecAssumption DEF Value, Normalised
    <2>3. QED
      BY <1>1, <2>2, NsPerSecAssumption DEF Armed, Refused, Zero, Normalised, Value
  <1>2. CASE t.sec = 0
    BY <1>2, NsPerSecAssumption DEF Armed, Refused, Zero, Normalised, Value
  <1>3. CASE t.sec > 0
    <2>1. t.sec * NsPerSec > 0
      BY <1>3, NsPerSecAssumption DEF Normalised
    <2>2. Value(t) > 0
      BY <2>1, NsPerSecAssumption DEF Value, Normalised
    <2>3. QED
      BY <1>3, <2>2, NsPerSecAssumption DEF Armed, Refused, Zero, Normalised, Value
  <1>4. QED
    BY <1>1, <1>2, <1>3 DEF Normalised

\* The interval a ticker gives its successor, when it reads the clock at now.
LEMMA Interval2Exact ==
    ASSUME TypeOK, NEW now \in Normalised
    PROVE  /\ Following \in 0 .. Count - 1
           /\ Interval2(now) \in Normalised
           /\ chain.kind = "monitor" => Interval2(now) = expire
           /\ chain.kind # "monitor" => Value(Interval2(now)) =
                  Value(Length(Following)) - (Value(now) - Value(launch) - Value(expire))
  <1>1. Count \in Nat \ {0} /\ Following \in 0 .. Count - 1
    <2>1. next \in Nat /\ next + 1 \in Nat /\ next \in 0 .. Count - 1 /\ chain \in Chains
      BY DEF TypeOK
    <2>2. Count \in Nat \ {0} /\ (next + 1) % Count \in 0 .. Count - 1
      BY <2>1, CursorInList
    <2>3. QED
      BY <2>1, <2>2 DEF Following
  <1>2. Length(Following) \in Normalised
    BY <1>1, LengthPositive DEF TypeOK
  <1>3. /\ Minus(now, launch) \in Normalised
        /\ Value(Minus(now, launch)) = Value(now) - Value(launch)
    BY MinusExact DEF TypeOK
  <1>4. /\ Minus(Minus(now, launch), expire) \in Normalised
        /\ Value(Minus(Minus(now, launch), expire)) = Value(now) - Value(launch) - Value(expire)
    BY <1>3, MinusExact DEF TypeOK
  <1>5. /\ Minus(Length(Following), Minus(Minus(now, launch), expire)) \in Normalised
        /\ Value(Minus(Length(Following), Minus(Minus(now, launch), expire)))
             = Value(Length(Following)) - (Value(now) - Value(launch) - Value(expire))
    BY <1>2, <1>4, MinusExact
  <1>6. QED
    BY <1>1, <1>5 DEF Interval2, TypeOK

\* Values of normalised times are integers.
LEMMA ValueInt == ASSUME NEW t \in Normalised PROVE Value(t) \in Int
  BY NsPerSecAssumption DEF Value, Normalised

-----------------------------------------------------------------------------
\* The start ticker arms the first ticker of a chain.
LEMMA InitDrift == Init => DriftInv
  <1> SUFFICES ASSUME Init PROVE DriftInv
    OBVIOUS
  <1> USE DEF Init
  <1>1. chain \in Chains
    OBVIOUS
  <1>2. Count \in Nat \ {0} /\ next \in 0 .. Count - 1
    <2>1. Count \in Nat \ {0} /\ 1 % Count \in 0 .. Count - 1
      BY <1>1, CursorInList
    <2>2. QED
      BY <2>1
  <1>3. expire \in Normalised /\ Value(expire) \in Nat \ {0}
    BY <1>1, <1>2, LengthPositive
  <1>4. launch \in Normalised /\ Value(launch) = FirstTime
    BY ReadingExact, DriftAssumption
  <1>5. changes = <<>> /\ Len(changes) = 0
    OBVIOUS
  <1>6. status = "armed"
    BY <1>3, ArmedByValue
  <1>7. TypeOK
    BY <1>1, <1>2, <1>3, <1>4, <1>5, <1>6, DriftAssumption DEF TypeOK
  <1>8. LaunchIsClock /\ ClockReads /\ MakesUp /\ TimeLeft /\ StatusFits
    BY <1>3, <1>4, <1>5, DriftAssumption
       DEF LaunchIsClock, ClockReads, MakesUp, TimeLeft, StatusFits
  <1>9. OnlyWorkAccumulates
    BY <1>5 DEF OnlyWorkAccumulates
  <1>10. QED
    BY <1>7, <1>8, <1>9 DEF DriftInv

\* A clock that is set moves "step" and "stepped" by the same amount.
LEMMA SetClockDrift ==
    ASSUME DriftInv, NEW by \in Steps, SetClock(by)
    PROVE  DriftInv'
  <1> USE DEF SetClock
  <1>1. by \in Int /\ time \in Nat /\ step \in Int /\ stepped \in Int
    BY DriftAssumption DEF DriftInv, TypeOK
  <1>2. TypeOK'
    BY <1>1, DriftAssumption DEF DriftInv, TypeOK, Count
  <1>3. LaunchIsClock' /\ ClockReads'
    BY <1>1 DEF DriftInv, LaunchIsClock, ClockReads, Value
  <1>4. MakesUp' /\ TimeLeft' /\ StatusFits'
    BY DEF DriftInv, MakesUp, TimeLeft, StatusFits, Last, Given, Value, Length, IntervalOf,
           Armed, Refused, Zero
  <1>5. OnlyWorkAccumulates'
    BY DEF DriftInv, OnlyWorkAccumulates, Meant, Length, Value, IntervalOf
  <1>6. QED
    BY <1>2, <1>3, <1>4, <1>5 DEF DriftInv

\* An expiry: what it is late is taken from what follows, its work is not.
LEMMA ExpireDrift ==
    ASSUME DriftInv, NEW delay \in 0 .. MaxDelay, NEW work \in 0 .. MaxWork,
           Expire(delay, work)
    PROVE  DriftInv'
  <1> DEFINE readAt == time + Value(expire) + delay
             now == Reading(readAt + step)
             new == [entry |-> next, at |-> Value(now), late |-> delay + stepped, work |-> work]
  <1>1. /\ chain \in Chains /\ next \in 0 .. Count - 1
        /\ expire \in Normalised /\ launch \in Normalised
        /\ time \in Nat /\ step \in Int /\ stepped \in Int
        /\ Value(expire) \in Int /\ Value(launch) \in Int
        /\ delay \in Nat /\ work \in Nat
    BY ValueInt, DriftAssumption DEF DriftInv, TypeOK
  <1>2. Value(expire) > 0
    BY <1>1, ArmedByValue DEF Expire, DriftInv, StatusFits
  <1>3. /\ readAt = time + Value(expire) + delay
        /\ readAt \in Nat /\ readAt + step \in Nat /\ readAt + work + step \in Nat
    BY <1>1, <1>2 DEF DriftInv, ClockReads
  <1>4. now \in Normalised /\ Value(now) = readAt + step
    BY <1>3, ReadingExact
  <1>5. launch' \in Normalised /\ Value(launch') = readAt + work + step
    BY <1>3, ReadingExact DEF Expire
  <1> HIDE DEF now, readAt
  <1>6. /\ expire' = Interval2(now) /\ status' = Armed(Interval2(now))
        /\ time' = readAt + work
        /\ changes' = Append(changes, new)
        /\ next' = (next + 1) % Count /\ stepped' = 0
        /\ chain' = chain /\ step' = step /\ steps' = steps
    BY DEF Expire, now, readAt
  <1>7. /\ Following \in 0 .. Count - 1
        /\ expire' \in Normalised
        /\ chain.kind = "monitor" => expire' = expire
        /\ chain.kind # "monitor" => Value(expire') =
               Value(Length(Following)) - (Value(now) - Value(launch) - Value(expire))
    BY <1>4, <1>6, Interval2Exact DEF DriftInv
  <1>8. Count \in Nat \ {0} /\ next' \in 0 .. Count - 1 /\ Count' = Count
    <2>1. Count \in Nat \ {0} /\ (next + 1) % Count \in 0 .. Count - 1
      BY <1>1, CursorInList
    <2>2. QED
      BY <2>1, <1>6 DEF Count
  <1>9. Value(Length(Following)) \in Int /\ Value(expire') \in Int
    BY <1>1, <1>7, LengthPositive, ValueInt
  <1>10. /\ new \in [entry : 0 .. Count - 1, at : Nat, late : Int, work : Nat]
         /\ changes \in Seq([entry : 0 .. Count - 1, at : Nat, late : Int, work : Nat])
         /\ Len(changes) \in Nat
    <2>1. new \in [entry : 0 .. Count - 1, at : Nat, late : Int, work : Nat]
      BY <1>1, <1>3, <1>4
    <2>2. changes \in Seq([entry : 0 .. Count - 1, at : Nat, late : Int, work : Nat])
      BY DEF DriftInv, TypeOK
    <2>3. QED
      BY <2>1, <2>2
  <1> HIDE DEF new
  <1>11. /\ changes' # <<>> /\ Len(changes') = Len(changes) + 1
         /\ changes'[Len(changes')] = new
         /\ \A i \in 1 .. Len(changes) : changes'[i] = changes[i]
    <2>1. /\ Len(changes') = Len(changes) + 1
          /\ \A i \in 1 .. Len(changes) : changes'[i] = changes[i]
          /\ changes'[Len(changes) + 1] = new
      BY <1>6, <1>10, AppendProperties
    <2>2. QED
      BY <2>1, <1>10
  <1>12. /\ new.entry = next /\ new.at = readAt + step
         /\ new.late = delay + stepped /\ new.work = work
    BY <1>4 DEF new
  <1>13. TypeOK'
    <2>1. changes' \in Seq([entry : 0 .. Count - 1, at : Nat, late : Int, work : Nat])
      BY <1>6, <1>10
    <2>2. status' \in {"armed", "disarmed", "refused"}
      BY <1>6 DEF Armed
    <2>3. steps' \in 0 .. MaxSteps
      BY <1>6 DEF DriftInv, TypeOK
    <2>4. time' \in Nat /\ stepped' \in Int /\ step' \in Int /\ chain' \in Chains
      <3>1. readAt + work \in Nat
        BY <1>1, <1>3
      <3>2. time' = readAt + work /\ stepped' = 0 /\ step' = step /\ chain' = chain
        BY <1>6
      <3>3. QED
        BY <3>1, <3>2, <1>1
    <2>5. QED
      BY <2>1, <2>2, <2>3, <2>4, <1>5, <1>7, <1>8 DEF TypeOK
  <1>14. LaunchIsClock'
    <2>1. Value(launch)' = Value(launch')
      BY DEF Value
    <2>2. QED
      BY <2>1, <1>1, <1>3, <1>5, <1>6 DEF LaunchIsClock
  <1>15. ClockReads'
    BY <1>1, <1>3, <1>6 DEF ClockReads
  <1>16. StatusFits'
    BY <1>6 DEF StatusFits, Armed, Refused, Zero
  <1>17. TimeLeft'
    <2>1. Value(expire)' = Value(expire')
      BY DEF Value
    <2>2. QED
      BY <2>1, <1>2, <1>6, <1>7, <1>11 DEF TimeLeft
  <1>18. ASSUME chain.kind # "monitor"
         PROVE  Given' = Following /\ Value(expire') = Value(Length(Following)) - new.late
    <2>1. Given' = Following
      BY <1>6, <1>11, <1>12 DEF Given, Following, Last
    <2>2. Value(now) - Value(launch) - Value(expire) = delay + stepped
      BY <1>1, <1>4, <1>3 DEF DriftInv, LaunchIsClock
    <2>3. QED
      BY <2>1, <2>2, <1>7, <1>12, <1>18
  <1>19. MakesUp'
    <2> SUFFICES ASSUME chain.kind # "monitor"
                 PROVE  /\ Value(launch') = new.at + new.work
                        /\ Value(expire') = Value(Length(Given')) - new.late
      BY <1>6, <1>11 DEF MakesUp, Last, Value, Length, IntervalOf
    <2>1. Value(launch') = new.at + new.work
      BY <1>1, <1>3, <1>5, <1>12
    <2>2. QED
      BY <2>1, <1>18
  <1>20. OnlyWorkAccumulates'
    <2> SUFFICES ASSUME chain.kind # "monitor", NEW i \in 1 .. Len(changes)
                 PROVE  Meant(i + 1)' = Meant(i)' + changes'[i].work
                     + Value(Length(IF chain.kind = "gate" THEN changes'[i + 1].entry
                                                           ELSE changes'[i].entry))
      <3>1. Len(changes') - 1 = Len(changes) /\ chain' = chain
        BY <1>6, <1>10, <1>11
      <3>2. QED
        BY <3>1 DEF OnlyWorkAccumulates, Value, Length, IntervalOf
    <2>1. CASE i < Len(changes)
      <3>1. i + 1 \in 1 .. Len(changes) /\ i \in 1 .. Len(changes) - 1
        BY <2>1, <1>10
      <3>2. changes'[i] = changes[i] /\ changes'[i + 1] = changes[i + 1]
        BY <3>1, <1>11
      <3>3. Meant(i + 1) = Meant(i) + changes[i].work
                + Value(Length(IF chain.kind = "gate" THEN changes[i + 1].entry
                                                      ELSE changes[i].entry))
        BY <3>1 DEF DriftInv, OnlyWorkAccumulates
      <3>4. QED
        BY <3>2, <3>3 DEF Meant
    <2>2. CASE i = Len(changes)
      <3>1. changes # <<>> /\ Last = changes[i] /\ Last = changes'[i] /\ changes'[i + 1] = new
        BY <2>2, <1>10, <1>11 DEF Last
      <3>2. Last \in [entry : 0 .. Count - 1, at : Nat, late : Int, work : Nat]
        <4>1. changes \in Seq([entry : 0 .. Count - 1, at : Nat, late : Int, work : Nat])
          BY <1>10
        <4>2. changes[i] \in [entry : 0 .. Count - 1, at : Nat, late : Int, work : Nat]
          BY <4>1, ElementOfSeq
        <4>3. QED
          BY <4>2, <3>1
      <3>3. /\ Value(launch) = Last.at + Last.work
            /\ Value(expire) = Value(Length(Given)) - Last.late
        BY <3>1 DEF DriftInv, MakesUp
      <3>4. Value(Length(Given)) \in Int
        <4>1. Given \in 0 .. Count - 1
          BY <3>2, <1>1 DEF Given
        <4>2. QED
          BY <4>1, <1>1, LengthPositive
      <3>5. new.at - new.late = Value(launch) + Value(expire)
        <4>1. Value(launch) = time + step - stepped
          BY DEF DriftInv, LaunchIsClock
        <4>2. new.at = time + Value(expire) + delay + step /\ new.late = delay + stepped
          BY <1>3, <1>12
        <4>3. QED
          BY <4>1, <4>2, <1>1
      <3>6. new.at - new.late = Last.at - Last.late + Last.work + Value(Length(Given))
        BY <3>2, <3>3, <3>4, <3>5, <1>1
      <3>7. Given = IF chain.kind = "gate" THEN changes'[i + 1].entry ELSE changes'[i].entry
        BY <3>1, <1>12 DEF Given
      <3>8. Meant(i + 1)' = new.at - new.late /\ Meant(i)' = Last.at - Last.late
        BY <3>1 DEF Meant
      <3>9. QED
        BY <3>1, <3>6, <3>7, <3>8
    <2>3. QED
      BY <2>1, <2>2, <1>10
  <1>21. QED
    BY <1>13, <1>14, <1>15, <1>16, <1>17, <1>19, <1>20 DEF DriftInv

-----------------------------------------------------------------------------
\* The invariant is inductive.
LEMMA DriftInvariant == Spec => []DriftInv
  <1>1. DriftInv /\ [Next]_vars => DriftInv'
    <2> SUFFICES ASSUME DriftInv, [Next]_vars PROVE DriftInv'
      OBVIOUS
    <2>1. CASE \E by \in Steps : SetClock(by)
      BY <2>1, SetClockDrift
    <2>2. CASE \E delay \in 0 .. MaxDelay, work \in 0 .. MaxWork : Expire(delay, work)
      BY <2>2, ExpireDrift
    <2>3. CASE UNCHANGED vars
      BY <2>3 DEF vars, DriftInv, TypeOK, LaunchIsClock, ClockReads, MakesUp, TimeLeft,
                  StatusFits, OnlyWorkAccumulates, Meant, Last, Given, Count, Length,
                  IntervalOf, Value, Armed, Refused, Zero
    <2>4. QED
      BY <2>1, <2>2, <2>3 DEF Next
  <1>2. QED
    BY InitDrift, <1>1, PTL DEF Spec

\* Every time the tickers compute and the clock returns has its nanoseconds in range:
\* the borrow of the two minus operators is right (ITimer.h).
THEOREM DriftTypeCorrect == Spec => []TypeOK
  <1>1. DriftInv => TypeOK
    BY DEF DriftInv
  <1>2. QED
    BY DriftInvariant, <1>1, PTL

\* Of what shifts the changes of a chain only the work of the handler adds up: the
\* deviation is taken from every interval2 (GateControlTicker, FlowTicker).
THEOREM LatenessIsMadeUp == Spec => []OnlyWorkAccumulates
  <1>1. DriftInv => OnlyWorkAccumulates
    BY DEF DriftInv
  <1>2. QED
    BY DriftInvariant, <1>1, PTL

\* A chain stops, or ends the program, only at a ticker that was late by the whole
\* interval to follow, whatever the delays and however the clock was set.
THEOREM ChainsBreakOnlyWhenLate == Spec => []BreaksOnlyWhenLate
  <1>1. DriftInv => BreaksOnlyWhenLate
    <2> SUFFICES ASSUME DriftInv, status # "armed" PROVE BreaksOnlyWhenLate
      BY DEF BreaksOnlyWhenLate
    <2>1. expire \in Normalised /\ status = Armed(expire) /\ Value(expire) \in Int
      BY ValueInt DEF DriftInv, TypeOK, StatusFits
    <2>2. ~(Value(expire) > 0)
      BY <2>1, ArmedByValue
    <2>3. changes # <<>> /\ chain.kind # "monitor"
      BY <2>2 DEF DriftInv, TimeLeft
    <2>4. Value(expire) = Value(Length(Given)) - Last.late
      BY <2>3 DEF DriftInv, MakesUp
    <2>5. Last \in [entry : 0 .. Count - 1, at : Nat, late : Int, work : Nat]
      <3>1. changes \in Seq([entry : 0 .. Count - 1, at : Nat, late : Int, work : Nat])
        BY DEF DriftInv, TypeOK
      <3>2. Len(changes) \in 1 .. Len(changes)
        BY <3>1, <2>3
      <3>3. QED
        BY <3>1, <3>2, ElementOfSeq DEF Last
    <2>6. Value(Length(Given)) \in Int
      <3>1. Given \in 0 .. Count - 1 /\ chain \in Chains
        BY <2>5 DEF Given, DriftInv, TypeOK
      <3>2. QED
        BY <3>1, LengthPositive
    <2>7. /\ status = "disarmed" => Last.late = Value(Length(Given))
          /\ status = "refused" => Last.late > Value(Length(Given))
      <3>1. /\ status = "disarmed" => Value(expire) = 0
            /\ status = "refused" => Value(expire) < 0
        BY <2>1, ArmedByValue
      <3>2. Last.late \in Int
        BY <2>5
      <3>3. QED
        BY <3>1, <3>2, <2>4, <2>6
    <2>8. QED
      BY <2>3, <2>7 DEF BreaksOnlyWhenLate, Last, Given
  <1>2. QED
    BY DriftInvariant, <1>1, PTL
=============================================================================
