--------------------------- MODULE PQTimer_proofs ---------------------------
(***************************************************************************)
(* PQTimer for any number of ports, addresses, commands and POSIX timers:  *)
(* types, the chains of tickers, and that every ticker that lives is armed *)
(* or waits in the heap.                                                   *)
(***************************************************************************)
EXTENDS PQTimer, ListLemmas, FiniteSetTheorems

\* The tickers of kind k.
Living(k) == {a \in Addresses : object[a] = k}

Chains == Ports \cup {"monitor"}

-----------------------------------------------------------------------------
\* Operators

LEMMA KindTypes ==
    /\ Chains \subseteq Kinds /\ "start" \in Kinds /\ "stop" \in Kinds
    /\ "free" \notin Kinds /\ "start" \notin Chains /\ "stop" \notin Chains
BY TimerAssumption DEF Kinds, Chains

\* The top of a heap that is not empty is its lowest address.
LEMMA TopIsLeast ==
    ASSUME NEW h \in SUBSET Addresses, h # {}
    PROVE  Min(h) \in h /\ \A a \in h : Min(h) <= a
<1>1. h \in SUBSET Nat
  BY TimerAssumption
<1>2. QED
  BY <1>1, MinIsLeast

\* Arming tickers keeps the counters in their bounds, and arms each once more.
LEMMA SetTimersTypes ==
    ASSUME TypeOK, NEW t \in [Addresses -> Nat], NEW S \in SUBSET Addresses, SetTimers(t, S)
    PROVE  /\ pending' \in [Addresses -> Nat] /\ created' \in 0 .. MaxTimers
           /\ status' \in {"running", "stopped", "failure", "undefined"}
           /\ status' = "running" =>
                 /\ status = "running"
                 /\ \A a \in Addresses : pending'[a] = IF a \in S THEN t[a] + 1 ELSE t[a]
<1>1. Cardinality(S) \in Nat
  BY TimerAssumption, FS_Subset, FS_CardinalityType
<1>2. /\ Armed(t, S) \in [Addresses -> Nat]
      /\ \A a \in Addresses : Armed(t, S)[a] = IF a \in S THEN t[a] + 1 ELSE t[a]
  BY DEF Armed
<1>3. CASE created + Cardinality(S) > MaxTimers
  BY <1>3 DEF SetTimers, TypeOK
<1>4. CASE ~(created + Cardinality(S) > MaxTimers)
  BY <1>1, <1>2, <1>4, TimerAssumption DEF SetTimers, TypeOK
<1>5. QED
  BY <1>3, <1>4

\* What a ticker leaves when it has run: it is deleted, and a ticker of each of the
\* given kinds lives in a cell that was free.
Ran(a, kinds, cells, fresh) ==
    /\ cells \subseteq Free /\ a \notin cells /\ a \in Addresses
    /\ fresh \in [cells -> kinds]
    /\ \A c, d \in cells : fresh[c] = fresh[d] => c = d
    /\ \A k \in kinds : \E c \in cells : fresh[c] = k
    /\ object' \in [Addresses -> Kinds \cup {"free"}]
    /\ \A b \in Addresses :
          object'[b] = IF b = a THEN "free" ELSE IF b \in cells THEN fresh[b] ELSE object[b]
    /\ SetTimers([pending EXCEPT ![a] = @ - 1], heap \cup cells)
    /\ heap' = {} /\ UNCHANGED <<pc, ticker, commands, ahead>>

LEMMA RunTickerRan ==
    ASSUME TypeOK, NEW a \in Addresses, object[a] # "free",
           NEW kinds \in SUBSET Chains, RunTicker(a, kinds)
    PROVE  \E cells \in SUBSET Addresses : \E fresh : Ran(a, kinds, cells, fresh)
<1>1. PICK cells \in kSubset(Cardinality(kinds), Free) : \E fresh \in Bijection(cells, kinds) :
          /\ object' = Deleted([b \in Addresses |->
                IF b \in cells THEN fresh[b] ELSE object[b]], a)
          /\ SetTimers([pending EXCEPT ![a] = @ - 1], heap \cup cells)
  BY DEF RunTicker
<1>2. PICK fresh \in Bijection(cells, kinds) :
          /\ object' = Deleted([b \in Addresses |->
                IF b \in cells THEN fresh[b] ELSE object[b]], a)
          /\ SetTimers([pending EXCEPT ![a] = @ - 1], heap \cup cells)
  BY <1>1
<1>3. cells \subseteq Free /\ cells \subseteq Addresses /\ a \notin cells
  BY DEF kSubset, Free
<1>4. /\ fresh \in [cells -> kinds] /\ \A c, d \in cells : fresh[c] = fresh[d] => c = d
      /\ \A k \in kinds : \E c \in cells : fresh[c] = k
  BY DEF Bijection, Injection, Surjection, IsInjective
<1>5. \A b \in Addresses :
         object'[b] = IF b = a THEN "free" ELSE IF b \in cells THEN fresh[b] ELSE object[b]
  BY <1>2 DEF Deleted
<1>6. object' \in [Addresses -> Kinds \cup {"free"}]
  <2>1. object' = [b \in Addresses |->
            IF b = a THEN "free" ELSE IF b \in cells THEN fresh[b] ELSE object[b]]
    BY <1>2 DEF Deleted
  <2>2. \A b \in Addresses :
           (IF b = a THEN "free" ELSE IF b \in cells THEN fresh[b] ELSE object[b])
              \in Kinds \cup {"free"}
    BY <1>4, KindTypes DEF TypeOK
  <2>3. QED
    BY <2>1, <2>2
<1>7. heap' = {} /\ UNCHANGED <<pc, ticker, commands, ahead>>
  BY DEF RunTicker
<1>8. Ran(a, kinds, cells, fresh)
  BY <1>2, <1>3, <1>4, <1>5, <1>6, <1>7 DEF Ran
<1>9. QED
  BY <1>3, <1>8

\* The timer that expired is gone, and the types are kept.
LEMMA RanTypes ==
    ASSUME TypeOK, NEW a, NEW kinds, NEW cells, NEW fresh, Ran(a, kinds, cells, fresh),
           Expires(a)
    PROVE  /\ heap' = {} /\ UNCHANGED <<pc, ticker, commands, ahead>>
           /\ pending' \in [Addresses -> Nat] /\ created' \in 0 .. MaxTimers
           /\ status' \in {"running", "stopped", "failure", "undefined"}
           /\ status' = "running" =>
                 /\ status = "running"
                 /\ \A b \in Addresses : pending'[b] =
                       LET left == IF b = a THEN pending[b] - 1 ELSE pending[b]
                       IN  IF b \in heap \cup cells THEN left + 1 ELSE left
<1> DEFINE t == [pending EXCEPT ![a] = @ - 1]
<1>1. a \in Addresses /\ pending[a] \in Nat /\ pending[a] > 0 /\ pending \in [Addresses -> Nat]
  BY DEF Ran, Expires, TypeOK
<1>2. t \in [Addresses -> Nat] /\ \A b \in Addresses : t[b] = IF b = a THEN pending[b] - 1 ELSE pending[b]
  BY <1>1
<1>3. heap \cup cells \in SUBSET Addresses /\ SetTimers(t, heap \cup cells)
  BY DEF Ran, Free, TypeOK
<1> HIDE DEF t
<1>4. /\ pending' \in [Addresses -> Nat] /\ created' \in 0 .. MaxTimers
      /\ status' \in {"running", "stopped", "failure", "undefined"}
      /\ status' = "running" =>
            /\ status = "running"
            /\ \A b \in Addresses : pending'[b] = IF b \in heap \cup cells THEN t[b] + 1 ELSE t[b]
  BY <1>2, <1>3, SetTimersTypes
<1>5. QED
  BY <1>2, <1>4 DEF Ran

-----------------------------------------------------------------------------
\* Counting

\* A cell that is filled counts once more, one that is emptied once less.
LEMMA LivingFinite == \A k : IsFiniteSet(Living(k)) /\ Cardinality(Living(k)) \in Nat
<1> SUFFICES ASSUME NEW k PROVE IsFiniteSet(Living(k)) /\ Cardinality(Living(k)) \in Nat
  OBVIOUS
<1>1. Living(k) \in SUBSET Addresses
  BY DEF Living
<1>2. QED
  BY <1>1, TimerAssumption, FS_Subset, FS_CardinalityType

\* Tickers of each kind: the start tickers that wait and those that ran are the commands,
\* and each kind of a chain lives once per start ticker that ran.
Counts ==
    /\ Cardinality(Living("start")) + starts = commands
    /\ \A k \in Chains : Cardinality(Living(k)) = starts

\* How the tickers of kind k change when the ticker at a has run.
LEMMA RanCounts ==
    ASSUME TypeOK, NEW a, NEW kinds \in SUBSET Chains, NEW cells, NEW fresh,
           Ran(a, kinds, cells, fresh), object[a] # "free", NEW k \in Kinds
    PROVE  Cardinality(Living(k)') =
               Cardinality(Living(k)) - (IF object[a] = k THEN 1 ELSE 0)
                                      + (IF k \in kinds THEN 1 ELSE 0)
<1> DEFINE rest == Living(k) \ {a}
<1>1. /\ IsFiniteSet(rest)
      /\ Cardinality(rest) = Cardinality(Living(k)) - (IF object[a] = k THEN 1 ELSE 0)
      /\ Cardinality(Living(k)) \in Nat
  <2>1. a \in Living(k) <=> object[a] = k
    BY DEF Living, Ran
  <2>2. QED
    BY <2>1, LivingFinite, FS_RemoveElement
<1>2. \A b \in Addresses :
         object'[b] = k <=> b \in rest \/ (b \in cells /\ fresh[b] = k)
  BY KindTypes DEF Ran, Living, Free
<1>3. rest \subseteq Addresses /\ cells \subseteq Addresses /\ \A c \in cells : c \notin rest
  BY KindTypes DEF Living, Free, Ran
<1> HIDE DEF rest
<1>4. CASE k \in kinds
  <2>1. PICK c \in cells : fresh[c] = k
    BY <1>4 DEF Ran
  <2>2. \A d \in cells : fresh[d] = k <=> d = c
    BY <2>1 DEF Ran
  <2>3. Living(k)' = rest \cup {c}
    BY <1>2, <1>3, <2>2 DEF Living
  <2>4. c \notin rest
    BY <1>3
  <2>5. Cardinality(rest \cup {c}) = Cardinality(rest) + 1
    BY <1>1, <2>4, FS_AddElement
  <2>6. QED
    BY <1>1, <1>4, <2>3, <2>5
<1>5. CASE k \notin kinds
  <2>1. \A d \in cells : fresh[d] # k
    BY <1>5 DEF Ran
  <2>2. Living(k)' = rest
    BY <1>2, <1>3, <2>1 DEF Living
  <2>3. QED
    BY <1>1, <1>5, <2>2
<1>6. QED
  BY <1>4, <1>5

\* The types and the counts are kept together: a start ticker that ran is one of the
\* commands because the start tickers that wait are counted besides it.
LEMMA CountsStep ==
    ASSUME TypeOK, Counts, Next
    PROVE  Counts' /\ starts' \in 0 .. commands' /\ object' \in [Addresses -> Kinds \cup {"free"}]
<1>0. starts \in Nat /\ commands \in Nat /\ \A k : Cardinality(Living(k)) \in Nat
  BY LivingFinite, TimerAssumption DEF TypeOK
<1> SUFFICES Counts' /\ starts' \in Nat /\ commands' \in Nat
                     /\ object' \in [Addresses -> Kinds \cup {"free"}]
  <2>1. starts' \in Nat /\ commands' \in Nat /\ Counts'
    OBVIOUS
  <2>2. Cardinality(Living("start"))' \in Nat
    <3>1. IsFiniteSet(Living("start")') /\ Cardinality(Living("start")') \in Nat
      <4>1. Living("start")' \in SUBSET Addresses
        BY DEF Living
      <4>2. QED
        BY <4>1, TimerAssumption, FS_Subset, FS_CardinalityType
    <3>2. QED
      BY <3>1
  <2>3. Cardinality(Living("start"))' + starts' = commands'
    BY <2>1 DEF Counts
  <2>4. QED
    BY <2>1, <2>2, <2>3
<1>1. CASE RunCommand
  <2>1. PICK a \in Free, b \in Free : a # b /\ object' = [object EXCEPT ![a] = "start", ![b] = "stop"]
    BY <1>1 DEF RunCommand
  <2>2. a \in Addresses /\ b \in Addresses /\ object[a] = "free" /\ object[b] = "free"
    BY DEF Free
  <2>3. /\ object' \in [Addresses -> Kinds \cup {"free"}]
        /\ \A c \in Addresses : object'[c] =
              IF c = b THEN "stop" ELSE IF c = a THEN "start" ELSE object[c]
    BY <2>1, <2>2, KindTypes DEF TypeOK
  <2>4. Living("start")' = Living("start") \cup {a} /\ a \notin Living("start")
    BY <2>1, <2>2, <2>3, KindTypes DEF Living
  <2>5. Cardinality(Living("start")') = Cardinality(Living("start")) + 1
    BY <2>4, LivingFinite, FS_AddElement
  <2>6. \A k \in Chains : Living(k)' = Living(k)
    BY <2>1, <2>2, <2>3, KindTypes DEF Living
  <2>7. starts' = starts /\ commands' = commands + 1
    BY <1>1 DEF RunCommand
  <2>8. Counts'
    BY <1>0, <2>5, <2>6, <2>7 DEF Counts
  <2>9. QED
    BY <1>0, <2>3, <2>7, <2>8
<1>2. ASSUME NEW a \in Addresses, StartTicker(a) PROVE Counts' /\ starts' \in Nat /\ commands' \in Nat
                     /\ object' \in [Addresses -> Kinds \cup {"free"}]
  <2>1. object[a] = "start" /\ RunTicker(a, Chains) /\ starts' = starts + 1 /\ Expires(a)
    BY <1>2 DEF StartTicker, Chains
  <2>2. PICK cells \in SUBSET Addresses : \E fresh : Ran(a, Chains, cells, fresh)
    BY <2>1, RunTickerRan
  <2>3. PICK fresh : Ran(a, Chains, cells, fresh)
    BY <2>2
  <2>4. commands' = commands /\ object' \in [Addresses -> Kinds \cup {"free"}]
    BY <2>3 DEF Ran
  <2>5. \A k \in Kinds : Cardinality(Living(k)') = Cardinality(Living(k))
            - (IF object[a] = k THEN 1 ELSE 0) + (IF k \in Chains THEN 1 ELSE 0)
    BY <2>1, <2>3, RanCounts
  <2>6. Cardinality(Living("start")') = Cardinality(Living("start")) - 1
    BY <1>0, <2>1, <2>5, KindTypes
  <2>7. \A k \in Chains : Cardinality(Living(k)') = Cardinality(Living(k)) + 1
    BY <1>0, <2>1, <2>5, KindTypes
  <2>8. Counts'
    BY <1>0, <2>1, <2>4, <2>6, <2>7 DEF Counts
  <2>9. QED
    BY <1>0, <2>1, <2>4, <2>8
<1>3. ASSUME NEW a \in Addresses, RecurringTicker(a) PROVE Counts' /\ starts' \in Nat /\ commands' \in Nat
                     /\ object' \in [Addresses -> Kinds \cup {"free"}]
  <2>1. object[a] \in Chains /\ RunTicker(a, {object[a]}) /\ starts' = starts /\ Expires(a)
    BY <1>3 DEF RecurringTicker, Chains
  <2>2. PICK cells \in SUBSET Addresses : \E fresh : Ran(a, {object[a]}, cells, fresh)
    BY <2>1, RunTickerRan, KindTypes
  <2>3. PICK fresh : Ran(a, {object[a]}, cells, fresh)
    BY <2>2
  <2>4. commands' = commands /\ object' \in [Addresses -> Kinds \cup {"free"}]
    BY <2>3 DEF Ran
  <2>5. \A k \in Kinds : Cardinality(Living(k)') = Cardinality(Living(k))
            - (IF object[a] = k THEN 1 ELSE 0) + (IF k \in {object[a]} THEN 1 ELSE 0)
    BY <2>1, <2>3, RanCounts, KindTypes
  <2>6. \A k \in Kinds : Cardinality(Living(k)') = Cardinality(Living(k))
    BY <1>0, <2>5
  <2>8. Counts'
    BY <1>0, <2>1, <2>4, <2>6, KindTypes DEF Counts
  <2>9. QED
    BY <1>0, <2>1, <2>4, <2>8
<1>4. CASE UNCHANGED <<object, starts, commands>>
  <2>1. \A k : Living(k)' = Living(k)
    BY <1>4 DEF Living
  <2>2. Counts'
    BY <1>4, <2>1 DEF Counts
  <2>3. QED
    BY <1>0, <1>4, <2>2 DEF TypeOK
<1>5. ASSUME NEW a \in Addresses, StopTicker(a) \/ DanglingTicker(a)
      PROVE  UNCHANGED <<object, starts, commands>>
  BY <1>5 DEF StopTicker, DanglingTicker
<1>6. QED
  BY <1>1, <1>2, <1>3, <1>4, <1>5 DEF Next, Loop, OnAlarm, Torn, AddStop, GetTicker, SetTimer, Pop

LEMMA TypeStep ==
    ASSUME TypeOK, Counts, Next
    PROVE  TypeOK'
<1> USE TimerAssumption
<1>0. starts' \in 0 .. commands' /\ object' \in [Addresses -> Kinds \cup {"free"}]
  BY CountsStep
<1>1. CASE RunCommand
  <2>1. /\ heap' \subseteq Addresses /\ pending' = pending /\ created' = created
        /\ ticker' \in Addresses /\ commands' = commands + 1 /\ ahead' \in BOOLEAN
        /\ commands < MaxCommands /\ pc' = "add" /\ status' = status
    BY <1>1 DEF RunCommand, Free, TypeOK
  <2>2. QED
    BY <1>0, <2>1 DEF TypeOK
<1>2. CASE AddStop
  BY <1>0, <1>2 DEF AddStop, TypeOK
<1>3. CASE GetTicker
  <2>1. heap # {} => Top \in Addresses
    BY TopIsLeast DEF Top, TypeOK
  <2>2. QED
    BY <1>0, <1>3, <2>1 DEF GetTicker, TypeOK
<1>4. CASE SetTimer
  <2>1. /\ pending' \in [Addresses -> Nat] /\ created' \in 0 .. MaxTimers
        /\ status' \in {"running", "stopped", "failure", "undefined"}
    BY <1>4, SetTimersTypes DEF SetTimer, TypeOK
  <2>2. QED
    BY <1>0, <1>4, <2>1 DEF SetTimer, TypeOK
<1>5. CASE Pop
  BY <1>0, <1>5 DEF Pop, TypeOK
<1>6. ASSUME NEW a \in Addresses, StartTicker(a) \/ RecurringTicker(a)
      PROVE  TypeOK'
  <2>1. Expires(a) /\ object[a] # "free"
            /\ (RunTicker(a, Chains) \/ (object[a] \in Chains /\ RunTicker(a, {object[a]})))
    BY <1>6, KindTypes DEF StartTicker, RecurringTicker, Chains
  <2>2. PICK kinds \in SUBSET Chains : RunTicker(a, kinds)
    BY <2>1
  <2>3. PICK cells \in SUBSET Addresses : \E fresh : Ran(a, kinds, cells, fresh)
    BY <2>1, <2>2, RunTickerRan
  <2>4. PICK fresh : Ran(a, kinds, cells, fresh)
    BY <2>3
  <2>5. /\ heap' = {} /\ UNCHANGED <<pc, ticker, commands, ahead>>
        /\ pending' \in [Addresses -> Nat] /\ created' \in 0 .. MaxTimers
        /\ status' \in {"running", "stopped", "failure", "undefined"}
    BY <2>1, <2>4, RanTypes
  <2>6. QED
    BY <1>0, <2>5 DEF TypeOK
<1>7. ASSUME NEW a \in Addresses, StopTicker(a) \/ DanglingTicker(a)
      PROVE  TypeOK'
  BY <1>0, <1>7 DEF StopTicker, DanglingTicker, TypeOK
<1>8. CASE Torn
  BY <1>0, <1>8 DEF Torn, TypeOK
<1>9. QED
  BY <1>1, <1>2, <1>3, <1>4, <1>5, <1>6, <1>7, <1>8 DEF Next, Loop, OnAlarm

LEMMA CountsStart == Init => TypeOK /\ Counts
<1> SUFFICES ASSUME Init PROVE TypeOK /\ Counts
  OBVIOUS
<1>1. Min(Addresses) \in Addresses
  BY TimerAssumption, TopIsLeast
<1>2. TypeOK
  BY <1>1, TimerAssumption DEF Init, TypeOK, Kinds
<1>3. \A k \in Kinds : Living(k) = {}
  BY KindTypes DEF Init, Living
<1>4. QED
  BY <1>2, <1>3, KindTypes, FS_EmptySet DEF Init, Counts

-----------------------------------------------------------------------------
\* Arming

\* The ticker at a is in the heap, or the loop is about to add it.
Waiting(a) == a \in heap \/ (pc = "add" /\ a = ticker)

\* No ticker is lost: one that lives is armed or waits.
Kept == \A a \in Addresses : object[a] # "free" => pending[a] >= 1 \/ Waiting(a)

\* The loop arms the top of the heap before it removes it; a heap emptied by the handler
\* meanwhile is undefined to remove from.
AtFront ==
    /\ pc = "idle" => heap = {}
    /\ pc \in {"set", "pop"} /\ heap # {} => ticker = Top
    /\ pc = "pop" /\ heap # {} => pending[ticker] >= 1

\* If nothing expires inside start(), the loop's own view is exact: only tickers that live
\* wait, and one that lives is armed by one timer from the moment setTimer returns.
Exact ==
    ahead =>
        /\ \A a \in Addresses : Waiting(a) => object[a] # "free"
        /\ pc = "add" => ticker \notin heap
        /\ pc \in {"set", "pop"} => heap # {}
        /\ \A a \in Addresses : pending[a] =
              IF object[a] # "free" /\ (~Waiting(a) \/ (pc = "pop" /\ a = ticker)) THEN 1 ELSE 0

Arming == status = "running" => Kept /\ AtFront /\ Exact

LEMMA ArmingRunCommand ==
    ASSUME TypeOK, Arming, RunCommand
    PROVE  Arming'
<1>0. status = "running" /\ pc = "idle" /\ heap = {} /\ Kept
  BY DEF RunCommand, Arming, AtFront
<1>1. PICK a \in Free, b \in Free :
         /\ a # b /\ object' = [object EXCEPT ![a] = "start", ![b] = "stop"]
         /\ heap' = heap \cup {a} /\ ticker' = b
  BY DEF RunCommand
<1>2. pc' = "add" /\ pending' = pending /\ heap' = {a}
  BY <1>0, <1>1 DEF RunCommand
<1>3. /\ a \in Addresses /\ b \in Addresses /\ object[a] = "free" /\ object[b] = "free"
      /\ \A c \in Addresses : object'[c] = IF c = b THEN "stop" ELSE IF c = a THEN "start" ELSE object[c]
  BY <1>1 DEF Free, TypeOK
<1>4. \A c \in Addresses : Waiting(c)' <=> c = a \/ c = b
  BY <1>1, <1>2 DEF Waiting
<1>5. Kept'
  <2> SUFFICES ASSUME NEW c \in Addresses, object'[c] # "free"
               PROVE  pending'[c] >= 1 \/ Waiting(c)'
    BY DEF Kept
  <2>1. CASE c = a \/ c = b
    BY <2>1, <1>4
  <2>2. CASE c # a /\ c # b
    <3>1. object[c] # "free" /\ ~Waiting(c)
      BY <2>2, <1>0, <1>3 DEF Waiting
    <3>2. QED
      BY <3>1, <1>0, <1>2 DEF Kept
  <2>3. QED
    BY <2>1, <2>2
<1>6. AtFront'
  BY <1>2 DEF AtFront
<1>7. Exact'
  <2> SUFFICES ASSUME ahead' PROVE Exact'
    BY DEF Exact
  <2>1. \A c \in Addresses : pending[c] = 0
    BY DEF RunCommand
  <2>2. \A c \in Addresses : object[c] = "free"
    BY <1>0, <2>1 DEF Kept, Waiting
  <2>3. \A c \in Addresses : object'[c] # "free" <=> c = a \/ c = b
    BY <1>3, <2>2
  <2>4. \A c \in Addresses : pending'[c] = 0
    BY <1>2, <2>1
  <2>5. ticker' \notin heap' /\ ticker' = b
    BY <1>1, <1>2
  <2>6. QED
    BY <1>2, <1>4, <2>3, <2>4, <2>5 DEF Exact
<1>8. QED
  BY <1>5, <1>6, <1>7 DEF Arming

LEMMA ArmingAddStop ==
    ASSUME TypeOK, Arming, AddStop
    PROVE  Arming'
<1>1. /\ status = "running" /\ Kept /\ AtFront /\ Exact
      /\ pc = "add" /\ pc' = "top" /\ heap' = heap \cup {ticker}
      /\ UNCHANGED <<object, pending, ticker, ahead>>
  BY DEF AddStop, Arming
<1>2. \A a : Waiting(a)' <=> Waiting(a)
  BY <1>1 DEF Waiting
<1>3. Kept'
  BY <1>1, <1>2 DEF Kept
<1>4. AtFront'
  BY <1>1 DEF AtFront
<1>5. Exact'
  BY <1>1, <1>2 DEF Exact
<1>6. QED
  BY <1>3, <1>4, <1>5 DEF Arming

LEMMA ArmingGetTicker ==
    ASSUME TypeOK, Arming, GetTicker
    PROVE  Arming'
<1>1. /\ status = "running" /\ Kept /\ AtFront /\ Exact
      /\ pc = "top" /\ UNCHANGED <<object, heap, pending, ahead>>
      /\ \/ heap = {} /\ pc' = "idle" /\ ticker' = ticker
         \/ heap # {} /\ pc' = "set" /\ ticker' = Top
  BY DEF GetTicker, Arming
<1>2. \A a : Waiting(a)' <=> Waiting(a)
  BY <1>1 DEF Waiting
<1>3. Kept'
  BY <1>1, <1>2 DEF Kept
<1>4. AtFront'
  BY <1>1 DEF AtFront, Top
<1>5. Exact'
  BY <1>1, <1>2 DEF Exact
<1>6. QED
  BY <1>3, <1>4, <1>5 DEF Arming

LEMMA ArmingSetTimer ==
    ASSUME TypeOK, Arming, SetTimer
    PROVE  Arming'
<1> SUFFICES ASSUME status' = "running" PROVE Arming'
  BY DEF Arming
<1>1. /\ status = "running" /\ Kept /\ AtFront /\ Exact
      /\ pc = "set" /\ pc' = "pop" /\ UNCHANGED <<object, heap, ticker, ahead>>
      /\ ticker \in Addresses /\ pending \in [Addresses -> Nat]
  BY DEF SetTimer, Arming, TypeOK
<1>2. \A a \in Addresses : pending'[a] = IF a = ticker THEN pending[a] + 1 ELSE pending[a]
  <2>1. SetTimers(pending, {ticker}) /\ {ticker} \in SUBSET Addresses
    BY <1>1 DEF SetTimer
  <2>2. QED
    BY <1>1, <2>1, SetTimersTypes
<1>3. \A a : Waiting(a)' <=> Waiting(a)
  BY <1>1 DEF Waiting
<1>4. Kept'
  BY <1>1, <1>2, <1>3 DEF Kept
<1>5. AtFront'
  BY <1>1, <1>2 DEF AtFront, Top
<1>6. Exact'
  <2> SUFFICES ASSUME ahead PROVE Exact'
    BY <1>1 DEF Exact
  <2>1. heap # {} /\ ticker \in heap
    <3>1. heap # {} /\ ticker = Top
      BY <1>1 DEF Exact, AtFront
    <3>2. QED
      BY <3>1, TopIsLeast DEF Top, TypeOK
  <2>2. Waiting(ticker) /\ object[ticker] # "free" /\ pending[ticker] = 0
    BY <1>1, <2>1 DEF Exact, Waiting
  <2>3. QED
    BY <1>1, <1>2, <1>3, <2>1, <2>2 DEF Exact
<1>7. QED
  BY <1>4, <1>5, <1>6 DEF Arming

LEMMA ArmingPop ==
    ASSUME TypeOK, Arming, Pop
    PROVE  Arming'
<1> SUFFICES ASSUME status' = "running" PROVE Arming'
  BY DEF Arming
<1>1. /\ status = "running" /\ Kept /\ AtFront /\ Exact
      /\ pc = "pop" /\ pc' = "top" /\ heap # {} /\ heap' = heap \ {Top}
      /\ UNCHANGED <<object, pending, ticker, ahead>>
  BY DEF Pop, Arming
<1>2. ticker = Top /\ pending[ticker] >= 1 /\ ticker \in heap
  BY <1>1, TopIsLeast DEF AtFront, Top, TypeOK
<1>3. \A a : Waiting(a)' <=> Waiting(a) /\ a # ticker
  BY <1>1, <1>2 DEF Waiting
<1>4. Kept'
  BY <1>1, <1>2, <1>3 DEF Kept
<1>5. AtFront'
  BY <1>1 DEF AtFront
<1>6. Exact'
  BY <1>1, <1>2, <1>3 DEF Exact
<1>7. QED
  BY <1>4, <1>5, <1>6 DEF Arming

LEMMA ArmingRan ==
    ASSUME TypeOK, Arming, NEW a, NEW kinds \in SUBSET Chains, NEW cells, NEW fresh,
           Ran(a, kinds, cells, fresh), Expires(a), object[a] # "free"
    PROVE  Arming'
<1> SUFFICES ASSUME status' = "running" PROVE Arming'
  BY DEF Arming
<1>1. /\ status = "running" /\ Kept /\ AtFront /\ Exact
      /\ heap' = {} /\ UNCHANGED <<pc, ticker, commands, ahead>>
      /\ \A b \in Addresses : pending'[b] =
            LET left == IF b = a THEN pending[b] - 1 ELSE pending[b]
            IN  IF b \in heap \cup cells THEN left + 1 ELSE left
  BY RanTypes DEF Arming
<1>2. /\ a \in Addresses /\ a \notin cells /\ pending \in [Addresses -> Nat]
      /\ \A b \in cells : object[b] = "free"
      /\ \A b \in Addresses : object'[b] = "free" <=>
            b = a \/ (b \notin cells /\ object[b] = "free")
  BY KindTypes DEF Ran, Free, TypeOK
<1>3. Kept'
  <2> SUFFICES ASSUME NEW b \in Addresses, object'[b] # "free"
               PROVE  pending'[b] >= 1 \/ Waiting(b)'
    BY DEF Kept
  <2>1. b # a /\ (b \in cells \/ object[b] # "free") /\ pending[b] \in Nat
    BY <1>2
  <2>2. CASE b \in heap \cup cells
    BY <1>1, <2>1, <2>2
  <2>3. CASE b \notin heap \cup cells
    BY <1>1, <2>1, <2>3 DEF Kept, Waiting
  <2>4. QED
    BY <2>2, <2>3
<1>4. AtFront'
  BY <1>1 DEF AtFront
<1>5. Exact'
  <2> SUFFICES ASSUME ahead PROVE Exact'
    BY <1>1 DEF Exact
  <2>1. pc = "idle" /\ heap = {}
    BY <1>1 DEF Expires, AtFront
  <2>2. \A b \in Addresses : ~Waiting(b) /\ ~Waiting(b)'
    BY <1>1, <2>1 DEF Waiting
  <2>3. \A b \in Addresses : pending[b] = IF object[b] # "free" THEN 1 ELSE 0
    BY <1>1, <2>1, <2>2 DEF Exact
  <2>4. \A b \in Addresses : pending'[b] = IF object'[b] # "free" THEN 1 ELSE 0
    <3> SUFFICES ASSUME NEW b \in Addresses
                 PROVE  pending'[b] = IF object'[b] # "free" THEN 1 ELSE 0
      OBVIOUS
    <3>1. CASE b = a
      BY <1>1, <1>2, <2>1, <2>3, <3>1
    <3>2. CASE b # a /\ b \in cells
      BY <1>1, <1>2, <2>1, <2>3, <3>2
    <3>3. CASE b # a /\ b \notin cells
      BY <1>1, <1>2, <2>1, <2>3, <3>3
    <3>4. QED
      BY <3>1, <3>2, <3>3
  <2>5. QED
    BY <1>1, <2>1, <2>2, <2>4 DEF Exact
<1>6. QED
  BY <1>3, <1>4, <1>5 DEF Arming

LEMMA ArmingStep ==
    ASSUME TypeOK, Arming, Next
    PROVE  Arming'
<1>1. ASSUME NEW a \in Addresses, StartTicker(a) \/ RecurringTicker(a)
      PROVE  Arming'
  <2>1. Expires(a) /\ object[a] # "free"
            /\ (RunTicker(a, Chains) \/ (object[a] \in Chains /\ RunTicker(a, {object[a]})))
    BY <1>1, KindTypes DEF StartTicker, RecurringTicker, Chains
  <2>2. PICK kinds \in SUBSET Chains : RunTicker(a, kinds)
    BY <2>1
  <2>3. PICK cells \in SUBSET Addresses : \E fresh : Ran(a, kinds, cells, fresh)
    BY <2>1, <2>2, RunTickerRan
  <2>4. PICK fresh : Ran(a, kinds, cells, fresh)
    BY <2>3
  <2>5. QED
    BY <2>1, <2>4, ArmingRan
<1>2. ASSUME NEW a \in Addresses, StopTicker(a) \/ DanglingTicker(a)
      PROVE  Arming'
  BY <1>2 DEF StopTicker, DanglingTicker, Arming
<1>3. CASE Torn
  BY <1>3 DEF Torn, Arming
<1>4. QED
  BY <1>1, <1>2, <1>3, ArmingRunCommand, ArmingAddStop, ArmingGetTicker, ArmingSetTimer, ArmingPop
     DEF Next, Loop, OnAlarm

-----------------------------------------------------------------------------
\* Theorems

TimerInv == TypeOK /\ Counts /\ Arming

LEMMA Inductive == Spec => []TimerInv
<1>1. Init => TimerInv
  <2> SUFFICES ASSUME Init PROVE Arming
    BY CountsStart DEF TimerInv
  <2>1. /\ heap = {} /\ pc = "idle"
        /\ \A a \in Addresses : object[a] = "free" /\ pending[a] = 0
    BY DEF Init
  <2>2. QED
    BY <2>1 DEF Arming, Kept, AtFront, Exact, Waiting
<1>2. TimerInv /\ [Next]_vars => TimerInv'
  <2>1. ASSUME TimerInv, UNCHANGED vars PROVE TimerInv'
    <3>1. \A k : Living(k)' = Living(k)
      BY <2>1 DEF Living, vars
    <3>2. \A a : Waiting(a)' <=> Waiting(a)
      BY <2>1 DEF Waiting, vars
    <3>3. Counts' /\ TypeOK'
      BY <2>1, <3>1 DEF Counts, TypeOK, TimerInv, vars
    <3>4. Arming'
      BY <2>1, <3>2 DEF Arming, Kept, AtFront, Exact, Top, TimerInv, vars
    <3>5. QED
      BY <3>3, <3>4 DEF TimerInv
  <2>2. QED
    BY <2>1, TypeStep, CountsStep, ArmingStep DEF TimerInv
<1>3. QED
  BY <1>1, <1>2, PTL DEF Spec

\* TypeOK: every variable keeps its type; in particular no start ticker runs without its
\* command, and the timers created stay within the limit of the kernel.
THEOREM TypeCorrect == Spec => []TypeOK
<1>1. TimerInv => TypeOK
  BY DEF TimerInv
<1>2. QED
  BY <1>1, Inductive, PTL

\* OneChainEach: the chains of a port and of the monitor neither break nor fork, for any
\* number of commands, in whatever order the allocator hands the cells out, and also when
\* start() is preempted: a ticker armed twice does not multiply, because the second
\* timer that carries it ends the program or runs whatever ticker lives there by then.
THEOREM ChainsKeepTheirNumber == Spec => []OneChainEach
<1>1. TimerInv => OneChainEach
  BY DEF TimerInv, Counts, OneChainEach, Living, Chains
<1>2. QED
  BY <1>1, Inductive, PTL

\* NoTickerLost: between two turns of the loop every ticker that lives is armed, even if
\* the handler drained the heap in the middle of start().
LEMMA EveryTickerArmed == Spec => []NoTickerLost
<1>1. TimerInv => NoTickerLost
  <2> SUFFICES ASSUME TimerInv, status = "running", pc = "idle", NEW a \in Addresses,
                      object[a] # "free"
               PROVE  pending[a] > 0
    BY DEF NoTickerLost
  <2>1. ~Waiting(a)
    BY DEF TimerInv, Arming, AtFront, Waiting
  <2>2. pending[a] >= 1 /\ pending[a] \in Nat
    BY <2>1 DEF TimerInv, Arming, Kept, TypeOK
  <2>3. QED
    BY <2>2
<1>2. QED
  BY <1>1, Inductive, PTL

\* EachTickerArmedOnce: if no timer expires inside start(), a ticker that lives is
\* armed by one timer and no timer carries the address of a deleted one.
LEMMA ArmedOnce == Spec => []EachTickerArmedOnce
<1>1. TimerInv => EachTickerArmedOnce
  <2> SUFFICES ASSUME TimerInv, status = "running", pc = "idle", ahead
               PROVE  /\ heap = {}
                      /\ \A a \in Addresses : pending[a] = IF object[a] = "free" THEN 0 ELSE 1
    BY DEF EachTickerArmedOnce
  <2>1. heap = {} /\ Exact
    BY DEF TimerInv, Arming, AtFront
  <2>2. \A a \in Addresses : ~Waiting(a)
    BY <2>1 DEF Waiting
  <2>3. QED
    BY <2>1, <2>2 DEF Exact
<1>2. QED
  BY <1>1, Inductive, PTL

\* UndefinedOnlyInTime: commands that come ahead of their start times never lead the
\* program to a deleted ticker or to an empty heap, whatever the allocator reuses.
LEMMA AheadIsDefined == Spec => []UndefinedOnlyInTime
<1>1. Init => UndefinedOnlyInTime
  BY DEF Init, UndefinedOnlyInTime
<1>2. TimerInv /\ UndefinedOnlyInTime /\ [Next]_vars => UndefinedOnlyInTime'
  <2> SUFFICES ASSUME TimerInv, status' = "undefined", Next, ahead'
               PROVE  FALSE
    BY DEF UndefinedOnlyInTime, vars, Next, Loop, OnAlarm, Torn, RunCommand, AddStop, GetTicker,
           SetTimer, Pop, StartTicker, RecurringTicker, StopTicker, DanglingTicker, Expires
  <2>1. status = "running" /\ ahead => TypeOK /\ AtFront /\ Exact
    BY DEF TimerInv, Arming
  <2>2. CASE Pop
    <3>1. status = "running" /\ ahead /\ pc = "pop"
      BY <2>2 DEF Pop
    <3>2. heap # {} /\ ticker = Top
      BY <2>1, <3>1 DEF Exact, AtFront
    <3>3. ticker \in heap /\ ticker \in Addresses
      BY <2>1, <3>1, <3>2, TopIsLeast DEF Top, TypeOK
    <3>4. object[ticker] # "free"
      BY <2>1, <3>1, <3>3 DEF Exact, Waiting
    <3>5. QED
      BY <2>2, <3>2, <3>4 DEF Pop
  <2>3. ASSUME NEW a \in Addresses, DanglingTicker(a) PROVE FALSE
    <3>1. status = "running" /\ ahead /\ pc = "idle" /\ pending[a] > 0 /\ object[a] = "free"
      BY <2>3 DEF DanglingTicker, Expires
    <3>2. pending[a] = 0
      BY <2>1, <3>1 DEF Exact
    <3>3. QED
      BY <3>1, <3>2
  <2>4. ASSUME NEW t, NEW S, SetTimers(t, S), status = "running" PROVE FALSE
    BY <2>4 DEF SetTimers
  <2>5. status = "running"
    BY DEF Next, Loop, OnAlarm, Torn, RunCommand, AddStop, GetTicker, SetTimer, Pop,
           StartTicker, RecurringTicker, StopTicker, DanglingTicker, Expires
  <2>6. CASE RunCommand \/ AddStop \/ GetTicker \/ SetTimer
    BY <2>4, <2>5, <2>6 DEF RunCommand, AddStop, GetTicker, SetTimer
  <2>7. ASSUME NEW a \in Addresses, StartTicker(a) \/ RecurringTicker(a) \/ StopTicker(a)
        PROVE  FALSE
    BY <2>4, <2>5, <2>7 DEF StartTicker, RecurringTicker, StopTicker, RunTicker
  <2>8. QED
    BY <2>2, <2>3, <2>6, <2>7 DEF Next, Loop, OnAlarm, Torn
<1>3. QED
  BY <1>1, <1>2, Inductive, PTL DEF Spec

\* TickersArmed: no ticker is left in no heap and under no timer, none is armed twice
\* or called after its deletion but by a command that came too late for start().
THEOREM TickersStayArmed == Spec => []TickersArmed
BY EveryTickerArmed, ArmedOnce, AheadIsDefined, PTL DEF TickersArmed
=============================================================================
