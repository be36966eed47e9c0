------------------------------ MODULE PQTimer ------------------------------
(***************************************************************************)
(* PQTimer: the heap of tickers, the POSIX timers it is drained into and   *)
(* the SIGRTMAX handler that runs a ticker and deletes it.                 *)
(*                                                                         *)
(* Tickers are heap objects and every party knows them by address only:    *)
(* the priority queue (ordered by pointer, PQTimer.h:21-25), the sigev     *)
(* value of the POSIX timers and the local variable of start().  onAlarm   *)
(* deletes the ticker it ran, and a later new may reuse the address.       *)
(*                                                                         *)
(* The reactor loop runs start() from the run command, one step per call   *)
(* on the priority queue or on a timer.  The signal handler runs on top of *)
(* it as one atomic action, since handlers do not nest; it calls start()   *)
(* as well.  A call on the queue is many reads and writes; what a handler  *)
(* inside one makes of it is undefined, and an action of its own (Torn).   *)
(* No ticker of the program is periodic in the sense of Ticker::period, so *)
(* the branch that adds a ticker again (PQTimer.cc:204-207) is left out.   *)
(***************************************************************************)
EXTENDS Integers, FiniteSets, FiniteSetsExt, Functions

CONSTANTS
    Addresses,      \* where new places tickers
    Ports,          \* the ports whose setTimer starts a chain of tickers
    MaxCommands,    \* bound: run commands received
    MaxTimers       \* kernel limit on POSIX timers (RLIMIT_SIGPENDING)

ASSUME TimerAssumption ==
    /\ Addresses \subseteq Nat /\ IsFiniteSet(Addresses) /\ Addresses # {}
    /\ Ports \subseteq STRING \ {"free", "start", "stop", "monitor"} /\ IsFiniteSet(Ports)
    /\ MaxCommands \in Nat /\ MaxTimers \in Nat

Kinds == {"start", "stop", "monitor"} \cup Ports

VARIABLES
    object,     \* address -> the kind of ticker living there, or "free"
    heap,       \* PQTimer::m_tickers
    pending,    \* address -> armed POSIX timers that carry it
    created,    \* POSIX timers created: none is ever deleted
    pc,         \* where the loop is in handle_event and start()
    ticker,     \* the local variable of start(); the stop ticker before that
    commands,   \* bound: commands received
    ahead,      \* the command came ahead of its start time, with no timer armed
    starts,     \* history: start tickers that have run
    status      \* "running", "stopped", "failure" or "undefined"

vars == <<object, heap, pending, created, pc, ticker, commands, ahead, starts, status>>

Free == {a \in Addresses : object[a] = "free"}

\* getTicker(): the lowest address first.
Top == Min(heap)

\* Timers t after setTimer for every ticker of S.
Armed(t, S) == [a \in Addresses |-> IF a \in S THEN t[a] + 1 ELSE t[a]]

\* Mutant of SetTimers: the limit is not met.
SetTimersUnlimited(t, S) ==
    pending' = Armed(t, S) /\ created' = created + Cardinality(S) /\ UNCHANGED status

\* setTimer for every ticker of S, over timers t; timer_create fails at the limit.
SetTimers(t, S) ==
    IF created + Cardinality(S) > MaxTimers
    THEN status' = "failure" /\ pending' = t /\ UNCHANGED created
    ELSE pending' = Armed(t, S) /\ created' = created + Cardinality(S) /\ UNCHANGED status

-----------------------------------------------------------------------------
Init ==
    /\ object = [a \in Addresses |-> "free"]
    /\ heap = {}
    /\ pending = [a \in Addresses |-> 0]
    /\ created = 0
    /\ pc = "idle"
    /\ ticker = Min(Addresses)
    /\ commands = 0
    /\ ahead = TRUE
    /\ starts = 0
    /\ status = "running"

(***************************************************************************)
(* The reactor loop: ControlEventHandler::handle_event and start().        *)
(***************************************************************************)

\* A run command, "run <start> <seconds>": both tickers are created, the start
\* ticker is added.  When the start time has come already (the controller was told
\* "run 0 60", or the network is slow), or other timers are armed, a timer may
\* expire inside start().
RunCommand ==
    /\ status = "running" /\ pc = "idle" /\ commands < MaxCommands
    /\ \E a, b \in Free :
          /\ a # b
          /\ object' = [object EXCEPT ![a] = "start", ![b] = "stop"]
          /\ heap' = heap \cup {a}
          /\ ticker' = b
    /\ ahead' \in {FALSE} \cup {\A a \in Addresses : pending[a] = 0}
    /\ commands' = commands + 1
    /\ pc' = "add"
    /\ UNCHANGED <<pending, created, starts, status>>

\* The stop ticker is added.
AddStop ==
    /\ status = "running" /\ pc = "add"
    /\ heap' = heap \cup {ticker}
    /\ pc' = "top"
    /\ UNCHANGED <<object, pending, created, ticker, commands, ahead, starts, status>>

\* Mutant of GetTicker: the ticker armed is not the one that is removed.
GetTickerLast ==
    /\ status = "running" /\ pc = "top"
    /\ IF heap = {} THEN pc' = "idle" /\ UNCHANGED ticker
       ELSE pc' = "set" /\ ticker' = Max(heap)
    /\ UNCHANGED <<object, heap, pending, created, commands, ahead, starts, status>>

\* LOOP: the first ticker of the heap, or "empty timer" and return.
GetTicker ==
    /\ status = "running" /\ pc = "top"
    /\ IF heap = {} THEN pc' = "idle" /\ UNCHANGED ticker
       ELSE pc' = "set" /\ ticker' = Top
    /\ UNCHANGED <<object, heap, pending, created, commands, ahead, starts, status>>

\* setTimer(ticker).
SetTimer ==
    /\ status = "running" /\ pc = "set"
    /\ SetTimers(pending, {ticker})
    /\ pc' = "pop"
    /\ UNCHANGED <<object, heap, ticker, commands, ahead, starts>>

\* removeTicker() and ticker->isPeriodic(): undefined on an empty heap, or when
\* the handler deleted the ticker meanwhile.
Pop ==
    /\ status = "running" /\ pc = "pop"
    /\ IF heap = {} \/ object[ticker] = "free"
       THEN status' = "undefined" /\ UNCHANGED <<heap, pc>>
       ELSE heap' = heap \ {Top} /\ pc' = "top" /\ UNCHANGED status
    /\ UNCHANGED <<object, pending, created, ticker, commands, ahead, starts>>

(***************************************************************************)
(* The signal handler: onAlarm with the ticker at address a.               *)
(***************************************************************************)

\* A timer that carries address a expires.
Expires(a) ==
    /\ status = "running" /\ pending[a] > 0
    /\ ahead => pc = "idle"

\* onAlarm deletes the ticker after its call.
Deleted(objects, a) == [objects EXCEPT ![a] = "free"]

\* The ticker at a adds tickers of the given kinds and calls start(), which
\* drains the whole heap; then onAlarm deletes the ticker.
RunTicker(a, kinds) ==
    /\ \E cells \in kSubset(Cardinality(kinds), Free) : \E fresh \in Bijection(cells, kinds) :
          /\ object' = Deleted([b \in Addresses |->
                IF b \in cells THEN fresh[b] ELSE object[b]], a)
          /\ SetTimers([pending EXCEPT ![a] = @ - 1], heap \cup cells)
    /\ heap' = {}
    /\ UNCHANGED <<pc, ticker, commands, ahead>>

\* StartTicker: every port's setTimer, and the monitor.
StartTicker(a) ==
    /\ Expires(a) /\ object[a] = "start"
    /\ RunTicker(a, Ports \cup {"monitor"})
    /\ starts' = starts + 1

\* Mutant of RecurringTicker: the tickers of all ports are added again.
RecurringTickerAll(a) ==
    /\ Expires(a) /\ object[a] \in Ports \cup {"monitor"}
    /\ RunTicker(a, Ports)
    /\ UNCHANGED starts

\* GateControlTicker, FlowTicker and MonitorTicker add their successor.
RecurringTicker(a) ==
    /\ Expires(a) /\ object[a] \in Ports \cup {"monitor"}
    /\ RunTicker(a, {object[a]})
    /\ UNCHANGED starts

\* StopTicker writes the statistics and exits.
StopTicker(a) ==
    /\ Expires(a) /\ object[a] = "stop"
    /\ status' = "stopped"
    /\ UNCHANGED <<object, heap, pending, created, pc, ticker, commands, ahead, starts>>

\* The ticker at a was deleted: the callback goes through a dangling pointer.
DanglingTicker(a) ==
    /\ Expires(a) /\ object[a] = "free"
    /\ status' = "undefined"
    /\ UNCHANGED <<object, heap, pending, created, pc, ticker, commands, ahead, starts>>

\* A ticker that calls start() expires inside a call on the queue: between size() and
\* top() of getTicker(), inside push() or pop(), or before isPeriodic() reads what was
\* popped.  With the first push of a run command that takes another run's timers.
Torn ==
    /\ status = "running"
    /\ \E a \in Addresses : pending[a] > 0 /\ object[a] # "stop"
    /\ \/ pc = "idle" /\ commands < MaxCommands
       \/ ~ahead /\ pc \in {"add", "pop"}
       \/ ~ahead /\ pc = "top" /\ heap # {}
    /\ status' = "undefined" /\ ahead' = FALSE
    /\ UNCHANGED <<object, heap, pending, created, pc, ticker, commands, starts>>

-----------------------------------------------------------------------------
Loop == RunCommand \/ AddStop \/ GetTicker \/ SetTimer \/ Pop

OnAlarm == \E a \in Addresses :
    StartTicker(a) \/ RecurringTicker(a) \/ StopTicker(a) \/ DanglingTicker(a)

Next == Loop \/ OnAlarm \/ Torn

Spec == Init /\ [][Next]_vars

-----------------------------------------------------------------------------
\* Properties

TypeOK ==
    /\ object \in [Addresses -> Kinds \cup {"free"}]
    /\ heap \subseteq Addresses
    /\ pending \in [Addresses -> Nat]
    /\ created \in 0 .. MaxTimers
    /\ pc \in {"idle", "add", "top", "set", "pop"}
    /\ ticker \in Addresses
    /\ commands \in 0 .. MaxCommands
    /\ ahead \in BOOLEAN /\ starts \in 0 .. commands
    /\ status \in {"running", "stopped", "failure", "undefined"}

\* If nothing expires inside start(): whenever the loop is back, every ticker that
\* exists is armed by exactly one timer and no timer refers to a deleted one. None
\* is lost between addTicker and start, registered twice, or leaked.
EachTickerArmedOnce ==
    status = "running" /\ pc = "idle" /\ ahead =>
        /\ heap = {}
        /\ \A a \in Addresses : pending[a] = IF object[a] = "free" THEN 0 ELSE 1

\* Even if the start time has come already and the handler drains the heap in the middle
\* of start(): whenever the loop is back, every ticker that exists is armed. One may be
\* armed twice then, and none is left in no heap and under no timer, where a chain ends.
NoTickerLost ==
    status = "running" /\ pc = "idle" =>
        \A a \in Addresses : object[a] # "free" => pending[a] > 0

\* Undefined behaviour, a ticker called after its deletion, removed from an empty heap or
\* a heap torn between the two callers of start(), takes a command that did not come
\* ahead of its start time: no other order of the expiries leads to it.
UndefinedOnlyInTime == status = "undefined" => ~ahead

\* No order in which timers expire and the two callers of start() go on leaves a ticker
\* behind, and none harms a command that came ahead of its start time.
TickersArmed == NoTickerLost /\ EachTickerArmedOnce /\ UndefinedOnlyInTime

\* Every port and the monitor have exactly one ticker for each run command whose start
\* ticker has run, even after one was armed twice and although a second command may be
\* preempted by the chains of the first: as long as the program runs, a chain neither
\* breaks nor forks, so with one command the gates move at the pace of the list, and
\* with two at twice its pace.
OneChainEach ==
    status = "running" =>
        \A k \in Ports \cup {"monitor"} : Cardinality({a \in Addresses : object[a] = k}) = starts

\* "the pointer of the expired Ticker instance is passed to on_alarm(), which
\* calls that instance" (Dev Guide.md:132): a timer never carries the address of
\* a ticker that has been deleted.
CallsLiveTicker == \A a \in Addresses : pending[a] > 0 => object[a] # "free"
=============================================================================
