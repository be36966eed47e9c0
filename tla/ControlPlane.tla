---------------------------- MODULE ControlPlane ----------------------------
(***************************************************************************)
(* From a line typed at the configurator to the start and stop of the      *)
(* nodes.  The configurator's reactor serves its standard input            *)
(* (CommandEventHandler, READ) and one controller port per node            *)
(* (TSNController behind CommandEventHandler, WRITE); each node's serves   *)
(* its console (ControlEventHandler), which sets a start and a stop ticker *)
(* by the clock.                                                           *)
(*                                                                         *)
(* A reactor takes the descriptors epoll_wait reported as a batch and      *)
(* serves them one by one, in an order of epoll's; it does not look at the *)
(* interest set again.                                                     *)
(***************************************************************************)
EXTENDS PortLifecycle, SequencesExt, FiniteSets

CONSTANTS
    Lines,      \* what can be typed: a command, its delay and its run time in seconds;
                \* noDelay and noTime: a run command with that argument no number
    MaxLines,   \* bound: lines typed
    MaxLost,    \* bound: commands for which sendto fails
    MaxClock    \* bound: seconds

ASSUME ControlAssumption ==
    /\ Lines \subseteq [cmd : {"run", "noDelay", "noTime", "other"}, delay : Nat, run : Nat]
    /\ MaxLines \in Nat /\ MaxLost \in Nat /\ MaxClock \in Nat
    /\ "stdin" \notin Nodes

VARIABLES
    tty,        \* standard input is a terminal (otherwise a pipe)
    typed,      \* bound: lines typed
    stdin,      \* lines the kernel holds for standard input
    buffered,   \* lines std::cin has read from there and not yet handed out
    running,    \* the configurator runs
    batch,      \* what epoll_wait reported and the loop has not yet served
    armed,      \* node -> EPOLLOUT is in the interest set of its controller port
    command,    \* node -> TSNController::m_command, 0 when empty
    commands,   \* history: the run commands made; timed: with a run time that is a number
    tried,      \* history: node -> the commands given to sendto
    lost,       \* bound: how often sendto failed
    link,       \* node -> commands on the way to its console
    received,   \* node -> the commands its console read
    heard,      \* history: node -> when it read the last of them
    waiting,    \* node -> the commands whose start ticker is armed
    clock       \* seconds, the same for all

configurator == <<stdin, buffered, running, batch, armed, command, commands, tried, lost>>
node == <<received, heard, waiting>>
controlVars == <<lifecycle, tty, typed, configurator, link, node, clock>>

-----------------------------------------------------------------------------
\* registerEventHandler puts EPOLLOUT into the interest set of every controller port.
ControlInit ==
    /\ LifecycleInit
    /\ tty \in BOOLEAN
    /\ typed = 0 /\ stdin = <<>> /\ buffered = <<>>
    /\ running = TRUE
    /\ batch = {}
    /\ armed = [n \in Nodes |-> TRUE]
    /\ command = [n \in Nodes |-> 0]
    /\ commands = <<>>
    /\ tried = [n \in Nodes |-> <<>>]
    /\ lost = 0
    /\ link = [n \in Nodes |-> <<>>]
    /\ received = [n \in Nodes |-> <<>>]
    /\ heard = [n \in Nodes |-> 0]
    /\ waiting = [n \in Nodes |-> {}]
    /\ clock = 0

-----------------------------------------------------------------------------
(***************************************************************************)
(* The configurator.                                                       *)
(***************************************************************************)

\* Somebody types a line.
Type(l) ==
    /\ typed < MaxLines
    /\ typed' = typed + 1
    /\ stdin' = Append(stdin, l)
    /\ UNCHANGED <<lifecycle, tty, buffered, running, batch, armed, command, commands,
                   tried, lost, link, node, clock>>

\* Selector::wait: the descriptors that are ready, if there are any.
Wait ==
    /\ running /\ batch = {}
    /\ batch' = {n \in Nodes : armed[n]} \cup (IF stdin = <<>> THEN {} ELSE {"stdin"})
    /\ batch' # {}
    /\ UNCHANGED <<lifecycle, tty, typed, stdin, buffered, running, armed, command, commands,
                   tried, lost, link, node, clock>>

\* getline(std::cin): a line of what was read before; otherwise std::cin reads from
\* the kernel, one line from a terminal and all there is from a pipe.
GetLine(l) ==
    LET text == IF buffered # <<>> THEN buffered ELSE IF tty THEN <<Head(stdin)>> ELSE stdin
    IN  /\ l = Head(text)
        /\ buffered' = Tail(text)
        /\ stdin' = IF buffered # <<>> THEN stdin ELSE IF tty THEN Tail(stdin) ELSE <<>>

\* Mutant of Input: a command that has not been sent yet is kept.
InputKeeping(c) ==
    /\ command' = [n \in Nodes |-> IF armed[n] /\ command[n] # 0 THEN command[n] ELSE c]
    /\ armed' = [n \in Nodes |-> TRUE]

\* Mutant of Input: a port that has a command keeps it.
InputOnce(c) ==
    /\ command' = [n \in Nodes |-> IF command[n] # 0 THEN command[n] ELSE c]
    /\ armed' = [n \in Nodes |-> TRUE]

\* TSNController::input of every controller port: the command replaces what is there.
Input(c) ==
    /\ command' = [n \in Nodes |-> c]
    /\ armed' = [n \in Nodes |-> TRUE]

\* handle_input: a run command goes to every controller port; std::stoi ends the
\* process on a delay that is no number, and the run time is passed on unread; stop
\* and anything else do nothing.
HandleInput ==
    /\ running /\ "stdin" \in batch
    /\ batch' = batch \ {"stdin"}
    /\ \E l \in Lines :
        /\ GetLine(l)
        /\ running' = (l.cmd # "noDelay")
        /\ IF l.cmd \in {"run", "noTime"}
           THEN /\ commands' = Append(commands, [timed |-> l.cmd = "run",
                    start |-> clock + l.delay, stop |-> clock + l.delay + l.run])
                /\ Input(Len(commands) + 1)
           ELSE UNCHANGED <<commands, command, armed>>
    /\ UNCHANGED <<lifecycle, tty, typed, tried, lost, link, node, clock>>

\* Mutant of Output: the interest set is left as it is.
OutputStillArmed(n) == UNCHANGED armed

\* Mutant of Output: the command is looked at first.
OutputIfAny(n) == armed' = IF command[n] = 0 THEN armed ELSE [armed EXCEPT ![n] = FALSE]

\* TSNController::output clears the interest set, before it looks at the command.
Output(n) == armed' = [armed EXCEPT ![n] = FALSE]

\* handle_output with a command: sendto delivers it or fails, which is only logged.
\* The command stays where it is.
SendCommand(n, ok) ==
    /\ tried' = [tried EXCEPT ![n] = Append(@, command[n])]
    /\ link' = IF ok THEN [link EXCEPT ![n] = Append(@, command[n])] ELSE link
    /\ lost' = IF ok THEN lost ELSE lost + 1

HandleOutput(n) ==
    /\ running /\ n \in batch
    /\ batch' = batch \ {n}
    /\ Output(n)
    /\ IF command[n] = 0 THEN UNCHANGED <<tried, link, lost>>
       ELSE \E ok \in BOOLEAN : (ok \/ lost < MaxLost) /\ SendCommand(n, ok)
    /\ UNCHANGED <<lifecycle, tty, typed, stdin, buffered, running, command, commands, node, clock>>

(***************************************************************************)
(* A node.                                                                 *)
(***************************************************************************)

\* The console of n is bound: one that is still starting hears nothing.
Hears(n) == proc[n] = "up" /\ console[n] # "deaf"

Deliver(n) ==
    /\ link[n] # <<>>
    /\ link' = [link EXCEPT ![n] = Tail(@)]
    /\ UNCHANGED <<ports, console, faults, tty, typed, configurator, clock>>

\* ControlEventHandler: a start and a stop ticker for the command.
Receive(n) ==
    LET c == Head(link[n])
    IN  /\ Deliver(n)
        /\ Hears(n) /\ commands[c].timed
        /\ received' = [received EXCEPT ![n] = Append(@, c)]
        /\ heard' = [heard EXCEPT ![n] = clock]
        /\ waiting' = [waiting EXCEPT ![n] = @ \cup {c}]
        /\ UNCHANGED proc

\* It is not heard, or std::stoi ends the process on the run time.
ReceiveInVain(n) ==
    /\ Deliver(n)
    /\ Hears(n) => ~commands[Head(link[n])].timed
    /\ proc' = IF Hears(n) THEN [proc EXCEPT ![n] = "crashed"] ELSE proc
    /\ UNCHANGED <<received, heard, waiting>>

StartDue(n, c) == proc[n] = "up" /\ c \in waiting[n] /\ commands[c].start <= clock

\* StartTicker: the timers of all ports are set; a node in its reactor has them whole.
StartTicker(n, c) ==
    /\ StartDue(n, c)
    /\ waiting' = [waiting EXCEPT ![n] = @ \ {c}]
    /\ UNCHANGED <<lifecycle, tty, typed, configurator, link, received, heard, clock>>

\* Mutant of StopDue: the stop ticker of the newest command counts.
StopDueNewest(n) == proc[n] = "up" /\ received[n] # <<>> /\ commands[Last(received[n])].stop <= clock

\* The stop ticker of some command is due.
StopDue(n) == proc[n] = "up" /\ \E c \in ToSet(received[n]) : commands[c].stop <= clock

\* StopTicker: the process exits.
StopTicker(n) ==
    /\ StopDue(n)
    /\ proc' = [proc EXCEPT ![n] = "exited"]
    /\ UNCHANGED <<ports, console, faults, tty, typed, configurator, link, node, clock>>

\* A second passes; a ticker that is due is not kept waiting that long.
Second ==
    /\ clock < MaxClock
    /\ \A n \in Nodes : ~StopDue(n) /\ \A c \in waiting[n] : ~StartDue(n, c)
    /\ clock' = clock + 1
    /\ UNCHANGED <<lifecycle, tty, typed, configurator, link, node>>

-----------------------------------------------------------------------------
Create == CreatePorts /\ UNCHANGED <<tty, typed, configurator, link, node, clock>>

Loop == Wait \/ HandleInput \/ \E n \in Nodes : HandleOutput(n)

NodeStep ==
    \E n \in Nodes :
        \/ Receive(n) \/ ReceiveInVain(n) \/ StopTicker(n)
        \/ \E c \in waiting[n] : StartTicker(n, c)

ControlNext == Create \/ (\E l \in Lines : Type(l)) \/ Loop \/ NodeStep \/ Second

(***************************************************************************)
(* Fairness: the reactor of the configurator goes on as long as epoll has  *)
(* something to report or a batch is not served to the end.                *)
(***************************************************************************)
ControlSpec == ControlInit /\ [][ControlNext]_controlVars /\ WF_controlVars(Loop)

-----------------------------------------------------------------------------
\* Properties

TypeOK ==
    /\ proc \in [Nodes -> {"starting", "up", "crashed", "exited"}]
    /\ ports \in [Nodes -> Seq(DataPorts)] /\ \A n \in Nodes : Len(ports[n]) <= PortNum[n]
    /\ console \in [Nodes -> Consoles] /\ faults \in 0 .. MaxFaults
    /\ tty \in BOOLEAN /\ typed \in 0 .. MaxLines /\ running \in BOOLEAN
    /\ stdin \in Seq(Lines) /\ buffered \in Seq(Lines)
    /\ batch \subseteq Nodes \cup {"stdin"}
    /\ armed \in [Nodes -> BOOLEAN]
    /\ commands \in Seq([timed : BOOLEAN, start : Nat, stop : Nat])
    /\ command \in [Nodes -> 0 .. Len(commands)]
    /\ tried \in [Nodes -> Seq(DOMAIN commands)] /\ lost \in 0 .. MaxLost
    /\ link \in [Nodes -> Seq(DOMAIN commands)]
    /\ received \in [Nodes -> Seq(DOMAIN commands)]
    /\ heard \in [Nodes -> 0 .. MaxClock]
    /\ waiting \in [Nodes -> SUBSET DOMAIN commands]
    /\ clock \in 0 .. MaxClock

\* In whatever order the loop serves a batch, and although the command stays in the
\* controller port and a stale EPOLLOUT may still be in the batch when it is replaced,
\* a node gets the commands in the order typed, and none of them twice.
ObeysInOrder ==
    \A n \in Nodes : \A i, j \in DOMAIN received[n] : i < j => received[n][i] < received[n][j]

\* Commands typed in a row may overwrite each other, for some nodes and not for
\* others; but when the loop has nothing left to do, the newest was sent to all.
NewestReachesAll ==
    running /\ batch = {} /\ commands # <<>> =>
        \A n \in Nodes : ~armed[n] => tried[n] # <<>> /\ Last(tried[n]) = Len(commands)

\* A node that got several commands ends at the first stop among them, not at that
\* of the newest, and never before; a command that comes after its own stop ends it
\* in the second it comes.
EndsAtFirstStop ==
    \A n \in Nodes :
        /\ proc[n] = "up" =>
               \A c \in ToSet(received[n]) : clock <= commands[c].stop \/ clock = heard[n]
        /\ proc[n] = "exited" => \E c \in ToSet(received[n]) : commands[c].stop <= clock

\* A turn of the loop that has something to do leaves less of it: a line is taken, or
\* the ports still to be served become fewer, or a batch is fetched for them. A port
\* whose interest set is not cleared, or an event of a batch that is served for a port
\* that has nothing to send, would keep the configurator busy for ever.
LessToDo ==
    LET lines == Len(stdin) + Len(buffered)
        ready == {n \in Nodes : armed[n]}
    IN  \/ lines' < lines
        \/ lines' = lines /\ ready' \subseteq ready /\ ready' # ready
        \/ lines' = lines /\ ready' = ready /\ batch = {} /\ batch' # {}

EachTurnCounts == [][Loop => LessToDo]_controlVars

\* The run commands made and those in lines that still wait.
Ordered ==
    Len(commands) +
    Len(SelectSeq(buffered \o stdin, LAMBDA l : l.cmd \in {"run", "noTime"}))

\* On a terminal no run command that was typed is forgotten: in the end every node's
\* port has given it to sendto, or a newer one that replaced it before its turn came;
\* only a delay that is no number ends the configurator before.
EveryCommandTried ==
    \A k \in 1 .. MaxLines :
        tty /\ Ordered >= k ~>
            ~running \/ \A n \in Nodes : \E i \in DOMAIN tried[n] : tried[n][i] >= k
=============================================================================
