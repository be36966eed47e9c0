--------------------------- MODULE PortLifecycle ---------------------------
(***************************************************************************)
(* How a node builds its ports: PortManager creates the data ports one by  *)
(* one and then the console port, each through CreationPortState::doAction *)
(* (create the sockets, register the handlers, go Up).  doAction catches   *)
(* a failed createSocket, sets the port Down, and goes on all the same, so *)
(* what a port lacks is found out when it is used: at the registration of  *)
(* its handlers, or in the first round of the reactor.                     *)
(*                                                                         *)
(* The state of a port itself (Creation, Up, Down) is written by doAction  *)
(* and by setState and read by nothing; what a port has is its state here. *)
(***************************************************************************)
EXTENDS Naturals, Sequences

CONSTANTS
    Nodes,      \* the processes a configurator controls
    Switches,   \* those whose ports are DataPorts; the others' are FlowApps
    PortNum,    \* node -> the number of its data ports
    MaxFaults   \* bound: ports that fail to be built, over all nodes

ASSUME LifecycleAssumption ==
    /\ Switches \subseteq Nodes
    /\ PortNum \in [Nodes -> Nat \ {0}]
    /\ MaxFaults \in Nat

\* What createSocket leaves of a data port.  whole: everything.  unbound: bind
\* failed; sockets and interface are there, and a DataPort has no queue context and
\* no gate control list.  blank: a socket or the interface is missing.
DataPorts == {"whole", "unbound", "blank"}

\* Of a console port.  open: there is a socket; it listens on its interface, or on
\* all of them when the interface is missing or bind failed.  deaf: there is none.
Consoles == {"none", "open", "deaf"}

VARIABLES
    proc,       \* node -> starting, up, crashed or exited
    ports,      \* node -> the data ports built so far, PortManager::m_ports
    console,    \* node -> its console port
    faults      \* bound: ports that failed

lifecycle == <<proc, ports, console, faults>>

-----------------------------------------------------------------------------
LifecycleInit ==
    /\ proc = [n \in Nodes |-> "starting"]
    /\ ports = [n \in Nodes |-> <<>>]
    /\ console = [n \in Nodes |-> "none"]
    /\ faults = 0

\* At most MaxFaults ports fail.
Counted(failed) ==
    /\ failed => faults < MaxFaults
    /\ faults' = IF failed THEN faults + 1 ELSE faults

\* What is left of the next data port.  registerEventHandler asks the interface for
\* its address: without one the process crashes.
AddPort(n, result) ==
    /\ Counted(result # "whole")
    /\ ports' = [ports EXCEPT ![n] = Append(@, result)]
    /\ proc' = IF result = "blank" THEN [proc EXCEPT ![n] = "crashed"] ELSE proc
    /\ UNCHANGED console

\* Mutant of CreateDataPort: the loop runs once too often.
CreateDataPortOnceMore(n, result) ==
    proc[n] = "starting" /\ Len(ports[n]) <= PortNum[n] /\ AddPort(n, result)

\* createPortFromDeviceNameList: doAction of the next data port.
CreateDataPort(n, result) ==
    proc[n] = "starting" /\ Len(ports[n]) < PortNum[n] /\ AddPort(n, result)

\* A switch with a port that has neither queues nor list.
Partial(n) == n \in Switches /\ \E p \in DOMAIN ports[n] : ports[n][p] # "whole"

\* The first round of the reactor.  Every outbound socket is registered for EPOLLOUT,
\* and is writable, before the console is: output() of a DataPort without a queue
\* context crashes the process before it can hear a command.
FirstRound(n) == IF Partial(n) THEN "crashed" ELSE "up"

\* PortManager: doAction of the console port, then the reactor is entered.  Its
\* handler needs no interface; epoll refuses a missing socket, which is only logged.
CreateConsole(n, result) ==
    /\ proc[n] = "starting" /\ Len(ports[n]) = PortNum[n]
    /\ Counted(result = "deaf")
    /\ console' = [console EXCEPT ![n] = result]
    /\ proc' = [proc EXCEPT ![n] = FirstRound(n)]
    /\ UNCHANGED ports

CreatePorts ==
    \E n \in Nodes :
        \/ \E result \in DataPorts : CreateDataPort(n, result)
        \/ \E result \in Consoles \ {"none"} : CreateConsole(n, result)
=============================================================================
