---------------------------- MODULE RelayNetwork ----------------------------
(***************************************************************************)
(* Switches and end devices joined by links: RecvTSNFrameEventHandler,     *)
(* ForwardFunction with its two tables, and the recovery function at every *)
(* outbound port.  A talker's frames are replicated where a route names    *)
(* several ports and eliminated where the copies meet again; a route may   *)
(* also lead round a ring.                                                 *)
(*                                                                         *)
(* What lies between a port's recovery function and the receiver, its      *)
(* queues and the wire, is a lossy FIFO: EgressPort implements that for    *)
(* each priority (FrameChannel), and a flow has one priority.              *)
(*                                                                         *)
(* A handler runs to its end before the next one of its process, and what  *)
(* it leaves on different links is seen by different processes at          *)
(* different times, so one handler is one step.  Frames whose source is    *)
(* the port itself (the kernel's echo of what it sent) and frames that are *)
(* no TSN frames are received and dropped: they change nothing here.       *)
(***************************************************************************)
EXTENDS FrameRecorder, FiniteSets

CONSTANTS
    Flows,      \* flow identifiers
    Nodes,      \* the devices; workMode is "host" or "switch"
    Hosts,      \* the nodes that are hosts
    Ports,      \* outbound ports of all nodes
    Owner,      \* port -> the node it belongs to
    Peer,       \* port -> the node at the other end of its link
    Source,     \* flow -> the port of its talker
    Profiles,   \* what profile.path may name
    Routes,     \* profile -> the contents of its routes.xml
    MaxFrames,  \* bound: frames a talker sends per flow (below 2^16: numbers do not wrap)
    MaxFaults   \* bound: copies that do not get through

Table == [group : [Flows -> [Nodes -> SUBSET Ports]],   \* by the flow's group address
          individual : [Ports -> SUBSET Ports]]        \* by the sending port's address
Frame == [flow : Flows, seq : 1 .. MaxFrames]
Received == [frame : Frame, from : Ports]
Nothing == [frame |-> "none"]

\* Each route of a node leads out of its own ports (PortManager::getPort throws
\* for an index it does not know), and no frame comes back to a talker.
ASSUME RelayAssumption ==
    /\ Hosts \subseteq Nodes
    /\ Owner \in [Ports -> Nodes] /\ Peer \in [Ports -> Nodes]
    /\ \A p \in Ports : Owner[p] # Peer[p]
    /\ Source \in [Flows -> Ports] /\ \A f \in Flows : Owner[Source[f]] \in Hosts
    /\ Routes \in [Profiles -> Table]
    /\ \A c \in Profiles :
          /\ \A f \in Flows, n \in Nodes : \A q \in Routes[c].group[f][n] : Owner[q] = n
          /\ \A p \in Ports : \A q \in Routes[c].individual[p] : Owner[q] = Peer[p]
    /\ \A p \in Ports, f \in Flows : Peer[p] # Owner[Source[f]]
    /\ MaxFrames \in Nat \ {0} /\ MaxFaults \in Nat

VARIABLES
    profile,    \* the profile whose routes MulticastMacTable and MacTable were loaded with
    multicast,  \* the byte behind s_multicastPrefix is 0: group addresses are recognised
    sent,       \* flow -> frames numbered by its talker (Flow::seq)
    link,       \* port -> copies it has let pass and the peer has not received
    recorder,   \* port -> flow -> BaseRecoveryFunction::m_flowSeqMap
    recvbuf,    \* node -> what the receive buffer's place on the stack holds
    delivered,  \* history: host -> frames given to FlowApp::input
    repeated,   \* history: host -> frames given to it more than once
    unseen,     \* history: port -> frames eliminated of which no copy had passed it
    faults,     \* history: <<frame, port>> where a copy sent by port did not get through
    recvFailed  \* history: hosts at which recv failed

config == <<profile, multicast>>
history == <<delivered, repeated, unseen, faults, recvFailed>>
vars == <<config, sent, link, recorder, recvbuf, history>>

-----------------------------------------------------------------------------
\* Operators

\* The table entry for a frame of flow f that arrives from port p.  The group
\* table is searched for the destination, the other table for the source.
Outbound(f, p) ==
    IF multicast THEN Routes[profile].group[f][Peer[p]] ELSE Routes[profile].individual[p]

\* Mutant of Eliminates: a frame older than the newest one is repetitive.
EliminatesOlder(q, fr) ==
    /\ recorder[q][fr.flow] # <<>>
    /\ fr.seq <= Last(recorder[q][fr.flow]).upper

\* Mutant of Eliminates: the port is not in the enhanced mode, every frame passes.
EliminatesNone(q, fr) == FALSE

\* Mutant of Eliminates: the number after a recorded one is repetitive.
EliminatesNext(q, fr) ==
    \E s \in {fr.seq - 1, fr.seq} : Repetitive(recorder[q][fr.flow], s)

\* DataPort::input of port q eliminates the copy.
Eliminates(q, fr) == Repetitive(recorder[q][fr.flow], fr.seq)

\* Mutant of ListAfter: only a port before an end device keeps a list.
ListAtEdge(q, fr) ==
    LET list == recorder[q][fr.flow]
    IN  IF Peer[q] \notin Hosts THEN list
        ELSE IF list = <<>> THEN <<Entry(fr.seq, fr.seq)>> ELSE Recorded(list, fr.seq)

\* BaseRecoveryFunction::handle: the list of the flow at port q after fr passed.
ListAfter(q, fr) ==
    LET list == recorder[q][fr.flow]
    IN  IF list = <<>> THEN <<Entry(fr.seq, fr.seq)>> ELSE Recorded(list, fr.seq)

-----------------------------------------------------------------------------
Init ==
    /\ profile \in Profiles
    /\ multicast \in BOOLEAN
    /\ sent = [f \in Flows |-> 0]
    /\ link = [p \in Ports |-> <<>>]
    /\ recorder = [p \in Ports |-> [f \in Flows |-> <<>>]]
    /\ recvbuf = [n \in Nodes |-> Nothing]
    /\ delivered = [h \in Hosts |-> {}]
    /\ repeated = [h \in Hosts |-> {}]
    /\ unseen = [p \in Ports |-> {}]
    /\ faults = {}
    /\ recvFailed = {}

\* Mutant of Numbered: numbers start at 0.
NumberedFromZero(f) == [flow |-> f, seq |-> sent[f]]

\* The next frame of flow f.
Numbered(f) == [flow |-> f, seq |-> sent[f] + 1]

\* FlowApp::output: the talker's port has no recovery function.
Send(f) ==
    /\ sent[f] < MaxFrames
    /\ sent' = [sent EXCEPT ![f] = @ + 1]
    /\ link' = [link EXCEPT ![Source[f]] = Append(@, Numbered(f))]
    /\ UNCHANGED <<config, recorder, recvbuf, history>>

\* A copy of fr that port p sent does not get through.
Fault(fr, p) ==
    /\ Cardinality(faults) < MaxFaults
    /\ faults' = faults \cup {<<fr, p>>}

\* A queued frame is dropped, aged out, not sent, or lost on the wire.
Lose(p) ==
    /\ \E i \in DOMAIN link[p] :
          /\ link' = [link EXCEPT ![p] = RemoveAt(@, i)]
          /\ Fault(link[p][i], p)
    /\ UNCHANGED <<config, sent, recorder, recvbuf, delivered, repeated, unseen, recvFailed>>

\* A node takes in frame fr from port p; rest is what the links hold then.

\* The frame is discarded at random (the generator is seeded with the second).
Discard(rest, fr, p) ==
    /\ link' = rest
    /\ Fault(fr, p)
    /\ UNCHANGED <<recorder, delivered, repeated, unseen>>

\* ForwardFunction::forward finds no entry.  Two bytes of the mac_token that is
\* searched are never written, so a configured address may be missed as well.
NoRoute(rest, fr, p) ==
    /\ Peer[p] \notin Hosts
    /\ link' = rest
    /\ Fault(fr, p)
    /\ UNCHANGED <<recorder, delivered, repeated, unseen>>

\* ForwardFunction::forward gives every port of the entry a copy.
Forward(rest, fr, p) ==
    /\ Peer[p] \notin Hosts
    /\ LET ports == Outbound(fr.flow, p)
           passing == {q \in ports : ~Eliminates(q, fr)}
           seen(q) == fr.seq \in Numbers(recorder[q][fr.flow])
       IN  /\ link' = [q \in Ports |-> IF q \in passing THEN Append(rest[q], fr) ELSE rest[q]]
           /\ recorder' = [q \in Ports |->
                 IF q \in passing
                 THEN [recorder[q] EXCEPT ![fr.flow] = ListAfter(q, fr)]
                 ELSE recorder[q]]
           /\ unseen' = [q \in Ports |->
                 IF q \in ports \ passing /\ ~seen(q) THEN unseen[q] \cup {fr} ELSE unseen[q]]
    /\ UNCHANGED <<delivered, repeated, faults>>

\* FlowApp::input takes the frame.
Deliver(rest, fr, p) ==
    /\ Peer[p] \in Hosts
    /\ LET h == Peer[p]
       IN  /\ delivered' = [delivered EXCEPT ![h] = @ \cup {fr}]
           /\ repeated' = [repeated EXCEPT ![h] = IF fr \in delivered[h] THEN @ \cup {fr} ELSE @]
    /\ link' = rest
    /\ UNCHANGED <<recorder, unseen, faults>>

\* handle_event with a frame that port p sent.
Receive(p) ==
    /\ link[p] # <<>>
    /\ LET fr == Head(link[p])
           rest == [link EXCEPT ![p] = Tail(@)]
       IN  /\ \/ Discard(rest, fr, p) \/ NoRoute(rest, fr, p)
              \/ Forward(rest, fr, p) \/ Deliver(rest, fr, p)
           /\ recvbuf' = [recvbuf EXCEPT ![Peer[p]] = [frame |-> fr, from |-> p]]
    /\ UNCHANGED <<config, sent, recvFailed>>

\* handle_event when recv fails: the result is logged only, and the buffer that
\* was never written is handled.  Its bytes make no TSN frame, or a frame that is
\* discarded, which changes nothing; or they are those of the frame received last.
RecvFails(n) ==
    /\ recvbuf[n] # Nothing
    /\ LET fr == recvbuf[n].frame
           p == recvbuf[n].from
       IN  Forward(link, fr, p) \/ Deliver(link, fr, p)
    /\ recvFailed' = IF n \in Hosts THEN recvFailed \cup {n} ELSE recvFailed
    /\ UNCHANGED <<config, sent, recvbuf>>

Next ==
    \/ \E f \in Flows : Send(f)
    \/ \E p \in Ports : Lose(p) \/ Receive(p)
    \/ \E n \in Nodes : RecvFails(n)

Spec == Init /\ [][Next]_vars

(***************************************************************************)
(* The reactor of a node serves a socket that stays readable: epoll is     *)
(* level triggered and no handler waits.  Nothing else is owed.            *)
(***************************************************************************)
FairSpec == Spec /\ \A p \in Ports : WF_vars(Receive(p))

-----------------------------------------------------------------------------
\* Properties

TypeOK ==
    /\ profile \in Profiles /\ multicast \in BOOLEAN
    /\ sent \in [Flows -> 0 .. MaxFrames]
    /\ link \in [Ports -> Seq(Frame)]
    /\ recorder \in [Ports -> [Flows -> Seq([lower : 1 .. MaxFrames, upper : 1 .. MaxFrames])]]
    /\ recvbuf \in [Nodes -> Received \cup {Nothing}]
    /\ delivered \in [Hosts -> SUBSET Frame] /\ repeated \in [Hosts -> SUBSET Frame]
    /\ unseen \in [Ports -> SUBSET Frame]
    /\ faults \subseteq Frame \X Ports
    /\ recvFailed \subseteq Hosts

\* The ports to which the frames of flow f that port p sent are forwarded.
Onward(f, p) == IF Peer[p] \in Hosts THEN {} ELSE Outbound(f, p)

\* The set R holds what a frame of flow f reaches within ok from the ports in S.
Closed(f, S, ok, R) == S \cap ok \subseteq R /\ \A p \in R : Onward(f, p) \cap ok \subseteq R

\* The ports that a frame of flow f reaches from the ports in S over ports in ok.
Reached(f, S, ok) == {p \in ok : \A R \in SUBSET ok : Closed(f, S, ok, R) => p \in R}

AtRest(fr) == fr.seq <= sent[fr.flow] /\ \A p \in Ports : fr \notin ToSet(link[p])

\* A later frame of the flow, and no earlier one, has passed port p.
Overtaken(fr, p) ==
    /\ recorder[p][fr.flow] # <<>>
    /\ fr.seq < recorder[p][fr.flow][1].lower

\* One good path is enough: a frame that has come to rest has reached every
\* listener to which a path leads on which no copy of it was lost and no port
\* had begun its list with a later frame, whatever happened to other copies.
GoodPathDelivers ==
    \A f \in Flows : \A s \in 1 .. sent[f] :
        LET fr == [flow |-> f, seq |-> s]
            good == {p \in Ports : <<fr, p>> \notin faults /\ ~Overtaken(fr, p)}
        IN  AtRest(fr) => \A p \in Reached(f, {Source[f]}, good) :
                              Peer[p] \in Hosts => fr \in delivered[Peer[p]]

\* Two ports that send to one end device keep lists of their own.
OneLink(h) == \A p, q \in Ports : Peer[p] = h /\ Peer[q] = h => p = q

\* A listener with one link gets a frame once, over however many paths its copies
\* come, unless its own recv failed.
DeliveredOnce == \A h \in Hosts \ recvFailed : OneLink(h) => repeated[h] = {}

\* Ports that a flow reaches over two paths, or that lie behind such a port.
Behind(f) ==
    LET ports == Reached(f, {Source[f]}, Ports)
        meeting == {q \in Ports : \E p1, p2 \in ports :
                       p1 # p2 /\ q \in Onward(f, p1) \cap Onward(f, p2)}
    IN  Reached(f, meeting, Ports)

\* Frames are eliminated unseen only where copies have met: on a single path
\* nothing is overtaken, neither by losses nor by a failed recv.
SinglePathEliminatesNothing ==
    \A p \in Ports : \A fr \in unseen[p] : p \in Behind(fr.flow)

\* The numbers of flow f of which copies were put on the link of port p: those of
\* the port's list, or those that the talker gave.
Passed(p, f) == Numbers(recorder[p][f])
Entered(f, p) == IF p = Source[f] THEN 1 .. sent[f] ELSE Passed(p, f)

\* Each copy that is put on a link is the first of its frame there, and no port ever
\* forgets one, however its intervals are merged: so a frame takes each link once at
\* most, whatever rings the routes form and whatever a failed recv repeats.
EachCopyIsNew ==
    [][\A p \in Ports :
          /\ \A f \in Flows : Entered(f, p) \subseteq Entered(f, p)'
          /\ \A fr \in Frame : link'[p] = Append(link[p], fr) =>
                fr.seq \in Entered(fr.flow, p)' \ Entered(fr.flow, p)]_vars

\* Copies do not circulate: whatever the routes, also round a ring, all traffic
\* of the frames sent dies out.
TrafficDies == <>[](\A p \in Ports : link[p] = <<>>)
=============================================================================
