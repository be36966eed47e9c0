------------------------ MODULE RelayNetwork_proofs ------------------------
(***************************************************************************)
(* Safety of RelayNetwork for any topology, any routes and any number of   *)
(* flows and frames: what the lists of the ports stand for, that one good  *)
(* path is enough, that a listener gets a frame once, and that nothing is  *)
(* eliminated unseen where copies do not meet.                             *)
(*                                                                         *)
(* The parts of the invariants take the contents of the links (lnk) and of *)
(* the receive buffers (buf) as parameters: a receive handler first takes  *)
(* a frame in, then handles it, and the parts hold in between too.         *)
(***************************************************************************)
EXTENDS RelayNetwork, ListLemmas

\* The ports at which forwarding fr adds a copy.
Passing(fr, p) == {q \in Outbound(fr.flow, p) : ~Eliminates(q, fr)}

-----------------------------------------------------------------------------
\* Lists are canonical and hold numbers that were sent.
Lists ==
    /\ profile \in Profiles /\ multicast \in BOOLEAN
    /\ sent \in [Flows -> 0 .. MaxFrames]
    /\ recorder \in [Ports -> [Flows -> Seq(EntriesTo(MaxFrames))]]
    /\ \A p \in Ports, f \in Flows : InOrder(recorder[p][f]) /\ Passed(p, f) \subseteq 1 .. sent[f]

\* What is on a link entered the port before it.
Carried(lnk) ==
    /\ lnk \in [Ports -> Seq(Frame)]
    /\ \A p \in Ports : \A fr \in ToSet(lnk[p]) : fr.seq \in Entered(fr.flow, p)

\* What a receive buffer holds came over a link of the node.
Held(buf) ==
    /\ buf \in [Nodes -> Received \cup {Nothing}]
    /\ \A n \in Nodes : buf[n] # Nothing =>
          /\ Peer[buf[n].from] = n
          /\ buf[n].frame.seq \in Entered(buf[n].frame.flow, buf[n].from)

Histories ==
    /\ delivered \in [Hosts -> SUBSET Frame] /\ repeated \in [Hosts -> SUBSET Frame]
    /\ unseen \in [Ports -> SUBSET Frame]
    /\ faults \subseteq Frame \X Ports
    /\ recvFailed \subseteq Hosts

Net == Lists /\ Carried(link) /\ Held(recvbuf) /\ Histories

-----------------------------------------------------------------------------
\* Operators

\* The ports of a table entry belong to the node that the frame reached.
LEMMA OutboundPorts ==
    ASSUME Lists, NEW f \in Flows, NEW p \in Ports, NEW q \in Outbound(f, p)
    PROVE  /\ q \in Ports /\ q # p /\ Owner[q] = Peer[p]
           /\ Peer[p] \notin Hosts => \A g \in Flows : q # Source[g]
<1>1. profile \in Profiles /\ Peer[p] \in Nodes
  BY RelayAssumption DEF Lists
<1>2. /\ Routes[profile].group \in [Flows -> [Nodes -> SUBSET Ports]]
      /\ Routes[profile].individual \in [Ports -> SUBSET Ports]
  BY <1>1, RelayAssumption DEF Table
<1>3. q \in Ports /\ Owner[q] = Peer[p]
  BY <1>1, <1>2, RelayAssumption DEF Outbound
<1>4. QED
  BY <1>3, RelayAssumption

\* What has entered is a number of a frame that was sent.
LEMMA EnteredSent ==
    ASSUME Lists, NEW f \in Flows, NEW p \in Ports
    PROVE  /\ sent[f] \in 0 .. MaxFrames /\ Entered(f, p) \subseteq 1 .. sent[f]
           /\ Entered(f, p) \subseteq 1 .. MaxFrames
           /\ Passed(p, f) \subseteq 1 .. sent[f] /\ Passed(p, f) \subseteq 1 .. MaxFrames
BY RelayAssumption DEF Lists, Entered

\* A port that eliminates a frame has passed it, or began with a later one; a port
\* that lets it pass has passed nothing, or an earlier one, and not this one.
LEMMA EliminatesByNumbers ==
    ASSUME Lists, NEW q \in Ports, NEW fr \in Frame
    PROVE  LET n == Passed(q, fr.flow)
           IN  /\ Eliminates(q, fr) => fr.seq \in n \/ (n # {} /\ \A m \in n : fr.seq < m)
               /\ ~Eliminates(q, fr) => fr.seq \notin n /\ (n = {} \/ \E m \in n : m < fr.seq)
<1> DEFINE list == recorder[q][fr.flow]
<1>1. /\ MaxFrames \in Nat /\ fr.flow \in Flows /\ fr.seq \in 0 .. MaxFrames
      /\ list \in Seq(EntriesTo(MaxFrames)) /\ InOrder(list)
  BY RelayAssumption DEF Lists, Frame
<1> HIDE DEF list
<1>2. list # <<>> <=> Numbers(list) # {}
  BY <1>1, FirstIsLeast
<1>3. list # <<>> =>
        /\ fr.seq \in Numbers(list) => Repetitive(list, fr.seq)
        /\ ~Repetitive(list, fr.seq) => \E n \in Numbers(list) : n < fr.seq
        /\ Repetitive(list, fr.seq) =>
              fr.seq \in Numbers(list) \/ \A n \in Numbers(list) : fr.seq < n
  BY <1>1, RepetitiveByNumbers
<1>4. Repetitive(list, fr.seq) => list # <<>>
  BY DEF Repetitive
<1>5. QED
  BY <1>2, <1>3, <1>4 DEF Eliminates, Passed, list

\* The numbers of a list lie above s when its first entry does.
LEMMA BelowFirst ==
    ASSUME NEW list \in Seq(EntriesTo(MaxFrames)), InOrder(list), NEW s \in Nat
    PROVE  (list # <<>> /\ s < list[1].lower) <=>
           (Numbers(list) # {} /\ \A m \in Numbers(list) : s < m)
<1>1. MaxFrames \in Nat
  BY RelayAssumption
<1>2. /\ list # <<>> <=> Numbers(list) # {}
      /\ Numbers(list) \subseteq 0 .. MaxFrames
      /\ list # <<>> => list[1].lower \in Numbers(list) /\ \A n \in Numbers(list) : list[1].lower <= n
  BY <1>1, FirstIsLeast
<1>3. list # <<>> => (s < list[1].lower <=> \A m \in Numbers(list) : s < m)
  BY <1>1, <1>2
<1>4. QED
  BY <1>2, <1>3

\* A frame is overtaken at a port that passed only later ones.
LEMMA OvertakenByNumbers ==
    ASSUME Lists, NEW q \in Ports, NEW fr \in Frame
    PROVE  Overtaken(fr, q) <=> /\ Passed(q, fr.flow) # {}
                                /\ \A m \in Passed(q, fr.flow) : fr.seq < m
<1>1. /\ fr.flow \in Flows /\ fr.seq \in Nat
      /\ recorder[q][fr.flow] \in Seq(EntriesTo(MaxFrames)) /\ InOrder(recorder[q][fr.flow])
  BY RelayAssumption DEF Lists, Frame
<1>2. QED
  BY <1>1, BelowFirst DEF Overtaken, Passed

\* The list after a frame that passed holds its number besides.
LEMMA ListAfterExact ==
    ASSUME Lists, NEW q \in Ports, NEW fr \in Frame, ~Eliminates(q, fr)
    PROVE  /\ ListAfter(q, fr) \in Seq(EntriesTo(MaxFrames)) /\ InOrder(ListAfter(q, fr))
           /\ Numbers(ListAfter(q, fr)) = Passed(q, fr.flow) \cup {fr.seq}
<1> DEFINE list == recorder[q][fr.flow]
           first == <<Entry(fr.seq, fr.seq)>>
<1>1. /\ MaxFrames \in Nat /\ fr.flow \in Flows /\ fr.seq \in 0 .. MaxFrames
      /\ list \in Seq(EntriesTo(MaxFrames)) /\ InOrder(list) /\ ~Repetitive(list, fr.seq)
  BY RelayAssumption DEF Lists, Frame, Eliminates
<1> HIDE DEF list
<1>2. CASE list # <<>>
  <2>1. Extended(Recorded(list, fr.seq), list, fr.seq, MaxFrames)
    BY <1>1, <1>2, RecordedExact
  <2>2. ListAfter(q, fr) = Recorded(list, fr.seq)
    BY <1>2 DEF ListAfter, list
  <2>3. QED
    BY <2>1, <2>2 DEF Extended, Passed, list
<1>3. CASE list = <<>>
  <2>1. ListAfter(q, fr) = first
    BY <1>3 DEF ListAfter, list
  <2>2. first \in Seq(EntriesTo(MaxFrames)) /\ DOMAIN first = {1}
        /\ first[1].lower = fr.seq /\ first[1].upper = fr.seq
    BY <1>1 DEF EntriesTo, Entry
  <2> HIDE DEF first
  <2>3. Numbers(first) = {fr.seq}
    <3>1. Numbers(first) = first[1].lower .. first[1].upper
      BY <2>2 DEF Numbers
    <3>2. QED
      BY <1>1, <2>2, <3>1
  <2>4. InOrder(first)
    BY <1>1, <2>2 DEF InOrder
  <2>5. Passed(q, fr.flow) = {}
    BY <1>3 DEF Passed, Numbers, list
  <2>6. QED
    BY <2>1, <2>2, <2>3, <2>4, <2>5
<1>4. QED
  BY <1>2, <1>3
-----------------------------------------------------------------------------
\* What a step does to lists, links and buffers

\* Handling frame fr, which came from p, while the links hold lnk.
Handle(lnk, fr, p) ==
    /\ \/ Discard(lnk, fr, p) \/ NoRoute(lnk, fr, p)
       \/ Forward(lnk, fr, p) \/ Deliver(lnk, fr, p)
    /\ UNCHANGED <<config, sent>>

\* Forwarding fr, in terms of numbers.
Forwarded(lnk, fr, p) ==
    /\ Peer[p] \notin Hosts
    /\ \A q \in Ports, f \in Flows :
          /\ Passed(q, f)' = IF q \in Passing(fr, p) /\ f = fr.flow
                             THEN Passed(q, f) \cup {fr.seq} ELSE Passed(q, f)
          /\ Entered(f, q)' = IF q \in Passing(fr, p) /\ f = fr.flow
                              THEN Entered(f, q) \cup {fr.seq} ELSE Entered(f, q)
    /\ link' = [q \in Ports |-> IF q \in Passing(fr, p) THEN Append(lnk[q], fr) ELSE lnk[q]]

LEMMA ForwardLists ==
    ASSUME Lists, NEW lnk, NEW fr \in Frame, NEW p \in Ports, fr.seq <= sent[fr.flow],
           Forward(lnk, fr, p), UNCHANGED <<config, sent>>
    PROVE  Lists' /\ Forwarded(lnk, fr, p)
<1> DEFINE passing == Passing(fr, p)
<1>1. /\ Peer[p] \notin Hosts
      /\ link' = [q \in Ports |-> IF q \in passing THEN Append(lnk[q], fr) ELSE lnk[q]]
      /\ recorder' = [q \in Ports |->
             IF q \in passing
             THEN [recorder[q] EXCEPT ![fr.flow] = ListAfter(q, fr)]
             ELSE recorder[q]]
  BY DEF Forward, Passing
<1>2. fr.flow \in Flows /\ fr.seq \in 1 .. sent[fr.flow] /\ recorder \in [Ports -> [Flows -> Seq(EntriesTo(MaxFrames))]]
  BY RelayAssumption DEF Frame, Lists
<1>3. \A q \in passing : q \in Ports /\ q # Source[fr.flow] /\ ~Eliminates(q, fr)
  BY <1>1, <1>2, OutboundPorts DEF Passing
<1> HIDE DEF passing
<1>4. \A q \in Ports, f \in Flows :
         recorder'[q][f] = IF q \in passing /\ f = fr.flow THEN ListAfter(q, fr) ELSE recorder[q][f]
  BY <1>1, <1>2
<1>5. \A q \in Ports, f \in Flows :
         Passed(q, f)' = IF q \in passing /\ f = fr.flow THEN Passed(q, f) \cup {fr.seq} ELSE Passed(q, f)
  BY <1>3, <1>4, ListAfterExact DEF Passed
<1>6. \A q \in Ports, f \in Flows :
         Entered(f, q)' = IF q \in passing /\ f = fr.flow THEN Entered(f, q) \cup {fr.seq} ELSE Entered(f, q)
  BY <1>3, <1>5 DEF Entered
<1>7. \A q \in Ports : recorder'[q] \in [Flows -> Seq(EntriesTo(MaxFrames))]
  BY <1>1, <1>2, <1>3, ListAfterExact
<1>8. recorder' \in [Ports -> [Flows -> Seq(EntriesTo(MaxFrames))]]
  BY <1>1, <1>7
<1>9. ASSUME NEW q \in Ports, NEW f \in Flows PROVE InOrder(recorder'[q][f])
  <2>1. CASE q \in passing /\ f = fr.flow
    <3>1. InOrder(ListAfter(q, fr))
      BY <1>3, <2>1, ListAfterExact
    <3>2. QED
      BY <1>4, <2>1, <3>1
  <2>2. CASE ~(q \in passing /\ f = fr.flow)
    <3>1. InOrder(recorder[q][f]) /\ recorder'[q][f] = recorder[q][f]
      BY <1>4, <2>2 DEF Lists
    <3>2. QED
      BY <3>1
  <2>3. QED
    BY <2>1, <2>2
<1>10. \A q \in Ports, f \in Flows : Passed(q, f)' \subseteq 1 .. sent[f]
  BY <1>2, <1>5 DEF Lists
<1>11. Lists'
  BY <1>8, <1>9, <1>10 DEF Lists, config
<1>12. QED
  BY <1>1, <1>5, <1>6, <1>11 DEF Forwarded, passing

LEMMA SameLists ==
    ASSUME Lists, UNCHANGED <<config, sent, recorder>>
    PROVE  /\ Lists'
           /\ \A q \in Ports, f \in Flows : Passed(q, f)' = Passed(q, f) /\ Entered(f, q)' = Entered(f, q)
BY DEF Lists, config, Passed, Entered

LEMMA SendLists ==
    ASSUME Lists, NEW f \in Flows, Send(f)
    PROVE  /\ Lists'
           /\ Numbered(f) \in Frame /\ sent[f] \in Nat
           /\ \A q \in Ports, g \in Flows :
                 /\ Passed(q, g)' = Passed(q, g)
                 /\ Entered(g, q)' = IF q = Source[f] /\ g = f
                                     THEN Entered(g, q) \cup {sent[f] + 1} ELSE Entered(g, q)
<1>1. /\ sent[f] \in 0 .. MaxFrames /\ sent[f] < MaxFrames /\ MaxFrames \in Nat
      /\ sent' = [sent EXCEPT ![f] = @ + 1] /\ recorder' = recorder /\ UNCHANGED config
  BY RelayAssumption DEF Lists, Send
<1>2. Numbered(f) \in Frame
  BY <1>1 DEF Numbered, Frame
<1>3. sent' \in [Flows -> 0 .. MaxFrames]
  BY <1>1 DEF Lists
<1>4. \A g \in Flows : sent'[g] = (IF g = f THEN sent[f] + 1 ELSE sent[g]) /\ sent[g] \in Nat
  BY <1>1 DEF Lists
<1>5. ASSUME NEW q \in Ports, NEW g \in Flows
      PROVE  Passed(q, g)' = Passed(q, g) /\ Passed(q, g) \subseteq 1 .. sent'[g]
  <2>1. Passed(q, g)' = Passed(q, g)
    BY <1>1 DEF Passed
  <2>2. Passed(q, g) \subseteq 1 .. sent[g]
    BY DEF Lists
  <2>3. QED
    BY <1>4, <2>1, <2>2
<1>6. 1 .. sent[f] + 1 = (1 .. sent[f]) \cup {sent[f] + 1}
  BY <1>1
<1>7. ASSUME NEW q \in Ports, NEW g \in Flows
      PROVE  Entered(g, q)' = IF q = Source[f] /\ g = f
                              THEN Entered(g, q) \cup {sent[f] + 1} ELSE Entered(g, q)
  <2>1. CASE g = f
    BY <1>4, <1>5, <1>6, <2>1 DEF Entered
  <2>2. CASE g # f
    BY <1>4, <1>5, <2>2 DEF Entered
  <2>3. QED
    BY <2>1, <2>2
<1>8. Lists'
  BY <1>1, <1>3, <1>5 DEF Lists, config
<1>9. QED
  BY <1>1, <1>2, <1>5, <1>7, <1>8

\* Numbers enter and never leave.
LEMMA EnteredGrows ==
    ASSUME NEW lnk, NEW buf, Carried(lnk), Held(buf),
           \A q \in Ports, f \in Flows : Entered(f, q) \subseteq Entered(f, q)'
    PROVE  /\ \A p \in Ports : \A fr \in ToSet(lnk[p]) : fr.seq \in Entered(fr.flow, p)'
           /\ \A n \in Nodes, p \in Ports, f \in Flows :
                 buf[n] # Nothing /\ buf[n].from = p /\ buf[n].frame.flow = f =>
                    buf[n].frame.seq \in Entered(f, p)'
<1>1. \A p \in Ports : \A fr \in ToSet(lnk[p]) : fr \in Frame
  BY LenProperties, ElementOfSeq DEF Carried, ToSet
<1>2. \A n \in Nodes : buf[n] # Nothing => buf[n] \in Received
  BY DEF Held
<1>3. QED
  BY <1>1, <1>2 DEF Carried, Held, Received, Frame

\* What the links and the buffers hold when a node has taken in the head of link[p].
Rest(p) == [link EXCEPT ![p] = Tail(@)]
Buffers(p) == [recvbuf EXCEPT ![Peer[p]] = [frame |-> Head(link[p]), from |-> p]]

LEMMA Takes ==
    ASSUME Lists, Carried(link), Held(recvbuf), NEW p \in Ports, link[p] # <<>>
    PROVE  LET fr == Head(link[p])
           IN  /\ fr \in Frame /\ fr.seq \in Entered(fr.flow, p)
               /\ Rest(p) \in [Ports -> Seq(Frame)]
               /\ \A q \in Ports : q # p => Rest(p)[q] = link[q]
               /\ Thinned(Rest(p)[p], link[p], fr)
               /\ Carried(Rest(p)) /\ Held(Buffers(p))
               /\ Peer[p] \in Nodes /\ Buffers(p)[Peer[p]] = [frame |-> fr, from |-> p]
<1> DEFINE fr == Head(link[p])
<1>1. link \in [Ports -> Seq(Frame)] /\ recvbuf \in [Nodes -> Received \cup {Nothing}] /\ Peer[p] \in Nodes
  BY RelayAssumption DEF Carried, Held
<1>2. fr \in Frame /\ Tail(link[p]) \in Seq(Frame) /\ Thinned(Tail(link[p]), link[p], fr)
  BY <1>1, TailThins
<1>3. fr.seq \in Entered(fr.flow, p)
  BY <1>2 DEF Thinned, Carried
<1> HIDE DEF fr
<1>4. /\ Rest(p) \in [Ports -> Seq(Frame)] /\ Rest(p)[p] = Tail(link[p])
      /\ \A q \in Ports : q # p => Rest(p)[q] = link[q]
  BY <1>1, <1>2 DEF Rest
<1>5. Carried(Rest(p))
  BY <1>2, <1>4 DEF Carried, Thinned
<1>6. [frame |-> fr, from |-> p] \in Received
  BY <1>2 DEF Received
<1>7. /\ Buffers(p) \in [Nodes -> Received \cup {Nothing}]
      /\ Buffers(p)[Peer[p]] = [frame |-> fr, from |-> p]
      /\ \A n \in Nodes : n # Peer[p] => Buffers(p)[n] = recvbuf[n]
  BY <1>1, <1>6 DEF Buffers, fr
<1>8. Held(Buffers(p))
  BY <1>3, <1>7 DEF Held
<1>9. QED
  BY <1>1, <1>2, <1>3, <1>4, <1>5, <1>7, <1>8 DEF fr

\* A receive handler takes a frame in and handles it; when recv fails, it handles
\* the frame that the buffer holds.
LEMMA ReceiveHandles ==
    ASSUME NEW p \in Ports, Receive(p)
    PROVE  /\ link[p] # <<>> /\ Handle(Rest(p), Head(link[p]), p)
           /\ recvbuf' = Buffers(p) /\ recvFailed' = recvFailed
BY DEF Receive, Handle, Rest, Buffers

LEMMA RecvFailsHandles ==
    ASSUME Held(recvbuf), NEW n \in Nodes, RecvFails(n)
    PROVE  LET fr == recvbuf[n].frame
               p == recvbuf[n].from
           IN  /\ fr \in Frame /\ p \in Ports /\ Peer[p] = n /\ fr.seq \in Entered(fr.flow, p)
               /\ recvbuf[n] = [frame |-> fr, from |-> p]
               /\ Handle(link, fr, p) /\ recvbuf' = recvbuf
               /\ recvFailed' = IF n \in Hosts THEN recvFailed \cup {n} ELSE recvFailed
<1>1. recvbuf[n] \in Received /\ recvbuf[n] # Nothing
  BY DEF RecvFails, Held
<1>2. recvbuf[n].frame \in Frame /\ recvbuf[n].from \in Ports
      /\ recvbuf[n] = [frame |-> recvbuf[n].frame, from |-> recvbuf[n].from]
  BY <1>1 DEF Received
<1>3. QED
  BY <1>1, <1>2 DEF RecvFails, Held, Handle

\* A frame that entered port p and is handled now.
AtHand(lnk, buf, fr, p) ==
    /\ Lists /\ Carried(lnk) /\ Held(buf)
    /\ fr \in Frame /\ p \in Ports /\ fr.seq \in Entered(fr.flow, p)

\* What handling it does to lists and links: forwarding, or nothing.
LEMMA HandleCases ==
    ASSUME NEW lnk, NEW buf, NEW fr, NEW p, AtHand(lnk, buf, fr, p), Handle(lnk, fr, p)
    PROVE  /\ Lists' /\ sent' = sent /\ UNCHANGED config
           /\ \/ Forward(lnk, fr, p) /\ Forwarded(lnk, fr, p)
              \/ /\ link' = lnk /\ recorder' = recorder
                 /\ \A q \in Ports, f \in Flows :
                       Passed(q, f)' = Passed(q, f) /\ Entered(f, q)' = Entered(f, q)
<1>1. fr.flow \in Flows /\ fr.seq \in 1 .. MaxFrames /\ fr.seq <= sent[fr.flow] /\ UNCHANGED <<config, sent>>
  BY EnteredSent DEF AtHand, Frame, Handle
<1>2. CASE Forward(lnk, fr, p)
  BY <1>1, <1>2, ForwardLists DEF AtHand
<1>3. CASE ~Forward(lnk, fr, p)
  <2>1. link' = lnk /\ recorder' = recorder
    BY <1>3 DEF Handle, Discard, NoRoute, Deliver
  <2>2. QED
    BY <1>1, <2>1, SameLists DEF AtHand
<1>4. QED
  BY <1>2, <1>3

\* Handling a frame keeps the links and the buffers consistent with the lists.
LEMMA HandleNet ==
    ASSUME NEW lnk, NEW buf, NEW fr, NEW p, AtHand(lnk, buf, fr, p), Handle(lnk, fr, p),
           recvbuf' = buf
    PROVE  Lists' /\ Carried(link)' /\ Held(recvbuf)'
<1> USE DEF AtHand
<1>1. Lists'
  BY HandleCases
<1>2. \A q \in Ports, f \in Flows : Entered(f, q) \subseteq Entered(f, q)'
  BY HandleCases DEF Forwarded
<1>3. /\ \A q \in Ports : \A g \in ToSet(lnk[q]) : g.seq \in Entered(g.flow, q)'
      /\ \A n \in Nodes, q \in Ports, f \in Flows :
            buf[n] # Nothing /\ buf[n].from = q /\ buf[n].frame.flow = f =>
               buf[n].frame.seq \in Entered(f, q)'
  BY <1>2, EnteredGrows
<1>4. Held(recvbuf)'
  BY <1>3 DEF Held, Received, Frame
<1>5. CASE link' = lnk
  BY <1>1, <1>3, <1>4, <1>5 DEF Carried
<1>6. CASE Forwarded(lnk, fr, p)
  <2>1. link' = [q \in Ports |-> IF q \in Passing(fr, p) THEN Append(lnk[q], fr) ELSE lnk[q]]
    BY <1>6 DEF Forwarded
  <2>2. lnk \in [Ports -> Seq(Frame)]
    BY DEF Carried
  <2>3. ASSUME NEW q \in Ports
        PROVE  link'[q] \in Seq(Frame) /\ \A g \in ToSet(link'[q]) : g.seq \in Entered(g.flow, q)'
    <3>1. CASE q \in Passing(fr, p)
      <4>1. link'[q] = Append(lnk[q], fr) /\ lnk[q] \in Seq(Frame)
        BY <2>1, <2>2, <3>1
      <4>2. link'[q] \in Seq(Frame) /\ ToSet(link'[q]) = ToSet(lnk[q]) \cup {fr}
        BY <4>1, AppendElements
      <4>3. fr.flow \in Flows /\ fr.seq \in Entered(fr.flow, q)'
        BY <1>6, <3>1 DEF Forwarded, Frame
      <4>4. QED
        BY <1>3, <4>2, <4>3
    <3>2. CASE q \notin Passing(fr, p)
      BY <1>3, <2>1, <2>2, <3>2
    <3>3. QED
      BY <3>1, <3>2
  <2>4. link' \in [Ports -> Seq(Frame)]
    BY <2>1, <2>3
  <2>5. QED
    BY <1>1, <1>4, <2>3, <2>4 DEF Carried
<1>7. QED
  BY <1>1, <1>4, <1>5, <1>6, HandleCases

-----------------------------------------------------------------------------
\* Lists, links and buffers agree

LEMMA NetInit == Init => Net
<1> SUFFICES ASSUME Init PROVE Net
  OBVIOUS
<1> USE RelayAssumption DEF Init
<1>1. /\ \A p \in Ports, f \in Flows : recorder[p][f] = <<>>
      /\ \A p \in Ports : link[p] = <<>>
      /\ \A n \in Nodes : recvbuf[n] = Nothing
  OBVIOUS
<1>2. Lists
  <2>1. <<>> \in Seq(EntriesTo(MaxFrames)) /\ InOrder(<<>>) /\ Numbers(<<>>) = {}
    BY EmptySeq DEF InOrder, Numbers
  <2>2. sent \in [Flows -> 0 .. MaxFrames]
    OBVIOUS
  <2>3. recorder \in [Ports -> [Flows -> Seq(EntriesTo(MaxFrames))]]
    BY <2>1
  <2>4. \A p \in Ports, f \in Flows : InOrder(recorder[p][f]) /\ Passed(p, f) = {}
    BY <1>1, <2>1 DEF Passed
  <2>5. profile \in Profiles /\ multicast \in BOOLEAN
    OBVIOUS
  <2>6. QED
    BY <2>2, <2>3, <2>4, <2>5 DEF Lists
<1>3. Carried(link)
  BY <1>1 DEF Carried, ToSet
<1>4. Held(recvbuf)
  BY <1>1 DEF Held
<1>5. Histories
  BY DEF Histories
<1>6. QED
  BY <1>2, <1>3, <1>4, <1>5 DEF Net

\* What handling a frame adds to the histories.
LEMMA HandleHistories ==
    ASSUME Histories, NEW lnk, NEW buf, NEW fr, NEW p, AtHand(lnk, buf, fr, p),
           Handle(lnk, fr, p), recvFailed' \subseteq Hosts
    PROVE  Histories'
<1> USE DEF AtHand, Histories
<1>1. CASE Discard(lnk, fr, p)
  BY <1>1 DEF Discard, Fault
<1>2. CASE NoRoute(lnk, fr, p)
  BY <1>2 DEF NoRoute, Fault
<1>3. CASE Forward(lnk, fr, p)
  BY <1>3 DEF Forward
<1>4. CASE Deliver(lnk, fr, p)
  BY <1>4 DEF Deliver
<1>5. QED
  BY <1>1, <1>2, <1>3, <1>4 DEF Handle

LEMMA NetSend == ASSUME Net, NEW f \in Flows, Send(f) PROVE Net'
<1> USE DEF Net
<1>1. /\ Lists' /\ Numbered(f) \in Frame /\ sent[f] \in Nat
      /\ \A q \in Ports, g \in Flows :
            Entered(g, q)' = IF q = Source[f] /\ g = f
                             THEN Entered(g, q) \cup {sent[f] + 1} ELSE Entered(g, q)
  BY SendLists
<1>2. /\ link' = [link EXCEPT ![Source[f]] = Append(@, Numbered(f))] /\ recvbuf' = recvbuf
      /\ UNCHANGED history /\ link \in [Ports -> Seq(Frame)] /\ Source[f] \in Ports
  BY RelayAssumption DEF Send, Carried
<1>3. \A q \in Ports, g \in Flows : Entered(g, q) \subseteq Entered(g, q)'
  BY <1>1
<1>4. /\ \A q \in Ports : \A g \in ToSet(link[q]) : g.seq \in Entered(g.flow, q)'
      /\ \A n \in Nodes, q \in Ports, g \in Flows :
            recvbuf[n] # Nothing /\ recvbuf[n].from = q /\ recvbuf[n].frame.flow = g =>
               recvbuf[n].frame.seq \in Entered(g, q)'
  BY <1>3, EnteredGrows
<1>5. /\ Append(link[Source[f]], Numbered(f)) \in Seq(Frame)
      /\ ToSet(Append(link[Source[f]], Numbered(f))) = ToSet(link[Source[f]]) \cup {Numbered(f)}
  BY <1>1, <1>2, AppendElements
<1>6. Numbered(f).seq \in Entered(f, Source[f])' /\ Numbered(f).flow = f
  BY <1>1, <1>2 DEF Numbered
<1>7. Carried(link)'
  <2>1. \A q \in Ports : link'[q] = IF q = Source[f] THEN Append(link[q], Numbered(f)) ELSE link[q]
    BY <1>2
  <2>2. link' \in [Ports -> Seq(Frame)]
    BY <1>2, <1>5
  <2>3. \A q \in Ports : \A g \in ToSet(link'[q]) : g.seq \in Entered(g.flow, q)'
    BY <1>4, <1>5, <1>6, <2>1
  <2>4. QED
    BY <2>2, <2>3 DEF Carried
<1>8. Held(recvbuf)'
  BY <1>2, <1>4 DEF Held, Received, Frame
<1>9. Histories'
  BY <1>2 DEF Histories, history
<1>10. QED
  BY <1>1, <1>7, <1>8, <1>9

\* A link without one of its frames.
LEMMA Loses ==
    ASSUME Carried(link), NEW p \in Ports, Lose(p)
    PROVE  \E fr \in Frame :
              /\ fr.seq \in Entered(fr.flow, p)
              /\ link' \in [Ports -> Seq(Frame)]
              /\ \A q \in Ports : q # p => link'[q] = link[q]
              /\ Thinned(link'[p], link[p], fr)
              /\ faults' = faults \cup {<<fr, p>>}
              /\ UNCHANGED <<config, sent, recorder, recvbuf, delivered, repeated, unseen, recvFailed>>
<1>1. PICK i \in DOMAIN link[p] :
         link' = [link EXCEPT ![p] = RemoveAt(@, i)] /\ Fault(link[p][i], p)
  BY DEF Lose
<1>2. link \in [Ports -> Seq(Frame)] /\ link[p] \in Seq(Frame) /\ link[p][i] \in Frame
  BY LenProperties, ElementOfSeq DEF Carried
<1>3. RemoveAt(link[p], i) \in Seq(Frame) /\ Thinned(RemoveAt(link[p], i), link[p], link[p][i])
  BY <1>2, RemoveAtThins
<1>4. link[p][i].seq \in Entered(link[p][i].flow, p)
  BY <1>3 DEF Carried, Thinned
<1>5. QED
  BY <1>1, <1>2, <1>3, <1>4 DEF Lose, Fault

LEMMA NetLose == ASSUME Net, NEW p \in Ports, Lose(p) PROVE Net'
<1> USE DEF Net
<1>1. PICK fr \in Frame :
         /\ link' \in [Ports -> Seq(Frame)]
         /\ \A q \in Ports : q # p => link'[q] = link[q]
         /\ Thinned(link'[p], link[p], fr)
         /\ faults' = faults \cup {<<fr, p>>}
         /\ UNCHANGED <<config, sent, recorder, recvbuf, delivered, repeated, unseen, recvFailed>>
  BY Loses
<1>2. Lists' /\ \A q \in Ports, f \in Flows : Entered(f, q)' = Entered(f, q)
  BY <1>1, SameLists
<1>3. \A q \in Ports, f \in Flows : Entered(f, q) \subseteq Entered(f, q)'
  BY <1>2
<1>4. /\ \A q \in Ports : \A g \in ToSet(link[q]) : g.seq \in Entered(g.flow, q)'
      /\ \A n \in Nodes, q \in Ports, g \in Flows :
            recvbuf[n] # Nothing /\ recvbuf[n].from = q /\ recvbuf[n].frame.flow = g =>
               recvbuf[n].frame.seq \in Entered(g, q)'
  BY <1>3, EnteredGrows
<1>5. \A q \in Ports : ToSet(link'[q]) \subseteq ToSet(link[q])
  BY <1>1 DEF Thinned
<1>6. Carried(link)' /\ Held(recvbuf)'
  BY <1>1, <1>4, <1>5 DEF Carried, Held, Received, Frame
<1>7. Histories'
  BY <1>1 DEF Histories
<1>8. QED
  BY <1>2, <1>6, <1>7

LEMMA NetReceive == ASSUME Net, NEW p \in Ports, Receive(p) PROVE Net'
<1> USE DEF Net
<1>1. /\ link[p] # <<>> /\ Handle(Rest(p), Head(link[p]), p)
      /\ recvbuf' = Buffers(p) /\ recvFailed' = recvFailed
  BY ReceiveHandles
<1>2. AtHand(Rest(p), Buffers(p), Head(link[p]), p)
  BY <1>1, Takes DEF AtHand
<1>3. Lists' /\ Carried(link)' /\ Held(recvbuf)'
  BY <1>1, <1>2, HandleNet
<1>4. Histories'
  BY <1>1, <1>2, HandleHistories DEF Histories
<1>5. QED
  BY <1>3, <1>4

LEMMA NetRecvFails == ASSUME Net, NEW n \in Nodes, RecvFails(n) PROVE Net'
<1> USE DEF Net
<1> DEFINE fr == recvbuf[n].frame
           p == recvbuf[n].from
<1>1. AtHand(link, recvbuf, fr, p)
  BY RecvFailsHandles DEF AtHand
<1>2. /\ Handle(link, fr, p) /\ recvbuf' = recvbuf
      /\ recvFailed' = IF n \in Hosts THEN recvFailed \cup {n} ELSE recvFailed
  BY RecvFailsHandles
<1> HIDE DEF fr, p
<1>3. Lists' /\ Carried(link)' /\ Held(recvbuf)'
  BY <1>1, <1>2, HandleNet
<1>4. Histories'
  BY <1>1, <1>2, HandleHistories DEF Histories
<1>5. QED
  BY <1>3, <1>4

LEMMA NetStep == Net /\ [Next]_vars => Net'
<1> SUFFICES ASSUME Net, [Next]_vars PROVE Net'
  OBVIOUS
<1>1. ASSUME NEW f \in Flows, Send(f) PROVE Net'
  BY <1>1, NetSend
<1>2. ASSUME NEW p \in Ports, Lose(p) PROVE Net'
  BY <1>2, NetLose
<1>3. ASSUME NEW p \in Ports, Receive(p) PROVE Net'
  BY <1>3, NetReceive
<1>4. ASSUME NEW n \in Nodes, RecvFails(n) PROVE Net'
  BY <1>4, NetRecvFails
<1>5. CASE UNCHANGED vars
  BY <1>5 DEF vars, config, history, Net, Lists, Carried, Held, Histories, Entered, Passed
<1>6. QED
  BY <1>1, <1>2, <1>3, <1>4, <1>5 DEF Next

LEMMA NetAlways == Spec => []Net
BY NetInit, NetStep, PTL DEF Spec

\* Every variable keeps its type: no interval of a list has an end outside the numbers
\* that are sent, whatever is merged, and no buffer or link holds anything else than a
\* frame.
THEOREM TypeCorrect == Spec => []TypeOK
<1>1. Net => TypeOK
  <2> SUFFICES ASSUME Net PROVE TypeOK
    OBVIOUS
  <2> DEFINE E == [lower : 1 .. MaxFrames, upper : 1 .. MaxFrames]
  <2>1. ASSUME NEW p \in Ports, NEW f \in Flows PROVE recorder[p][f] \in Seq(E)
    <3> DEFINE list == recorder[p][f]
    <3>1. /\ MaxFrames \in Nat /\ list \in Seq(EntriesTo(MaxFrames)) /\ InOrder(list)
          /\ Numbers(list) \subseteq 1 .. MaxFrames
      BY RelayAssumption, EnteredSent DEF Net, Lists, Passed
    <3> HIDE DEF list
    <3>2. /\ Len(list) \in Nat /\ DOMAIN list = 1 .. Len(list)
          /\ \A i \in DOMAIN list : list[i] \in EntriesTo(MaxFrames)
      BY <3>1, LenProperties, ElementOfSeq
    <3>3. \A i \in DOMAIN list : list[i].lower \in Numbers(list) /\ list[i].upper \in Numbers(list)
      BY <3>1, FirstIsLeast
    <3>4. \A i \in DOMAIN list : list[i] \in E
      BY <3>1, <3>2, <3>3 DEF EntriesTo
    <3>5. list \in [1 .. Len(list) -> E]
      BY <3>1, <3>2, <3>4
    <3> HIDE DEF E
    <3>6. list \in Seq(E)
      BY <3>2, <3>5, SeqDef
    <3>7. QED
      BY <3>6 DEF list
  <2> HIDE DEF E
  <2>2. recorder \in [Ports -> [Flows -> Seq(E)]]
    BY <2>1 DEF Net, Lists
  <2>3. QED
    BY <2>2 DEF TypeOK, Net, Lists, Carried, Held, Histories, E
<1>2. QED
  BY <1>1, NetAlways, PTL

LEMMA OvertakenAfter ==
    ASSUME Lists', NEW q \in Ports, NEW fr \in Frame
    PROVE  Overtaken(fr, q)' <=> /\ Passed(q, fr.flow)' # {}
                                 /\ \A m \in Passed(q, fr.flow)' : fr.seq < m
<1>1. /\ fr.flow \in Flows /\ fr.seq \in Nat
      /\ recorder'[q][fr.flow] \in Seq(EntriesTo(MaxFrames)) /\ InOrder(recorder'[q][fr.flow])
  BY RelayAssumption DEF Lists, Frame
<1>2. QED
  BY <1>1, BelowFirst DEF Overtaken, Passed

-----------------------------------------------------------------------------
\* Reached is the least closed set

LEMMA ReachedClosed ==
    ASSUME NEW f \in Flows, NEW S, NEW ok
    PROVE  Closed(f, S, ok, Reached(f, S, ok))
<1>1. S \cap ok \subseteq Reached(f, S, ok)
  BY DEF Reached, Closed
<1>2. ASSUME NEW p \in Reached(f, S, ok), NEW q \in Onward(f, p) \cap ok
      PROVE  q \in Reached(f, S, ok)
  <2>1. \A R \in SUBSET ok : Closed(f, S, ok, R) => p \in R
    BY DEF Reached
  <2>2. \A R \in SUBSET ok : Closed(f, S, ok, R) => q \in R
    BY <1>2, <2>1 DEF Closed
  <2>3. QED
    BY <2>2 DEF Reached
<1>3. QED
  BY <1>1, <1>2 DEF Closed

LEMMA ReachedLeast ==
    ASSUME NEW f \in Flows, NEW S, NEW ok, NEW R \in SUBSET ok, Closed(f, S, ok, R)
    PROVE  Reached(f, S, ok) \subseteq R
BY DEF Reached

-----------------------------------------------------------------------------
\* One good path is enough

\* The copy of fr that port p sent is done with: it was lost, given to the
\* application, or forwarded, to ports that have passed fr or a later frame.
Settled(fr, p) ==
    \/ <<fr, p>> \in faults
    \/ Peer[p] \in Hosts /\ fr \in delivered[Peer[p]]
    \/ /\ Peer[p] \notin Hosts
       /\ \A q \in Outbound(fr.flow, p) : fr.seq \in Passed(q, fr.flow) \/ Overtaken(fr, q)

\* Every copy that entered a port is on its link or done with; "but" holds the copy
\* that a handler has taken in.
Accounted(lnk, but) ==
    \A p \in Ports, fr \in Frame :
        fr.seq \in Entered(fr.flow, p) =>
            fr \in ToSet(lnk[p]) \/ Settled(fr, p) \/ <<fr, p>> \in but

\* A frame that has passed or is overtaken stays so.
LEMMA SettledStable ==
    ASSUME Lists, Lists', UNCHANGED config, NEW p \in Ports, NEW fr \in Frame, Settled(fr, p),
           faults \subseteq faults', \A h \in Hosts : delivered[h] \subseteq delivered'[h],
           \A q \in Ports, f \in Flows :
              /\ Passed(q, f) \subseteq Passed(q, f)'
              /\ \A n \in Passed(q, f)' \ Passed(q, f) :
                    Passed(q, f) = {} \/ \E m \in Passed(q, f) : m < n
    PROVE  Settled(fr, p)'
<1>1. CASE <<fr, p>> \in faults
  BY <1>1 DEF Settled
<1>2. CASE Peer[p] \in Hosts /\ fr \in delivered[Peer[p]]
  BY <1>2 DEF Settled
<1>3. CASE /\ Peer[p] \notin Hosts
           /\ \A q \in Outbound(fr.flow, p) : fr.seq \in Passed(q, fr.flow) \/ Overtaken(fr, q)
  <2>0. fr.flow \in Flows /\ fr.seq \in Nat /\ \A g \in Flows : sent[g] \in Nat
        /\ Outbound(fr.flow, p)' = Outbound(fr.flow, p)
    BY RelayAssumption DEF Frame, Lists, Outbound, config
  <2>1. ASSUME NEW q \in Outbound(fr.flow, p)
        PROVE  fr.seq \in Passed(q, fr.flow)' \/ Overtaken(fr, q)'
    <3>0. q \in Ports
      BY <2>0, OutboundPorts
    <3>1. CASE fr.seq \in Passed(q, fr.flow)
      BY <2>0, <3>0, <3>1
    <3>2. CASE Overtaken(fr, q)
      <4>1. Passed(q, fr.flow) # {} /\ \A m \in Passed(q, fr.flow) : fr.seq < m
        BY <3>0, <3>2, OvertakenByNumbers
      <4>2. Passed(q, fr.flow) \subseteq Nat /\ Passed(q, fr.flow)' \subseteq Nat
        BY <2>0, <3>0 DEF Lists
      <4>3. ASSUME NEW n \in Passed(q, fr.flow)' PROVE fr.seq < n
        <5>1. CASE n \in Passed(q, fr.flow)
          BY <4>1, <5>1
        <5>2. CASE n \notin Passed(q, fr.flow)
          <6>1. PICK m \in Passed(q, fr.flow) : m < n
            BY <2>0, <3>0, <4>1, <5>2
          <6>2. QED
            BY <2>0, <4>1, <4>2, <6>1
        <5>3. QED
          BY <5>1, <5>2
      <4>4. Passed(q, fr.flow)' # {}
        BY <2>0, <3>0, <4>1
      <4>5. Overtaken(fr, q)' <=> Passed(q, fr.flow)' # {} /\ \A m \in Passed(q, fr.flow)' : fr.seq < m
        BY <3>0, OvertakenAfter
      <4>6. QED
        BY <4>3, <4>4, <4>5
    <3>3. QED
      BY <1>3, <3>1, <3>2
  <2>2. QED
    BY <1>3, <2>0, <2>1 DEF Settled
<1>4. QED
  BY <1>1, <1>2, <1>3 DEF Settled

\* What SettledStable asks of a step.
Keeps ==
    /\ faults \subseteq faults' /\ \A h \in Hosts : delivered[h] \subseteq delivered'[h]
    /\ \A q \in Ports, f \in Flows :
          /\ Passed(q, f) \subseteq Passed(q, f)'
          /\ \A n \in Passed(q, f)' \ Passed(q, f) :
                Passed(q, f) = {} \/ \E m \in Passed(q, f) : m < n

LEMMA HandleKeeps ==
    ASSUME NEW lnk, NEW buf, NEW fr, NEW p, AtHand(lnk, buf, fr, p), Histories, Handle(lnk, fr, p)
    PROVE  Keeps
<1> USE DEF AtHand
<1>1. faults \subseteq faults' /\ \A h \in Hosts : delivered[h] \subseteq delivered'[h]
  <2>1. CASE Discard(lnk, fr, p)
    BY <2>1 DEF Discard, Fault
  <2>2. CASE NoRoute(lnk, fr, p)
    BY <2>2 DEF NoRoute, Fault
  <2>3. CASE Forward(lnk, fr, p)
    BY <2>3 DEF Forward
  <2>4. CASE Deliver(lnk, fr, p)
    BY <2>4 DEF Deliver, Histories
  <2>5. QED
    BY <2>1, <2>2, <2>3, <2>4 DEF Handle
<1>2. ASSUME NEW q \in Ports, NEW f \in Flows
      PROVE  /\ Passed(q, f) \subseteq Passed(q, f)'
             /\ \A n \in Passed(q, f)' \ Passed(q, f) :
                   Passed(q, f) = {} \/ \E m \in Passed(q, f) : m < n
  <2>1. CASE Passed(q, f)' = Passed(q, f)
    BY <2>1
  <2>2. CASE /\ q \in Passing(fr, p) /\ f = fr.flow
             /\ Passed(q, f)' = Passed(q, f) \cup {fr.seq}
    <3>1. Passed(q, f) = {} \/ \E m \in Passed(q, f) : m < fr.seq
      BY <2>2, EliminatesByNumbers DEF Passing
    <3>2. QED
      BY <2>2, <3>1
  <2>3. QED
    BY <2>1, <2>2, HandleCases DEF Forwarded
<1>3. QED
  BY <1>1, <1>2 DEF Keeps

\* A frame that has been handled is done with.
LEMMA HandleSettles ==
    ASSUME NEW lnk, NEW buf, NEW fr, NEW p, AtHand(lnk, buf, fr, p), Histories, Handle(lnk, fr, p)
    PROVE  Settled(fr, p)'
<1> USE DEF AtHand
<1>1. CASE Discard(lnk, fr, p) \/ NoRoute(lnk, fr, p)
  BY <1>1 DEF Discard, NoRoute, Fault, Settled
<1>2. CASE Deliver(lnk, fr, p)
  BY <1>2 DEF Deliver, Settled, Histories
<1>3. CASE Forward(lnk, fr, p)
  <2>1. /\ fr.flow \in Flows /\ fr.seq <= sent[fr.flow] /\ fr.seq \in Nat
        /\ UNCHANGED config /\ Outbound(fr.flow, p)' = Outbound(fr.flow, p)
    BY EnteredSent, HandleCases DEF Frame, Outbound, config
  <2>2. Lists' /\ Forwarded(lnk, fr, p)
    BY <1>3, <2>1, ForwardLists DEF Handle
  <2>3. ASSUME NEW q \in Outbound(fr.flow, p)
        PROVE  fr.seq \in Passed(q, fr.flow)' \/ Overtaken(fr, q)'
    <3>0. q \in Ports
      BY <2>1, OutboundPorts
    <3>1. CASE q \in Passing(fr, p)
      BY <2>1, <2>2, <3>0, <3>1 DEF Forwarded
    <3>2. CASE q \notin Passing(fr, p)
      <4>1. Passed(q, fr.flow)' = Passed(q, fr.flow)
        BY <2>1, <2>2, <3>0, <3>2 DEF Forwarded
      <4>2. \/ fr.seq \in Passed(q, fr.flow)
            \/ Passed(q, fr.flow) # {} /\ \A m \in Passed(q, fr.flow) : fr.seq < m
        BY <3>0, <3>2, EliminatesByNumbers DEF Passing
      <4>3. Overtaken(fr, q)' <=> /\ Passed(q, fr.flow)' # {}
                                  /\ \A m \in Passed(q, fr.flow)' : fr.seq < m
        BY <2>2, <3>0, OvertakenAfter
      <4>4. QED
        BY <4>1, <4>2, <4>3
    <3>3. QED
      BY <3>1, <3>2
  <2>4. QED
    BY <2>1, <2>2, <2>3 DEF Settled, Forwarded
<1>4. QED
  BY <1>1, <1>2, <1>3 DEF Handle

LEMMA AccountedHandle ==
    ASSUME NEW lnk, NEW buf, NEW fr, NEW p, AtHand(lnk, buf, fr, p), Histories,
           Accounted(lnk, {<<fr, p>>}), Handle(lnk, fr, p)
    PROVE  Accounted(link, {})'
<1> USE DEF AtHand
<1> SUFFICES ASSUME NEW q \in Ports, NEW g \in Frame, g.seq \in Entered(g.flow, q)'
             PROVE  g \in ToSet(link'[q]) \/ Settled(g, q)'
  BY DEF Accounted
<1>1. g.flow \in Flows /\ lnk \in [Ports -> Seq(Frame)]
  BY DEF Frame, Carried
<1>2. ToSet(lnk[q]) \subseteq ToSet(link'[q]) /\ (q \in Passing(fr, p) /\ Forwarded(lnk, fr, p) => fr \in ToSet(link'[q]))
  <2>1. link'[q] = lnk[q] \/ link'[q] = Append(lnk[q], fr)
    BY <1>1, HandleCases DEF Forwarded
  <2>2. Forwarded(lnk, fr, p) /\ q \in Passing(fr, p) => link'[q] = Append(lnk[q], fr)
    BY <1>1 DEF Forwarded
  <2>3. ToSet(Append(lnk[q], fr)) = ToSet(lnk[q]) \cup {fr}
    BY <1>1, AppendElements
  <2>4. QED
    BY <2>1, <2>2, <2>3
<1>3. CASE g.seq \in Entered(g.flow, q)
  <2>1. g \in ToSet(lnk[q]) \/ Settled(g, q) \/ (g = fr /\ q = p)
    BY <1>3 DEF Accounted
  <2>2. Settled(g, q) => Settled(g, q)'
    BY HandleCases, HandleKeeps, SettledStable DEF Keeps
  <2>3. QED
    BY <1>2, <2>1, <2>2, HandleSettles
<1>4. CASE g.seq \notin Entered(g.flow, q)
  <2>1. /\ q \in Passing(fr, p) /\ g.flow = fr.flow /\ g.seq = fr.seq
        /\ Forwarded(lnk, fr, p)
    BY <1>1, <1>4, HandleCases DEF Forwarded
  <2>2. g = fr
    BY <2>1 DEF Frame
  <2>3. QED
    BY <1>2, <2>1, <2>2
<1>5. QED
  BY <1>3, <1>4

LEMMA AccountedStep == Net /\ Accounted(link, {}) /\ [Next]_vars => Accounted(link, {})'
<1> SUFFICES ASSUME Net, Accounted(link, {}), [Next]_vars PROVE Accounted(link, {})'
  OBVIOUS
<1> USE DEF Net
<1>1. ASSUME NEW f \in Flows, Send(f) PROVE Accounted(link, {})'
  <2>1. /\ Lists' /\ Numbered(f) \in Frame
        /\ \A q \in Ports, g \in Flows :
              /\ Passed(q, g)' = Passed(q, g)
              /\ Entered(g, q)' = IF q = Source[f] /\ g = f
                                  THEN Entered(g, q) \cup {sent[f] + 1} ELSE Entered(g, q)
    BY <1>1, SendLists
  <2>2. /\ link' = [link EXCEPT ![Source[f]] = Append(@, Numbered(f))]
        /\ UNCHANGED <<config, history>> /\ link \in [Ports -> Seq(Frame)] /\ Source[f] \in Ports
    BY <1>1, RelayAssumption DEF Send, Carried
  <2>3. ToSet(Append(link[Source[f]], Numbered(f))) = ToSet(link[Source[f]]) \cup {Numbered(f)}
    BY <2>1, <2>2, AppendElements
  <2>4. ASSUME NEW q \in Ports, NEW g \in Frame, g.seq \in Entered(g.flow, q)'
        PROVE  g \in ToSet(link'[q]) \/ Settled(g, q)'
    <3>1. CASE g.seq \in Entered(g.flow, q)
      <4>1. ToSet(link[q]) \subseteq ToSet(link'[q])
        BY <2>2, <2>3
      <4>2. g \in ToSet(link[q]) \/ Settled(g, q)
        BY <3>1 DEF Accounted
      <4>3. Settled(g, q) => Settled(g, q)'
        BY <2>1, <2>2, SettledStable DEF history
      <4>4. QED
        BY <4>1, <4>2, <4>3
    <3>2. CASE g.seq \notin Entered(g.flow, q)
      <4>1. g.flow = f /\ q = Source[f] /\ g.seq = sent[f] + 1
        BY <2>1, <2>4, <3>2 DEF Frame
      <4>2. g = Numbered(f)
        BY <4>1 DEF Numbered, Frame
      <4>3. QED
        BY <2>2, <2>3, <4>1, <4>2
    <3>3. QED
      BY <3>1, <3>2
  <2>5. QED
    BY <2>4 DEF Accounted
<1>2. ASSUME NEW p \in Ports, Lose(p) PROVE Accounted(link, {})'
  <2>1. PICK fr \in Frame :
           /\ \A q \in Ports : q # p => link'[q] = link[q]
           /\ Thinned(link'[p], link[p], fr)
           /\ faults' = faults \cup {<<fr, p>>}
           /\ UNCHANGED <<config, sent, recorder, recvbuf, delivered, repeated, unseen, recvFailed>>
    BY <1>2, Loses
  <2>2. /\ Lists'
        /\ \A q \in Ports, f \in Flows : Passed(q, f)' = Passed(q, f) /\ Entered(f, q)' = Entered(f, q)
    BY <2>1, SameLists
  <2>3. ASSUME NEW q \in Ports, NEW g \in Frame, g.seq \in Entered(g.flow, q)'
        PROVE  g \in ToSet(link'[q]) \/ Settled(g, q)'
    <3>1. g \in ToSet(link[q]) \/ Settled(g, q)
      BY <2>2, <2>3 DEF Accounted, Frame
    <3>2. g \in ToSet(link[q]) => g \in ToSet(link'[q]) \/ <<g, q>> \in faults'
      BY <2>1 DEF Thinned
    <3>3. Settled(g, q) => Settled(g, q)'
      BY <2>1, <2>2, SettledStable
    <3>4. QED
      BY <3>1, <3>2, <3>3 DEF Settled
  <2>4. QED
    BY <2>3 DEF Accounted
<1>3. ASSUME NEW p \in Ports, Receive(p) PROVE Accounted(link, {})'
  <2> DEFINE fr == Head(link[p])
             lnk == Rest(p)
  <2>1. link[p] # <<>> /\ Handle(lnk, fr, p)
    BY <1>3, ReceiveHandles
  <2>2. /\ AtHand(lnk, Buffers(p), fr, p)
        /\ \A q \in Ports : q # p => lnk[q] = link[q]
        /\ Thinned(lnk[p], link[p], fr)
    BY <2>1, Takes DEF AtHand
  <2> HIDE DEF fr, lnk
  <2>3. Accounted(lnk, {<<fr, p>>})
    BY <2>2 DEF Accounted, Thinned
  <2>4. QED
    BY <2>1, <2>2, <2>3, AccountedHandle
<1>4. ASSUME NEW n \in Nodes, RecvFails(n) PROVE Accounted(link, {})'
  <2> DEFINE fr == recvbuf[n].frame
             p == recvbuf[n].from
  <2>1. AtHand(link, recvbuf, fr, p) /\ Handle(link, fr, p)
    BY <1>4, RecvFailsHandles DEF AtHand
  <2> HIDE DEF fr, p
  <2>2. Accounted(link, {<<fr, p>>})
    BY DEF Accounted
  <2>3. QED
    BY <2>1, <2>2, AccountedHandle
<1>5. CASE UNCHANGED vars
  BY <1>5 DEF vars, config, history, Accounted, Entered, Passed, Settled, Outbound, Overtaken
<1>6. QED
  BY <1>1, <1>2, <1>3, <1>4, <1>5 DEF Next

LEMMA AccountedInit == Init => Accounted(link, {})
<1> SUFFICES ASSUME Init, NEW p \in Ports, NEW fr \in Frame PROVE fr.seq \notin Entered(fr.flow, p)
  BY DEF Accounted
<1>1. recorder[p][fr.flow] = <<>> /\ sent[fr.flow] = 0
  BY DEF Init, Frame
<1>2. Passed(p, fr.flow) = {} /\ 1 .. sent[fr.flow] = {}
  BY <1>1 DEF Passed, Numbers
<1>3. QED
  BY <1>2 DEF Entered

\* One good path is enough, for every topology: a frame at rest has reached every
\* listener to which the routes lead over ports that lost no copy of it and had not
\* begun with a later frame.
THEOREM GoodPath == Spec => []GoodPathDelivers
<1>1. Net /\ Accounted(link, {}) => GoodPathDelivers
  <2> SUFFICES ASSUME Net, Accounted(link, {}), NEW f \in Flows, NEW s \in 1 .. sent[f],
                      AtRest([flow |-> f, seq |-> s])
               PROVE  LET fr == [flow |-> f, seq |-> s]
                          good == {p \in Ports : <<fr, p>> \notin faults /\ ~Overtaken(fr, p)}
                      IN  \A p \in Reached(f, {Source[f]}, good) :
                             Peer[p] \in Hosts => fr \in delivered[Peer[p]]
    BY DEF GoodPathDelivers
  <2> DEFINE fr == [flow |-> f, seq |-> s]
             good == {p \in Ports : <<fr, p>> \notin faults /\ ~Overtaken(fr, p)}
             R == {p \in good : s \in Entered(f, p)}
  <2>1. fr \in Frame /\ fr.flow = f /\ fr.seq = s /\ \A p \in Ports : fr \notin ToSet(link[p])
    <3>1. s \in 1 .. MaxFrames
      BY RelayAssumption DEF Net, Lists
    <3>2. QED
      BY <3>1 DEF Frame, AtRest
  <2> HIDE DEF fr
  <2>2. ASSUME NEW p \in R PROVE Settled(fr, p) /\ <<fr, p>> \notin faults
    BY <2>1 DEF Accounted
  <2>3. Closed(f, {Source[f]}, good, R)
    <3>1. {Source[f]} \cap good \subseteq R
      BY DEF Entered
    <3>2. ASSUME NEW p \in R, NEW q \in Onward(f, p) \cap good PROVE q \in R
      <4>1. Peer[p] \notin Hosts /\ q \in Outbound(f, p)
        BY DEF Onward
      <4>2. s \in Passed(q, f)
        BY <2>1, <2>2, <4>1 DEF Settled
      <4>3. q # Source[f]
        BY <4>1, OutboundPorts DEF Net
      <4>4. QED
        BY <4>2, <4>3 DEF Entered
    <3>3. QED
      BY <3>1, <3>2 DEF Closed
  <2>4. Reached(f, {Source[f]}, good) \subseteq R
    <3>1. R \in SUBSET good
      OBVIOUS
    <3> HIDE DEF R, good
    <3>2. QED
      BY <2>3, <3>1, ReachedLeast
  <2>5. ASSUME NEW p \in R, Peer[p] \in Hosts PROVE fr \in delivered[Peer[p]]
    BY <2>2, <2>5 DEF Settled
  <2>6. QED
    BY <2>4, <2>5 DEF fr
<1>2. Init => Net /\ Accounted(link, {})
  BY NetInit, AccountedInit
<1>3. Net /\ Accounted(link, {}) /\ [Next]_vars => Net' /\ Accounted(link, {})'
  BY NetStep, AccountedStep
<1>4. QED
  BY <1>1, <1>2, <1>3, PTL DEF Spec

-----------------------------------------------------------------------------
\* A listener gets a frame once

\* A link does not hold two copies of a frame.
Distinct(lnk) == \A p \in Ports : IsInjective(lnk[p])

\* What a host was given came over its link and is not on it any more.
Once(lnk) ==
    \A h \in Hosts \ recvFailed : OneLink(h) =>
        /\ repeated[h] = {}
        /\ \A p \in Ports : Peer[p] = h =>
              \A fr \in delivered[h] : fr.seq \in Entered(fr.flow, p) /\ fr \notin ToSet(lnk[p])

\* The frame at hand is on its link no more, and was not given to a host before,
\* unless it was taken from the buffer.
Fresh(lnk, fr, p) ==
    /\ fr \notin ToSet(lnk[p])
    /\ Peer[p] \in Hosts \ recvFailed' /\ OneLink(Peer[p]) => fr \notin delivered[Peer[p]]

LEMMA OnceHandle ==
    ASSUME NEW lnk, NEW buf, NEW fr, NEW p, AtHand(lnk, buf, fr, p), Histories,
           Distinct(lnk), Once(lnk), Handle(lnk, fr, p),
           recvFailed \subseteq recvFailed', Peer[p] \in Hosts \ recvFailed' => Fresh(lnk, fr, p)
    PROVE  Distinct(link)' /\ Once(link)'
<1> USE DEF AtHand
<1>1. lnk \in [Ports -> Seq(Frame)] /\ fr.flow \in Flows
  BY DEF Carried, Frame
<1>2. /\ Lists'
      /\ \A q \in Ports, f \in Flows : Entered(f, q) \subseteq Entered(f, q)'
      /\ \A q \in Ports :
            \/ link'[q] = lnk[q]
            \/ /\ fr.seq \notin Entered(fr.flow, q) /\ fr.seq \in Entered(fr.flow, q)'
               /\ link'[q] = Append(lnk[q], fr)
  <2>1. CASE Forwarded(lnk, fr, p)
    <3>1. ASSUME NEW q \in Passing(fr, p) PROVE q \in Ports /\ fr.seq \notin Entered(fr.flow, q)
      BY <1>1, <2>1, OutboundPorts, EliminatesByNumbers DEF Passing, Entered, Forwarded
    <3>2. QED
      BY <1>1, <2>1, <3>1, HandleCases DEF Forwarded
  <2>2. QED
    BY <2>1, HandleCases
<1>3. Distinct(link)'
  <2> SUFFICES ASSUME NEW q \in Ports PROVE IsInjective(link'[q])
    BY DEF Distinct
  <2>1. IsInjective(lnk[q]) /\ lnk[q] \in Seq(Frame)
    BY <1>1 DEF Distinct
  <2>2. fr.seq \notin Entered(fr.flow, q) => fr \notin ToSet(lnk[q])
    BY DEF Carried
  <2>3. QED
    BY <1>2, <2>1, <2>2, AppendElements
<1>4. ASSUME NEW h \in Hosts \ recvFailed', OneLink(h)
      PROVE  /\ repeated'[h] = {}
             /\ \A q \in Ports : Peer[q] = h =>
                   \A g \in delivered'[h] : g.seq \in Entered(g.flow, q)' /\ g \notin ToSet(link'[q])
  <2>0. /\ h \in Hosts \ recvFailed /\ repeated[h] = {} /\ delivered[h] \subseteq Frame
        /\ \A q \in Ports : Peer[q] = h =>
              \A g \in delivered[h] : g.seq \in Entered(g.flow, q) /\ g \notin ToSet(lnk[q])
    BY <1>4 DEF Once, Histories
  <2>1. ASSUME NEW q \in Ports, Peer[q] = h, NEW g \in delivered[h]
        PROVE  g.seq \in Entered(g.flow, q)' /\ g \notin ToSet(link'[q])
    <3>1. g.seq \in Entered(g.flow, q) /\ g \notin ToSet(lnk[q]) /\ g.flow \in Flows
      BY <2>0, <2>1 DEF Frame
    <3>2. ToSet(Append(lnk[q], fr)) = ToSet(lnk[q]) \cup {fr}
      BY <1>1, AppendElements
    <3>3. QED
      BY <1>2, <3>1, <3>2
  <2>2. CASE Deliver(lnk, fr, p) /\ h = Peer[p]
    <3>1. /\ delivered'[h] = delivered[h] \cup {fr}
          /\ repeated'[h] = IF fr \in delivered[h] THEN repeated[h] \cup {fr} ELSE repeated[h]
          /\ link' = lnk /\ fr \notin delivered[h] /\ fr \notin ToSet(lnk[p])
      BY <1>4, <2>2 DEF Deliver, Histories, Fresh
    <3>2. \A q \in Ports : Peer[q] = h => q = p
      BY <1>4, <2>2 DEF OneLink
    <3>3. fr.seq \in Entered(fr.flow, p)'
      BY <1>1, <1>2
    <3>4. QED
      BY <2>0, <2>1, <3>1, <3>2, <3>3
  <2>3. CASE ~(Deliver(lnk, fr, p) /\ h = Peer[p])
    <3>1. delivered'[h] = delivered[h] /\ repeated'[h] = repeated[h]
      BY <2>3 DEF Handle, Discard, NoRoute, Forward, Deliver, Histories
    <3>2. QED
      BY <2>0, <2>1, <3>1
  <2>4. QED
    BY <2>2, <2>3
<1>5. QED
  BY <1>3, <1>4 DEF Once

LEMMA OnceStep ==
    ASSUME Net, Distinct(link), Once(link), [Next]_vars
    PROVE  Distinct(link)' /\ Once(link)'
<1> USE DEF Net
<1>0. link \in [Ports -> Seq(Frame)]
  BY DEF Carried
<1>1. ASSUME NEW f \in Flows, Send(f) PROVE Distinct(link)' /\ Once(link)'
  <2>1. /\ Lists' /\ Numbered(f) \in Frame /\ sent[f] \in Nat
        /\ \A q \in Ports, g \in Flows :
              Entered(g, q)' = IF q = Source[f] /\ g = f
                               THEN Entered(g, q) \cup {sent[f] + 1} ELSE Entered(g, q)
    BY <1>1, SendLists
  <2>2. /\ link' = [link EXCEPT ![Source[f]] = Append(@, Numbered(f))]
        /\ UNCHANGED history /\ Source[f] \in Ports
    BY <1>1, RelayAssumption DEF Send
  <2>3. sent[f] + 1 \notin Entered(f, Source[f])
    BY <2>1 DEF Entered
  <2>4. Numbered(f).flow = f /\ Numbered(f).seq = sent[f] + 1
    BY DEF Numbered
  <2>5. /\ ToSet(Append(link[Source[f]], Numbered(f))) = ToSet(link[Source[f]]) \cup {Numbered(f)}
        /\ Numbered(f) \notin ToSet(link[Source[f]])
    BY <1>0, <2>1, <2>2, <2>3, <2>4, AppendElements DEF Carried
  <2>6. Distinct(link)'
    BY <1>0, <2>1, <2>2, <2>5, AppendElements DEF Distinct
  <2>7. ASSUME NEW h \in Hosts \ recvFailed, OneLink(h), NEW q \in Ports, Peer[q] = h, NEW g \in delivered[h]
        PROVE  g.seq \in Entered(g.flow, q)' /\ g \notin ToSet(link'[q])
    <3>1. g.seq \in Entered(g.flow, q) /\ g \notin ToSet(link[q]) /\ g.flow \in Flows
      BY <2>7 DEF Once, Histories, Frame
    <3>2. g \notin ToSet(link'[q])
      BY <1>0, <2>2, <2>3, <2>4, <2>5, <3>1
    <3>3. QED
      BY <2>1, <3>1, <3>2
  <2>8. QED
    BY <2>2, <2>6, <2>7 DEF Once, history
<1>2. ASSUME NEW p \in Ports, Lose(p) PROVE Distinct(link)' /\ Once(link)'
  <2>1. PICK fr \in Frame :
           /\ \A q \in Ports : q # p => link'[q] = link[q]
           /\ Thinned(link'[p], link[p], fr)
           /\ UNCHANGED <<config, sent, recorder, recvbuf, delivered, repeated, unseen, recvFailed>>
    BY <1>2, Loses
  <2>2. \A q \in Ports, f \in Flows : Entered(f, q)' = Entered(f, q)
    BY <2>1, SameLists
  <2>3. \A q \in Ports : ToSet(link'[q]) \subseteq ToSet(link[q]) /\ (IsInjective(link[q]) => IsInjective(link'[q]))
    BY <2>1 DEF Thinned
  <2>4. \A h \in Hosts : \A g \in delivered[h] : g.flow \in Flows
    BY DEF Histories, Frame
  <2>5. QED
    BY <2>1, <2>2, <2>3, <2>4 DEF Distinct, Once
<1>3. ASSUME NEW p \in Ports, Receive(p) PROVE Distinct(link)' /\ Once(link)'
  <2> DEFINE fr == Head(link[p])
             lnk == Rest(p)
  <2>1. link[p] # <<>> /\ Handle(lnk, fr, p) /\ recvFailed' = recvFailed
    BY <1>3, ReceiveHandles
  <2>2. /\ AtHand(lnk, Buffers(p), fr, p)
        /\ \A q \in Ports : q # p => lnk[q] = link[q]
        /\ Thinned(lnk[p], link[p], fr)
    BY <2>1, Takes DEF AtHand
  <2> HIDE DEF fr, lnk
  <2>3. Distinct(lnk) /\ Once(lnk)
    BY <2>2 DEF Distinct, Once, Thinned
  <2>4. fr \in ToSet(link[p]) /\ fr \notin ToSet(lnk[p])
    BY <2>2 DEF Thinned, Distinct
  <2>5. Fresh(lnk, fr, p)
    BY <2>1, <2>4 DEF Once, Fresh
  <2>6. QED
    BY <2>1, <2>2, <2>3, <2>5, OnceHandle
<1>4. ASSUME NEW n \in Nodes, RecvFails(n) PROVE Distinct(link)' /\ Once(link)'
  <2> DEFINE fr == recvbuf[n].frame
             p == recvbuf[n].from
  <2>1. AtHand(link, recvbuf, fr, p) /\ Handle(link, fr, p) /\ Peer[p] = n
    BY <1>4, RecvFailsHandles DEF AtHand
  <2>2. recvFailed' = IF n \in Hosts THEN recvFailed \cup {n} ELSE recvFailed
    BY <1>4, RecvFailsHandles
  <2> HIDE DEF fr, p
  <2>3. QED
    BY <2>1, <2>2, OnceHandle
<1>5. CASE UNCHANGED vars
  BY <1>5 DEF vars, config, history, Distinct, Once, Entered, Passed
<1>6. QED
  BY <1>1, <1>2, <1>3, <1>4, <1>5 DEF Next

LEMMA OnceInit == Init => Distinct(link) /\ Once(link)
BY DEF Init, Distinct, Once, IsInjective

\* No listener is given a frame twice, over whatever paths its copies come, if it has
\* one link and its own recv never failed.
THEOREM ListenerOnce == Spec => []DeliveredOnce
<1>1. Init => Net /\ Distinct(link) /\ Once(link)
  BY NetInit, OnceInit
<1>2. Net /\ Distinct(link) /\ Once(link) /\ [Next]_vars => Net' /\ Distinct(link)' /\ Once(link)'
  BY NetStep, OnceStep
<1>3. Once(link) => DeliveredOnce
  BY DEF Once, DeliveredOnce
<1>4. QED
  BY <1>1, <1>2, <1>3, PTL DEF Spec

-----------------------------------------------------------------------------
\* On a single path nothing is eliminated unseen

\* The ports that a flow can reach.
Reach(f) == Reached(f, {Source[f]}, Ports)

\* Numbers enter only where the flow can reach.
InReach == \A f \in Flows, p \in Ports : Entered(f, p) # {} => p \in Reach(f)

\* Where routes do not change, neither do the ports they lead to.
LEMMA SameRoutes ==
    ASSUME UNCHANGED config, NEW f \in Flows
    PROVE  /\ Reach(f)' = Reach(f) /\ Behind(f)' = Behind(f)
           /\ \A p \in Ports : Onward(f, p)' = Onward(f, p)
<1>1. \A p : Onward(f, p)' = Onward(f, p)
  BY DEF Onward, Outbound, config
<1>2. \A S, R : Closed(f, S, Ports, R)' <=> Closed(f, S, Ports, R)
  BY <1>1 DEF Closed
<1>3. \A S : Reached(f, S, Ports)' = Reached(f, S, Ports)
  BY <1>2 DEF Reached
<1> DEFINE Meeting == {q \in Ports : \E p1, p2 \in Reach(f) :
                          p1 # p2 /\ q \in Onward(f, p1) \cap Onward(f, p2)}
<1>4. Reach(f)' = Reach(f)
  BY <1>3 DEF Reach
<1>5. Meeting' = Meeting
  BY <1>1, <1>4
<1>6. Behind(f) = Reached(f, Meeting, Ports) /\ Behind(f)' = Reached(f, Meeting, Ports)'
  BY DEF Behind, Reach
<1>7. QED
  BY <1>1, <1>3, <1>4, <1>5, <1>6

\* What lies behind a meeting point is forwarded to ports that do, and a port that
\* does not is fed by one port only.
LEMMA BehindProperties ==
    ASSUME Lists, NEW f \in Flows, NEW p \in Ports, NEW q \in Onward(f, p)
    PROVE  /\ q \in Ports /\ q # p
           /\ p \in Behind(f) => q \in Behind(f)
           /\ p \in Reach(f) => q \in Reach(f)
           /\ q \notin Behind(f) /\ p \in Reach(f) =>
                 \A r \in Reach(f) : q \in Onward(f, r) => r = p
<1> DEFINE Meeting == {m \in Ports : \E p1, p2 \in Reach(f) :
                          p1 # p2 /\ m \in Onward(f, p1) \cap Onward(f, p2)}
<1>1. q \in Ports /\ q # p
  BY OutboundPorts DEF Onward
<1>2. Closed(f, {Source[f]}, Ports, Reach(f))
  BY ReachedClosed DEF Reach
<1>3. Behind(f) = Reached(f, Meeting, Ports)
  BY DEF Behind, Reach
<1>4. Closed(f, Meeting, Ports, Behind(f))
  <2> HIDE DEF Meeting
  <2> QED
    BY <1>3, ReachedClosed
<1>5. p \in Reach(f) => q \in Reach(f)
  BY <1>1, <1>2 DEF Closed
<1>6. p \in Behind(f) => q \in Behind(f)
  BY <1>1, <1>4 DEF Closed
<1>7. Meeting \subseteq Behind(f)
  BY <1>4 DEF Closed
<1>8. QED
  BY <1>1, <1>5, <1>6, <1>7

-----------------------------------------------------------------------------
\* Frames of flow f stand on a link in the order of their numbers.
Ascending(s, f) ==
    \A i, j \in DOMAIN s : i < j /\ s[i].flow = f /\ s[j].flow = f => s[i].seq < s[j].seq

\* The number n of flow f is below those on the link s.
Ahead(n, s, f) == \A g \in ToSet(s) : g.flow = f => n < g.seq

\* The buffer at the end of p's link holds g, which came over that link.
HeldFrom(buf, p, g) == buf[Peer[p]] = [frame |-> g, from |-> p]

\* Where copies do not meet, a flow keeps its order: on the link of p, between the
\* buffer and the link, and between the ports that p's frames are forwarded to and both.
InTurnAt(lnk, buf, f, p) ==
    /\ Ascending(lnk[p], f)
    /\ \A g \in Frame : HeldFrom(buf, p, g) /\ g.flow = f => Ahead(g.seq, lnk[p], f)
    /\ p \in Reach(f) =>
          \A q \in Onward(f, p) \ Behind(f) : \A n \in Passed(q, f) :
              /\ n \in Entered(f, p)
              /\ Ahead(n, lnk[p], f)
              /\ \A g \in Frame : HeldFrom(buf, p, g) /\ g.flow = f => n <= g.seq

InTurn(lnk, buf) == \A f \in Flows : \A p \in Ports \ Behind(f) : InTurnAt(lnk, buf, f, p)

\* A frame taken in is behind those forwarded before it and ahead of those still on
\* the link.
LEMMA TakesInTurn ==
    ASSUME Net, InTurn(link, recvbuf), NEW p \in Ports, link[p] # <<>>
    PROVE  InTurn(Rest(p), Buffers(p))
<1> DEFINE fr == Head(link[p])
           lnk == Rest(p)
           buf == Buffers(p)
<1>1. /\ link \in [Ports -> Seq(Frame)] /\ recvbuf \in [Nodes -> Received \cup {Nothing}]
      /\ Peer \in [Ports -> Nodes]
  BY RelayAssumption DEF Net, Carried, Held
<1>2. /\ fr \in Frame /\ lnk[p] = Tail(link[p]) /\ Thinned(lnk[p], link[p], fr)
      /\ \A q \in Ports : q # p => lnk[q] = link[q]
      /\ buf[Peer[p]] = [frame |-> fr, from |-> p]
      /\ \A n \in Nodes : n # Peer[p] => buf[n] = recvbuf[n]
  BY <1>1, Takes DEF Net, Rest, Buffers
<1>3. \A e \in ToSet(lnk[p]) : \E l, m \in DOMAIN link[p] : l < m /\ link[p][l] = fr /\ link[p][m] = e
  BY <1>1, <1>2, TailAfterHead
<1> HIDE DEF fr, lnk, buf
<1>4. \A g \in Frame : HeldFrom(buf, p, g) => g = fr
  BY <1>2 DEF HeldFrom
<1>5. \A q \in Ports : q # p => \A g \in Frame : HeldFrom(buf, q, g) => HeldFrom(recvbuf, q, g)
  BY <1>1, <1>2 DEF HeldFrom
<1>6. ASSUME NEW f \in Flows, NEW q \in Ports \ Behind(f), q # p
      PROVE  InTurnAt(lnk, buf, f, q)
  BY <1>2, <1>5, <1>6 DEF InTurn, InTurnAt
<1>7. ASSUME NEW f \in Flows, p \notin Behind(f)
      PROVE  InTurnAt(lnk, buf, f, p)
  <2>1. Ascending(link[p], f)
    BY <1>7 DEF InTurn, InTurnAt
  <2>2. Ascending(lnk[p], f)
    BY <1>2, <2>1 DEF Ascending, Thinned
  <2>3. fr.flow = f => Ahead(fr.seq, lnk[p], f)
    BY <1>3, <2>1 DEF Ascending, Ahead
  <2>4. ASSUME p \in Reach(f), NEW r \in Onward(f, p) \ Behind(f), NEW n \in Passed(r, f)
        PROVE  /\ n \in Entered(f, p) /\ Ahead(n, lnk[p], f)
               /\ fr.flow = f => n <= fr.seq
    <3>1. n \in Entered(f, p) /\ Ahead(n, link[p], f)
      BY <1>7, <2>4 DEF InTurn, InTurnAt
    <3>2. Ahead(n, lnk[p], f) /\ (fr.flow = f => n < fr.seq)
      BY <1>2, <3>1 DEF Ahead, Thinned
    <3>3. fr.seq \in Nat /\ n \in Nat
      BY <1>2, <3>1, RelayAssumption, EnteredSent DEF Frame, Net
    <3>4. QED
      BY <3>1, <3>2, <3>3
  <2>5. QED
    BY <1>4, <2>2, <2>3, <2>4 DEF InTurnAt
<1>8. QED
  BY <1>6, <1>7 DEF InTurn, InTurnAt, lnk, buf

\* Forwarding the frame that the buffer holds adds to a port not behind a meeting
\* point the latest number it has seen.
LEMMA LatestPasses ==
    ASSUME NEW lnk, NEW buf, NEW fr, NEW p, AtHand(lnk, buf, fr, p), HeldFrom(buf, p, fr),
           InReach, InTurn(lnk, buf), Peer[p] \notin Hosts,
           NEW q \in Outbound(fr.flow, p), q \notin Behind(fr.flow)
    PROVE  /\ q \in Ports /\ q \in Onward(fr.flow, p) /\ p \notin Behind(fr.flow)
           /\ p \in Reach(fr.flow) /\ q # p /\ q # Source[fr.flow]
           /\ Entered(fr.flow, q) = Passed(q, fr.flow)
           /\ \A n \in Passed(q, fr.flow) : n <= fr.seq
           /\ ~Eliminates(q, fr) => \A n \in Passed(q, fr.flow) : n < fr.seq
           /\ Eliminates(q, fr) => fr.seq \in Passed(q, fr.flow)
<1>1. fr.flow \in Flows /\ fr.seq \in Nat /\ Lists /\ fr \in Frame /\ p \in Ports
  BY RelayAssumption DEF AtHand, Frame
<1>2. q \in Onward(fr.flow, p) /\ q # Source[fr.flow] /\ q \in Ports
  BY <1>1, OutboundPorts DEF Onward
<1>3. p \in Reach(fr.flow)
  BY <1>1 DEF InReach, AtHand
<1>4. p \notin Behind(fr.flow) /\ q # p
  BY <1>1, <1>2, BehindProperties
<1>5. \A n \in Passed(q, fr.flow) : n <= fr.seq
  BY <1>1, <1>2, <1>3, <1>4 DEF InTurn, InTurnAt
<1>6. Passed(q, fr.flow) \subseteq Nat
  BY <1>1, <1>2, EnteredSent
<1>7. /\ ~Eliminates(q, fr) => fr.seq \notin Passed(q, fr.flow)
      /\ Eliminates(q, fr) => \/ fr.seq \in Passed(q, fr.flow)
                              \/ /\ Passed(q, fr.flow) # {}
                                 /\ \A m \in Passed(q, fr.flow) : fr.seq < m
  BY <1>1, <1>2, EliminatesByNumbers
<1>8. QED
  BY <1>1, <1>2, <1>3, <1>4, <1>5, <1>6, <1>7 DEF Entered

LEMMA HandleInReach ==
    ASSUME NEW lnk, NEW buf, NEW fr, NEW p, AtHand(lnk, buf, fr, p), InReach, Handle(lnk, fr, p)
    PROVE  InReach'
<1> USE DEF AtHand
<1> SUFFICES ASSUME NEW f \in Flows, NEW q \in Ports, Entered(f, q)' # {} PROVE q \in Reach(f)
  BY HandleCases, SameRoutes DEF InReach
<1>1. CASE Entered(f, q) # {}
  BY <1>1 DEF InReach
<1>2. CASE Entered(f, q) = {}
  <2>1. q \in Passing(fr, p) /\ f = fr.flow /\ Peer[p] \notin Hosts
    BY <1>2, HandleCases DEF Forwarded
  <2>2. p \in Reach(f) /\ q \in Onward(f, p)
    BY <2>1 DEF InReach, Passing, Onward
  <2>3. QED
    BY <2>2, BehindProperties
<1>3. QED
  BY <1>1, <1>2

LEMMA HandleInTurn ==
    ASSUME NEW lnk, NEW buf, NEW fr, NEW p, AtHand(lnk, buf, fr, p), HeldFrom(buf, p, fr),
           InReach, InTurn(lnk, buf), Handle(lnk, fr, p), recvbuf' = buf
    PROVE  InTurn(link, recvbuf)'
<1> USE DEF AtHand
<1> DEFINE f == fr.flow
           s == fr.seq
           P == Passing(fr, p)
<1>0. /\ f \in Flows /\ s \in Nat /\ lnk \in [Ports -> Seq(Frame)] /\ UNCHANGED config
      /\ \A q \in Ports : \A h \in ToSet(lnk[q]) : h \in Frame /\ h.seq \in Entered(h.flow, q)
  <2>1. f \in Flows /\ s \in Nat
    BY RelayAssumption DEF Frame
  <2>2. lnk \in [Ports -> Seq(Frame)] /\ \A q \in Ports : \A h \in ToSet(lnk[q]) : h.seq \in Entered(h.flow, q)
    BY DEF Carried
  <2>3. \A q \in Ports : \A h \in ToSet(lnk[q]) : h \in Frame
    BY <2>2, LenProperties, ElementOfSeq DEF ToSet
  <2>4. QED
    BY <2>1, <2>2, <2>3, HandleCases
<1>1. \A g \in Flows :
         /\ Reach(g)' = Reach(g) /\ Behind(g)' = Behind(g)
         /\ \A q \in Ports : Onward(g, q)' = Onward(g, q)
  BY <1>0, SameRoutes
<1>2. \A g \in Flows : \A r \in Ports \ Behind(g) : InTurnAt(lnk, buf, g, r)
  BY DEF InTurn
<1>3. CASE /\ link' = lnk
           /\ \A q \in Ports, g \in Flows :
                 Passed(q, g)' = Passed(q, g) /\ Entered(g, q)' = Entered(g, q)
  <2>1. \A g \in Flows, r \in Ports : \A q \in Onward(g, r) : q \in Ports
    BY BehindProperties
  <2>2. QED
    BY <1>1, <1>2, <1>3, <2>1 DEF InTurn, InTurnAt
<1>4. CASE Forwarded(lnk, fr, p)
  <2>1. /\ Peer[p] \notin Hosts
        /\ \A q \in Ports, g \in Flows :
              /\ Passed(q, g)' = IF q \in P /\ g = f THEN Passed(q, g) \cup {s} ELSE Passed(q, g)
              /\ Entered(g, q)' = IF q \in P /\ g = f THEN Entered(g, q) \cup {s} ELSE Entered(g, q)
        /\ \A q \in Ports : link'[q] = IF q \in P THEN Append(lnk[q], fr) ELSE lnk[q]
    BY <1>4 DEF Forwarded
  <2>2. ASSUME NEW q \in P, q \notin Behind(f)
        PROVE  /\ q \in Ports /\ q \in Onward(f, p) /\ p \notin Behind(f) /\ p \in Reach(f) /\ q # p
               /\ Entered(f, q) = Passed(q, f) /\ \A n \in Passed(q, f) : n < s
    BY <2>1, <2>2, LatestPasses DEF Passing
  <2>3. p \notin P
    BY <1>0, OutboundPorts DEF Passing
  <2> HIDE DEF f, s, P
  <2>4. ASSUME NEW r \in Ports, r \in P
        PROVE  /\ ToSet(link'[r]) = ToSet(lnk[r]) \cup {fr}
               /\ DOMAIN lnk[r] = 1 .. Len(lnk[r]) /\ DOMAIN link'[r] = 1 .. Len(lnk[r]) + 1
               /\ Len(lnk[r]) \in Nat /\ link'[r][Len(lnk[r]) + 1] = fr
               /\ \A i \in 1 .. Len(lnk[r]) : link'[r][i] = lnk[r][i]
    <3>1. lnk[r] \in Seq(Frame) /\ link'[r] = Append(lnk[r], fr)
      BY <1>0, <2>1, <2>4
    <3>2. ToSet(link'[r]) = ToSet(lnk[r]) \cup {fr}
      BY <3>1, AppendElements
    <3>3. QED
      BY <3>1, <3>2, AppendProperties, LenProperties
  <2>5. ASSUME NEW g \in Flows, NEW r \in Ports \ Behind(g)
        PROVE  Ascending(link'[r], g)
    <3>0. Ascending(lnk[r], g)
      BY <1>2 DEF InTurnAt
    <3>1. CASE r \notin P
      BY <2>1, <3>0, <3>1
    <3>2. CASE r \in P
      <4>1. ASSUME NEW i \in DOMAIN link'[r], NEW j \in DOMAIN link'[r], i < j,
                   link'[r][i].flow = g, link'[r][j].flow = g
            PROVE  link'[r][i].seq < link'[r][j].seq
        <5>1. i \in 1 .. Len(lnk[r]) /\ link'[r][i] = lnk[r][i]
          BY <2>4, <3>2, <4>1
        <5>2. CASE j \in 1 .. Len(lnk[r])
          BY <2>4, <3>0, <3>2, <4>1, <5>1, <5>2 DEF Ascending
        <5>3. CASE j = Len(lnk[r]) + 1
          <6>1. link'[r][j] = fr /\ g = f
            BY <2>4, <3>2, <4>1, <5>3 DEF f
          <6>2. lnk[r][i] \in ToSet(lnk[r])
            BY <2>4, <3>2, <5>1 DEF ToSet
          <6>3. lnk[r][i].seq \in Passed(r, f)
            BY <1>0, <2>2, <3>2, <4>1, <5>1, <6>1, <6>2
          <6>4. QED
            BY <2>2, <3>2, <5>1, <6>1, <6>3 DEF s
        <5>4. QED
          BY <2>4, <3>2, <5>2, <5>3
      <4>2. QED
        BY <4>1 DEF Ascending
    <3>3. QED
      BY <3>1, <3>2
  <2>6. ASSUME NEW g \in Flows, NEW r \in Ports \ Behind(g),
               NEW e \in Frame, HeldFrom(buf, r, e), e.flow = g
        PROVE  Ahead(e.seq, link'[r], g)
    <3>0. Ahead(e.seq, lnk[r], g)
      BY <1>2, <2>6 DEF InTurnAt
    <3>1. CASE r \in P /\ g = f
      <4>1. Peer[r] \in Nodes /\ buf[Peer[r]] = [frame |-> e, from |-> r]
        BY <2>6, RelayAssumption DEF HeldFrom
      <4>2. buf[Peer[r]] # Nothing
        BY <4>1 DEF Nothing
      <4>3. e.seq \in Entered(f, r)
        BY <2>6, <3>1, <4>1, <4>2 DEF Held
      <4>4. e.seq < s
        BY <2>2, <3>1, <4>3
      <4>5. QED
        BY <2>4, <3>0, <3>1, <4>4 DEF Ahead, s
    <3>2. CASE ~(r \in P /\ g = f)
      <4>1. link'[r] = lnk[r] \/ (ToSet(link'[r]) = ToSet(lnk[r]) \cup {fr} /\ fr.flow # g)
        BY <2>1, <2>4, <3>2 DEF f
      <4>2. QED
        BY <3>0, <4>1 DEF Ahead
    <3>3. QED
      BY <3>1, <3>2
  <2>7. ASSUME NEW g \in Flows, NEW r \in Ports \ Behind(g), r \in Reach(g),
               NEW q \in Onward(g, r) \ Behind(g), NEW n \in Passed(q, g)'
        PROVE  /\ n \in Entered(g, r)'
               /\ Ahead(n, link'[r], g)
               /\ \A e \in Frame : HeldFrom(buf, r, e) /\ e.flow = g => n <= e.seq
    <3>0. q \in Ports /\ Peer[r] \notin Hosts
      BY BehindProperties DEF Onward
    <3>1. CASE n \in Passed(q, g)
      <4>1. /\ n \in Entered(g, r) /\ Ahead(n, lnk[r], g)
            /\ \A e \in Frame : HeldFrom(buf, r, e) /\ e.flow = g => n <= e.seq
        BY <1>2, <2>7, <3>1 DEF InTurnAt
      <4>2. n \in Entered(g, r)'
        BY <2>1, <4>1
      <4>3. Ahead(n, link'[r], g)
        <5>1. CASE r \in P /\ g = f
          <6>1. n < s
            BY <2>2, <4>1, <5>1
          <6>2. QED
            BY <2>4, <4>1, <5>1, <6>1 DEF Ahead, s
        <5>2. CASE ~(r \in P /\ g = f)
          <6>1. link'[r] = lnk[r] \/ (ToSet(link'[r]) = ToSet(lnk[r]) \cup {fr} /\ fr.flow # g)
            BY <2>1, <2>4, <5>2 DEF f
          <6>2. QED
            BY <4>1, <6>1 DEF Ahead
        <5>3. QED
          BY <5>1, <5>2
      <4>4. QED
        BY <4>1, <4>2, <4>3
    <3>2. CASE n \notin Passed(q, g)
      <4>1. q \in P /\ g = f /\ n = s
        BY <2>1, <2>7, <3>0, <3>2
      <4>2. q \in Onward(f, p) /\ p \notin Behind(f) /\ p \in Reach(f) /\ q \notin Behind(f)
        BY <2>2, <4>1
      <4>3. r = p
        BY <1>0, <2>7, <4>1, <4>2, BehindProperties
      <4>4. n \in Entered(g, r)'
        BY <1>0, <2>1, <4>1, <4>3 DEF f, s
      <4>5. link'[r] = lnk[r] /\ Ahead(s, lnk[p], f)
        BY <1>0, <1>2, <2>1, <2>3, <4>2, <4>3 DEF InTurnAt, f, s
      <4>6. \A e \in Frame : HeldFrom(buf, r, e) => e = fr
        BY <4>3 DEF HeldFrom
      <4>7. QED
        BY <1>0, <4>1, <4>3, <4>4, <4>5, <4>6 DEF s
    <3>3. QED
      BY <3>1, <3>2
  <2>8. QED
    BY <1>1, <2>5, <2>6, <2>7 DEF InTurn, InTurnAt, HeldFrom
<1>5. QED
  BY <1>3, <1>4, HandleCases

\* What is eliminated unseen is eliminated behind a meeting point.
LEMMA HandleUnseen ==
    ASSUME NEW lnk, NEW buf, NEW fr, NEW p, AtHand(lnk, buf, fr, p), HeldFrom(buf, p, fr), Histories,
           InReach, InTurn(lnk, buf), SinglePathEliminatesNothing, Handle(lnk, fr, p)
    PROVE  SinglePathEliminatesNothing'
<1> USE DEF AtHand
<1>1. \A g \in Flows : Behind(g)' = Behind(g)
  BY HandleCases, SameRoutes
<1>2. \A q \in Ports : \A g \in unseen[q] : g.flow \in Flows /\ q \in Behind(g.flow)
  BY DEF Histories, Frame, SinglePathEliminatesNothing
<1>3. fr.flow \in Flows
  BY DEF Frame
<1>4. ASSUME NEW q \in Ports, NEW g \in unseen'[q]
      PROVE  g.flow \in Flows /\ q \in Behind(g.flow)
  <2>1. CASE g \in unseen[q]
    BY <1>2, <2>1
  <2>2. CASE g \notin unseen[q]
    <3>1. /\ g = fr /\ q \in Outbound(fr.flow, p) /\ Eliminates(q, fr)
          /\ fr.seq \notin Passed(q, fr.flow) /\ Peer[p] \notin Hosts
      BY <1>4, <2>2 DEF Handle, Discard, NoRoute, Forward, Deliver, Passed
    <3>2. QED
      BY <1>3, <3>1, LatestPasses
  <2>3. QED
    BY <2>1, <2>2
<1>5. QED
  BY <1>1, <1>4 DEF SinglePathEliminatesNothing

Single == InReach /\ InTurn(link, recvbuf) /\ SinglePathEliminatesNothing

LEMMA SingleSend == ASSUME Net, Single, NEW f \in Flows, Send(f) PROVE Single'
<1> USE DEF Net, Single
<1>1. /\ Lists' /\ Numbered(f) \in Frame /\ sent[f] \in Nat
      /\ \A q \in Ports, g \in Flows :
            /\ Passed(q, g)' = Passed(q, g)
            /\ Entered(g, q)' = IF q = Source[f] /\ g = f
                                THEN Entered(g, q) \cup {sent[f] + 1} ELSE Entered(g, q)
  BY SendLists
<1>2. /\ link' = [link EXCEPT ![Source[f]] = Append(@, Numbered(f))]
      /\ UNCHANGED <<config, recvbuf, history>> /\ Source[f] \in Ports
      /\ link \in [Ports -> Seq(Frame)] /\ recvbuf \in [Nodes -> Received \cup {Nothing}]
  BY RelayAssumption DEF Send, Carried, Held
<1>3. \A g \in Flows :
         /\ Reach(g)' = Reach(g) /\ Behind(g)' = Behind(g)
         /\ \A q \in Ports : Onward(g, q)' = Onward(g, q)
  BY <1>2, SameRoutes
<1>4. InReach'
  <2>1. Source[f] \in Reach(f)
    BY <1>2, ReachedClosed DEF Reach, Closed
  <2>2. QED
    BY <1>1, <1>3, <2>1 DEF InReach
<1>5. SinglePathEliminatesNothing'
  BY <1>2, <1>3 DEF SinglePathEliminatesNothing, history, Histories, Frame
<1>6. InTurn(link, recvbuf)'
  <2> DEFINE q == Source[f]
             fr == Numbered(f)
             s == sent[f] + 1
  <2>1. /\ fr.flow = f /\ fr.seq = s /\ link'[q] = Append(link[q], fr)
        /\ \A r \in Ports : r # q => link'[r] = link[r]
        /\ \A n \in Entered(f, q) : n < s
    BY <1>1, <1>2 DEF Numbered, Entered
  <2>2. /\ ToSet(link'[q]) = ToSet(link[q]) \cup {fr}
        /\ DOMAIN link[q] = 1 .. Len(link[q]) /\ DOMAIN link'[q] = 1 .. Len(link[q]) + 1
        /\ Len(link[q]) \in Nat /\ link'[q][Len(link[q]) + 1] = fr
        /\ \A i \in 1 .. Len(link[q]) : link'[q][i] = link[q][i]
    BY <1>1, <1>2, <2>1, AppendElements, AppendProperties, LenProperties
  <2> HIDE DEF q, fr, s
  <2>3. q \in Ports
    BY <1>2 DEF q
  <2>4. ASSUME NEW g \in Flows, NEW r \in Ports \ Behind(g)
        PROVE  Ascending(link'[r], g)
    <3>0. Ascending(link[r], g)
      BY DEF InTurn, InTurnAt
    <3>1. CASE r # q
      BY <2>1, <3>0, <3>1
    <3>2. CASE r = q
      <4>1. ASSUME NEW i \in DOMAIN link'[q], NEW j \in DOMAIN link'[q], i < j,
                   link'[q][i].flow = g, link'[q][j].flow = g
            PROVE  link'[q][i].seq < link'[q][j].seq
        <5>1. i \in 1 .. Len(link[q]) /\ link'[q][i] = link[q][i]
          BY <2>2, <4>1
        <5>2. CASE j \in 1 .. Len(link[q])
          BY <2>2, <3>0, <3>2, <4>1, <5>1, <5>2 DEF Ascending
        <5>3. CASE j = Len(link[q]) + 1
          <6>1. link'[q][j] = fr /\ g = f
            BY <2>1, <2>2, <4>1, <5>3
          <6>2. link[q][i] \in ToSet(link[q])
            BY <2>2, <5>1 DEF ToSet
          <6>3. link[q][i].seq \in Entered(f, q)
            BY <2>3, <4>1, <5>1, <6>1, <6>2 DEF Carried
          <6>4. QED
            BY <2>1, <5>1, <6>1, <6>3
        <5>4. QED
          BY <2>2, <5>2, <5>3
      <4>2. QED
        BY <3>2, <4>1 DEF Ascending
    <3>3. QED
      BY <3>1, <3>2
  <2>5. ASSUME NEW g \in Flows, NEW r \in Ports, NEW n, Ahead(n, link[r], g),
               g = f /\ r = q => n \in Entered(f, q)
        PROVE  Ahead(n, link'[r], g)
    <3>1. \A h \in ToSet(link'[r]) : h \in ToSet(link[r]) \/ (h = fr /\ r = q)
      BY <2>1, <2>2
    <3>2. QED
      BY <2>1, <2>5, <3>1 DEF Ahead
  <2>6. ASSUME NEW g \in Flows, NEW r \in Ports \ Behind(g),
               NEW e \in Frame, HeldFrom(recvbuf, r, e), e.flow = g
        PROVE  Ahead(e.seq, link'[r], g)
    <3>1. Ahead(e.seq, link[r], g)
      BY <2>6 DEF InTurn, InTurnAt
    <3>2. Peer[r] \in Nodes /\ recvbuf[Peer[r]] = [frame |-> e, from |-> r]
      BY <2>6, RelayAssumption DEF HeldFrom
    <3>3. recvbuf[Peer[r]] # Nothing
      BY <3>2 DEF Nothing
    <3>4. e.seq \in Entered(g, r)
      BY <2>6, <3>2, <3>3 DEF Held
    <3>5. QED
      BY <2>5, <3>1, <3>4
  <2>7. ASSUME NEW g \in Flows, NEW r \in Ports \ Behind(g), r \in Reach(g),
               NEW t \in Onward(g, r) \ Behind(g), NEW n \in Passed(t, g)'
        PROVE  /\ n \in Entered(g, r)'
               /\ Ahead(n, link'[r], g)
               /\ \A e \in Frame : HeldFrom(recvbuf, r, e) /\ e.flow = g => n <= e.seq
    <3>1. t \in Ports /\ n \in Passed(t, g)
      BY <1>1, <2>7, BehindProperties
    <3>2. /\ n \in Entered(g, r) /\ Ahead(n, link[r], g)
          /\ \A e \in Frame : HeldFrom(recvbuf, r, e) /\ e.flow = g => n <= e.seq
      BY <2>7, <3>1 DEF InTurn, InTurnAt
    <3>3. QED
      BY <1>1, <2>5, <3>2
  <2>8. QED
    BY <1>2, <1>3, <2>4, <2>6, <2>7 DEF InTurn, InTurnAt, HeldFrom
<1>7. QED
  BY <1>4, <1>5, <1>6

LEMMA SingleLose == ASSUME Net, Single, NEW p \in Ports, Lose(p) PROVE Single'
<1> USE DEF Net, Single
<1>1. PICK fr \in Frame :
         /\ \A q \in Ports : q # p => link'[q] = link[q]
         /\ Thinned(link'[p], link[p], fr)
         /\ UNCHANGED <<config, sent, recorder, recvbuf, delivered, repeated, unseen, recvFailed>>
  BY Loses
<1>2. \A q \in Ports, f \in Flows : Passed(q, f)' = Passed(q, f) /\ Entered(f, q)' = Entered(f, q)
  BY <1>1, SameLists
<1>3. \A g \in Flows :
         /\ Reach(g)' = Reach(g) /\ Behind(g)' = Behind(g)
         /\ \A q \in Ports : Onward(g, q)' = Onward(g, q)
  BY <1>1, SameRoutes
<1>4. \A q \in Ports : ToSet(link'[q]) \subseteq ToSet(link[q])
  BY <1>1 DEF Thinned
<1>5. \A q \in Ports, f \in Flows : Ascending(link[q], f) => Ascending(link'[q], f)
  BY <1>1 DEF Thinned, Ascending
<1>6. \A q \in Ports, f \in Flows : \A n : Ahead(n, link[q], f) => Ahead(n, link'[q], f)
  BY <1>4 DEF Ahead
<1>7. \A f \in Flows, q \in Ports : \A r \in Onward(f, q) : r \in Ports
  BY BehindProperties
<1>8. InTurn(link, recvbuf)'
  BY <1>1, <1>2, <1>3, <1>5, <1>6, <1>7 DEF InTurn, InTurnAt, HeldFrom
<1>9. InReach'
  BY <1>2, <1>3 DEF InReach
<1>10. SinglePathEliminatesNothing'
  BY <1>1, <1>3 DEF SinglePathEliminatesNothing, Histories, Frame
<1>11. QED
  BY <1>8, <1>9, <1>10

LEMMA SingleHandle ==
    ASSUME NEW lnk, NEW buf, NEW fr, NEW p, AtHand(lnk, buf, fr, p), HeldFrom(buf, p, fr), Histories,
           InReach, InTurn(lnk, buf), SinglePathEliminatesNothing, Handle(lnk, fr, p),
           recvbuf' = buf
    PROVE  Single'
BY HandleInReach, HandleInTurn, HandleUnseen DEF Single

LEMMA SingleStep == Net /\ Single /\ [Next]_vars => Single'
<1> SUFFICES ASSUME Net, Single, [Next]_vars PROVE Single'
  OBVIOUS
<1> USE DEF Net
<1>1. ASSUME NEW f \in Flows, Send(f) PROVE Single'
  BY <1>1, SingleSend
<1>2. ASSUME NEW p \in Ports, Lose(p) PROVE Single'
  BY <1>2, SingleLose
<1>3. ASSUME NEW p \in Ports, Receive(p) PROVE Single'
  <2> DEFINE fr == Head(link[p])
             lnk == Rest(p)
             buf == Buffers(p)
  <2>1. link[p] # <<>> /\ Handle(lnk, fr, p) /\ recvbuf' = buf
    BY <1>3, ReceiveHandles
  <2>2. AtHand(lnk, buf, fr, p) /\ HeldFrom(buf, p, fr)
    BY <2>1, Takes DEF AtHand, HeldFrom
  <2>3. InReach /\ InTurn(lnk, buf) /\ SinglePathEliminatesNothing
    BY <2>1, TakesInTurn DEF Single
  <2> HIDE DEF fr, lnk, buf
  <2>4. QED
    BY <2>1, <2>2, <2>3, SingleHandle
<1>4. ASSUME NEW n \in Nodes, RecvFails(n) PROVE Single'
  <2> DEFINE fr == recvbuf[n].frame
             p == recvbuf[n].from
  <2>1. AtHand(link, recvbuf, fr, p) /\ Handle(link, fr, p) /\ HeldFrom(recvbuf, p, fr)
        /\ recvbuf' = recvbuf
    BY <1>4, RecvFailsHandles DEF AtHand, HeldFrom
  <2> HIDE DEF fr, p
  <2>2. QED
    BY <2>1, SingleHandle DEF Single
<1>5. CASE UNCHANGED vars
  <2>1. /\ UNCHANGED <<config, link, recvbuf, unseen>>
        /\ \A q \in Ports, f \in Flows : Passed(q, f)' = Passed(q, f) /\ Entered(f, q)' = Entered(f, q)
    BY <1>5 DEF vars, history, Passed, Entered
  <2>2. \A g \in Flows :
           /\ Reach(g)' = Reach(g) /\ Behind(g)' = Behind(g)
           /\ \A q \in Ports : Onward(g, q)' = Onward(g, q)
    BY <2>1, SameRoutes
  <2>3. \A f \in Flows, q \in Ports : \A r \in Onward(f, q) : r \in Ports
    BY BehindProperties
  <2>4. InTurn(link, recvbuf)'
    BY <2>1, <2>2, <2>3 DEF InTurn, InTurnAt, HeldFrom, Single
  <2>5. QED
    BY <2>1, <2>2, <2>4 DEF Single, InReach, SinglePathEliminatesNothing, Histories, Frame
<1>6. QED
  BY <1>1, <1>2, <1>3, <1>4, <1>5 DEF Next

LEMMA SingleInit == Init => Single
<1> SUFFICES ASSUME Init PROVE Single
  OBVIOUS
<1>1. /\ \A p \in Ports, f \in Flows : recorder[p][f] = <<>> /\ sent[f] = 0
      /\ \A p \in Ports : link[p] = <<>> /\ unseen[p] = {}
      /\ \A n \in Nodes : recvbuf[n] = Nothing
  BY DEF Init
<1>2. \A p \in Ports, f \in Flows : Passed(p, f) = {} /\ Entered(f, p) = {}
  BY <1>1 DEF Passed, Numbers, Entered
<1>3. \A f \in Flows, q \in Ports : \A r \in Onward(f, q) : r \in Ports
  BY NetInit, BehindProperties DEF Net
<1>4. InTurn(link, recvbuf)
  BY <1>1, <1>2, <1>3 DEF InTurn, InTurnAt, Ascending, Ahead, ToSet
<1>5. QED
  BY <1>1, <1>2, <1>4 DEF Single, InReach, SinglePathEliminatesNothing

\* Whatever is lost, and although a failed recv repeats a frame: a port that copies of
\* a flow reach over one path only eliminates no frame of it that it has not passed.
THEOREM UnseenBehindMeetings == Spec => []SinglePathEliminatesNothing
<1>1. Init => Net /\ Single
  BY NetInit, SingleInit
<1>2. Net /\ Single /\ [Next]_vars => Net' /\ Single'
  BY NetStep, SingleStep
<1>3. Single => SinglePathEliminatesNothing
  BY DEF Single
<1>4. QED
  BY <1>1, <1>2, <1>3, PTL DEF Spec

-----------------------------------------------------------------------------
\* Each copy is new

NewCopies ==
    \A p \in Ports :
        /\ \A f \in Flows : Entered(f, p) \subseteq Entered(f, p)'
        /\ \A fr \in Frame : link'[p] = Append(link[p], fr) =>
              fr.seq \in Entered(fr.flow, p)' \ Entered(fr.flow, p)

\* A link that did not grow, or grew by a frame new to it, has new copies only.
LEMMA GrownByNew ==
    ASSUME Carried(link), NEW p \in Ports, NEW g \in Frame,
           \/ link'[p] = link[p]
           \/ Len(link'[p]) = Len(link[p]) - 1
           \/ link'[p] = Append(link[p], g) /\ g.seq \in Entered(g.flow, p)' \ Entered(g.flow, p)
    PROVE  \A fr \in Frame : link'[p] = Append(link[p], fr) =>
              fr.seq \in Entered(fr.flow, p)' \ Entered(fr.flow, p)
<1>1. link[p] \in Seq(Frame) /\ Len(link[p]) \in Nat
  BY LenProperties DEF Carried
<1>2. ASSUME NEW fr \in Frame, link'[p] = Append(link[p], fr)
      PROVE  fr.seq \in Entered(fr.flow, p)' \ Entered(fr.flow, p)
  <2>1. Len(link'[p]) = Len(link[p]) + 1
    BY <1>1, <1>2, AppendIsOne
  <2>2. link'[p] = Append(link[p], g) /\ g.seq \in Entered(g.flow, p)' \ Entered(g.flow, p)
    BY <1>1, <2>1
  <2>3. fr = g
    BY <1>1, <1>2, <2>2, AppendIsOne
  <2>4. QED
    BY <2>2, <2>3
<1>3. QED
  BY <1>2

\* Handling a frame puts new copies on the links, and none on the link it came from.
LEMMA HandleNew ==
    ASSUME NEW lnk, NEW buf, NEW fr, NEW p, AtHand(lnk, buf, fr, p), Handle(lnk, fr, p)
    PROVE  \A q \in Ports :
              /\ \A f \in Flows : Entered(f, q) \subseteq Entered(f, q)'
              /\ \/ link'[q] = lnk[q]
                 \/ /\ q # p /\ link'[q] = Append(lnk[q], fr)
                    /\ fr.seq \in Entered(fr.flow, q)' \ Entered(fr.flow, q)
<1>1. fr \in Frame /\ fr.flow \in Flows /\ p \in Ports /\ Lists
  BY DEF AtHand, Frame
<1>2. CASE Forwarded(lnk, fr, p)
  <2>1. ASSUME NEW q \in Passing(fr, p)
        PROVE  q \in Ports /\ q # p /\ fr.seq \notin Entered(fr.flow, q)
    BY <1>1, <1>2, OutboundPorts, EliminatesByNumbers DEF Passing, Entered, Forwarded
  <2>2. QED
    BY <1>1, <1>2, <2>1 DEF Forwarded
<1>3. QED
  BY <1>2, HandleCases

LEMMA NewStep == ASSUME Net, Next PROVE NewCopies
<1> USE DEF Net
<1>1. ASSUME NEW f \in Flows, Send(f) PROVE NewCopies
  <2>1. /\ Numbered(f) \in Frame /\ sent[f] \in Nat /\ Source[f] \in Ports
        /\ \A q \in Ports, g \in Flows :
              Entered(g, q)' = IF q = Source[f] /\ g = f
                               THEN Entered(g, q) \cup {sent[f] + 1} ELSE Entered(g, q)
    BY <1>1, SendLists, RelayAssumption
  <2>2. /\ Numbered(f).flow = f /\ Numbered(f).seq = sent[f] + 1
        /\ sent[f] + 1 \notin Entered(f, Source[f])
    BY <2>1 DEF Numbered, Entered
  <2>3. \A q \in Ports : link'[q] = IF q = Source[f] THEN Append(link[q], Numbered(f)) ELSE link[q]
    BY <1>1 DEF Send, Carried
  <2>4. QED
    BY <2>1, <2>2, <2>3, GrownByNew DEF NewCopies
<1>2. ASSUME NEW p \in Ports, Lose(p) PROVE NewCopies
  <2>1. PICK fr \in Frame :
           /\ \A q \in Ports : q # p => link'[q] = link[q]
           /\ Thinned(link'[p], link[p], fr)
           /\ UNCHANGED <<config, sent, recorder, recvbuf, delivered, repeated, unseen, recvFailed>>
    BY <1>2, Loses
  <2>2. \A q \in Ports, f \in Flows : Entered(f, q)' = Entered(f, q)
    BY <2>1, SameLists
  <2>3. \A q \in Ports : link'[q] = link[q] \/ Len(link'[q]) = Len(link[q]) - 1
    BY <2>1 DEF Thinned
  <2>4. QED
    BY <2>2, <2>3, GrownByNew DEF NewCopies
<1>3. ASSUME NEW p \in Ports, Receive(p) PROVE NewCopies
  <2>1. link[p] # <<>> /\ Handle(Rest(p), Head(link[p]), p)
    BY <1>3, ReceiveHandles
  <2>2. PICK fr \in Frame : fr = Head(link[p])
    BY <2>1, Takes
  <2>3. /\ AtHand(Rest(p), Buffers(p), fr, p) /\ Handle(Rest(p), fr, p)
        /\ \A q \in Ports : q # p => Rest(p)[q] = link[q]
        /\ Len(Rest(p)[p]) = Len(link[p]) - 1
    BY <2>1, <2>2, Takes DEF AtHand, Thinned
  <2>4. \A q \in Ports :
           /\ \A f \in Flows : Entered(f, q) \subseteq Entered(f, q)'
           /\ \/ link'[q] = link[q]
              \/ Len(link'[q]) = Len(link[q]) - 1
              \/ link'[q] = Append(link[q], fr) /\ fr.seq \in Entered(fr.flow, q)' \ Entered(fr.flow, q)
    BY <2>3, HandleNew
  <2>5. QED
    BY <2>4, GrownByNew DEF NewCopies
<1>4. ASSUME NEW n \in Nodes, RecvFails(n) PROVE NewCopies
  <2>1. PICK fr \in Frame, p \in Ports : AtHand(link, recvbuf, fr, p) /\ Handle(link, fr, p)
    BY <1>4, RecvFailsHandles DEF AtHand
  <2>2. \A q \in Ports :
           /\ \A f \in Flows : Entered(f, q) \subseteq Entered(f, q)'
           /\ \/ link'[q] = link[q]
              \/ link'[q] = Append(link[q], fr) /\ fr.seq \in Entered(fr.flow, q)' \ Entered(fr.flow, q)
    BY <2>1, HandleNew
  <2>3. QED
    BY <2>2, GrownByNew DEF NewCopies
<1>5. QED
  BY <1>1, <1>2, <1>3, <1>4 DEF Next

\* EachCopyIsNew: in every topology a frame takes each link once at most, so no frame
\* goes round a ring twice. With the finitely many links this is why traffic dies out.
THEOREM CopiesEnterOnce == Spec => EachCopyIsNew
<1>1. Net /\ [Next]_vars => [NewCopies]_vars
  BY NewStep
<1>2. EachCopyIsNew <=> [][NewCopies]_vars
  BY PTL DEF EachCopyIsNew, NewCopies
<1>3. QED
  BY <1>1, <1>2, NetAlways, PTL DEF Spec
=============================================================================
