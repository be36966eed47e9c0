------------------------ MODULE ControlPlane_proofs ------------------------
(***************************************************************************)
(* Theorems about ControlPlane, for any number of nodes, ports, failures,  *)
(* lines and lost commands, and however long the clock runs.               *)
(***************************************************************************)
EXTENDS ControlPlane, SequenceTheorems, TLAPS

-----------------------------------------------------------------------------
\* Types

Commands == [timed : BOOLEAN, start : Nat, stop : Nat]

\* What HandleInput needs: standard input is in a batch only if there is a line.
TypeInv == TypeOK /\ ("stdin" \in batch => stdin # <<>>)

LEMMA InitType == ControlInit => TypeInv
  <1> SUFFICES ASSUME ControlInit PROVE TypeInv
    OBVIOUS
  <1>1. \A n \in Nodes : <<>> \in Seq(DataPorts) /\ Len(<<>>) <= PortNum[n]
    BY LifecycleAssumption
  <1>2. QED
    BY <1>1, LifecycleAssumption, ControlAssumption
    DEF ControlInit, LifecycleInit, TypeInv, TypeOK, Consoles

LEMMA CreateType == TypeInv /\ Create => TypeInv'
  <1> SUFFICES ASSUME TypeInv, NEW n \in Nodes,
                      UNCHANGED <<tty, typed, configurator, link, node, clock>>,
                      \/ \E result \in DataPorts : CreateDataPort(n, result)
                      \/ \E result \in Consoles \ {"none"} : CreateConsole(n, result)
               PROVE  TypeInv'
    BY DEF Create, CreatePorts
  <1> USE DEF configurator, node, TypeInv
  <1>1. ASSUME NEW failed \in BOOLEAN, Counted(failed) PROVE faults' \in 0 .. MaxFaults
    BY <1>1, LifecycleAssumption DEF Counted, TypeOK
  <1>2. ASSUME NEW result \in DataPorts, CreateDataPort(n, result) PROVE TypeInv'
    <2>1. /\ ports' = [ports EXCEPT ![n] = Append(@, result)]
          /\ ports[n] \in Seq(DataPorts) /\ Len(ports[n]) < PortNum[n] /\ PortNum[n] \in Nat
      BY <1>2, LifecycleAssumption DEF CreateDataPort, AddPort, TypeOK
    <2>2. /\ Append(ports[n], result) \in Seq(DataPorts)
          /\ Len(Append(ports[n], result)) = Len(ports[n]) + 1 /\ Len(ports[n]) \in Nat
      BY <1>2, <2>1, AppendProperties, LenProperties
    <2>4. Len(Append(ports[n], result)) <= PortNum[n]
      BY <2>1, <2>2
    <2>5. ports \in [Nodes -> Seq(DataPorts)] /\ \A k \in Nodes : Len(ports[k]) <= PortNum[k]
      BY DEF TypeOK
    <2>6. ports' \in [Nodes -> Seq(DataPorts)] /\ \A k \in Nodes : Len(ports'[k]) <= PortNum[k]
      BY <2>1, <2>2, <2>4, <2>5
    <2>3. /\ proc' \in [Nodes -> {"starting", "up", "crashed", "exited"}]
          /\ console' = console /\ faults' \in 0 .. MaxFaults
      BY <1>1, <1>2 DEF CreateDataPort, AddPort, TypeOK
    <2>7. QED
      BY <2>3, <2>6 DEF TypeOK
  <1>3. ASSUME NEW result \in Consoles \ {"none"}, CreateConsole(n, result) PROVE TypeInv'
    <2>1. faults' \in 0 .. MaxFaults
      BY <1>1, <1>3 DEF CreateConsole
    <2>2. QED
      BY <1>3, <2>1 DEF CreateConsole, FirstRound, TypeOK
  <1>4. QED
    BY <1>2, <1>3

\* The loop takes a line that is there.
LEMMA GetLineType ==
    ASSUME TypeInv, "stdin" \in batch, NEW l \in Lines, GetLine(l)
    PROVE  stdin' \in Seq(Lines) /\ buffered' \in Seq(Lines)
  <1>1. stdin \in Seq(Lines) /\ stdin # <<>> /\ buffered \in Seq(Lines)
    BY DEF TypeInv, TypeOK
  <1>2. <<Head(stdin)>> \in Seq(Lines) /\ Tail(stdin) \in Seq(Lines)
    BY <1>1, HeadTailProperties
  <1>3. QED
    BY <1>1, <1>2, HeadTailProperties DEF GetLine

LEMMA InputType == TypeInv /\ HandleInput => TypeInv'
  <1> SUFFICES ASSUME TypeInv, HandleInput PROVE TypeInv'
    OBVIOUS
  <1> USE DEF node, lifecycle
  <1>1. PICK l \in Lines :
            /\ GetLine(l)
            /\ running' = (l.cmd # "noDelay")
            /\ IF l.cmd \in {"run", "noTime"}
               THEN /\ commands' = Append(commands, [timed |-> l.cmd = "run",
                        start |-> clock + l.delay, stop |-> clock + l.delay + l.run])
                    /\ Input(Len(commands) + 1)
               ELSE UNCHANGED <<commands, command, armed>>
    BY DEF HandleInput
  <1>2. stdin' \in Seq(Lines) /\ buffered' \in Seq(Lines)
    BY <1>1, GetLineType DEF HandleInput
  <1>3. commands' \in Seq(Commands) /\ Len(commands') >= Len(commands) /\ Len(commands) \in Nat
    <2>1. commands \in Seq(Commands) /\ clock \in Nat /\ l.delay \in Nat /\ l.run \in Nat
      BY ControlAssumption DEF TypeInv, TypeOK, Commands
    <2>2. [timed |-> l.cmd = "run", start |-> clock + l.delay,
           stop |-> clock + l.delay + l.run] \in Commands
      BY <2>1 DEF Commands
    <2>3. QED
      BY <1>1, <2>1, <2>2, AppendProperties, LenProperties
  <1>4. DOMAIN commands \subseteq DOMAIN commands' /\ DOMAIN commands' = 1 .. Len(commands')
    <2>1. commands \in Seq(Commands)
      BY DEF TypeInv, TypeOK, Commands
    <2>2. QED
      BY <1>3, <2>1, LenProperties
  <1>5. /\ command' \in [Nodes -> 0 .. Len(commands')] /\ armed' \in [Nodes -> BOOLEAN]
    <2>1. CASE l.cmd \in {"run", "noTime"}
      <3>1. Len(commands') = Len(commands) + 1 /\ Len(commands) \in Nat
        BY <1>1, <1>3, <2>1, AppendProperties DEF TypeInv, TypeOK
      <3>2. Input(Len(commands) + 1)
        BY <1>1, <2>1
      <3> DEFINE c == Len(commands) + 1
      <3>3. c \in 0 .. Len(commands')
        BY <3>1
      <3>4. command' = [n \in Nodes |-> c] /\ armed' = [n \in Nodes |-> TRUE]
        BY <3>2 DEF Input
      <3> HIDE DEF c
      <3>5. QED
        BY <3>3, <3>4
    <2>2. CASE l.cmd \notin {"run", "noTime"}
      BY <1>1, <2>2 DEF TypeInv, TypeOK
    <2>3. QED
      BY <2>1, <2>2
  <1>6. \A s \in Seq(DOMAIN commands) : s \in Seq(DOMAIN commands')
    BY <1>4, SeqMonotonic
  <1>7. QED
    BY <1>1, <1>2, <1>3, <1>4, <1>5, <1>6 DEF HandleInput, TypeInv, TypeOK, Commands

LEMMA OutputType ==
    ASSUME TypeInv, NEW n \in Nodes, HandleOutput(n)
    PROVE  TypeInv'
  <1> USE DEF node, lifecycle
  <1>1. armed' \in [Nodes -> BOOLEAN] /\ batch' \subseteq batch
    BY DEF HandleOutput, Output, TypeInv, TypeOK
  <1>2. /\ tried' \in [Nodes -> Seq(DOMAIN commands)] /\ link' \in [Nodes -> Seq(DOMAIN commands)]
        /\ lost' \in 0 .. MaxLost
    <2>1. CASE command[n] = 0
      BY <2>1 DEF HandleOutput, TypeInv, TypeOK
    <2>2. ASSUME command[n] # 0, NEW ok \in BOOLEAN, ok \/ lost < MaxLost, SendCommand(n, ok)
          PROVE  /\ tried' \in [Nodes -> Seq(DOMAIN commands)]
                 /\ link' \in [Nodes -> Seq(DOMAIN commands)]
                 /\ lost' \in 0 .. MaxLost
      <3> DEFINE D == DOMAIN commands
      <3>1. command[n] \in D
        <4>1. D = 1 .. Len(commands) /\ Len(commands) \in Nat
          BY LenProperties DEF TypeInv, TypeOK
        <4>2. QED
          BY <2>2, <4>1 DEF TypeInv, TypeOK
      <3>2. tried \in [Nodes -> Seq(D)] /\ link \in [Nodes -> Seq(D)]
        BY DEF TypeInv, TypeOK
      <3> HIDE DEF D
      <3>3. Append(tried[n], command[n]) \in Seq(D) /\ Append(link[n], command[n]) \in Seq(D)
        BY <3>1, <3>2, AppendProperties
      <3>4. tried' \in [Nodes -> Seq(D)] /\ link' \in [Nodes -> Seq(D)]
        BY <2>2, <3>2, <3>3 DEF SendCommand
      <3>5. lost' \in 0 .. MaxLost
        BY <2>2, ControlAssumption DEF SendCommand, TypeInv, TypeOK
      <3>6. QED
        BY <3>4, <3>5 DEF D
    <2>3. QED
      BY <2>1, <2>2 DEF HandleOutput
  <1>3. QED
    BY <1>1, <1>2 DEF HandleOutput, TypeInv, TypeOK

LEMMA NodeType ==
    ASSUME TypeInv, NEW n \in Nodes,
           \/ Receive(n) \/ ReceiveInVain(n) \/ StopTicker(n)
           \/ \E c \in waiting[n] : StartTicker(n, c)
    PROVE  TypeInv'
  <1> USE DEF node, lifecycle, configurator
  <1> DEFINE D == DOMAIN commands
  <1>0. /\ received \in [Nodes -> Seq(D)] /\ link \in [Nodes -> Seq(D)]
        /\ waiting \in [Nodes -> SUBSET D]
        /\ proc \in [Nodes -> {"starting", "up", "crashed", "exited"}]
        /\ heard \in [Nodes -> 0 .. MaxClock] /\ clock \in 0 .. MaxClock
    BY DEF TypeInv, TypeOK
  <1>1. UNCHANGED <<ports, console, faults, tty, typed, configurator, clock>>
    BY DEF Receive, ReceiveInVain, Deliver, StopTicker, StartTicker
  <1> HIDE DEF D
  <1>2. ASSUME Deliver(n)
        PROVE  /\ link[n] # <<>> /\ Head(link[n]) \in D
               /\ link' \in [Nodes -> Seq(D)]
    <2>1. link[n] # <<>> /\ link' = [link EXCEPT ![n] = Tail(@)]
      BY <1>2 DEF Deliver
    <2>2. Head(link[n]) \in D /\ Tail(link[n]) \in Seq(D)
      BY <1>0, <2>1, HeadTailProperties
    <2>3. QED
      BY <1>0, <2>1, <2>2
  <1>3. /\ received' \in [Nodes -> Seq(D)] /\ link' \in [Nodes -> Seq(D)]
        /\ waiting' \in [Nodes -> SUBSET D]
        /\ proc' \in [Nodes -> {"starting", "up", "crashed", "exited"}]
        /\ heard' \in [Nodes -> 0 .. MaxClock]
    <2>1. CASE Receive(n)
      <3>1. Deliver(n) /\ received' = [received EXCEPT ![n] = Append(@, Head(link[n]))]
        BY <2>1 DEF Receive
      <3>2. received' \in [Nodes -> Seq(D)]
        BY <1>0, <1>2, <3>1, AppendProperties
      <3>3. waiting' \in [Nodes -> SUBSET D]
        BY <1>0, <1>2, <2>1, <3>1 DEF Receive
      <3>4. QED
        BY <1>0, <1>2, <2>1, <3>1, <3>2, <3>3 DEF Receive
    <2>2. CASE ReceiveInVain(n)
      BY <1>0, <1>2, <2>2 DEF ReceiveInVain
    <2>3. CASE StopTicker(n)
      BY <1>0, <2>3 DEF StopTicker
    <2>4. ASSUME NEW c \in waiting[n], StartTicker(n, c) PROVE <1>3!:
      BY <1>0, <2>4 DEF StartTicker
    <2>5. QED
      BY <2>1, <2>2, <2>3, <2>4
  <1>4. QED
    BY <1>1, <1>3 DEF TypeInv, TypeOK, D

LEMMA TypeStep == TypeInv /\ [ControlNext]_controlVars => TypeInv'
  <1> SUFFICES ASSUME TypeInv, [ControlNext]_controlVars PROVE TypeInv'
    OBVIOUS
  <1> USE DEF node, lifecycle, configurator
  <1>1. ASSUME NEW l \in Lines, Type(l) PROVE TypeInv'
    <2>1. stdin' \in Seq(Lines) /\ stdin' # <<>>
      <3>1. stdin \in Seq(Lines) /\ stdin' = Append(stdin, l)
        BY <1>1 DEF Type, TypeInv, TypeOK
      <3> HIDE DEF node, lifecycle, configurator
      <3>2. QED
        BY <3>1, AppendProperties, Zenon
    <2>2. typed' \in 0 .. MaxLines
      BY <1>1, ControlAssumption DEF Type, TypeInv, TypeOK
    <2>3. QED
      BY <1>1, <2>1, <2>2 DEF Type, TypeInv, TypeOK
  <1>2. CASE Wait
    BY <1>2, ControlAssumption DEF Wait, TypeInv, TypeOK
  <1>3. CASE Second
    <2>1. clock' \in 0 .. MaxClock
      BY <1>3, ControlAssumption DEF Second, TypeInv, TypeOK
    <2>2. QED
      BY <1>3, <2>1 DEF Second, TypeInv, TypeOK
  <1>4. CASE UNCHANGED controlVars
    BY <1>4 DEF controlVars, TypeInv, TypeOK
  <1>5. QED
    BY <1>1, <1>2, <1>3, <1>4, CreateType, InputType, OutputType, NodeType
    DEF ControlNext, Loop, NodeStep

\* Type correctness: the console never takes a command that was not made, a line is
\* taken from standard input only when there is one, and no node has too many ports.
THEOREM ControlTypeCorrect == ControlSpec => []TypeOK
  <1>1. TypeInv => TypeOK
    BY DEF TypeInv
  <1>2. QED
    BY <1>1, InitType, TypeStep, PTL DEF ControlSpec

-----------------------------------------------------------------------------
\* Commands

\* What a controller port holds is always the newest command, and a port that has
\* nothing to send has given it to sendto.
NewestInv ==
    \A n \in Nodes :
        /\ command[n] = Len(commands)
        /\ ~armed[n] /\ commands # <<>> => tried[n] # <<>> /\ Last(tried[n]) = Len(commands)

LEMMA NewestStep == TypeInv /\ NewestInv /\ [ControlNext]_controlVars => NewestInv'
  <1> SUFFICES ASSUME TypeInv, NewestInv, [ControlNext]_controlVars PROVE NewestInv'
    OBVIOUS
  <1> USE DEF node, lifecycle, configurator
  <1>1. CASE HandleInput
    <2>1. CASE UNCHANGED <<commands, command, armed>>
      BY <1>1, <2>1 DEF HandleInput, NewestInv
    <2>2. ASSUME NEW r, commands' = Append(commands, r), Input(Len(commands) + 1)
          PROVE  NewestInv'
      <3>1. Len(commands') = Len(commands) + 1
        BY <2>2 DEF TypeInv, TypeOK
      <3>2. QED
        BY <2>2, <3>1 DEF Input, NewestInv
    <2>3. QED
      BY <1>1, <2>1, <2>2 DEF HandleInput
  <1>2. ASSUME NEW n \in Nodes, HandleOutput(n) PROVE NewestInv'
    <2>1. /\ commands' = commands /\ command' = command /\ armed' = [armed EXCEPT ![n] = FALSE]
      BY <1>2 DEF HandleOutput, Output
    <2>2. CASE command[n] = 0
      <3>1. commands = <<>> /\ tried' = tried
        <4>1. Len(commands) = 0
          BY <2>2 DEF NewestInv
        <4>2. QED
          BY <1>2, <2>2, <4>1, EmptySeq DEF HandleOutput, TypeInv, TypeOK
      <3>2. QED
        BY <2>1, <3>1 DEF NewestInv
    <2>3. CASE command[n] # 0
      <3> DEFINE D == DOMAIN commands
                 q == tried[n]
                 c == command[n]
      <3>1. tried' = [tried EXCEPT ![n] = Append(q, c)]
        BY <1>2, <2>3 DEF HandleOutput, SendCommand
      <3>2. q \in Seq(D) /\ c \in D /\ tried \in [Nodes -> Seq(D)]
        <4>1. D = 1 .. Len(commands) /\ Len(commands) \in Nat
          BY LenProperties DEF TypeInv, TypeOK
        <4>2. QED
          BY <2>3, <4>1 DEF TypeInv, TypeOK
      <3>3. c = Len(commands)
        BY DEF NewestInv
      <3> HIDE DEF D, q, c
      <3>4. Append(q, c) # <<>> /\ Last(Append(q, c)) = c
        BY <3>2, AppendProperties DEF Last
      <3>5. tried'[n] = Append(q, c) /\ \A k \in Nodes \ {n} : tried'[k] = tried[k]
        BY <3>1, <3>2
      <3>6. \A k \in Nodes \ {n} : armed'[k] = armed[k]
        BY <2>1 DEF TypeInv, TypeOK
      <3>7. QED
        BY <2>1, <3>3, <3>4, <3>5, <3>6 DEF NewestInv
    <2>4. QED
      BY <2>2, <2>3
  <1>3. ASSUME UNCHANGED <<commands, command, armed, tried>> PROVE NewestInv'
    BY <1>3 DEF NewestInv
  <1>4. QED
    BY <1>1, <1>2, <1>3
    DEF ControlNext, Loop, NodeStep, Create, Type, Wait, Receive, ReceiveInVain, Deliver,
        StopTicker, StartTicker, Second, controlVars

\* Although a command overwrites one that was not sent, and output clears the
\* interest set before it looks at the command (TSNContorller.cc), the newest
\* command was given to sendto for every node once the loop has nothing left to do.
THEOREM NewestIsSent == ControlSpec => []NewestReachesAll
  <1>1. ControlInit => NewestInv
    BY DEF ControlInit, NewestInv
  <1>2. NewestInv => NewestReachesAll
    BY DEF NewestInv, NewestReachesAll
  <1>3. QED
    BY <1>1, <1>2, InitType, TypeStep, NewestStep, PTL DEF ControlSpec

\* received, on the way, in the port, and whether the port will still send that.
Follows(r, l, c, toSend) ==
    /\ \A i, j \in DOMAIN r : i < j => r[i] < r[j]
    /\ \A i, j \in DOMAIN l : i < j => l[i] < l[j]
    /\ \A i \in DOMAIN r, j \in DOMAIN l : r[i] < l[j]
    /\ \A i \in DOMAIN r : IF toSend THEN r[i] < c ELSE r[i] <= c
    /\ \A j \in DOMAIN l : IF toSend THEN l[j] < c ELSE l[j] <= c

LEMMA Delivered ==
    ASSUME NEW r \in Seq(Nat), NEW l \in Seq(Nat), NEW c \in Nat, NEW toSend \in BOOLEAN,
           Follows(r, l, c, toSend), l # <<>>
    PROVE  /\ Follows(r, Tail(l), c, toSend)
           /\ Follows(Append(r, Head(l)), Tail(l), c, toSend)
  <1> DEFINE h == Head(l)
             t == Tail(l)
             q == Append(r, h)
             m == Len(l)
             n == Len(r)
  <1>1. /\ m \in Nat /\ n \in Nat /\ m > 0 /\ h \in Nat /\ t \in Seq(Nat) /\ q \in Seq(Nat)
        /\ DOMAIN r = 1 .. n /\ DOMAIN l = 1 .. m
        /\ DOMAIN t = 1 .. m - 1 /\ DOMAIN q = 1 .. n + 1
    BY HeadTailProperties, AppendProperties, LenProperties, EmptySeq
  <1>2. h = l[1] /\ \A j \in 1 .. m - 1 : t[j] = l[j + 1]
    BY <1>1, HeadTailProperties
  <1>3. q[n + 1] = h /\ \A i \in 1 .. n : q[i] = r[i]
    BY <1>1, AppendProperties
  <1> HIDE DEF h, t, q, m, n
  <1>4. \A i \in 1 .. n : r[i] \in Nat
    BY <1>1
  <1>5. \A i, j \in 1 .. m - 1 : i < j => t[i] < t[j]
    <2> SUFFICES ASSUME NEW i \in 1 .. m - 1, NEW j \in 1 .. m - 1, i < j PROVE t[i] < t[j]
      OBVIOUS
    <2>1. i + 1 \in 1 .. m /\ j + 1 \in 1 .. m /\ i + 1 < j + 1
      BY <1>1
    <2>2. l[i + 1] < l[j + 1]
      BY <1>1, <2>1 DEF Follows
    <2>3. QED
      BY <1>2, <2>2
  <1>6. /\ \A j \in 1 .. m - 1 : h < t[j]
        /\ \A i \in 1 .. n, j \in 1 .. m - 1 : r[i] < t[j]
        /\ \A i \in 1 .. n : r[i] < h
        /\ \A j \in 1 .. m - 1 : IF toSend THEN t[j] < c ELSE t[j] <= c
        /\ IF toSend THEN h < c ELSE h <= c
    <2>1. 1 \in 1 .. m /\ \A j \in 1 .. m - 1 : j + 1 \in 1 .. m /\ 1 < j + 1
      BY <1>1
    <2>2. QED
      BY <1>1, <1>2, <2>1 DEF Follows
  <1>7. Follows(r, t, c, toSend)
    BY <1>1, <1>5, <1>6 DEF Follows
  <1>8. \A i, j \in 1 .. n + 1 : i < j => q[i] < q[j]
    <2> SUFFICES ASSUME NEW i \in 1 .. n + 1, NEW j \in 1 .. n + 1, i < j PROVE q[i] < q[j]
      OBVIOUS
    <2>1. i \in 1 .. n /\ (j \in 1 .. n \/ j = n + 1)
      BY <1>1
    <2>2. QED
      BY <1>1, <1>3, <1>6, <2>1 DEF Follows
  <1>9. /\ \A i \in 1 .. n + 1, j \in 1 .. m - 1 : q[i] < t[j]
        /\ \A i \in 1 .. n + 1 : IF toSend THEN q[i] < c ELSE q[i] <= c
    <2>1. \A i \in 1 .. n + 1 : i \in 1 .. n \/ i = n + 1
      BY <1>1
    <2>2. QED
      BY <1>1, <1>3, <1>6, <2>1 DEF Follows
  <1>10. Follows(q, t, c, toSend)
    BY <1>1, <1>5, <1>6, <1>8, <1>9 DEF Follows
  <1>11. QED
    BY <1>7, <1>10 DEF q, t, h

LEMMA Sent ==
    ASSUME NEW r \in Seq(Nat), NEW l \in Seq(Nat), NEW c \in Nat, Follows(r, l, c, TRUE)
    PROVE  Follows(r, l, c, FALSE) /\ Follows(r, Append(l, c), c, FALSE)
  <1> DEFINE q == Append(l, c)
             m == Len(l)
             n == Len(r)
  <1>1. /\ m \in Nat /\ n \in Nat /\ q \in Seq(Nat)
        /\ DOMAIN r = 1 .. n /\ DOMAIN l = 1 .. m /\ DOMAIN q = 1 .. m + 1
        /\ q[m + 1] = c /\ \A j \in 1 .. m : q[j] = l[j]
    BY AppendProperties, LenProperties
  <1>2. (\A i \in 1 .. n : r[i] \in Nat) /\ (\A j \in 1 .. m : l[j] \in Nat)
    BY <1>1
  <1> HIDE DEF q, m, n
  <1>3. \A j \in 1 .. m + 1 : j \in 1 .. m \/ j = m + 1
    BY <1>1
  <1>4. \A i, j \in 1 .. m + 1 : i < j => q[i] < q[j]
    <2> SUFFICES ASSUME NEW i \in 1 .. m + 1, NEW j \in 1 .. m + 1, i < j PROVE q[i] < q[j]
      OBVIOUS
    <2>1. i \in 1 .. m
      BY <1>1
    <2>2. QED
      BY <1>1, <1>3, <2>1 DEF Follows
  <1>5. /\ \A i \in 1 .. n, j \in 1 .. m + 1 : r[i] < q[j]
        /\ \A i \in 1 .. n : r[i] <= c
        /\ \A j \in 1 .. m : l[j] <= c
        /\ \A j \in 1 .. m + 1 : q[j] <= c
    <2>1. /\ \A i \in 1 .. n : r[i] < c
          /\ \A j \in 1 .. m : l[j] < c
          /\ \A i \in 1 .. n, j \in 1 .. m : r[i] < l[j]
      BY <1>1 DEF Follows
    <2>2. \A j \in 1 .. m : q[j] = l[j]
      BY <1>1
    <2>3. \A i \in 1 .. n, j \in 1 .. m + 1 : r[i] < q[j]
      BY <1>1, <1>3, <2>1, <2>2
    <2>4. (\A i \in 1 .. n : r[i] <= c) /\ (\A j \in 1 .. m : l[j] <= c)
      BY <1>2, <2>1
    <2>5. \A j \in 1 .. m + 1 : q[j] <= c
      BY <1>1, <1>3, <2>2, <2>4
    <2>6. QED
      BY <2>3, <2>4, <2>5
  <1>6. QED
    BY <1>1, <1>4, <1>5 DEF Follows, q

\* The strengthening of ObeysInOrder: what is on the way comes after what was
\* received, what the port holds is no older than either, and newer when it is still
\* to be sent; a port in a batch is still to send.
OrderInv ==
    \A n \in Nodes :
        /\ n \in batch => armed[n]
        /\ Follows(received[n], link[n], command[n], armed[n])

\* The commands as numbers.
LEMMA Numbers ==
    ASSUME TypeInv
    PROVE  /\ DOMAIN commands = 1 .. Len(commands) /\ Len(commands) \in Nat
           /\ \A n \in Nodes : /\ received[n] \in Seq(Nat) /\ link[n] \in Seq(Nat)
                               /\ command[n] \in 0 .. Len(commands) /\ armed[n] \in BOOLEAN
  <1>1. DOMAIN commands = 1 .. Len(commands) /\ Len(commands) \in Nat
    BY LenProperties DEF TypeInv, TypeOK
  <1>2. DOMAIN commands \subseteq Nat
    BY <1>1
  <1>3. \A n \in Nodes : received[n] \in Seq(DOMAIN commands) /\ link[n] \in Seq(DOMAIN commands)
    BY DEF TypeInv, TypeOK
  <1>4. \A n \in Nodes : received[n] \in Seq(Nat) /\ link[n] \in Seq(Nat)
    BY <1>2, <1>3, SeqMonotonic
  <1>5. QED
    BY <1>1, <1>4 DEF TypeInv, TypeOK

LEMMA OrderStep == TypeInv /\ OrderInv /\ [ControlNext]_controlVars => OrderInv'
  <1> SUFFICES ASSUME TypeInv, OrderInv, [ControlNext]_controlVars PROVE OrderInv'
    OBVIOUS
  <1> USE DEF node, lifecycle, configurator
  <1>1. CASE HandleInput
    <2>1. /\ batch' \subseteq batch /\ received' = received /\ link' = link
      BY <1>1 DEF HandleInput
    <2>2. CASE UNCHANGED <<commands, command, armed>>
      BY <2>1, <2>2 DEF OrderInv
    <2>3. CASE Input(Len(commands) + 1)
      <3>1. ASSUME NEW n \in Nodes PROVE Follows(received[n], link[n], Len(commands) + 1, TRUE)
        <4> DEFINE r == received[n]
                   l == link[n]
                   c == command[n]
                   d == Len(commands) + 1
                   a == armed[n]
        <4>1. /\ c \in Nat /\ d \in Nat /\ c < d /\ a \in BOOLEAN
              /\ r \in Seq(Nat) /\ l \in Seq(Nat) /\ Follows(r, l, c, a)
          BY Numbers DEF OrderInv
        <4> HIDE DEF r, l, c, d, a
        <4>2. (\A i \in DOMAIN r : r[i] \in Nat) /\ (\A j \in DOMAIN l : l[j] \in Nat)
          BY <4>1
        <4>3. (\A i \in DOMAIN r : r[i] < d) /\ (\A j \in DOMAIN l : l[j] < d)
          BY <4>1, <4>2 DEF Follows
        <4>4. Follows(r, l, d, TRUE)
          BY <4>1, <4>3 DEF Follows
        <4>5. QED
          BY <4>4 DEF r, l, d
      <3>2. \A n \in Nodes : command'[n] = Len(commands) + 1 /\ armed'[n] = TRUE
        BY <2>3 DEF Input
      <3>3. QED
        BY <2>1, <3>1, <3>2 DEF OrderInv
    <2>4. QED
      BY <1>1, <2>2, <2>3 DEF HandleInput
  <1>2. ASSUME NEW n \in Nodes, HandleOutput(n) PROVE OrderInv'
    <2>1. /\ command' = command /\ armed' = [armed EXCEPT ![n] = FALSE]
          /\ received' = received /\ batch' = batch \ {n} /\ n \in batch
          /\ link' = link \/ link' = [link EXCEPT ![n] = Append(@, command[n])]
          /\ armed \in [Nodes -> BOOLEAN] /\ link \in [Nodes -> Seq(DOMAIN commands)]
      BY <1>2 DEF HandleOutput, Output, SendCommand, TypeInv, TypeOK
    <2>2. Follows(received[n], link[n], command[n], TRUE)
      BY <2>1 DEF OrderInv, TypeInv, TypeOK
    <2>3. /\ Follows(received[n], link[n], command[n], FALSE)
          /\ Follows(received[n], Append(link[n], command[n]), command[n], FALSE)
      <3>1. command[n] \in Nat
        BY Numbers
      <3>2. QED
        BY <2>2, <3>1, Numbers, Sent
    <2>4. Follows(received[n], link'[n], command[n], FALSE)
      BY <2>1, <2>3
    <2>5. armed'[n] = FALSE /\ \A k \in Nodes \ {n} : armed'[k] = armed[k] /\ link'[k] = link[k]
      BY <2>1
    <2>6. QED
      BY <2>1, <2>4, <2>5 DEF OrderInv
  <1>3. ASSUME NEW n \in Nodes, Receive(n) \/ ReceiveInVain(n) PROVE OrderInv'
    <2>1. /\ UNCHANGED <<command, armed, batch>> /\ link[n] # <<>>
          /\ link' = [link EXCEPT ![n] = Tail(@)]
          /\ received' = received \/ received' = [received EXCEPT ![n] = Append(@, Head(link[n]))]
          /\ received \in [Nodes -> Seq(DOMAIN commands)]
          /\ link \in [Nodes -> Seq(DOMAIN commands)]
      BY <1>3 DEF Receive, ReceiveInVain, Deliver, TypeInv, TypeOK
    <2>2. /\ Follows(received[n], Tail(link[n]), command[n], armed[n])
          /\ Follows(Append(received[n], Head(link[n])), Tail(link[n]), command[n], armed[n])
      <3>1. Follows(received[n], link[n], command[n], armed[n]) /\ command[n] \in Nat
        BY Numbers DEF OrderInv
      <3>2. QED
        BY <2>1, <3>1, Numbers, Delivered
    <2>3. /\ link'[n] = Tail(link[n])
          /\ received'[n] = received[n] \/ received'[n] = Append(received[n], Head(link[n]))
          /\ \A k \in Nodes \ {n} : received'[k] = received[k] /\ link'[k] = link[k]
      BY <2>1
    <2>4. QED
      BY <2>1, <2>2, <2>3 DEF OrderInv
  <1>4. ASSUME UNCHANGED <<command, armed, link, received>>,
               \A n \in Nodes : n \in batch' => n \in batch \/ armed[n]
        PROVE  OrderInv'
    BY <1>4 DEF OrderInv
  <1>5. Wait => \A n \in Nodes : n \in batch' => armed[n]
    BY ControlAssumption DEF Wait
  <1>6. QED
    BY <1>1, <1>2, <1>3, <1>4, <1>5
    DEF ControlNext, Loop, NodeStep, Create, Type, Wait, StopTicker, StartTicker,
        Second, controlVars

LEMMA OrderStart == ControlInit => OrderInv
  <1>1. \A c, a : Follows(<<>>, <<>>, c, a)
    BY DEF Follows
  <1>2. QED
    BY <1>1 DEF ControlInit, OrderInv

\* Although a command stays in the port after it was sent, and an EPOLLOUT of before
\* may still be served after it was replaced, no node gets a command twice or after
\* a newer one.
THEOREM ObeyedInOrder == ControlSpec => []ObeysInOrder
  <1>1. ControlInit => OrderInv
    BY OrderStart
  <1>2. OrderInv => ObeysInOrder
    BY DEF OrderInv, Follows, ObeysInOrder
  <1>3. QED
    BY <1>1, <1>2, InitType, TypeStep, OrderStep, PTL DEF ControlSpec

-----------------------------------------------------------------------------
\* Turns of the loop

\* getline takes one line off those that wait, wherever they do.
LEMMA OneLineLess ==
    ASSUME TypeInv, "stdin" \in batch, NEW l \in Lines, GetLine(l)
    PROVE  Len(stdin') + Len(buffered') < Len(stdin) + Len(buffered)
  <1>1. stdin \in Seq(Lines) /\ stdin # <<>> /\ buffered \in Seq(Lines)
    BY DEF TypeInv, TypeOK
  <1>2. \A s \in Seq(Lines) : s # <<>> => Len(Tail(s)) = Len(s) - 1 /\ Len(s) \in Nat \ {0}
    BY HeadTailProperties, EmptySeq, LenProperties
  <1>3. CASE buffered # <<>>
    BY <1>1, <1>2, <1>3 DEF GetLine
  <1>4. CASE buffered = <<>> /\ tty
    <2>1. stdin' = Tail(stdin) /\ buffered' = Tail(<<Head(stdin)>>)
      BY <1>4 DEF GetLine
    <2>2. Len(Tail(<<Head(stdin)>>)) = 0
      BY <1>1, HeadTailProperties
    <2>3. QED
      BY <1>1, <1>2, <1>4, <2>1, <2>2
  <1>5. CASE buffered = <<>> /\ ~tty
    BY <1>1, <1>2, <1>5 DEF GetLine
  <1>6. QED
    BY <1>3, <1>4, <1>5

LEMMA LoopStep == TypeInv /\ OrderInv /\ Loop => LessToDo
  <1> SUFFICES ASSUME TypeInv, OrderInv, Loop PROVE LessToDo
    OBVIOUS
  <1> USE DEF LessToDo
  <1>1. CASE Wait
    BY <1>1 DEF Wait
  <1>2. CASE HandleInput
    BY <1>2, OneLineLess DEF HandleInput
  <1>3. ASSUME NEW n \in Nodes, HandleOutput(n) PROVE LessToDo
    <2>1. /\ armed[n] /\ armed' = [armed EXCEPT ![n] = FALSE]
          /\ UNCHANGED <<stdin, buffered>> /\ armed \in [Nodes -> BOOLEAN]
      BY <1>3 DEF HandleOutput, Output, OrderInv, TypeInv, TypeOK
    <2>2. /\ {k \in Nodes : armed'[k]} \subseteq {k \in Nodes : armed[k]}
          /\ n \in {k \in Nodes : armed[k]} /\ n \notin {k \in Nodes : armed'[k]}
      BY <2>1
    <2>3. QED
      BY <2>1, <2>2
  <1>4. QED
    BY <1>1, <1>2, <1>3 DEF Loop

\* The configurator never turns without an effect: output clears the interest set also
\* when there is no command (TSNContorller.cc:92-94), a stale event of a batch is one
\* of a port that is still to be served, and a line that is reported is there. With
\* finitely many lines and nodes the loop therefore comes to rest.
THEOREM TurnsComeToEnd == ControlSpec => EachTurnCounts
  <1>1. ControlInit => OrderInv
    BY OrderStart
  <1>2. TypeInv /\ OrderInv /\ [ControlNext]_controlVars => [Loop => LessToDo]_controlVars
    BY LoopStep
  <1>3. QED
    BY <1>1, <1>2, InitType, TypeStep, OrderStep, PTL DEF ControlSpec, EachTurnCounts

-----------------------------------------------------------------------------
\* Stops

\* A node whose console is not bound has received nothing.
StopInv == EndsAtFirstStop /\ \A n \in Nodes : proc[n] = "starting" => received[n] = <<>>

\* A second passes: no command that was received stops its node before it.
LEMMA SecondStop == TypeInv /\ StopInv /\ Second => StopInv'
  <1> SUFFICES ASSUME TypeInv, StopInv, Second PROVE StopInv'
    OBVIOUS
  <1>1. /\ clock \in Nat /\ clock' = clock + 1
        /\ UNCHANGED <<proc, received, commands, heard>>
    BY ControlAssumption DEF Second, lifecycle, configurator, node, TypeInv, TypeOK
  <1>2. ASSUME NEW n \in Nodes, NEW c \in ToSet(received[n])
        PROVE  commands[c].stop \in Nat
    <2>1. c \in DOMAIN commands
      <3>1. received[n] \in Seq(DOMAIN commands) /\ ToSet(received[n]) = {received[n][i] : i \in DOMAIN received[n]}
        BY DEF TypeInv, TypeOK, ToSet
      <3>2. QED
        BY <1>2, <3>1, LenProperties, ElementOfSeq
    <2>2. commands \in Seq(Commands)
      BY DEF TypeInv, TypeOK, Commands
    <2>3. commands[c] \in Commands
      BY <2>1, <2>2, LenProperties, ElementOfSeq
    <2>4. QED
      BY <2>3 DEF Commands
  <1>3. ASSUME NEW n \in Nodes, proc[n] = "up", NEW c \in ToSet(received[n])
        PROVE  clock' <= commands[c].stop
    <2>1. ~(commands[c].stop <= clock)
      BY <1>3 DEF Second, StopDue
    <2>2. QED
      BY <1>1, <1>2, <1>3, <2>1
  <1>4. ASSUME NEW n \in Nodes, proc[n] = "exited"
        PROVE  \E c \in ToSet(received[n]) : commands[c].stop <= clock'
    <2>1. PICK c \in ToSet(received[n]) : commands[c].stop <= clock
      BY <1>4 DEF StopInv, EndsAtFirstStop
    <2>2. commands[c].stop <= clock'
      BY <1>1, <1>2, <2>1
    <2>3. QED
      BY <2>1, <2>2
  <1>5. QED
    BY <1>1, <1>3, <1>4 DEF StopInv, EndsAtFirstStop

LEMMA StopStep == TypeInv /\ StopInv /\ [ControlNext]_controlVars => StopInv'
  <1> SUFFICES ASSUME TypeInv, StopInv, [ControlNext]_controlVars PROVE StopInv'
    OBVIOUS
  <1> USE DEF node, lifecycle, configurator
  <1>0. /\ proc \in [Nodes -> {"starting", "up", "crashed", "exited"}]
        /\ received \in [Nodes -> Seq(DOMAIN commands)]
        /\ heard \in [Nodes -> 0 .. MaxClock]
        /\ commands \in Seq(Commands)
    BY DEF TypeInv, TypeOK, Commands
  <1>1. CASE HandleInput
    <2>1. UNCHANGED <<proc, received, heard, clock>>
      BY <1>1 DEF HandleInput
    <2>2. ASSUME NEW n \in Nodes, NEW c \in ToSet(received[n]) PROVE commands'[c] = commands[c]
      <3>1. c \in DOMAIN commands
        BY <1>0, <2>2, LenProperties, ElementOfSeq DEF ToSet
      <3>2. c \in 1 .. Len(commands)
        BY <1>0, <3>1, LenProperties
      <3>3. \A r : commands' = Append(commands, r) => commands'[c] = commands[c]
        BY <1>0, <3>2
      <3>4. QED
        BY <1>1, <3>3 DEF HandleInput
    <2>3. QED
      BY <2>1, <2>2 DEF StopInv, EndsAtFirstStop
  <1>2. ASSUME NEW n \in Nodes, Receive(n) PROVE StopInv'
    <2> DEFINE c == Head(link[n])
    <2>1. /\ proc[n] = "up" /\ UNCHANGED <<proc, commands, clock>> /\ link[n] # <<>>
          /\ received' = [received EXCEPT ![n] = Append(@, c)]
          /\ heard' = [heard EXCEPT ![n] = clock]
      BY <1>2 DEF Receive, Deliver, Hears
    <2>2. c \in DOMAIN commands
      BY <2>1, HeadTailProperties DEF TypeInv, TypeOK
    <2> HIDE DEF c
    <2>3. /\ received'[n] = Append(received[n], c) /\ heard'[n] = clock
          /\ \A k \in Nodes \ {n} : received'[k] = received[k] /\ heard'[k] = heard[k]
      BY <1>0, <2>1
    <2>4. QED
      BY <2>1, <2>3 DEF StopInv, EndsAtFirstStop
  <1>3. ASSUME NEW n \in Nodes, StopTicker(n) PROVE StopInv'
    <2>1. /\ proc' = [proc EXCEPT ![n] = "exited"]
          /\ \E c \in ToSet(received[n]) : commands[c].stop <= clock
          /\ UNCHANGED <<received, commands, clock, heard>>
      BY <1>3 DEF StopTicker, StopDue
    <2>2. QED
      BY <1>0, <2>1 DEF StopInv, EndsAtFirstStop
  <1>4. CASE Create
    <2>1. PICK n \in Nodes :
              \/ \E result \in DataPorts : CreateDataPort(n, result)
              \/ \E result \in Consoles \ {"none"} : CreateConsole(n, result)
      BY <1>4 DEF Create, CreatePorts
    <2>2. /\ proc[n] = "starting" /\ proc'[n] \in {"starting", "up", "crashed"}
          /\ \A k \in Nodes \ {n} : proc'[k] = proc[k]
          /\ UNCHANGED <<received, commands, clock, heard>>
      BY <1>0, <1>4, <2>1 DEF Create, CreateDataPort, AddPort, CreateConsole, FirstRound
    <2>3. received[n] = <<>> /\ ToSet(received[n]) = {}
      BY <2>2 DEF StopInv, ToSet
    <2>4. QED
      BY <2>2, <2>3 DEF StopInv, EndsAtFirstStop
  <1>5. ASSUME UNCHANGED <<received, commands, clock, heard>>,
               \/ proc' = proc
               \/ \E n \in Nodes : proc' = [proc EXCEPT ![n] = "crashed"]
        PROVE  StopInv'
    <2>1. \A k \in Nodes : proc'[k] = proc[k] \/ proc'[k] = "crashed"
      BY <1>0, <1>5
    <2>2. QED
      BY <1>5, <2>1 DEF StopInv, EndsAtFirstStop
  <1>6. QED
    BY <1>1, <1>2, <1>3, <1>4, <1>5, SecondStop
    DEF ControlNext, Loop, NodeStep, Type, Wait, HandleOutput, ReceiveInVain, Deliver,
        StartTicker, controlVars

\* A node that was given several commands exits in the second of the first stop among
\* them, or in that in which it hears of a stop that has passed, and never before.
THEOREM EndsInTime == ControlSpec => []EndsAtFirstStop
  <1>1. ControlInit => StopInv
    BY DEF ControlInit, LifecycleInit, StopInv, EndsAtFirstStop, ToSet
  <1>2. StopInv => EndsAtFirstStop
    BY DEF StopInv
  <1>3. QED
    BY <1>1, <1>2, InitType, TypeStep, StopStep, PTL DEF ControlSpec
=============================================================================
