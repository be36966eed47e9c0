-------------------------- MODULE RecoveryFunction --------------------------
(***************************************************************************)
(* BaseRecoveryFunction: elimination of replicated frames at a port.  For  *)
(* every flow it keeps an ordered list of intervals of sequence numbers    *)
(* already passed; checkRepetitive walks the list, updates it and says     *)
(* whether the frame is to be eliminated (FrameRecorder).                  *)
(*                                                                         *)
(* Around it, the environment it exists for: a talker that numbers its     *)
(* frames (FlowApp::output, a counter truncated to uint16) and may restart *)
(* while the ports remember what passed, and member paths that each        *)
(* deliver a copy in order, late, or not at all.                           *)
(***************************************************************************)
EXTENDS FrameRecorder, FiniteSets

CONSTANTS
    Flows,      \* flow identifiers (EnhancementTSNFrameBody::m_flowID)
    Paths,      \* member paths over which a frame reaches the port
    SeqSpace,   \* size of the sequence number space: 2^16 in the code
    MaxFrames,  \* bound: frames a talker sends per flow
    MaxRestarts \* bound: restarts of a talker, per flow

Seqs == 0 .. SeqSpace - 1
Interval == [lower : Seqs, upper : Seqs]

ASSUME RecoveryAssumption ==
    /\ SeqSpace \in Nat \ {0}
    /\ MaxFrames \in Nat /\ MaxRestarts \in Nat

VARIABLES
    recorder,   \* m_flowSeqMap: flow -> list of intervals; empty when the flow is unknown
    counter,    \* flow -> Flow::seq of the talker
    sent,       \* history: flow -> the counter in every frame sent; frame n is the n-th
    restarts,   \* bound: flow -> restarts of its talker
    inTransit,  \* <<flow, path>> -> the frames whose copies are under way, in order
    passed,     \* history: flow -> the frames passed, in order
    eliminated  \* history: flow -> the frames eliminated

vars == <<recorder, counter, sent, restarts, inTransit, passed, eliminated>>
talker == <<counter, sent, restarts>>

\* Mutant of Wire: the counter is not truncated.
WireUntruncated(f, n) == sent[f][n]

\* The number frame n carries on the wire: Flow::seq through setSeq(uint16_t).
Wire(f, n) == sent[f][n] % SeqSpace

-----------------------------------------------------------------------------
Init ==
    /\ recorder = [f \in Flows |-> <<>>]
    /\ counter = [f \in Flows |-> 0]
    /\ sent = [f \in Flows |-> <<>>]
    /\ restarts = [f \in Flows |-> 0]
    /\ inTransit = [m \in Flows \X Paths |-> <<>>]
    /\ passed = [f \in Flows |-> <<>>]
    /\ eliminated = [f \in Flows |-> {}]

\* FlowApp::output numbers a frame from 1 on; the network replicates it.
Send(f) ==
    /\ Len(sent[f]) < MaxFrames
    /\ counter' = [counter EXCEPT ![f] = @ + 1]
    /\ sent' = [sent EXCEPT ![f] = Append(@, counter[f] + 1)]
    /\ inTransit' = [m \in Flows \X Paths |->
          IF m[1] = f THEN Append(inTransit[m], Len(sent[f]) + 1) ELSE inTransit[m]]
    /\ UNCHANGED <<recorder, restarts, passed, eliminated>>

\* The talker's process ends and is started again: its flows count from 1 again.
Restart(f) ==
    /\ counter[f] > 0 /\ restarts[f] < MaxRestarts
    /\ counter' = [counter EXCEPT ![f] = 0]
    /\ restarts' = [restarts EXCEPT ![f] = @ + 1]
    /\ UNCHANGED <<recorder, sent, inTransit, passed, eliminated>>

\* A copy is lost on its path, or discarded on reception.
Lose(f, p) ==
    /\ inTransit[<<f, p>>] # <<>>
    /\ inTransit' = [inTransit EXCEPT ![<<f, p>>] = Tail(@)]
    /\ UNCHANGED <<recorder, talker, passed, eliminated>>

\* handle: the first frame of a flow passes and opens its list.
HandleFirst(f, n) ==
    /\ recorder[f] = <<>>
    /\ recorder' = [recorder EXCEPT ![f] = <<Entry(Wire(f, n), Wire(f, n))>>]
    /\ passed' = [passed EXCEPT ![f] = Append(@, n)]
    /\ UNCHANGED eliminated

\* handle: a frame that is not repetitive passes and is recorded.
HandleNew(f, n) ==
    /\ recorder[f] # <<>> /\ ~Repetitive(recorder[f], Wire(f, n))
    /\ recorder' = [recorder EXCEPT ![f] = Recorded(@, Wire(f, n))]
    /\ passed' = [passed EXCEPT ![f] = Append(@, n)]
    /\ UNCHANGED eliminated

\* handle: a repetitive frame is eliminated.
HandleRepetitive(f, n) ==
    /\ Repetitive(recorder[f], Wire(f, n))
    /\ eliminated' = [eliminated EXCEPT ![f] = @ \cup {n}]
    /\ UNCHANGED <<recorder, passed>>

\* DataPort::input receives the oldest copy of a path.
Receive(f, p) ==
    /\ inTransit[<<f, p>>] # <<>>
    /\ LET n == Head(inTransit[<<f, p>>])
       IN  HandleFirst(f, n) \/ HandleNew(f, n) \/ HandleRepetitive(f, n)
    /\ inTransit' = [inTransit EXCEPT ![<<f, p>>] = Tail(@)]
    /\ UNCHANGED talker

Next ==
    \/ \E f \in Flows : Send(f) \/ Restart(f)
    \/ \E f \in Flows, p \in Paths : Receive(f, p) \/ Lose(f, p)

Spec == Init /\ [][Next]_vars

-----------------------------------------------------------------------------
\* Properties

TypeOK ==
    /\ recorder \in [Flows -> Seq(Interval)]
    /\ counter \in [Flows -> 0 .. MaxFrames]
    /\ sent \in [Flows -> Seq(1 .. MaxFrames)]
    /\ restarts \in [Flows -> 0 .. MaxRestarts]
    /\ inTransit \in [Flows \X Paths -> Seq(Nat)]
    /\ passed \in [Flows -> Seq(Nat)]
    /\ eliminated \in [Flows -> SUBSET Nat]

\* The list stays canonical under every order of arrival: proper intervals, in
\* increasing order, with at least one missing number between neighbours.  The
\* walk of checkRepetitive is right only on such lists.
Canonical ==
    \A f \in Flows :
        /\ \A i \in DOMAIN recorder[f] : recorder[f][i].lower <= recorder[f][i].upper
        /\ \A i, j \in DOMAIN recorder[f] :
              i < j => recorder[f][i].upper + 1 < recorder[f][j].lower

\* The numbers of the frames that passed.
PassedNumbers(f) == {Wire(f, n) : n \in ToSet(passed[f])}

\* The list records the numbers that passed, all of them and no other.
RecordsWhatPassed == \A f \in Flows : Numbers(recorder[f]) = PassedNumbers(f)

\* No frame passes twice, over whatever paths, in whatever order its copies come.
PassesOnce == \A f \in Flows : IsInjective(passed[f])

\* A frame is eliminated without a copy having passed only for two reasons: its
\* number is below all recorded ones, or another frame carried the same number, sent
\* before the counter wrapped or before the talker restarted.
EliminationExplained ==
    \A f \in Flows : \A n \in eliminated[f] :
        \/ n \in ToSet(passed[f])
        \/ \E m \in ToSet(passed[f]) : m # n /\ Wire(f, m) = Wire(f, n)
        \/ \A s \in PassedNumbers(f) : Wire(f, n) < s

\* The list implements the set of numbers and its rule.
Recovery == INSTANCE SequenceRecovery
    WITH seen <- [f \in Flows |-> Numbers(recorder[f])]

ImplementsRecovery == Recovery!Spec

-----------------------------------------------------------------------------
\* A statement of the repository that the code does not keep

\* "isRepetitive" guards "eliminate frame" (BaseRecoveryFunction.cc:19-25): only
\* a frame of which a copy passed is eliminated.
EliminatesOnlyRepetitive == \A f \in Flows : eliminated[f] \subseteq ToSet(passed[f])
=============================================================================
