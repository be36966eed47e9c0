----------------------------- MODULE TalkerPath -----------------------------
(***************************************************************************)
(* A talker, a switch and a listener on a path that loses nothing: what    *)
(* becomes of the frames FlowApp builds.  They are encoded and sent by the *)
(* talker, decoded by the switch, pass or do not pass the recovery         *)
(* function of its port, which knows a flow by the byte of the tag, wait   *)
(* there for an entry of the enhanced gate control list, which knows it by *)
(* the number in the profile, and are sent and decoded once more.          *)
(*                                                                         *)
(* The path keeps the order of the frames, so all that follows the send    *)
(* handler is one step with it.                                            *)
(***************************************************************************)
EXTENDS FlowApp, FrameCodec, FrameRecorder

CONSTANT Profiles   \* per flow index: pcp and uniqueID

ASSUME ProfileAssumption ==
    /\ Profiles \subseteq [Indices -> [pcp : Nat, id : Nat]]
    /\ DataLen = Mtu

VARIABLES
    profile,    \* Flow::pcp and Flow::uniqueID of the flows
    recorder,   \* m_flowSeqMap of the port of the switch
    heard,      \* history: the frames the listener got, and what the talker built
    stuck,      \* history: the frames no entry of the list serves
    burst       \* history: the flow the last burst was counted for, what it carried

path == <<profile, recorder, heard, stuck, burst>>
talkerVars == <<vars, path>>

-----------------------------------------------------------------------------
PathInit ==
    /\ Init
    /\ profile \in Profiles
    /\ recorder = [fid \in {Uint8(profile[i].id) : i \in Indices} |-> <<>>]
    /\ heard = <<>>
    /\ stuck = {}
    /\ burst = [flow |-> 0, carried |-> 0, undisturbed |-> FALSE]

\* The flow numbers in the entries of the list, not truncated.
Scheduled(fid) == \E i \in Indices : profile[i].id = fid

\* Mutant of Eliminates: the flow of a frame is not looked at.
EliminatesByNumber(b) == \E fid \in DOMAIN recorder : Repetitive(recorder[fid], b.seq)

\* handle: the recovery function of the port eliminates the frame.
Eliminates(b) == Repetitive(recorder[b.fid], b.seq)

\* handle: the list of the flow after a frame passed.
Passed(b) ==
    IF recorder[b.fid] = <<>> THEN <<Entry(b.seq, b.seq)>> ELSE Recorded(recorder[b.fid], b.seq)

\* The body the switch makes of the frame f of the talker.
AtSwitch(f, dei) ==
    Decode(Encode(Body(profile[f.flow].pcp, profile[f.flow].id, f.seq, f.bytes), dei))

\* The send handler sends the frame just built, and the path carries it; the drop
\* bit is indeterminate whenever a frame is sent.
Convey ==
    LET f == Last(frames)
    IN  \E dei, again \in Bit :
            LET b == AtSwitch(f, dei)
            IN  /\ recorder' = IF Eliminates(b) THEN recorder ELSE [recorder EXCEPT ![b.fid] = Passed(b)]
                /\ heard' = IF ~Eliminates(b) /\ Scheduled(b.fid)
                            THEN Append(heard, [built |-> f, relayed |-> b,
                                                frame |-> Decode(Encode(b, again))])
                            ELSE heard
                /\ stuck' = IF ~Eliminates(b) /\ ~Scheduled(b.fid) THEN stuck \cup {f} ELSE stuck
                /\ burst' = [burst EXCEPT !.carried = @ +
                                Encode(Body(0, 0, f.seq, f.bytes), dei).payload]

Send == Store /\ Convey /\ UNCHANGED profile

\* registerFlowToTimer for the current flow, in a ticker: a burst begins, undisturbed
\* unless the loop is in the middle of a frame.
Announce ==
    /\ Start \/ Tick
    /\ burst' = [flow |-> flowIndex, carried |-> 0, undisturbed |-> pc \in {"idle", "disable"}]
    /\ UNCHANGED <<profile, recorder, heard, stuck>>

\* The listener in the same port receives, which changes the count of frames due.
Disturb ==
    /\ Input
    /\ burst' = [burst EXCEPT !.undisturbed = FALSE]
    /\ UNCHANGED <<profile, recorder, heard, stuck>>

Prepare ==
    /\ \/ NothingLeft \/ Output \/ LookUp \/ ChooseSize \/ ChooseLast \/ Build
       \/ Load \/ Disable \/ Count
    /\ UNCHANGED path

PathNext == Announce \/ Disturb \/ Prepare \/ Send

(***************************************************************************)
(* Fairness: the loop serves a writable socket and finishes its handlers.  *)
(***************************************************************************)
PathSpec == PathInit /\ [][PathNext]_talkerVars /\ WF_talkerVars(Prepare \/ Send)

-----------------------------------------------------------------------------
\* Properties

PathTypeOK ==
    /\ TypeOK
    /\ profile \in Profiles
    /\ DOMAIN recorder \subseteq Byte
    /\ \A fid \in DOMAIN recorder :
          recorder[fid] \in Seq([lower : Word, upper : Word])
    /\ \A n \in DOMAIN heard : heard[n].frame \in Bodies
    /\ stuck \subseteq ToSet(frames)
    /\ burst \in [flow : Indices, carried : Nat, undisturbed : BOOLEAN]

\* After one and after two encodings and decodings, with an indeterminate drop bit, a
\* frame still names an existing queue and carries the number of the talker modulo
\* 2^16; code point and flow are those of the profile when they fit their fields, and
\* a flow that does not fit arrives as another one.
TagsArrive ==
    \A n \in DOMAIN heard :
        LET p == profile[heard[n].built.flow]
        IN  \A b \in {heard[n].relayed, heard[n].frame} :
                /\ b.pcp \in 0 .. 7
                /\ p.pcp < 8 => b.pcp = p.pcp
                /\ b.fid = p.id % 256
                /\ b.vid = 1 /\ b.phase = 0
                /\ b.seq = Uint16(heard[n].built.seq)

\* Two flows the tag cannot tell apart.
Alike(i, j) == profile[i].id % 256 = profile[j].id % 256

Sent == IF pc \in {"load", "store"} THEN Front(frames) ELSE frames

\* On a path that loses nothing a frame reaches the listener, once, with three
\* exceptions. Its flow does not fit the tag, and it waits for ever for an entry, which
\* only happens to flows beyond 255; or it is taken for a copy of another frame of the
\* same 16-bit number, of a flow that is equal in the tag or of its own; or its number
\* has wrapped to zero, which is below every number of the list.
ReachesUnlessFolded ==
    \A f \in ToSet(Sent) :
        \/ \E n \in DOMAIN heard :
              heard[n].built = f /\ \A m \in DOMAIN heard : heard[m].built = f => m = n
        \/ f \in stuck /\ profile[f.flow].id > 255
        \/ \E g \in ToSet(Sent) :
              g # f /\ Alike(g.flow, f.flow) /\ Uint16(g.seq) = Uint16(f.seq)
        \/ Uint16(f.seq) = 0

\* A burst that nothing disturbs carries the size of the flow it was counted for,
\* but for one payload and what each frame is cut by: the wrong size of the last
\* frame and the ten bytes that do not fit do not add up to more, whatever burst
\* was overwritten by this one.
BurstWithinOneFrame ==
    burst.undisturbed /\ running /\ pc = "idle" /\ iframeCount = 0 =>
        /\ burst.carried < Size[burst.flow] + Mtu
        /\ burst.carried + Mtu + (Mtu - MaxPayload) * Frames(burst.flow) >= Size[burst.flow]
=============================================================================
