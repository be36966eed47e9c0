--------------------------- MODULE FrameRecorder ---------------------------
(***************************************************************************)
(* frame_recorder and BaseRecoveryFunction::checkRepetitive: the ordered   *)
(* list of intervals of sequence numbers a port keeps for a flow, the test *)
(* whether a number is repetitive, and the list after a number passed.     *)
(***************************************************************************)
EXTENDS Integers, Sequences, FiniteSetsExt, SequencesExt

Entry(a, b) == [lower |-> a, upper |-> b]

\* The walk leaves entry i behind: "continue" at the inner else.
WalksOn(fr, i, s) ==
    /\ s >= fr[i].upper + 2
    /\ i < Len(fr)
    /\ s >= fr[i + 1].lower

\* The entry at which the walk stops.
Stop(fr, s) == Min({i \in DOMAIN fr : ~WalksOn(fr, i, s)})

\* Mutant of Repetitive: the upper end of an interval is left out.
RepetitiveBelowUpper(fr, s) ==
    /\ fr # <<>>
    /\ s < fr[Stop(fr, s)].upper

\* Mutant of Repetitive: the number after an interval counts as in it.
RepetitiveUpToNext(fr, s) ==
    /\ fr # <<>>
    /\ s <= fr[Stop(fr, s)].upper + 1

\* Mutant of Repetitive: a number below the first interval is new.
RepetitiveInside(fr, s) ==
    /\ fr # <<>>
    /\ s \in fr[Stop(fr, s)].lower .. fr[Stop(fr, s)].upper

\* The walk ends at an entry that holds s, or before the first entry.
Repetitive(fr, s) ==
    /\ fr # <<>>
    /\ s <= fr[Stop(fr, s)].upper

\* Mutant of Recorded: two intervals that meet are not merged.
RecordedUnmerged(fr, s) ==
    LET i == Stop(fr, s)
    IN  IF s = fr[i].upper + 1 THEN [fr EXCEPT ![i].upper = s]
        ELSE InsertAt(fr, i + 1, Entry(s, s))

\* Mutant of Recorded: the merge erases the old interval without its numbers.
RecordedErasing(fr, s) ==
    LET i == Stop(fr, s)
        touchesNext == i < Len(fr) /\ s = fr[i + 1].lower - 1
    IN  IF s = fr[i].upper + 1
        THEN IF touchesNext
             THEN RemoveAt([fr EXCEPT ![i + 1].lower = s], i)
             ELSE [fr EXCEPT ![i].upper = s]
        ELSE IF touchesNext
             THEN [fr EXCEPT ![i + 1].lower = s]
             ELSE InsertAt(fr, i + 1, Entry(s, s))

\* The list after a frame with number s passed (fr not empty).
Recorded(fr, s) ==
    LET i == Stop(fr, s)
        touchesNext == i < Len(fr) /\ s = fr[i + 1].lower - 1
    IN  IF s = fr[i].upper + 1
        THEN IF touchesNext
             THEN RemoveAt([fr EXCEPT ![i + 1].lower = fr[i].lower], i)
             ELSE [fr EXCEPT ![i].upper = s]
        ELSE IF touchesNext
             THEN [fr EXCEPT ![i + 1].lower = s]
             ELSE InsertAt(fr, i + 1, Entry(s, s))

\* The numbers a list stands for.
Numbers(fr) == UNION {fr[i].lower .. fr[i].upper : i \in DOMAIN fr}
=============================================================================
