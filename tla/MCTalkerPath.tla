---------------------------- MODULE MCTalkerPath ----------------------------
(***************************************************************************)
(* Instances of TalkerPath for TLC: a flow whose size is a multiple of the *)
(* payload, as in the shipped profiles, and one whose size is not; flows   *)
(* that fit the tag, that are equal in it, and one that fits no entry.     *)
(***************************************************************************)
EXTENDS TalkerPath

MCSize == [i \in Indices |-> IF i = 0 THEN 40 ELSE 30]

Flows(p0, id0, p1, id1) ==
    [i \in Indices |-> IF i = 0 THEN [pcp |-> p0, id |-> id0] ELSE [pcp |-> p1, id |-> id1]]

MCProfiles == {Flows(7, 1, 5, 2), Flows(7, 1, 5, 257), Flows(8, 3, 256, 300)}
=============================================================================
