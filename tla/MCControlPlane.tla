--------------------------- MODULE MCControlPlane ---------------------------
(***************************************************************************)
(* Instances of ControlPlane for TLC: a switch and a host with one data    *)
(* port each.  A run of one second at once, one of one second after a      *)
(* second (the stop of one is the start of the other when they are typed   *)
(* in a row), a line that is no command, and one with each argument no     *)
(* number.                                                                 *)
(***************************************************************************)
EXTENDS ControlPlane

MCPortNum == [n \in Nodes |-> 1]

Line(cmd, delay, run) == [cmd |-> cmd, delay |-> delay, run |-> run]

MCLines ==
    {Line("run", 0, 1), Line("run", 1, 1), Line("other", 0, 0),
     Line("noDelay", 0, 0), Line("noTime", 0, 0)}
=============================================================================
