--------------------------- MODULE MCTickerDrift ---------------------------
(***************************************************************************)
(* Instances of TickerDrift for TLC: lists of one to three entries of      *)
(* different length, two flows of different period, and the monitor.  A    *)
(* second has four nanoseconds and two units, so that intervals below, at  *)
(* and above a second occur.                                               *)
(***************************************************************************)
EXTENDS TickerDrift

MCChains ==
    {[kind |-> "gate", lengths |-> l] : l \in {<<2>>, <<3, 1>>, <<2, 3, 1>>}}
        \cup {[kind |-> "flow", lengths |-> <<1, 3>>], [kind |-> "monitor", lengths |-> <<2>>]}
MCSteps == {-3, 2}
=============================================================================
