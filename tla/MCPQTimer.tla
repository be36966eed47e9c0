----------------------------- MODULE MCPQTimer -----------------------------
(***************************************************************************)
(* Instances of PQTimer for TLC.  A running instance holds, for each run   *)
(* command, the stop ticker, one ticker per port and the monitor, and one  *)
(* successor while a ticker runs.  Cells is at least one more than that,   *)
(* so that new always has a choice of cells, among them those of deleted   *)
(* tickers.                                                                *)
(***************************************************************************)
EXTENDS PQTimer

CONSTANT Cells  \* the number of addresses

MCAddresses == 1 .. Cells
=============================================================================
