---------------------------- MODULE MCEgressPort ----------------------------
(***************************************************************************)
(* Instances of EgressPort for TLC: a three-entry gate control list in the *)
(* shape of the shipped simulation profiles (a critical entry that opens   *)
(* the high queue only, a shared entry, a best-effort entry), streams that *)
(* are scheduled, scheduled on the wrong queue, and not scheduled at all.  *)
(***************************************************************************)
EXTENDS EgressPort

Entry(f, p, g) == [flow |-> f, phase |-> p, gates |-> g]
Carries(f, p, c) == [flow |-> f, phase |-> p, pcp |-> c]

MCGcl == (0 :> Entry(1, 0, {1})) @@ (1 :> Entry(2, 0, {0, 1})) @@ (2 :> Entry(1, 1, {0}))

MCStreams == {Carries(1, 0, 1), Carries(2, 0, 1), Carries(2, 0, 0), Carries(1, 1, 0), Carries(9, 0, 1)}
=============================================================================
