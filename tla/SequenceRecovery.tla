-------------------------- MODULE SequenceRecovery --------------------------
(***************************************************************************)
(* What the recovery function of a port decides, as a set of sequence      *)
(* numbers: a flow's first frame passes; a later one passes when its       *)
(* number is new and lies above some number that passed before.  A number  *)
(* that passed is remembered for ever.                                     *)
(***************************************************************************)
EXTENDS Integers, FiniteSets

CONSTANTS
    Flows,      \* flow identifiers
    SeqSpace    \* sequence numbers are 0 .. SeqSpace - 1

Seqs == 0 .. SeqSpace - 1

VARIABLES
    seen        \* flow -> numbers passed so far

Init == seen = [f \in Flows |-> {}]

\* The frame passes and its number is recorded.
Pass(f, s) ==
    /\ s \notin seen[f]
    /\ seen[f] = {} \/ \E n \in seen[f] : n < s
    /\ seen' = [seen EXCEPT ![f] = @ \cup {s}]

Next == \E f \in Flows, s \in Seqs : Pass(f, s)

Spec == Init /\ [][Next]_seen
=============================================================================
