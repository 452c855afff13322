------------------------------ MODULE MCSlots -------------------------------
(***************************************************************************)
(* Slots of two panes of one host, two conversations, and two rolls at     *)
(* once.                                                                   *)
(***************************************************************************)
EXTENDS Slots, TLC

CONSTANTS h1, a, b, talk1, talk2, p1, p2

MCHostOf == [l \in {a, b} |-> h1]

(* The human ids, the conversations and the rolls are told apart by        *)
(* nothing.                                                                *)
Swaps == Permutations({a, b}) \cup Permutations({talk1, talk2}) \cup Permutations({p1, p2})
=============================================================================
