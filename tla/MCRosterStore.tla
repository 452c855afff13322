---------------------------- MODULE MCRosterStore ----------------------------
(***************************************************************************)
(* RosterStore on three panes of two hosts, or two panes of one, with the  *)
(* operator's verbs alone or beside the heartbeat timer.                   *)
(***************************************************************************)
EXTENDS RosterStore, TLC

CONSTANTS h1, h2, s1, s2, s3, operator, timer

MCSlot == {s1, s2, s3}
MCHostOf == [s \in MCSlot |-> IF s = s3 THEN h2 ELSE h1]
PairHostOf == [s \in {s1, s2} |-> h1]

(* The two panes of h1 are told apart by nothing. *)
Swap == Permutations({s1, s2})
=============================================================================
