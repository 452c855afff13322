---------------------------- MODULE RollingWindow ----------------------------
(***************************************************************************)
(* What a run promises the operator about the hosts of a window, without   *)
(* plans, steps or a journal.  Each host gets at most one verdict:         *)
(* complete, partial or failed.  A host with a lost occupant is never      *)
(* complete, a verdict is never revised, a run that exits 0 lost nothing   *)
(* on any host, and a run that was refused touched none of them.           *)
(***************************************************************************)
CONSTANTS Host, Slot

VARIABLES
  verdict,   \* per host: "open", "complete", "partial" or "failed"
  lost,      \* per host: the occupants that could not be restored
  exit       \* "running", or how the run ended

avars == <<verdict, lost, exit>>

TypeOK ==
  /\ verdict \in [Host -> {"open", "complete", "partial", "failed"}]
  /\ lost \in [Host -> SUBSET Slot]
  /\ exit \in {"running", "OK", "PARTIAL", "REFUSED", "TRANSPORT", "crashed"}

Init ==
  /\ verdict = [h \in Host |-> "open"]
  /\ lost = [h \in Host |-> {}]
  /\ exit = "running"

Open(h) == exit = "running" /\ verdict[h] = "open"

Lose(h, s) ==
  /\ Open(h)
  /\ lost' = [lost EXCEPT ![h] = @ \cup {s}]
  /\ UNCHANGED <<verdict, exit>>

Judge(h, v) ==
  /\ Open(h)
  /\ v = "complete" => lost[h] = {}
  /\ v = "partial" => lost[h] # {}
  /\ verdict' = [verdict EXCEPT ![h] = v]
  /\ UNCHANGED <<lost, exit>>

End(code) ==
  /\ exit = "running"
  /\ code = "OK" => \A h \in Host : lost[h] = {} /\ verdict[h] # "failed"
  /\ code = "REFUSED" => \A h \in Host : lost[h] = {} /\ verdict[h] = "open"
  /\ exit' = code
  /\ UNCHANGED <<verdict, lost>>

Next ==
  \/ \E h \in Host, s \in Slot : Lose(h, s)
  \/ \E h \in Host, v \in {"complete", "partial", "failed"} : Judge(h, v)
  \/ \E code \in {"OK", "PARTIAL", "REFUSED", "TRANSPORT", "crashed"} : End(code)

Spec == Init /\ [][Next]_avars
==============================================================================
